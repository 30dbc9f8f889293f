------------------------- MODULE ExamAttemptProofs -------------------------
(***************************************************************************)
(* Proofs about ExamAttempt, for any number of students, sessions and      *)
(* overlapping requests.  AttemptInv is the inductive invariant: what the  *)
(* safety invariants of the module say of committed rows, plus what a      *)
(* start request carries from its SELECTs to its INSERT.                   *)
(***************************************************************************)
EXTENDS ExamAttempt, TLAPS

\* What a request has read about the assignment still limits what it may insert.
RequestsKnow ==
  \A r \in Request : req[r].pc \in {"selected", "checked"} =>
    /\ req[r].user \in User
    /\ req[r].preview => req[r].user = Owner
    /\ astatus \in {"none", "draft"} => req[r].preview

\* Before the assignment exists nothing refers to it.
NothingBeforeCreation ==
  astatus = "none" => /\ Stored = {}
                      /\ \A r \in Request : req[r].pc \in {"idle", "rejected"}

\* A request past its check whose user has a submitted attempt was overtaken.
CheckedMeansOvertaken ==
  \A r \in Request : \A s \in Stored :
    /\ req[r].pc = "checked"
    /\ ~req[r].preview
    /\ ~practice
    /\ sess[s].user = req[r].user
    /\ ~sess[s].preview
    /\ sess[s].status = "completed"
    => req[r].user \in overtaken

\* No transaction begins before the assignment exists.
TransactionsAfterCreation ==
  astatus = "none" => \A t \in TeardownKinds : tx[t].pc = "idle"

\* what the invariant says of requests and rows
Parts ==
  /\ RequestsKnow
  /\ NothingBeforeCreation
  /\ OneActiveSession
  /\ DraftHoldsOnlyPreviews
  /\ CheckedMeansOvertaken
  /\ RetakeNeedsOverlap

AttemptInv == TypeOK /\ TransactionsAfterCreation /\ Parts

-----------------------------------------------------------------------------
\* The type invariant.
LEMMA TypeInit == Init => TypeOK
<1> SUFFICES ASSUME Init PROVE TypeOK
  OBVIOUS
<1>1. sess \in [Session -> SessionRow]
  BY DEF Init, SessionRow
<1>2. req \in [Request -> StartRequest]
  BY DEF Init, StartRequest
<1>3. tx \in [TeardownKinds -> Transaction]
  BY DEF Init, Transaction, NoTx
<1> QED
  BY <1>1, <1>2, <1>3 DEF Init, TypeOK

\* A start request's own steps keep the types.
LEMMA TypeStart ==
  ASSUME TypeOK, NEW r \in Request
  PROVE  /\ \A u \in User : StartSelect(r, u) => TypeOK'
         /\ StartStep(r) => TypeOK'
<1>1. ASSUME NEW u \in User, StartSelect(r, u) PROVE TypeOK'
  BY <1>1 DEF TypeOK, StartSelect, StartRequest
<1>2. CASE SingleAttemptCheck(r)
  BY <1>2 DEF TypeOK, SingleAttemptCheck, RejectIfAny, StartRequest
<1>3. CASE StartInsert(r)
  <2>1. req[r] \in StartRequest
    BY DEF TypeOK
  <2>2. NewRow(r) \in SessionRow
    BY <2>1 DEF NewRow, StartRequest, SessionRow
  <2>3. sess' \in [Session -> SessionRow]
    BY <1>3, <2>2 DEF TypeOK, StartInsert, InsertInto, Unused
  <2>4. req' \in [Request -> StartRequest]
    BY <1>3 DEF TypeOK, StartInsert, InsertInto, Unused, StartRequest
  <2> QED
    BY <1>3, <2>3, <2>4 DEF TypeOK, StartInsert, InsertInto
<1>4. CASE StartConflict(r)
  BY <1>4 DEF TypeOK, StartConflict, StartRequest
<1>5. CASE StartFallback(r)
  <2>1. req' \in [Request -> StartRequest]
    BY <1>5 DEF TypeOK, StartFallback, AnswerExisting, ActiveOf, Stored, Unused, StartRequest
  <2>2. sess' \in [Session -> SessionRow]
    BY <1>5 DEF TypeOK, StartFallback, AnswerExisting, Unused, SessionRow
  <2> QED
    BY <1>5, <2>1, <2>2 DEF TypeOK, StartFallback, AnswerExisting
<1> QED
  BY <1>1, <1>2, <1>3, <1>4, <1>5 DEF StartStep

\* Every step keeps the types.
LEMMA TypeNext == TypeOK /\ [Next]_vars => TypeOK'
<1> SUFFICES ASSUME TypeOK, [Next]_vars PROVE TypeOK'
  OBVIOUS
<1>0. \A t \in TeardownKinds : Purged(t) \in [Session -> SessionRow]
  BY DEF TypeOK, Purged, SessionRow
<1>1. CASE CreateAssignment
  BY <1>1 DEF TypeOK, CreateAssignment
<1>2. CASE AssignExam
  BY <1>2 DEF TypeOK, AssignExam
<1>3. CASE \E r \in Request, u \in User : StartSelect(r, u)
  BY <1>3, TypeStart
<1>4. CASE \E r \in Request : StartStep(r)
  BY <1>4, TypeStart
<1>5. ASSUME NEW u \in User, NEW s \in Session, Complete(u, s) PROVE TypeOK'
  BY <1>5 DEF TypeOK, Complete, Finish, ActiveOf, Stored, SessionRow
<1>6. CASE Close
  BY <1>6 DEF TypeOK, Close
<1>7. CASE PublishUpdate
  BY <1>7 DEF TypeOK, PublishUpdate, TeardownKinds, Transaction
<1>8. ASSUME NEW t \in TeardownKinds, TeardownSelect(t) PROVE TypeOK'
  BY <1>8 DEF TypeOK, TeardownSelect, TeardownKinds, Transaction
<1>9. CASE PublishRows
  BY <1>9 DEF TypeOK, PublishRows, PublishDeleting, Stored, TeardownKinds, Transaction
<1>10. CASE PublishCommit
  BY <1>10, <1>0 DEF TypeOK, PublishCommit, PublishEnd, TeardownKinds, Transaction, NoTx
<1>11. ASSUME NEW t \in TeardownKinds, TeardownRows(t) PROVE TypeOK'
  BY <1>11 DEF TypeOK, TeardownRows, Stored, TeardownKinds, Transaction
<1>12. ASSUME NEW t \in TeardownKinds, Rollback(t) PROVE TypeOK'
  BY <1>12 DEF TypeOK, Rollback, TeardownKinds, Transaction, NoTx
<1>13. ASSUME NEW t \in TeardownKinds, RemoveAll(t) PROVE TypeOK'
  BY <1>13, <1>0 DEF TypeOK, RemoveAll, TeardownKinds, Transaction, NoTx
<1>14. ASSUME NEW t \in TeardownKinds, RemoveChildren(t) PROVE TypeOK'
  BY <1>14, <1>0 DEF TypeOK, RemoveChildren, TeardownKinds, Transaction, NoTx
<1>15. ASSUME NEW t \in TeardownKinds, Progress(t) PROVE TypeOK'
  BY <1>15, <1>9, <1>10, <1>11, <1>12, <1>13, <1>14
     DEF Progress, DiscardCommit, CleanupCommit, DraftCommit, DeleteCommit, DeadlockVictim
<1>16. CASE UNCHANGED vars
  BY <1>16 DEF TypeOK, vars
<1> QED
  BY <1>1, <1>2, <1>3, <1>4, <1>5, <1>6, <1>7, <1>8, <1>15, <1>16 DEF Next

\* Type correctness of the exam session protocol.
THEOREM TypeCorrect == Spec => []TypeOK
BY TypeInit, TypeNext, PTL DEF Spec

-----------------------------------------------------------------------------
\* A step that only removes rows, and that only moves the assignment forward, is safe:
\* this covers close and every step of a teardown.
LEMMA ShrinkingSteps ==
  ASSUME TypeOK, Parts,
         UNCHANGED <<practice, req, overtaken>>,
         astatus' = astatus \/ (astatus # "none" /\ astatus' \in {"active", "closed", "deleted"}),
         sess' \in [Session -> SessionRow],
         \A s \in Session : sess'[s] = sess[s] \/ sess'[s].status = "gone"
  PROVE  Parts'
<1> USE DEF Stored
<1>1. /\ Stored' \subseteq Stored
      /\ \A s \in Stored' : sess'[s] = sess[s]
  OBVIOUS
<1>2. \A u \in User : ActiveOf(u)' \subseteq ActiveOf(u) /\ Attempts(u)' \subseteq Attempts(u)
  BY <1>1 DEF ActiveOf, Attempts
<1>3. RequestsKnow'
  BY DEF Parts, RequestsKnow, TypeOK
<1>4. NothingBeforeCreation'
  BY <1>1 DEF Parts, NothingBeforeCreation
<1>5. OneActiveSession'
  BY <1>2 DEF Parts, OneActiveSession
<1>6. DraftHoldsOnlyPreviews'
  BY <1>1 DEF Parts, DraftHoldsOnlyPreviews
<1>7. CheckedMeansOvertaken'
  BY <1>1 DEF Parts, CheckedMeansOvertaken
<1>8. RetakeNeedsOverlap'
  BY <1>2 DEF Parts, RetakeNeedsOverlap
<1> QED
  BY <1>3, <1>4, <1>5, <1>6, <1>7, <1>8 DEF Parts

\* A step of a request that inserts nothing and carries no new knowledge.
LEMMA AnsweringSteps ==
  ASSUME TypeOK, Parts, NEW r \in Request,
         UNCHANGED <<astatus, practice, overtaken>>,
         req' \in [Request -> StartRequest],
         \A q \in Request \ {r} : req'[q] = req[q],
         req'[r].pc \in {"conflict", "done", "rejected"},
         astatus = "none" => req'[r].pc = "rejected",
         sess' \in [Session -> SessionRow],
         \A s \in Session : sess'[s] = sess[s] \/ (s \in Unused /\ sess'[s].status = "phantom")
  PROVE  Parts'
<1>1. /\ Stored' = Stored
      /\ \A s \in Stored' : sess'[s] = sess[s]
  BY DEF Stored, Unused
<1>2. \A u \in User : ActiveOf(u)' = ActiveOf(u) /\ Attempts(u)' = Attempts(u)
  BY <1>1 DEF ActiveOf, Attempts
<1>3. \A q \in Request : req'[q].pc \in {"selected", "checked"} => q # r /\ req'[q] = req[q]
  OBVIOUS
<1>4. RequestsKnow'
  BY <1>3 DEF Parts, RequestsKnow
<1>5. NothingBeforeCreation'
  <2>1. ASSUME astatus = "none", NEW q \in Request PROVE req'[q].pc \in {"idle", "rejected"}
    BY <2>1 DEF Parts, NothingBeforeCreation
  <2> QED
    BY <1>1, <2>1 DEF Parts, NothingBeforeCreation
<1>6. OneActiveSession'
  BY <1>2 DEF Parts, OneActiveSession
<1>7. DraftHoldsOnlyPreviews'
  BY <1>1 DEF Parts, DraftHoldsOnlyPreviews
<1>8. CheckedMeansOvertaken'
  BY <1>1, <1>3 DEF Parts, CheckedMeansOvertaken
<1>9. RetakeNeedsOverlap'
  BY <1>2 DEF Parts, RetakeNeedsOverlap
<1> QED
  BY <1>4, <1>5, <1>6, <1>7, <1>8, <1>9 DEF Parts

\* Reading the assignment: the request leaves with what it may insert.
LEMMA SelectStep ==
  ASSUME TypeOK, Parts, NEW r \in Request, NEW u \in User, StartSelect(r, u)
  PROVE  Parts'
<1> USE DEF StartSelect
<1>1. req'[r].pc \in {"selected", "rejected"} /\ \A q \in Request \ {r} : req'[q] = req[q]
  BY DEF TypeOK, StartRequest
<1>2. req'[r].pc = "selected" =>
        MayStart(u) /\ req'[r].user = u /\ req'[r].preview = (astatus = "draft")
  BY DEF TypeOK, StartRequest
<1>3. RequestsKnow'
  BY <1>1, <1>2 DEF Parts, RequestsKnow, MayStart
<1>4. astatus = "none" => req'[r].pc = "rejected"
  BY <1>1, <1>2 DEF MayStart
<1>5. NothingBeforeCreation'
  BY <1>1, <1>4 DEF Parts, NothingBeforeCreation, Stored
<1>6. CheckedMeansOvertaken'
  BY <1>1 DEF Parts, CheckedMeansOvertaken, Stored
<1> QED
  BY <1>3, <1>5, <1>6
     DEF Parts, OneActiveSession, DraftHoldsOnlyPreviews, RetakeNeedsOverlap, ActiveOf, Attempts, Stored

\* The single-attempt check: whoever passes it had no submitted session.
LEMMA CheckStep ==
  ASSUME TypeOK, Parts, NEW r \in Request, SingleAttemptCheck(r)
  PROVE  Parts'
<1> USE DEF SingleAttemptCheck, RejectIfAny
<1>1. /\ req[r].pc = "selected"
      /\ req'[r].pc \in {"checked", "rejected"}
      /\ req'[r].user = req[r].user /\ req'[r].preview = req[r].preview
      /\ \A q \in Request \ {r} : req'[q] = req[q]
  BY DEF TypeOK, StartRequest
<1>2. req'[r].pc = "checked" => req[r].preview \/ practice \/ CompletedOf(req[r].user) = {}
  BY DEF TypeOK, StartRequest
<1>3. RequestsKnow'
  BY <1>1 DEF Parts, RequestsKnow
<1>4. astatus # "none"
  BY <1>1 DEF Parts, NothingBeforeCreation
<1>5. CheckedMeansOvertaken'
  BY <1>1, <1>2 DEF Parts, CheckedMeansOvertaken, Stored, CompletedOf
<1> QED
  BY <1>3, <1>4, <1>5
     DEF Parts, NothingBeforeCreation, OneActiveSession, DraftHoldsOnlyPreviews,
         RetakeNeedsOverlap, ActiveOf, Attempts, Stored

\* The insert: the user had no active session, so any earlier attempt was submitted,
\* after this request's check.
LEMMA InsertStep ==
  ASSUME TypeOK, Parts, NEW r \in Request, NEW s \in Unused,
         req[r].pc = "checked", Exists, ActiveOf(req[r].user) = {},
         sess' = [sess EXCEPT ![s] = NewRow(r)],
         req' = [req EXCEPT ![r].pc = "done", ![r].sid = s],
         UNCHANGED <<astatus, practice, overtaken>>
  PROVE  Parts'
<1>1. /\ s \in Session /\ s \notin Stored
      /\ Stored' = Stored \cup {s}
      /\ sess'[s] = NewRow(r)
      /\ \A t \in Stored : sess'[t] = sess[t]
  BY DEF TypeOK, Stored, Unused, NewRow
<1>2. req'[r].pc = "done" /\ \A q \in Request \ {r} : req'[q] = req[q]
  BY DEF TypeOK, StartRequest
<1>3. /\ req[r].user \in User
      /\ req[r].preview => req[r].user = Owner
      /\ astatus \in {"none", "draft"} => req[r].preview
  BY DEF Parts, RequestsKnow
<1>4. \A u \in User : /\ ActiveOf(u)' \subseteq ActiveOf(u) \cup {s}
                      /\ s \in ActiveOf(u)' => u = req[r].user
  BY <1>1 DEF ActiveOf, NewRow
<1>5. RequestsKnow'
  BY <1>2 DEF Parts, RequestsKnow
<1>6. NothingBeforeCreation'
  BY DEF Exists, NothingBeforeCreation
<1>7. OneActiveSession'
  BY <1>4 DEF Parts, OneActiveSession
<1>8. DraftHoldsOnlyPreviews'
  BY <1>1, <1>3 DEF Parts, DraftHoldsOnlyPreviews, NewRow
<1>9. CheckedMeansOvertaken'
  <2> SUFFICES ASSUME NEW q \in Request, NEW t \in Stored',
                      req'[q].pc = "checked", ~req'[q].preview, ~practice,
                      sess'[t].user = req'[q].user, ~sess'[t].preview,
                      sess'[t].status = "completed"
               PROVE  req'[q].user \in overtaken
    BY DEF CheckedMeansOvertaken
  <2>0. sess'[s].status = "active"
    BY <1>1 DEF NewRow
  <2>1. q # r /\ t # s
    BY <1>2, <2>0
  <2> QED
    BY <1>1, <1>2, <2>1 DEF Parts, CheckedMeansOvertaken
<1>10. RetakeNeedsOverlap'
  <2> SUFFICES ASSUME NEW u \in User, NEW x \in Attempts(u)', NEW y \in Attempts(u)',
                      x # y, ~practice
               PROVE  u \in overtaken
    BY DEF RetakeNeedsOverlap
  <2>1. CASE x # s /\ y # s
    BY <1>1, <2>1 DEF Parts, RetakeNeedsOverlap, Attempts
  <2>2. ASSUME NEW z \in Attempts(u)', z # s, s \in Attempts(u)' PROVE u \in overtaken
    <3>1. u = req[r].user /\ ~req[r].preview
      BY <1>1, <2>2 DEF Attempts, NewRow
    <3>2. z \in Stored /\ sess[z].user = u /\ ~sess[z].preview
      BY <1>1, <2>2 DEF Attempts
    <3>3. sess[z].status = "completed"
      BY <3>1, <3>2 DEF ActiveOf, Stored
    <3> QED
      BY <3>1, <3>2, <3>3 DEF Parts, CheckedMeansOvertaken
  <2> QED
    BY <2>1, <2>2
<1> QED
  BY <1>5, <1>6, <1>7, <1>8, <1>9, <1>10 DEF Parts

\* Submitting: requests past their check are overtaken from now on.
LEMMA CompleteStep ==
  ASSUME TypeOK, Parts, NEW u \in User, NEW s \in Session, Complete(u, s)
  PROVE  Parts'
<1> USE DEF Complete, Finish
<1>1. /\ s \in Stored /\ sess[s].user = u
      /\ sess'[s].user = u /\ sess'[s].preview = sess[s].preview
      /\ sess'[s].status = "completed"
      /\ \A t \in Session \ {s} : sess'[t] = sess[t]
  BY DEF ActiveOf, Stored, TypeOK, SessionRow
<1>2. Stored' = Stored
  BY <1>1 DEF Stored
<1>3. \A v \in User : ActiveOf(v)' \subseteq ActiveOf(v) /\ Attempts(v)' = Attempts(v)
  BY <1>1, <1>2 DEF ActiveOf, Attempts
<1>4. overtaken \subseteq overtaken'
  OBVIOUS
<1>5. CheckedMeansOvertaken'
  <2> SUFFICES ASSUME NEW r \in Request, NEW t \in Stored,
                      req[r].pc = "checked", ~req[r].preview, ~practice,
                      sess'[t].user = req[r].user, ~sess'[t].preview,
                      sess'[t].status = "completed"
               PROVE  req[r].user \in overtaken'
    BY <1>2 DEF CheckedMeansOvertaken
  <2>1. CASE t = s
    BY <1>1, <2>1
  <2>2. CASE t # s
    BY <1>1, <1>4, <2>2 DEF Parts, CheckedMeansOvertaken, Stored
  <2> QED
    BY <2>1, <2>2
<1>6. RetakeNeedsOverlap'
  BY <1>3, <1>4 DEF Parts, RetakeNeedsOverlap
<1>7. OneActiveSession'
  BY <1>3 DEF Parts, OneActiveSession
<1>8. DraftHoldsOnlyPreviews'
  BY <1>1, <1>2 DEF Parts, DraftHoldsOnlyPreviews, Stored
<1> QED
  BY <1>2, <1>5, <1>6, <1>7, <1>8 DEF Parts, RequestsKnow, NothingBeforeCreation

\* A start request's own steps keep what the attempts rest on.
LEMMA PartsStart ==
  ASSUME TypeOK, Parts, NEW r \in Request, StartStep(r)
  PROVE  Parts'
<1> USE DEF StartStep
<1>0. TypeOK'
  BY TypeStart
<1>1. CASE SingleAttemptCheck(r)
  BY <1>1, CheckStep
<1>2. CASE StartInsert(r) /\ Exists
  <2>1. PICK s \in Unused : /\ sess' = [sess EXCEPT ![s] = NewRow(r)]
                            /\ req' = [req EXCEPT ![r].pc = "done", ![r].sid = s]
    BY <1>2 DEF StartInsert, InsertInto
  <2> QED
    BY <1>2, <2>1, InsertStep DEF StartInsert, InsertInto
<1>3. CASE StartInsert(r) /\ ~Exists
  <2>1. req'[r].pc = "rejected" /\ \A q \in Request \ {r} : req'[q] = req[q]
    BY <1>3 DEF StartInsert, InsertInto, TypeOK, StartRequest
  <2> QED
    BY <1>0, <1>3, <2>1, AnsweringSteps DEF StartInsert, InsertInto, TypeOK
<1>4. CASE StartConflict(r)
  <2>1. /\ req[r].pc = "checked"
        /\ req'[r].pc = "conflict" /\ \A q \in Request \ {r} : req'[q] = req[q]
    BY <1>4 DEF StartConflict, TypeOK, StartRequest
  <2>2. astatus # "none"
    BY <2>1 DEF Parts, NothingBeforeCreation
  <2> QED
    BY <1>0, <1>4, <2>1, <2>2, AnsweringSteps DEF StartConflict, TypeOK
<1>5. CASE StartFallback(r)
  <2>1. /\ req[r].pc = "conflict"
        /\ req'[r].pc = "done" /\ \A q \in Request \ {r} : req'[q] = req[q]
    BY <1>5 DEF StartFallback, AnswerExisting, TypeOK, StartRequest
  <2>2. astatus # "none"
    BY <2>1 DEF Parts, NothingBeforeCreation
  <2>3. \A s \in Session : sess'[s] = sess[s] \/ (s \in Unused /\ sess'[s].status = "phantom")
    BY <1>5 DEF StartFallback, AnswerExisting, Unused, TypeOK, SessionRow
  <2> QED
    BY <1>0, <1>5, <2>1, <2>2, <2>3, AnsweringSteps DEF StartFallback, AnswerExisting, TypeOK
<1> QED
  BY <1>1, <1>2, <1>3, <1>4, <1>5

\* A transaction's own steps: rows only disappear, and the assignment is only ever
\* published or deleted.
LEMMA PartsProgress ==
  ASSUME TypeOK, Parts, NEW t \in TeardownKinds, Progress(t), astatus # "none"
  PROVE  Parts'
<1>0. TypeOK'
  BY TypeNext DEF Next
<1>1. \A o \in TeardownKinds, s \in Session :
        Purged(o)[s] = sess[s] \/ Purged(o)[s].status = "gone"
  BY DEF Purged, TypeOK, SessionRow
<1>2. /\ UNCHANGED <<practice, req, overtaken>>
      /\ astatus' = astatus \/ astatus' \in {"active", "deleted"}
      /\ sess' = sess \/ \E o \in TeardownKinds : sess' = Purged(o)
  <2> DEFINE Shrinks ==
        /\ UNCHANGED <<practice, req, overtaken>>
        /\ astatus' = astatus \/ astatus' \in {"active", "deleted"}
        /\ sess' = sess \/ \E o \in TeardownKinds : sess' = Purged(o)
  <2>1. ASSUME NEW o \in TeardownKinds, \/ TeardownRows(o) \/ Rollback(o)
                                        \/ RemoveAll(o) \/ RemoveChildren(o)
                                        \/ PublishRows \/ PublishCommit
        PROVE  Shrinks
    BY <2>1 DEF TeardownRows, Rollback, RemoveAll, RemoveChildren, PublishRows,
                PublishDeleting, PublishCommit, PublishEnd, TeardownKinds
  <2> QED
    BY <2>1 DEF Progress, DiscardCommit, CleanupCommit, DraftCommit, DeleteCommit,
                DeadlockVictim, TeardownKinds
<1> QED
  BY <1>0, <1>1, <1>2, ShrinkingSteps DEF TypeOK

\* Before the assignment exists there are no sessions and no requests past their check.
LEMMA AttemptInit == Init => AttemptInv
<1> SUFFICES ASSUME Init PROVE AttemptInv
  OBVIOUS
<1>1. TypeOK
  BY TypeInit
<1>2. Stored = {} /\ \A r \in Request : req[r].pc = "idle"
  BY DEF Init, Stored
<1>3. \A t \in TeardownKinds : tx[t].pc = "idle"
  BY DEF Init, NoTx
<1> QED
  BY <1>1, <1>2, <1>3
     DEF AttemptInv, Parts, TransactionsAfterCreation, RequestsKnow, NothingBeforeCreation,
         OneActiveSession, DraftHoldsOnlyPreviews, CheckedMeansOvertaken, RetakeNeedsOverlap,
         ActiveOf, Attempts

\* No teardown begins before the assignment exists.
LEMMA TransactionsNext ==
  ASSUME AttemptInv, [Next]_vars
  PROVE  TransactionsAfterCreation'
<1> SUFFICES ASSUME astatus' = "none" PROVE \A t \in TeardownKinds : tx'[t].pc = "idle"
  BY DEF TransactionsAfterCreation
<1> USE DEF AttemptInv
<1>1. \A t \in TeardownKinds : ~Progress(t)
  <2> SUFFICES ASSUME NEW t \in TeardownKinds, Progress(t) PROVE FALSE
    OBVIOUS
  <2>1. \E o \in TeardownKinds : tx[o].pc # "idle"
    BY DEF Progress, PublishRows, PublishDeleting, PublishCommit, PublishEnd, TeardownRows,
           DiscardCommit, CleanupCommit, DraftCommit, DeleteCommit, DeadlockVictim, TeardownKinds
  <2>2. astatus # "none"
    BY <2>1 DEF TransactionsAfterCreation
  <2>3. astatus' # "none"
    BY <2>2 DEF Progress, PublishRows, PublishDeleting, PublishCommit, PublishEnd, TeardownRows,
           DiscardCommit, CleanupCommit, DraftCommit, DeleteCommit, DeadlockVictim,
           Rollback, RemoveAll, RemoveChildren
  <2> QED
    BY <2>3
<1>2. astatus = "none"
  BY <1>1 DEF Next, vars, CreateAssignment, AssignExam, StartSelect, StartStep,
          SingleAttemptCheck, RejectIfAny, StartInsert, InsertInto, StartConflict,
          StartFallback, AnswerExisting, Complete, Finish, Close, PublishUpdate, TeardownSelect
<1>3. tx' = tx
  BY <1>1, <1>2 DEF Next, vars, CreateAssignment, AssignExam, StartSelect, StartStep,
          SingleAttemptCheck, RejectIfAny, StartInsert, InsertInto, StartConflict,
          StartFallback, AnswerExisting, Complete, Finish, Close, PublishUpdate, TeardownSelect,
          Exists
<1> QED
  BY <1>2, <1>3 DEF TransactionsAfterCreation

\* Every step keeps the strengthened invariant.
LEMMA AttemptNext == AttemptInv /\ [Next]_vars => AttemptInv'
<1> SUFFICES ASSUME AttemptInv, [Next]_vars PROVE Parts'
  BY TypeNext, TransactionsNext DEF AttemptInv
<1> USE DEF AttemptInv
<1>0. TypeOK'
  BY TypeNext
<1>1. CASE CreateAssignment \/ AssignExam
  <2>1. /\ Stored' = {} /\ \A u \in User : ActiveOf(u)' = {} /\ Attempts(u)' = {}
        /\ \A r \in Request : req'[r].pc \in {"idle", "rejected"}
    BY <1>1 DEF CreateAssignment, AssignExam, Parts, NothingBeforeCreation, Stored, ActiveOf, Attempts
  <2> QED
    BY <2>1 DEF Parts, RequestsKnow, NothingBeforeCreation, OneActiveSession,
                DraftHoldsOnlyPreviews, CheckedMeansOvertaken, RetakeNeedsOverlap
<1>2. CASE \E r \in Request, u \in User : StartSelect(r, u)
  BY <1>2, SelectStep
<1>3. CASE \E r \in Request : StartStep(r)
  BY <1>3, PartsStart
<1>4. CASE \E u \in User, s \in Session : Complete(u, s)
  BY <1>4, CompleteStep
<1>5. CASE Close
  BY <1>0, <1>5, ShrinkingSteps DEF Close, Exists, TypeOK
<1>6. CASE PublishUpdate
  BY <1>0, <1>6, ShrinkingSteps DEF PublishUpdate, TypeOK
<1>7. ASSUME NEW t \in TeardownKinds, TeardownSelect(t) PROVE Parts'
  BY <1>0, <1>7, ShrinkingSteps DEF TeardownSelect, TypeOK
<1>8. ASSUME NEW t \in TeardownKinds, Progress(t) PROVE Parts'
  <2>1. \E o \in TeardownKinds : tx[o].pc # "idle"
    BY <1>8 DEF Progress, PublishRows, PublishDeleting, PublishCommit, PublishEnd, TeardownRows,
           DiscardCommit, CleanupCommit, DraftCommit, DeleteCommit, DeadlockVictim, TeardownKinds
  <2>2. astatus # "none"
    BY <2>1 DEF TransactionsAfterCreation
  <2> QED
    BY <1>8, <2>2, PartsProgress
<1>9. CASE UNCHANGED vars
  BY <1>0, <1>9, ShrinkingSteps DEF vars, TypeOK
<1> QED
  BY <1>1, <1>2, <1>3, <1>4, <1>5, <1>6, <1>7, <1>8, <1>9 DEF Next

\* The strengthened invariant holds of every reachable state.
LEMMA AttemptInvariant == Spec => []AttemptInv
BY AttemptInit, AttemptNext, PTL DEF Spec

\* Overlapping start requests of one user never leave two active sessions.
THEOREM OneActiveSessionHolds == Spec => []OneActiveSession
<1>1. AttemptInv => OneActiveSession
  BY DEF AttemptInv, Parts
<1> QED
  BY <1>1, AttemptInvariant, PTL

\* Until it is published an assignment holds nothing but its owner's previews.
THEOREM DraftHoldsOnlyPreviewsHolds == Spec => []DraftHoldsOnlyPreviews
<1>1. AttemptInv => DraftHoldsOnlyPreviews
  BY DEF AttemptInv, Parts
<1> QED
  BY <1>1, AttemptInvariant, PTL

\* The only way to a second attempt at an assignment that is not practice is a
\* completion that overtakes another start request.
THEOREM RetakeNeedsOverlapHolds == Spec => []RetakeNeedsOverlap
<1>1. AttemptInv => RetakeNeedsOverlap
  BY DEF AttemptInv, Parts
<1> QED
  BY <1>1, AttemptInvariant, PTL

-----------------------------------------------------------------------------
(***************************************************************************)
(* Without the cleanup of abandoned drafts, a teardown that lost the race  *)
(* against publish leaves the released assignment whole.  Publish holds    *)
(* the row lock from its first statement, so nothing is deleted under it,  *)
(* and what it deletes are previews.                                       *)
(***************************************************************************)
LockInv ==
  /\ tx["publish"].pc # "selected"
  /\ tx["publish"].pc \in {"locked", "rows"} => alock = "publish"
  /\ alock = "publish" => Exists /\ tx["publish"].pc \in {"locked", "rows"}
  /\ tx["cleanup"].pc = "idle"
  /\ Exists => questions
  /\ tx["publish"].pc = "rows" =>
       \A s \in tx["publish"].rows : sess[s].status # "unused" /\ sess[s].preview

\* a preview that is in the table stays a preview
LEMMA RowsStayPreviews ==
  ASSUME TypeOK, [Next]_vars, NEW s \in Session,
         sess[s].status # "unused", sess[s].preview
  PROVE  sess'[s].status # "unused" /\ sess'[s].preview
<1>1. CASE \E r \in Request : StartStep(r)
  BY <1>1 DEF StartStep, SingleAttemptCheck, RejectIfAny, StartInsert, InsertInto, Unused,
              StartConflict, StartFallback, AnswerExisting, TypeOK, SessionRow
<1>2. CASE \E u \in User, x \in Session : Complete(u, x)
  BY <1>2 DEF Complete, Finish, TypeOK, SessionRow
<1>3. ASSUME NEW t \in TeardownKinds, Progress(t) PROVE sess' = sess \/ \E o \in TeardownKinds : sess' = Purged(o)
  BY <1>3 DEF Progress, PublishRows, PublishDeleting, PublishCommit, PublishEnd, TeardownRows,
              DiscardCommit, CleanupCommit, DraftCommit, DeleteCommit, DeadlockVictim,
              Rollback, RemoveAll, RemoveChildren, TeardownKinds
<1>4. ASSUME NEW o \in TeardownKinds, sess' = Purged(o)
      PROVE  sess'[s].status # "unused" /\ sess'[s].preview
  BY <1>4 DEF Purged, TypeOK, SessionRow
<1> QED
  BY <1>1, <1>2, <1>3, <1>4
     DEF Next, vars, CreateAssignment, AssignExam, StartSelect, Close, PublishUpdate, TeardownSelect

\* No transaction holds anything initially.
LEMMA LockInit == Init => LockInv
BY NoneAssumption DEF Init, LockInv, NoTx, TeardownKinds, Exists

\* While no cleanup runs, every step keeps what the teardowns know of the assignment.
LEMMA LockNext ==
  ASSUME "cleanup" \notin Teardowns
  PROVE  TypeOK /\ LockInv /\ [Next]_vars => LockInv'
<1> SUFFICES ASSUME TypeOK, LockInv, [Next]_vars PROVE LockInv'
  OBVIOUS
<1> USE NoneAssumption DEF LockInv, TeardownKinds
<1>1. CASE CreateAssignment \/ AssignExam
  BY <1>1 DEF CreateAssignment, AssignExam, Exists
<1>2. CASE \/ \E r \in Request, u \in User : StartSelect(r, u)
           \/ \E r \in Request : StartStep(r)
           \/ \E u \in User, s \in Session : Complete(u, s)
           \/ UNCHANGED vars
  <2>1. UNCHANGED <<astatus, questions, tx, alock>>
    BY <1>2 DEF StartSelect, StartStep, SingleAttemptCheck, RejectIfAny, StartInsert, InsertInto,
                StartConflict, StartFallback, AnswerExisting, Complete, Finish, vars
  <2>2. \A s \in tx["publish"].rows : s \in Session
    BY DEF TypeOK, Transaction
  <2> QED
    BY <2>1, <2>2, RowsStayPreviews DEF Exists
<1>3. CASE Close
  BY <1>3 DEF Close, Exists
<1>4. CASE PublishUpdate
  BY <1>4 DEF PublishUpdate, TypeOK, Transaction, Exists
<1>5. ASSUME NEW t \in TeardownKinds, TeardownSelect(t) \/ TeardownRows(t) PROVE LockInv'
  <2>1. t \notin {"publish", "cleanup"}
    BY <1>5 DEF TeardownSelect, TeardownRows
  <2>2. tx'["publish"] = tx["publish"] /\ tx'["cleanup"] = tx["cleanup"]
    BY <1>5, <2>1 DEF TeardownSelect, TeardownRows, TypeOK
  <2> QED
    BY <1>5, <2>2 DEF TeardownSelect, TeardownRows, Exists
<1>6. CASE PublishRows
  BY <1>6 DEF PublishRows, PublishDeleting, Stored, TypeOK, Transaction, Exists
<1>7. CASE PublishCommit
  BY <1>7 DEF PublishCommit, PublishEnd, TypeOK, Transaction, NoTx, Exists
<1>8. ASSUME NEW t \in TeardownKinds, Rollback(t) PROVE LockInv'
  BY <1>8 DEF Rollback, TypeOK, Transaction, NoTx, Exists
<1>9. ASSUME NEW t \in {"discard", "delete"}, RemoveAll(t), alock = None PROVE LockInv'
  BY <1>9 DEF RemoveAll, TypeOK, Transaction, NoTx, Exists
<1>10. ASSUME NEW t \in TeardownKinds, Progress(t) PROVE LockInv'
  BY <1>10, <1>5, <1>6, <1>7, <1>8, <1>9
     DEF Progress, DiscardCommit, CleanupCommit, DraftCommit, DeleteCommit, DeadlockVictim
<1> QED
  BY <1>1, <1>2, <1>3, <1>4, <1>5, <1>10 DEF Next

\* While no draft is old enough for the cleanup, a released assignment has its questions.
THEOREM ReleasedKeepsQuestionsHolds ==
  ASSUME "cleanup" \notin Teardowns
  PROVE  Spec => []ReleasedKeepsQuestions
<1>1. LockInv => ReleasedKeepsQuestions
  BY DEF LockInv, ReleasedKeepsQuestions, Exists
<1> QED
  BY <1>1, LockInit, LockNext, TypeCorrect, PTL DEF Spec

\* Without the cleanup, a step that removes a student's session is delete's commit.
LEMMA SurviveStep ==
  ASSUME AttemptInv, LockInv, [Next]_vars, NEW s \in Stored,
         ~sess[s].preview, sess'[s].status = "gone"
  PROVE  tx["delete"].pc = "rows" /\ astatus' = "deleted"
<1>0. s \in Session /\ sess[s].status # "gone" /\ sess \in [Session -> SessionRow]
  BY DEF Stored, AttemptInv, TypeOK
<1>1. sess' # sess
  BY <1>0
<1>2. CASE \E r \in Request : StartStep(r)
  <2>1. sess'[s] = sess[s]
    BY <1>0, <1>2 DEF StartStep, SingleAttemptCheck, RejectIfAny, StartInsert, InsertInto,
              StartConflict, StartFallback, AnswerExisting, Unused, Stored
  <2> QED
    BY <1>0, <2>1
<1>3. CASE \E u \in User, x \in Session : Complete(u, x)
  BY <1>0, <1>3 DEF Complete, Finish, SessionRow
<1>4. ASSUME NEW t \in TeardownKinds, sess' = Purged(t) PROVE s \in tx[t].rows
  BY <1>0, <1>4 DEF Purged
<1>5. CASE PublishCommit
  BY <1>4, <1>5 DEF PublishCommit, PublishEnd, LockInv, TeardownKinds
<1>6. CASE DiscardCommit
  BY <1>1, <1>6
     DEF DiscardCommit, DraftCommit, Rollback, AttemptInv, Parts, DraftHoldsOnlyPreviews
<1>7. CASE CleanupCommit
  BY <1>7 DEF CleanupCommit, DraftCommit, LockInv
<1>8. CASE DeleteCommit
  BY <1>1, <1>8 DEF DeleteCommit, RemoveAll, Rollback
<1>9. CASE \E t \in TeardownKinds : Progress(t)
  BY <1>1, <1>5, <1>6, <1>7, <1>8, <1>9
     DEF Progress, PublishRows, PublishDeleting, TeardownRows, DeadlockVictim, Rollback
<1> QED
  BY <1>1, <1>2, <1>3, <1>9
     DEF Next, vars, CreateAssignment, AssignExam, StartSelect, Close, PublishUpdate, TeardownSelect

\* ... and a student's session goes only when the assignment is deleted with it.
THEOREM RealAttemptsSurviveHolds ==
  ASSUME "cleanup" \notin Teardowns
  PROVE  Spec => RealAttemptsSurvive
<1>1. AttemptInv /\ LockInv /\ [Next]_vars =>
        [\A s \in Stored : ~sess[s].preview /\ sess'[s].status = "gone" =>
           tx["delete"].pc = "rows" /\ astatus' = "deleted"]_vars
  BY SurviveStep
<1>2. AttemptInv => TypeOK
  BY DEF AttemptInv
<1> QED
  BY <1>1, <1>2, AttemptInvariant, LockInit, LockNext, PTL DEF Spec, RealAttemptsSurvive

-----------------------------------------------------------------------------
\* One step leaves a submitted or deleted session as it is, or deletes it.
LEMMA SubmittedStep ==
  ASSUME TypeOK, [Next]_vars, NEW s \in Session, sess[s].status \in {"completed", "gone"}
  PROVE  /\ sess'[s].status \in {sess[s].status, "gone"}
         /\ sess'[s].user = sess[s].user
         /\ sess'[s].preview = sess[s].preview
<1> DEFINE Final == /\ sess'[s].status \in {sess[s].status, "gone"}
                    /\ sess'[s].user = sess[s].user
                    /\ sess'[s].preview = sess[s].preview
<1>0. sess \in [Session -> SessionRow]
  BY DEF TypeOK
<1>1. sess'[s] = sess[s] => Final
  OBVIOUS
<1>2. ASSUME NEW t \in TeardownKinds, sess' = Purged(t) PROVE Final
  BY <1>0, <1>2 DEF Purged, SessionRow
<1>3. CASE \E r \in Request : StartStep(r)
  <2>1. sess'[s] = sess[s]
    BY <1>0, <1>3 DEF StartStep, SingleAttemptCheck, RejectIfAny, StartInsert, InsertInto,
              StartConflict, StartFallback, AnswerExisting, Unused
  <2> QED BY <1>1, <2>1
<1>4. CASE \E u \in User, x \in Session : Complete(u, x)
  <2>1. sess'[s] = sess[s]
    BY <1>0, <1>4 DEF Complete, Finish, ActiveOf
  <2> QED BY <1>1, <2>1
<1>5. CASE \E t \in TeardownKinds : Progress(t)
  <2>1. sess' = sess \/ \E t \in TeardownKinds : sess' = Purged(t)
    BY <1>5 DEF Progress, PublishRows, PublishDeleting, PublishCommit, PublishEnd, TeardownRows,
              DiscardCommit, CleanupCommit, DeleteCommit, DraftCommit, DeadlockVictim,
              Rollback, RemoveAll, RemoveChildren, TeardownKinds
  <2> QED BY <1>1, <1>2, <2>1
<1> QED
  BY <1>1, <1>3, <1>4, <1>5
     DEF Next, vars, CreateAssignment, AssignExam, StartSelect, Close, PublishUpdate, TeardownSelect

\* A submitted session is never reopened, changes hands or turns into a preview.
THEOREM SubmittedIsFinalHolds == Spec => SubmittedIsFinal
<1>1. TypeOK /\ [Next]_vars =>
        [\A s \in Session : sess[s].status \in {"completed", "gone"} =>
           /\ sess'[s].status \in {sess[s].status, "gone"}
           /\ sess'[s].user = sess[s].user
           /\ sess'[s].preview = sess[s].preview]_vars
  BY SubmittedStep
<1> QED
  BY <1>1, TypeCorrect, PTL DEF Spec, SubmittedIsFinal

\* Together, in a system without the cleanup: an attempt stands.
THEOREM AttemptsStandHolds ==
  ASSUME "cleanup" \notin Teardowns
  PROVE  Spec => AttemptsStand
BY RealAttemptsSurviveHolds, SubmittedIsFinalHolds DEF AttemptsStand
=============================================================================
