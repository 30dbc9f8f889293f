---------------------------- MODULE ExamAttempt ----------------------------
(***************************************************************************)
(* One assignment and the exam sessions ("attempts") taken against it:     *)
(* backend/app/http_app.py, start_exam, complete_session and the           *)
(* professor's create / publish / discard / close / delete endpoints.      *)
(*                                                                         *)
(* Postgres runs at READ COMMITTED, so every SQL statement of a handler    *)
(* sees what other handlers committed before it.  A handler is therefore   *)
(* a sequence of actions, one per statement (or run of statements) whose   *)
(* result can be overtaken.  A teardown transaction deletes rows in its    *)
(* own snapshot first and makes that visible at its commit; until then the *)
(* rows are locked, which is what `rows' and `alock' model.                *)
(***************************************************************************)
EXTENDS FiniteSets, Naturals

CONSTANTS
  Student,      \* users whose role is student
  Owner,        \* the professor in assignment.created_by
  Session,      \* session ids the uuid generator hands out
  Request,      \* start_exam requests, each served once
  Teardowns,    \* the teardown handlers that may run, a subset of TeardownKinds
  None          \* no session, no user, no lock holder

TeardownKinds == {"publish", "discard", "cleanup", "delete"}

ASSUME OwnerAssumption == Owner \notin Student
ASSUME NoneAssumption == None \notin Session \cup Student \cup {Owner} \cup TeardownKinds
ASSUME TeardownsAssumption == Teardowns \subseteq TeardownKinds

User == Student \cup {Owner}

VARIABLES
  astatus,    \* assignment.status; "none" before it exists, "deleted" after
  practice,   \* assignment.assignment_type = 'practice'
  questions,  \* the question_set_membership rows exist
  sess,       \* the exam_session table, and which uuids were used up
  req,        \* the start_exam requests in progress
  tx,         \* the teardown transactions in progress
  alock,      \* the transaction holding the row lock of the assignment
  overtaken   \* history: users with a session completed while another start
              \* request of theirs was between its attempt check and its insert

vars == <<astatus, practice, questions, sess, req, tx, alock, overtaken>>

(***************************************************************************)
(* A uuid is "unused" until a request draws it.  "phantom" is an id that   *)
(* was given to a client although no row was ever inserted for it.         *)
(***************************************************************************)
SessionRow ==
  [user    : User \cup {None},
   status  : {"unused", "active", "completed", "gone", "phantom"},
   preview : BOOLEAN]

StartRequest ==
  [pc      : {"idle", "selected", "checked", "conflict", "done", "rejected"},
   user    : User \cup {None},
   preview : BOOLEAN,
   sid     : Session \cup {None}]

Transaction ==
  [pc   : {"idle", "selected", "locked", "rows"},
   rows : SUBSET Session]

NoTx == [pc |-> "idle", rows |-> {}]

Exists == astatus \in {"draft", "active", "closed"}
Unused == {s \in Session : sess[s].status = "unused"}
Stored == {s \in Session : sess[s].status \in {"active", "completed"}}
ActiveOf(u) == {s \in Stored : sess[s].user = u /\ sess[s].status = "active"}
CompletedOf(u) == {s \in Stored : sess[s].user = u /\ sess[s].status = "completed"}

\* rows some transaction has deleted and not yet committed
Locked == UNION {tx[t].rows : t \in TeardownKinds}

Init ==
  /\ astatus = "none"
  /\ practice = FALSE
  /\ questions = FALSE
  /\ sess = [s \in Session |-> [user |-> None, status |-> "unused", preview |-> FALSE]]
  /\ req = [r \in Request |-> [pc |-> "idle", user |-> None, preview |-> FALSE, sid |-> None]]
  /\ tx = [t \in TeardownKinds |-> NoTx]
  /\ alock = None
  /\ overtaken = {}

-----------------------------------------------------------------------------
(* Creating the assignment.                                                *)

CreateAssignment ==
  /\ astatus = "none"
  /\ astatus' = "active"
  /\ questions' = TRUE
  /\ UNCHANGED <<practice, sess, req, tx, alock, overtaken>>

AssignExam ==
  /\ astatus = "none"
  /\ \E draft, isPractice \in BOOLEAN :
        /\ astatus' = IF draft THEN "draft" ELSE "active"
        /\ practice' = isPractice
  /\ questions' = TRUE
  /\ UNCHANGED <<sess, req, tx, alock, overtaken>>

-----------------------------------------------------------------------------
(* start_exam, one action per statement.                                   *)

\* mutant: the ownership test of _start_is_preview is dropped
MayStartAnyDraft(u) == astatus \in {"active", "draft"}

\* _start_is_preview: only the owner may start a draft
MayStart(u) == astatus = "active" \/ (astatus = "draft" /\ u = Owner)

StartSelect(r, u) ==
  /\ req[r].pc = "idle"
  /\ req' = [req EXCEPT ![r] =
               IF MayStart(u)
               THEN [pc |-> "selected", user |-> u, preview |-> astatus = "draft", sid |-> None]
               ELSE [@ EXCEPT !.pc = "rejected", !.user = u]]
  /\ UNCHANGED <<astatus, practice, questions, sess, tx, alock, overtaken>>

RejectIfAny(r, earlier) ==
  /\ req[r].pc = "selected"
  /\ LET again == ~req[r].preview /\ ~practice /\ earlier # {}
     IN req' = [req EXCEPT ![r].pc = IF again THEN "rejected" ELSE "checked"]
  /\ UNCHANGED <<astatus, practice, questions, sess, tx, alock, overtaken>>

\* mutant: the check looks for an active session instead of a completed one
CheckActiveInstead(r) == RejectIfAny(r, ActiveOf(req[r].user))

\* the single-attempt check; practice tests and previews skip it
SingleAttemptCheck(r) == RejectIfAny(r, CompletedOf(req[r].user))

(***************************************************************************)
(* INSERT ... ON CONFLICT (assignment_id, student_id) WHERE status =       *)
(* 'active' DO NOTHING, and its commit.  It waits for a transaction that   *)
(* is deleting the conflicting row, and for a delete of the assignment     *)
(* its foreign key points to.                                              *)
(***************************************************************************)
NewRow(r) == [user |-> req[r].user, status |-> "active", preview |-> req[r].preview]

InsertInto(r, candidates) ==
  /\ req[r].pc = "checked"
  /\ IF Exists
     THEN \E s \in candidates :
            /\ sess' = [sess EXCEPT ![s] = NewRow(r)]
            /\ req' = [req EXCEPT ![r].pc = "done", ![r].sid = s]
     ELSE \* the foreign key fails
          /\ req' = [req EXCEPT ![r].pc = "rejected"]
          /\ UNCHANGED sess
  /\ UNCHANGED <<astatus, practice, questions, tx, alock, overtaken>>

\* mutant: a plain INSERT, without the unique index and ON CONFLICT
InsertAlways(r) == InsertInto(r, Unused)

StartInsert(r) == ActiveOf(req[r].user) = {} /\ InsertInto(r, Unused)

StartConflict(r) ==
  /\ req[r].pc = "checked"
  /\ ActiveOf(req[r].user) \ Locked # {}
  /\ req' = [req EXCEPT ![r].pc = "conflict"]
  /\ UNCHANGED <<astatus, practice, questions, sess, tx, alock, overtaken>>

AnswerExisting(r) ==
  /\ req[r].pc = "conflict"
  /\ \E s \in ActiveOf(req[r].user) : req' = [req EXCEPT ![r].pc = "done", ![r].sid = s]
  /\ UNCHANGED <<astatus, practice, questions, sess, tx, alock, overtaken>>

\* after the conflict: look the active session up, else answer with the new uuid
StartFallback(r) ==
  \/ AnswerExisting(r)
  \/ /\ req[r].pc = "conflict"
     /\ ActiveOf(req[r].user) = {}
     /\ \E s \in Unused :
          /\ sess' = [sess EXCEPT ![s].status = "phantom"]
          /\ req' = [req EXCEPT ![r].pc = "done", ![r].sid = s]
     /\ UNCHANGED <<astatus, practice, questions, tx, alock, overtaken>>

-----------------------------------------------------------------------------
(* complete_session: one UPDATE guarded by owner and status.               *)

Finish(u, s, status) ==
  /\ s \in ActiveOf(u) \ Locked
  /\ sess' = [sess EXCEPT ![s].status = status]
  /\ overtaken' = IF \E r \in Request : /\ req[r].pc = "checked"
                                        /\ req[r].user = u
                                        /\ ~req[r].preview
                  THEN overtaken \cup {u}
                  ELSE overtaken
  /\ UNCHANGED <<astatus, practice, questions, req, tx, alock>>

Complete(u, s) == Finish(u, s, "completed")

-----------------------------------------------------------------------------
(* The professor's handlers.                                               *)

\* close_assignment has no guard on the status
Close ==
  /\ Exists
  /\ alock = None
  /\ astatus' = "closed"
  /\ UNCHANGED <<practice, questions, sess, req, tx, alock, overtaken>>

\* publish_assignment begins with the UPDATE, so it holds the row lock throughout
PublishUpdate ==
  /\ "publish" \in Teardowns
  /\ tx["publish"].pc = "idle"
  /\ Exists
  /\ alock = None
  /\ alock' = "publish"
  /\ tx' = [tx EXCEPT !["publish"].pc = "locked"]
  /\ UNCHANGED <<astatus, practice, questions, sess, req, overtaken>>

PublishDeleting(rows) ==
  /\ tx["publish"].pc = "locked"
  /\ rows \cap Locked = {}
  /\ tx' = [tx EXCEPT !["publish"] = [pc |-> "rows", rows |-> rows]]
  /\ UNCHANGED <<astatus, practice, questions, sess, req, alock, overtaken>>

\* mutant: the purge forgets "AND is_preview"
PublishAllRows == PublishDeleting(Stored)

PublishRows == PublishDeleting({s \in Stored : sess[s].preview})

\* rows a committing transaction deleted disappear for everyone
Purged(t) ==
  [s \in Session |-> IF s \in tx[t].rows THEN [sess[s] EXCEPT !.status = "gone"] ELSE sess[s]]

PublishEnd(lock) ==
  /\ tx["publish"].pc = "rows"
  /\ astatus' = "active"
  /\ sess' = Purged("publish")
  /\ tx' = [tx EXCEPT !["publish"] = NoTx]
  /\ alock' = lock
  /\ UNCHANGED <<practice, questions, req, overtaken>>

\* mutant: the connection goes back without ending the transaction's lock
PublishLeaksLock == PublishEnd("publish")

PublishCommit == PublishEnd(None)

(***************************************************************************)
(* discard_draft, _cleanup_abandoned_drafts and delete_assignment look the *)
(* assignment up, delete its children, and delete the assignment last.     *)
(***************************************************************************)
TeardownSelect(t) ==
  /\ t \in Teardowns \ {"publish"}
  /\ tx[t].pc = "idle"
  /\ IF t = "delete" THEN Exists ELSE astatus = "draft"
  /\ tx' = [tx EXCEPT ![t].pc = "selected"]
  /\ UNCHANGED <<astatus, practice, questions, sess, req, alock, overtaken>>

\* two teardowns queue on the children they both delete
TeardownRows(t) ==
  /\ tx[t].pc = "selected"
  /\ Stored \cap Locked = {}
  /\ questions => \A o \in TeardownKinds \ {"publish"} : tx[o].pc # "rows"
  /\ tx' = [tx EXCEPT ![t] = [pc |-> "rows", rows |-> Stored]]
  /\ UNCHANGED <<astatus, practice, questions, sess, req, alock, overtaken>>

\* a session inserted after the DELETE of the sessions keeps the assignment referenced
Referenced(t) == Stored \ tx[t].rows # {}

Rollback(t) ==
  /\ tx' = [tx EXCEPT ![t] = NoTx]
  /\ alock' = IF alock = t THEN None ELSE alock
  /\ UNCHANGED <<astatus, practice, questions, sess, req, overtaken>>

\* everything goes: children, assignment, question set
RemoveAll(t) ==
  /\ astatus' = "deleted"
  /\ questions' = FALSE
  /\ sess' = Purged(t)
  /\ tx' = [tx EXCEPT ![t] = NoTx]
  /\ UNCHANGED <<practice, req, alock, overtaken>>

\* the children go, the assignment stays
RemoveChildren(t) ==
  /\ questions' = FALSE
  /\ sess' = Purged(t)
  /\ tx' = [tx EXCEPT ![t] = NoTx]
  /\ UNCHANGED <<astatus, practice, req, alock, overtaken>>

\* the last DELETE of t, `unmatched' being what happens when it matches no row
DraftCommit(t, unmatched) ==
  /\ tx[t].pc = "rows"
  /\ alock = None
  /\ \/ astatus = "draft" /\ ~Referenced(t) /\ RemoveAll(t)
     \/ astatus = "draft" /\ Referenced(t) /\ Rollback(t)
     \/ astatus # "draft" /\ unmatched

\* mutant: discard does not look at what its last DELETE returns
DiscardUnchecked == DraftCommit("discard", RemoveChildren("discard"))

\* DELETE ... status = 'draft' RETURNING: no row is an error, and all is rolled back
DiscardCommit == DraftCommit("discard", Rollback("discard"))

\* the cleanup's last DELETE may match no row: the children go all the same
CleanupCommit == DraftCommit("cleanup", RemoveChildren("cleanup"))

DeleteCommit ==
  /\ tx["delete"].pc = "rows"
  /\ alock = None
  /\ IF Referenced("delete") THEN Rollback("delete") ELSE RemoveAll("delete")

(***************************************************************************)
(* Publish waiting for rows a teardown deleted, while that teardown waits  *)
(* for the assignment row: Postgres aborts one of the two.                 *)
(***************************************************************************)
DeadlockVictim(t) ==
  /\ tx["publish"].pc = "locked"
  /\ \E o \in TeardownKinds \ {"publish"} :
        /\ tx[o].pc = "rows"
        /\ \E s \in tx[o].rows : s \in Stored /\ sess[s].preview
        /\ t \in {"publish", o}
  /\ Rollback(t)

-----------------------------------------------------------------------------
StartStep(r) ==
  \/ SingleAttemptCheck(r)
  \/ StartInsert(r)
  \/ StartConflict(r)
  \/ StartFallback(r)

\* what a transaction does by itself once its request has begun it
Progress(t) ==
  \/ t = "publish" /\ (PublishRows \/ PublishCommit)
  \/ TeardownRows(t)
  \/ t = "discard" /\ DiscardCommit
  \/ t = "cleanup" /\ CleanupCommit
  \/ t = "delete" /\ DeleteCommit
  \/ DeadlockVictim(t)

Next ==
  \/ CreateAssignment
  \/ AssignExam
  \/ \E r \in Request, u \in User : StartSelect(r, u)
  \/ \E r \in Request : StartStep(r)
  \/ \E u \in User, s \in Session : Complete(u, s)
  \/ Close
  \/ PublishUpdate
  \/ \E t \in TeardownKinds : TeardownSelect(t) \/ Progress(t)

(***************************************************************************)
(* A handler that has begun runs to its end.  Where it waits for a row     *)
(* lock others keep taking, Postgres's lock queue serves it in turn, which *)
(* is strong fairness.  Nothing makes a user or a professor act.           *)
(***************************************************************************)
Fairness ==
  /\ \A r \in Request : SF_vars(StartStep(r))
  /\ \A t \in TeardownKinds : SF_vars(Progress(t))

Spec == Init /\ [][Next]_vars
FairSpec == Spec /\ Fairness

-----------------------------------------------------------------------------
(* Properties.                                                             *)

\* Every variable has its type.
TypeOK ==
  /\ astatus \in {"none", "draft", "active", "closed", "deleted"}
  /\ practice \in BOOLEAN
  /\ questions \in BOOLEAN
  /\ sess \in [Session -> SessionRow]
  /\ req \in [Request -> StartRequest]
  /\ tx \in [TeardownKinds -> Transaction]
  /\ alock \in {None, "publish"}
  /\ overtaken \subseteq User

Attempts(u) == {s \in Stored : sess[s].user = u /\ ~sess[s].preview}

\* A user has at most one active session of the assignment, however many start
\* requests of theirs overlap (the "race condition fix" of start_exam).
OneActiveSession == \A u \in User : \A s, t \in ActiveOf(u) : s = t

\* A real attempt exists only once the assignment has been released: whatever
\* publish, discard and delete do meanwhile, a draft holds nothing but previews,
\* and every preview is the owner's.
DraftHoldsOnlyPreviews ==
  \A s \in Stored : /\ astatus \in {"none", "draft"} => sess[s].preview
                    /\ sess[s].preview => sess[s].user = Owner

\* The comment of start_exam, "assignments and exams can't be retaken once
\* completed", without its race: a second real attempt at an assignment that is not
\* practice needs a completion between another request's check and its insert.
RetakeNeedsOverlap ==
  \A u \in User : \A s, t \in Attempts(u) : s # t /\ ~practice => u \in overtaken

\* A real attempt disappears only when delete_assignment removes the assignment with
\* it: neither publish's purge of previews nor a discard that lost the race against
\* publish takes a student's session along.
RealAttemptsSurvive ==
  [][\A s \in Stored : ~sess[s].preview /\ sess'[s].status = "gone" =>
        tx["delete"].pc = "rows" /\ astatus' = "deleted"]_vars

\* A submitted session is never reopened, changes hands or turns into a preview.
SubmittedIsFinal ==
  [][\A s \in Session : sess[s].status \in {"completed", "gone"} =>
        /\ sess'[s].status \in {sess[s].status, "gone"}
        /\ sess'[s].user = sess[s].user
        /\ sess'[s].preview = sess[s].preview]_vars

\* An attempt stands: it is removed only with its assignment, and what was submitted is final
\* (http_app.py, start_exam, publish_assignment, discard_draft, delete_assignment).
AttemptsStand == RealAttemptsSurvive /\ SubmittedIsFinal

\* What students can start has questions: a teardown that began on a draft and lost
\* the race against publish leaves the questions of the published assignment alone.
ReleasedKeepsQuestions == astatus = "active" => questions

\* Every transaction on the assignment ends, the ones waiting for each other included.
TransactionsEnd == \A t \in TeardownKinds : tx[t].pc # "idle" ~> tx[t].pc = "idle"

\* Every start request is answered.
StartsAnswered ==
  \A r \in Request : req[r].pc # "idle" ~> req[r].pc \in {"done", "rejected"}
=============================================================================
