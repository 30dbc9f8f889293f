------------------------------ MODULE Grading -------------------------------
(***************************************************************************)
(* The grades of one assignment's sessions: upsert_grade, release_grades   *)
(* and override_grade of backend/app/http_app.py, used by one or several   *)
(* professors' browsers at the same time, while late evaluations still     *)
(* come in.                                                                *)
(*                                                                         *)
(* upsert_grade reads the grade row, then writes what it computed from it. *)
(* release_grades does so for one completed session after the other, in    *)
(* one transaction: rows it has written stay locked, and invisible, until  *)
(* it commits.                                                             *)
(***************************************************************************)
EXTENDS Naturals

CONSTANTS
  Session,
  Request,        \* upsert_grade and release_grades requests, each served once
  Manual,         \* the scores a professor may enter, in hundredths
  MaxQuestions,   \* max_questions of the assignment's config
  Total,          \* bound: the sums of eds_score a session's evaluations may reach
  None

ASSUME ScoreAssumption ==
  /\ Manual \subseteq 0 .. 100
  /\ MaxQuestions \in Nat
  /\ Total \subseteq Nat /\ 0 \in Total
ASSUME NoneAssumption == None \notin Session \cup Manual

VARIABLES
  completed,  \* sessions whose status is 'completed'
  evals,      \* sum of eds_score over the evaluations of each session
  grade,      \* the grade row of each session, as committed
  req,        \* the requests
  manual,     \* history: the score last entered for a session, None before
  commented,  \* history: sessions that were given a comment
  overtaken   \* history: sessions given an input while another request was
              \* between its read of their row and its write

vars == <<completed, evals, grade, req, manual, commented, overtaken>>

Score == 0 .. 100

Row ==
  [status   : {"none", "pending", "released"},
   score    : Score,
   override : BOOLEAN,      \* override_by is set
   comment  : BOOLEAN]      \* component_scores has an overall_comment

NoRow == [status |-> "none", score |-> 0, override |-> FALSE, comment |-> FALSE]

RequestState ==
  [pc      : {"idle", "listing", "read", "done", "failed"},
   kind    : {"none", "upsert", "release"},
   todo    : SUBSET Session,        \* of a release: sessions it has not come to
   listed  : SUBSET Session,        \* of a release: sessions its reply names
   cur     : Session \cup {None},   \* the session being graded
   seen    : Row,                   \* its row when it was read
   auto    : Score,                 \* the score its evaluations give
   score   : Manual \cup {None},    \* of an upsert: what the form holds
   comment : BOOLEAN,
   draft   : [Session -> Row]]      \* rows written and not committed

Idle ==
  [pc |-> "idle", kind |-> "none", todo |-> {}, listed |-> {}, cur |-> None, seen |-> NoRow,
   auto |-> 0, score |-> None, comment |-> FALSE, draft |-> [s \in Session |-> NoRow]]

\* mutant: the total is not capped
AutoScoreUncapped(total) == (100 * total) \div (IF MaxQuestions = 0 THEN 1 ELSE MaxQuestions)

\* min(1, total_eds / max(max_questions, 1)), in hundredths
AutoScore(total) ==
  LET questions == IF MaxQuestions = 0 THEN 1 ELSE MaxQuestions
  IN IF total >= questions THEN 100 ELSE (100 * total) \div questions

Graded(s) == grade[s].status # "none"
Holds(r, s) == req[r].draft[s] # NoRow
LockedFor(r, s) == \E q \in Request \ {r} : Holds(q, s)

Init ==
  /\ completed = {}
  /\ evals = [s \in Session |-> 0]
  /\ \E row \in {NoRow, [NoRow EXCEPT !.status = "pending"]} :  \* graded before, or not
        grade = [s \in Session |-> row]
  /\ req = [r \in Request |-> Idle]
  /\ manual = [s \in Session |-> None]
  /\ commented = {}
  /\ overtaken = {}

-----------------------------------------------------------------------------
(* The exam's side.                                                        *)

CompleteSession(s) ==
  /\ s \notin completed
  /\ completed' = completed \cup {s}
  /\ UNCHANGED <<evals, grade, req, manual, commented, overtaken>>

\* also after completion, and after release: the hybrid mode scores in a thread
Evaluate(s) ==
  /\ \E total \in Total : total > evals[s] /\ evals' = [evals EXCEPT ![s] = total]
  /\ UNCHANGED <<completed, grade, req, manual, commented, overtaken>>

-----------------------------------------------------------------------------
(* A professor's score or comment for s being committed.                   *)

Reading(s) == {r \in Request : req[r].pc = "read" /\ req[r].cur = s}

Input(s, score, comment, others) ==
  /\ manual' = IF score = None THEN manual ELSE [manual EXCEPT ![s] = score]
  /\ commented' = IF comment THEN commented \cup {s} ELSE commented
  /\ overtaken' = IF (score # None \/ comment) /\ others # {} THEN overtaken \cup {s}
                  ELSE overtaken

Fail(r) ==
  /\ req' = [req EXCEPT ![r] = [Idle EXCEPT !.pc = "failed"]]
  /\ UNCHANGED <<completed, evals, grade, manual, commented, overtaken>>

-----------------------------------------------------------------------------
(* upsert_grade.                                                           *)

UpsertRead(r, s, score, comment) ==
  /\ req[r].pc = "idle"
  /\ req' = [req EXCEPT ![r].pc = "read", ![r].kind = "upsert", ![r].cur = s,
                        ![r].seen = grade[s],
                        ![r].auto = IF Graded(s) THEN 0 ELSE AutoScore(evals[s]),
                        ![r].score = score, ![r].comment = comment]
  /\ UNCHANGED <<completed, evals, grade, manual, commented, overtaken>>

UpsertReady(r) ==
  /\ req[r].pc = "read" /\ req[r].kind = "upsert"
  /\ ~LockedFor(r, req[r].cur)

Upserted(r, row) ==
  /\ grade' = [grade EXCEPT ![req[r].cur] = row]
  /\ req' = [req EXCEPT ![r] = [Idle EXCEPT !.pc = "done"]]
  /\ Input(req[r].cur, req[r].score, req[r].comment, Reading(req[r].cur) \ {r})
  /\ UNCHANGED <<completed, evals>>

\* UPDATE grade SET final_score, component_scores, override_by
Edited(r, status) ==
  [status   |-> status,
   score    |-> IF req[r].score # None THEN req[r].score ELSE req[r].seen.score,
   override |-> req[r].score # None \/ req[r].seen.override,
   comment  |-> req[r].comment \/ req[r].seen.comment]

\* mutant: the UPDATE also writes back the status it read
UpsertUpdateStatus(r) ==
  /\ UpsertReady(r) /\ req[r].seen.status # "none"
  /\ Upserted(r, Edited(r, req[r].seen.status))

UpsertUpdate(r) ==
  /\ UpsertReady(r) /\ req[r].seen.status # "none"
  /\ Upserted(r, Edited(r, grade[req[r].cur].status))

NewGrade(r) ==
  [status |-> "pending", score |-> IF req[r].score # None THEN req[r].score ELSE req[r].auto,
   override |-> req[r].score # None, comment |-> req[r].comment]

\* UNIQUE (session_id): the INSERT fails when a row has appeared since the read
UpsertInsert(r) ==
  /\ UpsertReady(r) /\ req[r].seen.status = "none"
  /\ IF Graded(req[r].cur) THEN Fail(r) ELSE Upserted(r, NewGrade(r))

-----------------------------------------------------------------------------
(* override_grade: nothing it writes depends on what it read.              *)

Override(s, score) ==
  /\ Graded(s)
  /\ \A r \in Request : ~Holds(r, s)
  /\ grade' = [grade EXCEPT ![s].score = score, ![s].override = TRUE]
  /\ Input(s, score, FALSE, Reading(s))
  /\ UNCHANGED <<completed, evals, req>>

-----------------------------------------------------------------------------
(* release_grades.                                                         *)

ReleaseBegin(r) ==
  /\ req[r].pc = "idle"
  /\ req' = [req EXCEPT ![r].pc = "listing", ![r].kind = "release", ![r].todo = completed]
  /\ UNCHANGED <<completed, evals, grade, manual, commented, overtaken>>

ReleaseRead(r, s) ==
  /\ req[r].pc = "listing"
  /\ s \in req[r].todo
  /\ req' = IF grade[s].status = "released"
            THEN [req EXCEPT ![r].todo = @ \ {s}, ![r].listed = @ \cup {s}]
            ELSE [req EXCEPT ![r].todo = @ \ {s}, ![r].pc = "read", ![r].cur = s,
                             ![r].seen = grade[s], ![r].auto = AutoScore(evals[s])]
  /\ UNCHANGED <<completed, evals, grade, manual, commented, overtaken>>

ReleaseReady(r) ==
  /\ req[r].pc = "read" /\ req[r].kind = "release"
  /\ ~LockedFor(r, req[r].cur)

Drafted(r, row) ==
  /\ req' = [req EXCEPT ![r].pc = "listing", ![r].cur = None, ![r].seen = NoRow, ![r].auto = 0,
                        ![r].listed = @ \cup {req[r].cur},
                        ![r].draft = [@ EXCEPT ![req[r].cur] = row]]
  /\ UNCHANGED <<completed, evals, grade, manual, commented, overtaken>>

\* the UPDATE leaves override_by alone and keeps the score when it read one that is set
Released(r, score) ==
  [status |-> "released", score |-> score,
   override |-> grade[req[r].cur].override, comment |-> req[r].seen.comment]

\* mutant: every grade is recomputed from the evaluations
ReleaseUpdateAuto(r) ==
  /\ ReleaseReady(r) /\ req[r].seen.status # "none"
  /\ Drafted(r, Released(r, req[r].auto))

ReleaseUpdate(r) ==
  /\ ReleaseReady(r) /\ req[r].seen.status # "none"
  /\ Drafted(r, Released(r, IF req[r].seen.override THEN req[r].seen.score ELSE req[r].auto))

\* mutant: INSERT ... ON CONFLICT DO NOTHING
ReleaseInsertQuiet(r) ==
  /\ ReleaseReady(r) /\ req[r].seen.status = "none"
  /\ Drafted(r, IF Graded(req[r].cur) THEN grade[req[r].cur]
                ELSE [NoRow EXCEPT !.status = "released", !.score = req[r].auto])

\* mutant: a conflict is retried with what was read before
ReleaseInsertRetry(r) ==
  /\ ReleaseReady(r) /\ req[r].seen.status = "none"
  /\ ~Graded(req[r].cur)
  /\ Drafted(r, [NoRow EXCEPT !.status = "released", !.score = req[r].auto])

\* a row that has appeared since the read fails the whole release
ReleaseInsert(r) ==
  /\ ReleaseReady(r) /\ req[r].seen.status = "none"
  /\ IF Graded(req[r].cur) THEN Fail(r)
     ELSE Drafted(r, [NoRow EXCEPT !.status = "released", !.score = req[r].auto])

ReleaseCommit(r) ==
  /\ req[r].pc = "listing"
  /\ req[r].todo = {}
  /\ grade' = [s \in Session |-> IF Holds(r, s) THEN req[r].draft[s] ELSE grade[s]]
  /\ req' = [req EXCEPT ![r] = [Idle EXCEPT !.pc = "done", !.kind = "release",
                                            !.listed = req[r].listed]]
  /\ UNCHANGED <<completed, evals, manual, commented, overtaken>>

\* two releases that wait for each other's row: Postgres aborts one
DeadlockVictim(r) ==
  /\ req[r].pc = "read"
  /\ \E q \in Request \ {r} : req[q].pc = "read" /\ Holds(q, req[r].cur) /\ Holds(r, req[q].cur)
  /\ Fail(r)

\* an error or a restart rolls the request's transaction back
Abort(r) == req[r].pc \in {"listing", "read"} /\ Fail(r)

-----------------------------------------------------------------------------
Step(r) ==
  \/ UpsertUpdate(r)
  \/ UpsertInsert(r)
  \/ \E s \in Session : ReleaseRead(r, s)
  \/ ReleaseUpdate(r)
  \/ ReleaseInsert(r)
  \/ ReleaseCommit(r)
  \/ DeadlockVictim(r)

Next ==
  \/ \E s \in Session : CompleteSession(s) \/ Evaluate(s)
  \/ \E s \in Session, m \in Manual : Override(s, m)
  \/ \E r \in Request, s \in Session, m \in Manual \cup {None}, c \in BOOLEAN :
        UpsertRead(r, s, m, c)
  \/ \E r \in Request : ReleaseBegin(r) \/ Step(r) \/ Abort(r)

(***************************************************************************)
(* A request that has begun runs on; one that waits for a row which others *)
(* keep locking is served in turn by the lock queue.                       *)
(***************************************************************************)
Fairness == \A r \in Request : SF_vars(Step(r))

Spec == Init /\ [][Next]_vars
FairSpec == Spec /\ Fairness

-----------------------------------------------------------------------------
(* Properties.                                                             *)

\* Every variable has its type.
TypeOK ==
  /\ completed \subseteq Session
  /\ evals \in [Session -> Total]
  /\ grade \in [Session -> Row]
  /\ req \in [Request -> RequestState]
  /\ manual \in [Session -> Manual \cup {None}]
  /\ commented \subseteq Session
  /\ overtaken \subseteq Session

\* upsert_grade "marks a manually-set score via override_by so release preserves it".
\* With its race: a professor's score, its mark and a comment are lost only when
\* they were committed while another request was between reading and writing that row.
InputKeptUnlessOvertaken ==
  \A s \in Session \ overtaken :
     /\ manual[s] # None => grade[s].override /\ grade[s].score = manual[s]
     /\ s \in commented => grade[s].comment

\* A release that succeeded has released every session its reply names, the ones another
\* request graded meanwhile included; a conflict fails the whole release instead.
ReplyIsTrue ==
  \A r \in Request : req[r].pc = "done" =>
     \A s \in req[r].listed : grade[s].status = "released"

\* A released grade stays released, whatever edits that began before the release do.
ReleasedIsFinal ==
  [][\A s \in Session : grade[s].status = "released" => grade'[s].status = "released"]_vars

\* Every request ends, releases that meet each other in opposite orders included.
RequestsEnd == \A r \in Request : req[r].pc # "idle" ~> req[r].pc \in {"done", "failed"}
=============================================================================
