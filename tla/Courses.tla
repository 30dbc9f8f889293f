------------------------------ MODULE Courses ------------------------------
(***************************************************************************)
(* One course of http_app.py: its creation and deletion, the rows that     *)
(* name it without a foreign key, and its class sessions, which professors *)
(* edit and process_syllabus writes in one go.                             *)
(*                                                                         *)
(* Statements whose result is used after another transaction may have      *)
(* committed are actions of their own.  No statement of these requests     *)
(* locks rows before the one it commits with, except the deletion's.       *)
(***************************************************************************)
EXTENDS FiniteSets

CONSTANTS
  Request, Session, Document, Date,
  Fold,     \* a document as strip() and lower() leave it
  Trimmed,  \* as lower(btrim(...)) does, which takes blanks off its ends, not tabs or line ends
  Blank,    \* the fold of an empty title
  Loose,    \* rows that name the course without a foreign key
  Listed,   \* those of the tables in _COURSE_DELETE_STMTS: students, materials, the syllabus pointer
  Schedule, \* rows the syllabus is parsed into, titles made unique
  None

Entry == [document : Document, date : Date \cup {None}]

\* of the constants; assumed where they get values
CoursesAssumption ==
  /\ {Fold, Trimmed} \subseteq [Document -> Document] /\ None \notin Date \cup Document \cup Session \cup Request
  /\ \A d, e \in Document : Trimmed[d] = Fold[e] => Trimmed[d] = Fold[d]
  /\ Listed \subseteq Loose
  /\ Schedule \in SUBSET Entry /\ Schedule # {}
  /\ \A e \in Schedule : Trimmed[e.document] = Fold[e.document]
  /\ \A e, f \in Schedule : e # f /\ Fold[e.document] # Blank => Fold[e.document] # Fold[f.document]

VARIABLES
  course,   \* none, present or deleted
  class,    \* class_session
  children, \* whether rows refer to the course without ON DELETE CASCADE
  loose,    \* the rows of Loose there are
  lock,     \* pg_advisory_xact_lock of the course
  request,
  raced,    \* history: titles written after a check that had become stale, or Ragged
  orphans   \* history: rows of Loose inserted while the course was being deleted or later

vars == <<course, class, children, loose, lock, request, raced, orphans>>

NoRow == [document |-> None, date |-> None, by |-> None]
Idle == [pc |-> "idle", session |-> None, entry |-> None, seen |-> {}, stale |-> FALSE]

Init ==
  /\ course = "none"
  /\ class = [s \in Session |-> NoRow]
  /\ children = FALSE
  /\ loose = {}
  /\ lock = None
  /\ request = [r \in Request |-> Idle]
  /\ raced = {} /\ orphans = {}

At(r, pc) == request[r].pc = pc
Goto(r, pc) == request' = [request EXCEPT ![r].pc = pc]
End(r) == request' = [request EXCEPT ![r] = Idle]

Rows == {s \in Session : class[s] # NoRow}
Title(s) == Fold[class[s].document]
Wanted(r) == Fold[request[r].entry.document]

\* stored, such a document is not found by its title
Ragged(e) == Trimmed[e.document] # Fold[e.document]

\* a deletion has deleted these rows and not committed
Deleting == \E r \in Request : At(r, "delete")
Held(s) == \E r \in Request : At(r, "delete") /\ s \in request[r].seen

\* ux_class_session_course_doc_date
Clashes(s, e) ==
  e.date # None /\ \E t \in Rows \ {s} : class[t].document = e.document /\ class[t].date = e.date

-----------------------------------------------------------------------------
(* The course.                                                             *)

\* get_or_create_course finds nothing
CreateLook(r) ==
  /\ At(r, "idle") /\ course = "none"
  /\ Goto(r, "create")
  /\ UNCHANGED <<course, class, children, loose, lock, raced, orphans>>

\* UNIQUE (org_id, course_name): the slower one fails
Create(r) ==
  /\ At(r, "create")
  /\ course' = IF course = "none" THEN "present" ELSE course
  /\ End(r)
  /\ UNCHANGED <<class, children, loose, lock, raced, orphans>>

\* an assignment, a question, a generation job; a version or chunk of a material the deletion has seen
AddChild ==
  /\ course = "present"
  /\ ~children
  /\ children' = TRUE
  /\ UNCHANGED <<course, class, loose, lock, request, raced, orphans>>

\* _delete_course_rows up to the course's own row; children first, and what it saw is locked
DeleteRows(r) ==
  /\ At(r, "idle") /\ course = "present" /\ ~Deleting
  /\ request' = [request EXCEPT ![r].pc = "delete", ![r].seen = Rows \cup (loose \cap Listed), ![r].stale = children]
  /\ UNCHANGED <<course, class, children, loose, lock, raced, orphans>>

\* DELETE FROM course, commit: class sessions cascade; a child that was added meanwhile undoes everything.
\* Jobs, simulations, benches and demo links are in no statement.
Delete(r) ==
  /\ At(r, "delete")
  /\ IF children /\ ~request[r].stale THEN UNCHANGED <<course, class, children, loose>>
     ELSE /\ course' = "deleted"
          /\ class' = [s \in Session |-> NoRow]
          /\ children' = FALSE
          /\ loose' = loose \ request[r].seen
  /\ End(r)
  /\ UNCHANGED <<lock, raced, orphans>>

-----------------------------------------------------------------------------
(* Rows without a foreign key to the course.                               *)

\* enroll_student, presign, register, a simulation, a bench, a demo link: the course may be gone
AddLoose(x) ==
  /\ course # "none"
  /\ x \notin loose
  /\ loose' = loose \cup {x}
  /\ orphans' = IF course = "deleted" \/ Deleting THEN orphans \cup {x} ELSE orphans
  /\ UNCHANGED <<course, class, children, lock, request, raced>>

\* unenroll_student, delete_material: not what a deletion has deleted already
RemoveLoose(x) ==
  /\ x \in loose \cap Listed
  /\ \A r \in Request : At(r, "delete") => x \notin request[r].seen
  /\ loose' = loose \ {x}
  /\ UNCHANGED <<course, class, children, lock, request, raced, orphans>>

-----------------------------------------------------------------------------
(* Class sessions.                                                         *)

\* _require_unique_session_topic: what is stored, trimmed by the database, against what Python stripped
TopicFree(e, s) ==
  Fold[e.document] = Blank \/ \A t \in Rows \ {s} : Trimmed[class[t].document] # Fold[e.document]

AddCheck(r, e) ==
  /\ At(r, "idle") /\ course # "none"
  /\ TopicFree(e, None)
  /\ request' = [request EXCEPT ![r] = [Idle EXCEPT !.pc = "write", !.entry = e]]
  /\ UNCHANGED <<course, class, children, loose, lock, raced, orphans>>

\* a title that stays is not checked
UpdateCheck(r, s, e) ==
  /\ At(r, "idle") /\ s \in Rows
  /\ Fold[e.document] = Title(s) \/ TopicFree(e, s)
  /\ request' = [request EXCEPT ![r] = [Idle EXCEPT !.pc = "rewrite", !.session = s, !.entry = e]]
  /\ UNCHANGED <<course, class, children, loose, lock, raced, orphans>>

\* what the requests at work have looked at is no longer so once s is e
Overtaken(r, s, e) ==
  [q \in Request |->
     IF q # r /\ \/ At(q, "insert")
                 \/ At(q, "write") /\ Wanted(q) = Fold[e.document]
                 \/ At(q, "rewrite") /\ (request[q].session = s \/ Wanted(q) = Fold[e.document])
     THEN [request[q] EXCEPT !.stale = TRUE]
     ELSE request[q]]

Races(r, entries) ==
  raced' = raced \cup {Fold[e.document] : e \in {x \in entries : request[r].stale \/ Ragged(x)}}

\* create_session's INSERT, committed
Write(r, s) ==
  /\ At(r, "write") /\ s \notin Rows
  /\ LET e == request[r].entry
     IN /\ course = "present" /\ ~Clashes(s, e)
        /\ class' = [class EXCEPT ![s] = [document |-> e.document, date |-> e.date, by |-> None]]
        /\ Races(r, {e})
        /\ request' = [Overtaken(r, s, e) EXCEPT ![r] = Idle]
  /\ UNCHANGED <<course, children, loose, lock, orphans>>

\* update_session's UPDATE, committed
Rewrite(r) ==
  /\ At(r, "rewrite")
  /\ LET s == request[r].session
         e == request[r].entry
     IN /\ s \in Rows /\ ~Held(s) /\ ~Clashes(s, e)
        /\ class' = [class EXCEPT ![s].document = e.document, ![s].date = e.date]
        /\ Races(r, {e})
        /\ request' = [Overtaken(r, s, e) EXCEPT ![r] = Idle]
  /\ UNCHANGED <<course, children, loose, lock, orphans>>

\* the row is gone, or an index or a foreign key refuses it
WriteRefused(r) ==
  /\ \/ At(r, "write") /\ (course # "present" \/ Clashes(None, request[r].entry))
     \/ At(r, "rewrite") /\ (request[r].session \notin Rows \/ Clashes(request[r].session, request[r].entry))
  /\ End(r)
  /\ UNCHANGED <<course, class, children, loose, lock, raced, orphans>>

Remove(s) ==
  /\ s \in Rows /\ ~Held(s)
  /\ class' = [class EXCEPT ![s] = NoRow]
  /\ UNCHANGED <<course, children, loose, lock, request, raced, orphans>>

-----------------------------------------------------------------------------
(* process_syllabus.                                                       *)

Process(r) ==
  /\ At(r, "idle") /\ course # "none"
  /\ Goto(r, "lock")
  /\ UNCHANGED <<course, class, children, loose, lock, raced, orphans>>

\* mutant: no lock
LockNot(r) ==
  /\ At(r, "lock")
  /\ Goto(r, "check")
  /\ UNCHANGED <<course, class, children, loose, lock, raced, orphans>>

Lock(r) ==
  /\ At(r, "lock") /\ lock = None
  /\ lock' = r
  /\ Goto(r, "check")
  /\ UNCHANGED <<course, class, children, loose, raced, orphans>>

Unlock(r) == lock' = IF lock = r THEN None ELSE lock

\* a course with sessions is left alone
Check(r) ==
  /\ At(r, "check")
  /\ IF Rows = {} THEN Goto(r, "insert") /\ lock' = lock ELSE End(r) /\ Unlock(r)
  /\ UNCHANGED <<course, class, children, loose, raced, orphans>>

\* the rows' ids are new; all are committed at once
Insert(r) ==
  /\ At(r, "insert")
  /\ course = "present" /\ \A e \in Schedule : ~Clashes(None, e)
  /\ \E id \in [Schedule -> Session \ Rows] :
       /\ \A e, f \in Schedule : e # f => id[e] # id[f]
       /\ class' = [s \in Session |->
            IF \E e \in Schedule : id[e] = s
            THEN LET e == CHOOSE x \in Schedule : id[x] = s
                 IN [document |-> e.document, date |-> e.date, by |-> r]
            ELSE class[s]]
  /\ Races(r, Schedule)
  /\ request' = [q \in Request |->
       IF q = r THEN Idle
       ELSE IF \E e \in Schedule : Overtaken(r, None, e)[q].stale THEN [request[q] EXCEPT !.stale = TRUE]
       ELSE request[q]]
  /\ Unlock(r)
  /\ UNCHANGED <<course, children, loose, orphans>>

\* no schedule in the text, the text not there yet, an index, the foreign key: rolled back, which unlocks
ProcessEnds(r) ==
  /\ At(r, "insert")
  /\ End(r)
  /\ Unlock(r)
  /\ UNCHANGED <<course, class, children, loose, raced, orphans>>

-----------------------------------------------------------------------------
Next ==
  \/ AddChild
  \/ \E x \in Loose : AddLoose(x) \/ RemoveLoose(x)
  \/ \E s \in Session : Remove(s)
  \/ \E r \in Request :
       \/ CreateLook(r) \/ Create(r) \/ DeleteRows(r) \/ Delete(r)
       \/ \E e \in Entry : AddCheck(r, e)
       \/ \E s \in Session, e \in Entry : UpdateCheck(r, s, e)
       \/ \E s \in Session : Write(r, s)
       \/ Rewrite(r) \/ WriteRefused(r)
       \/ Process(r) \/ Lock(r) \/ Check(r) \/ Insert(r) \/ ProcessEnds(r)

Spec == Init /\ [][Next]_vars

-----------------------------------------------------------------------------
(* Properties.                                                             *)

\* "re-running never duplicates": the rows of two runs of process_syllabus never stand side by side.
ScheduleOnce == \A s, t \in Rows : class[s].by # None /\ class[t].by # None => class[s].by = class[t].by

\* Titles are unique in a course unless a request wrote one after its check had become stale, or with
\* white space at its ends that the check does not see.
TopicsUnique == \A s, t \in Rows : s # t /\ Title(s) = Title(t) => Title(s) \in raced \cup {Blank}

\* A deletion is whole: of a deleted course there is no class session and no row with a foreign key, and
\* of the tables it lists only what was inserted while it ran or later.
DeletedWhole == course = "deleted" => Rows = {} /\ ~children /\ loose \cap Listed \subseteq orphans
=============================================================================
