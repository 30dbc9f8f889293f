------------------------------ MODULE MCModules ------------------------------
(***************************************************************************)
(* The modules that only meet through their tables, one at a time: which   *)
(* one a behaviour is about is picked at its start, and the others stay in *)
(* their initial state.                                                    *)
(***************************************************************************)
EXTENDS Naturals, TLC

CONSTANTS
  Parts,        \* the parts behaviours are about
  Question, Concept, Concepts, Session, MaxQuestions, MaxFailures,          \* Delivery
  Build, Version,                                                           \* GraphBuild
  Generation, Draft,                                                        \* QuestionJobs
  Turn, Unanswered, Score,                                                  \* EvaluationJobs
  Simulated, Position,                                                      \* OperatorRuns, DemoLinks
  Document, Date, Fold, Trimmed, Blank, Loose, Listed, Schedule,            \* Courses
  Student,                                                                  \* Roster
  Row,          \* ids of demo sessions, class sessions and background runs
  MaxAttempts, MaxAnswers, MaxFaults, Agents, Capacity, Ttl,
  Actor, MaxCrashes, MaxLate, None,
  a, b, q1, q2

VARIABLES
  part,
  store, astatus, row, turn, call, failures, disturbed,
  sent, gqueue, ver, archive, wk, gcrashes, glate, twice, glost,
  qqueue, job, question, qact, qcrashes, qlate, tried, qlost, qcrossed,
  equeue, failed, eval, grade, eact, ecrashes, elate, raced, elost, entered, ecrossed,
  link, assignment, session, turns, aggregate, lrequest, spent, overlapped,
  run, thread, path, faults, olost,
  course, class, children, loose, lock, crequest, craced, orphans,
  login, role, enrolled, mirror, there, used, holder, cache, rrequest, since, apart, churned, roverlapped, slow,
  status, prequest, vetted, served, revived, contested

D == INSTANCE Delivery WITH Client <- Actor
G == INSTANCE GraphBuild WITH Job <- Build, Worker <- Actor,
       queue <- gqueue, crashes <- gcrashes, late <- glate, lost <- glost
Q == INSTANCE QuestionJobs WITH Job <- Generation, Question <- Draft,
       queue <- qqueue, act <- qact, crashes <- qcrashes, late <- qlate, lost <- qlost, crossed <- qcrossed
E == INSTANCE EvaluationJobs WITH Blank <- Unanswered,
       queue <- equeue, act <- eact, crashes <- ecrashes, late <- elate, lost <- elost, crossed <- ecrossed
L == INSTANCE DemoLinks WITH Session <- Row, Request <- Actor, Node <- Concept, request <- lrequest
O == INSTANCE OperatorRuns WITH Run <- Row, Question <- Simulated, lost <- olost
C == INSTANCE Courses WITH Session <- Row, Request <- Actor, request <- crequest, raced <- craced
R == INSTANCE Roster WITH User <- Student, Request <- Actor, request <- rrequest, overlapped <- roverlapped
P == INSTANCE PromptOverrides WITH Override <- Row, Request <- Actor, request <- prequest

ASSUME ModulesAssumption ==
  /\ D!DeliveryAssumption /\ G!GraphBuildAssumption /\ Q!QuestionJobsAssumption /\ E!EvaluationJobsAssumption
  /\ L!DemoLinksAssumption /\ O!OperatorRunsAssumption /\ C!CoursesAssumption /\ R!RosterAssumption
  /\ P!PromptOverridesAssumption

dvars == <<store, astatus, row, turn, call, failures, disturbed>>
gvars == <<sent, gqueue, ver, archive, wk, gcrashes, glate, twice, glost>>
qvars == <<qqueue, job, question, qact, qcrashes, qlate, tried, qlost, qcrossed>>
evars == <<equeue, failed, eval, grade, eact, ecrashes, elate, raced, elost, entered, ecrossed>>
lvars == <<link, assignment, session, turns, aggregate, lrequest, spent, overlapped>>
ovars == <<run, thread, path, faults, olost>>
cvars == <<course, class, children, loose, lock, crequest, craced, orphans>>
rvars == <<login, role, enrolled, mirror, there, used, holder, cache, rrequest, since, apart, churned, roverlapped, slow>>
pvars == <<status, prequest, vetted, served, revived, contested>>

\* each question is about one concept
ConceptsOf == [q \in Question |-> IF q = q1 THEN {a} ELSE {b}]

\* the syllabus names one document; q1 is that title with a tab at its end
OneEntry == {[document |-> a, date |-> None]}
Stripped == [d \in Document |-> IF d = q1 THEN a ELSE d]
AsStored == [d \in Document |-> d]

Symmetry == Permutations(Actor) \cup Permutations(Row)

Init == /\ part \in Parts
        /\ D!Init /\ G!Init /\ Q!Init /\ E!Init /\ L!Init /\ O!Init /\ C!Init /\ R!Init /\ P!Init
        /\ part # "delivery" => ~store
        /\ part # "roster" => role = [u \in Student |-> "none"]

Next ==
  \/ part = "delivery" /\ D!Next /\ UNCHANGED <<part, gvars, qvars, evars, lvars, ovars, cvars, rvars, pvars>>
  \/ part = "graph" /\ G!Next /\ UNCHANGED <<part, dvars, qvars, evars, lvars, ovars, cvars, rvars, pvars>>
  \/ part = "questions" /\ Q!Next /\ UNCHANGED <<part, dvars, gvars, evars, lvars, ovars, cvars, rvars, pvars>>
  \/ part = "evaluation" /\ E!Next /\ UNCHANGED <<part, dvars, gvars, qvars, lvars, ovars, cvars, rvars, pvars>>
  \/ part = "demo" /\ L!Next /\ UNCHANGED <<part, dvars, gvars, qvars, evars, ovars, cvars, rvars, pvars>>
  \/ part = "runs" /\ O!Next /\ UNCHANGED <<part, dvars, gvars, qvars, evars, lvars, cvars, rvars, pvars>>
  \/ part = "courses" /\ C!Next /\ UNCHANGED <<part, dvars, gvars, qvars, evars, lvars, ovars, rvars, pvars>>
  \/ part = "roster" /\ R!Next /\ UNCHANGED <<part, dvars, gvars, qvars, evars, lvars, ovars, cvars, pvars>>
  \/ part = "prompts" /\ P!Next /\ UNCHANGED <<part, dvars, gvars, qvars, evars, lvars, ovars, cvars, rvars>>

\* the parts a behaviour is not about stay as they are initially
In(name, formula) == part = name => formula

Spec == Init /\ [][Next]_<<part, dvars, gvars, qvars, evars, lvars, ovars, cvars, rvars, pvars>>

-----------------------------------------------------------------------------
\* A session and its turns stay what an examination is, and an active one can be gone on with
\* (delivery/session_manager.py, submit_answer); a demo session's aggregates hold what its evaluations
\* found (http_app.py, _demo_answer_turn).
SessionsSound == In("delivery", D!TurnsSound /\ D!CanGoOn) /\ In("demo", L!AggregateHolds)

\* The course shows a graph that was built, its own, and from the first build on it always shows one
\* (graph/metadata.py, activate_version).
NeverWithoutGraph == [][G!KeepsShowing /\ G!ServedOnceBuilt']_gvars

\* A message is gone, or a thread, only when its outcome is recorded: a version marked or activated, a
\* generation job that shows how it ended with its questions, an evaluation unless a worker gave the turn
\* up (the three workers), a background run that shows how it ended (_run_simulation_bg and its like).
OutcomesTold ==
  /\ In("graph", G!OutcomeRecorded) /\ In("questions", Q!JobsTellTheirOutcome)
  /\ In("evaluation", E!OutcomesFit) /\ In("runs", O!RunsTellTheirOutcome)

\* The three workers promise what every handler of a queue does: a message is removed only with its
\* outcome told or given up on (graph, questions and evaluation/worker_handler.py, handle).
MessagesHandedOn ==
  /\ G!Queue!Init /\ Q!Queue!Init /\ E!Queue!Init
  /\ [][/\ In("graph", [G!Queue!Next]_(G!Queue!vars))
        /\ In("questions", [Q!Queue!Next]_(Q!Queue!vars))
        /\ In("evaluation", [E!Queue!Next]_(E!Queue!vars))]_<<part, gvars, qvars, evars>>

\* What a person has decided stands: a grade keeps the professor's score and its release
\* (evaluation/tools.py), a prompt the admin's verdict (http_app.py, _override_transition).
DecisionsStand == In("evaluation", E!GradeKept) /\ In("prompts", P!VerdictsStand)

\* A syllabus becomes class sessions once, titles stay unique but for stale checks and white space the
\* check does not see, and of the tables its deletion lists a deleted course leaves only late rows
\* (http_app.py, process_syllabus, update_session, delete_course).
CoursesHold == In("courses", C!ScheduleOnce /\ C!TopicsUnique /\ C!DeletedWhole)

\* Attempts of a demo link and seats of an invitation are not oversold, each session has its attempt; no
\* batch replaces a password that was handed out; who is enrolled is on the roster unless parted from it;
\* a stale identity is served no longer than a TTL (http_app.py, demo_start; app/auth_routes.py; auth/identity.py).
AccountsKept ==
  /\ In("demo", L!AttemptsAccounted)
  /\ In("roster", R!SeatsKept /\ R!PasswordsKept /\ R!RosterComplete /\ R!IdentityFresh)
=============================================================================
