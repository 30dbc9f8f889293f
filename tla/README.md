# OralExam: a TLA+ verification development

OralExam is a service for oral examinations held by a language model. A professor uploads
course material, has a concept graph and questions built from it, and assigns an exam; a
student answers each question in several exchanges; the answers are scored against an
expected reasoning path; the professor edits and releases the grades. The backend is one
Python process (FastAPI on uvicorn, request handlers and daemon threads) on Postgres, and
worker processes that take ingestion jobs from SQS.

This directory models the parts of it in which several requests, threads or processes meet
on the same rows, and the pure algorithms behind them. There is one module per part, `MC`
modules and `.cfg` files that instantiate them for TLC, two abstract specifications (one that a part
implements, one that four parts implement), and `Proofs` modules with theorems.

| module | models | run | theorems |
|---|---|---|---|
| `ExamAttempt` | one assignment and the attempts at it | `ExamAttempt_safety`, `_liveness`, `_cleanup` | `ExamAttemptProofs` |
| `AnswerTurn` | the answers to one question of one session | `AnswerTurn_overlap` | `AnswerTurnProofs` |
| `ExpectedPath` | the threads that build expected paths | `ExpectedPath_fill` | `ExpectedPathProofs` |
| `PathBook` | what they promise, abstractly | refined in `ExpectedPath_fill` | `ImplementsPathBookHolds` |
| `Grading` | the grades of one assignment and their release | `Grading_requests` | `GradingProofs` |
| `WorkQueue` | what the workers behind a queue promise, abstractly | refined in `Ingestion_safety` and `Modules` | `ImplementsWorkQueueHolds`, `WorkersImplementWorkQueue` |
| `Ingestion` | the versions of one material, the queue, the workers | `Ingestion_safety`, `_liveness`, `_failure` | `IngestionProofs` |
| `CourseGraph` | the concept graph of one course and everything that writes it | `CourseGraph_overlap` | `CourseGraphProofs` |
| `Delivery` | the adaptive sessions behind the agent tools | `Modules` | `ModulesProofs` |
| `GraphBuild` | the graph versions and the worker that builds them | `Modules` | `ModulesProofs` |
| `QuestionJobs`, `EvaluationJobs` | the generation and evaluation workers, and the tools beside them | `Modules` | `ModulesProofs` |
| `DemoLinks` | one demo link, its sessions and answers | `Modules` | `ModulesProofs` |
| `OperatorRuns` | simulations, probes and benches in the background | `Modules` | `ModulesProofs` |
| `Courses` | one course, its class sessions, roster and syllabus run | `Modules` | `ModulesProofs` |
| `Roster` | accounts, roster uploads, invitations, identity cache | `Modules` | `ModulesProofs` |
| `PromptOverrides` | the life of a proposed examiner prompt | `Modules` | `ModulesProofs` |
| `SyllabusMap` | syllabus text to dated topics | `Algorithms` | |
| `QuestionBank` | merge, curation and layout of concepts; shares and assembly of questions | `Algorithms` | `AlgorithmsProofs` |
| `Chunking` | sentences to chunks | `Algorithms` | |
| `GraphStore` | a corpus into the graph store, and its walks | `Algorithms` | |
| `QuestionQuality` | the bench's checks; the generator's context and levels | `Algorithms` | `AlgorithmsProofs` |
| `Scoring` | the EDS of a question, the cohort report, claims and their scores | `Algorithms` | `AlgorithmsProofs` |

`H` stands for `src/backend/app/http_app.py` below.

## 1. Inventory

### What runs, and what it shares

- **The HTTP service** (`H`, 8,000 lines; `src/backend/main.py` starts one uvicorn
  process). A handler borrows a connection from the pool, runs its SQL and returns it; what it has not
  committed is rolled back on return. Postgres is at READ COMMITTED, so each *statement* sees
  what others have committed before it, and a handler that reads in one statement and writes
  in a later one can be overtaken in between. Nearly every hazard of this code is of that
  kind.
- **Daemon threads of the service**: expected-path fillers (H:574-660), hybrid scoring
  (H:308-428), graph rebuilds (H:716-900). They outlive their request, die with the process,
  and share the module-level sets `_INFLIGHT_PATHS` and the graph-build bookkeeping.
- **The worker** (`src/backend/async_jobs`): polls SQS, runs the ingestion pipeline, one
  commit after the other. During a deployment two tasks run.
- **The browser**: each page sends one answer at a time and gives a request up when the gateway
  answers 504, while the handler goes on. The server does not hold a student to one page:
  `start_exam` gives a second tab or device the same active session (H:4931), so that submits of
  one question overlap without any timeout.

### Components

| component | state | operations | what is hard | what makes it correct |
|---|---|---|---|---|
| Exam attempts and the assignment's life cycle | `assignment`, `question_set_membership`, `exam_session` | start, complete, create, assign, publish, discard, cleanup, close, delete | check-then-insert; transactions that delete children before they know whether they may; lock order | one active session per user; one attempt unless practice; a released assignment keeps questions and attempts |
| Answers, sub-turns and scoring | `session_turn`, `evaluation`, `question_eds_aggregate` | `submit_answer`, the hybrid thread | the index is counted before the insert; components are read before an LLM call and stored after it; two pages on one session; requests that outlive their page | the transcript has no gaps; an acknowledged answer is lost only to a submit that had counted the same index; the aggregate is what the turns show |
| Expected reasoning paths | `question.expected_path`, `_INFLIGHT_PATHS` | queue from assign, start and submit; fill; wait | threads that fail, hang or vanish; poll against deadline | one thread per question; the set is exact; no student waits for ever |
| Grades and their release | `grade`, evaluations | `upsert_grade`, `override_grade`, `release_grades` | read-then-write on rows others edit; multi-row transactions | what a professor enters is kept; released is final; the reply is true |
| Material ingestion | `material`, `material_version`, `chunk`, `async_job`, the bucket, SQS | presign, upload, register, pipeline, `delete_material` | a commit per step; at-least-once delivery; crashes; deletion while a run is under way | versions are numbered; what search serves has chunks; failures are recorded; messages are dealt with |
| Course concept graph | `document_concept`, `course_concept`, `graph_version`, stale flag | ingest, build, rebuild, delete, mark syllabus, curate | snapshots that overlap; two active versions (no unique index); a flag left set; a commit between a deletion and its snapshot | the graph is that of the current documents, each concept once in it; two active versions share no label; the flag is cleared |
| Delivery module | session and turn rows, the loaded copy | start, next, submit, resume, abandon | failure between two commits; stale copies written back whole | a question once, in order; a session can be gone on with |
| Server-sent events | none | stream status, examiner text | only reads | – |
| Demo links | `demo_link`, sessions, turns, aggregates | mint, start, answer, complete | an attempt committed before its session | attempts are accounted for |
| Simulations, probes, benches, prompts | run rows, overrides | start, run in a thread, poll; propose, approve, activate, revert | one connection that any statement can spoil; read-then-write of a status | a run tells how it ended; no prompt without approval |
| Courses, enrolments, class sessions, syllabus | their rows | edits, `process_syllabus`, `delete_course` | check-then-insert; deletion in many statements; heuristics over text | no duplicates; of the tables a deletion lists nothing older is left; a line belongs to one session |
| Graph store, EDS scorer, graph tools | versions, archive, Kuzu | build, activate, ingest, walk | two workers; a connection that stays aborted; cycles | the course always shows a built graph; walks are exact |
| Questions and evaluation modules | jobs, questions, evaluations, grades | generate, review, evaluate, override, release | redelivery; read-then-write of a grade | outcomes are recorded where there is a row for them; decisions stand |
| Extraction, chunking, embedding, search | data | pure algorithms, file formats, vectors | window arithmetic | chunks cover the text |
| Authentication, tenancy, the pool | Cognito logins, `app_user`, `enrollment`, cache, connections | provision, upload, redeem, resolve; borrow, `set_tenant`, return | two systems without a common transaction; a cache beside a role change | handed-out passwords stay; seats are not oversold; staleness is bounded |
| Frontend | page state | TakeExam, GradeView | which requests overlap | – |
| Deployment and scripts | – | provisioning | – | – |

`PROJECT.json` lists them with their sources and status, and under `hazards` the places
where the code is hardest to test, each with its line and the properties that watch it; what
no property promises anything about is listed in section 4.

## 2. The modules

All modules follow one convention: a handler is a record `[pc, ...]` per request holding what
the handler has read so far, and there is **one action per statement (or run of statements)
whose result another request can overtake**. Everything between two such statements belongs
to one action. History variables (`overtaken`, `overlapped`, `acked`, `twice`, `lost`,
`manual`, `commented`, `stale`, `excuse`, `raced`, `crossed`, `contested` and their like) record what the database does not, so that a property can say
under which overlap it may fail; no guard of a model of the code reads one. Operators that a
comment calls "mutant" are plausible bugs of the definition after them. No specification uses
them: they show that the properties notice such a bug.

### ExamAttempt

State: `astatus`, `practice`, `questions` (the assignment and its question set), `sess` (the
session table; uuids not drawn yet are `"unused"`), `req` (start requests), `tx` (the teardown
transactions with the rows each has deleted and not committed), `alock` (the assignment's row
lock).

- `start_exam` is `StartSelect` (status and ownership), `SingleAttemptCheck`, `StartInsert` /
  `StartConflict` (the INSERT ... ON CONFLICT against the partial unique index on *active*
  sessions; it waits for a transaction deleting the conflicting row, and its foreign key fails
  when the assignment is gone) and `StartFallback` (the lookup after a conflict, which may find
  nothing; the client then gets an id no row has, `"phantom"`).
- `complete_session` is `Complete`; create and assign are `CreateAssignment` and `AssignExam`.
- `publish_assignment` takes the assignment's lock first and purges previews after it
  (`PublishUpdate`, `PublishRows`, `PublishCommit`). Discard, cleanup and delete take the
  children first (`TeardownSelect`, `TeardownRows`, `DiscardCommit`, `CleanupCommit`,
  `DeleteCommit`). `DeadlockVictim` is Postgres aborting one of two that wait for each other.

| run | bounds | shows |
|---|---|---|
| `_safety` | 1 student and the owner, 3 requests, 3 uuids; publish, discard, close, delete | the safety properties below. Three requests are a winner, a loser and one more between check and insert; three uuids are two attempts and a preview |
| `_liveness` | 2 requests, 2 uuids; publish and cleanup | transactions end, the deadlocking ones included; starts are answered |
| `_cleanup` | 2 requests, 2 uuids; all teardowns | **violation** of `ReleasedKeepsQuestions`: the cleanup, overtaken by publish, commits the removal of a published assignment's children |

A completion between another request's check and its insert gives a student a second attempt
(H:4893). `RetakeNeedsOverlap` is what holds instead: a second one needs exactly that
overlap. `AttemptsStand` joins `RealAttemptsSurvive` (only deleting the assignment removes a
real attempt) and `SubmittedIsFinal` (what is submitted stays so, with its student). `_safety` and the
theorems `ReleasedKeepsQuestionsHolds` and `RealAttemptsSurviveHolds` leave `"cleanup"` out of `Teardowns`, because with it they are
false, as `_cleanup` shows: publish, discard and delete by themselves are safe. Types are not
a property of the run; `TypeCorrect` proves them for every instance.

### AnswerTurn

State: `turn` and `eval` (the rows of each sub-turn), `agg` (the aggregate's covered
components), `path`, `mode`, `session`, `req`, `bg` (hybrid threads). An answer is a model value, an
evaluation the set of nodes and edges it shows: the formula that turns it into a score is data here.

`Begin`, `CompleteSession`, `SwitchMode`, `PathLands` are the environment. `Begin` asks for an active
session and for nothing else, as H:4985-5051 does: a submit may begin while any number of
others are at work, from other tabs or given up on by the gateway. `ReadPath`, `Count`,
`InsertTurn`, then `StoreLegacy` (no path), `ReadPrior` and `StoreScore` (default mode) or
`StorePrelim` (hybrid) are `submit_answer`; `AggregateFails` and `SubmitFails` its error paths;
`BgRead`, `BgStore`, `BgFail` the thread. A failed LLM call finds nothing (`Findings`).

Three history variables name the overlaps, and each property makes exactly one exception:

| property | holds but for | |
|---|---|---|
| `TranscriptKept`: sub-turns have no gaps, an acknowledged answer is in the transcript | the sub-turns in `Replaced` | their index was counted by a second submit before the first inserted its row (`overtaken`), and the second has written it |
| `EvaluationsFitAnswers`: an evaluation is of the answer its sub-turn holds | the same | |
| `AggregateIsUnion`: the aggregate is what the sub-turns show, at every moment and not only at rest | while `torn` | it was last stored by a scoring that had read its siblings before another's store (`outrun`); the next undisturbed one mends it |
| `CoverageKept` (action property): nothing demonstrated is taken back | `Replaced`, and the stores that make `torn` | |

Submits, with their threads, that follow one another, in either mode, with failed calls and upserts and a session
completed in the middle, thus lose nothing. `_overlap` has 3 requests, 2 answers and 2 nodes: two submits that
count one index and a third beside or after them, or two scorers on top of a finished sub-turn.
The comment at H:5102 says a retried submit updates its sub-turn; in the model, as in the code,
it gets a new one, unless it has counted before the first one inserted.

### ExpectedPath

State: `path` (which request's thread stored it), `inflight`, `req`, `fill` (each thread's
batch). `Assign`, `StartExam`, `SubmitAnswer` are the callers, `Queue`
`_fill_expected_paths_async` under its lock, `AwaitEntry`, `Poll`, `Check`, `Deadline` the
wait of `submit_answer`, `Store`, `Fails`, `End` the thread, `Restart` the process.

`PathBook` states what all this promises without callers, lock, set or deadline: a question is
free or with one filler; a filler takes free questions, records or gives up each of them at most
once, and lets them go, also all at once. `ImplementsPathBook` is the refinement: `book` is
`path`, `holder` the running thread whose batch has the question, `open` what the running threads
have left. A race in the in-flight set shows as a `Take` of a question that is not free.

`_fill` (2 questions, 3 requests, any number of restarts) shows that the in-flight set is
exact, that the system implements `PathBook`, that a stored path is replaced only by a thread
that was queued on a stale read (components of earlier answers are indices into the path), and
that every waiting submit goes on. Fairness is on the requests' own steps and on the clock;
**none on the threads**, because an LLM call may hang.

### Grading

State: `grade` (committed rows), `evals` (sum of `eds_score`), `completed`, `req` (with the
row each request has read and, for a release, the rows it has written and not committed).
`UpsertRead`, `UpsertUpdate`, `UpsertInsert` are `upsert_grade`; `Override` is
`override_grade`; `ReleaseBegin`, `ReleaseRead`, `ReleaseUpdate`, `ReleaseInsert`,
`ReleaseCommit` are `release_grades`; `DeadlockVictim` and `Abort` are Postgres and errors.
Scores are hundredths; `AutoScore` is `min(1, total / max(max_questions, 1))`.

`_requests` (2 sessions, 2 requests, totals 0 and 2 against `MaxQuestions = 1`, so the cap is
met) shows that input is lost only to a request that had already read the row, that a release
names only what it released, that released is final, and that every request ends. Two sessions
are what two releases need to deadlock. H:5854 says release preserves a manual score; one that
read the row before the score was entered overwrites it, which `InputKeptUnlessOvertaken`
allows by its `overtaken`.

### Ingestion

State: `material`, `current` (`current_version_id`), `pre` (the number each presign has
computed), `ver` (`material_version` and whether it has chunks), `stored` (the bucket), `job`,
`reg` (register requests), `queue` (SQS), `wk` (the workers).

- `Presign` and `CreateVersion` are the read of the highest number and the INSERT that
  `UNIQUE (material_id, version_no)` guards; `Upload` is the browser's PUT; `CreateJob`,
  `MarkUploaded`, `Send` are `register`, `RegisterFails` its crash; `DeleteMaterial` is
  `delete_material`.
- `Receive`, `VisibilityTimeout` and `Deleted` are SQS: a message not deleted in time is
  delivered again, also while its worker is still at work; an old receipt may or may not delete.
- `Load`, `StepVersion`, `StepJob`, `Persist`, `MarkReady`, `SetCurrent`, `Succeed` are the
  pipeline, a commit each. `Persist` stores chunks, or none when every slide or page of the file is
  blank: such a file has units, so the run goes on to ready (`blank`, the one exception that
  `ReadyIsSearchable` makes); `FailVersion`, `FailJob` are `_mark_failed`; `RunFails` is any failure
  that leaves the connection usable, `LoseConnection` one that does not; `Ack` is the `finally`;
  `Crash` is a killed process.

| run | bounds | shows |
|---|---|---|
| `_safety` | 2 versions, 2 jobs, 2 workers, `MaxCrashes` 1, `MaxLate` 1 | numbering, searchability, recording, that `register` never undoes the worker's progress, and the refinement of `WorkQueue` |
| `_liveness` | 1 version, 1 job, 2 workers, `MaxCrashes` 2, `MaxLate` 2 | every visible message is dealt with |
| `_failure` | 1 of each, no crash | **violation** of `FailureRecorded`: an SQL error of the pipeline leaves the connection in an aborted transaction, `_mark_failed` raises as well, the message is acknowledged all the same and the process ends |

`MaxCrashes` bounds killed processes and lost connections together, `MaxLate` the timeouts
that pass while a worker is at the message. One of each puts two workers on one message with a
dead one before; the safety results are proved for any number of both.

### WorkQueue

What the workers of `async_jobs`, `graph`, `questions` and `evaluation` have in common: a queue that
delivers at least once, and handlers that record an outcome before they remove a message. `mail` is the
state of each message, `hand` the message each handler has, `done` the handlers that may hand theirs in,
`told` the messages whose outcome can be seen, `lost` those a handler had to give up. Only a handler
that has a message and is not done with it changes what is told of it (`Tell`, or `Reopen` when it is
begun again), `HandIn` needs a handler that is done, and being done takes `Tell` or `GiveUp`; whoever
breaks off (`Drop`) leaves the message to `Reappear`. `TellAside` is for outcomes that others tell as well.

| | a message is | an outcome is told by | and given up when |
|---|---|---|---|
| `Ingestion` | a job | its status `SUCCEEDED` or `FAILED` | `_mark_failed` has no usable connection |
| `GraphBuild` | a build | a version of it that is built, empty or marked | the process's connection had failed |
| `QuestionJobs` | a generation job | its status | the status cannot be written |
| `EvaluationJobs` | a turn | its evaluation, also one made by a tool | its answer is blank, or its run failed: the failure goes to a job row that nobody inserts |

Each of the four has the refinement mapping beside its properties (`Queue`, `ImplementsWorkQueue`).
`Ingestion_safety` checks it as a property; of the three others `MessagesHandedOn` says it of each step,
which is how a property of `Modules` can speak of the part the behaviour is about.

### CourseGraph

State: `chunks`, `gone`, `syllabus` (the documents), `docRows` and `courseRows` (with the operation
that wrote each), `version` (with labels, what was published, the stale flag), `inflight`, and `op`,
one record per operation with what its transaction has deleted, inserted and not committed, and
the rows it waits for. `Label` are labels as they are spelled, `Fold` what `strip().lower()` makes of them:
the unique key of `course_concept` is on the spelling (migration_013:54), the merge goes by the fold
(`concept_graph.py:55`), so a snapshot has one spelling of each concept and two overlapping ones may have
different ones without clashing.

`Ingest`, `BuildMaterial`, `RebuildGraph`, `DeleteMaterial`, `SetSyllabus`, `CurateRead` begin the
six operations; `Read`, `Extract`, `Rows`, `WriteConcepts` build one document; `MarkStale`,
`EnterRebuild`, `ListDocuments`, `NextDocument`, `ClearStale`, `LeaveRebuild` are the rebuild and
its thread; `Purge`, `MergeDocuments`, `ClearCourse`, `InsertCourse`, `Retire`, `CommitSnapshot`
the snapshot that all of them end in; `ExtractFails`, `InsertClashes`, `Deadlocks`, `ConnectFails`,
`AfterFailure`, `ClearFails`, `Restart`, `WorkerDies` what goes wrong. `ClearFails` is the UPDATE of the stale
flag whose failure H:811 swallows.

`_overlap` (2 documents, one of a type that has no graph; 3 labels, of which two spell one concept; 3
operations; 1 restart; a document contains nothing, one spelling, the other, or one of them and the other
concept) shows:

- `CurrentUnlessDisturbed`: at rest, one active version shows exactly the concepts of the current documents, in
  one of their spellings each, unless something named in `excuse` disturbed it and no undisturbed snapshot
  followed: an overlap, a rebuild that failed half-way (`"partial"`) or lost its connection (`"lost"`), a
  restart, a curation;
- `ActiveVersionsDisjoint`: two versions can be active at once, but then share no label as spelled; one
  snapshot's rows have each concept once;
- `StaleIsServed`: a stale flag is being served, unless a process ended, or a rebuild's thread got no
  connection or lost it before it could clear the flag.

Three operations are two overlapping snapshots and what follows them. The instance has 1.7 million states.
Checked once on larger ones: all contents that do not mix one spelling with the other concept (3.3
million), one concept in two spellings with all contents (1.1 million), two concepts (0.85 million).

### The parts behind `Modules`

`MCModules` instantiates nine modules that meet only through their tables; the start of a
behaviour picks the one it is about, and the others stay as they are. Two processes (`Actor`)
each: two clients, two workers, a worker beside a tool call, two requests. One property may join
what two or three parts promise; its definition in `MCModules` names them. Every constant of a part is
one of `MCModules`, given its value in `Modules.cfg` only (`ConceptsOf`, `Stripped`, `AsStored`
and `OneEntry` are the functions it names; `Parts` lists the parts), so that a theorem about the composition is one for all values.

- **Delivery**: `Activate`, `Close`; `StartCheck`, `StartLook`, `StartCreate`; `NextLoad`,
  `NextCurrent`, `Select`, `CreateTurn`, `SaveDelivered`, `Complete`; `SubmitLoad`,
  `SubmitCurrent`, `SubmitAnswer`, `Advance`; `AbandonLoad`, `AbandonSave`; `CallFails`. `Choices` is the
  selector: with a graph store any eligible question, and without one those with most new coverage.
  Eligible would be what has its prerequisites covered; the call that asks the store for them lacks two arguments and
  its TypeError is taken for "none" (`DirectPrereqs`, `adaptive.py:119`), so that every question is.
  It takes any eligible question where the code ranks the best three. 2 questions; a call that
  breaks off once.
- **GraphBuild**: `Send`, `Receive`, `NextNumber`, `Create`, `FetchChunks`, `Upload`,
  `UpdateVersion`, `Deactivated`, `Activate`, `BuildFails`, `MarkFailed`, `Ack`; `StatementFails` and
  `ConnectionBreaks` leave the process's only connection unusable; `Crash`, `VisibilityTimeout`. The
  archive is a function whose domain is the numbers that were uploaded.
- **QuestionJobs**, **EvaluationJobs**: the same life of a message over a job, its questions and a
  turn's evaluation, beside `GenerateNow`, `Review`, `UpdateQuestion`, and `Evaluate`, `Override`,
  `ComputeGrade`, `CreateGrade`, `Release` of the tools. A turn whose answer is blank is passed over by the
  worker and refused by the tool (`SkipBlank`); the UPDATE by which a failed evaluation is recorded names
  a job row that is not there (`JobRows`), so that the failure is recorded nowhere.
- **DemoLinks**: `Mint`, `Expire`, `DeleteAssignment`; `Start`, `Consume`, `Insert`; `Answer`, `Count`,
  `Upsert`, `Evaluate`, `StorePlain`, `Store`, `Aborts`, `Complete`.
- **OperatorRuns**: `Create`, `Connect`, `Load`, `Path`, `Agent`, `Worked`, `Complete`, `Transcript` of the
  three kinds of run; each statement may fail, and where the code swallows that, the connection
  stays aborted; `PersistFails`, `RecordFailure`, `Restart`.
- **Courses**: creation, `DeleteRows` and `Delete`, the two title checks and their writes,
  and `Process`, `Lock`, `Check`, `Insert`, `ProcessEnds` of `process_syllabus`. `AddChild` adds a row with a foreign
  key to the course; `AddLoose` and `RemoveLoose` are about rows without one (`Loose`: enrolments, materials,
  versions, chunks, jobs, simulations, benches, demo links), of which the deletion lists some
  (`Listed`, H:1652). A title that is stored is trimmed by the database, which takes blanks off (`Trimmed`), a new one
  by Python's `strip()` (`Fold`); a title where the two differ is `Ragged`.
- **Roster**: `CreateLogin` and `SetPassword` at Cognito, `Store` in the database, `Told`; `RedeemLook`,
  `Redeem` under the invitation's row lock; `Unenroll`, which may lose one of the two rows' DELETEs to its
  savepoint (H:1959); `Store` and the mirror, which is skipped while its table is not there (`there`); `Load`, `Cache`, `Tick` of the identity cache.
- **PromptOverrides**: `Read`, `Archive`, `Write` of a transition, and `Answer`, an examiner that takes
  the active prompt.

| property | says |
|---|---|
| `SessionsSound` | turns are numbered without gaps, ask a question once and after the one before was answered; an active session can be gone on with unless a call was broken off or overtaken there; a demo session's aggregate holds what its evaluations found |
| `NeverWithoutGraph` | the course shows a version that was built, under its own number unless a message was received twice, and from the first on always one |
| `OutcomesTold` | a message or thread is gone only when its version, job, evaluation or run tells how it ended, or it lost the connection to say so; an evaluation's message also when its worker gave the turn up, and then the turn has no evaluation unless another call made one |
| `MessagesHandedOn` | graph builds, generation jobs and evaluations each take only steps of `WorkQueue`: a message is removed by a worker that had it and told its outcome or gave it up |
| `DecisionsStand` | a grade keeps the entered score and its release; no student meets a prompt that was not approved, and rejected or reverted ones stay out; each unless two calls overlapped there |
| `CoursesHold` | a syllabus becomes sessions once; titles differ unless a check went stale or did not see white space; a deleted course leaves no session and no row with a foreign key to it, and of the tables its deletion lists only rows inserted while it ran or later |
| `AccountsKept` | attempts and seats are not oversold and are accounted for; a batch replaces no password that was handed out; who is enrolled is on the roster unless an invitation, a table not there yet or a failed DELETE parted them; a stale role is served no longer than the cache's TTL |

The bounds in `Modules.cfg` (1.2 million states) let each of these happen: two messages or requests
at one row, one crash and one late redelivery, two failing statements, 2 demo attempts for 2
requests, 1 seat for 2 redemptions, a blank answer among two turns, two titles of which one is the
other with a tab, a TTL of one tick. Larger instances were checked once: `Delivery` with 3
questions and with 2 sessions (5 to 6 million states), `Courses` with 3 documents, one of them ragged (0.3
million), and with a listed and an unlisted loose row (0.3 million), `DemoLinks` with 2 positions (9.8 million).

### The algorithms

`MCAlgorithms` feeds them sequences that grow by one part per step, so that every input up to a
bound per subject (`Bound`) is a state; the invariants quantify over what has no order.

- **SyllabusMap** models `run_pipeline` with its strategies, the bounds of the schedule, dates and
  gaps, tables that run over a page, the columns taken by their header, merging, validation and `process_syllabus`'s
  unique titles, on lines that are already *classified* (heading, dated, brief, bare date, item, ...) and tables of
  rows: the regular expressions are data, what is done with their matches is not. All documents of 4 of 13
  lines, each with 3 sets of tables; all sequences of 4 of 7 dates. `MaxGap`, `Lookahead` and `MaxTopic` are the
  code's limits, made small.
- **QuestionBank**: `merge_document_concepts`, `apply_curation`, the layered layout,
  `distribute`, and the assembly of an exam.
- **Chunking**: token windows with overlap (`chunker.py`), character windows (`TextChunker`).
- **GraphStore**: ingestion of a corpus chunk by chunk, where each label is resolved to what the vector
  search answers (`hit`, any function: a stored label need not be found by itself), prerequisite and
  neighbourhood walks, depths by simple paths of at most `MaxPath` edges (20 in the code, 2 in the run, so that
  longer chains occur).
- **QuestionQuality**: QG-01 to QG-06, the summary, the classification of levels; the generator's
  retrieval and what it accepts. Similarity of texts is external.
- **Scoring**: the EDS over sub-turns and the follow-up loop of `agent_sim.py`, the cohort report; the
  claim extractor, and the five parts of `GraphScorer` for a turn and a session.

| property | says |
|---|---|
| `TextKept` | each line of a schedule that was found belongs to one session, whose fields hold its text unless it is a date line, a keyword's or a stray label's (`Dropped`); tables split by a page are read as one; tuples are merged, never dropped; an academic year's order is not disorder; the strategy that wins is the best that validates; titles end up different. Of the search's chunks every sentence is in one, in order, within the limits; of the extraction's, all but a remainder below the minimum |
| `GraphsKept` | merging does not depend on the order of rows, curation keeps what it was asked to keep, layers follow relations; ingesting a corpus again adds a node per label that the search then misses and changes nothing otherwise, and edges join nodes; walks find exactly what reachability defines; without a cycle what at most `MaxPath` edges lead to lies deeper than what it builds on |
| `QuestionsShared` | shares add up and are proportional, each topic asks its own questions; the bench's checks agree with one another; contexts are distinct and levels kept |
| `ScoresFit` | a follow-up never costs points, unless more nodes are reported than the path has, and none is asked without a reason; more evidence never counts for less; coverage adds up over claims; a session's score lies between its turns'; the report counts every agent once |

The run has 87,480 inputs. Scores are integers over fixed denominators; the code's rounding to four places, and floating point
at a threshold, are left out. The properties were also seen to fail for a coverage that forgets earlier
claims, an overlap that takes the whole tail, ids that are always new, a depth-first walk, levels
by number of nodes, and an `answered` that can be taken back.

### Fairness

Only under a run's `FairSpec`: a handler or worker that has begun takes its next step (weak
fairness); where it waits for a row lock others keep taking, Postgres's lock queue serves it
in turn (strong fairness); workers poll whenever they are free and SQS makes undeleted
messages visible again (`Receive` strongly, `VisibilityTimeout` weakly fair). No user,
professor, LLM call or thread is ever obliged to act. `MaxCrashes` also ends the crashes in
`Ingestion_liveness`: a worker that dies at every attempt deals with nothing.

`CHECK_DEADLOCK FALSE` is in every configuration, as requests are served once and the system may
stop when all are.

## 3. What is proved

By TLAPS, for all values of the constants; the assumptions are the named `ASSUME`s of the
modules and nothing else (`"cleanup" \notin Teardowns` where said above).

- **ExamAttemptProofs**: `TypeCorrect`; `OneActiveSessionHolds`; `DraftHoldsOnlyPreviewsHolds`;
  `RetakeNeedsOverlapHolds`; `ReleasedKeepsQuestionsHolds`; `RealAttemptsSurviveHolds` (an
  action property). None of these is inductive by itself. `AttemptInv` adds what a request
  carries from its SELECTs to its INSERT: the owner and the preview flag while the assignment is a
  draft (`RequestsKnow`), and that one past its check whose user has a submitted attempt is in
  `overtaken` (`CheckedMeansOvertaken`). `LockInv` adds that the rows publish holds are previews
  and that publish holds the assignment's lock from its first statement on, so that a teardown
  whose last statement waits for it finds no draft afterwards. `SubmittedIsFinalHolds` (an action
  property) follows from the types alone, one action after the other: every UPDATE and INSERT has a
  guard on the status it finds; `AttemptsStandHolds` is the two together.
- **ExpectedPathProofs**: `TypeCorrect`; `InflightIsServedHolds` and
  `OneFillerPerQuestionHolds`, proved together, as neither is inductive alone (a thread that
  ends may take its batch out of the set only because no other thread has it) and both need that a
  request which has not queued yet has no thread (`Fresh`); `ReplacedOnlyWhenStaleHolds`, from
  `Untouched`: what a thread still has to do and was missing when queued is missing still.
  `ImplementsPathBookHolds` is the refinement for any sets of questions and requests: by the
  invariant `holder` has exactly one candidate (`HolderFacts`), and each action is then a step of
  `PathBook` or none (`QueueTakes`, `FinishDeals`, `EndLetsGo`, `RestartForgets`, `QuietStep`).
- **IngestionProofs**: `TypeCorrect`, with the ties between workers, jobs and registers (`Base`);
  `ReadyIsSearchableHolds`, from `Kept`: a worker past its upsert has chunks stored, or a blank file, and only
  the deletion of the material takes chunks away, after which nothing is served, and from `Linked`: a registered
  job's version is there until then;
  `RecordedUnlessLostHolds`, from `Exclusive` (two workers at one message are in `twice`),
  `Undeleted` (an only worker's message is still there) and `Ending` (who is about to
  acknowledge has recorded the outcome or is in `lost`); `VersionsNumberedHolds`, from
  `PresignSawAll`: the numbers below a presign's own are still taken when it inserts, because
  rows are deleted only all together; `ProgressNotResetHolds` (an action property), from `WorkedBySent`:
  what a worker has recorded of a version comes from a job whose register has sent its message, after
  which that register has no statement left. `ImplementsWorkQueueHolds` is the refinement, for any
  number of jobs, workers, crashes and redeliveries: the invariant it needs (`QueueInv`) is `Base` and
  `Unended`: of a job whose register has not begun nobody has recorded an outcome.
- **GradingProofs**: `TypesCorrect` (the score of `AutoScore` is one, whatever the evaluations
  add up to), `InputIsKept`, `RepliesAreTrue`, `ReleaseIsFinal` (an action property). A row exists
  in three places, committed, read by a request that will write it back, and drafted in an
  open release, and the invariant says of each what the property says of the committed one:
  unless the session is in `overtaken`, it holds what the professor entered (`Fits`). `Sound` adds
  that only an open release has drafts, that they are released, and that what it has listed is
  released already or will be when it commits; a row that is not there is blank (`Blank`), so that
  an INSERT loses nothing.
- **AnswerTurnProofs**: `TypesCorrect`, `NumberedWithoutGaps`, `AnswersAreKept` (together
  `TranscriptIsKept`), `EvaluationsFit`, `AggregateIsKept`, `CoverageIsKept` (an action property), for any
  number of submits at once. That sub-turns have no gaps needs `RowsOK`: every row was inserted by some
  request, so that by counting (`CountFacts`, with the cardinality theorems of the library) one that has
  yet to count finds fewer rows than there are requests, and below a counted index every index has its row.
  `IndexOK` says what an index is to the submits that hold it: who finds its row taken is in
  `overtaken`, and unless one of those has replaced the row, it is one submit's alone, with that
  submit's answer, and shows nothing before that submit's own scoring. `AggregateOK` adds that a scoring
  which is not in `outrun` knows its siblings as they are (`Fresh`), and that while no row was replaced
  nothing read or stored is more than what is shown (`Bounded`); a store that is not outrun is therefore the union,
  and takes nothing back.
- **CourseGraphProofs**: `TypesCorrect`, `VersionsAreDisjoint`, `StaleGraphIsServed`,
  `GraphIsCurrent`, from one invariant, as each part needs others. `Shape` ties an operation's
  fields to its point. `Unique` says of the rows a transaction has inserted what the key says of
  the committed ones, and `OneSpelling` that a merged graph has each concept once, which the key does not see. `Backed`: an active version has its rows, and whoever has deleted some of them
  will retire it, also when its UPDATE began, and fixed its rows, before it had to wait; this is
  why two versions cannot share a label although nothing locks the course. `Served` names the
  operation that will retire a stale version or clear its flag: one whose UPDATE waits serves only the
  versions it has seen, and one that fails to clear it leaves `"lost"`. `Alone`: a snapshot that is not marked as overlapped is the only one open and
  will retire every version. `Current` carries the graph through the snapshot: once merged it is that
  of the documents as they will be when it commits, as long as nobody else owes the publication
  of a change it has committed (`Owing`). A generic lemma per kind of step (`OpStep`, `InnerStep`,
  `EndStep`, `OwingStep`, `FlagStep`) takes what the operation is like afterwards; each action has a
  lemma of its own that shows it.

- **ModulesProofs** (over `MCModules`), the workers first: `OutcomesToldHolds`, `NeverWithoutGraphHolds`,
  `WorkersImplementWorkQueue`, `MessagesHandedOnHolds`. One invariant per
  part.
  - *Evaluation jobs* (`EInv`): who is about to acknowledge has left an outcome (`EOutcome`), and
    who holds a grade knows how far it was when it was read (`EKnown`).
  - *Generation jobs* (`QInv`): a job that was never begun has left no trace (`QNever`), and one begun
    once has one worker whose ids are what the job has generated (`QOnce`): this is what makes the
    recorded ids and the questions agree.
  - *Background runs* (`OInv`): what is shown is determined by where the thread is (`OShown`).
  - *Graph builds*: `GBase` is what holds however often a message is received: a worker past its
    INSERT has a row of its own, what is active was built, what is acknowledged is recorded.
    `GSerial` is what the queue's order adds while no message was received twice: a message is handled
    when all before it are deleted (`GLine`, `GFirst`), so one worker at a time has one; then the number it
    has read is above all others, and what it deactivates is all that is active (`GSole`). That the
    course never stops showing a graph follows from the last two.
  - *The queue*: the three workers implement `WorkQueue`. Per worker one lemma says what the queue sees of a
    step (`EView`, `QView`, `GView`), one per kind of step which action of `WorkQueue` it is, and
    `ERefines`, `QRefines`, `GRefines` collect them. Builds need `GFit` (who activates or marks has a row of
    the message it holds), evaluations that only workers come to `mark` and `ack` (`EWork`).
  Then the requests: `DecisionsStandHolds`, `CoursesHoldHolds`, `AccountsKeptHolds`,
  `SessionsSoundHolds`.
  - *Prompts* (`PInv`): a request acts on the status it has read, and still has it unless another
    request acts on the same override or an activation has archived it.
  - *Courses* (`CInv`): the title a request is about to write is free unless its check went stale
    (`CFree`), also of stored titles that differ from it in white space only, as these are in `raced` (`CRagged`); who is between the check and the insertion of a schedule holds the advisory lock.
  - *Accounts* (`RInv`): who redeems holds the invitation's row and there is a seat; a batch's new login
    has no password until another request overlaps; the ages of a cached role that is no longer
    true and of the change that made it so are a TTL together (`RAge`). Every step that can part the two rows of an
    enrolment puts its user into `apart`.
  - *Demo links* (`LInv`): a submit at work on a cell has room for its row, or its row (`LPlace`); alone
    there, what it has seen of the others is what they hold. Attempts are counted with the
    cardinality theorems of the library.
  - *Deliveries* (`DInv`): a turn never changes but to be answered (`DKeeps`), so what a call has loaded
    stays true of the turns (`DReached`), whoever writes in between; a session no stale save has
    touched has no turn past its index (`DWhole`), which is why the call that advances it finds an open
    question or none. `DSound` is the property itself, carried through.

  Each part's invariant is proved of its own specification's steps; `WorkersStep` and its like say that a
  step of the composition is one of the part or leaves it alone.

- **AlgorithmsProofs** (over `MCAlgorithms`): `ScoresFitHolds` and `QuestionsSharedHolds`, and the theorems they
  rest on, which are about inputs of any length. For scores: `EveryProbeIsFollowed`,
  `AnotherFollowUpNeverHurts` (verdicts over any finite sets of nodes, edges and extensions, any path),
  `CohortIsCounted` (any cohort), `CoverageIsTheSum`, `FurtherClaimsNeverHurt` (any claims, concepts and
  store), `SessionIsBetween` (any number of turns). For questions: `SharesAreFair` (any number of concepts and
  questions), `TopicsAskTheirOwn` (any rows and answer of the generator), `ChecksAgree` (any questions and
  graph), `GenerationIsFit` (any hits, limit, answers and depth); of the constants, only that the tiers drawn
  are tiers (`DrawnAssumption`).
  - *Folds*: the loops of the code are `FoldLeft`s, which choose a function by the equation it satisfies.
    That there is one (`FoldsExist`) and that its values are what the loop has after each round (`FoldTrace`)
    is proved by induction with a set in the place of the predicate (`Induct`, from the library's theorem
    that the natural numbers are well founded). `TotalTrace`, `CoverageTrace`, `AmongKeeps`, `DistinctTrace`,
    `JoinedTrace`, `RowsTrace` and `BankTrace` apply it to sums, to the scorer, to what an extraction keeps,
    to lists without repetition, to lists put together and to the merge of a concept's rows.
  - *Follow-ups*: the rounds with one more follow-up allowed are the same or more of them (`RoundsGrow`), more
    rounds report no less and recite no more (`ReportsGrow`), and the formula grows in each of the two while no
    more is reported than the path has (`FormulaMonotone`). Rounding keeps the order (`RoundMonotone`).
  - *Coverage*: the scorer's credits fit what it has covered (`Fitting`), and adding and cutting off at
    one claim by claim comes to the same as cutting off the sum (`CoverageSum`). Coherence is a matter of two
    numbers (`CoherenceByNumbers`), where one more supported claim makes the quotient no smaller.
  - *Shares*: what the floors leave over is a sum of remainders, so it is less than a question for each concept
    that was rounded (`LeftFits`); the concepts before each by remainder and number are those of a strict
    order, so exactly as many are rounded up as are left (`RanksFill`, by removing the last of the order), and
    only ones with a remainder. The bounds and the order of the counts follow.
  - *Topics*: `Distinct` keeps each element once, in the order of first occurrences (`DistinctKeeps`); if ids
    differ, the concept an id leads to is its own (`IdsTellApart`, by cardinalities); two equal questions are
    a multiple of the pool apart (`SameRest`).
  - *Checks and generation*: of fewer than twenty questions 95 of 100 are all of them (`AllAgree`); a context
    is the beginning of the different hits (`Retrieved`), in the order `DistinctKeeps` says.

Each invariant was checked by TLC as an `INVARIANT` before it was proved, on the instances of
`Grading_requests`, `AnswerTurn_overlap`, `CourseGraph_overlap` and `Modules`.

The proofs showed where the models had been too narrow or unclear, which was corrected:

- `CourseGraph`: the type of an operation's kind left out the rebuild that a failed deletion becomes
  when `Kind` does not have it; an operation could have been the same value as a row of a table, which
  `GraphAssumption` now excludes (model values differ anyhow).
- `GraphBuild`: the archive was a function on a fixed range of numbers and now has those that were
  uploaded; `OutcomeRecorded` made an exception for every message received twice, and holds without one:
  only those in `lost` may be gone without a record.
- `Roster`: the states of a password (`"unset"`, `"known"`, ...) and the requests that set one share a field,
  so `RosterAssumption` says that no request is one of them. `DemoLinks`: positions are numbers.
- `MCModules` had fixed the values of a few constants inside; they are parameters now.
- `QuestionBank`, `QuestionQuality`: a concept's rows, joined lists and counted results are the loops the code
  runs, as folds and cardinalities, where they had been library operators the provers cannot expand;
  the tiers of a difficulty are tiers, which `DrawnAssumption` says.

Only model-checked: `TextKept` and `GraphsKept`, each of several algorithms of `SyllabusMap`, `QuestionBank`,
`Chunking` and `GraphStore` at once, whose recursive functions the provers would have to unfold by
induction over the data; and all liveness (`TransactionsEnd`, `StartsAnswered`, `SubmitsProceed`, `RequestsEnd`,
`MessagesHandled`), for fairness and ENABLED. Every other property of a passing run is a theorem.

## 4. Where code and documentation disagree

Two runs end in a counterexample; `findings` in `PROJECT.json` quotes the line each one
contradicts: the cleanup of a published draft (H:4187), and the failure nobody records
(`async_jobs/worker.py:46`).

What follows was met while modelling and is in the models as behaviour (paths below `src/backend/`). First where a
comment or docstring promises what the code does not keep; the properties above say how much of
it does hold:

- *blank files*: the comment at `async_jobs/pipeline.py:68-69` wants a file without extractable text to fail
  loudly; the check in line 70 counts units, and a deck of blank slides has them (`extract/pptx.py:16-27`), gives no chunk
  (`chunking/chunker.py:43-45`) and becomes ready, current and its job succeeded;
- *one active graph*: `graph/models.py:182` and `docs/SYSTEM-VIEW.md:83` (of the repository) say one active version per
  course; two overlapping snapshots without a label in common, or with one spelled in two ways, both stay active
  (`app/concept_graph.py:232`);
- *depths*: the docstring at `graph/kuzu_store.py:444` says the longest chain; a concept that only chains
  of more than 20 edges lead to has depth 0, less than what it builds on (line 478);
- *prerequisites*: the docstring at `delivery/adaptive.py:20-21` says a concept cannot be assessed before its
  prerequisites; line 119 calls `get_prerequisites` without the `org_id` and `course_id` it requires
  (`graph/kuzu_store.py:254`), the TypeError is swallowed, and every question is eligible;
- *failed evaluations*: the docstring at `evaluation/worker_handler.py:154` says a failure is recorded; the UPDATE's job id is
  the turn's (line 39), no such row exists (`db/postgres.py:260-267` does not look at the row count), and a blank
  answer (176-178) is acknowledged with a warning in the log only;
- *titles*: the docstring at H:1595 says the match is trimmed; a title stored with a tab at its end is not
  found (H:1602), as `btrim` takes blanks off only.

And the rest:

- `publish_assignment` has no guard on the status and reopens a closed assignment;
- a start that passed its status check creates a session just after `close_assignment`;
- a start whose conflicting session vanishes is answered with a session id no row has;
- `submit_answer` may read "no path" just before the thread stores it and leaves the in-flight
  set, and grades the answer without the path that exists;
- a hybrid score arriving after the release changes the evaluation and never the grade;
- the upload whose job finishes last becomes the current version, not the newest one;
- a register that dies after creating its job leaves it `queued` for good;
- a restart or failed thread leaves a hybrid row pending, with the score 0.0 it was inserted with;
- a retried answer is a new sub-turn (H:5092), unless both submits count before either inserts, from two tabs
  for instance: then the second replaces an answer the first was told is stored;
- a release overwrites a manual score saved since it read the row (H:6053).

Course graph: curation writes an older graph back over a snapshot published meanwhile; a rebuild's
wipe deletes rows that a concurrent ingest committed; the entry of `_INFLIGHT_REBUILDS` can be
popped by another thread's `finally`; `build_material_graph` does not look at the source type;
`apply_curation` ignores a changed label; slugs of different labels collide ("C", "C++").

Behind the agent tools: a stale `update_session` revives an ended session, and one broken off between
answer and advance cannot be gone on with; `questions_delivered` is never read; the metadata store's
connection is never rolled back or reopened; a late failure marks another worker's version; a job
redelivered late may be set back to running; a release overwrites what was saved since it read
(`evaluation/tools.py:150` writes the whole row back; `DecisionsStand` says nothing of behaviours where that happened,
`crossed`, because nothing in the code prevents it);
`GraphScorer` calls `get_prerequisites` without `org_id` and `course_id` as well
(`evaluation/scorer.py:230`, 316, 322): the TypeError is swallowed, the depth falls back to the share of causal
claims and every chain counts as valid; the generator's `get_concepts_for_course` does not exist in
the store, so that it selects nothing by itself, and `questions/generator.py:191` calls `get_prerequisites` without
the two arguments outside any `try`: with a Kuzu store `generate` raises, so that depths above 0, which
`QuestionsShared` covers too, do not come up today; the docstring at `evaluation/scorer.py:214` speaks of
covered concepts, the code takes all expected ones, so that a blank answer has depth; a
wrong causal claim lowers coherence; reports that name more than the path has make the generative
term negative, so that a follow-up can cost points: `ScoresFit` exempts them.

The syllabus mapper keeps only the table with most tuples (`app/syllabus_mapper.py:557-562`), takes only columns whose
header it knows (473-475), and takes a dated line with at most two words of topic for a date, so that the topic is
lost (677-678, 866-875).

Graph store and text: near-duplicates within one corpus are not merged, as embeddings are written
after resolving; a stored label may not be found again, as its vector is of "label: label" and the encoder without a model
is random (`graph/vector_store.py:98-109`, 178); labels resolved to one node rename it; a relation to a concept of a later chunk is
dropped; a node reached twice is listed twice and counted twice in chains; the last window may
repeat the overlap only; `TextChunker` drops a remainder under 64 characters, so that a short document has no
chunk; `run_pipeline`'s "most valid tuples first" is the order of strategies in fact.

Demo links: `_with_demo` refuses every endpoint once the attempts are used up (H:1398), so that the session
that took the last one can neither answer nor complete; an attempt is used without a session when
the assignment is gone or the insert fails; a failed aggregate takes back the evaluation that the
reply reports. Background runs: a swallowed statement leaves the connection aborted and a
finished simulation `failed`; a restart leaves `running` for good. Courses: `material`, `material_version`, `chunk` and
`async_job` have no foreign key to the course (`db/schema.sql:34-99`), so that a late presign's rows stay, and jobs, simulations,
benches and demo links are not in the deletion's list (H:1652); `_delete_course_rows`
says "One statement per savepoint" (H:1680) and has none; `update_session` skips the title check
when the title it read is unchanged; a syllabus run beside a manual addition can repeat a title.
Accounts: `create_student` resets an existing password and `create_professor` makes an admin a
professor; the same user may redeem twice and take two seats; who joined by invitation is not on the
public roster, nor is who enrolled before its table was there; an unenrolment may keep one of the two rows; `invalidate` is never called. Prompts: the UPDATE of a transition has no guard, so that an
approval racing a rejection can approve what was rejected, and two activations meet on the unique
index that H:7407 says is "never violated".

## 5. What is left out, and why

- *Within the modelled parts*: role checks, input validation, upload limits, request bodies and
  replies other than what a property speaks of; wording and prompts; the content of
  questions, answers and chunks. Reading endpoints change nothing. The organisation's row-level
  security is assumed to work.
- *Partly*: authentication (token signatures), the graph store (Kuzu's storage, the sigmoid weights of
  `eds_scorer.py`), extraction and search (file formats, vectors, SQL ranking), the frontend (only
  which requests it lets overlap).
- *Not modelled*: server-sent events (they read), the recommendation of tones and the clamping of a
  probe's parameters, the skill curve of simulated agents, the text of reports, deployment scripts.
- *Abstracted*: LLM answers, texts, vectors and regular expressions are inputs from small sets, also
  where a property depends on which one is given.

## 6. Plan

Done: the life of an exam (attempts, answers, paths, grades, ingestion), the course graph, the nine
parts behind the tools, the algorithms, and the two abstract specifications, `PathBook` and `WorkQueue`,
with their refinements.

Proved: every invariant and action property of these but two of the algorithms' (section 3).

Next: the merge and the curation of `QuestionBank`, with the folds of `AlgorithmsProofs`; `SyllabusMap` and the
walks of `GraphStore` last, for their recursion.
