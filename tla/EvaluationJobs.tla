--------------------------- MODULE EvaluationJobs ---------------------------
(***************************************************************************)
(* The evaluation module behind the agent tools, for one session: the      *)
(* worker of evaluation/worker_handler.py with its at-least-once queue,    *)
(* and the tools of evaluation/tools.py that evaluate a turn at once, and  *)
(* that override and release the session's grade.                          *)
(*                                                                         *)
(* A repository call is a statement of its own; a grade that was read is   *)
(* written back whole.  Claims and scores are data: a grade is known by    *)
(* the evaluations it counts.                                              *)
(***************************************************************************)
EXTENDS Naturals, FiniteSets

CONSTANTS
  Turn,       \* submitted turns, each with one evaluation message
  Blank,      \* those whose answer is empty
  Actor,      \* workers and tool calls
  Score,      \* what a professor can enter
  None,
  MaxCrashes, \* how often a process ends while it is at work
  MaxLate     \* how often a message's visibility ends while its worker is at it

\* of the constants; assumed where they get values
EvaluationJobsAssumption ==
  None \notin Turn \cup Score /\ Blank \subseteq Turn /\ {MaxCrashes, MaxLate} \subseteq Nat

VARIABLES
  queue,    \* SQS: state of each message
  failed,   \* async_job: the evaluations shown as failed
  eval,     \* evaluation: the turns that have one, UNIQUE (turn_id)
  grade,    \* the session's grade, UNIQUE (session_id)
  act,      \* what each actor is at
  crashes, late,
  raced,    \* history: turns evaluated after a run had failed or while another was past its check
  lost,     \* history: turns whose message a worker gave up: blank, or failed and recorded nowhere
  entered,  \* history: the score a professor entered last
  crossed   \* history: a grade was written over what had been committed since it was read

vars == <<queue, failed, eval, grade, act, crashes, late, raced, lost, entered, crossed>>
tables == <<queue, failed, eval, grade>>
history == <<raced, lost, entered, crossed>>

NoGrade == [status |-> "none", counted |-> {}, override |-> None]
Idle == [pc |-> "idle", on |-> None, worker |-> FALSE, grade |-> NoGrade]

Init ==
  /\ queue = [t \in Turn |-> "none"]
  /\ failed = {} /\ eval = {}
  /\ grade = NoGrade
  /\ act = [a \in Actor |-> Idle]
  /\ crashes = 0 /\ late = 0
  /\ raced = {} /\ lost = {} /\ entered = None /\ crossed = FALSE

At(a, pc) == act[a].pc = pc
Goto(a, pc) == act' = [act EXCEPT ![a].pc = pc]
Return(a) == act' = [act EXCEPT ![a] = Idle]
Begin(a, as) == At(a, "idle") /\ act' = [act EXCEPT ![a] = as]
AtWork(t) == \E a \in Actor : act[a].on = t /\ act[a].worker

-----------------------------------------------------------------------------
(* The queue.                                                              *)

Send(t) ==
  /\ queue[t] = "none"
  /\ queue' = [queue EXCEPT ![t] = "visible"]
  /\ UNCHANGED <<failed, eval, grade, act, crashes, late, history>>

Receive(a, t) ==
  /\ queue[t] = "visible"
  /\ queue' = [queue EXCEPT ![t] = "hidden"]
  /\ Begin(a, [Idle EXCEPT !.pc = "check", !.on = t, !.worker = TRUE])
  /\ UNCHANGED <<failed, eval, grade, crashes, late, history>>

VisibilityTimeout(t) ==
  /\ queue[t] = "hidden"
  /\ AtWork(t) => late < MaxLate
  /\ late' = IF AtWork(t) THEN late + 1 ELSE late
  /\ queue' = [queue EXCEPT ![t] = "visible"]
  /\ UNCHANGED <<failed, eval, grade, act, crashes, history>>

Ack(a) ==
  /\ At(a, "ack")
  /\ queue' = [queue EXCEPT ![act[a].on] = "deleted"]
  /\ Return(a)
  /\ UNCHANGED <<failed, eval, grade, crashes, late, history>>

-----------------------------------------------------------------------------
(* The worker's _process, and the tool evaluate_answer.                    *)

Evaluate(a, t) ==
  /\ Begin(a, [Idle EXCEPT !.pc = "check", !.on = t])
  /\ UNCHANGED <<tables, crashes, late, history>>

\* a message is always acknowledged
Done(a) == IF act[a].worker THEN Goto(a, "ack") ELSE Return(a)

CheckEvaluated(a) ==
  /\ At(a, "check")
  /\ IF act[a].on \in eval THEN Done(a) ELSE act[a].on \notin Blank /\ Goto(a, "store")
  /\ UNCHANGED <<tables, crashes, late, history>>

\* the worker skips a turn without an answer, with a warning in the log; the tool refuses it
SkipBlank(a) ==
  /\ At(a, "check") /\ act[a].on \in Blank \ eval
  /\ lost' = IF act[a].worker THEN lost \cup {act[a].on} ELSE lost
  /\ Done(a)
  /\ UNCHANGED <<tables, crashes, late, raced, entered, crossed>>

Past(b, t) == act[b].on = t /\ act[b].pc \in {"store", "mark"}

CreateEvaluation(a) ==
  /\ At(a, "store") /\ act[a].on \notin eval
  /\ eval' = eval \cup {act[a].on}
  /\ raced' = IF act[a].on \in failed \cup lost \/ \E b \in Actor \ {a} : Past(b, act[a].on)
              THEN raced \cup {act[a].on} ELSE raced
  /\ Done(a)
  /\ UNCHANGED <<queue, failed, grade, crashes, late, lost, entered, crossed>>

\* the model call raises, or UNIQUE (turn_id) does
EvaluationFails(a) ==
  /\ At(a, "store")
  /\ IF act[a].worker THEN Goto(a, "mark") ELSE Return(a)
  /\ UNCHANGED <<tables, crashes, late, history>>

\* the async_job rows of evaluations: the message names one like its turn, and nothing inserts any
JobRows == {}

\* the UPDATE changes the rows there are; one that raises is logged only, which comes to the same
MarkFailed(a) ==
  /\ At(a, "mark")
  /\ failed' = failed \cup ({act[a].on} \cap JobRows)
  /\ lost' = lost \cup ({act[a].on} \ JobRows)
  /\ Goto(a, "ack")
  /\ UNCHANGED <<queue, eval, grade, crashes, late, raced, entered, crossed>>

Crash(a) ==
  /\ ~At(a, "idle") /\ crashes < MaxCrashes
  /\ crashes' = crashes + 1
  /\ Return(a)
  /\ UNCHANGED <<tables, late, history>>

-----------------------------------------------------------------------------
(* override_grade and release_grades.                                      *)

UpdateGrade(a, row) ==
  /\ grade' = row
  /\ crossed' = (crossed \/ grade # act[a].grade)

OverrideRead(a) ==
  /\ grade.status # "none"
  /\ Begin(a, [Idle EXCEPT !.pc = "override", !.grade = grade])
  /\ UNCHANGED <<tables, crashes, late, history>>

Override(a, s) ==
  /\ At(a, "override")
  /\ UpdateGrade(a, [act[a].grade EXCEPT !.override = s])
  /\ entered' = s
  /\ Return(a)
  /\ UNCHANGED <<queue, failed, eval, crashes, late, raced, lost>>

\* without a grade one is computed; one released already is left alone
ReleaseRead(a) ==
  /\ grade.status # "released"
  /\ Begin(a, [Idle EXCEPT !.pc = IF grade.status = "none" THEN "compute" ELSE "release", !.grade = grade])
  /\ UNCHANGED <<tables, crashes, late, history>>

ComputeGrade(a) ==
  /\ At(a, "compute")
  /\ act' = [act EXCEPT ![a].pc = "grade", ![a].grade = [NoGrade EXCEPT !.status = "pending", !.counted = eval]]
  /\ UNCHANGED <<tables, crashes, late, history>>

\* UNIQUE (session_id) ends the release of a call that lost
CreateGrade(a) ==
  /\ At(a, "grade")
  /\ IF grade.status = "none" THEN grade' = act[a].grade /\ Goto(a, "release")
     ELSE grade' = grade /\ Return(a)
  /\ UNCHANGED <<queue, failed, eval, crashes, late, history>>

Release(a) ==
  /\ At(a, "release")
  /\ UpdateGrade(a, [act[a].grade EXCEPT !.status = "released"])
  /\ Return(a)
  /\ UNCHANGED <<queue, failed, eval, crashes, late, raced, lost, entered>>

Next ==
  \/ \E t \in Turn : Send(t) \/ VisibilityTimeout(t)
  \/ \E a \in Actor :
       \/ \E t \in Turn : Receive(a, t) \/ Evaluate(a, t)
       \/ CheckEvaluated(a) \/ SkipBlank(a) \/ CreateEvaluation(a) \/ EvaluationFails(a)
       \/ MarkFailed(a) \/ Ack(a) \/ Crash(a)
       \/ OverrideRead(a) \/ \E s \in Score : Override(a, s)
       \/ ReleaseRead(a) \/ ComputeGrade(a) \/ CreateGrade(a) \/ Release(a)

Spec == Init /\ [][Next]_vars

-----------------------------------------------------------------------------
(* Properties.                                                             *)

\* When a message is gone its turn has an evaluation, or a worker gave it up: it was blank, or its run
\* failed.  A message that comes after its turn was evaluated (again, or after a tool's evaluation) is
\* not given up, and a blank answer is never evaluated.
OutcomesFit ==
  \A t \in Turn :
    /\ queue[t] = "deleted" => t \in eval \cup failed \cup lost
    /\ t \in (failed \cup lost) \cap eval => t \in raced
    /\ t \in Blank => t \notin eval

\* A grade keeps what a professor entered and stays released, unless a call wrote it back over
\* what had been committed since it read it.
GradeKept ==
  ~crossed => /\ entered # None => grade.override = entered
              /\ \A a \in Actor : act[a].grade.status = "released" => grade.status = "released"

\* The worker promises what every handler of a queue does; what became of a turn can be told by the
\* tool as well (evaluation/worker_handler.py, handle; evaluation/tools.py, evaluate_answer).
Queue == INSTANCE WorkQueue WITH
  Message <- Turn, Handler <- Actor, Aside <- Turn,
  mail <- queue,
  hand <- [a \in Actor |-> IF act[a].worker THEN act[a].on ELSE None],
  done <- {a \in Actor : At(a, "ack")},
  told <- eval \cup failed

ImplementsWorkQueue == Queue!Spec
=============================================================================
