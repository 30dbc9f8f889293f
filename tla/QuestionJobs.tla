---------------------------- MODULE QuestionJobs ----------------------------
(***************************************************************************)
(* Question generation behind the agent tools: the worker of               *)
(* questions/worker_handler.py, one message at a time from a queue that    *)
(* delivers at least once, and the professor's tools of questions/tools.py.*)
(* A repository call is a statement of its own; the text of a question is  *)
(* data.                                                                   *)
(***************************************************************************)
EXTENDS Naturals, FiniteSets

CONSTANTS
  Job,        \* generation jobs, each with one message
  Question,   \* question ids
  Actor,      \* workers and tool calls
  None,
  MaxCrashes, \* how often a process ends while it is at work
  MaxLate     \* how often a message's visibility ends while its worker is at it

\* of the constants; assumed where they get values
QuestionJobsAssumption == None \notin Job \cup Question /\ {MaxCrashes, MaxLate} \subseteq Nat

VARIABLES
  queue,    \* SQS: state of each message
  job,      \* generation_job rows
  question, \* question rows
  act,      \* what each actor is at
  crashes, late,
  tried,    \* history: jobs begun once, and those begun again
  lost,     \* history: jobs whose failure could not be recorded
  crossed   \* history: questions reviewed again by a call that had seen them as drafts

vars == <<queue, job, question, act, crashes, late, tried, lost, crossed>>
history == <<tried, lost, crossed>>

NoQuestion == [status |-> "none", of |-> None]
Idle == [pc |-> "idle", on |-> None, ids |-> {}, left |-> 0, status |-> "none"]

Init ==
  /\ queue = [j \in Job |-> "none"]
  /\ job = [j \in Job |-> [status |-> "queued", ids |-> {}]]
  /\ question = [q \in Question |-> NoQuestion]
  /\ act = [a \in Actor |-> Idle]
  /\ crashes = 0 /\ late = 0
  /\ tried = [j \in Job |-> "never"]
  /\ lost = {} /\ crossed = {}

At(a, pc) == act[a].pc = pc
Goto(a, pc) == act' = [act EXCEPT ![a].pc = pc]
Begin(a, as) == At(a, "idle") /\ act' = [act EXCEPT ![a] = as]
AtWork(j) == \E a \in Actor : act[a].on = j

-----------------------------------------------------------------------------
(* The queue.                                                              *)

Send(j) ==
  /\ queue[j] = "none"
  /\ queue' = [queue EXCEPT ![j] = "visible"]
  /\ UNCHANGED <<job, question, act, crashes, late, history>>

Receive(a, j) ==
  /\ queue[j] = "visible"
  /\ queue' = [queue EXCEPT ![j] = "hidden"]
  /\ Begin(a, [Idle EXCEPT !.pc = "running", !.on = j])
  /\ tried' = [tried EXCEPT ![j] = IF @ = "never" THEN "once" ELSE "again"]
  /\ UNCHANGED <<job, question, crashes, late, lost, crossed>>

VisibilityTimeout(j) ==
  /\ queue[j] = "hidden"
  /\ AtWork(j) => late < MaxLate
  /\ late' = IF AtWork(j) THEN late + 1 ELSE late
  /\ queue' = [queue EXCEPT ![j] = "visible"]
  /\ UNCHANGED <<job, question, act, crashes, history>>

\* the finally clause, for whatever receipt the process has
Ack(a) ==
  /\ At(a, "ack")
  /\ queue' = [queue EXCEPT ![act[a].on] = "deleted"]
  /\ act' = [act EXCEPT ![a] = Idle]
  /\ UNCHANGED <<job, question, crashes, late, history>>

-----------------------------------------------------------------------------
(* The worker.                                                             *)

MarkRunning(a) ==
  /\ At(a, "running")
  /\ job' = [job EXCEPT ![act[a].on].status = "running"]
  /\ Goto(a, "generate")
  /\ UNCHANGED <<queue, question, crashes, late, history>>

\* a failed model call yields no candidates, and the job succeeds with none
Generate(a, n) ==
  /\ At(a, "generate")
  /\ act' = [act EXCEPT ![a].pc = "create", ![a].left = n]
  /\ UNCHANGED <<queue, job, question, crashes, late, history>>

Fresh == {q \in Question : question[q] = NoQuestion}
FreshId == CHOOSE q \in Question : q \in Fresh

CreateQuestion(a) ==
  /\ At(a, "create") /\ act[a].left > 0 /\ Fresh # {}
  /\ question' = [question EXCEPT ![FreshId] = [status |-> "draft", of |-> act[a].on]]
  /\ act' = [act EXCEPT ![a].left = @ - 1, ![a].ids = @ \cup {FreshId}]
  /\ UNCHANGED <<queue, job, crashes, late, history>>

Succeed(a) ==
  /\ At(a, "create") /\ act[a].left = 0
  /\ job' = [job EXCEPT ![act[a].on] = [status |-> "succeeded", ids |-> act[a].ids]]
  /\ Goto(a, "ack")
  /\ UNCHANGED <<queue, question, crashes, late, history>>

\* mutant: a failure before the questions are generated is not shown
FailSilently(a) ==
  /\ act[a].pc \in {"running", "generate", "create"}
  /\ Goto(a, "ack")
  /\ UNCHANGED <<queue, job, question, crashes, late, history>>

GenerationFails(a) ==
  /\ act[a].pc \in {"running", "generate", "create"}
  /\ Goto(a, "mark")
  /\ UNCHANGED <<queue, job, question, crashes, late, history>>

MarkFailed(a) ==
  /\ At(a, "mark")
  /\ job' = [job EXCEPT ![act[a].on].status = "failed"]
  /\ Goto(a, "ack")
  /\ UNCHANGED <<queue, question, crashes, late, history>>

\* _mark_failed raises: the message is acknowledged, and the exception leaves run_forever
RecordFails(a) ==
  /\ At(a, "mark") /\ crashes < MaxCrashes
  /\ crashes' = crashes + 1
  /\ lost' = lost \cup {act[a].on}
  /\ Goto(a, "ack")
  /\ UNCHANGED <<queue, job, question, late, tried, crossed>>

Crash(a) ==
  /\ ~At(a, "idle") /\ crashes < MaxCrashes
  /\ crashes' = crashes + 1
  /\ act' = [act EXCEPT ![a] = Idle]
  /\ UNCHANGED <<queue, job, question, late, history>>

-----------------------------------------------------------------------------
(* The tools.                                                              *)

\* generate_questions stores what it generated without a job
GenerateNow(a, n) ==
  /\ Begin(a, [Idle EXCEPT !.pc = "now", !.left = n])
  /\ UNCHANGED <<queue, job, question, crashes, late, history>>

CreateNow(a) ==
  /\ At(a, "now") /\ act[a].left > 0 /\ Fresh # {}
  /\ question' = [question EXCEPT ![FreshId].status = "draft"]
  /\ act' = IF act[a].left = 1 THEN [act EXCEPT ![a] = Idle] ELSE [act EXCEPT ![a].left = @ - 1]
  /\ UNCHANGED <<queue, job, crashes, late, history>>

\* approve_question and reject_question: the status is read, then written
Review(a, q, status) ==
  /\ question[q].status = "draft"
  /\ Begin(a, [Idle EXCEPT !.pc = "review", !.ids = {q}, !.status = status])
  /\ UNCHANGED <<queue, job, question, crashes, late, history>>

UpdateQuestion(a) ==
  /\ At(a, "review")
  /\ \E q \in act[a].ids :
       /\ question' = [question EXCEPT ![q].status = act[a].status]
       /\ crossed' = IF question[q].status = "draft" THEN crossed ELSE crossed \cup {q}
  /\ act' = [act EXCEPT ![a] = Idle]
  /\ UNCHANGED <<queue, job, crashes, late, tried, lost>>

Next ==
  \/ \E j \in Job : Send(j) \/ VisibilityTimeout(j) \/ \E a \in Actor : Receive(a, j)
  \/ \E a \in Actor :
       \/ MarkRunning(a) \/ Succeed(a) \/ GenerationFails(a) \/ MarkFailed(a) \/ RecordFails(a)
       \/ Ack(a) \/ Crash(a) \/ UpdateQuestion(a)
       \/ \E n \in 0 .. Cardinality(Question) : Generate(a, n)
       \/ \E n \in 1 .. Cardinality(Question) : GenerateNow(a, n)
       \/ CreateQuestion(a) \/ CreateNow(a)
       \/ \E q \in Question, s \in {"approved", "rejected"} : Review(a, q, s)

Spec == Init /\ [][Next]_vars

-----------------------------------------------------------------------------
(* Properties.                                                             *)

Generated(j) == {q \in Question : question[q].of = j}

\* "Record failure and always ack": when the message of a job is gone the job shows how it ended
\* (unless even that could not be recorded, or it was delivered twice); a job that succeeded lists
\* questions it generated, and all of them unless it was begun again after a first run had stored some.
JobsTellTheirOutcome ==
  \A j \in Job :
    /\ queue[j] = "deleted" /\ j \notin lost /\ tried[j] = "once" => job[j].status \in {"succeeded", "failed"}
    /\ job[j].status = "succeeded" =>
         job[j].ids \subseteq Generated(j) /\ (tried[j] = "once" => job[j].ids = Generated(j))

\* The worker promises what every handler of a queue does (questions/worker_handler.py, handle).
Queue == INSTANCE WorkQueue WITH
  Message <- Job, Handler <- Actor, Aside <- {},
  mail <- queue,
  hand <- [a \in Actor |-> act[a].on],
  done <- {a \in Actor : At(a, "ack")},
  told <- {j \in Job : job[j].status \in {"succeeded", "failed"}}

ImplementsWorkQueue == Queue!Spec
=============================================================================
