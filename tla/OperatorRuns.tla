---------------------------- MODULE OperatorRuns ----------------------------
(***************************************************************************)
(* The operator's background runs of http_app.py: simulations of an exam   *)
(* by a cohort of agents, probes of the answer flow's latency, and tests   *)
(* of the question generator.  A run is a row that the page polls and a    *)
(* daemon thread with a connection of its own.                             *)
(*                                                                         *)
(* Each action is a transaction.  After a failed statement the thread's    *)
(* connection is aborted until somebody rolls back; a broken connection    *)
(* is of no more use.  What the models answer is data.                     *)
(***************************************************************************)
EXTENDS Naturals

CONSTANTS
  Run,
  Question,   \* the questions of the assignment that is simulated
  Agents,     \* size of the cohort
  MaxFaults   \* failing statements, broken connections, restarts

\* of the constants; assumed where they get values
OperatorRunsAssumption == Agents \in Nat \ {0} /\ MaxFaults \in Nat

VARIABLES
  run,     \* the rows of agent_simulation, perf_probe and qg_test_run
  thread,  \* their threads
  path,    \* question.expected_path: the questions that have one
  faults,
  lost     \* history: runs whose thread went without a connection to say so

vars == <<run, thread, path, faults, lost>>

Kind == {"simulation", "probe", "bench"}

NoRun == [kind |-> "none", status |-> "none", report |-> FALSE, done |-> 0, details |-> FALSE, verdict |-> FALSE]
NoThread == [pc |-> "gone", conn |-> "none", missing |-> {}, done |-> 0]

Init ==
  /\ run = [r \in Run |-> NoRun]
  /\ thread = [r \in Run |-> NoThread]
  /\ path = {}
  /\ faults = 0 /\ lost = {}

At(r, pc) == thread[r].pc = pc
Goto(r, pc) == thread' = [thread EXCEPT ![r].pc = pc]
End(r) == thread' = [thread EXCEPT ![r] = NoThread]
Fault == faults < MaxFaults /\ faults' = faults + 1

Write(r, row) == run' = [run EXCEPT ![r] = row]

-----------------------------------------------------------------------------
(* create_simulation, create_perf_probe, create_testing_run.               *)

Create(r, kind) ==
  /\ run[r].kind = "none"
  /\ Write(r, [NoRun EXCEPT !.kind = kind, !.status = "running"])
  /\ Goto(r, "start")
  /\ UNCHANGED <<path, faults, lost>>

Connect(r) ==
  /\ At(r, "start")
  /\ thread' = [thread EXCEPT ![r].pc = IF run[r].kind = "simulation" THEN "load" ELSE "work",
                              ![r].conn = IF run[r].kind = "probe" THEN "none" ELSE "ok"]
  /\ UNCHANGED <<run, path, faults, lost>>

\* no connection to be had: the thread cannot even record that
ConnectFails(r) ==
  /\ At(r, "start") /\ run[r].kind # "probe"
  /\ Fault
  /\ End(r)
  /\ lost' = lost \cup {r}
  /\ UNCHANGED <<run, path>>

-----------------------------------------------------------------------------
(* The threads' work.                                                      *)

Load(r) ==
  /\ At(r, "load") /\ thread[r].conn = "ok"
  /\ thread' = [thread EXCEPT ![r].pc = "work", ![r].missing = Question \ path]
  /\ UNCHANGED <<run, path, faults, lost>>

\* in the questions' order; a path that cannot be generated or stored is gone without
Path(r, q, found) ==
  /\ At(r, "work") /\ q \in thread[r].missing
  /\ thread' = [thread EXCEPT ![r].missing = @ \ {q}]
  /\ path' = IF found /\ thread[r].conn = "ok" THEN path \cup {q} ELSE path
  /\ UNCHANGED <<run, faults, lost>>

\* take_exam, then progress_fn, which swallows its errors
Agent(r) ==
  /\ At(r, "work") /\ run[r].kind = "simulation"
  /\ thread[r].missing = {} /\ thread[r].done < Agents
  /\ thread' = [thread EXCEPT ![r].done = @ + 1]
  /\ IF thread[r].conn = "ok" THEN Write(r, [run[r] EXCEPT !.done = thread[r].done + 1]) ELSE run' = run
  /\ UNCHANGED <<path, faults, lost>>

Worked(r) ==
  /\ At(r, "work") /\ thread[r].missing = {}
  /\ run[r].kind = "simulation" => thread[r].done = Agents

\* the bench stores its questions in the same transaction; the probe with a connection of its own
Complete(r) ==
  /\ Worked(r) /\ thread[r].conn = IF run[r].kind = "probe" THEN "none" ELSE "ok"
  /\ Write(r, [run[r] EXCEPT !.status = "completed", !.report = TRUE, !.details = run[r].kind = "bench"])
  /\ IF run[r].kind = "simulation" THEN Goto(r, "transcript") ELSE End(r)
  /\ UNCHANGED <<path, faults, lost>>

\* _persist_sim_turns
Transcript(r) ==
  /\ At(r, "transcript") /\ thread[r].conn = "ok"
  /\ Write(r, [run[r] EXCEPT !.details = TRUE])
  /\ End(r)
  /\ UNCHANGED <<path, faults, lost>>

\* mutant: the failure of the transcript is the run's
TranscriptFailsRun(r) ==
  /\ At(r, "transcript") /\ thread[r].conn # "ok"
  /\ Goto(r, "fail")
  /\ UNCHANGED <<run, path, faults, lost>>

\* best effort
TranscriptFails(r) ==
  /\ At(r, "transcript") /\ thread[r].conn # "ok"
  /\ End(r)
  /\ UNCHANGED <<run, path, faults, lost>>

-----------------------------------------------------------------------------
(* Failures.                                                               *)

\* a statement fails: at a path or at the progress nobody notices
StatementFails(r) ==
  /\ thread[r].conn = "ok" /\ Fault
  /\ thread' = [thread EXCEPT ![r].conn = "aborted"]
  /\ UNCHANGED <<run, path, lost>>

ConnectionBreaks(r) ==
  /\ thread[r].conn \in {"ok", "aborted"} /\ Fault
  /\ thread' = [thread EXCEPT ![r].conn = "broken"]
  /\ UNCHANGED <<run, path, lost>>

\* an exception of the work itself, or of the first statement that is not guarded
Raise(r) ==
  /\ \/ At(r, "work") /\ thread[r].missing = {}
     \/ At(r, "load") /\ thread[r].conn # "ok"
  /\ Goto(r, "fail")
  /\ UNCHANGED <<run, path, faults, lost>>

\* the probe's outcome is stored by a best-effort helper
PersistFails(r) ==
  /\ run[r].kind = "probe" /\ (Worked(r) \/ At(r, "fail"))
  /\ Fault
  /\ End(r)
  /\ lost' = lost \cup {r}
  /\ UNCHANGED <<run, path>>

\* after a rollback
RecordFailure(r) ==
  /\ At(r, "fail")
  /\ IF thread[r].conn = "broken" THEN run' = run ELSE Write(r, [run[r] EXCEPT !.status = "failed"])
  /\ lost' = IF thread[r].conn = "broken" THEN lost \cup {r} ELSE lost
  /\ End(r)
  /\ UNCHANGED <<path, faults>>

\* the process ends: daemon threads end with it
Restart ==
  /\ Fault
  /\ lost' = lost \cup {r \in Run : ~At(r, "gone")}
  /\ thread' = [r \in Run |-> NoThread]
  /\ UNCHANGED <<run, path>>

-----------------------------------------------------------------------------
\* save_testing_question_eval, on the questions the bench kept
Evaluate(r) ==
  /\ run[r].kind = "bench" /\ run[r].details /\ ~run[r].verdict
  /\ Write(r, [run[r] EXCEPT !.verdict = TRUE])
  /\ UNCHANGED <<thread, path, faults, lost>>

Next ==
  \/ Restart
  \/ \E r \in Run :
       \/ \E kind \in Kind : Create(r, kind)
       \/ Connect(r) \/ ConnectFails(r) \/ Load(r)
       \/ \E q \in Question, found \in BOOLEAN : Path(r, q, found)
       \/ Agent(r) \/ Complete(r) \/ Transcript(r) \/ TranscriptFails(r)
       \/ StatementFails(r) \/ ConnectionBreaks(r) \/ Raise(r) \/ PersistFails(r)
       \/ RecordFailure(r) \/ Evaluate(r)

Spec == Init /\ [][Next]_vars

-----------------------------------------------------------------------------
(* Properties.                                                             *)

\* When its thread is gone a run shows how it ended, unless the process restarted or the thread had no
\* connection to record it with; a completed run has its report, the bench's its questions, and
\* what was reported is not taken back when only the transcript fails.
RunsTellTheirOutcome ==
  \A r \in Run :
    /\ At(r, "gone") /\ run[r].kind # "none" /\ r \notin lost => run[r].status \in {"completed", "failed"}
    /\ run[r].status = "completed" => run[r].report /\ (run[r].kind = "bench" => run[r].details)
    /\ run[r].status # "completed" => ~run[r].report /\ ~run[r].details
=============================================================================
