---------------------------- MODULE ExpectedPath ----------------------------
(***************************************************************************)
(* Building the expected reasoning path of each question off the request   *)
(* path: _fill_expected_paths_async, the thread it starts, and the callers *)
(* (assign_exam, start_exam, submit_answer) in backend/app/http_app.py.    *)
(*                                                                         *)
(* A caller queues the questions it believes to have no path.  The set     *)
(* _INFLIGHT_PATHS keeps two threads from working on one question at the   *)
(* same time; submit_answer also polls it while it waits for a path.  The  *)
(* service is one process, so the set is lost only when that restarts.     *)
(***************************************************************************)
CONSTANTS
  Question,   \* the questions of one assignment
  Request,    \* the requests that may queue paths; each also names its thread
  None        \* no path stored

ASSUME NoneAssumption == None \notin Request

VARIABLES
  assigned,   \* assign_exam has committed the questions
  path,       \* question.expected_path: the request whose thread generated it, or None
  inflight,   \* _INFLIGHT_PATHS
  req,        \* the requests
  fill        \* the thread each request has started

vars == <<assigned, path, inflight, req, fill>>

CallerState ==
  [pc   : {"idle", "queue", "entry", "poll", "check", "done", "blank", "failed"},
   by   : {"none", "assign", "start", "submit"},
   want : SUBSET Question,     \* found without a path; of a submit, its one question
   late : BOOLEAN]             \* _EXPECTED_PATH_WAIT_S are over

ThreadState ==
  [pc    : {"none", "filling", "ended"},
   batch : SUBSET Question,    \* fresh: what this thread put in flight
   left  : SUBSET Question,
   stale : SUBSET Question]    \* history: had a path already when it was queued

Missing == {q \in Question : path[q] = None}
Running == {r \in Request : fill[r].pc = "filling"}

Thread(state, fresh) ==
  [pc |-> state, batch |-> fresh, left |-> fresh, stale |-> fresh \ Missing]

Init ==
  /\ assigned = FALSE
  /\ path = [q \in Question |-> None]
  /\ inflight = {}
  /\ req = [r \in Request |-> [pc |-> "idle", by |-> "none", want |-> {}, late |-> FALSE]]
  /\ fill = [r \in Request |-> Thread("none", {})]

-----------------------------------------------------------------------------
(* The callers.                                                            *)

Called(r, who, next, wanted) ==
  /\ req[r].pc = "idle"
  /\ req' = [req EXCEPT ![r] = [pc |-> next, by |-> who, want |-> wanted, late |-> FALSE]]
  /\ UNCHANGED <<path, inflight, fill>>

\* assign_exam has just inserted the questions, none of which has a path
Assign(r) ==
  /\ ~assigned
  /\ assigned' = TRUE
  /\ Called(r, "assign", "queue", Question)

\* the SELECT of _prefill_session_paths, at the end of start_exam
StartExam(r) ==
  /\ assigned
  /\ IF Missing = {} THEN Called(r, "start", "done", {})
                     ELSE Called(r, "start", "queue", Missing)
  /\ UNCHANGED assigned

\* submit_answer reads the path of its question
SubmitAnswer(r, q) ==
  /\ assigned
  /\ IF q \in Missing THEN Called(r, "submit", "queue", {q})
                      ELSE Called(r, "submit", "done", {})
  /\ UNCHANGED assigned

-----------------------------------------------------------------------------
(* _fill_expected_paths_async and _await_expected_path.                    *)

\* what a request no longer needs is forgotten
Leave(r, next) ==
  IF next \in {"done", "blank", "failed"} THEN [req[r] EXCEPT !.pc = next, !.want = {}, !.late = FALSE]
  ELSE [req[r] EXCEPT !.pc = next]

QueueAs(r, fresh) ==
  /\ req[r].pc = "queue"
  /\ inflight' = inflight \cup fresh
  /\ fill' = IF fresh = {} THEN fill ELSE [fill EXCEPT ![r] = Thread("filling", fresh)]
  /\ req' = [req EXCEPT ![r] = Leave(r, IF req[r].by = "submit" THEN "entry" ELSE "done")]
  /\ UNCHANGED <<assigned, path>>

\* mutant: the membership test is dropped
QueueUnchecked(r) == QueueAs(r, req[r].want)

\* under _INFLIGHT_PATHS_LOCK
Queue(r) == QueueAs(r, req[r].want \ inflight)

Goto(r, next) ==
  /\ req' = [req EXCEPT ![r] = Leave(r, next)]
  /\ UNCHANGED <<assigned, path, inflight, fill>>

AwaitEntry(r) ==
  /\ req[r].pc = "entry"
  /\ Goto(r, IF req[r].want \subseteq inflight THEN "poll" ELSE "blank")

\* mutant: the deadline is not looked at
PollForever(r) ==
  /\ req[r].pc = "poll"
  /\ Goto(r, IF req[r].want \cap Missing = {} THEN "done" ELSE "check")

Poll(r) ==
  /\ req[r].pc = "poll"
  /\ Goto(r, IF req[r].want \cap Missing = {} THEN "done"
             ELSE IF req[r].late THEN "blank" ELSE "check")

Check(r) ==
  /\ req[r].pc = "check"
  /\ Goto(r, IF req[r].want \subseteq inflight THEN "poll" ELSE "blank")

Deadline(r) ==
  /\ req[r].pc \in {"poll", "check"}
  /\ ~req[r].late
  /\ req' = [req EXCEPT ![r].late = TRUE]
  /\ UNCHANGED <<assigned, path, inflight, fill>>

-----------------------------------------------------------------------------
(* _fill_expected_paths_bg, one question after the other.                  *)

Finished(r, q) ==
  /\ r \in Running
  /\ q \in fill[r].left
  /\ fill' = [fill EXCEPT ![r].left = @ \ {q}]
  /\ UNCHANGED <<assigned, inflight, req>>

\* _store_expected_path: the LLM call, the UPDATE and its commit
Store(r, q) == Finished(r, q) /\ path' = [path EXCEPT ![q] = r]

\* the LLM call or the UPDATE fails, or there are no nodes
Fails(r, q) == Finished(r, q) /\ UNCHANGED path

EndWith(r, flying) ==
  /\ r \in Running
  /\ inflight' = flying
  /\ fill' = [fill EXCEPT ![r] = Thread("ended", {})]
  /\ UNCHANGED <<assigned, path, req>>

\* mutant: only the questions that were reached are discarded
EndLeaking(r) == EndWith(r, inflight \ (fill[r].batch \ fill[r].left))

\* `finally', after the last question or once the connection has failed
End(r) == EndWith(r, inflight \ fill[r].batch)

\* the process goes, with its requests, its daemon threads and its memory
Restart ==
  /\ \E r \in Request : r \in Running \/ req[r].pc \in {"queue", "entry", "poll", "check"}
  /\ inflight' = {}
  /\ req' = [r \in Request |->
               IF req[r].pc \in {"idle", "done", "blank"} THEN req[r] ELSE Leave(r, "failed")]
  /\ fill' = [r \in Request |-> IF r \in Running THEN Thread("ended", {}) ELSE fill[r]]
  /\ UNCHANGED <<assigned, path>>

-----------------------------------------------------------------------------
CallerStep(r) == Queue(r) \/ AwaitEntry(r) \/ Poll(r) \/ Check(r)

ThreadStep(r) ==
  \/ \E q \in Question : Store(r, q) \/ Fails(r, q)
  \/ End(r)

Next ==
  \/ \E r \in Request : Assign(r) \/ StartExam(r)
  \/ \E r \in Request, q \in Question : SubmitAnswer(r, q)
  \/ \E r \in Request : CallerStep(r) \/ Deadline(r) \/ ThreadStep(r)
  \/ Restart

(***************************************************************************)
(* Requests run, and time passes.  Nothing is assumed of the threads: a    *)
(* student does not depend on an LLM call that hangs.                      *)
(***************************************************************************)
Fairness == \A r \in Request : WF_vars(CallerStep(r)) /\ WF_vars(Deadline(r))

Spec == Init /\ [][Next]_vars
FairSpec == Spec /\ Fairness

-----------------------------------------------------------------------------
(* The refinement: whom a question is with can be read off the threads.    *)

FillersOf(q) == {r \in Running : q \in fill[r].batch}
Holder == [q \in Question |-> IF FillersOf(q) = {} THEN None ELSE CHOOSE r \in FillersOf(q) : TRUE]
Open == UNION {fill[r].left : r \in Running}

Book == INSTANCE PathBook WITH Filler <- Request, book <- path, holder <- Holder, open <- Open

-----------------------------------------------------------------------------
(* Properties.                                                             *)

\* Every variable has its type.
TypeOK ==
  /\ assigned \in BOOLEAN
  /\ path \in [Question -> Request \cup {None}]
  /\ inflight \subseteq Question
  /\ req \in [Request -> CallerState]
  /\ fill \in [Request -> ThreadState]

\* The in-flight set is exactly what the running threads work on.  An id left behind by
\* a thread that died would never be queued again, and every answer to that question
\* would wait out the budget and be graded without a path.
InflightIsServed == inflight = UNION {fill[r].batch : r \in Running}

\* No two threads generate a path for the same question at the same time.
OneFillerPerQuestion ==
  \A r, s \in Running : r # s => fill[r].batch \cap fill[s].batch = {}

\* Callers, lock, set and threads together are a book of paths: a question is with one
\* thread at most, which alone writes its path, once, whatever fails or restarts
\* (_fill_expected_paths_async and _fill_expected_paths_bg).
ImplementsPathBook == Book!Spec

\* A stored path is replaced only by a thread whose caller had looked for the path
\* before it was stored and queued it after the thread that stored it had ended.  The
\* components of earlier answers are indices into the path they were scored against.
ReplacedOnlyWhenStale ==
  [][\A q \in Question : path[q] # None /\ path'[q] # path[q] =>
        path'[q] \in Running /\ q \in fill[path'[q]].stale]_vars

\* submit_answer stops waiting for the path whatever becomes of the thread filling it.
SubmitsProceed ==
  \A r \in Request : req[r].pc \in {"queue", "entry", "poll", "check"} ~>
                     req[r].pc \in {"done", "blank", "failed"}
=============================================================================
