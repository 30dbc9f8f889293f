----------------------------- MODULE AnswerTurn -----------------------------
(***************************************************************************)
(* Answering one question of one exam session: submit_answer and the       *)
(* background scorer _run_hybrid_eds_bg of backend/app/http_app.py.        *)
(*                                                                         *)
(* A submit counts the question's sub-turns, inserts a session_turn row at *)
(* that index, waits for an LLM, reads what the other sub-turns have       *)
(* demonstrated, and stores an evaluation together with the question's     *)
(* aggregate.  A page of the student's sends one answer at a time, but     *)
(* start_exam gives the same active session to every page that asks, and a *)
(* request the gateway has given up on keeps running: nothing on the       *)
(* server keeps submits apart.  Under the `hybrid' evaluation mode the     *)
(* scoring itself runs in a thread that outlives its request.              *)
(***************************************************************************)
EXTENDS FiniteSets, Naturals

CONSTANTS
  Answer,         \* the texts a student may send
  Node,           \* nodes and edges of the question's expected path
  Demonstrates,   \* what the LLM finds demonstrated in an answer
  Request,        \* submit_answer calls, each served once
  None

ASSUME DemonstratesAssumption == Demonstrates \in [Answer -> SUBSET Node]
ASSUME RequestAssumption == IsFiniteSet(Request) /\ Request # {}
ASSUME NoneAssumption == None \notin Answer

SubTurn == 0 .. Cardinality(Request) - 1

VARIABLES
  mode,       \* examiner_config.eval_mode: "sonnet" or "hybrid"
  path,       \* question.expected_path has been stored
  session,    \* exam_session.status
  turn,       \* session_turn.student_answer by sub_turn_index, None where no row is
  eval,       \* the evaluation row of each sub-turn
  agg,        \* what question_eds_aggregate counts as covered
  req,        \* submit_answer requests, from any page of the student's
  bg,         \* the scoring thread a hybrid request has started
  overtaken,  \* history: submits at whose index another inserted between their count and their insert
  outrun,     \* history: scorings that another's store fell into, between their read and their own store
  torn        \* history: the aggregate was last stored by a scoring in `outrun'

vars == <<mode, path, session, turn, eval, agg, req, bg, overtaken, outrun, torn>>

\* "prelim" is the hybrid row marked eds_pending, with the score 0.0 it was inserted with
Evaluation ==
  [state  : {"none", "prelim", "legacy", "scored"},
   of     : Answer \cup {None},
   shown  : SUBSET Node]        \* eds_components

SubmitState ==
  [pc     : {"idle", "begun", "ready", "counted", "inserted", "read", "done", "rejected"},
   answer : Answer \cup {None},
   eds    : BOOLEAN,            \* use_eds_formula
   sub    : SubTurn,
   prior  : SUBSET Node]        \* union of the other sub-turns' components

ThreadState == [pc : {"none", "running", "read", "ended"}, prior : SUBSET Node]

Rows == {i \in SubTurn : turn[i] # None}
NoEvaluation == [state |-> "none", of |-> None, shown |-> {}]

\* the components SELECTed from the evaluations of the question, the own turn left out
ShownElsewhere(i) == UNION {eval[j].shown : j \in SubTurn \ {i}}

Init ==
  /\ mode \in {"sonnet", "hybrid"}
  /\ path \in BOOLEAN
  /\ session = "active"
  /\ turn = [i \in SubTurn |-> None]
  /\ eval = [i \in SubTurn |-> NoEvaluation]
  /\ agg = {}
  /\ req = [r \in Request |->
              [pc |-> "idle", answer |-> None, eds |-> FALSE, sub |-> 0, prior |-> {}]]
  /\ bg = [r \in Request |-> [pc |-> "none", prior |-> {}]]
  /\ overtaken = {} /\ outrun = {} /\ torn = FALSE

-----------------------------------------------------------------------------
(* What happens around the submits.                                        *)

\* a page may complete while an answer is still being evaluated (timer, review)
CompleteSession ==
  /\ session = "active"
  /\ session' = "completed"
  /\ UNCHANGED <<mode, path, turn, eval, agg, req, bg, overtaken, outrun, torn>>

\* an administrator switches the evaluation mode of the organisation
SwitchMode ==
  /\ mode' = IF mode = "sonnet" THEN "hybrid" ELSE "sonnet"
  /\ UNCHANGED <<path, session, turn, eval, agg, req, bg, overtaken, outrun, torn>>

\* the filler of ExpectedPath stores the path
PathLands ==
  /\ ~path
  /\ path' = TRUE
  /\ UNCHANGED <<mode, session, turn, eval, agg, req, bg, overtaken, outrun, torn>>

-----------------------------------------------------------------------------
(* submit_answer.                                                          *)

Begin(r, a) ==
  /\ req[r].pc = "idle"
  /\ req' = [req EXCEPT ![r].pc = IF session = "active" THEN "begun" ELSE "rejected",
                        ![r].answer = a]
  /\ UNCHANGED <<mode, path, session, turn, eval, agg, bg, overtaken, outrun, torn>>

\* the SELECT of the path, or _await_expected_path, which may give up before it lands
ReadPath(r) ==
  /\ req[r].pc = "begun"
  /\ req' = [req EXCEPT ![r].pc = "ready", ![r].eds = path]
  /\ UNCHANGED <<mode, path, session, turn, eval, agg, bg, overtaken, outrun, torn>>

CountAs(r, n) ==
  /\ req[r].pc = "ready"
  /\ req' = [req EXCEPT ![r].pc = "counted", ![r].sub = n]
  /\ UNCHANGED <<mode, path, session, turn, eval, agg, bg, overtaken, outrun, torn>>

\* mutant: one row per question, as before there were sub-turns
CountNothing(r) == CountAs(r, 0)

\* mutant: only the sub-turns evaluated so far are counted
CountEvaluated(r) == CountAs(r, Cardinality({i \in SubTurn : eval[i].state # "none"}))

Count(r) == CountAs(r, Cardinality(Rows))

\* INSERT ... ON CONFLICT (session, turn, sub_turn) DO UPDATE the answer, and commit
InsertTurn(r) ==
  /\ req[r].pc = "counted"
  /\ turn' = [turn EXCEPT ![req[r].sub] = req[r].answer]
  /\ req' = [req EXCEPT ![r].pc = "inserted"]
  /\ overtaken' = overtaken \cup {q \in Request \ {r} : req[q].pc = "counted" /\ req[q].sub = req[r].sub}
  /\ UNCHANGED <<mode, path, session, eval, agg, bg, outrun, torn>>

\* no expected path: one of three fixed scores, and no components
StoreLegacy(r) ==
  /\ req[r].pc = "inserted" /\ ~req[r].eds
  /\ eval' = [eval EXCEPT ![req[r].sub].state = "legacy", ![req[r].sub].of = req[r].answer]
  /\ req' = [req EXCEPT ![r].pc = "done"]
  /\ UNCHANGED <<mode, path, session, turn, agg, bg, overtaken, outrun, torn>>

Scored(r, found) == [state |-> "scored", of |-> req[r].answer, shown |-> found]

\* r, or its thread, is between the read of its siblings' components and its own store
Scoring(r) == req[r].pc = "read" \/ bg[r].pc = "read"

\* r's scoring stores: whoever has read the components of r's sub-turn has read too early
Outruns(r) ==
  /\ outrun' = outrun \cup {q \in Request : Scoring(q) /\ req[q].sub # req[r].sub}
  /\ torn' = (r \in outrun)

ReadPrior(r) ==
  /\ req[r].pc = "inserted" /\ req[r].eds /\ mode = "sonnet"
  /\ req' = [req EXCEPT ![r].pc = "read", ![r].prior = ShownElsewhere(req[r].sub)]
  /\ UNCHANGED <<mode, path, session, turn, eval, agg, bg, overtaken, outrun, torn>>

StoreWith(r, found, covered) ==
  /\ req[r].pc = "read"
  /\ eval' = [eval EXCEPT ![req[r].sub] = Scored(r, found)]
  /\ agg' = covered
  /\ req' = [req EXCEPT ![r].pc = "done"]
  /\ Outruns(r)
  /\ UNCHANGED <<mode, path, session, turn, bg, overtaken>>

\* what the LLM finds; nothing when the call failed and the heuristic stands in
Findings(a) == IF a = None THEN {} ELSE {Demonstrates[a], {}}

\* mutant: the aggregate keeps only the turn just evaluated
StoreOwnOnly(r) == \E found \in Findings(req[r].answer) : StoreWith(r, found, found)

StoreScore(r) ==
  \E found \in Findings(req[r].answer) : StoreWith(r, found, req[r].prior \cup found)

\* mutant: the evaluation is committed before the aggregate is tried
AggregateFailsAlone(r) ==
  /\ req[r].pc = "read"
  /\ eval' = [eval EXCEPT ![req[r].sub] = Scored(r, Demonstrates[req[r].answer])]
  /\ req' = [req EXCEPT ![r].pc = "done"]
  /\ UNCHANGED <<mode, path, session, turn, agg, bg, overtaken, outrun, torn>>

\* the aggregate's upsert fails: its rollback takes the evaluation along
AggregateFails(r) ==
  /\ req[r].pc = "read"
  /\ req' = [req EXCEPT ![r].pc = "done"]
  /\ UNCHANGED <<mode, path, session, turn, eval, agg, bg, overtaken, outrun, torn>>

\* an error or a restart ends the request wherever it is
SubmitFails(r) ==
  /\ req[r].pc \in {"begun", "ready", "counted", "inserted", "read"}
  /\ req' = [req EXCEPT ![r].pc = "rejected"]
  /\ overtaken' = IF req[r].pc = "counted" THEN overtaken \ {r} ELSE overtaken
  /\ UNCHANGED <<mode, path, session, turn, eval, agg, bg, outrun, torn>>

\* the upsert of the preliminary row changes only raw_llm_output when there is a row
PrelimRow(r) ==
  LET old == eval[req[r].sub]
  IN IF old.state = "none"
     THEN [state |-> "prelim", of |-> req[r].answer, shown |-> {}]
     ELSE [old EXCEPT !.of = req[r].answer]

StorePrelim(r) ==
  /\ req[r].pc = "inserted" /\ req[r].eds /\ mode = "hybrid"
  /\ eval' = [eval EXCEPT ![req[r].sub] = PrelimRow(r)]
  /\ req' = [req EXCEPT ![r].pc = "done"]
  /\ bg' = [bg EXCEPT ![r].pc = "running"]
  /\ UNCHANGED <<mode, path, session, turn, agg, overtaken, outrun, torn>>

-----------------------------------------------------------------------------
(* _run_hybrid_eds_bg.                                                     *)

BgRead(r) ==
  /\ bg[r].pc = "running"
  /\ bg' = [bg EXCEPT ![r].pc = "read", ![r].prior = ShownElsewhere(req[r].sub)]
  /\ UNCHANGED <<mode, path, session, turn, eval, agg, req, overtaken, outrun, torn>>

BgStore(r) ==
  /\ bg[r].pc = "read"
  /\ eval' = [eval EXCEPT ![req[r].sub] = Scored(r, Demonstrates[req[r].answer])]
  /\ agg' = bg[r].prior \cup Demonstrates[req[r].answer]
  /\ bg' = [bg EXCEPT ![r].pc = "ended"]
  /\ Outruns(r)
  /\ UNCHANGED <<mode, path, session, turn, req, overtaken>>

\* best-effort: the pending row stays as it is
BgFail(r) ==
  /\ bg[r].pc \in {"running", "read"}
  /\ bg' = [bg EXCEPT ![r].pc = "ended"]
  /\ UNCHANGED <<mode, path, session, turn, eval, agg, req, overtaken, outrun, torn>>

-----------------------------------------------------------------------------
SubmitStep(r) ==
  \/ ReadPath(r)
  \/ Count(r)
  \/ InsertTurn(r)
  \/ StoreLegacy(r)
  \/ ReadPrior(r)
  \/ StoreScore(r)
  \/ AggregateFails(r)
  \/ SubmitFails(r)
  \/ StorePrelim(r)

BgStep(r) == BgRead(r) \/ BgStore(r) \/ BgFail(r)

Next ==
  \/ \E r \in Request, a \in Answer : Begin(r, a)
  \/ CompleteSession
  \/ SwitchMode
  \/ PathLands
  \/ \E r \in Request : SubmitStep(r)
  \/ \E r \in Request : BgStep(r)

Spec == Init /\ [][Next]_vars

-----------------------------------------------------------------------------
(* Properties.                                                             *)

\* Every variable has its type.
TypeOK ==
  /\ mode \in {"sonnet", "hybrid"}
  /\ path \in BOOLEAN
  /\ session \in {"active", "completed"}
  /\ turn \in [SubTurn -> Answer \cup {None}]
  /\ eval \in [SubTurn -> Evaluation]
  /\ agg \subseteq Node
  /\ req \in [Request -> SubmitState]
  /\ bg \in [Request -> ThreadState]
  /\ overtaken \subseteq Request
  /\ outrun \subseteq Request
  /\ torn \in BOOLEAN

\* The sub-turns whose row a second submit has written, with an index it had counted before
\* the first wrote it.
Replaced == {req[q].sub : q \in {p \in overtaken : req[p].pc # "counted"}}

\* The sub-turns of a question are numbered without gaps, however many submits count
\* and insert at once.  The transcript and the grader number the exchanges by them.
SubTurnsContiguous == \A i \in SubTurn : turn[i] # None => \A j \in 0 .. i : turn[j] # None

\* An answer whose submit has succeeded is in the transcript, unless another submit, sent
\* from a second page or after the gateway gave up on the first, had counted the same index
\* before the answer was inserted: submits that follow one another never cost an answer.
AnswersKept ==
  \A r \in Request : req[r].pc = "done" =>
    turn[req[r].sub] = req[r].answer \/ req[r].sub \in Replaced

\* The transcript the student and the grader see is whole: numbered without gaps, and with
\* every answer acknowledged but those that such a submit has replaced (http_app.py,
\* submit_answer).
TranscriptKept == SubTurnsContiguous /\ AnswersKept

\* An evaluation, also one a hybrid thread stores long after its request, is of the answer
\* its turn holds, unless a second submit has replaced that answer.
EvaluationsFitAnswers ==
  \A i \in SubTurn : eval[i].state # "none" => eval[i].of = turn[i] \/ i \in Replaced

Covered == UNION {eval[i].shown : i \in SubTurn}

\* The aggregate of a question is the union of what its sub-turns show at all times, in
\* either mode, with failed calls and upserts, replaced answers and completed sessions,
\* unless it was last stored by a scoring that had read its siblings before another's
\* store; the next scoring that runs undisturbed makes it whole again.
AggregateIsUnion == ~torn => agg = Covered

\* What a student has demonstrated is never taken back: a sub-turn loses components only
\* where a second submit has replaced its answer, and the question's aggregate only there
\* or by the store of a scoring another's store fell into.
CoverageKept ==
  [][/\ \A i \in SubTurn : eval[i].shown \subseteq eval'[i].shown \/ i \in Replaced
     /\ agg \subseteq agg' \/ torn' \/ Replaced # {}]_vars
=============================================================================
