-------------------------- MODULE AnswerTurnProofs --------------------------
(***************************************************************************)
(* What holds of AnswerTurn for every number of submits, answers and path  *)
(* nodes, from however many pages: sub-turns are numbered without gaps, an *)
(* answer and its evaluation give way only to a submit that had counted    *)
(* the same index, and what a student has demonstrated is lost only there, *)
(* or to a scoring that another's store fell into.                         *)
(***************************************************************************)
EXTENDS AnswerTurn, FiniteSetTheorems, TLAPS

(***************************************************************************)
(* The inductive invariant, one part for each group of properties.         *)
(***************************************************************************)
\* The stages before the count.
Early == {"idle", "begun", "ready"}

\* r has inserted its row and has not failed.
Written(r) == req[r].pc \in {"inserted", "read", "done"}

\* r, or the thread it has started, is about to evaluate the row r has inserted.
Evaluating(r) == req[r].pc \in {"inserted", "read"} \/ bg[r].pc \in {"running", "read"}

\* Every request has an answer once it has begun, and starts a thread only as its last step.
RequestsOK ==
  \A r \in Request :
    /\ req[r].pc # "idle" => req[r].answer \in Answer
    /\ bg[r].pc # "none" => req[r].pc = "done"

\* Rows are numbered without gaps, below every index that has been counted; a row has been
\* inserted by some request, so that one that has yet to count finds a number free.
RowsOK ==
  /\ SubTurnsContiguous
  /\ \A i \in Rows : \E r \in Request : req[r].sub = i /\ req[r].pc \notin {"idle", "begun", "ready"}
  /\ \A r \in Request : req[r].pc = "counted" => \A j \in SubTurn : j < req[r].sub => j \in Rows

\* What is written or evaluated has a row, and what is not evaluated shows nothing.
EvaluationsOK ==
  /\ \A r \in Request : Written(r) => req[r].sub \in Rows
  /\ \A i \in SubTurn : eval[i].state # "none" => i \in Rows
  /\ \A i \in SubTurn : eval[i].state = "none" => eval[i].shown = {}

\* Who finds its row taken has been overtaken.  Unless one that was has replaced the row,
\* the row is of one submit alone: it holds that submit's answer, its evaluation is of that
\* answer, and before the submit's own scoring it shows nothing.
IndexOK ==
  /\ \A r \in Request : req[r].pc = "counted" /\ req[r].sub \in Rows => r \in overtaken
  /\ \A r \in overtaken : req[r].pc \notin Early
  /\ \A r \in Request : Written(r) => turn[req[r].sub] = req[r].answer \/ req[r].sub \in Replaced
  /\ \A r, q \in Request : Written(r) /\ Written(q) /\ req[r].sub = req[q].sub /\ r # q => req[r].sub \in Replaced
  /\ \A r \in Request : Evaluating(r) => eval[req[r].sub].shown = {} \/ req[r].sub \in Replaced
  /\ EvaluationsFitAnswers

\* what the scoring of r, or of its thread, has read
Prior(r) == IF req[r].pc = "read" THEN req[r].prior ELSE bg[r].prior

Undisturbed == Replaced = {}

\* What a scoring has read is still so unless it is outrun; and while no row was replaced
\* neither it nor the aggregate is more than what is shown.
Fresh == \A r \in Request \ outrun : Scoring(r) => Prior(r) = ShownElsewhere(req[r].sub)
Bounded == \A r \in Request : Scoring(r) => Prior(r) \subseteq ShownElsewhere(req[r].sub)

AggregateOK ==
  /\ Fresh /\ AggregateIsUnion
  /\ Undisturbed => Bounded /\ agg \subseteq Covered

IInv == TypeOK /\ RequestsOK /\ RowsOK /\ EvaluationsOK /\ IndexOK /\ AggregateOK

-----------------------------------------------------------------------------
\* The indices that are counted are those of the requests.
LEMMA SubTurnFacts ==
  /\ Cardinality(Request) \in Nat /\ Cardinality(Request) > 0 /\ 0 \in SubTurn
  /\ \A n \in Nat : n \in SubTurn <=> n < Cardinality(Request)
<1>1. Cardinality(Request) \in Nat /\ Cardinality(Request) # 0
  BY RequestAssumption, FS_CardinalityType, FS_EmptySet
<1> QED BY <1>1 DEF SubTurn

\* Numbered without gaps, the rows there are come before the one that is counted next.
LEMMA CountFacts ==
  ASSUME TypeOK, RowsOK, NEW r \in Request, req[r].pc = "ready"
  PROVE  /\ Cardinality(Rows) \in SubTurn /\ Cardinality(Rows) \notin Rows
         /\ \A j \in SubTurn : j < Cardinality(Rows) => j \in Rows
<1> DEFINE n == Cardinality(Rows)
<1>1. IsFiniteSet(Rows) /\ n \in Nat
  <2>1. IsFiniteSet(SubTurn)
    BY SubTurnFacts, FS_Interval DEF SubTurn
  <2> QED BY <2>1, FS_Subset, FS_CardinalityType DEF Rows
<1>2. n < Cardinality(Request)
  <2> DEFINE others == Request \ {r}
             sub == [q \in others |-> req[q].sub]
  <2>1. IsFiniteSet(others) /\ Cardinality(others) = Cardinality(Request) - 1
    BY RequestAssumption, FS_RemoveElement
  <2>2. Rows \subseteq {sub[q] : q \in others}
    BY DEF RowsOK
  <2>3. IsFiniteSet({sub[q] : q \in others}) /\ Cardinality({sub[q] : q \in others}) <= Cardinality(others)
    <3> HIDE DEF others
    <3>1. sub \in Surjection(others, {sub[q] : q \in others})
      BY DEF Surjection
    <3> QED BY <2>1, <3>1, FS_Surjection
  <2>4. n <= Cardinality({sub[q] : q \in others})
    BY <2>2, <2>3, FS_Subset
  <2> QED BY <1>1, <2>1, <2>3, <2>4, SubTurnFacts, FS_CardinalityType
<1>3. \A i \in Rows : i < n
  <2> SUFFICES ASSUME NEW i \in Rows PROVE i < n
    OBVIOUS
  <2>1. i \in Nat /\ 0 .. i \subseteq Rows
    BY SubTurnFacts DEF RowsOK, SubTurnsContiguous, Rows, SubTurn
  <2>2. Cardinality(0 .. i) = i + 1
    BY <2>1, FS_Interval
  <2> QED BY <1>1, <2>1, <2>2, FS_Subset
<1>4. ASSUME NEW j \in SubTurn, j < n PROVE j \in Rows
  <2> SUFFICES ASSUME j \notin Rows PROVE FALSE
    OBVIOUS
  <2>1. j \in Nat /\ Rows \subseteq 0 .. (j - 1)
    BY <1>1 DEF RowsOK, SubTurnsContiguous, Rows, SubTurn
  <2>2. IsFiniteSet(0 .. (j - 1)) /\ Cardinality(0 .. (j - 1)) = j
    BY <2>1, FS_Interval
  <2>3. n <= j
    BY <2>1, <2>2, FS_Subset
  <2> HIDE DEF n
  <2> QED BY <1>1, <1>4, <2>1, <2>3
<1> QED BY <1>1, <1>2, <1>3, <1>4, SubTurnFacts

LEMMA InitIInv == Init => IInv
<1> SUFFICES ASSUME Init PROVE IInv
  OBVIOUS
<1>1. TypeOK
  BY SubTurnFacts DEF Init, TypeOK, Evaluation, NoEvaluation, SubmitState, ThreadState
<1>2. Rows = {}
  BY DEF Init, Rows
<1>3. RequestsOK /\ RowsOK /\ EvaluationsOK
  BY <1>2 DEF Init, RequestsOK, RowsOK, EvaluationsOK, SubTurnsContiguous, NoEvaluation, Written, Rows
<1>4. IndexOK
  BY DEF Init, IndexOK, Written, Evaluating, EvaluationsFitAnswers, NoEvaluation
<1>5. AggregateOK
  BY DEF Init, AggregateOK, AggregateIsUnion, Fresh, Bounded, Scoring, Covered, NoEvaluation
<1> QED BY <1>1, <1>3, <1>4, <1>5 DEF IInv

-----------------------------------------------------------------------------
\* What a submit finds is a set of nodes.
LEMMA FindingsFacts ==
  ASSUME NEW a \in Answer, NEW found \in Findings(a)
  PROVE  found \in SUBSET Node
BY DemonstratesAssumption DEF Findings

\* What the sub-turns show is a set of nodes.
LEMMA ShownFacts ==
  ASSUME TypeOK
  PROVE  Covered \in SUBSET Node /\ \A i \in SubTurn : ShownElsewhere(i) \in SUBSET Node
BY DEF TypeOK, Evaluation, Covered, ShownElsewhere

(***************************************************************************)
(* What the actions do to the request, the thread and the evaluation they  *)
(* are about.                                                              *)
(***************************************************************************)
Becomes(r, pc, answer, sub, prior) ==
  /\ req' \in [Request -> SubmitState]
  /\ \A q \in Request \ {r} : req'[q] = req[q]
  /\ req'[r].pc = pc /\ req'[r].answer = answer /\ req'[r].sub = sub /\ req'[r].prior = prior

Moves(r, pc) == Becomes(r, pc, req[r].answer, req[r].sub, req[r].prior)

ThreadBecomes(r, pc, prior) ==
  /\ bg' \in [Request -> ThreadState]
  /\ \A q \in Request \ {r} : bg'[q] = bg[q]
  /\ bg'[r].pc = pc /\ bg'[r].prior = prior

RowBecomes(i, row) ==
  /\ eval' \in [SubTurn -> Evaluation]
  /\ \A j \in SubTurn \ {i} : eval'[j] = eval[j]
  /\ eval'[i] = row

LEMMA BecomesFacts ==
  ASSUME TypeOK, NEW r \in Request, NEW q \in SubmitState, req' = [req EXCEPT ![r] = q]
  PROVE  Becomes(r, q.pc, q.answer, q.sub, q.prior)
BY DEF TypeOK, Becomes

LEMMA ThreadBecomesFacts ==
  ASSUME TypeOK, NEW r \in Request, NEW b \in ThreadState, bg' = [bg EXCEPT ![r] = b]
  PROVE  ThreadBecomes(r, b.pc, b.prior)
BY DEF TypeOK, ThreadBecomes

LEMMA RowBecomesFacts ==
  ASSUME TypeOK, NEW i \in SubTurn, NEW row \in Evaluation, eval' = [eval EXCEPT ![i] = row]
  PROVE  RowBecomes(i, row)
BY DEF TypeOK, RowBecomes

LEMMA MovesFacts ==
  ASSUME TypeOK, NEW r \in Request, NEW pc, req' = [req EXCEPT ![r].pc = pc],
         pc \in {"begun", "ready", "counted", "inserted", "read", "done", "rejected"}
  PROVE  Moves(r, pc)
<1> DEFINE q == [req[r] EXCEPT !.pc = pc]
<1>1. /\ q \in SubmitState /\ q.pc = pc /\ q.answer = req[r].answer /\ q.sub = req[r].sub
      /\ q.prior = req[r].prior
  BY DEF TypeOK, SubmitState
<1>2. req' = [req EXCEPT ![r] = q]
  OBVIOUS
<1> HIDE DEF q
<1> QED BY <1>1, <1>2, BecomesFacts DEF Moves

LEMMA BeginFacts ==
  ASSUME TypeOK, NEW r \in Request, NEW a \in Answer, Begin(r, a)
  PROVE  Becomes(r, IF session = "active" THEN "begun" ELSE "rejected", a, req[r].sub, req[r].prior)
<1> DEFINE pc == IF session = "active" THEN "begun" ELSE "rejected"
           q == [req[r] EXCEPT !.pc = pc, !.answer = a]
<1>1. /\ q \in SubmitState /\ q.pc = pc /\ q.answer = a /\ q.sub = req[r].sub
      /\ q.prior = req[r].prior
  BY DEF TypeOK, SubmitState
<1>2. req' = [req EXCEPT ![r] = q]
  BY Zenon DEF Begin
<1> HIDE DEF q, pc
<1> QED BY <1>1, <1>2, BecomesFacts DEF pc

LEMMA ReadPathFacts ==
  ASSUME TypeOK, NEW r \in Request, ReadPath(r)
  PROVE  Moves(r, "ready")
<1> DEFINE q == [req[r] EXCEPT !.pc = "ready", !.eds = path]
<1>1. /\ q \in SubmitState /\ q.pc = "ready" /\ q.answer = req[r].answer /\ q.sub = req[r].sub
      /\ q.prior = req[r].prior
  BY DEF TypeOK, SubmitState
<1>2. req' = [req EXCEPT ![r] = q]
  BY DEF ReadPath
<1> HIDE DEF q
<1> QED BY <1>1, <1>2, BecomesFacts DEF Moves

LEMMA CountAsFacts ==
  ASSUME TypeOK, NEW r \in Request, Count(r), Cardinality(Rows) \in SubTurn
  PROVE  Becomes(r, "counted", req[r].answer, Cardinality(Rows), req[r].prior)
<1> DEFINE q == [req[r] EXCEPT !.pc = "counted", !.sub = Cardinality(Rows)]
<1>1. /\ q \in SubmitState /\ q.pc = "counted" /\ q.answer = req[r].answer /\ q.sub = Cardinality(Rows)
      /\ q.prior = req[r].prior
  BY DEF TypeOK, SubmitState
<1>2. req' = [req EXCEPT ![r] = q]
  BY DEF Count, CountAs
<1> HIDE DEF q
<1> QED BY <1>1, <1>2, BecomesFacts

LEMMA ReadPriorFacts ==
  ASSUME TypeOK, NEW r \in Request, ReadPrior(r)
  PROVE  Becomes(r, "read", req[r].answer, req[r].sub, ShownElsewhere(req[r].sub))
<1> DEFINE prior == ShownElsewhere(req[r].sub)
           q == [req[r] EXCEPT !.pc = "read", !.prior = prior]
<1>1. prior \in SUBSET Node
  BY ShownFacts DEF TypeOK, SubmitState
<1>2. req' = [req EXCEPT ![r] = q]
  BY DEF ReadPrior
<1> HIDE DEF prior
<1>3. /\ q \in SubmitState /\ q.pc = "read" /\ q.answer = req[r].answer /\ q.sub = req[r].sub
      /\ q.prior = prior
  BY <1>1 DEF TypeOK, SubmitState
<1> HIDE DEF q
<1> QED BY <1>2, <1>3, BecomesFacts DEF prior

LEMMA StoreLegacyFacts ==
  ASSUME TypeOK, NEW r \in Request, StoreLegacy(r)
  PROVE  /\ Moves(r, "done")
         /\ RowBecomes(req[r].sub, [eval[req[r].sub] EXCEPT !.state = "legacy", !.of = req[r].answer])
<1> DEFINE i == req[r].sub
           row == [eval[i] EXCEPT !.state = "legacy", !.of = req[r].answer]
<1>1. i \in SubTurn /\ row \in Evaluation
  <2>1. i \in SubTurn /\ eval[i] \in Evaluation /\ req[r].answer \in Answer \cup {None}
    BY DEF TypeOK, SubmitState
  <2> HIDE DEF i
  <2> QED BY <2>1 DEF Evaluation
<1>2. eval' = [eval EXCEPT ![i] = row] /\ req' = [req EXCEPT ![r].pc = "done"]
  BY Zenon DEF StoreLegacy
<1> HIDE DEF row, i
<1> QED BY <1>1, <1>2, MovesFacts, RowBecomesFacts DEF row, i

LEMMA StoreScoreFacts ==
  ASSUME TypeOK, RequestsOK, NEW r \in Request, StoreScore(r)
  PROVE  \E found \in SUBSET Node :
           /\ Moves(r, "done") /\ RowBecomes(req[r].sub, Scored(r, found))
           /\ agg' = req[r].prior \cup found /\ agg' \in SUBSET Node
<1>1. PICK found \in Findings(req[r].answer) : StoreWith(r, found, req[r].prior \cup found)
  BY DEF StoreScore
<1>2. found \in SUBSET Node /\ req[r] \in SubmitState
  BY <1>1, FindingsFacts DEF TypeOK, RequestsOK, StoreWith
<1>3. Scored(r, found) \in Evaluation /\ req[r].prior \cup found \in SUBSET Node /\ req[r].sub \in SubTurn
  BY <1>2 DEF Scored, Evaluation, SubmitState
<1>4. /\ req' = [req EXCEPT ![r].pc = "done"] /\ eval' = [eval EXCEPT ![req[r].sub] = Scored(r, found)]
      /\ agg' = req[r].prior \cup found
  BY <1>1 DEF StoreWith
<1> QED BY <1>2, <1>3, <1>4, MovesFacts, RowBecomesFacts

LEMMA StorePrelimFacts ==
  ASSUME TypeOK, NEW r \in Request, StorePrelim(r)
  PROVE  /\ Moves(r, "done") /\ RowBecomes(req[r].sub, PrelimRow(r))
         /\ ThreadBecomes(r, "running", bg[r].prior)
<1> DEFINE b == [bg[r] EXCEPT !.pc = "running"]
<1>1. b \in ThreadState /\ b.pc = "running" /\ b.prior = bg[r].prior
  BY DEF TypeOK, ThreadState
<1>2. PrelimRow(r) \in Evaluation /\ req[r].sub \in SubTurn
  BY DEF TypeOK, PrelimRow, Evaluation, SubmitState
<1>3. /\ req' = [req EXCEPT ![r].pc = "done"] /\ eval' = [eval EXCEPT ![req[r].sub] = PrelimRow(r)]
      /\ bg' = [bg EXCEPT ![r] = b]
  BY DEF StorePrelim
<1> HIDE DEF b
<1> QED BY <1>1, <1>2, <1>3, MovesFacts, RowBecomesFacts, ThreadBecomesFacts

LEMMA BgReadFacts ==
  ASSUME TypeOK, NEW r \in Request, BgRead(r)
  PROVE  ThreadBecomes(r, "read", ShownElsewhere(req[r].sub))
<1> DEFINE prior == ShownElsewhere(req[r].sub)
           b == [bg[r] EXCEPT !.pc = "read", !.prior = prior]
<1>1. prior \in SUBSET Node
  BY ShownFacts DEF TypeOK, SubmitState
<1>2. bg' = [bg EXCEPT ![r] = b]
  BY DEF BgRead
<1> HIDE DEF prior
<1>3. b \in ThreadState /\ b.pc = "read" /\ b.prior = prior
  BY <1>1 DEF TypeOK, ThreadState
<1> HIDE DEF b
<1> QED BY <1>2, <1>3, ThreadBecomesFacts DEF prior

LEMMA BgStoreFacts ==
  ASSUME TypeOK, RequestsOK, NEW r \in Request, BgStore(r)
  PROVE  LET found == Demonstrates[req[r].answer]
         IN /\ ThreadBecomes(r, "ended", bg[r].prior) /\ RowBecomes(req[r].sub, Scored(r, found))
            /\ agg' = bg[r].prior \cup found /\ agg' \in SUBSET Node
<1> DEFINE found == Demonstrates[req[r].answer]
           b == [bg[r] EXCEPT !.pc = "ended"]
<1>1. found \in SUBSET Node /\ req[r] \in SubmitState /\ bg[r] \in ThreadState
  BY DemonstratesAssumption DEF TypeOK, RequestsOK, BgStore
<1>2. bg' = [bg EXCEPT ![r] = b] /\ eval' = [eval EXCEPT ![req[r].sub] = Scored(r, found)] /\ agg' = bg[r].prior \cup found
  BY DEF BgStore
<1> HIDE DEF found
<1>3. b \in ThreadState /\ b.pc = "ended" /\ b.prior = bg[r].prior /\ bg[r].prior \cup found \in SUBSET Node
  BY <1>1 DEF ThreadState
<1>4. Scored(r, found) \in Evaluation /\ req[r].sub \in SubTurn
  BY <1>1 DEF Scored, Evaluation, SubmitState
<1> HIDE DEF b
<1> QED BY <1>2, <1>3, <1>4, ThreadBecomesFacts, RowBecomesFacts DEF found

LEMMA BgFailFacts ==
  ASSUME TypeOK, NEW r \in Request, BgFail(r)
  PROVE  ThreadBecomes(r, "ended", bg[r].prior)
<1> DEFINE b == [bg[r] EXCEPT !.pc = "ended"]
<1>1. b \in ThreadState /\ b.pc = "ended" /\ b.prior = bg[r].prior
  BY DEF TypeOK, ThreadState
<1>2. bg' = [bg EXCEPT ![r] = b]
  BY DEF BgFail
<1> HIDE DEF b
<1> QED BY <1>1, <1>2, ThreadBecomesFacts

-----------------------------------------------------------------------------
(***************************************************************************)
(* The kinds of steps the invariant tells apart: a count, an insert, and   *)
(* the others, after which every request is where it was or further on.    *)
(***************************************************************************)
Stays(q) ==
  /\ req'[q].sub = req[q].sub
  /\ Written(q)' => Written(q) /\ req'[q].answer = req[q].answer
  /\ req'[q].pc = "counted" => req[q].pc = "counted"
  /\ req[q].pc \notin Early => req'[q].pc \notin Early
  /\ Evaluating(q)' => Evaluating(q)

\* A submit that fails before its insert is overtaken no more.
Releases ==
  /\ overtaken' \subseteq overtaken
  /\ \A q \in overtaken \ overtaken' : req[q].pc = "counted" /\ req'[q].pc = "rejected"

\* r evaluates its row, and shows as much as before if it is to score it yet.
Stores(r) ==
  /\ Evaluating(r) /\ UNCHANGED overtaken
  /\ \E row : /\ RowBecomes(req[r].sub, row) /\ row.state # "none" /\ row.of = req[r].answer
              /\ Evaluating(r)' => row.shown = eval[req[r].sub].shown

Proceeds ==
  /\ UNCHANGED turn /\ Releases
  /\ \A q \in Request : Stays(q)
  /\ UNCHANGED eval \/ \E r \in Request : Stores(r)

\* A request that only moves on, with its index and its answer, and counts or inserts nothing.
LEMMA MovedStays ==
  ASSUME TypeOK, RequestsOK, NEW r \in Request, NEW pc, NEW prior,
         Becomes(r, pc, req[r].answer, req[r].sub, prior),
         \/ req[r].pc = "begun" /\ pc = "ready"
         \/ req[r].pc = "inserted" /\ pc \in {"read", "done"}
         \/ req[r].pc = "read" /\ pc = "done"
         \/ pc = "rejected",
         UNCHANGED bg \/ (req[r].pc = "inserted" /\ \A q \in Request \ {r} : bg'[q] = bg[q])
  PROVE  \A q \in Request : Stays(q)
<1>1. \A q \in Request \ {r} : Stays(q)
  BY DEF Stays, Becomes, Written, Evaluating
<1>2. Stays(r)
  BY DEF Stays, Becomes, Written, Evaluating, Early
<1> QED BY <1>1, <1>2

LEMMA StoreLegacyStores ==
  ASSUME TypeOK, NEW r \in Request, StoreLegacy(r)
  PROVE  Stores(r)
<1> DEFINE row == [eval[req[r].sub] EXCEPT !.state = "legacy", !.of = req[r].answer]
<1>1. /\ UNCHANGED <<overtaken, bg>> /\ req[r].pc = "inserted" /\ Moves(r, "done")
      /\ RowBecomes(req[r].sub, row)
  BY StoreLegacyFacts DEF StoreLegacy
<1>2. row.state # "none" /\ row.of = req[r].answer /\ row.shown = eval[req[r].sub].shown
  BY DEF TypeOK, SubmitState, Evaluation
<1>3. Evaluating(r)
  BY <1>1 DEF Evaluating
<1> HIDE DEF row
<1> QED BY <1>1, <1>2, <1>3 DEF Stores

LEMMA StoreScoreStores ==
  ASSUME TypeOK, RequestsOK, NEW r \in Request, StoreScore(r)
  PROVE  Stores(r)
<1>1. UNCHANGED <<overtaken, bg>> /\ req[r].pc = "read"
  BY DEF StoreScore, StoreWith
<1>2. PICK found \in SUBSET Node : Moves(r, "done") /\ RowBecomes(req[r].sub, Scored(r, found))
  BY StoreScoreFacts
<1>3. Evaluating(r) /\ ~Evaluating(r)'
  BY <1>1, <1>2 DEF Evaluating, RequestsOK, Moves, Becomes
<1>4. Scored(r, found).state # "none" /\ Scored(r, found).of = req[r].answer
  BY DEF Scored
<1> QED BY <1>1, <1>2, <1>3, <1>4 DEF Stores

\* A preliminary row shows what was shown before.
LEMMA PrelimShown ==
  ASSUME TypeOK, EvaluationsOK, NEW r \in Request
  PROVE  /\ PrelimRow(r).shown = eval[req[r].sub].shown
         /\ PrelimRow(r).state # "none" /\ PrelimRow(r).of = req[r].answer
<1>1. req[r].sub \in SubTurn /\ eval[req[r].sub] \in Evaluation
  BY DEF TypeOK, SubmitState
<1>2. CASE eval[req[r].sub].state = "none"
  BY <1>1, <1>2 DEF EvaluationsOK, PrelimRow
<1>3. CASE eval[req[r].sub].state # "none"
  BY <1>1, <1>3 DEF PrelimRow, Evaluation
<1> QED BY <1>2, <1>3

LEMMA StorePrelimStores ==
  ASSUME TypeOK, EvaluationsOK, NEW r \in Request, StorePrelim(r)
  PROVE  Stores(r)
<1>1. UNCHANGED overtaken /\ req[r].pc = "inserted"
  BY DEF StorePrelim
<1>2. RowBecomes(req[r].sub, PrelimRow(r))
  BY StorePrelimFacts
<1> QED BY <1>1, <1>2, PrelimShown DEF Stores, Evaluating

LEMMA BgStoreStores ==
  ASSUME TypeOK, RequestsOK, NEW r \in Request, BgStore(r)
  PROVE  Stores(r)
<1> DEFINE found == Demonstrates[req[r].answer]
<1>1. UNCHANGED <<overtaken, req>> /\ bg[r].pc = "read"
  BY DEF BgStore
<1>2. ThreadBecomes(r, "ended", bg[r].prior) /\ RowBecomes(req[r].sub, Scored(r, found))
  BY BgStoreFacts
<1>3. Evaluating(r) /\ ~Evaluating(r)'
  BY <1>1, <1>2 DEF Evaluating, RequestsOK, ThreadBecomes
<1> HIDE DEF found
<1>4. Scored(r, found).state # "none" /\ Scored(r, found).of = req[r].answer
  BY DEF Scored
<1> QED BY <1>1, <1>2, <1>3, <1>4 DEF Stores

LEMMA SubmitProceeds ==
  ASSUME TypeOK, RequestsOK, EvaluationsOK, NEW r \in Request, SubmitStep(r), ~Count(r), ~InsertTurn(r)
  PROVE  Proceeds
<1>1. CASE ReadPath(r)
  <2>1. UNCHANGED <<turn, eval, bg, overtaken>> /\ req[r].pc = "begun"
    BY <1>1 DEF ReadPath
  <2>2. Becomes(r, "ready", req[r].answer, req[r].sub, req[r].prior)
    BY <1>1, ReadPathFacts DEF Moves
  <2> QED BY <2>1, <2>2, MovedStays DEF Proceeds, Releases
<1>2. CASE StoreLegacy(r)
  <2>1. UNCHANGED <<turn, bg, overtaken>> /\ req[r].pc = "inserted"
    BY <1>2 DEF StoreLegacy
  <2>2. Becomes(r, "done", req[r].answer, req[r].sub, req[r].prior)
    BY <1>2, StoreLegacyFacts DEF Moves
  <2> QED BY <1>2, <2>1, <2>2, MovedStays, StoreLegacyStores DEF Proceeds, Releases
<1>3. CASE ReadPrior(r)
  <2>1. UNCHANGED <<turn, eval, bg, overtaken>> /\ req[r].pc = "inserted"
    BY <1>3 DEF ReadPrior
  <2> QED BY <1>3, <2>1, ReadPriorFacts, MovedStays DEF Proceeds, Releases
<1>4. CASE StoreScore(r)
  <2>1. UNCHANGED <<turn, bg, overtaken>> /\ req[r].pc = "read"
    BY <1>4 DEF StoreScore, StoreWith
  <2>2. Becomes(r, "done", req[r].answer, req[r].sub, req[r].prior)
    BY <1>4, StoreScoreFacts DEF Moves
  <2> QED BY <1>4, <2>1, <2>2, MovedStays, StoreScoreStores DEF Proceeds, Releases
<1>5. CASE AggregateFails(r)
  <2>1. UNCHANGED <<turn, eval, bg, overtaken>> /\ req[r].pc = "read"
    BY <1>5 DEF AggregateFails
  <2>2. Becomes(r, "done", req[r].answer, req[r].sub, req[r].prior)
    BY <1>5, MovesFacts DEF AggregateFails, Moves
  <2> QED BY <2>1, <2>2, MovedStays DEF Proceeds, Releases
<1>6. CASE SubmitFails(r)
  <2>1. /\ UNCHANGED <<turn, eval, bg>>
        /\ overtaken' = IF req[r].pc = "counted" THEN overtaken \ {r} ELSE overtaken
    BY <1>6 DEF SubmitFails
  <2>2. Becomes(r, "rejected", req[r].answer, req[r].sub, req[r].prior)
    BY <1>6, MovesFacts DEF SubmitFails, Moves
  <2>3. Releases
    BY <2>1, <2>2 DEF Releases, Becomes
  <2> QED BY <2>1, <2>2, <2>3, MovedStays DEF Proceeds
<1>7. CASE StorePrelim(r)
  <2>1. UNCHANGED <<turn, overtaken>> /\ req[r].pc = "inserted"
    BY <1>7 DEF StorePrelim
  <2>2. /\ Becomes(r, "done", req[r].answer, req[r].sub, req[r].prior)
        /\ \A q \in Request \ {r} : bg'[q] = bg[q]
    BY <1>7, StorePrelimFacts DEF Moves, ThreadBecomes
  <2> QED BY <1>7, <2>1, <2>2, MovedStays, StorePrelimStores DEF Proceeds, Releases
<1> QED BY <1>1, <1>2, <1>3, <1>4, <1>5, <1>6, <1>7 DEF SubmitStep

LEMMA ThreadProceeds ==
  ASSUME TypeOK, RequestsOK, NEW r \in Request, BgStep(r)
  PROVE  Proceeds
<1>1. UNCHANGED <<turn, req, overtaken>> /\ bg[r].pc \in {"running", "read"}
  BY DEF BgStep, BgRead, BgStore, BgFail
<1>2. \E pc \in {"read", "ended"} : \E prior : ThreadBecomes(r, pc, prior)
  BY BgReadFacts, BgStoreFacts, BgFailFacts DEF BgStep
<1>3. \A q \in Request : Stays(q)
  BY <1>1, <1>2 DEF Stays, Written, Evaluating, ThreadBecomes
<1>4. UNCHANGED eval \/ Stores(r)
  BY BgStoreStores DEF BgStep, BgRead, BgFail
<1> QED BY <1>1, <1>3, <1>4 DEF Proceeds, Releases

\* Every step counts, inserts, or leaves all as it is or further on.
LEMMA StepKinds ==
  ASSUME TypeOK, RequestsOK, EvaluationsOK, [Next]_vars
  PROVE  \/ \E r \in Request : Count(r) \/ InsertTurn(r)
         \/ Proceeds
<1>1. ASSUME NEW r \in Request, NEW a \in Answer, Begin(r, a) PROVE Proceeds
  <2>1. UNCHANGED <<turn, eval, bg, overtaken>> /\ req[r].pc = "idle"
    BY <1>1 DEF Begin
  <2>2. Becomes(r, IF session = "active" THEN "begun" ELSE "rejected", a, req[r].sub, req[r].prior)
    BY <1>1, BeginFacts
  <2>3. \A q \in Request : Stays(q)
    BY <2>1, <2>2 DEF Stays, Becomes, Written, Evaluating, Early, RequestsOK
  <2> QED BY <2>1, <2>3 DEF Proceeds, Releases
<1>2. CASE UNCHANGED <<turn, eval, req, bg, overtaken>>
  BY <1>2 DEF Proceeds, Releases, Stays, Written, Evaluating
<1> QED BY <1>1, <1>2, SubmitProceeds, ThreadProceeds DEF Next, CompleteSession, SwitchMode, PathLands, vars

-----------------------------------------------------------------------------
LEMMA PageTypes ==
  ASSUME IInv,
         \/ \E r \in Request, a \in Answer : Begin(r, a)
         \/ CompleteSession \/ SwitchMode \/ PathLands \/ UNCHANGED vars
  PROVE  TypeOK' /\ RequestsOK'
<1>1. ASSUME NEW r \in Request, NEW a \in Answer, Begin(r, a) PROVE TypeOK' /\ RequestsOK'
  <2>1. Becomes(r, IF session = "active" THEN "begun" ELSE "rejected", a, req[r].sub, req[r].prior)
    BY <1>1, BeginFacts DEF IInv
  <2>2. req[r].pc = "idle"
    BY <1>1 DEF Begin
  <2>3. RequestsOK'
    BY <1>1, <2>1, <2>2 DEF IInv, Becomes, RequestsOK, Begin
  <2> QED BY <1>1, <2>1, <2>3 DEF IInv, TypeOK, Begin, Becomes
<1>2. CASE CompleteSession \/ SwitchMode \/ PathLands \/ UNCHANGED vars
  BY <1>2 DEF IInv, TypeOK, CompleteSession, SwitchMode, PathLands, vars, RequestsOK
<1> QED BY <1>1, <1>2

LEMMA SubmitTypes ==
  ASSUME IInv, NEW r \in Request, SubmitStep(r)
  PROVE  TypeOK' /\ RequestsOK'
<1> USE DEF IInv
<1>1. CASE ReadPath(r)
  BY <1>1, ReadPathFacts DEF TypeOK, ReadPath, RequestsOK, Moves, Becomes
<1>2. CASE Count(r)
  <2>1. req[r].pc = "ready"
    BY <1>2 DEF Count, CountAs
  <2>2. Becomes(r, "counted", req[r].answer, Cardinality(Rows), req[r].prior)
    BY <1>2, <2>1, CountFacts, CountAsFacts
  <2> QED BY <1>2, <2>1, <2>2 DEF TypeOK, Count, CountAs, RequestsOK, Becomes
<1>3. CASE InsertTurn(r)
  <2>1. Moves(r, "inserted")
    BY <1>3, MovesFacts DEF InsertTurn
  <2>2. turn' \in [SubTurn -> Answer \cup {None}] /\ overtaken' \subseteq Request
    BY <1>3 DEF TypeOK, SubmitState, InsertTurn
  <2> QED BY <1>3, <2>1, <2>2 DEF TypeOK, InsertTurn, RequestsOK, Moves, Becomes
<1>4. CASE StoreLegacy(r)
  BY <1>4, StoreLegacyFacts DEF TypeOK, StoreLegacy, RequestsOK, Moves, Becomes, RowBecomes
<1>5. CASE ReadPrior(r)
  BY <1>5, ReadPriorFacts DEF TypeOK, ReadPrior, RequestsOK, Becomes
<1>6. CASE StoreScore(r)
  <2>1. UNCHANGED <<mode, path, session, turn, bg, overtaken>> /\ Outruns(r) /\ req[r].pc = "read"
    BY <1>6 DEF StoreScore, StoreWith
  <2>2. outrun' \subseteq Request /\ torn' \in BOOLEAN
    BY <2>1 DEF Outruns, TypeOK
  <2> QED BY <1>6, <2>1, <2>2, StoreScoreFacts DEF TypeOK, RequestsOK, Moves, Becomes, RowBecomes
<1>7. CASE AggregateFails(r)
  <2>1. Moves(r, "done")
    BY <1>7, MovesFacts DEF AggregateFails
  <2> QED BY <1>7, <2>1 DEF TypeOK, AggregateFails, RequestsOK, Moves, Becomes
<1>8. CASE SubmitFails(r)
  <2>1. Moves(r, "rejected")
    BY <1>8, MovesFacts DEF SubmitFails
  <2> QED BY <1>8, <2>1 DEF TypeOK, SubmitFails, RequestsOK, Moves, Becomes
<1>9. CASE StorePrelim(r)
  <2>1. UNCHANGED <<mode, path, session, turn, agg, overtaken, outrun, torn>> /\ req[r].pc = "inserted"
    BY <1>9 DEF StorePrelim
  <2>2. /\ Moves(r, "done") /\ eval' \in [SubTurn -> Evaluation]
        /\ ThreadBecomes(r, "running", bg[r].prior)
    BY <1>9, StorePrelimFacts DEF RowBecomes
  <2> QED BY <2>1, <2>2 DEF TypeOK, RequestsOK, Moves, Becomes, ThreadBecomes
<1> QED BY <1>1, <1>2, <1>3, <1>4, <1>5, <1>6, <1>7, <1>8, <1>9 DEF SubmitStep

LEMMA BgTypes ==
  ASSUME IInv, NEW r \in Request, BgStep(r)
  PROVE  TypeOK' /\ RequestsOK'
<1> USE DEF IInv
<1>1. CASE BgRead(r)
  BY <1>1, BgReadFacts DEF TypeOK, BgRead, RequestsOK, ThreadBecomes
<1>2. CASE BgStore(r)
  <2>1. UNCHANGED <<mode, path, session, turn, req, overtaken>> /\ Outruns(r) /\ bg[r].pc = "read"
    BY <1>2 DEF BgStore
  <2>2. /\ ThreadBecomes(r, "ended", bg[r].prior) /\ eval' \in [SubTurn -> Evaluation]
        /\ agg' \in SUBSET Node
    BY <1>2, BgStoreFacts DEF RowBecomes
  <2>3. outrun' \subseteq Request /\ torn' \in BOOLEAN
    BY <2>1 DEF Outruns, TypeOK
  <2> QED BY <2>1, <2>2, <2>3 DEF TypeOK, RequestsOK, ThreadBecomes
<1>3. CASE BgFail(r)
  BY <1>3, BgFailFacts DEF TypeOK, BgFail, RequestsOK, ThreadBecomes
<1> QED BY <1>1, <1>2, <1>3 DEF BgStep

\* Types are kept by every step.
LEMMA TypesStep ==
  ASSUME IInv, [Next]_vars
  PROVE  TypeOK' /\ RequestsOK'
BY PageTypes, SubmitTypes, BgTypes DEF Next

-----------------------------------------------------------------------------
\* The index is counted below the rows there are.
LEMMA CountRows ==
  ASSUME IInv, NEW r \in Request, Count(r)
  PROVE  RowsOK'
<1>1. req[r].pc = "ready" /\ UNCHANGED turn
  BY DEF Count, CountAs
<1>2. Becomes(r, "counted", req[r].answer, Cardinality(Rows), req[r].prior)
  BY <1>1, CountFacts, CountAsFacts DEF IInv
<1>3. Rows' = Rows /\ SubTurnsContiguous'
  BY <1>1 DEF Rows, IInv, RowsOK, SubTurnsContiguous
<1>4. ASSUME NEW i \in Rows
      PROVE  \E q \in Request : req'[q].sub = i /\ req'[q].pc \notin {"idle", "begun", "ready"}
  <2>1. PICK q \in Request : req[q].sub = i /\ req[q].pc \notin {"idle", "begun", "ready"}
    BY DEF IInv, RowsOK
  <2> QED BY <1>1, <1>2, <2>1 DEF Becomes
<1>5. \A q \in Request : req'[q].pc = "counted" => \A j \in SubTurn : j < req'[q].sub => j \in Rows
  BY <1>1, <1>2, CountFacts DEF IInv, RowsOK, Becomes
<1> QED BY <1>3, <1>4, <1>5 DEF RowsOK

\* The row is inserted right above others, or over one.
LEMMA InsertRows ==
  ASSUME IInv, NEW r \in Request, InsertTurn(r)
  PROVE  RowsOK' /\ Rows' = Rows \cup {req[r].sub} /\ turn' = [turn EXCEPT ![req[r].sub] = req[r].answer]
<1>1. req[r].pc = "counted" /\ turn' = [turn EXCEPT ![req[r].sub] = req[r].answer]
  BY DEF InsertTurn
<1>2. Moves(r, "inserted")
  BY MovesFacts DEF InsertTurn, IInv
<1>3. req[r].sub \in SubTurn /\ req[r].answer # None
  BY <1>1, NoneAssumption DEF IInv, TypeOK, SubmitState, RequestsOK
<1>4. Rows' = Rows \cup {req[r].sub}
  BY <1>1, <1>3 DEF Rows, IInv, TypeOK
<1>5. SubTurnsContiguous'
  <2> SUFFICES ASSUME NEW i \in SubTurn, i \in Rows', NEW j \in 0 .. i
               PROVE  j \in Rows'
    BY DEF SubTurnsContiguous, Rows
  <2>1. j \in SubTurn
    BY SubTurnFacts DEF SubTurn
  <2>2. CASE i \in Rows
    BY <1>4, <2>1, <2>2 DEF IInv, RowsOK, SubTurnsContiguous, Rows
  <2>3. CASE i = req[r].sub
    <3>1. j = i \/ j < i
      BY DEF SubTurn
    <3> QED BY <1>1, <1>4, <2>1, <2>3, <3>1 DEF IInv, RowsOK
  <2> QED BY <1>4, <2>2, <2>3
<1>6. ASSUME NEW i \in Rows'
      PROVE  \E q \in Request : req'[q].sub = i /\ req'[q].pc \notin {"idle", "begun", "ready"}
  <2>1. CASE i = req[r].sub
    BY <1>2, <2>1 DEF Moves, Becomes
  <2>2. CASE i \in Rows
    <3>1. PICK q \in Request : req[q].sub = i /\ req[q].pc \notin {"idle", "begun", "ready"}
      BY <2>2 DEF IInv, RowsOK
    <3> QED BY <1>2, <3>1 DEF Moves, Becomes
  <2> QED BY <1>4, <2>1, <2>2
<1>7. \A q \in Request : req'[q].pc = "counted" => \A j \in SubTurn : j < req'[q].sub => j \in Rows'
  BY <1>2, <1>4 DEF IInv, RowsOK, Moves, Becomes
<1> QED BY <1>1, <1>4, <1>5, <1>6, <1>7 DEF RowsOK

LEMMA RowsStep ==
  ASSUME IInv, [Next]_vars
  PROVE  RowsOK'
<1>1. CASE Proceeds
  <2>1. RowsOK /\ UNCHANGED turn
    BY <1>1 DEF IInv, Proceeds
  <2>2. Rows' = Rows /\ SubTurnsContiguous'
    BY <2>1 DEF Rows, RowsOK, SubTurnsContiguous
  <2>3. ASSUME NEW i \in Rows
        PROVE  \E r \in Request : req'[r].sub = i /\ req'[r].pc \notin {"idle", "begun", "ready"}
    <3>1. PICK r \in Request : req[r].sub = i /\ req[r].pc \notin {"idle", "begun", "ready"}
      BY <2>1 DEF RowsOK
    <3> QED BY <1>1, <3>1 DEF Proceeds, Stays, Early
  <2>4. \A r \in Request : req'[r].pc = "counted" => \A j \in SubTurn : j < req'[r].sub => j \in Rows
    BY <1>1, <2>1 DEF RowsOK, Proceeds, Stays
  <2> QED BY <2>2, <2>3, <2>4 DEF RowsOK
<1> QED BY <1>1, StepKinds, CountRows, InsertRows DEF IInv

\* What has a row keeps it, and who inserts gets one.
LEMMA EvaluationsStep ==
  ASSUME IInv, [Next]_vars
  PROVE  EvaluationsOK'
<1>0. TypeOK /\ EvaluationsOK
  BY DEF IInv
<1>1. ASSUME NEW r \in Request, Count(r) PROVE EvaluationsOK'
  <2>1. UNCHANGED <<turn, eval>> /\ req[r].pc = "ready"
    BY <1>1 DEF Count, CountAs
  <2>2. Becomes(r, "counted", req[r].answer, Cardinality(Rows), req[r].prior)
    BY <1>1, <2>1, CountFacts, CountAsFacts DEF IInv
  <2>3. Rows' = Rows
    BY <2>1 DEF Rows
  <2> QED BY <1>0, <2>1, <2>2, <2>3 DEF EvaluationsOK, Becomes, Written
<1>2. ASSUME NEW r \in Request, InsertTurn(r) PROVE EvaluationsOK'
  <2>1. UNCHANGED eval /\ Moves(r, "inserted")
    BY <1>0, <1>2, MovesFacts DEF InsertTurn
  <2>2. Rows' = Rows \cup {req[r].sub}
    BY <1>2, InsertRows
  <2> QED BY <1>0, <2>1, <2>2 DEF EvaluationsOK, Moves, Becomes, Written
<1>3. CASE Proceeds
  <2>1. Rows' = Rows
    BY <1>3 DEF Rows, Proceeds
  <2>2. \A r \in Request : Written(r)' => req'[r].sub \in Rows
    BY <1>0, <1>3 DEF Proceeds, Stays, EvaluationsOK
  <2>3. CASE UNCHANGED eval
    BY <1>0, <2>1, <2>2, <2>3 DEF EvaluationsOK
  <2>4. ASSUME NEW r \in Request, Stores(r) PROVE EvaluationsOK'
    <3>1. PICK row : RowBecomes(req[r].sub, row) /\ row.state # "none"
      BY <2>4 DEF Stores
    <3>2. Written(r)
      BY <2>4 DEF Stores, Evaluating, Written, IInv, RequestsOK
    <3>3. req[r].sub \in Rows /\ req[r].sub \in SubTurn
      BY <1>0, <3>2 DEF EvaluationsOK, TypeOK, SubmitState
    <3> QED BY <1>0, <2>1, <2>2, <3>1, <3>3 DEF EvaluationsOK, RowBecomes
  <2> QED BY <1>3, <2>3, <2>4 DEF Proceeds
<1> QED BY <1>1, <1>2, <1>3, StepKinds DEF IInv

-----------------------------------------------------------------------------
(***************************************************************************)
(* Who takes an index that is taken.                                       *)
(***************************************************************************)
\* A row once replaced stays replaced.
LEMMA ReplacedStays ==
  ASSUME IInv, [Next]_vars
  PROVE  Replaced \subseteq Replaced'
<1> SUFFICES ASSUME NEW i \in Replaced PROVE i \in Replaced'
  OBVIOUS
<1>1. PICK q \in overtaken : req[q].pc # "counted" /\ req[q].sub = i
  BY DEF Replaced
<1>2. q \in Request /\ req[q].pc \notin Early
  BY <1>1 DEF IInv, TypeOK, IndexOK
<1>3. ASSUME NEW r \in Request, Count(r) PROVE i \in Replaced'
  <2>1. UNCHANGED overtaken /\ req[r].pc = "ready"
    BY <1>3 DEF Count, CountAs
  <2>2. req'[q] = req[q]
    BY <1>2, <1>3, <2>1 DEF Count, CountAs, IInv, TypeOK, Early
  <2> QED BY <1>1, <2>1, <2>2 DEF Replaced
<1>4. ASSUME NEW r \in Request, InsertTurn(r) PROVE i \in Replaced'
  <2>1. overtaken \subseteq overtaken' /\ req[r].pc = "counted" /\ req'[q] = req[q]
    BY <1>1, <1>2, <1>4 DEF InsertTurn, IInv, TypeOK
  <2> QED BY <1>1, <2>1 DEF Replaced
<1>5. CASE Proceeds
  BY <1>1, <1>2, <1>5 DEF Proceeds, Releases, Stays, Replaced
<1> QED BY <1>3, <1>4, <1>5, StepKinds DEF IInv

\* The count finds an index that nobody has written.
LEMMA IndexCount ==
  ASSUME IInv, [Next]_vars, NEW r \in Request, Count(r)
  PROVE  IndexOK'
<1>0. TypeOK /\ RequestsOK /\ EvaluationsOK /\ IndexOK
  BY DEF IInv
<1>1. UNCHANGED <<turn, eval, bg, overtaken>> /\ req[r].pc = "ready" /\ bg[r].pc = "none"
  BY <1>0 DEF Count, CountAs, RequestsOK
<1>2. Becomes(r, "counted", req[r].answer, Cardinality(Rows), req[r].prior) /\ Cardinality(Rows) \notin Rows
  BY <1>1, CountFacts, CountAsFacts DEF IInv
<1>3. Rows' = Rows
  BY <1>1 DEF Rows
<1>4. \A q \in Request : req'[q].pc = "counted" /\ req'[q].sub \in Rows' => q \in overtaken'
  BY <1>0, <1>1, <1>2, <1>3 DEF IndexOK, Becomes
<1>5. \A q \in Request : Written(q)' \/ Evaluating(q)' => q # r /\ req'[q] = req[q] /\ bg'[q] = bg[q]
  BY <1>1, <1>2 DEF Written, Evaluating, Becomes
<1>6. \A q \in Request : (Written(q)' => Written(q)) /\ (Evaluating(q)' => Evaluating(q))
  BY <1>5 DEF Written, Evaluating
<1>7. \A q \in Request : req[q].sub \in SubTurn
  BY <1>0 DEF TypeOK, SubmitState
<1>8. \A q \in Request : Written(q)' => turn'[req'[q].sub] = req'[q].answer \/ req'[q].sub \in Replaced'
  BY <1>0, <1>1, <1>5, <1>6, <1>7, ReplacedStays DEF IndexOK
<1>9. \A q, p \in Request : Written(q)' /\ Written(p)' /\ req'[q].sub = req'[p].sub /\ q # p => req'[q].sub \in Replaced'
  BY <1>0, <1>5, <1>6, <1>7, ReplacedStays DEF IndexOK
<1>10. \A q \in Request : Evaluating(q)' => eval'[req'[q].sub].shown = {} \/ req'[q].sub \in Replaced'
  BY <1>0, <1>1, <1>5, <1>6, <1>7, ReplacedStays DEF IndexOK
<1>11. EvaluationsFitAnswers'
  BY <1>0, <1>1, ReplacedStays DEF IndexOK, EvaluationsFitAnswers
<1>12. \A q \in overtaken' : req'[q].pc \notin Early
  BY <1>0, <1>1, <1>2 DEF IndexOK, Becomes, Early, TypeOK
<1> QED BY <1>4, <1>8, <1>9, <1>10, <1>11, <1>12 DEF IndexOK

\* An insert at an index that is taken is of a submit that was overtaken.
LEMMA InsertReplaces ==
  ASSUME IInv, NEW r \in Request, InsertTurn(r), req[r].sub \in Rows
  PROVE  req[r].sub \in Replaced'
<1>1. r \in overtaken /\ overtaken \subseteq overtaken'
  BY DEF InsertTurn, IInv, IndexOK
<1>2. Moves(r, "inserted")
  BY MovesFacts DEF InsertTurn, IInv
<1> QED BY <1>1, <1>2 DEF Replaced, Moves, Becomes

LEMMA IndexInsert ==
  ASSUME IInv, [Next]_vars, NEW r \in Request, InsertTurn(r)
  PROVE  IndexOK'
<1>0. PICK i \in SubTurn : i = req[r].sub /\ TypeOK /\ RequestsOK /\ EvaluationsOK /\ IndexOK
  BY DEF IInv, TypeOK, SubmitState
<1>1. /\ UNCHANGED <<eval, bg>> /\ req[r].pc = "counted" /\ bg[r].pc = "none" /\ Moves(r, "inserted")
      /\ overtaken' = overtaken \cup {q \in Request \ {r} : req[q].pc = "counted" /\ req[q].sub = i}
  BY <1>0, MovesFacts DEF InsertTurn, RequestsOK
<1>2. Rows' = Rows \cup {i} /\ turn' = [turn EXCEPT ![i] = req[r].answer]
  BY <1>0, InsertRows
<1>3. turn'[i] = req[r].answer /\ \A j \in SubTurn \ {i} : turn'[j] = turn[j]
  BY <1>0, <1>2 DEF TypeOK
<1>4. \A q \in Request : req'[q].sub = req[q].sub /\ req'[q].answer = req[q].answer /\ req[q].sub \in SubTurn
  BY <1>0, <1>1 DEF Moves, Becomes, TypeOK, SubmitState
<1>5. \A q \in Request \ {r} : req'[q] = req[q] /\ (Written(q)' => Written(q)) /\ (Evaluating(q)' => Evaluating(q))
  BY <1>1 DEF Moves, Becomes, Written, Evaluating
<1>6. i \in Rows => i \in Replaced'
  BY <1>0, <1>4, InsertReplaces
<1>7. \A q \in Request \ {r} : Written(q) /\ req[q].sub = i => i \in Replaced'
  BY <1>0, <1>6 DEF EvaluationsOK
<1>8. \A q \in Request : req'[q].pc = "counted" /\ req'[q].sub \in Rows' => q \in overtaken'
  <2> SUFFICES ASSUME NEW q \in Request, req'[q].pc = "counted", req'[q].sub \in Rows'
               PROVE  q \in overtaken'
    OBVIOUS
  <2>1. q # r /\ req[q].pc = "counted"
    BY <1>1 DEF Moves, Becomes
  <2> QED BY <1>0, <1>1, <1>2, <1>4, <2>1 DEF IndexOK
<1>9. \A q \in Request : Written(q)' => turn'[req'[q].sub] = req'[q].answer \/ req'[q].sub \in Replaced'
  <2> SUFFICES ASSUME NEW q \in Request, Written(q)', req[q].sub \notin Replaced'
               PROVE  turn'[req[q].sub] = req[q].answer
    BY <1>4
  <2>1. CASE q = r
    BY <1>0, <1>3, <2>1
  <2>2. CASE q # r
    <3>1. Written(q) /\ req[q].sub # i
      BY <1>5, <1>7, <2>2
    <3>2. req[q].sub \notin Replaced
      BY <1>4, ReplacedStays
    <3> QED BY <1>0, <1>3, <1>4, <3>1, <3>2 DEF IndexOK
  <2> QED BY <2>1, <2>2
<1>10. \A q, p \in Request : Written(q)' /\ Written(p)' /\ req'[q].sub = req'[p].sub /\ q # p => req'[q].sub \in Replaced'
  <2> SUFFICES ASSUME NEW q \in Request, NEW p \in Request, Written(q)', Written(p)', req[q].sub = req[p].sub, q # p
               PROVE  req[q].sub \in Replaced'
    BY <1>4
  <2>1. CASE q = r
    BY <1>0, <1>5, <1>7, <2>1
  <2>2. CASE p = r
    BY <1>0, <1>5, <1>7, <2>2
  <2>3. CASE q # r /\ p # r
    BY <1>0, <1>4, <1>5, <2>3, ReplacedStays DEF IndexOK
  <2> QED BY <2>1, <2>2, <2>3
<1>11. \A q \in Request : Evaluating(q)' => eval'[req'[q].sub].shown = {} \/ req'[q].sub \in Replaced'
  <2> SUFFICES ASSUME NEW q \in Request, Evaluating(q)', req[q].sub \notin Replaced'
               PROVE  eval[req[q].sub].shown = {}
    BY <1>1, <1>4
  <2>1. CASE q = r
    BY <1>0, <1>6, <2>1 DEF EvaluationsOK
  <2>2. CASE q # r
    BY <1>0, <1>4, <1>5, <2>2, ReplacedStays DEF IndexOK
  <2> QED BY <2>1, <2>2
<1>12. EvaluationsFitAnswers'
  <2> SUFFICES ASSUME NEW j \in SubTurn, eval[j].state # "none", j \notin Replaced'
               PROVE  eval[j].of = turn'[j]
    BY <1>1 DEF EvaluationsFitAnswers
  <2>1. j # i
    BY <1>0, <1>6 DEF EvaluationsOK
  <2> QED BY <1>0, <1>3, <2>1, ReplacedStays DEF IndexOK, EvaluationsFitAnswers
<1>13. \A q \in overtaken' : req'[q].pc \notin Early
  BY <1>0, <1>1 DEF IndexOK, Moves, Becomes, Early, TypeOK
<1> QED BY <1>8, <1>9, <1>10, <1>11, <1>12, <1>13 DEF IndexOK

\* A store is of the row's one submit, or of a row that was replaced.
LEMMA IndexProceeds ==
  ASSUME IInv, [Next]_vars, Proceeds
  PROVE  IndexOK'
<1>0. TypeOK /\ RequestsOK /\ EvaluationsOK /\ IndexOK
  BY DEF IInv
<1>1. /\ Rows' = Rows /\ \A q \in Request : Stays(q) /\ req[q].sub \in SubTurn
      /\ UNCHANGED turn /\ Releases
  BY <1>0 DEF Proceeds, Rows, TypeOK, SubmitState
<1>2. \A q \in Request : req'[q].pc = "counted" /\ req'[q].sub \in Rows' => q \in overtaken'
  BY <1>0, <1>1 DEF IndexOK, Releases, Stays
<1>3. \A q \in Request : Written(q)' => turn'[req'[q].sub] = req'[q].answer \/ req'[q].sub \in Replaced'
  BY <1>0, <1>1, ReplacedStays DEF IndexOK, Stays
<1>4. \A q, p \in Request : Written(q)' /\ Written(p)' /\ req'[q].sub = req'[p].sub /\ q # p => req'[q].sub \in Replaced'
  BY <1>0, <1>1, ReplacedStays DEF IndexOK, Stays
<1>5. \A q \in overtaken' : req'[q].pc \notin Early
  BY <1>0, <1>1 DEF IndexOK, Releases, Stays, TypeOK
<1>6. /\ \A q \in Request : Evaluating(q)' => eval'[req'[q].sub].shown = {} \/ req'[q].sub \in Replaced'
      /\ EvaluationsFitAnswers'
  <2>1. CASE UNCHANGED eval
    BY <1>0, <1>1, <2>1, ReplacedStays DEF IndexOK, Stays, EvaluationsFitAnswers
  <2>2. ASSUME NEW r \in Request, Stores(r)
        PROVE  /\ \A q \in Request : Evaluating(q)' => eval'[req'[q].sub].shown = {} \/ req'[q].sub \in Replaced'
               /\ EvaluationsFitAnswers'
    <3>0. PICK i \in SubTurn : i = req[r].sub
      BY <1>1
    <3>1. PICK row : /\ RowBecomes(i, row) /\ row.of = req[r].answer
                     /\ Evaluating(r)' => row.shown = eval[i].shown
      BY <2>2, <3>0 DEF Stores
    <3>2. Evaluating(r) /\ Written(r)
      BY <2>2 DEF Stores, Evaluating, Written, IInv, RequestsOK
    <3>3. \A q \in Request : Evaluating(q)' => Written(q)
      BY <1>0, <1>1 DEF Stays, Evaluating, Written, RequestsOK
    <3>4. i \in SubTurn /\ eval'[i] = row /\ \A j \in SubTurn \ {i} : eval'[j] = eval[j]
      BY <3>0, <3>1 DEF RowBecomes
    <3>5. ASSUME NEW q \in Request, Evaluating(q)', req[q].sub \notin Replaced'
          PROVE  eval'[req[q].sub].shown = {}
      <4>1. req[q].sub \notin Replaced /\ Evaluating(q) /\ req[q].sub \in SubTurn
        BY <1>1, <3>5, ReplacedStays DEF Stays
      <4>2. eval[req[q].sub].shown = {}
        BY <1>0, <4>1 DEF IndexOK
      <4>3. CASE q = r
        BY <3>1, <3>4, <3>0, <3>5, <4>2, <4>3
      <4>4. CASE q # r
        <5>1. req[q].sub # i
          BY <1>0, <3>2, <3>3, <3>5, <3>0, <4>1, <4>4 DEF IndexOK
        <5> QED BY <3>4, <4>1, <4>2, <5>1
      <4> QED BY <4>3, <4>4
    <3>6. ASSUME NEW j \in SubTurn, eval'[j].state # "none", j \notin Replaced'
          PROVE  eval'[j].of = turn[j]
      <4>1. j \notin Replaced
        BY <3>6, ReplacedStays
      <4>2. CASE j = i
        BY <1>0, <3>1, <3>2, <3>4, <3>0, <4>1, <4>2 DEF IndexOK
      <4>3. CASE j # i
        BY <1>0, <3>4, <3>6, <4>1, <4>3 DEF IndexOK, EvaluationsFitAnswers
      <4> QED BY <4>2, <4>3
    <3> QED BY <1>1, <3>5, <3>6 DEF Stays, EvaluationsFitAnswers
  <2> QED BY <2>1, <2>2 DEF Proceeds
<1> QED BY <1>2, <1>3, <1>4, <1>5, <1>6 DEF IndexOK

LEMMA IndexStep ==
  ASSUME IInv, [Next]_vars
  PROVE  IndexOK'
BY StepKinds, IndexCount, IndexInsert, IndexProceeds DEF IInv

-----------------------------------------------------------------------------
(***************************************************************************)
(* What is shown, and what the aggregate makes of it: a scoring stores, a  *)
(* scoring reads, or nothing that is shown changes.                        *)
(***************************************************************************)
\* q scores after the step only if it did before, with what it had read
Scores(q) == Scoring(q)' => Scoring(q) /\ req'[q].sub = req[q].sub /\ Prior(q)' = Prior(q)

Shows ==
  /\ \A i \in SubTurn : eval'[i].shown = eval[i].shown
  /\ UNCHANGED <<agg, outrun, torn>>
  /\ \A q \in Request : Scores(q)

Reads(r) ==
  /\ UNCHANGED <<eval, agg, outrun, torn>>
  /\ req'[r].sub = req[r].sub /\ Prior(r)' = ShownElsewhere(req[r].sub)
  /\ \A q \in Request \ {r} : Scores(q)

ScoreStored(r, found) ==
  /\ Scoring(r) /\ ~Scoring(r)'
  /\ RowBecomes(req[r].sub, Scored(r, found)) /\ agg' = Prior(r) \cup found
  /\ Outruns(r)
  /\ \A q \in Request \ {r} : Scores(q)

\* The requests and threads of the others.
LEMMA ScoresFrame ==
  ASSUME NEW q \in Request, req'[q] = req[q], bg'[q] = bg[q]
  PROVE  Scores(q)
BY DEF Scores, Scoring, Prior

LEMMA NoScoresFrame ==
  ASSUME NEW q \in Request, req'[q].pc # "read", bg'[q].pc # "read"
  PROVE  Scores(q)
BY DEF Scores, Scoring

LEMMA AggregateSubmit ==
  ASSUME IInv, NEW r \in Request, SubmitStep(r)
  PROVE  Shows \/ Reads(r) \/ \E found : ScoreStored(r, found)
<1>0. TypeOK /\ RequestsOK /\ EvaluationsOK
  BY DEF IInv
<1>1. CASE ReadPath(r)
  <2>1. UNCHANGED <<eval, agg, bg, outrun, torn>> /\ req[r].pc = "begun" /\ bg[r].pc = "none" /\ Moves(r, "ready")
    BY <1>0, <1>1, ReadPathFacts DEF ReadPath, RequestsOK
  <2> QED BY <2>1, ScoresFrame, NoScoresFrame DEF Moves, Becomes, Shows
<1>2. CASE Count(r)
  <2>1. UNCHANGED <<eval, agg, bg, outrun, torn>> /\ req[r].pc = "ready" /\ bg[r].pc = "none"
    BY <1>0, <1>2 DEF Count, CountAs, RequestsOK
  <2>2. Becomes(r, "counted", req[r].answer, Cardinality(Rows), req[r].prior)
    BY <1>2, <2>1, CountFacts, CountAsFacts DEF IInv
  <2> QED BY <2>1, <2>2, ScoresFrame, NoScoresFrame DEF Becomes, Shows
<1>3. CASE InsertTurn(r)
  <2>1. UNCHANGED <<eval, agg, bg, outrun, torn>> /\ req[r].pc = "counted" /\ bg[r].pc = "none" /\ Moves(r, "inserted")
    BY <1>0, <1>3, MovesFacts DEF InsertTurn, RequestsOK
  <2> QED BY <2>1, ScoresFrame, NoScoresFrame DEF Moves, Becomes, Shows
<1>4. CASE StoreLegacy(r)
  <2> DEFINE row == [eval[req[r].sub] EXCEPT !.state = "legacy", !.of = req[r].answer]
  <2>1. UNCHANGED <<agg, bg, outrun, torn>> /\ req[r].pc = "inserted" /\ bg[r].pc = "none"
    BY <1>0, <1>4 DEF StoreLegacy, RequestsOK
  <2>2. Moves(r, "done") /\ RowBecomes(req[r].sub, row)
    BY <1>0, <1>4, StoreLegacyFacts
  <2>3. row.shown = eval[req[r].sub].shown
    BY <1>0 DEF TypeOK, SubmitState, Evaluation
  <2> HIDE DEF row
  <2>4. \A i \in SubTurn : eval'[i].shown = eval[i].shown
    BY <2>2, <2>3 DEF RowBecomes
  <2> QED BY <2>1, <2>2, <2>4, ScoresFrame, NoScoresFrame DEF Moves, Becomes, Shows
<1>5. CASE ReadPrior(r)
  <2>1. UNCHANGED <<eval, agg, bg, outrun, torn>>
    BY <1>5 DEF ReadPrior
  <2>2. Becomes(r, "read", req[r].answer, req[r].sub, ShownElsewhere(req[r].sub))
    BY <1>0, <1>5, ReadPriorFacts
  <2> QED BY <2>1, <2>2, ScoresFrame DEF Becomes, Reads, Prior
<1>6. CASE StoreScore(r)
  <2>1. UNCHANGED bg /\ Outruns(r) /\ req[r].pc = "read" /\ bg[r].pc = "none"
    BY <1>0, <1>6 DEF StoreScore, StoreWith, RequestsOK
  <2>2. PICK found \in SUBSET Node : /\ Moves(r, "done") /\ RowBecomes(req[r].sub, Scored(r, found))
                                     /\ agg' = req[r].prior \cup found
    BY <1>0, <1>6, StoreScoreFacts
  <2>3. Scoring(r) /\ ~Scoring(r)' /\ Prior(r) = req[r].prior
    BY <2>1, <2>2 DEF Scoring, Prior, Moves, Becomes
  <2> QED BY <2>1, <2>2, <2>3, ScoresFrame DEF Moves, Becomes, ScoreStored
<1>7. CASE AggregateFails(r)
  <2>1. UNCHANGED <<eval, agg, bg, outrun, torn>> /\ req[r].pc = "read" /\ bg[r].pc = "none" /\ Moves(r, "done")
    BY <1>0, <1>7, MovesFacts DEF AggregateFails, RequestsOK
  <2> QED BY <2>1, ScoresFrame, NoScoresFrame DEF Moves, Becomes, Shows
<1>8. CASE SubmitFails(r)
  <2>1. UNCHANGED <<eval, agg, bg, outrun, torn>> /\ req[r].pc # "done" /\ bg[r].pc = "none" /\ Moves(r, "rejected")
    BY <1>0, <1>8, MovesFacts DEF SubmitFails, RequestsOK
  <2> QED BY <2>1, ScoresFrame, NoScoresFrame DEF Moves, Becomes, Shows
<1>9. CASE StorePrelim(r)
  <2>1. UNCHANGED <<agg, outrun, torn>>
    BY <1>9 DEF StorePrelim
  <2>2. Moves(r, "done") /\ RowBecomes(req[r].sub, PrelimRow(r)) /\ ThreadBecomes(r, "running", bg[r].prior)
    BY <1>0, <1>9, StorePrelimFacts
  <2>3. \A i \in SubTurn : eval'[i].shown = eval[i].shown
    BY <1>0, <2>2, PrelimShown DEF RowBecomes
  <2> QED BY <2>1, <2>2, <2>3, ScoresFrame, NoScoresFrame DEF Moves, Becomes, ThreadBecomes, Shows
<1> QED BY <1>1, <1>2, <1>3, <1>4, <1>5, <1>6, <1>7, <1>8, <1>9 DEF SubmitStep

LEMMA AggregateThread ==
  ASSUME IInv, NEW r \in Request, BgStep(r)
  PROVE  Shows \/ Reads(r) \/ \E found : ScoreStored(r, found)
<1>0. TypeOK /\ RequestsOK
  BY DEF IInv
<1>1. UNCHANGED req /\ bg[r].pc \in {"running", "read"} /\ req[r].pc = "done"
  BY <1>0 DEF BgStep, BgRead, BgStore, BgFail, RequestsOK
<1>2. CASE BgRead(r)
  <2>1. UNCHANGED <<eval, agg, outrun, torn>> /\ ThreadBecomes(r, "read", ShownElsewhere(req[r].sub))
    BY <1>0, <1>2, BgReadFacts DEF BgRead
  <2> QED BY <1>1, <2>1, ScoresFrame DEF ThreadBecomes, Reads, Prior
<1>3. CASE BgStore(r)
  <2> DEFINE found == Demonstrates[req[r].answer]
  <2>1. Outruns(r) /\ bg[r].pc = "read"
    BY <1>3 DEF BgStore
  <2>2. /\ ThreadBecomes(r, "ended", bg[r].prior) /\ RowBecomes(req[r].sub, Scored(r, found))
        /\ agg' = bg[r].prior \cup found
    BY <1>0, <1>3, BgStoreFacts
  <2> HIDE DEF found
  <2>3. Scoring(r) /\ ~Scoring(r)' /\ Prior(r) = bg[r].prior
    BY <1>1, <2>1, <2>2 DEF Scoring, Prior, ThreadBecomes
  <2> QED BY <1>1, <2>1, <2>2, <2>3, ScoresFrame DEF ThreadBecomes, ScoreStored
<1>4. CASE BgFail(r)
  <2>1. UNCHANGED <<eval, agg, outrun, torn>> /\ ThreadBecomes(r, "ended", bg[r].prior)
    BY <1>0, <1>4, BgFailFacts DEF BgFail
  <2> QED BY <1>1, <2>1, ScoresFrame, NoScoresFrame DEF ThreadBecomes, Shows
<1> QED BY <1>2, <1>3, <1>4 DEF BgStep

LEMMA AggregateKinds ==
  ASSUME IInv, [Next]_vars
  PROVE  Shows \/ \E r \in Request : Reads(r) \/ \E found : ScoreStored(r, found)
<1>1. ASSUME NEW r \in Request, NEW a \in Answer, Begin(r, a) PROVE Shows
  <2>1. Becomes(r, IF session = "active" THEN "begun" ELSE "rejected", a, req[r].sub, req[r].prior)
    BY <1>1, BeginFacts DEF IInv
  <2>2. UNCHANGED <<eval, agg, bg, outrun, torn>> /\ bg[r].pc = "none"
    BY <1>1 DEF Begin, IInv, RequestsOK
  <2> QED BY <2>1, <2>2, ScoresFrame, NoScoresFrame DEF Becomes, Shows
<1>2. CASE UNCHANGED <<eval, agg, req, bg, outrun, torn>>
  BY <1>2, ScoresFrame DEF Shows
<1> QED BY <1>1, <1>2, AggregateSubmit, AggregateThread DEF Next, CompleteSession, SwitchMode, PathLands, vars

\* What a store makes of what is shown, in all and elsewhere.
LEMMA StoredFacts ==
  ASSUME IInv, NEW r \in Request, NEW found, ScoreStored(r, found)
  PROVE  /\ Covered' = ShownElsewhere(req[r].sub) \cup found
         /\ \A i \in SubTurn : i = req[r].sub => ShownElsewhere(i)' = ShownElsewhere(i)
         /\ req[r].sub \notin Replaced => /\ \A i \in SubTurn : eval[i].shown \subseteq eval'[i].shown
                                     /\ \A i \in SubTurn : ShownElsewhere(i) \subseteq ShownElsewhere(i)'
                                     /\ Covered \subseteq Covered'
<1>0. PICK i \in SubTurn : i = req[r].sub
  BY DEF IInv, TypeOK, SubmitState
<1>1. i \in SubTurn /\ eval'[i].shown = found /\ \A j \in SubTurn \ {i} : eval'[j] = eval[j]
  BY <1>0 DEF ScoreStored, RowBecomes, Scored, IInv, TypeOK, SubmitState
<1>2. i \notin Replaced => eval[i].shown = {}
  BY <1>0 DEF ScoreStored, Scoring, Evaluating, IInv, IndexOK
<1>3. Covered' = ShownElsewhere(i) \cup found
  BY <1>1 DEF Covered, ShownElsewhere
<1>4. ShownElsewhere(i)' = ShownElsewhere(i)
  BY <1>1 DEF ShownElsewhere
<1>5. i \notin Replaced => \A j \in SubTurn : eval[j].shown \subseteq eval'[j].shown
  BY <1>1, <1>2
<1>6. i \notin Replaced => \A j \in SubTurn : ShownElsewhere(j) \subseteq ShownElsewhere(j)'
  BY <1>5 DEF ShownElsewhere
<1>7. i \notin Replaced => Covered \subseteq Covered'
  BY <1>5 DEF Covered
<1> QED BY <1>0, <1>3, <1>4, <1>5, <1>6, <1>7

LEMMA AggregateStep ==
  ASSUME IInv, [Next]_vars
  PROVE  AggregateOK'
<1>0. /\ Fresh /\ AggregateIsUnion /\ (Undisturbed => Bounded /\ agg \subseteq Covered)
      /\ \A q \in Request : req[q].sub \in SubTurn
  BY DEF IInv, TypeOK, SubmitState, AggregateOK
<1>1. Undisturbed' => Undisturbed
  BY ReplacedStays DEF Undisturbed
<1>2. CASE Shows
  <2>1. Covered' = Covered
    BY <1>2 DEF Shows, Covered
  <2>2. \A i \in SubTurn : ShownElsewhere(i)' = ShownElsewhere(i)
    BY <1>2 DEF Shows, ShownElsewhere
  <2>3. Fresh'
    BY <1>0, <1>2, <2>2 DEF Shows, Scores, Fresh
  <2>4. Bounded => Bounded'
    BY <1>0, <1>2, <2>2 DEF Shows, Scores, Bounded
  <2> QED BY <1>0, <1>1, <1>2, <2>1, <2>3, <2>4 DEF Shows, AggregateIsUnion, AggregateOK
<1>3. ASSUME NEW r \in Request, Reads(r) PROVE AggregateOK'
  <2>1. Covered' = Covered
    BY <1>3 DEF Reads, Covered
  <2>2. \A i \in SubTurn : ShownElsewhere(i)' = ShownElsewhere(i)
    BY <1>3 DEF Reads, ShownElsewhere
  <2>3. Fresh'
    BY <1>0, <1>3, <2>2 DEF Reads, Scores, Fresh
  <2>4. Bounded => Bounded'
    BY <1>0, <1>3, <2>2 DEF Reads, Scores, Bounded
  <2> QED BY <1>0, <1>1, <1>3, <2>1, <2>3, <2>4 DEF Reads, AggregateIsUnion, AggregateOK
<1>4. ASSUME NEW r \in Request, NEW found, ScoreStored(r, found) PROVE AggregateOK'
  <2>1. /\ Scoring(r) /\ ~Scoring(r)' /\ agg' = Prior(r) \cup found
        /\ outrun' = outrun \cup {q \in Request : Scoring(q) /\ req[q].sub # req[r].sub}
        /\ torn' = (r \in outrun) /\ \A q \in Request \ {r} : Scores(q)
    BY <1>4 DEF ScoreStored, Outruns
  <2>2. /\ Covered' = ShownElsewhere(req[r].sub) \cup found
        /\ \A i \in SubTurn : i = req[r].sub => ShownElsewhere(i)' = ShownElsewhere(i)
    BY <1>4, StoredFacts
  <2>3. Fresh'
    <3> SUFFICES ASSUME NEW q \in Request, q \notin outrun', Scoring(q)'
                 PROVE  Prior(q)' = ShownElsewhere(req[q].sub)'
      BY DEF Fresh
    <3>1. Scores(q) /\ q \notin outrun /\ req[q].sub = req[r].sub
      BY <2>1 DEF Scores
    <3> QED BY <1>0, <2>2, <3>1 DEF Scores, Fresh
  <2>4. AggregateIsUnion'
    BY <1>0, <2>1, <2>2 DEF AggregateIsUnion, Fresh
  <2>5. ASSUME Undisturbed' PROVE Bounded' /\ agg' \subseteq Covered'
    <3>1. Undisturbed /\ Bounded /\ req[r].sub \notin Replaced
      BY <1>0, <1>1, <2>5 DEF Undisturbed
    <3>2. \A i \in SubTurn : ShownElsewhere(i) \subseteq ShownElsewhere(i)'
      BY <1>4, <3>1, StoredFacts
    <3>3. Bounded'
      BY <1>0, <2>1, <3>1, <3>2 DEF Bounded, Scores
    <3> QED BY <2>1, <2>2, <3>1, <3>3 DEF Bounded
  <2> QED BY <2>3, <2>4, <2>5 DEF AggregateOK
<1> QED BY <1>2, <1>3, <1>4, AggregateKinds

-----------------------------------------------------------------------------
LEMMA NextIInv == IInv /\ [Next]_vars => IInv'
BY TypesStep, RowsStep, EvaluationsStep, IndexStep, AggregateStep DEF IInv

LEMMA SpecIInv == Spec => []IInv
BY InitIInv, NextIInv, PTL DEF Spec

\* Every variable has its type: no submit counts past the last index.
THEOREM TypesCorrect == Spec => []TypeOK
<1>1. IInv => TypeOK
  BY DEF IInv
<1> QED BY <1>1, SpecIInv, PTL

\* submit_answer: the sub-turns of a question are numbered without gaps, however many submits count
\* and insert at once, from however many pages.
THEOREM NumberedWithoutGaps == Spec => []SubTurnsContiguous
<1>1. IInv => SubTurnsContiguous
  BY DEF IInv, RowsOK
<1> QED BY <1>1, SpecIInv, PTL

\* An answer whose submit has succeeded is in the transcript, unless a submit that had counted its
\* index before it was inserted has replaced it.
THEOREM AnswersAreKept == Spec => []AnswersKept
<1>1. IInv => AnswersKept
  BY DEF IInv, IndexOK, AnswersKept, Written
<1> QED BY <1>1, SpecIInv, PTL

\* The transcript is whole.
THEOREM TranscriptIsKept == Spec => []TranscriptKept
<1>1. SubTurnsContiguous /\ AnswersKept => TranscriptKept
  BY DEF TranscriptKept
<1> QED BY <1>1, NumberedWithoutGaps, AnswersAreKept, PTL

\* An evaluation is of the answer its turn holds, unless a second submit has replaced that answer.
THEOREM EvaluationsFit == Spec => []EvaluationsFitAnswers
<1>1. IInv => EvaluationsFitAnswers
  BY DEF IInv, IndexOK
<1> QED BY <1>1, SpecIInv, PTL

\* The aggregate of a question is the union of what its sub-turns show, unless it was last stored by
\* a scoring that another's store fell into.
THEOREM AggregateIsKept == Spec => []AggregateIsUnion
<1>1. IInv => AggregateIsUnion
  BY DEF IInv, AggregateOK
<1> QED BY <1>1, SpecIInv, PTL

\* What is shown is lost only where a row is replaced, and of the aggregate only there or by the store
\* of a scoring that was outrun.
LEMMA NextKeepsCoverage ==
  ASSUME IInv, [Next]_vars
  PROVE  /\ \A i \in SubTurn : eval[i].shown \subseteq eval'[i].shown \/ i \in Replaced
         /\ agg \subseteq agg' \/ torn' \/ Replaced # {}
<1>1. CASE Shows
  BY <1>1 DEF Shows
<1>2. ASSUME NEW r \in Request, Reads(r) PROVE eval' = eval /\ agg' = agg
  BY <1>2 DEF Reads
<1>3. ASSUME NEW r \in Request, NEW found, ScoreStored(r, found)
      PROVE  /\ \A i \in SubTurn : eval[i].shown \subseteq eval'[i].shown \/ i \in Replaced
             /\ agg \subseteq agg' \/ torn' \/ Replaced # {}
  <2>1. req[r].sub \in SubTurn /\ AggregateOK /\ AggregateOK'
    BY AggregateStep DEF IInv, TypeOK, SubmitState
  <2>2. \A i \in SubTurn : eval[i].shown \subseteq eval'[i].shown \/ i \in Replaced
    <3>1. \A i \in SubTurn \ {req[r].sub} : eval'[i] = eval[i]
      BY <1>3 DEF ScoreStored, RowBecomes
    <3> QED BY <1>3, <3>1, StoredFacts
  <2>3. ASSUME ~torn', Replaced = {} PROVE agg \subseteq agg'
    BY <1>3, <2>1, <2>3, StoredFacts DEF AggregateOK, AggregateIsUnion, Undisturbed
  <2> QED BY <2>2, <2>3
<1> QED BY <1>1, <1>2, <1>3, AggregateKinds

\* What a student has demonstrated is never taken back, but where a second submit replaced an answer
\* or a scoring was outrun.
THEOREM CoverageIsKept == Spec => CoverageKept
<1>1. IInv /\ [Next]_vars =>
        [/\ \A i \in SubTurn : eval[i].shown \subseteq eval'[i].shown \/ i \in Replaced
         /\ agg \subseteq agg' \/ torn' \/ Replaced # {}]_vars
  BY NextKeepsCoverage
<1> QED BY <1>1, SpecIInv, PTL DEF Spec, CoverageKept
=============================================================================
