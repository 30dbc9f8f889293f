---------------------------- MODULE GradingProofs ----------------------------
(***************************************************************************)
(* What holds of Grading for every set of sessions, requests and scores: a *)
(* released grade stays released, a release's reply is true, and what a    *)
(* professor entered is kept unless another request overtook it.           *)
(***************************************************************************)
EXTENDS Grading, Integers, TLAPS

(***************************************************************************)
(* The inductive invariant.  What a professor entered must be known to the *)
(* three places a row is in: committed, seen by a request that will write  *)
(* it back, and drafted in an open release; Fits says so of one of them.   *)
(***************************************************************************)
Fits(row, s) ==
  /\ manual[s] # None => row.override /\ row.score = manual[s]
  /\ s \in commented => row.comment

\* A row that is not there has nothing to lose.
Blank(row) == row.status = "none" => row = NoRow

\* A request reads a session, whose grade has not gone since; only an open release has drafts, and they release; what it has
\* listed is released, or will be when it commits.
Sound(q) ==
  /\ Blank(q.seen)
  /\ q.pc = "read" => q.cur \in Session /\ (Graded(q.cur) \/ q.seen.status = "none")
  /\ q.pc = "read" /\ q.cur \notin overtaken => Fits(q.seen, q.cur)
  /\ \A s \in Session : q.draft[s] # NoRow =>
       /\ q.pc \in {"listing", "read"} /\ q.draft[s].status = "released"
       /\ s \notin overtaken => Fits(q.draft[s], s)
  /\ \A s \in q.listed : grade[s].status = "released" \/ q.draft[s] # NoRow

IInv ==
  /\ TypeOK
  /\ \A s \in Session : Blank(grade[s])
  /\ \A s \in Session \ overtaken : Fits(grade[s], s)
  /\ \A r \in Request : Sound(req[r])

-----------------------------------------------------------------------------
\* A quotient by b of less than 100 times b is at most 100.
LEMMA QuotientFacts ==
  ASSUME NEW a \in Nat, NEW b \in Nat, b > 0, a < 100 * b
  PROVE  a \div b \in 0 .. 100
<1> DEFINE d == a \div b
<1>1. d \in Int
  OBVIOUS
<1>2. b * d <= a /\ a < b * d + b
  OBVIOUS
<1> HIDE DEF d
<1>3. d < 100
  <2> SUFFICES ASSUME d >= 100 PROVE FALSE
    BY <1>1
  <2>1. b * d >= b * 100
    BY <1>1
  <2> QED BY <1>1, <1>2, <2>1
<1>4. d >= 0
  <2> SUFFICES ASSUME d <= -1 PROVE FALSE
    BY <1>1
  <2>1. b * d <= b * (-1)
    BY <1>1
  <2> QED BY <1>1, <1>2, <2>1
<1> QED BY <1>1, <1>3, <1>4 DEF d

\* The score the evaluations give is one, whatever they add up to.
LEMMA AutoScoreFacts ==
  ASSUME NEW total \in Total
  PROVE  AutoScore(total) \in Score
<1> DEFINE questions == IF MaxQuestions = 0 THEN 1 ELSE MaxQuestions
<1>1. questions \in Nat /\ questions > 0 /\ total \in Nat
  BY ScoreAssumption
<1>2. AutoScore(total) = IF total >= questions THEN 100 ELSE (100 * total) \div questions
  BY DEF AutoScore
<1> HIDE DEF questions
<1>3. CASE total >= questions
  BY <1>2, <1>3 DEF Score
<1>4. CASE ~(total >= questions)
  <2>1. 100 * total \in Nat /\ 100 * total < 100 * questions
    BY <1>1, <1>4
  <2> QED BY <1>1, <1>2, <1>4, <2>1, QuotientFacts DEF Score
<1> QED BY <1>3, <1>4

\* The rows of the model are rows.
LEMMA RowFacts ==
  /\ NoRow \in Row /\ Blank(NoRow)
  /\ \A status \in {"none", "pending", "released"}, score \in Score, override, comment \in BOOLEAN :
       [status |-> status, score |-> score, override |-> override, comment |-> comment] \in Row
BY DEF NoRow, Row, Score, Blank

\* What an idle request holds.
LEMMA IdleFields ==
  /\ Idle \in RequestState /\ Idle.pc = "idle" /\ Idle.seen = NoRow /\ Idle.listed = {}
  /\ \A s \in Session : Idle.draft[s] = NoRow
BY DEF Idle, RequestState, NoRow, Row, Score

\* A request that has nothing under way is sound, whatever it ended with.
LEMMA IdleFacts ==
  /\ Idle \in RequestState /\ Sound(Idle)
  /\ \A pc \in {"idle", "done", "failed"} :
       [Idle EXCEPT !.pc = pc] \in RequestState /\ Sound([Idle EXCEPT !.pc = pc])
<1>1. Sound(Idle)
  BY IdleFields, RowFacts DEF Sound
<1>2. ASSUME NEW pc \in {"idle", "done", "failed"}
      PROVE  [Idle EXCEPT !.pc = pc] \in RequestState /\ Sound([Idle EXCEPT !.pc = pc])
  <2> DEFINE q == [Idle EXCEPT !.pc = pc]
  <2>1. q \in RequestState
    BY IdleFields DEF RequestState
  <2>2. q.pc = pc /\ q.seen = NoRow /\ q.listed = {} /\ \A s \in Session : q.draft[s] = NoRow
    BY IdleFields DEF RequestState
  <2> HIDE DEF q
  <2>3. Sound(q)
    BY <2>2, RowFacts DEF Sound
  <2> QED BY <2>1, <2>3 DEF q
<1> QED BY <1>1, <1>2, IdleFields

\* A manual score is a score.
LEMMA ManualFacts == \A m \in Manual : m \in Score /\ m # None
BY ScoreAssumption, NoneAssumption DEF Score

LEMMA InitIInv == Init => IInv
<1> SUFFICES ASSUME Init PROVE IInv
  OBVIOUS
<1>1. PICK row \in {NoRow, [NoRow EXCEPT !.status = "pending"]} : grade = [s \in Session |-> row]
  BY DEF Init
<1>2. row \in Row /\ Blank(row)
  <2>1. [NoRow EXCEPT !.status = "pending"] \in Row /\ [NoRow EXCEPT !.status = "pending"].status = "pending"
    BY RowFacts DEF Row
  <2> QED BY <1>1, <2>1, RowFacts DEF Blank
<1>3. TypeOK
  BY <1>1, <1>2, IdleFacts, ScoreAssumption DEF Init, TypeOK
<1> QED BY <1>1, <1>2, <1>3, IdleFacts DEF Init, IInv, Fits

-----------------------------------------------------------------------------
\* A request that changes nothing but itself, and stays sound.
LEMMA RequestStep ==
  ASSUME IInv, NEW r \in Request, NEW q \in RequestState, Sound(q),
         req' = [req EXCEPT ![r] = q],
         UNCHANGED <<completed, evals, grade, manual, commented, overtaken>>
  PROVE  IInv'
<1>1. TypeOK'
  BY DEF IInv, TypeOK
<1>2. \A x \in Request : req'[x] = IF x = r THEN q ELSE req[x]
  BY DEF IInv, TypeOK
<1>3. \A x \in Request : Sound(req'[x])
  BY <1>2 DEF IInv
<1>4. (\A x \in Request : Sound(req[x]))'
  BY <1>3 DEF Sound, Fits, Graded
<1> QED BY <1>1, <1>4 DEF IInv, Fits

\* A failure throws the request's drafts away.
LEMMA FailStep ==
  ASSUME IInv, NEW r \in Request, Fail(r)
  PROVE  IInv'
BY IdleFacts, RequestStep DEF Fail

\* A reading request is sound when what it has read is the row.
LEMMA ReadSound ==
  ASSUME IInv, NEW s \in Session, NEW q \in RequestState, q.seen = grade[s],
         q.pc = "read", q.cur = s,
         \A t \in Session : q.draft[t] # NoRow => q.draft[t].status = "released" /\
                                                   (t \notin overtaken => Fits(q.draft[t], t)),
         \A t \in q.listed : grade[t].status = "released" \/ q.draft[t] # NoRow
  PROVE  Sound(q)
BY DEF IInv, Sound, Graded

LEMMA UpsertReadStep ==
  ASSUME IInv, NEW r \in Request, NEW s \in Session, NEW score \in Manual \cup {None}, NEW comment \in BOOLEAN,
         UpsertRead(r, s, score, comment)
  PROVE  IInv'
<1> DEFINE q == [req[r] EXCEPT !.pc = "read", !.kind = "upsert", !.cur = s, !.seen = grade[s],
                               !.auto = IF Graded(s) THEN 0 ELSE AutoScore(evals[s]),
                               !.score = score, !.comment = comment]
<1>1. req[r] \in RequestState /\ req[r].pc = "idle" /\ Sound(req[r]) /\ grade[s] \in Row /\ evals[s] \in Total
  BY DEF IInv, TypeOK, UpsertRead
<1>2. (IF Graded(s) THEN 0 ELSE AutoScore(evals[s])) \in Score
  BY <1>1, AutoScoreFacts DEF Score
<1>3. /\ q \in RequestState /\ q.pc = "read" /\ q.cur = s /\ q.seen = grade[s]
      /\ q.draft = req[r].draft /\ q.listed = req[r].listed
  BY <1>1, <1>2 DEF RequestState
<1>4. req' = [req EXCEPT ![r] = q]
  BY DEF UpsertRead
<1> HIDE DEF q
<1>5. Sound(q)
  BY <1>1, <1>3, ReadSound DEF Sound
<1> QED BY <1>3, <1>4, <1>5, RequestStep DEF UpsertRead

LEMMA ReleaseBeginStep ==
  ASSUME IInv, NEW r \in Request, ReleaseBegin(r)
  PROVE  IInv'
<1> DEFINE q == [req[r] EXCEPT !.pc = "listing", !.kind = "release", !.todo = completed]
<1>1. req[r] \in RequestState /\ Sound(req[r]) /\ req[r].pc = "idle" /\ completed \in SUBSET Session
  BY DEF IInv, TypeOK, ReleaseBegin
<1>2. /\ q \in RequestState /\ q.pc = "listing" /\ q.seen = req[r].seen
      /\ q.draft = req[r].draft /\ q.listed = req[r].listed
  BY <1>1 DEF RequestState
<1>3. req' = [req EXCEPT ![r] = q]
  BY DEF ReleaseBegin
<1> HIDE DEF q
<1>4. Sound(q)
  BY <1>1, <1>2 DEF Sound
<1> QED BY <1>2, <1>3, <1>4, RequestStep DEF ReleaseBegin

LEMMA ReleaseReadStep ==
  ASSUME IInv, NEW r \in Request, NEW s \in Session, ReleaseRead(r, s)
  PROVE  IInv'
<1>1. /\ req[r] \in RequestState /\ Sound(req[r]) /\ req[r].pc = "listing"
      /\ grade[s] \in Row /\ AutoScore(evals[s]) \in Score
  BY AutoScoreFacts DEF IInv, TypeOK, ReleaseRead
<1>2. CASE grade[s].status = "released"
  <2> DEFINE q == [req[r] EXCEPT !.todo = @ \ {s}, !.listed = @ \cup {s}]
  <2>1. /\ q \in RequestState /\ q.pc = "listing" /\ q.seen = req[r].seen
        /\ q.draft = req[r].draft /\ q.listed = req[r].listed \cup {s}
    BY <1>1 DEF RequestState
  <2>2. req' = [req EXCEPT ![r] = q]
    BY <1>2 DEF ReleaseRead
  <2> HIDE DEF q
  <2>3. Sound(q)
    BY <1>1, <1>2, <2>1 DEF Sound
  <2> QED BY <2>1, <2>2, <2>3, RequestStep DEF ReleaseRead
<1>3. CASE grade[s].status # "released"
  <2> DEFINE q == [req[r] EXCEPT !.todo = @ \ {s}, !.pc = "read", !.cur = s, !.seen = grade[s],
                                 !.auto = AutoScore(evals[s])]
  <2>1. /\ q \in RequestState /\ q.pc = "read" /\ q.cur = s /\ q.seen = grade[s]
        /\ q.draft = req[r].draft /\ q.listed = req[r].listed
    BY <1>1 DEF RequestState
  <2>2. req' = [req EXCEPT ![r] = q]
    BY <1>3 DEF ReleaseRead
  <2> HIDE DEF q
  <2>3. Sound(q)
    BY <1>1, <2>1, ReadSound DEF Sound
  <2> QED BY <2>1, <2>2, <2>3, RequestStep DEF ReleaseRead
<1> QED BY <1>2, <1>3

\* A release drafts a row that releases and that keeps what was entered.
LEMMA DraftStep ==
  ASSUME IInv, NEW r \in Request, NEW row \in Row, row.status = "released",
         req[r].pc = "read", req[r].cur \notin overtaken => Fits(row, req[r].cur),
         Drafted(r, row)
  PROVE  IInv'
<1> DEFINE s == req[r].cur
           q == [req[r] EXCEPT !.pc = "listing", !.cur = None, !.seen = NoRow, !.auto = 0,
                               !.listed = @ \cup {s}, !.draft = [@ EXCEPT ![s] = row]]
<1>1. req[r] \in RequestState /\ Sound(req[r]) /\ s \in Session
  BY DEF IInv, TypeOK, Sound
<1>2. /\ q \in RequestState /\ q.pc = "listing" /\ q.seen = NoRow
      /\ q.draft = [req[r].draft EXCEPT ![s] = row] /\ q.listed = req[r].listed \cup {s}
  <2>1. [req[r].draft EXCEPT ![s] = row] \in [Session -> Row]
    BY <1>1 DEF RequestState
  <2>2. q \in RequestState
    <3>1. NoRow \in Row
      BY RowFacts, Zenon
    <3>2. 0 \in Score
      BY DEF Score
    <3> QED BY <1>1, <2>1, <3>1, <3>2 DEF RequestState
  <2> QED BY <1>1, <2>2 DEF RequestState
<1>3. req' = [req EXCEPT ![r] = q]
  BY Zenon DEF Drafted
<1>4. row # NoRow
  BY DEF NoRow
<1>5. \A t \in Session : q.draft[t] = IF t = s THEN row ELSE req[r].draft[t]
  BY <1>1, <1>2 DEF RequestState
<1> HIDE DEF q, s
<1>6. Sound(q)
  BY <1>1, <1>2, <1>4, <1>5, RowFacts DEF Sound, s
<1> QED BY <1>2, <1>3, <1>6, RequestStep DEF Drafted

LEMMA ReleaseUpdateStep ==
  ASSUME IInv, NEW r \in Request, ReleaseUpdate(r)
  PROVE  IInv'
<1> DEFINE s == req[r].cur
           score == IF req[r].seen.override THEN req[r].seen.score ELSE req[r].auto
<1>1. /\ req[r] \in RequestState /\ Sound(req[r]) /\ req[r].pc = "read"
      /\ s \in Session /\ grade[s] \in Row
  BY DEF IInv, TypeOK, Sound, ReleaseUpdate, ReleaseReady
<1>2. score \in Score
  BY <1>1 DEF RequestState, Row
<1>3. /\ Released(r, score) \in Row /\ Released(r, score).status = "released"
      /\ Released(r, score).score = score /\ Released(r, score).override = grade[s].override
      /\ Released(r, score).comment = req[r].seen.comment
  BY <1>1, <1>2 DEF Released, RequestState, Row
<1>4. s \notin overtaken => Fits(Released(r, score), s)
  BY <1>1, <1>3 DEF IInv, Sound, Fits
<1> QED BY <1>1, <1>3, <1>4, DraftStep DEF ReleaseUpdate

LEMMA ReleaseInsertStep ==
  ASSUME IInv, NEW r \in Request, ReleaseInsert(r)
  PROVE  IInv'
<1> DEFINE s == req[r].cur
           row == [NoRow EXCEPT !.status = "released", !.score = req[r].auto]
<1>1. /\ req[r] \in RequestState /\ Sound(req[r]) /\ req[r].pc = "read" /\ s \in Session
      /\ req[r].seen.status = "none"
  BY DEF IInv, TypeOK, Sound, ReleaseInsert, ReleaseReady
<1>2. CASE Graded(s)
  BY <1>2, FailStep DEF ReleaseInsert
<1>3. CASE ~Graded(s)
  <2>1. /\ row \in Row /\ row.status = "released"
    BY <1>1, RowFacts DEF Row, RequestState
  <2>2. grade[s] = NoRow
    BY <1>1, <1>3 DEF IInv, Blank, Graded
  <2>3. ~NoRow.override /\ ~NoRow.comment
    BY DEF NoRow
  <2>4. s \notin overtaken => Fits(row, s)
    BY <1>1, <2>2, <2>3 DEF IInv, Fits
  <2>5. Drafted(r, row)
    BY <1>3 DEF ReleaseInsert
  <2> HIDE DEF row
  <2> QED BY <1>1, <2>1, <2>4, <2>5, DraftStep
<1> QED BY <1>2, <1>3

-----------------------------------------------------------------------------
\* The row holds the input, and what had been entered before where that is none.
Takes(row, s, score, comment) ==
  /\ score # None => row.override /\ row.score = score
  /\ score = None /\ manual[s] # None => row.override /\ row.score = manual[s]
  /\ comment \/ s \in commented => row.comment

\* A request that has nothing more to commit.
Ended(q) ==
  /\ q.pc = "done" /\ q.seen = NoRow /\ q.listed = {}
  /\ \A t \in Session : q.draft[t] = NoRow

LEMMA EndedFacts == Ended([Idle EXCEPT !.pc = "done"])
BY IdleFacts, IdleFields DEF Ended, RequestState

\* A request that a write to s leaves alone: it does not hold s, and counts as overtaken if it reads s.
Bystander(r, s, others) ==
  /\ req'[r] = req[r] /\ ~Holds(r, s)
  /\ req[r].pc = "read" /\ req[r].cur = s => r \in others

\* A row that is committed for s together with an input: nobody holds s, and whoever is reading
\* s is overtaken when the input is one.
LEMMA WriteStep ==
  ASSUME IInv, NEW s \in Session, NEW row \in Row, NEW score \in Manual \cup {None}, NEW comment \in BOOLEAN,
         NEW others, Input(s, score, comment, others),
         grade' \in [Session -> Row], \A t \in Session : grade'[t] = IF t = s THEN row ELSE grade[t],
         UNCHANGED <<completed, evals>>,
         grade[s].status = "released" => row.status = "released",
         row.status # "none",
         s \notin overtaken => Takes(row, s, score, comment),
         req' \in [Request -> RequestState],
         \A r \in Request : Bystander(r, s, others) \/ Ended(req'[r])
  PROVE  IInv'
<1>1. TypeOK'
  BY DEF IInv, TypeOK, Input
<1>2. \A t \in Session : grade'[t] = IF t = s THEN row ELSE grade[t]
  OBVIOUS
<1>3. \A t \in Session \ {s} : (t \in overtaken' <=> t \in overtaken) /\ (t \in commented' <=> t \in commented)
                               /\ manual'[t] = manual[t]
  BY DEF IInv, TypeOK, Input
<1>4. s \notin overtaken' => /\ s \notin overtaken
                             /\ \/ others = {}
                                \/ manual' = manual /\ commented' = commented
  BY DEF Input
<1>5. s \notin overtaken' => /\ manual'[s] # None => row.override /\ row.score = manual'[s]
                             /\ s \in commented' => row.comment
  BY <1>4 DEF Takes, Input, IInv, TypeOK
<1>6. \A t \in Session : Blank(grade'[t])
  BY <1>2 DEF IInv, Blank
<1>7. \A t \in Session : (t \notin overtaken => Fits(grade[t], t))'
  <2>1. CASE s \notin overtaken'
    BY <1>2, <1>3, <1>5, <2>1 DEF IInv, Fits
  <2>2. CASE s \in overtaken'
    BY <1>2, <1>3, <2>2 DEF IInv, Fits
  <2> QED BY <2>1, <2>2
<1>8. ASSUME NEW r \in Request PROVE Sound(req[r])'
  <2>1. CASE Ended(req'[r])
    BY <2>1, RowFacts DEF Sound, Blank, Ended
  <2>2. CASE Bystander(r, s, others)
    <3>1. Sound(req[r]) /\ ~Holds(r, s)
      BY <2>2 DEF IInv, Bystander
    <3>2. (req[r].pc = "read" /\ req[r].cur \notin overtaken => Fits(req[r].seen, req[r].cur))'
      <4>1. CASE req[r].cur = s
        BY <2>2, <3>1, <4>1, <1>4 DEF Sound, Fits, Bystander
      <4>2. CASE req[r].cur # s
        BY <2>2, <3>1, <4>2, <1>3 DEF Sound, Fits, Bystander
      <4> QED BY <4>1, <4>2
    <3>3. (\A t \in Session : req[r].draft[t] # NoRow =>
            /\ req[r].pc \in {"listing", "read"} /\ req[r].draft[t].status = "released"
            /\ t \notin overtaken => Fits(req[r].draft[t], t))'
      BY <2>2, <3>1, <1>3 DEF Sound, Holds, Fits, Bystander
    <3>4. \A t \in req[r].listed : grade'[t].status = "released" \/ req[r].draft[t] # NoRow
      BY <3>1, <1>2 DEF Sound, IInv, TypeOK, RequestState
    <3>5. req[r].pc = "read" => req[r].cur \in Session /\ (Graded(req[r].cur)' \/ req[r].seen.status = "none")
      BY <2>2, <3>1, <1>2 DEF Sound, Graded, Bystander
    <3> QED BY <2>2, <3>1, <3>2, <3>3, <3>4, <3>5 DEF Sound, Blank, Graded, Bystander
  <2> QED BY <2>1, <2>2
<1> QED BY <1>1, <1>6, <1>7, <1>8 DEF IInv, Blank

\* An upsert commits a row that holds its input.
LEMMA UpsertedStep ==
  ASSUME IInv, NEW r \in Request, NEW row \in Row, UpsertReady(r), Upserted(r, row),
         grade[req[r].cur].status = "released" => row.status = "released", row.status # "none",
         req[r].cur \notin overtaken => Takes(row, req[r].cur, req[r].score, req[r].comment)
  PROVE  IInv'
<1> DEFINE s == req[r].cur
           others == Reading(s) \ {r}
<1>1. /\ req[r] \in RequestState /\ Sound(req[r]) /\ req[r].pc = "read" /\ s \in Session
      /\ ~LockedFor(r, s) /\ req[r].score \in Manual \cup {None} /\ req[r].comment \in BOOLEAN
  BY DEF IInv, TypeOK, Sound, UpsertReady, RequestState
<1>2. /\ grade' = [grade EXCEPT ![s] = row] /\ req' = [req EXCEPT ![r] = [Idle EXCEPT !.pc = "done"]]
      /\ Input(s, req[r].score, req[r].comment, others) /\ UNCHANGED <<completed, evals>>
  BY DEF Upserted
<1>3. grade' \in [Session -> Row] /\ \A t \in Session : grade'[t] = IF t = s THEN row ELSE grade[t]
  BY <1>1, <1>2 DEF IInv, TypeOK
<1>4. req' \in [Request -> RequestState]
  BY <1>2, IdleFacts DEF IInv, TypeOK
<1>5. \A x \in Request : req'[x] = IF x = r THEN [Idle EXCEPT !.pc = "done"] ELSE req[x]
  BY <1>2 DEF IInv, TypeOK
<1>6. \A x \in Request : Bystander(x, s, others) \/ Ended(req'[x])
  BY <1>1, <1>5, EndedFacts DEF LockedFor, Reading, Bystander
<1> HIDE DEF s, others
<1>7. /\ grade[s].status = "released" => row.status = "released"
      /\ s \notin overtaken => Takes(row, s, req[r].score, req[r].comment)
  BY DEF s
<1> QED BY <1>1, <1>2, <1>3, <1>4, <1>6, <1>7, WriteStep

\* The update keeps what it read unless it enters something else.
LEMMA UpsertUpdateStep ==
  ASSUME IInv, NEW r \in Request, UpsertUpdate(r)
  PROVE  IInv'
<1> DEFINE s == req[r].cur
           row == Edited(r, grade[s].status)
<1>1. /\ req[r] \in RequestState /\ Sound(req[r]) /\ req[r].pc = "read" /\ s \in Session
      /\ grade[s] \in Row /\ req[r].seen.status # "none"
  BY DEF IInv, TypeOK, Sound, UpsertUpdate, UpsertReady
<1>2. /\ row \in Row /\ row.status = grade[s].status
      /\ row.score = IF req[r].score # None THEN req[r].score ELSE req[r].seen.score
      /\ row.override = (req[r].score # None \/ req[r].seen.override)
      /\ row.comment = (req[r].comment \/ req[r].seen.comment)
  BY <1>1, ManualFacts DEF Edited, Row, RequestState
<1>3. row.status # "none"
  BY <1>1, <1>2 DEF Sound, Graded
<1>4. s \notin overtaken => Takes(row, s, req[r].score, req[r].comment)
  BY <1>1, <1>2 DEF Sound, Fits, Takes
<1>5. UpsertReady(r) /\ Upserted(r, row)
  BY DEF UpsertUpdate
<1> HIDE DEF row
<1> QED BY <1>2, <1>3, <1>4, <1>5, UpsertedStep

\* The insert meets a row that has appeared, or enters what nobody had entered before.
LEMMA UpsertInsertStep ==
  ASSUME IInv, NEW r \in Request, UpsertInsert(r)
  PROVE  IInv'
<1> DEFINE s == req[r].cur
           row == NewGrade(r)
<1>1. /\ req[r] \in RequestState /\ Sound(req[r]) /\ req[r].pc = "read" /\ s \in Session
      /\ req[r].seen.status = "none"
  BY DEF IInv, TypeOK, Sound, UpsertInsert, UpsertReady
<1>2. CASE Graded(s)
  BY <1>2, FailStep DEF UpsertInsert
<1>3. CASE ~Graded(s)
  <2>1. /\ row \in Row /\ row.status = "pending" /\ row.override = (req[r].score # None)
        /\ row.score = IF req[r].score # None THEN req[r].score ELSE req[r].auto
        /\ row.comment = req[r].comment
    BY <1>1, ManualFacts DEF NewGrade, Row, RequestState
  <2>2. req[r].seen = NoRow /\ ~NoRow.override /\ ~NoRow.comment
    BY <1>1 DEF Sound, Blank, NoRow
  <2>3. s \notin overtaken => Takes(row, s, req[r].score, req[r].comment)
    BY <1>1, <2>1, <2>2 DEF Sound, Fits, Takes
  <2>4. UpsertReady(r) /\ Upserted(r, row)
    BY <1>3 DEF UpsertInsert
  <2>5. grade[s].status # "released"
    BY <1>3 DEF Graded
  <2> HIDE DEF row
  <2> QED BY <2>1, <2>3, <2>4, <2>5, UpsertedStep
<1> QED BY <1>2, <1>3

LEMMA OverrideStep ==
  ASSUME IInv, NEW s \in Session, NEW score \in Manual, Override(s, score)
  PROVE  IInv'
<1> DEFINE row == [grade[s] EXCEPT !.score = score, !.override = TRUE]
<1>1. grade[s] \in Row /\ grade[s].status # "none" /\ \A r \in Request : ~Holds(r, s)
  BY DEF IInv, TypeOK, Override, Graded
<1>2. /\ row \in Row /\ row.status = grade[s].status /\ row.score = score /\ row.override
      /\ row.comment = grade[s].comment
  BY <1>1, ManualFacts DEF Row
<1>3. grade' = [grade EXCEPT ![s] = row] /\ Input(s, score, FALSE, Reading(s)) /\ UNCHANGED <<completed, evals, req>>
  BY DEF Override
<1> HIDE DEF row
<1>4. grade' \in [Session -> Row] /\ \A t \in Session : grade'[t] = IF t = s THEN row ELSE grade[t]
  BY <1>2, <1>3 DEF IInv, TypeOK
<1>5. s \notin overtaken => Takes(row, s, score, FALSE)
  BY <1>2, ManualFacts DEF IInv, Fits, Takes
<1>6. \A x \in Request : Bystander(x, s, Reading(s))
  BY <1>1, <1>3 DEF Reading, Bystander
<1>7. req' \in [Request -> RequestState]
  BY <1>3 DEF IInv, TypeOK
<1>8. score \in Manual \cup {None} /\ FALSE \in BOOLEAN
  OBVIOUS
<1>9. row.status # "none" /\ (grade[s].status = "released" => row.status = "released")
  BY <1>1, <1>2
<1> QED BY <1>2, <1>3, <1>4, <1>5, <1>6, <1>7, <1>8, <1>9, WriteStep

-----------------------------------------------------------------------------
\* The rows of a release come to be seen all at once.
LEMMA ReleaseCommitStep ==
  ASSUME IInv, NEW r \in Request, ReleaseCommit(r)
  PROVE  IInv' /\ \A s \in Session : grade[s].status = "released" => grade'[s].status = "released"
<1> DEFINE q == [Idle EXCEPT !.pc = "done", !.kind = "release", !.listed = req[r].listed]
<1>1. req[r] \in RequestState /\ Sound(req[r])
  BY DEF IInv, TypeOK
<1>2. /\ q \in RequestState /\ q.pc = "done" /\ q.seen = NoRow /\ q.listed = req[r].listed
      /\ \A s \in Session : q.draft[s] = NoRow
  BY <1>1, IdleFields DEF RequestState
<1>3. req' = [req EXCEPT ![r] = q] /\ UNCHANGED <<completed, evals, manual, commented, overtaken>>
  BY DEF ReleaseCommit
<1> HIDE DEF q
<1>4. \A x \in Request : req'[x] = IF x = r THEN q ELSE req[x]
  BY <1>3 DEF IInv, TypeOK
<1>5. \A s \in Session : grade'[s] = IF req[r].draft[s] # NoRow THEN req[r].draft[s] ELSE grade[s]
  BY DEF ReleaseCommit, Holds
<1>6. grade' \in [Session -> Row]
  BY <1>1 DEF ReleaseCommit, Holds, IInv, TypeOK, RequestState
<1>7. \A s \in Session : /\ grade[s].status = "released" \/ req[r].draft[s] # NoRow => grade'[s].status = "released"
                         /\ grade[s].status # "none" => grade'[s].status # "none"
  BY <1>1, <1>5 DEF Sound
<1>8. TypeOK'
  BY <1>2, <1>3, <1>6 DEF IInv, TypeOK
<1>9. \A s \in Session : Blank(grade'[s])
  BY <1>1, <1>5 DEF IInv, Sound, Blank
<1>10. \A s \in Session \ overtaken : Fits(grade'[s], s)
  BY <1>1, <1>5 DEF IInv, Sound
<1>11. ASSUME NEW x \in Request PROVE Sound(req[x])'
  <2>1. CASE x = r
    <3>1. \A s \in q.listed : grade'[s].status = "released"
      BY <1>1, <1>2, <1>7 DEF Sound, RequestState
    <3> QED BY <1>2, <1>4, <2>1, <3>1, RowFacts DEF Sound, Blank
  <2>2. CASE x # r
    <3>1. req'[x] = req[x] /\ req[x] \in RequestState /\ Sound(req[x])
      BY <1>4, <2>2 DEF IInv, TypeOK
    <3>2. \A s \in req[x].listed : grade'[s].status = "released" \/ req[x].draft[s] # NoRow
      BY <1>7, <3>1 DEF Sound, RequestState
    <3>3. req[x].pc = "read" => req[x].cur \in Session /\ (Graded(req[x].cur)' \/ req[x].seen.status = "none")
      BY <1>7, <3>1 DEF Sound, Graded
    <3> QED BY <1>3, <3>1, <3>2, <3>3 DEF Sound, Blank, Fits, Graded
  <2> QED BY <2>1, <2>2
<1> QED BY <1>3, <1>7, <1>8, <1>9, <1>10, <1>11 DEF IInv, Fits, Blank

-----------------------------------------------------------------------------
\* The exam's steps touch no grade.
LEMMA ExamStep ==
  ASSUME IInv, NEW s \in Session, CompleteSession(s) \/ Evaluate(s)
  PROVE  IInv' /\ UNCHANGED grade
<1>1. UNCHANGED <<grade, req, manual, commented, overtaken>>
  BY DEF CompleteSession, Evaluate
<1>2. TypeOK'
  BY DEF IInv, TypeOK, CompleteSession, Evaluate
<1> QED BY <1>1, <1>2 DEF IInv, Fits, Blank, Sound, Graded

\* Every step keeps the invariant.
LEMMA NextIInv == IInv /\ [Next]_vars => IInv'
<1> SUFFICES ASSUME IInv, [Next]_vars PROVE IInv'
  OBVIOUS
<1>1. ASSUME NEW s \in Session, CompleteSession(s) \/ Evaluate(s) PROVE IInv'
  BY <1>1, ExamStep
<1>2. ASSUME NEW s \in Session, NEW m \in Manual, Override(s, m) PROVE IInv'
  BY <1>2, OverrideStep
<1>3. ASSUME NEW r \in Request, NEW s \in Session, NEW m \in Manual \cup {None}, NEW c \in BOOLEAN,
             UpsertRead(r, s, m, c)
      PROVE  IInv'
  BY <1>3, UpsertReadStep
<1>4. ASSUME NEW r \in Request, ReleaseBegin(r) \/ Abort(r) PROVE IInv'
  BY <1>4, ReleaseBeginStep, FailStep DEF Abort
<1>5. ASSUME NEW r \in Request, Step(r) PROVE IInv'
  <2>1. CASE UpsertUpdate(r)
    BY <2>1, UpsertUpdateStep
  <2>2. CASE UpsertInsert(r)
    BY <2>2, UpsertInsertStep
  <2>3. ASSUME NEW s \in Session, ReleaseRead(r, s) PROVE IInv'
    BY <2>3, ReleaseReadStep
  <2>4. CASE ReleaseUpdate(r)
    BY <2>4, ReleaseUpdateStep
  <2>5. CASE ReleaseInsert(r)
    BY <2>5, ReleaseInsertStep
  <2>6. CASE ReleaseCommit(r)
    BY <2>6, ReleaseCommitStep
  <2>7. CASE DeadlockVictim(r)
    BY <2>7, FailStep DEF DeadlockVictim
  <2> QED BY <1>5, <2>1, <2>2, <2>3, <2>4, <2>5, <2>6, <2>7 DEF Step
<1>6. CASE UNCHANGED vars
  BY <1>6 DEF vars, IInv, TypeOK, Fits, Blank, Sound, Graded
<1> QED BY <1>1, <1>2, <1>3, <1>4, <1>5, <1>6 DEF Next

\* What IInv says is what TypeOK and the two properties ask.
LEMMA IInvFacts == IInv => TypeOK /\ InputKeptUnlessOvertaken /\ ReplyIsTrue
<1> SUFFICES ASSUME IInv PROVE InputKeptUnlessOvertaken /\ ReplyIsTrue
  BY DEF IInv
<1>1. InputKeptUnlessOvertaken
  BY DEF IInv, Fits, InputKeptUnlessOvertaken
<1>2. ReplyIsTrue
  <2> SUFFICES ASSUME NEW r \in Request, req[r].pc = "done", NEW s \in req[r].listed
               PROVE  grade[s].status = "released"
    BY DEF ReplyIsTrue
  <2> QED BY DEF IInv, TypeOK, RequestState, Sound
<1> QED BY <1>1, <1>2

\* An upsert writes the status the row has.
LEMMA UpsertKeepsRelease ==
  ASSUME IInv, NEW r \in Request, UpsertUpdate(r) \/ UpsertInsert(r),
         NEW s \in Session, grade[s].status = "released"
  PROVE  grade'[s].status = "released"
<1> DEFINE c == req[r].cur
<1>1. CASE UpsertUpdate(r)
  <2>1. grade' = [grade EXCEPT ![c] = Edited(r, grade[c].status)]
    BY <1>1 DEF UpsertUpdate, Upserted
  <2>2. Edited(r, grade[c].status).status = grade[c].status
    BY DEF Edited
  <2> HIDE DEF c
  <2> QED BY <2>1, <2>2 DEF IInv, TypeOK
<1>2. CASE UpsertInsert(r)
  <2>1. CASE Graded(c)
    BY <1>2, <2>1 DEF UpsertInsert, Fail
  <2>2. CASE ~Graded(c)
    <3>1. grade' = [grade EXCEPT ![c] = NewGrade(r)] /\ c # s
      BY <1>2, <2>2 DEF UpsertInsert, Upserted, Graded
    <3> HIDE DEF c
    <3> QED BY <3>1 DEF IInv, TypeOK
  <2> QED BY <2>1, <2>2
<1> QED BY <1>1, <1>2

\* No step takes a release back.
LEMMA NextKeepsRelease ==
  ASSUME IInv, [Next]_vars, NEW s \in Session, grade[s].status = "released"
  PROVE  grade'[s].status = "released"
<1>1. ASSUME NEW t \in Session, NEW m \in Manual, Override(t, m) PROVE grade'[s].status = "released"
  BY <1>1 DEF IInv, TypeOK, Override, Row
<1>2. ASSUME NEW r \in Request, Step(r) PROVE grade'[s].status = "released"
  <2>1. CASE UpsertUpdate(r) \/ UpsertInsert(r)
    BY <2>1, UpsertKeepsRelease
  <2>2. CASE ReleaseCommit(r)
    BY <2>2, ReleaseCommitStep
  <2>3. CASE ReleaseUpdate(r) \/ ReleaseInsert(r) \/ DeadlockVictim(r)
    BY <2>3 DEF ReleaseUpdate, ReleaseInsert, DeadlockVictim, Drafted, Fail
  <2>4. ASSUME NEW t \in Session, ReleaseRead(r, t) PROVE grade'[s].status = "released"
    BY <2>4 DEF ReleaseRead
  <2> QED BY <1>2, <2>1, <2>2, <2>3, <2>4 DEF Step
<1>3. ASSUME NEW r \in Request, ReleaseBegin(r) \/ Abort(r) PROVE grade'[s].status = "released"
  BY <1>3 DEF ReleaseBegin, Abort, Fail
<1>4. ASSUME NEW r \in Request, NEW t \in Session, NEW m \in Manual \cup {None}, NEW c \in BOOLEAN,
             UpsertRead(r, t, m, c)
      PROVE  grade'[s].status = "released"
  BY <1>4 DEF UpsertRead
<1>5. ASSUME NEW t \in Session, CompleteSession(t) \/ Evaluate(t) PROVE grade'[s].status = "released"
  BY <1>5, ExamStep
<1>6. CASE UNCHANGED vars
  BY <1>6 DEF vars
<1> QED BY <1>1, <1>2, <1>3, <1>4, <1>5, <1>6 DEF Next

-----------------------------------------------------------------------------
\* Every variable has its type: every score is one, whatever the evaluations add up to.
THEOREM TypesCorrect == Spec => []TypeOK
<1>1. Spec => []IInv
  BY InitIInv, NextIInv, PTL DEF Spec
<1> QED BY <1>1, IInvFacts, PTL

\* upsert_grade and release_grades, of any number of professors at once: a score, its mark or a comment
\* is lost only when it was committed while another request was between reading and writing that row.
THEOREM InputIsKept == Spec => []InputKeptUnlessOvertaken
<1>1. Spec => []IInv
  BY InitIInv, NextIInv, PTL DEF Spec
<1> QED BY <1>1, IInvFacts, PTL

\* A release that succeeded has released every session its reply names.
THEOREM RepliesAreTrue == Spec => []ReplyIsTrue
<1>1. Spec => []IInv
  BY InitIInv, NextIInv, PTL DEF Spec
<1> QED BY <1>1, IInvFacts, PTL

\* A released grade stays released, whatever edits that began before the release do.
THEOREM ReleaseIsFinal == Spec => ReleasedIsFinal
<1>1. Spec => []IInv
  BY InitIInv, NextIInv, PTL DEF Spec
<1>2. IInv /\ [Next]_vars => [\A s \in Session : grade[s].status = "released" => grade'[s].status = "released"]_vars
  BY NextKeepsRelease
<1> QED BY <1>1, <1>2, PTL DEF Spec, ReleasedIsFinal
=============================================================================
