---------------------------- MODULE ModulesProofs ----------------------------
(***************************************************************************)
(* The parts that share tables and queues only, for any number of          *)
(* messages, workers, requests, failures and redeliveries.  First the      *)
(* workers behind the queues and the operator's background runs: what is   *)
(* gone from a queue has left its outcome, and a grade stands.  Then the   *)
(* requests of the HTTP app: an admin's verdicts on prompts, schedules and *)
(* deleted courses, rosters and identities, demo links, and deliveries.    *)
(***************************************************************************)
EXTENDS MCModules, Sequences, FiniteSetTheorems, TLAPS

\* A step of the composition is a step of each part, or leaves that part alone.
LEMMA WorkersStep ==
  ASSUME [Next]_<<part, dvars, gvars, qvars, evars, lvars, ovars, cvars, rvars, pvars>>
  PROVE  [G!Next]_gvars /\ [Q!Next]_qvars /\ [E!Next]_evars /\ [O!Next]_ovars
BY DEF Next

-----------------------------------------------------------------------------
(***************************************************************************)
(* Evaluation jobs.  A call past its check knows that its turn has an      *)
(* answer and had no evaluation, and one about to acknowledge has left an  *)
(* outcome or gave the turn up (EOutcome); one that holds a grade knows    *)
(* how far the grade was when it was read (EKnown).                        *)
(***************************************************************************)
EGrade == [status : {"none", "pending", "released"}, counted : SUBSET Turn, override : Score \cup {None}]

EPc == {"idle", "check", "store", "mark", "ack", "override", "compute", "grade", "release"}

EActor == [pc : EPc, on : Turn \cup {None}, worker : BOOLEAN, grade : EGrade]

EType ==
  /\ equeue \in [Turn -> {"none", "visible", "hidden", "deleted"}]
  /\ eact \in [Actor -> EActor]
  /\ grade \in EGrade
  /\ failed \subseteq Turn /\ eval \subseteq Turn
  /\ raced \subseteq Turn /\ elost \subseteq Turn
  /\ entered \in Score \cup {None} /\ ecrossed \in BOOLEAN

EOutcome ==
  \A x \in Actor :
    /\ eact[x].pc \in {"check", "store", "mark", "ack"} => eact[x].on \in Turn
    /\ eact[x].pc \in {"store", "mark"} /\ eact[x].on \in eval => eact[x].on \in raced
    /\ eact[x].pc = "ack" => eact[x].on \in eval \cup failed \cup elost
    /\ eact[x].pc = "store" => eact[x].on \notin Unanswered

EKnown ==
  /\ grade.status = "none" => entered = None
  /\ \A x \in Actor :
       /\ eact[x].pc = "override" => eact[x].grade.status # "none"
       /\ eact[x].pc = "grade" => eact[x].grade.status = "pending"

EInv == EType /\ EOutcome /\ EKnown /\ E!OutcomesFit /\ E!GradeKept

\* what the invariant asks of an actor's state when the grade has status g
EFits(r, g) ==
  /\ r.pc \in {"check", "store", "mark", "ack"} => r.on \in Turn
  /\ r.pc \in {"store", "mark"} /\ r.on \in eval => r.on \in raced
  /\ r.pc = "ack" => r.on \in eval \cup failed \cup elost
  /\ r.pc = "store" => r.on \notin Unanswered
  /\ r.pc = "override" => r.grade.status # "none"
  /\ r.pc = "grade" => r.grade.status = "pending"
  /\ r.grade.status = "released" => ecrossed \/ g = "released"

\* It holds initially.
LEMMA EStart == E!Init => EInv
<1> SUFFICES ASSUME E!Init PROVE EInv
  OBVIOUS
<1>1. E!NoGrade \in EGrade /\ E!NoGrade.status = "none" /\ E!NoGrade.override = None
  BY DEF E!NoGrade, EGrade
<1>2. E!Idle \in EActor /\ E!Idle.pc = "idle" /\ E!Idle.grade = E!NoGrade
  BY <1>1 DEF E!Idle, EActor, EPc
<1> HIDE DEF E!Idle
<1>3. grade = E!NoGrade /\ \A x \in Actor : eact[x] = E!Idle
  BY DEF E!Init
<1>4. EType
  BY <1>1, <1>2 DEF E!Init, EType
<1>5. EOutcome /\ EKnown
  BY <1>1, <1>2, <1>3 DEF E!Init, EOutcome, EKnown
<1>6. E!OutcomesFit /\ E!GradeKept
  BY <1>1, <1>2, <1>3 DEF E!Init, E!OutcomesFit, E!GradeKept
<1> QED BY <1>4, <1>5, <1>6 DEF EInv

\* The queue's steps keep it.
LEMMA EQueue ==
  ASSUME EInv, NEW t \in Turn, E!Send(t) \/ E!VisibilityTimeout(t)
  PROVE  EInv'
BY DEF E!Send, E!VisibilityTimeout, E!history, EInv, EType, EOutcome, EKnown, E!OutcomesFit, E!GradeKept

\* A step of one actor that fits and leaves the tables alone keeps it.
LEMMA ELocal ==
  ASSUME EInv, NEW x \in Actor, NEW r \in EActor, eact' = [eact EXCEPT ![x] = r],
         EFits(r, grade.status),
         \A t \in Turn : equeue'[t] = "deleted" => equeue[t] = "deleted" \/ t \in eval \cup failed \cup elost,
         equeue' \in [Turn -> {"none", "visible", "hidden", "deleted"}],
         UNCHANGED <<failed, eval, grade, raced, elost, entered, ecrossed>>
  PROVE  EInv'
<1>1. EType'
  BY DEF EInv, EType
<1>2. \A y \in Actor : eact'[y] = IF y = x THEN r ELSE eact[y]
  BY DEF EInv, EType
<1>3. EOutcome' /\ EKnown'
  BY <1>2 DEF EInv, EOutcome, EKnown, EFits
<1>4. E!OutcomesFit'
  BY DEF EInv, E!OutcomesFit
<1>5. E!GradeKept'
  BY <1>2 DEF EInv, E!GradeKept, EFits
<1> QED BY <1>1, <1>3, <1>4, <1>5 DEF EInv

\* A call begins.
LEMMA EBegin ==
  ASSUME EInv, NEW x \in Actor, NEW t \in Turn, E!Receive(x, t) \/ E!Evaluate(x, t)
  PROVE  EInv'
<1>1. E!NoGrade \in EGrade /\ E!NoGrade.status = "none"
  BY DEF E!NoGrade, EGrade
<1> DEFINE tool == [E!Idle EXCEPT !.pc = "check", !.on = t]
           message == [E!Idle EXCEPT !.pc = "check", !.on = t, !.worker = TRUE]
<1>2. /\ tool \in EActor /\ EFits(tool, grade.status)
      /\ message \in EActor /\ EFits(message, grade.status)
  BY <1>1 DEF E!Idle, EActor, EPc, EFits
<1>3. eact' = [eact EXCEPT ![x] = tool] \/ eact' = [eact EXCEPT ![x] = message]
  BY DEF E!Receive, E!Evaluate, E!Begin
<1>4. /\ \A o \in Turn : equeue'[o] = "deleted" => equeue[o] = "deleted"
      /\ equeue' \in [Turn -> {"none", "visible", "hidden", "deleted"}]
      /\ UNCHANGED <<failed, eval, grade, raced, elost, entered, ecrossed>>
  BY DEF E!Receive, E!Evaluate, E!tables, E!history, EInv, EType
<1> HIDE DEF tool, message
<1> QED BY <1>2, <1>3, <1>4, ELocal

\* The states an actor can go to and leave everything else alone.
LEMMA EResting == E!Idle \in EActor /\ E!Idle.pc = "idle" /\ E!Idle.grade.status = "none"
BY DEF E!Idle, E!NoGrade, EActor, EPc, EGrade

\* An actor that only moves on keeps its type.
LEMMA EMoves ==
  ASSUME EType, NEW x \in Actor, NEW pc \in EPc
  PROVE  /\ [eact[x] EXCEPT !.pc = pc] \in EActor
         /\ [eact[x] EXCEPT !.pc = pc].pc = pc
         /\ [eact[x] EXCEPT !.pc = pc].on = eact[x].on
         /\ [eact[x] EXCEPT !.pc = pc].grade = eact[x].grade
BY DEF EType, EActor

\* An actor's state fits where it is.
LEMMA EFitting ==
  ASSUME EInv, NEW x \in Actor
  PROVE  EFits(eact[x], grade.status)
BY DEF EInv, EOutcome, EKnown, E!GradeKept, EFits, EType

\* Steps of the worker that only move it on.
LEMMA EStays ==
  ASSUME EInv, NEW x \in Actor, E!CheckEvaluated(x) \/ E!EvaluationFails(x) \/ E!Ack(x)
  PROVE  EInv'
<1>1. EFits(eact[x], grade.status) /\ eact[x] \in EActor /\ eact[x].pc # "idle"
  BY EFitting DEF EInv, EType, E!CheckEvaluated, E!EvaluationFails, E!Ack, E!At
<1> DEFINE at(pc) == [eact[x] EXCEPT !.pc = pc]
<1>2. EFits(E!Idle, grade.status)
  BY EResting DEF EFits
<1>3. \A pc \in EPc : at(pc) \in EActor /\ at(pc).pc = pc /\ at(pc).on = eact[x].on /\ at(pc).grade = eact[x].grade
  BY EMoves DEF EInv
<1> HIDE DEF at
<1>4. CASE E!CheckEvaluated(x)
  <2>1. /\ UNCHANGED <<equeue, failed, eval, grade, raced, elost, entered, ecrossed>>
        /\ eact[x].pc = "check"
    BY <1>4 DEF E!CheckEvaluated, E!tables, E!history, E!At
  <2>2. \/ eact[x].on \in eval /\ eact' = [eact EXCEPT ![x] = at("ack")]
        \/ eact' = [eact EXCEPT ![x] = E!Idle]
        \/ eact[x].on \notin eval \cup Unanswered /\ eact' = [eact EXCEPT ![x] = at("store")]
    BY <1>4 DEF E!CheckEvaluated, E!Done, E!Goto, E!Return, at
  <2>3. eact[x].on \in eval => EFits(at("ack"), grade.status)
    BY <1>1, <1>3, <2>1 DEF EFits, EPc
  <2>4. eact[x].on \notin eval \cup Unanswered => EFits(at("store"), grade.status)
    BY <1>1, <1>3, <2>1 DEF EFits, EPc
  <2> QED BY <1>2, <1>3, <2>1, <2>2, <2>3, <2>4, ELocal, EResting DEF EPc, EInv, EType
<1>5. CASE E!EvaluationFails(x)
  <2>1. UNCHANGED <<equeue, failed, eval, grade, raced, elost, entered, ecrossed>>
    BY <1>5 DEF E!EvaluationFails, E!tables, E!history
  <2>2. eact[x].pc = "store" /\ (eact' = [eact EXCEPT ![x] = at("mark")] \/ eact' = [eact EXCEPT ![x] = E!Idle])
    BY <1>5 DEF E!EvaluationFails, E!At, E!Goto, E!Return, at
  <2>3. EFits(at("mark"), grade.status)
    BY <1>1, <1>3, <2>2 DEF EFits, EPc
  <2> QED BY <1>2, <1>3, <2>1, <2>2, <2>3, ELocal, EResting DEF EPc, EInv, EType
<1>6. CASE E!Ack(x)
  <2>1. /\ UNCHANGED <<failed, eval, grade, raced, elost, entered, ecrossed>>
        /\ equeue' = [equeue EXCEPT ![eact[x].on] = "deleted"]
        /\ eact' = [eact EXCEPT ![x] = E!Idle]
        /\ eact[x].pc = "ack"
    BY <1>6 DEF E!Ack, E!history, E!At, E!Return
  <2>2. eact[x].on \in eval \cup failed \cup elost
    BY <1>1, <2>1 DEF EFits
  <2>3. /\ equeue' \in [Turn -> {"none", "visible", "hidden", "deleted"}]
        /\ \A t \in Turn : equeue'[t] = "deleted" => equeue[t] = "deleted" \/ t \in eval \cup failed \cup elost
    BY <2>1, <2>2 DEF EInv, EType
  <2> QED BY <1>2, <2>1, <2>3, ELocal, EResting
<1> QED BY <1>4, <1>5, <1>6

\* A crash.
LEMMA ECrash ==
  ASSUME EInv, NEW x \in Actor, E!Crash(x)
  PROVE  EInv'
<1>1. /\ UNCHANGED <<equeue, failed, eval, grade, raced, elost, entered, ecrossed>>
      /\ eact' = [eact EXCEPT ![x] = E!Idle]
  BY DEF E!Crash, E!Return, E!tables, E!history
<1>2. EFits(E!Idle, grade.status)
  BY EResting DEF EFits
<1> QED BY <1>1, <1>2, ELocal, EResting DEF EInv, EType

\* The steps that store an evaluation or give a message up.
LEMMA ERecords ==
  ASSUME EInv, NEW x \in Actor, E!CreateEvaluation(x) \/ E!MarkFailed(x) \/ E!SkipBlank(x)
  PROVE  EInv'
<1> DEFINE at(pc) == [eact[x] EXCEPT !.pc = pc]
<1>1. \A pc \in EPc : at(pc) \in EActor /\ at(pc).pc = pc /\ at(pc).on = eact[x].on /\ at(pc).grade = eact[x].grade
  BY EMoves DEF EInv
<1> DEFINE t == eact[x].on
<1>2. eact[x].pc \in {"check", "store", "mark"} /\ t \in Turn
  BY DEF E!CreateEvaluation, E!MarkFailed, E!SkipBlank, E!At, EInv, EOutcome
<1>3. /\ grade' = grade /\ entered' = entered /\ ecrossed' = ecrossed /\ equeue' = equeue
      /\ \/ eact' = [eact EXCEPT ![x] = at("ack")] /\ t \in eval' \cup failed' \cup elost'
         \/ eact' = [eact EXCEPT ![x] = E!Idle]
  BY DEF E!CreateEvaluation, E!MarkFailed, E!JobRows, E!SkipBlank, E!Done, E!Goto, E!Return, E!tables, E!history
<1>4. /\ failed' = failed
      /\ \/ UNCHANGED <<eval, raced, elost>>
         \/ /\ UNCHANGED <<eval, raced>> /\ elost' = elost \cup {t}
            /\ eact[x].pc = "mark" \/ t \notin eval
         \/ /\ UNCHANGED elost /\ eval' = eval \cup {t} /\ t \notin eval /\ t \notin Unanswered
            /\ raced' = raced \/ raced' = raced \cup {t}
            /\ t \in failed \cup elost \/ (\E y \in Actor \ {x} : eact[y].on = t /\ eact[y].pc \in {"store", "mark"})
                 => t \in raced'
  BY DEF E!CreateEvaluation, E!MarkFailed, E!JobRows, E!SkipBlank, E!At, E!Past, E!tables, E!history, EInv, EOutcome
<1>5. /\ failed \subseteq failed' /\ eval \subseteq eval' /\ raced \subseteq raced' /\ elost \subseteq elost'
      /\ failed' \subseteq Turn /\ eval' \subseteq Turn /\ raced' \subseteq Turn /\ elost' \subseteq Turn
  BY <1>2, <1>4 DEF EInv, EType
<1> HIDE DEF at
<1>6. "ack" \in EPc
  BY DEF EPc
<1>7. PICK r \in EActor : /\ eact' = [eact EXCEPT ![x] = r]
                          /\ r.pc \in {"idle", "ack"}
                          /\ r.pc = "ack" => r.on = t /\ t \in eval' \cup failed' \cup elost'
                          /\ r.grade.status = "none" \/ r.grade = eact[x].grade
  BY <1>1, <1>3, <1>6, EResting
<1>8. \A y \in Actor : eact'[y] = IF y = x THEN r ELSE eact[y]
  BY <1>7 DEF EInv, EType
<1>9. EType'
  BY <1>3, <1>5, <1>7 DEF EInv, EType
<1>10. EOutcome'
  <2> SUFFICES ASSUME NEW y \in Actor
               PROVE  /\ eact'[y].pc \in {"check", "store", "mark", "ack"} => eact'[y].on \in Turn
                      /\ eact'[y].pc \in {"store", "mark"} /\ eact'[y].on \in eval' => eact'[y].on \in raced'
                      /\ eact'[y].pc = "ack" => eact'[y].on \in eval' \cup failed' \cup elost'
                      /\ eact'[y].pc = "store" => eact'[y].on \notin Unanswered
    BY DEF EOutcome
  <2>1. CASE y = x
    BY <1>2, <1>7, <1>8, <2>1
  <2>2. CASE y # x
    <3>1. eact'[y] = eact[y]
      BY <1>8, <2>2
    <3>2. eact[y].pc \in {"store", "mark"} /\ eact[y].on \in eval' => eact[y].on \in raced'
      BY <1>4, <1>5, <2>2 DEF EInv, EOutcome
    <3> QED BY <1>5, <3>1, <3>2 DEF EInv, EOutcome
  <2> QED BY <2>1, <2>2
<1>11. EKnown'
  BY <1>3, <1>7, <1>8 DEF EInv, EKnown
<1>12. E!OutcomesFit'
  <2> SUFFICES ASSUME NEW o \in Turn
               PROVE  /\ equeue'[o] = "deleted" => o \in eval' \cup failed' \cup elost'
                      /\ o \in (failed' \cup elost') \cap eval' => o \in raced'
                      /\ o \in Unanswered => o \notin eval'
    BY DEF E!OutcomesFit
  <2>1. (equeue[o] = "deleted" => o \in eval \cup failed \cup elost) /\ (o \in Unanswered => o \notin eval)
    BY DEF EInv, E!OutcomesFit
  <2>2. o \in (failed \cup elost) \cap eval => o \in raced
    BY DEF EInv, E!OutcomesFit
  <2>3. o = t /\ eact[x].pc = "mark" /\ o \in eval => o \in raced
    BY DEF EInv, EOutcome
  <2> QED BY <1>3, <1>4, <1>5, <2>1, <2>2, <2>3
<1>13. E!GradeKept'
  BY <1>3, <1>7, <1>8 DEF EInv, E!GradeKept
<1> QED BY <1>9, <1>10, <1>11, <1>12, <1>13 DEF EInv

\* The calls that read a grade or compute one.
LEMMA EReads ==
  ASSUME EInv, NEW x \in Actor, E!OverrideRead(x) \/ E!ReleaseRead(x) \/ E!ComputeGrade(x)
  PROVE  EInv'
<1>1. grade \in EGrade /\ eact[x] \in EActor /\ eval \subseteq Turn
  BY DEF EInv, EType
<1> DEFINE computed == [E!NoGrade EXCEPT !.status = "pending", !.counted = eval]
           reading(pc) == [E!Idle EXCEPT !.pc = pc, !.grade = grade]
           computing == [eact[x] EXCEPT !.pc = "grade", !.grade = computed]
<1>2. computed \in EGrade /\ computed.status = "pending"
  BY <1>1 DEF E!NoGrade, EGrade
<1>3. \A pc \in EPc : /\ reading(pc) \in EActor
                      /\ reading(pc).pc = pc /\ reading(pc).grade = grade
  BY <1>1 DEF E!Idle, EActor
<1> HIDE DEF computed
<1>4. computing \in EActor /\ computing.pc = "grade" /\ computing.grade.status = "pending"
  BY <1>1, <1>2 DEF EActor, EPc
<1> HIDE DEF reading, computing
<1>5. UNCHANGED <<equeue, failed, eval, grade, raced, elost, entered, ecrossed>>
  BY DEF E!OverrideRead, E!ReleaseRead, E!ComputeGrade, E!tables, E!history
<1>6. \/ eact' = [eact EXCEPT ![x] = reading("override")] /\ grade.status # "none"
      \/ eact' = [eact EXCEPT ![x] = reading("compute")]
      \/ eact' = [eact EXCEPT ![x] = reading("release")]
      \/ eact' = [eact EXCEPT ![x] = computing]
  BY DEF E!OverrideRead, E!ReleaseRead, E!ComputeGrade, E!Begin, reading, computing, computed
<1>7. /\ grade.status # "none" => EFits(reading("override"), grade.status)
      /\ EFits(reading("compute"), grade.status) /\ EFits(reading("release"), grade.status)
      /\ EFits(computing, grade.status)
  BY <1>3, <1>4 DEF EFits, EPc
<1>8. {"override", "compute", "release"} \subseteq EPc
  BY DEF EPc
<1> QED BY <1>3, <1>4, <1>5, <1>6, <1>7, <1>8, ELocal DEF EInv, EType

\* The statements that write the grade.
LEMMA EWrites ==
  ASSUME EInv, NEW x \in Actor, E!CreateGrade(x) \/ E!Release(x) \/ \E s \in Score : E!Override(x, s)
  PROVE  EInv'
<1> DEFINE mine == eact[x].grade
<1>1. grade \in EGrade /\ mine \in EGrade /\ eact[x] \in EActor
  BY DEF EInv, EType, EActor
<1>2. UNCHANGED <<equeue, failed, eval, raced, elost>>
  BY DEF E!CreateGrade, E!Release, E!Override, E!history
<1>3. /\ eact' = [eact EXCEPT ![x] = [eact[x] EXCEPT !.pc = "release"]] \/ eact' = [eact EXCEPT ![x] = E!Idle]
  BY DEF E!CreateGrade, E!Release, E!Override, E!Goto, E!Return
<1>4. PICK r \in EActor : /\ eact' = [eact EXCEPT ![x] = r]
                          /\ r.pc \in {"idle", "release"}
                          /\ r.grade.status = "none" \/ r.grade = mine
  BY <1>3, EMoves, EResting DEF EInv, EPc
<1>5. \A y \in Actor : eact'[y] = IF y = x THEN r ELSE eact[y]
  BY <1>4 DEF EInv, EType
<1>6. EOutcome'
  BY <1>2, <1>4, <1>5 DEF EInv, EOutcome
<1>7. E!OutcomesFit'
  BY <1>2 DEF EInv, E!OutcomesFit
<1>8. CASE E!CreateGrade(x)
  <2>1. entered' = entered /\ ecrossed' = ecrossed /\ (grade' = grade \/ (grade' = mine /\ grade.status = "none"))
    BY <1>8 DEF E!CreateGrade, E!history
  <2>2. mine.status = "pending"
    BY <1>8 DEF E!CreateGrade, E!At, EInv, EKnown
  <2>3. EType'
    BY <1>1, <1>2, <1>4, <2>1 DEF EInv, EType
  <2>4. EKnown'
    BY <1>4, <1>5, <2>1, <2>2 DEF EInv, EKnown
  <2>5. E!GradeKept'
    BY <1>4, <1>5, <2>1, <2>2 DEF EInv, EKnown, E!GradeKept
  <2> QED BY <1>6, <1>7, <2>3, <2>4, <2>5 DEF EInv
<1>9. CASE E!Release(x)
  <2>1. entered' = entered /\ ecrossed' = (ecrossed \/ grade # mine) /\ grade' = [mine EXCEPT !.status = "released"]
    BY <1>9 DEF E!Release, E!UpdateGrade
  <2>2. grade' \in EGrade /\ grade'.status = "released" /\ grade'.override = mine.override
    BY <1>1, <2>1 DEF EGrade
  <2>3. EType'
    BY <1>2, <1>4, <2>1, <2>2 DEF EInv, EType
  <2>4. EKnown'
    BY <1>4, <1>5, <2>2 DEF EInv, EKnown
  <2>5. E!GradeKept'
    BY <2>1, <2>2 DEF EInv, EType, E!GradeKept
  <2> QED BY <1>6, <1>7, <2>3, <2>4, <2>5 DEF EInv
<1>10. CASE \E s \in Score : E!Override(x, s)
  <2>1. PICK s \in Score : E!Override(x, s)
    BY <1>10
  <2>2. entered' = s /\ ecrossed' = (ecrossed \/ grade # mine) /\ grade' = [mine EXCEPT !.override = s]
    BY <2>1 DEF E!Override, E!UpdateGrade
  <2>3. grade' \in EGrade /\ grade'.status = mine.status /\ grade'.override = s
    BY <1>1, <2>2 DEF EGrade
  <2>4. mine.status # "none"
    BY <2>1 DEF E!Override, E!At, EInv, EKnown
  <2>5. EType'
    BY <1>2, <1>4, <2>2, <2>3 DEF EInv, EType
  <2>6. EKnown'
    BY <1>4, <1>5, <2>3, <2>4 DEF EInv, EKnown
  <2>7. E!GradeKept'
    BY <1>4, <1>5, <2>2, <2>3 DEF EInv, EType, E!GradeKept
  <2> QED BY <1>6, <1>7, <2>5, <2>6, <2>7 DEF EInv
<1> QED BY <1>8, <1>9, <1>10

\* Every step keeps the invariant.
LEMMA ENext == EInv /\ [E!Next]_evars => EInv'
<1> SUFFICES ASSUME EInv, [E!Next]_evars PROVE EInv'
  OBVIOUS
<1>1. CASE UNCHANGED evars
  BY <1>1 DEF evars, EInv, EType, EOutcome, EKnown, E!OutcomesFit, E!GradeKept
<1> QED
  BY <1>1, EQueue, EBegin, EStays, ECrash, ERecords, EReads, EWrites DEF E!Next

\* It holds of every reachable state.
LEMMA EInvariant == Spec => []EInv
<1>1. Init => EInv
  BY EStart DEF Init
<1> QED BY <1>1, ENext, WorkersStep, PTL DEF Spec

-----------------------------------------------------------------------------
(***************************************************************************)
(* Generation jobs.  A job that was begun once has one worker, whose list  *)
(* of ids is what the job has generated so far; one that was never begun   *)
(* has left no trace.                                                      *)
(***************************************************************************)
QWorking == {"running", "generate", "create", "mark", "ack"}

QActor ==
  [pc : QWorking \cup {"idle", "now", "review"}, on : Generation \cup {None}, ids : SUBSET Draft,
   left : Nat, status : {"none", "approved", "rejected"}]

QType ==
  /\ qqueue \in [Generation -> {"none", "visible", "hidden", "deleted"}]
  /\ job \in [Generation -> [status : {"queued", "running", "succeeded", "failed"}, ids : SUBSET Draft]]
  /\ question \in [Draft -> [status : {"none", "draft", "approved", "rejected"}, of : Generation \cup {None}]]
  /\ qact \in [Actor -> QActor]
  /\ tried \in [Generation -> {"never", "once", "again"}]
  /\ qlost \subseteq Generation

QActs ==
  \A x \in Actor :
    /\ qact[x].pc \in QWorking <=> qact[x].on # None
    /\ qact[x].on # None => qact[x].ids \subseteq Q!Generated(qact[x].on)

\* what holds of the worker of a job that was begun once
QSole(j, x) ==
  /\ qqueue[j] # "deleted"
  /\ \A y \in Actor : qact[y].on = j => y = x
  /\ qact[x].pc \in {"running", "generate", "create"} => qact[x].ids = Q!Generated(j)
  /\ qact[x].pc # "ack" => job[j].status # "succeeded"
  /\ qact[x].pc = "ack" => j \in qlost \/ job[j].status \in {"succeeded", "failed"}

QOnce ==
  \A j \in Generation : tried[j] = "once" => \A x \in Actor : qact[x].on = j => QSole(j, x)

QNever ==
  \A j \in Generation : tried[j] = "never" =>
    /\ qqueue[j] # "deleted" /\ job[j].status = "queued" /\ Q!Generated(j) = {}
    /\ \A x \in Actor : qact[x].on # j

QInv == QType /\ QActs /\ QOnce /\ QNever /\ Q!JobsTellTheirOutcome

\* the assumption on the constants
LEMMA QConstants == None \notin Generation \cup Draft
BY ModulesAssumption DEF Q!QuestionJobsAssumption

\* It holds initially.
LEMMA QStart == Q!Init => QInv
<1> SUFFICES ASSUME Q!Init PROVE QInv
  OBVIOUS
<1>1. Q!Idle \in QActor /\ Q!Idle.pc = "idle" /\ Q!Idle.on = None
  BY DEF Q!Idle, QActor
<1> HIDE DEF Q!Idle
<1>2. QType
  BY <1>1 DEF Q!Init, Q!NoQuestion, QType
<1>3. \A j \in Generation : Q!Generated(j) = {} /\ tried[j] = "never" /\ job[j].status = "queued" /\ qqueue[j] = "none"
  BY QConstants DEF Q!Init, Q!NoQuestion, Q!Generated
<1>4. \A x \in Actor : qact[x].pc = "idle" /\ qact[x].on = None
  BY <1>1 DEF Q!Init
<1> QED BY <1>2, <1>3, <1>4, QConstants DEF QInv, QActs, QWorking, QOnce, QNever, Q!JobsTellTheirOutcome

\* Whatever happens to a question, no job's questions change if none changes its job.
LEMMA QSameQuestions ==
  ASSUME \A q \in Draft : question'[q].of = question[q].of
  PROVE  \A j : Q!Generated(j)' = Q!Generated(j)
BY DEF Q!Generated

\* A step of an actor that has no job, and will have none, keeps the invariant.
LEMMA QAside ==
  ASSUME QInv, QType', NEW x \in Actor,
         qact'[x].on = None, qact'[x].pc \notin QWorking,
         \A y \in Actor \ {x} : qact'[y] = qact[y],
         \A q \in Draft : question'[q].of = question[q].of,
         UNCHANGED <<qqueue, job, tried, qlost>>
  PROVE  QInv'
<1>1. \A j : Q!Generated(j)' = Q!Generated(j)
  BY QSameQuestions
<1>2. QActs'
  BY <1>1 DEF QInv, QActs
<1>3. QOnce'
  <2> SUFFICES ASSUME NEW j \in Generation, tried[j] = "once", NEW y \in Actor, qact'[y].on = j
               PROVE  QSole(j, y)'
    BY DEF QOnce
  <2>1. y # x /\ qact'[y] = qact[y]
    BY QConstants
  <2>2. QSole(j, y)
    BY <2>1 DEF QInv, QOnce
  <2> QED BY <1>1, <2>1, <2>2, QConstants DEF QSole
<1>4. QNever'
  BY <1>1, QConstants DEF QInv, QNever
<1>5. Q!JobsTellTheirOutcome'
  BY <1>1 DEF QInv, Q!JobsTellTheirOutcome
<1> QED BY <1>2, <1>3, <1>4, <1>5 DEF QInv

\* The queue's steps.
LEMMA QQueue ==
  ASSUME QInv, NEW j \in Generation, Q!Send(j) \/ Q!VisibilityTimeout(j)
  PROVE  QInv'
<1>1. UNCHANGED <<job, question, qact, tried, qlost>>
  BY DEF Q!Send, Q!VisibilityTimeout, Q!history
<1>2. /\ qqueue' \in [Generation -> {"none", "visible", "hidden", "deleted"}]
      /\ \A i \in Generation : qqueue'[i] = "deleted" <=> qqueue[i] = "deleted"
  BY DEF Q!Send, Q!VisibilityTimeout, QInv, QType
<1>3. \A i : Q!Generated(i)' = Q!Generated(i)
  BY <1>1 DEF Q!Generated
<1> QED BY <1>1, <1>2, <1>3 DEF QInv, QType, QActs, QOnce, QSole, QNever, Q!JobsTellTheirOutcome

\* A delivery.
LEMMA QReceive ==
  ASSUME QInv, NEW x \in Actor, NEW j \in Generation, Q!Receive(x, j)
  PROVE  QInv'
<1> DEFINE begun == [Q!Idle EXCEPT !.pc = "running", !.on = j]
<1>1. begun \in QActor /\ begun.pc = "running" /\ begun.on = j /\ begun.ids = {}
  BY DEF Q!Idle, QActor, QWorking
<1>2. /\ UNCHANGED <<job, question, qlost>> /\ qact[x].pc = "idle"
      /\ qact' = [qact EXCEPT ![x] = begun]
      /\ qqueue[j] = "visible" /\ qqueue' = [qqueue EXCEPT ![j] = "hidden"]
      /\ tried' = [tried EXCEPT ![j] = IF @ = "never" THEN "once" ELSE "again"]
  BY DEF Q!Receive, Q!Begin, Q!At
<1> HIDE DEF begun
<1>3. \A y \in Actor : qact'[y] = IF y = x THEN begun ELSE qact[y]
  BY <1>2 DEF QInv, QType
<1>4. QType'
  BY <1>1, <1>2 DEF QInv, QType
<1>5. \A i : Q!Generated(i)' = Q!Generated(i)
  BY <1>2 DEF Q!Generated
<1>6. QActs'
  BY <1>1, <1>3, <1>5, QConstants DEF QInv, QActs, QWorking
<1>7. qact[x].on = None
  BY <1>2 DEF QInv, QActs, QWorking
<1>8. QOnce'
  <2> SUFFICES ASSUME NEW i \in Generation, tried'[i] = "once", NEW y \in Actor, qact'[y].on = i
               PROVE  QSole(i, y)'
    BY DEF QOnce
  <2>1. CASE i = j
    <3>1. tried[j] = "never"
      BY <1>2, <2>1 DEF QInv, QType
    <3>2. job[j].status = "queued" /\ Q!Generated(j) = {} /\ \A z \in Actor : qact[z].on # j
      BY <3>1 DEF QInv, QNever
    <3>3. y = x /\ qqueue'[j] = "hidden"
      BY <1>2, <1>3, <2>1, <3>2 DEF QInv, QType
    <3> QED BY <1>1, <1>2, <1>3, <1>5, <2>1, <3>2, <3>3 DEF QSole
  <2>2. CASE i # j
    <3>1. tried[i] = "once" /\ y # x /\ qact'[y] = qact[y] /\ qqueue'[i] = qqueue[i]
      BY <1>1, <1>2, <1>3, <2>2 DEF QInv, QType
    <3>2. QSole(i, y)
      BY <3>1 DEF QInv, QOnce
    <3>3. \A z \in Actor : qact'[z].on = i => qact[z].on = i
      BY <1>1, <1>3, <2>2
    <3> QED BY <1>2, <1>5, <3>1, <3>2, <3>3 DEF QSole
  <2> QED BY <2>1, <2>2
<1>9. QNever'
  <2> SUFFICES ASSUME NEW i \in Generation, tried'[i] = "never"
               PROVE  /\ qqueue'[i] # "deleted" /\ job'[i].status = "queued" /\ Q!Generated(i)' = {}
                      /\ \A y \in Actor : qact'[y].on # i
    BY DEF QNever
  <2>1. i # j /\ tried[i] = "never" /\ qqueue'[i] = qqueue[i]
    BY <1>2 DEF QInv, QType
  <2> QED BY <1>1, <1>2, <1>3, <1>5, <2>1 DEF QInv, QNever
<1>10. Q!JobsTellTheirOutcome'
  <2> SUFFICES ASSUME NEW i \in Generation
               PROVE  /\ qqueue'[i] = "deleted" /\ i \notin qlost /\ tried'[i] = "once" => job[i].status \in {"succeeded", "failed"}
                      /\ job[i].status = "succeeded" =>
                           job[i].ids \subseteq Q!Generated(i) /\ (tried'[i] = "once" => job[i].ids = Q!Generated(i))
    BY <1>2, <1>5 DEF Q!JobsTellTheirOutcome
  <2>1. CASE i = j
    BY <1>2, <2>1 DEF QInv, QType, QNever, Q!JobsTellTheirOutcome
  <2>2. CASE i # j
    BY <1>2, <2>2 DEF QInv, QType, Q!JobsTellTheirOutcome
  <2> QED BY <2>1, <2>2
<1> QED BY <1>4, <1>6, <1>8, <1>9, <1>10 DEF QInv

\* A worker's step that moves it on, with what it may change of its job's row.
LEMMA QMoves ==
  ASSUME QInv, QType', NEW x \in Actor, NEW j \in Generation, qact[x].on = j,
         qact'[x].on = j, qact'[x].pc \in QWorking, qact'[x].ids = qact[x].ids,
         \A y \in Actor \ {x} : qact'[y] = qact[y],
         \A i \in Generation \ {j} : job'[i] = job[i],
         UNCHANGED <<qqueue, question, tried>>, qlost \subseteq qlost',
         qact'[x].pc \in {"running", "generate", "create"} => qact[x].pc \in {"running", "generate", "create"},
         qact'[x].pc # "ack" => qact[x].pc # "ack" /\ (job'[j].status = "succeeded" => job[j].status = "succeeded"),
         qact'[x].pc = "ack" => j \in qlost' \/ job'[j].status \in {"succeeded", "failed"},
         \/ job'[j].status # "succeeded"
         \/ job'[j] = job[j]
         \/ job'[j].ids = qact[x].ids /\ qact[x].pc = "create"
  PROVE  QInv'
<1>1. \A i : Q!Generated(i)' = Q!Generated(i)
  BY DEF Q!Generated
<1>2. QActs'
  BY <1>1, QConstants DEF QInv, QActs
<1>3. \A y \in Actor : qact'[y].on = qact[y].on
  OBVIOUS
<1>4. QOnce'
  <2> SUFFICES ASSUME NEW i \in Generation, tried[i] = "once", NEW y \in Actor, qact'[y].on = i
               PROVE  QSole(i, y)'
    BY DEF QOnce
  <2>1. QSole(i, y)
    BY <1>3 DEF QInv, QOnce
  <2>2. CASE i = j
    <3>1. y = x
      BY <2>1, <2>2 DEF QSole
    <3> QED BY <1>1, <1>3, <2>1, <2>2, <3>1 DEF QSole
  <2>3. CASE i # j
    <3>1. y # x /\ qact'[y] = qact[y] /\ job'[i] = job[i]
      BY <2>3
    <3> QED BY <1>1, <1>3, <2>1, <3>1 DEF QSole
  <2> QED BY <2>2, <2>3
<1>5. QNever'
  <2> SUFFICES ASSUME NEW i \in Generation, tried[i] = "never"
               PROVE  /\ qqueue[i] # "deleted" /\ job'[i].status = "queued" /\ Q!Generated(i) = {}
                      /\ \A y \in Actor : qact[y].on # i
    BY <1>1, <1>3 DEF QNever
  <2>1. /\ qqueue[i] # "deleted" /\ job[i].status = "queued" /\ Q!Generated(i) = {}
        /\ \A y \in Actor : qact[y].on # i
    BY DEF QInv, QNever
  <2> QED BY <2>1
<1>6. Q!JobsTellTheirOutcome'
  <2> SUFFICES ASSUME NEW i \in Generation
               PROVE  /\ qqueue[i] = "deleted" /\ i \notin qlost' /\ tried[i] = "once" => job'[i].status \in {"succeeded", "failed"}
                      /\ job'[i].status = "succeeded" =>
                           job'[i].ids \subseteq Q!Generated(i) /\ (tried[i] = "once" => job'[i].ids = Q!Generated(i))
    BY <1>1 DEF Q!JobsTellTheirOutcome
  <2>1. CASE i = j
    <3>1. qact[x].ids \subseteq Q!Generated(j)
      BY QConstants DEF QInv, QActs
    <3>2. tried[j] = "once" => QSole(j, x)
      BY DEF QInv, QOnce
    <3>3. tried[j] = "once" /\ qact[x].pc = "create" => qact[x].ids = Q!Generated(j)
      BY <3>2 DEF QSole
    <3>4. tried[j] = "once" => qqueue[j] # "deleted"
      BY <3>2 DEF QSole
    <3> QED BY <2>1, <3>1, <3>3, <3>4 DEF QInv, Q!JobsTellTheirOutcome
  <2>2. CASE i # j
    BY <2>2 DEF QInv, Q!JobsTellTheirOutcome
  <2> QED BY <2>1, <2>2
<1> QED BY <1>2, <1>4, <1>5, <1>6 DEF QInv

\* The worker's own statements.
LEMMA QWorker ==
  ASSUME QInv, NEW x \in Actor,
         \/ Q!MarkRunning(x) \/ Q!Succeed(x) \/ Q!GenerationFails(x) \/ Q!MarkFailed(x) \/ Q!RecordFails(x)
         \/ \E n \in Nat : Q!Generate(x, n)
  PROVE  QInv'
<1> DEFINE j == qact[x].on
<1>0. qact[x] \in QActor /\ qact \in [Actor -> QActor]
  BY DEF QInv, QType
<1>1. qact[x].pc \in {"running", "generate", "create", "mark"}
  BY DEF Q!MarkRunning, Q!Succeed, Q!GenerationFails, Q!MarkFailed, Q!RecordFails, Q!Generate, Q!At
<1>2. j \in Generation
  BY <1>0, <1>1 DEF QInv, QActs, QWorking, QActor
<1>3. UNCHANGED <<qqueue, question, tried>>
  BY DEF Q!MarkRunning, Q!Succeed, Q!GenerationFails, Q!MarkFailed, Q!RecordFails, Q!Generate, Q!history
<1>4. PICK pc \in {"generate", "create", "mark", "ack"}, n \in Nat :
        qact' = [qact EXCEPT ![x].pc = pc, ![x].left = n]
  <2>1. ASSUME NEW pc, qact' = [qact EXCEPT ![x].pc = pc]
        PROVE  qact' = [qact EXCEPT ![x].pc = pc, ![x].left = qact[x].left]
    BY <1>0, <2>1 DEF QActor
  <2>2. qact[x].left \in Nat
    BY <1>0 DEF QActor
  <2>4. CASE \E n \in Nat : Q!Generate(x, n)
    BY <2>4 DEF Q!Generate
  <2>5. CASE Q!MarkRunning(x) \/ Q!Succeed(x) \/ Q!GenerationFails(x) \/ Q!MarkFailed(x) \/ Q!RecordFails(x)
    BY <2>1, <2>2, <2>5 DEF Q!MarkRunning, Q!Succeed, Q!GenerationFails, Q!MarkFailed, Q!RecordFails, Q!Goto
  <2> QED BY <2>4, <2>5
<1>5. /\ qact' \in [Actor -> QActor] /\ qact'[x].pc = pc /\ qact'[x].on = j /\ qact'[x].ids = qact[x].ids
      /\ \A y \in Actor \ {x} : qact'[y] = qact[y]
  BY <1>0, <1>4 DEF QActor, QWorking
<1>6. job[j] \in [status : {"queued", "running", "succeeded", "failed"}, ids : SUBSET Draft] /\ qact[x].ids \subseteq Draft
  BY <1>0, <1>2 DEF QInv, QType, QActor
<1>7. \/ /\ UNCHANGED <<job, qlost>> /\ qact[x].pc \in {"running", "generate", "create"}
         /\ qact'[x].pc \in {"create", "mark"}
      \/ /\ UNCHANGED qlost /\ job' = [job EXCEPT ![j].status = "running"]
         /\ qact[x].pc = "running" /\ qact'[x].pc = "generate"
      \/ /\ UNCHANGED qlost /\ job' = [job EXCEPT ![j] = [status |-> "succeeded", ids |-> qact[x].ids]]
         /\ qact[x].pc = "create" /\ qact'[x].pc = "ack"
      \/ /\ UNCHANGED qlost /\ job' = [job EXCEPT ![j].status = "failed"]
         /\ qact[x].pc = "mark" /\ qact'[x].pc = "ack"
      \/ /\ UNCHANGED job /\ qlost' = qlost \cup {j}
         /\ qact[x].pc = "mark" /\ qact'[x].pc = "ack"
  BY <1>0 DEF Q!MarkRunning, Q!Succeed, Q!GenerationFails, Q!MarkFailed, Q!RecordFails, Q!Generate, Q!At, Q!Goto,
              Q!history, QActor
<1>8. QType'
  <2>1. /\ [job[j] EXCEPT !.status = "running"] \in [status : {"queued", "running", "succeeded", "failed"}, ids : SUBSET Draft]
        /\ [job[j] EXCEPT !.status = "failed"] \in [status : {"queued", "running", "succeeded", "failed"}, ids : SUBSET Draft]
        /\ [status |-> "succeeded", ids |-> qact[x].ids]
              \in [status : {"queued", "running", "succeeded", "failed"}, ids : SUBSET Draft]
    BY <1>6
  <2>2. job' \in [Generation -> [status : {"queued", "running", "succeeded", "failed"}, ids : SUBSET Draft]]
    BY <1>2, <1>7, <2>1 DEF QInv, QType
  <2>3. qlost' \subseteq Generation
    BY <1>2, <1>7 DEF QInv, QType
  <2> QED BY <1>3, <1>5, <2>2, <2>3 DEF QInv, QType
<1>9. /\ \A i \in Generation \ {j} : job'[i] = job[i]
      /\ qlost \subseteq qlost'
      /\ qact'[x].pc \in QWorking
  BY <1>2, <1>4, <1>5, <1>7 DEF QInv, QType, QWorking
<1>10. /\ qact'[x].pc \in {"running", "generate", "create"} => qact[x].pc \in {"running", "generate", "create"}
       /\ qact'[x].pc # "ack" => qact[x].pc # "ack" /\ (job'[j].status = "succeeded" => job[j].status = "succeeded")
       /\ qact'[x].pc = "ack" => j \in qlost' \/ job'[j].status \in {"succeeded", "failed"}
       /\ \/ job'[j].status # "succeeded"
          \/ job'[j] = job[j]
          \/ job'[j].ids = qact[x].ids /\ qact[x].pc = "create"
  BY <1>2, <1>6, <1>7 DEF QInv, QType
<1> QED BY <1>2, <1>3, <1>5, <1>8, <1>9, <1>10, QMoves

\* A question of a job is stored.
LEMMA QCreate ==
  ASSUME QInv, NEW x \in Actor, Q!CreateQuestion(x)
  PROVE  QInv'
<1> DEFINE j == qact[x].on
           q == Q!FreshId
<1>0. qact[x] \in QActor /\ qact \in [Actor -> QActor]
  BY DEF QInv, QType
<1>1. qact[x].pc = "create" /\ qact[x].left \in Nat /\ qact[x].left > 0
  BY <1>0 DEF Q!CreateQuestion, Q!At, QActor
<1>2. j \in Generation
  BY <1>0, <1>1 DEF QInv, QActs, QWorking, QActor
<1>3. q \in Draft /\ question[q].of = None
  BY DEF Q!CreateQuestion, Q!FreshId, Q!Fresh, Q!NoQuestion
<1> HIDE DEF q
<1>4. /\ UNCHANGED <<qqueue, job, tried, qlost>>
      /\ question' = [question EXCEPT ![q] = [status |-> "draft", of |-> j]]
      /\ qact' = [qact EXCEPT ![x].left = @ - 1, ![x].ids = @ \cup {q}]
  BY DEF Q!CreateQuestion, Q!history, q
<1>5. /\ \A y \in Actor : qact'[y].on = qact[y].on /\ qact'[y].pc = qact[y].pc
      /\ \A y \in Actor \ {x} : qact'[y] = qact[y]
      /\ qact'[x].ids = qact[x].ids \cup {q}
  BY <1>0, <1>4 DEF QActor
<1>6. QType'
  <2>1. [qact[x] EXCEPT !.left = @ - 1, !.ids = @ \cup {q}] \in QActor
    <3>1. qact[x].left - 1 \in Nat /\ qact[x].ids \cup {q} \in SUBSET Draft
      BY <1>0, <1>1, <1>3 DEF QActor
    <3>2. \A n \in Nat, ids \in SUBSET Draft : [qact[x] EXCEPT !.left = n, !.ids = ids] \in QActor
      BY <1>0 DEF QActor
    <3> QED BY <3>1, <3>2
  <2>2. qact' \in [Actor -> QActor]
    BY <1>0, <1>4, <2>1
  <2> QED BY <1>2, <1>3, <1>4, <2>2 DEF QInv, QType
<1>7. \A i \in Generation : Q!Generated(i)' = IF i = j THEN Q!Generated(i) \cup {q} ELSE Q!Generated(i)
  BY <1>2, <1>3, <1>4, QConstants DEF Q!Generated, QInv, QType
<1>8. QActs'
  <2> SUFFICES ASSUME NEW y \in Actor
               PROVE  /\ qact'[y].pc \in QWorking <=> qact'[y].on # None
                      /\ qact'[y].on # None => qact'[y].ids \subseteq Q!Generated(qact[y].on)'
    BY <1>5 DEF QActs
  <2>1. qact[y].on # None => qact[y].on \in Generation
    BY <1>0 DEF QActor
  <2> QED BY <1>2, <1>5, <1>7, <2>1 DEF QInv, QActs
<1>9. tried[j] # "never"
  BY <1>2 DEF QInv, QNever
<1>10. tried[j] = "once" => QSole(j, x)
  BY <1>2 DEF QInv, QOnce
<1>11. QOnce'
  <2> SUFFICES ASSUME NEW i \in Generation, tried[i] = "once", NEW y \in Actor, qact[y].on = i
               PROVE  QSole(i, y)'
    BY <1>4, <1>5 DEF QOnce
  <2>1. QSole(i, y)
    BY DEF QInv, QOnce
  <2>2. CASE i = j
    <3>1. y = x
      BY <2>1, <2>2 DEF QSole
    <3> QED BY <1>1, <1>4, <1>5, <1>7, <2>1, <2>2, <3>1 DEF QSole
  <2>3. CASE i # j
    <3>1. y # x /\ qact'[y] = qact[y] /\ Q!Generated(i)' = Q!Generated(i)
      BY <1>5, <1>7, <2>3
    <3> QED BY <1>4, <1>5, <2>1, <3>1 DEF QSole
  <2> QED BY <2>2, <2>3
<1>12. QNever'
  <2> SUFFICES ASSUME NEW i \in Generation, tried[i] = "never"
               PROVE  /\ qqueue[i] # "deleted" /\ job[i].status = "queued" /\ Q!Generated(i)' = {}
                      /\ \A y \in Actor : qact'[y].on # i
    BY <1>4 DEF QNever
  <2>1. i # j /\ Q!Generated(i)' = Q!Generated(i)
    BY <1>7, <1>9
  <2> QED BY <1>5, <2>1 DEF QInv, QNever
<1>13. Q!JobsTellTheirOutcome'
  <2> SUFFICES ASSUME NEW i \in Generation
               PROVE  /\ qqueue[i] = "deleted" /\ i \notin qlost /\ tried[i] = "once" => job[i].status \in {"succeeded", "failed"}
                      /\ job[i].status = "succeeded" =>
                           job[i].ids \subseteq Q!Generated(i)' /\ (tried[i] = "once" => job[i].ids = Q!Generated(i)')
    BY <1>4 DEF Q!JobsTellTheirOutcome
  <2>1. i = j /\ tried[j] = "once" => job[i].status # "succeeded"
    BY <1>1, <1>10 DEF QSole
  <2> QED BY <1>7, <2>1 DEF QInv, Q!JobsTellTheirOutcome
<1> QED BY <1>6, <1>8, <1>11, <1>12, <1>13 DEF QInv

\* The message is acknowledged.
LEMMA QAck ==
  ASSUME QInv, NEW x \in Actor, Q!Ack(x)
  PROVE  QInv'
<1> DEFINE j == qact[x].on
<1>0. qact[x] \in QActor /\ qact \in [Actor -> QActor]
  BY DEF QInv, QType
<1>1. Q!Idle \in QActor /\ Q!Idle.pc = "idle" /\ Q!Idle.on = None
  BY DEF Q!Idle, QActor
<1>2. /\ UNCHANGED <<job, question, tried, qlost>> /\ qact[x].pc = "ack"
      /\ qqueue' = [qqueue EXCEPT ![j] = "deleted"]
      /\ qact' = [qact EXCEPT ![x] = Q!Idle]
  BY DEF Q!Ack, Q!At, Q!history
<1> HIDE DEF Q!Idle
<1>3. j \in Generation
  BY <1>0, <1>2 DEF QInv, QActs, QWorking, QActor
<1>4. \A y \in Actor : qact'[y] = IF y = x THEN Q!Idle ELSE qact[y]
  BY <1>0, <1>2
<1>5. \A i \in Generation : qqueue'[i] = IF i = j THEN "deleted" ELSE qqueue[i]
  BY <1>2 DEF QInv, QType
<1>6. QType'
  BY <1>1, <1>2, <1>3 DEF QInv, QType
<1>7. \A i : Q!Generated(i)' = Q!Generated(i)
  BY <1>2 DEF Q!Generated
<1>8. QActs'
  BY <1>1, <1>4, <1>7, QConstants DEF QInv, QActs, QWorking
<1>9. tried[j] # "never"
  BY <1>3 DEF QInv, QNever
<1>10. tried[j] = "once" => QSole(j, x)
  BY <1>3 DEF QInv, QOnce
<1>11. QOnce'
  <2> SUFFICES ASSUME NEW i \in Generation, tried[i] = "once", NEW y \in Actor, qact'[y].on = i
               PROVE  QSole(i, y)'
    BY <1>2 DEF QOnce
  <2>1. y # x /\ qact'[y] = qact[y]
    BY <1>1, <1>4, QConstants
  <2>2. QSole(i, y)
    BY <2>1 DEF QInv, QOnce
  <2>3. i # j
    BY <1>10, <2>1 DEF QSole
  <2>4. \A z \in Actor : qact'[z].on = i => qact[z].on = i
    BY <1>1, <1>4, QConstants
  <2> QED BY <1>2, <1>5, <1>7, <2>1, <2>2, <2>3, <2>4 DEF QSole
<1>12. QNever'
  BY <1>1, <1>2, <1>4, <1>5, <1>7, <1>9, QConstants DEF QInv, QNever
<1>13. Q!JobsTellTheirOutcome'
  BY <1>2, <1>5, <1>7, <1>10 DEF QInv, Q!JobsTellTheirOutcome, QSole
<1> QED BY <1>6, <1>8, <1>11, <1>12, <1>13 DEF QInv

\* The tools, and a crash.
LEMMA QTools ==
  ASSUME QInv, NEW x \in Actor,
         \/ Q!Crash(x) \/ Q!CreateNow(x) \/ Q!UpdateQuestion(x)
         \/ \E n \in Nat \ {0} : Q!GenerateNow(x, n)
         \/ \E q \in Draft, s \in {"approved", "rejected"} : Q!Review(x, q, s)
  PROVE  QInv'
<1>0. qact[x] \in QActor /\ qact \in [Actor -> QActor]
  BY DEF QInv, QType
<1>1. Q!Idle \in QActor /\ Q!Idle.pc = "idle" /\ Q!Idle.on = None
  BY DEF Q!Idle, QActor
<1>2. UNCHANGED <<qqueue, job, tried, qlost>>
  BY DEF Q!Crash, Q!CreateNow, Q!UpdateQuestion, Q!GenerateNow, Q!Review, Q!history
<1>3. PICK r \in QActor : qact' = [qact EXCEPT ![x] = r] /\ r.on = None /\ r.pc \notin QWorking
  <2>1. CASE Q!Crash(x) \/ Q!UpdateQuestion(x)
    BY <1>1, <2>1 DEF Q!Crash, Q!UpdateQuestion, QWorking
  <2>2. CASE Q!CreateNow(x)
    <3>1. qact[x].pc = "now" /\ qact[x].left \in Nat /\ qact[x].left > 0 /\ qact[x].on = None
      BY <1>0, <2>2 DEF Q!CreateNow, Q!At, QActor, QInv, QActs, QWorking
    <3> DEFINE left == [qact[x] EXCEPT !.left = @ - 1]
    <3>2. qact[x].left # 1 => left \in QActor /\ left.on = None /\ left.pc = "now"
      BY <1>0, <3>1 DEF QActor
    <3>3. CASE qact[x].left = 1
      BY <1>0, <1>1, <2>2, <3>3 DEF Q!CreateNow, QWorking
    <3>4. CASE qact[x].left # 1
      <4>1. qact' = [qact EXCEPT ![x] = left]
        BY <1>0, <2>2, <3>4 DEF Q!CreateNow, QActor
      <4> HIDE DEF left
      <4> QED BY <3>2, <3>4, <4>1 DEF QWorking
    <3> QED BY <3>3, <3>4
  <2>3. CASE \E n \in Nat \ {0} : Q!GenerateNow(x, n)
    <3>1. PICK n \in Nat \ {0} : Q!GenerateNow(x, n)
      BY <2>3
    <3> DEFINE r == [Q!Idle EXCEPT !.pc = "now", !.left = n]
    <3>2. r \in QActor /\ r.on = None /\ r.pc = "now"
      <4>1. n \in Nat
        OBVIOUS
      <4> QED BY <1>1, <4>1 DEF QActor
    <3>3. qact' = [qact EXCEPT ![x] = r]
      BY <3>1 DEF Q!GenerateNow, Q!Begin
    <3> HIDE DEF r
    <3> QED BY <3>2, <3>3 DEF QWorking
  <2>4. CASE \E q \in Draft, s \in {"approved", "rejected"} : Q!Review(x, q, s)
    <3>1. PICK q \in Draft, s \in {"approved", "rejected"} : Q!Review(x, q, s)
      BY <2>4
    <3> DEFINE r == [Q!Idle EXCEPT !.pc = "review", !.ids = {q}, !.status = s]
    <3>2. r \in QActor /\ r.on = None /\ r.pc = "review"
      BY <1>1 DEF QActor
    <3>3. qact' = [qact EXCEPT ![x] = r]
      BY <3>1 DEF Q!Review, Q!Begin
    <3> HIDE DEF r
    <3> QED BY <3>2, <3>3 DEF QWorking
  <2> QED BY <2>1, <2>2, <2>3, <2>4
<1>4. /\ question' \in [Draft -> [status : {"none", "draft", "approved", "rejected"}, of : Generation \cup {None}]]
      /\ \A q \in Draft : question'[q].of = question[q].of
  <2>1. question \in [Draft -> [status : {"none", "draft", "approved", "rejected"}, of : Generation \cup {None}]]
    BY DEF QInv, QType
  <2>2. \/ question' = question
        \/ \E q \in Draft, s \in {"none", "draft", "approved", "rejected"} :
              question' = [question EXCEPT ![q].status = s]
    <3>1. CASE Q!CreateNow(x)
      <4>1. Q!FreshId \in Draft
        BY <3>1 DEF Q!CreateNow, Q!FreshId, Q!Fresh
      <4> QED BY <3>1, <4>1 DEF Q!CreateNow
    <3>2. CASE Q!UpdateQuestion(x)
      BY <1>0, <3>2 DEF Q!UpdateQuestion, QActor
    <3>3. CASE ~Q!CreateNow(x) /\ ~Q!UpdateQuestion(x)
      BY <3>3 DEF Q!Crash, Q!GenerateNow, Q!Review
    <3> QED BY <3>1, <3>2, <3>3
  <2>3. ASSUME NEW q \in Draft, NEW s \in {"none", "draft", "approved", "rejected"},
               question' = [question EXCEPT ![q].status = s]
        PROVE  /\ question' \in [Draft -> [status : {"none", "draft", "approved", "rejected"}, of : Generation \cup {None}]]
               /\ \A p \in Draft : question'[p].of = question[p].of
    BY <2>1, <2>3
  <2> QED BY <2>1, <2>2, <2>3
<1>5. /\ QType' /\ qact'[x].on = None /\ qact'[x].pc \notin QWorking
      /\ \A y \in Actor \ {x} : qact'[y] = qact[y]
  BY <1>0, <1>2, <1>3, <1>4 DEF QInv, QType
<1> QED BY <1>2, <1>4, <1>5, QAside

\* Every step keeps the invariant.
LEMMA QNext == QInv /\ [Q!Next]_qvars => QInv'
<1> SUFFICES ASSUME QInv, [Q!Next]_qvars PROVE QInv'
  OBVIOUS
<1>1. CASE UNCHANGED qvars
  BY <1>1 DEF qvars, QInv, QType, QActs, QOnce, QSole, QNever, Q!Generated, Q!JobsTellTheirOutcome
<1>2. CASE Q!Next
  <2>1. CASE \E j \in Generation : Q!Send(j) \/ Q!VisibilityTimeout(j) \/ \E x \in Actor : Q!Receive(x, j)
    BY <2>1, QQueue, QReceive
  <2>4. \A n : 0 .. n \subseteq Nat /\ 1 .. n \subseteq Nat \ {0}
    OBVIOUS
  <2>2. ASSUME NEW x \in Actor,
               \/ Q!MarkRunning(x) \/ Q!Succeed(x) \/ Q!GenerationFails(x) \/ Q!MarkFailed(x) \/ Q!RecordFails(x)
               \/ \E n \in Nat : Q!Generate(x, n)
        PROVE  QInv'
    BY <2>2, QWorker
  <2>3. ASSUME NEW x \in Actor,
               \/ Q!Crash(x) \/ Q!CreateNow(x) \/ Q!UpdateQuestion(x)
               \/ \E n \in Nat \ {0} : Q!GenerateNow(x, n)
               \/ \E q \in Draft, s \in {"approved", "rejected"} : Q!Review(x, q, s)
        PROVE  QInv'
    BY <2>3, QTools
  <2>5. CASE \E x \in Actor : \/ \E n \in 0 .. Q!Cardinality(Draft) : Q!Generate(x, n)
                              \/ \E n \in 1 .. Q!Cardinality(Draft) : Q!GenerateNow(x, n)
    BY <2>2, <2>3, <2>4, <2>5
  <2> QED BY <1>2, <2>1, <2>2, <2>3, <2>5, QCreate, QAck DEF Q!Next
<1> QED BY <1>1, <1>2

\* It holds of every reachable state.
LEMMA QInvariant == Spec => []QInv
<1>1. Init => QInv
  BY QStart DEF Init
<1> QED BY <1>1, QNext, WorkersStep, PTL DEF Spec

-----------------------------------------------------------------------------
(***************************************************************************)
(* Background runs.  Until its thread has reported, a run is shown as      *)
(* running, and nothing that happens to the thread after its report        *)
(* changes what is shown.                                                  *)
(***************************************************************************)
ORun ==
  [kind : O!Kind \cup {"none"}, status : {"none", "running", "completed", "failed"}, report : BOOLEAN,
   done : Nat, details : BOOLEAN, verdict : BOOLEAN]

OThread ==
  [pc : {"gone", "start", "load", "work", "transcript", "fail"}, conn : {"none", "ok", "aborted", "broken"},
   missing : SUBSET Simulated, done : Nat]

OType == run \in [Row -> ORun] /\ thread \in [Row -> OThread] /\ olost \subseteq Row

OShown(r) ==
  /\ thread[r].pc \in {"start", "load", "work", "fail"} => run[r].status = "running"
  /\ thread[r].pc = "transcript" => run[r].status = "completed"
  /\ thread[r].pc = "gone" /\ run[r].kind # "none" /\ r \notin olost => run[r].status \in {"completed", "failed"}
  /\ run[r].status = "completed" => run[r].report /\ (run[r].kind = "bench" => run[r].details)
  /\ run[r].status # "completed" => ~run[r].report /\ ~run[r].details

OInv == OType /\ \A r \in Row : OShown(r)

\* It holds initially.
LEMMA OStart == O!Init => OInv
BY DEF O!Init, O!NoRun, O!NoThread, OInv, OType, ORun, OThread, OShown, O!Kind

\* One run's step keeps it when it leaves that run as it should be.
LEMMA OOne ==
  ASSUME OInv, NEW r \in Row, NEW n \in ORun, NEW t \in OThread,
         run' = [run EXCEPT ![r] = n], thread' = [thread EXCEPT ![r] = t],
         olost \subseteq olost', olost' \subseteq olost \cup {r},
         t.pc \in {"start", "load", "work", "fail"} => n.status = "running",
         t.pc = "transcript" => n.status = "completed",
         t.pc = "gone" /\ n.kind # "none" => r \in olost' \/ n.status \in {"completed", "failed"},
         n.status = "completed" => n.report /\ (n.kind = "bench" => n.details),
         n.status # "completed" => ~n.report /\ ~n.details
  PROVE  OInv'
<1>1. OType'
  BY DEF OInv, OType
<1>2. run'[r] = n /\ thread'[r] = t
  BY DEF OInv, OType
<1>3. \A o \in Row \ {r} : run'[o] = run[o] /\ thread'[o] = thread[o] /\ (o \in olost' <=> o \in olost)
  BY DEF OInv, OType
<1>4. ASSUME NEW o \in Row PROVE OShown(o)'
  <2>1. CASE o = r
    BY <1>2, <2>1 DEF OShown
  <2>2. CASE o # r
    BY <1>3, <2>2 DEF OInv, OShown
  <2> QED BY <2>1, <2>2
<1> QED BY <1>1, <1>4 DEF OInv

\* A step of the thread that leaves its run alone.
LEMMA OThreads ==
  ASSUME OInv, NEW r \in Row, NEW t \in OThread,
         run' = run, thread' = [thread EXCEPT ![r] = t],
         olost \subseteq olost', olost' \subseteq olost \cup {r},
         t.pc \in {"start", "load", "work", "fail"} => thread[r].pc \in {"start", "load", "work", "fail"},
         t.pc = "transcript" => thread[r].pc = "transcript",
         t.pc = "gone" => r \in olost' \/ thread[r].pc \in {"gone", "transcript"}
  PROVE  OInv'
<1>1. run[r] \in ORun /\ OShown(r) /\ run' = [run EXCEPT ![r] = run[r]]
  BY DEF OInv, OType
<1> QED BY <1>1, OOne DEF OShown

\* Steps of the thread.
LEMMA OThreadSteps ==
  ASSUME OInv, NEW r \in Row,
         \/ O!Connect(r) \/ O!ConnectFails(r) \/ O!Load(r) \/ O!TranscriptFails(r) \/ O!StatementFails(r)
         \/ O!ConnectionBreaks(r) \/ O!Raise(r) \/ O!PersistFails(r)
         \/ \E q \in Simulated, found \in BOOLEAN : O!Path(r, q, found)
  PROVE  OInv'
<1>0. thread[r] \in OThread /\ run[r] \in ORun
  BY DEF OInv, OType
<1>1. O!NoThread \in OThread /\ O!NoThread.pc = "gone"
  BY DEF O!NoThread, OThread
<1>2. /\ \A pc \in {"load", "work", "fail"}, conn \in {"none", "ok"} : [thread[r] EXCEPT !.pc = pc, !.conn = conn] \in OThread
      /\ \A conn \in {"aborted", "broken"} : [thread[r] EXCEPT !.conn = conn] \in OThread
      /\ \A m \in SUBSET Simulated : [thread[r] EXCEPT !.missing = m] \in OThread
      /\ \A m \in SUBSET Simulated : [thread[r] EXCEPT !.pc = "work", !.missing = m] \in OThread
      /\ [thread[r] EXCEPT !.pc = "fail"] \in OThread
  BY <1>0 DEF OThread
<1>3. CASE O!Connect(r)
  <2>1. PICK pc \in {"load", "work"}, conn \in {"none", "ok"} : thread' = [thread EXCEPT ![r].pc = pc, ![r].conn = conn]
    BY <1>3 DEF O!Connect
  <2> DEFINE t == [thread[r] EXCEPT !.pc = pc, !.conn = conn]
  <2>2. t \in OThread /\ t.pc = pc
    <3>1. t \in OThread
      BY <1>2, <2>1
    <3>2. t.pc = pc
      BY <1>0 DEF OThread
    <3> QED BY <3>1, <3>2
  <2>3. thread' = [thread EXCEPT ![r] = t] /\ run' = run /\ olost' = olost /\ thread[r].pc = "start"
    BY <1>3, <2>1 DEF O!Connect, O!At
  <2> HIDE DEF t
  <2> QED BY <2>2, <2>3, OThreads
<1>4. CASE O!ConnectFails(r) \/ O!TranscriptFails(r) \/ O!PersistFails(r)
  <2>1. /\ run' = run /\ thread' = [thread EXCEPT ![r] = O!NoThread]
        /\ olost' = olost \cup {r} \/ (olost' = olost /\ thread[r].pc = "transcript")
    BY <1>4 DEF O!ConnectFails, O!TranscriptFails, O!PersistFails, O!End, O!At
  <2> QED BY <1>1, <2>1, OThreads
<1>5. CASE O!Load(r)
  <2> DEFINE t == [thread[r] EXCEPT !.pc = "work", !.missing = Simulated \ path]
  <2>1. t \in OThread /\ t.pc = "work"
    BY <1>0 DEF OThread
  <2>2. thread' = [thread EXCEPT ![r] = t] /\ run' = run /\ olost' = olost /\ thread[r].pc = "load"
    BY <1>5 DEF O!Load, O!At
  <2> HIDE DEF t
  <2> QED BY <2>1, <2>2, OThreads
<1>6. CASE \E q \in Simulated, found \in BOOLEAN : O!Path(r, q, found)
  <2>1. PICK q \in Simulated, found \in BOOLEAN : O!Path(r, q, found)
    BY <1>6
  <2> DEFINE t == [thread[r] EXCEPT !.missing = thread[r].missing \ {q}]
  <2>2. t \in OThread /\ t.pc = thread[r].pc
    BY <1>0 DEF OThread
  <2>3. thread' = [thread EXCEPT ![r] = t] /\ run' = run /\ olost' = olost /\ thread[r].pc = "work"
    BY <2>1 DEF O!Path, O!At
  <2> HIDE DEF t
  <2> QED BY <2>2, <2>3, OThreads
<1>7. CASE O!StatementFails(r) \/ O!ConnectionBreaks(r)
  <2>1. PICK conn \in {"aborted", "broken"} : thread' = [thread EXCEPT ![r].conn = conn]
    BY <1>7 DEF O!StatementFails, O!ConnectionBreaks
  <2> DEFINE t == [thread[r] EXCEPT !.conn = conn]
  <2>2. t \in OThread /\ t.pc = thread[r].pc
    BY <1>0 DEF OThread
  <2>3. thread' = [thread EXCEPT ![r] = t] /\ run' = run /\ olost' = olost
    BY <1>7, <2>1 DEF O!StatementFails, O!ConnectionBreaks
  <2>4. thread[r].pc # "gone" \/ thread[r].pc = "gone"
    OBVIOUS
  <2> HIDE DEF t
  <2> QED BY <1>0, <2>2, <2>3, OThreads DEF OThread
<1>8. CASE O!Raise(r)
  <2> DEFINE t == [thread[r] EXCEPT !.pc = "fail"]
  <2>1. t \in OThread /\ t.pc = "fail"
    BY <1>0 DEF OThread
  <2>2. thread' = [thread EXCEPT ![r] = t] /\ run' = run /\ olost' = olost /\ thread[r].pc \in {"load", "work"}
    BY <1>8 DEF O!Raise, O!At, O!Goto
  <2> HIDE DEF t
  <2> QED BY <2>1, <2>2, OThreads
<1> QED BY <1>3, <1>4, <1>5, <1>6, <1>7, <1>8

\* Steps that write the row of the run.
LEMMA ORows ==
  ASSUME OInv, NEW r \in Row,
         \/ \E kind \in O!Kind : O!Create(r, kind)
         \/ O!Agent(r) \/ O!Complete(r) \/ O!Transcript(r) \/ O!RecordFailure(r) \/ O!Evaluate(r)
  PROVE  OInv'
<1>0. thread[r] \in OThread /\ run[r] \in ORun /\ OShown(r)
  BY DEF OInv, OType
<1>1. O!NoThread \in OThread /\ O!NoThread.pc = "gone"
  BY DEF O!NoThread, OThread
<1>2. CASE \E kind \in O!Kind : O!Create(r, kind)
  <2>1. PICK kind \in O!Kind : O!Create(r, kind)
    BY <1>2
  <2> DEFINE n == [O!NoRun EXCEPT !.kind = kind, !.status = "running"]
             t == [thread[r] EXCEPT !.pc = "start"]
  <2>2. n \in ORun /\ n.status = "running" /\ ~n.report /\ ~n.details
    BY DEF O!NoRun, ORun
  <2>3. t \in OThread /\ t.pc = "start"
    BY <1>0 DEF OThread
  <2>4. thread' = [thread EXCEPT ![r] = t] /\ run' = [run EXCEPT ![r] = n] /\ olost' = olost
    BY <2>1 DEF O!Create, O!Write, O!Goto
  <2> HIDE DEF n, t
  <2> QED BY <2>2, <2>3, <2>4, OOne
<1>3. CASE O!Agent(r)
  <2> DEFINE t == [thread[r] EXCEPT !.done = thread[r].done + 1]
             m == [run[r] EXCEPT !.done = thread[r].done + 1]
  <2>1. thread[r].done + 1 \in Nat
    BY <1>0 DEF OThread
  <2>2. t \in OThread /\ t.pc = thread[r].pc
    BY <1>0, <2>1 DEF OThread
  <2>3. m \in ORun /\ m.status = run[r].status /\ m.report = run[r].report /\ m.details = run[r].details /\ m.kind = run[r].kind
    BY <1>0, <2>1 DEF ORun
  <2>4. /\ thread' = [thread EXCEPT ![r] = t] /\ olost' = olost /\ thread[r].pc = "work"
        /\ run' = [run EXCEPT ![r] = m] \/ run' = run
    BY <1>3 DEF O!Agent, O!Write, O!At
  <2> HIDE DEF m, t
  <2>5. PICK n \in ORun : /\ run' = [run EXCEPT ![r] = n] /\ n.status = run[r].status /\ n.report = run[r].report
                          /\ n.details = run[r].details /\ n.kind = run[r].kind
    BY <1>0, <2>3, <2>4 DEF OInv, OType
  <2> QED BY <1>0, <2>2, <2>4, <2>5, OOne DEF OShown
<1>4. CASE O!Complete(r)
  <2> DEFINE bench == run[r].kind = "bench"
             n == [run[r] EXCEPT !.status = "completed", !.report = TRUE, !.details = bench]
             t == [thread[r] EXCEPT !.pc = "transcript"]
  <2>1. n \in ORun /\ n.status = "completed" /\ n.report /\ n.kind = run[r].kind /\ (n.kind = "bench" => n.details)
    <3>1. bench \in BOOLEAN
      OBVIOUS
    <3>2. \A d \in BOOLEAN : LET m == [run[r] EXCEPT !.status = "completed", !.report = TRUE, !.details = d]
                             IN m \in ORun /\ m.status = "completed" /\ m.report = TRUE /\ m.kind = run[r].kind /\ m.details = d
      BY <1>0 DEF ORun
    <3> QED BY <3>1, <3>2
  <2>2. t \in OThread /\ t.pc = "transcript"
    BY <1>0 DEF OThread
  <2>3. /\ run' = [run EXCEPT ![r] = n] /\ olost' = olost
        /\ thread' = [thread EXCEPT ![r] = t] \/ thread' = [thread EXCEPT ![r] = O!NoThread]
    BY <1>4 DEF O!Complete, O!Write, O!Goto, O!End
  <2> HIDE DEF n, t
  <2>4. PICK u \in OThread : thread' = [thread EXCEPT ![r] = u] /\ u.pc \in {"transcript", "gone"}
    BY <1>1, <2>2, <2>3
  <2> QED BY <2>1, <2>3, <2>4, OOne
<1>5. CASE O!Transcript(r)
  <2> DEFINE n == [run[r] EXCEPT !.details = TRUE]
  <2>1. n \in ORun /\ n.status = run[r].status /\ n.report = run[r].report /\ n.kind = run[r].kind /\ n.details
    BY <1>0 DEF ORun
  <2>2. /\ run' = [run EXCEPT ![r] = n] /\ olost' = olost
        /\ thread' = [thread EXCEPT ![r] = O!NoThread] /\ thread[r].pc = "transcript"
    BY <1>5 DEF O!Transcript, O!Write, O!End, O!At
  <2> HIDE DEF n
  <2> QED BY <1>0, <1>1, <2>1, <2>2, OOne DEF OShown
<1>6. CASE O!RecordFailure(r)
  <2> DEFINE n == [run[r] EXCEPT !.status = "failed"]
  <2>1. n \in ORun /\ n.status = "failed" /\ n.report = run[r].report /\ n.details = run[r].details
    BY <1>0 DEF ORun
  <2>2. /\ thread' = [thread EXCEPT ![r] = O!NoThread] /\ thread[r].pc = "fail"
        /\ \/ run' = run /\ olost' = olost \cup {r}
           \/ run' = [run EXCEPT ![r] = n] /\ olost' = olost
    BY <1>6 DEF O!RecordFailure, O!Write, O!End, O!At
  <2> HIDE DEF n
  <2>3. run[r].status = "running"
    BY <1>0, <2>2 DEF OShown
  <2>4. CASE run' = run /\ olost' = olost \cup {r}
    BY <1>1, <2>2, <2>4, OThreads
  <2>5. CASE run' = [run EXCEPT ![r] = n] /\ olost' = olost
    BY <1>0, <1>1, <2>1, <2>2, <2>3, <2>5, OOne DEF OShown
  <2> QED BY <2>2, <2>4, <2>5
<1>7. CASE O!Evaluate(r)
  <2> DEFINE n == [run[r] EXCEPT !.verdict = TRUE]
  <2>1. n \in ORun /\ n.status = run[r].status /\ n.report = run[r].report /\ n.kind = run[r].kind /\ n.details = run[r].details
    BY <1>0 DEF ORun
  <2>2. run' = [run EXCEPT ![r] = n] /\ olost' = olost /\ thread' = [thread EXCEPT ![r] = thread[r]]
    BY <1>7 DEF O!Evaluate, O!Write, OInv, OType
  <2> HIDE DEF n
  <2> QED BY <1>0, <2>1, <2>2, OOne DEF OShown
<1> QED BY <1>2, <1>3, <1>4, <1>5, <1>6, <1>7

\* Every step keeps the invariant; a restart leaves no thread.
LEMMA ONext == OInv /\ [O!Next]_ovars => OInv'
<1> SUFFICES ASSUME OInv, [O!Next]_ovars PROVE OInv'
  OBVIOUS
<1>1. CASE UNCHANGED ovars
  BY <1>1 DEF ovars, OInv, OType, OShown
<1>2. CASE O!Restart
  <2>1. O!NoThread \in OThread /\ O!NoThread.pc = "gone"
    BY DEF O!NoThread, OThread
  <2>2. run' = run /\ olost' = olost \cup {r \in Row : thread[r].pc # "gone"} /\ thread' = [r \in Row |-> O!NoThread]
    BY <1>2 DEF O!Restart, O!At
  <2> HIDE DEF O!NoThread
  <2> QED BY <2>1, <2>2 DEF OInv, OType, OShown
<1> QED BY <1>1, <1>2, OThreadSteps, ORows DEF O!Next

\* It holds of every reachable state.
LEMMA OInvariant == Spec => []OInv
<1>1. Init => OInv
  BY OStart DEF Init
<1> QED BY <1>1, ONext, WorkersStep, PTL DEF Spec

-----------------------------------------------------------------------------
(***************************************************************************)
(* Graph builds.  First what holds however often a message is received:    *)
(* a worker past Create has a row of its own, what is active was built,    *)
(* and what is acknowledged is recorded.                                   *)
(***************************************************************************)
GOwn == {"fetch", "upload", "update", "built", "activate", "deactivating", "commit"}
GPc == GOwn \cup {"idle", "number", "create", "mark", "ack"}

GRow ==
  [job : Build \cup {None}, no : Nat, active : BOOLEAN, state : {"none", "created", "empty", "built"},
   failed : BOOLEAN]

GWorker ==
  [pc : GPc, job : Build \cup {None}, id : Version \cup {None}, no : Nat, seen : SUBSET Version,
   off : SUBSET Version, broken : BOOLEAN]

GType ==
  /\ sent \in Seq(Build)
  /\ gqueue \in [Build -> {"none", "visible", "hidden", "deleted"}]
  /\ ver \in [Version -> GRow]
  /\ wk \in [Actor -> GWorker]
  /\ twice \subseteq Build /\ glost \subseteq Build

GMine(w) ==
  /\ wk[w].id \in G!Rows
  /\ ver[wk[w].id].job = wk[w].job
  /\ ver[wk[w].id].no = wk[w].no

GRecorded(j) == \E v \in G!Rows : ver[v].job = j /\ (ver[v].failed \/ ver[v].state \in {"empty", "built"})

GFit(w) ==
  /\ wk[w].pc = "idle" <=> wk[w].job = None
  /\ wk[w].pc \in GOwn => GMine(w)
  /\ wk[w].pc = "mark" => wk[w].broken \/ GMine(w)
  /\ wk[w].pc = "ack" => wk[w].job \in glost \/ GRecorded(wk[w].job)
  /\ wk[w].pc = "built" => wk[w].no \in DOMAIN archive
  /\ wk[w].pc \in {"activate", "deactivating", "commit"} => ver[wk[w].id].state \in {"empty", "built"}

GServed ==
  \A v \in G!Rows :
    /\ ver[v].active => ver[v].state \in {"empty", "built"}
    /\ ver[v].state = "built" => ver[v].no \in DOMAIN archive

GOutcome == \A j \in Build \ glost : gqueue[j] = "deleted" => GRecorded(j)

GBase == GType /\ (\A w \in Actor : GFit(w)) /\ GServed /\ GOutcome

\* the assumption on the constants
LEMMA GConstants == None \notin Build /\ None \notin Version
BY ModulesAssumption DEF G!GraphBuildAssumption

\* It holds initially.
LEMMA GBaseStart == G!Init => GBase
<1> SUFFICES ASSUME G!Init PROVE GBase
  OBVIOUS
<1>1. G!Idle \in GWorker /\ G!Idle.pc = "idle" /\ G!Idle.job = None
  BY DEF G!Idle, GWorker, GPc
<1>2. G!NoRow \in GRow /\ G!NoRow.job = None
  BY DEF G!NoRow, GRow
<1> HIDE DEF G!Idle, G!NoRow
<1>3. GType
  BY <1>1, <1>2 DEF G!Init, GType
<1>4. G!Rows = {}
  BY <1>2 DEF G!Init, G!Rows
<1>5. \A w \in Actor : GFit(w)
  BY <1>1 DEF G!Init, GFit, GOwn
<1> QED BY <1>3, <1>4, <1>5 DEF GBase, GServed, GOutcome, G!Init

\* What every step does to the rows: they keep their job and number, and what is built or
\* marked as failed stays so, or is built.
GRowsKept ==
  \A v \in G!Rows :
    /\ v \in G!Rows' /\ ver'[v].job = ver[v].job /\ ver'[v].no = ver[v].no
    /\ ver[v].state \in {"empty", "built"} => ver'[v].state \in {"empty", "built"}
    /\ ver[v].failed => ver'[v].failed \/ ver'[v].state \in {"empty", "built"}

\* A step of one worker that leaves it fit, and the rows served, keeps the invariant.
LEMMA GStep ==
  ASSUME GBase, GType', NEW w \in Actor, \A x \in Actor \ {w} : wk'[x] = wk[x],
         GFit(w)', GRowsKept, GServed',
         DOMAIN archive \subseteq DOMAIN archive', glost \subseteq glost',
         \A j \in Build \ glost' : gqueue'[j] = "deleted" => gqueue[j] = "deleted" \/ GRecorded(j)
  PROVE  GBase'
<1>1. \A j : GRecorded(j) => GRecorded(j)'
  BY DEF GRecorded, GRowsKept
<1>2. ASSUME NEW x \in Actor \ {w} PROVE GFit(x)'
  <2>1. wk'[x] = wk[x] /\ GFit(x)
    BY <1>2 DEF GBase
  <2>2. GMine(x) => GMine(x)'
    BY <2>1 DEF GMine, GRowsKept
  <2>3. wk[x].pc \in {"activate", "deactivating", "commit"} => wk[x].id \in G!Rows
    BY <2>1 DEF GFit, GOwn, GMine
  <2>4. wk[x].pc \in {"activate", "deactivating", "commit"} => ver'[wk[x].id].state \in {"empty", "built"}
    BY <2>1, <2>3 DEF GFit, GRowsKept
  <2> QED BY <1>1, <2>1, <2>2, <2>4 DEF GFit
<1>3. GOutcome'
  BY <1>1 DEF GBase, GOutcome
<1> QED BY <1>2, <1>3 DEF GBase

\* A step that leaves the rows alone.
LEMMA GSameRows ==
  ASSUME GBase, UNCHANGED ver, DOMAIN archive \subseteq DOMAIN archive'
  PROVE  GRowsKept /\ GServed' /\ G!Rows' = G!Rows /\ (\A j : GRecorded(j)' <=> GRecorded(j))
BY DEF GBase, GRowsKept, GServed, G!Rows, GRecorded

\* The queue's steps.
LEMMA GQueue ==
  ASSUME GBase, NEW j \in Build, G!Send(j) \/ G!VisibilityTimeout(j)
  PROVE  GBase'
<1>1. UNCHANGED <<ver, archive, wk, twice, glost>>
  BY DEF G!Send, G!VisibilityTimeout
<1>2. sent' \in Seq(Build)
  BY DEF G!Send, G!VisibilityTimeout, GBase, GType
<1>3. /\ gqueue' \in [Build -> {"none", "visible", "hidden", "deleted"}]
      /\ \A i \in Build : gqueue'[i] = "deleted" => gqueue[i] = "deleted"
  BY DEF G!Send, G!VisibilityTimeout, GBase, GType
<1> QED BY <1>1, <1>2, <1>3 DEF GBase, GType, GFit, GMine, GRecorded, GServed, GOutcome, G!Rows

\* Steps of a worker that leave the rows alone.
LEMMA GLocal ==
  ASSUME GBase, NEW w \in Actor,
         \/ \E j \in Build : G!Receive(w, j)
         \/ G!NextNumber(w) \/ (\E found \in BOOLEAN : G!FetchChunks(w, found)) \/ G!Upload(w)
         \/ G!Deactivate(w) \/ G!Deactivated(w) \/ G!BuildFails(w)
         \/ G!ConnectionBreaks(w) \/ G!StatementFails(w) \/ G!Ack(w) \/ G!Crash(w)
  PROVE  GBase'
<1>0. wk \in [Actor -> GWorker] /\ wk[w] \in GWorker /\ GFit(w)
  BY DEF GBase, GType
<1>1. G!Idle \in GWorker /\ G!Idle.pc = "idle" /\ G!Idle.job = None /\ G!Idle.broken = FALSE
  BY DEF G!Idle, GWorker, GPc
<1>2. ver' = ver /\ glost' = glost /\ DOMAIN archive \subseteq DOMAIN archive'
  BY DEF G!Receive, G!NextNumber, G!FetchChunks, G!Upload, G!Deactivate, G!Deactivated, G!BuildFails,
         G!ConnectionBreaks, G!StatementFails, G!Ack, G!Crash
<1>3. GRowsKept /\ GServed' /\ G!Rows' = G!Rows /\ (\A j : GRecorded(j)' <=> GRecorded(j))
  BY <1>2, GSameRows
<1>4. ASSUME GType', \A x \in Actor \ {w} : wk'[x] = wk[x], GFit(w)',
             \A j \in Build : gqueue'[j] = "deleted" => gqueue[j] = "deleted" \/ j \in glost \/ GRecorded(j)
      PROVE  GBase'
  BY <1>2, <1>3, <1>4, GStep
<1>5. CASE \E j \in Build : G!Receive(w, j)
  <2>1. PICK j \in Build : G!Receive(w, j)
    BY <1>5
  <2> DEFINE r == [G!Idle EXCEPT !.pc = "number", !.job = j, !.broken = wk[w].broken]
  <2>2. r \in GWorker /\ r.pc = "number" /\ r.job = j
    BY <1>0, <1>1 DEF GWorker, GPc
  <2>3. /\ wk' = [wk EXCEPT ![w] = r] /\ sent' = sent /\ gqueue' = [gqueue EXCEPT ![j] = "hidden"]
        /\ twice' \subseteq twice \cup {j}
    BY <2>1 DEF G!Receive
  <2> HIDE DEF r
  <2>4. GType'
    BY <1>2, <2>2, <2>3 DEF GBase, GType
  <2>5. wk'[w] = r /\ \A x \in Actor \ {w} : wk'[x] = wk[x]
    BY <1>0, <2>3
  <2>6. GFit(w)'
    BY <2>2, <2>5, GConstants DEF GFit, GOwn
  <2>7. \A i \in Build : gqueue'[i] = "deleted" => gqueue[i] = "deleted"
    BY <2>3 DEF GBase, GType
  <2> QED BY <1>4, <2>4, <2>5, <2>6, <2>7
<1>6. CASE G!NextNumber(w)
  <2>1. PICK n \in {0} \cup {ver[v].no : v \in G!Rows} :
          wk' = [wk EXCEPT ![w].pc = "create", ![w].no = n + 1]
    BY <1>6 DEF G!NextNumber
  <2>2. n \in Nat
    BY <2>1 DEF GBase, GType, GRow, G!Rows
  <2>3. wk[w].pc = "number" /\ UNCHANGED <<sent, gqueue, ver, archive, twice, glost>>
    BY <1>6 DEF G!NextNumber, G!At
  <2>4. /\ wk' \in [Actor -> GWorker] /\ wk'[w].pc = "create" /\ wk'[w].job = wk[w].job
        /\ \A x \in Actor \ {w} : wk'[x] = wk[x]
    <3> DEFINE r == [wk[w] EXCEPT !.pc = "create", !.no = n + 1]
    <3>0. n + 1 \in Nat
      BY <2>2
    <3>1. r \in GWorker /\ r.pc = "create" /\ r.job = wk[w].job
      BY <1>0, <3>0, Zenon DEF GWorker, GPc
    <3>2. wk' = [wk EXCEPT ![w] = r]
      BY <1>0, <2>1
    <3> HIDE DEF r
    <3> QED BY <1>0, <3>1, <3>2
  <2>5. GType'
    BY <2>3, <2>4 DEF GBase, GType
  <2>6. GFit(w)'
    BY <1>0, <2>3, <2>4 DEF GFit, GOwn
  <2> QED BY <1>4, <2>3, <2>4, <2>5, <2>6
<1>7. ASSUME wk' \in [Actor -> GWorker], \A x \in Actor \ {w} : wk'[x] = wk[x],
             UNCHANGED <<sent, gqueue, twice>>,
             wk'[w].job = wk[w].job, wk'[w].id = wk[w].id, wk'[w].no = wk[w].no,
             wk'[w].pc \in GOwn \cup {"number", "create", "mark"},
             wk[w].pc \in GOwn \cup {"number", "create", "mark"},
             wk'[w].pc \in GOwn => wk[w].pc \in GOwn,
             wk'[w].pc = "mark" => wk'[w].broken \/ wk[w].pc \in GOwn,
             wk'[w].pc = "built" => wk[w].no \in DOMAIN archive',
             wk'[w].pc \in {"activate", "deactivating", "commit"} => wk[w].pc \in {"activate", "deactivating", "commit"}
      PROVE  GBase'
  <2>1. GMine(w) => GMine(w)'
    BY <1>2, <1>3, <1>7 DEF GMine
  <2>2. GFit(w)'
    BY <1>0, <1>2, <1>7, <2>1 DEF GFit, GOwn
  <2>3. GType'
    BY <1>2, <1>7 DEF GBase, GType
  <2> QED BY <1>4, <1>7, <2>2, <2>3
<1>8. CASE \E found \in BOOLEAN : G!FetchChunks(w, found)
  BY <1>0, <1>7, <1>8 DEF G!FetchChunks, G!Goto, G!At, GWorker, GPc, GOwn
<1>9. CASE G!Upload(w)
  BY <1>0, <1>7, <1>9 DEF G!Upload, G!Goto, G!At, GWorker, GPc, GOwn
<1>10. CASE G!Deactivate(w)
  <2>1. G!Active \subseteq Version
    BY DEF G!Active, G!Rows
  <2> QED BY <1>0, <1>7, <1>10, <2>1 DEF G!Deactivate, G!At, GWorker, GPc, GOwn
<1>11. CASE G!Deactivated(w)
  <2>1. wk[w].seen \cap G!Active \subseteq Version
    BY DEF G!Active, G!Rows
  <2> QED BY <1>0, <1>7, <1>11, <2>1 DEF G!Deactivated, G!At, GWorker, GPc, GOwn
<1>12. CASE G!BuildFails(w)
  BY <1>0, <1>7, <1>12 DEF G!BuildFails, G!Goto, GWorker, GPc, GOwn
<1>13. CASE G!ConnectionBreaks(w)
  BY <1>0, <1>7, <1>13 DEF G!ConnectionBreaks, GFit, GWorker, GPc, GOwn
<1>14. CASE G!StatementFails(w)
  BY <1>0, <1>7, <1>14 DEF G!StatementFails, GWorker, GPc, GOwn
<1>15. CASE G!Ack(w)
  <2> DEFINE r == [G!Idle EXCEPT !.broken = wk[w].broken]
  <2>1. r \in GWorker /\ r.pc = "idle" /\ r.job = None
    BY <1>0, <1>1 DEF GWorker
  <2>2. /\ wk[w].pc = "ack" /\ wk' = [wk EXCEPT ![w] = r] /\ sent' = sent /\ twice' = twice
        /\ gqueue' = [gqueue EXCEPT ![wk[w].job] = "deleted"] \/ gqueue' = gqueue
    BY <1>15 DEF G!Ack
  <2> HIDE DEF r
  <2>3. wk'[w] = r /\ (\A x \in Actor \ {w} : wk'[x] = wk[x]) /\ wk' \in [Actor -> GWorker]
    BY <1>0, <2>1, <2>2
  <2>4. wk[w].job \in Build /\ (wk[w].job \in glost \/ GRecorded(wk[w].job))
    BY <1>0, <2>2 DEF GFit, GWorker
  <2>5. GType'
    BY <1>2, <2>2, <2>3, <2>4 DEF GBase, GType
  <2>6. GFit(w)'
    BY <2>1, <2>3 DEF GFit, GOwn
  <2>7. \A i \in Build : gqueue'[i] = "deleted" => gqueue[i] = "deleted" \/ i = wk[w].job
    BY <2>2, <2>4 DEF GBase, GType
  <2> QED BY <1>4, <2>3, <2>4, <2>5, <2>6, <2>7
<1>16. CASE G!Crash(w)
  <2>1. wk' = [wk EXCEPT ![w] = G!Idle] /\ UNCHANGED <<sent, gqueue, twice>>
    BY <1>16 DEF G!Crash
  <2>2. wk'[w] = G!Idle /\ (\A x \in Actor \ {w} : wk'[x] = wk[x]) /\ wk' \in [Actor -> GWorker]
    BY <1>0, <1>1, <2>1
  <2>3. GFit(w)'
    BY <1>1, <2>2 DEF GFit, GOwn
  <2>4. GType'
    BY <1>2, <2>1, <2>2 DEF GBase, GType
  <2> QED BY <1>4, <2>1, <2>2, <2>3, <2>4
<1> QED BY <1>5, <1>6, <1>8, <1>9, <1>10, <1>11, <1>12, <1>13, <1>14, <1>15, <1>16

\* Create adds a row, under an id that no row has.
LEMMA GCreate ==
  ASSUME GBase, NEW w \in Actor, G!Create(w)
  PROVE  GBase'
<1> DEFINE v == CHOOSE v \in Version : v \notin G!Rows
           d == [G!NoRow EXCEPT !.job = wk[w].job, !.no = wk[w].no, !.state = "created"]
           r == [wk[w] EXCEPT !.pc = "fetch", !.id = v]
<1>0. wk \in [Actor -> GWorker] /\ wk[w] \in GWorker /\ GFit(w) /\ ver \in [Version -> GRow]
  BY DEF GBase, GType
<1>1. v \in Version /\ v \notin G!Rows
  <2>1. \E x \in Version : x \notin G!Rows
    BY DEF G!Create, G!Rows
  <2> QED BY <2>1
<1>2. wk[w].pc = "create" /\ wk[w].job \in Build
  BY <1>0 DEF G!Create, G!At, GFit, GWorker
<1>3. d \in GRow /\ d.job = wk[w].job /\ d.no = wk[w].no /\ d.state = "created" /\ d.active = FALSE
  BY <1>0 DEF G!NoRow, GRow, GWorker
<1>4. r \in GWorker /\ r.pc = "fetch" /\ r.id = v /\ r.job = wk[w].job /\ r.no = wk[w].no
  BY <1>0, <1>1 DEF GWorker, GPc, GOwn
<1>5. /\ ver' = [ver EXCEPT ![v] = d] /\ wk' = [wk EXCEPT ![w] = r]
      /\ UNCHANGED <<sent, gqueue, archive, twice, glost>>
  <2>1. /\ ver' = [ver EXCEPT ![v] = d] /\ wk' = [wk EXCEPT ![w].pc = "fetch", ![w].id = v]
        /\ UNCHANGED <<sent, gqueue, archive, twice, glost>>
    BY Zenon DEF G!Create
  <2> HIDE DEF v, d
  <2> QED BY <1>0, <2>1
<1> HIDE DEF v, d, r
<1>6. wk'[w] = r /\ (\A x \in Actor \ {w} : wk'[x] = wk[x]) /\ wk' \in [Actor -> GWorker]
  BY <1>0, <1>4, <1>5
<1>7. ver' \in [Version -> GRow] /\ ver'[v] = d /\ \A x \in Version \ {v} : ver'[x] = ver[x]
  BY <1>0, <1>1, <1>3, <1>5
<1>8. G!Rows' = G!Rows \cup {v}
  BY <1>1, <1>2, <1>3, <1>7, GConstants DEF G!Rows
<1>9. GRowsKept
  BY <1>1, <1>7, <1>8 DEF GRowsKept, G!Rows
<1>10. GServed'
  BY <1>1, <1>3, <1>5, <1>7, <1>8 DEF GBase, GServed, G!Rows
<1>11. GFit(w)'
  BY <1>0, <1>2, <1>3, <1>4, <1>6, <1>7, <1>8, GConstants DEF GFit, GMine, GOwn
<1>12. GType'
  BY <1>5, <1>6, <1>7 DEF GBase, GType
<1> QED BY <1>5, <1>6, <1>9, <1>10, <1>11, <1>12, GStep

\* The other steps change the rows that are there.
LEMMA GRowSteps ==
  ASSUME GBase, NEW w \in Actor, G!UpdateVersion(w) \/ G!Activate(w) \/ G!MarkFailed(w)
  PROVE  GBase'
<1>0. /\ wk \in [Actor -> GWorker] /\ wk[w] \in GWorker /\ GFit(w) /\ ver \in [Version -> GRow]
      /\ G!Rows \subseteq Version /\ glost \subseteq Build
  BY DEF GBase, GType, G!Rows
<1>1. ASSUME ver' \in [Version -> GRow],
             \A v \in Version : ver'[v].job = ver[v].job /\ ver'[v].no = ver[v].no,
             \A v \in G!Rows : /\ ver[v].state \in {"empty", "built"} => ver'[v].state \in {"empty", "built"}
                               /\ ver[v].failed => ver'[v].failed \/ ver'[v].state \in {"empty", "built"}
                               /\ ver'[v].active => ver'[v].state \in {"empty", "built"}
                               /\ ver'[v].state = "built" => ver[v].no \in DOMAIN archive,
             UNCHANGED <<sent, gqueue, archive, twice>>, glost \subseteq glost', glost' \subseteq Build,
             NEW r \in GWorker, wk' = [wk EXCEPT ![w] = r], GFit(w)'
      PROVE  GBase'
  <2>1. G!Rows' = G!Rows
    BY <1>1 DEF G!Rows
  <2>2. GRowsKept /\ GServed'
    BY <1>0, <1>1, <2>1 DEF GRowsKept, GServed
  <2>3. GType' /\ \A x \in Actor \ {w} : wk'[x] = wk[x]
    BY <1>0, <1>1 DEF GBase, GType
  <2> QED BY <1>1, <2>2, <2>3, GStep
<1>2. CASE G!UpdateVersion(w)
  <2> DEFINE i == wk[w].id
             r == [wk[w] EXCEPT !.pc = "activate"]
             st == IF wk[w].pc = "built" THEN "built" ELSE "empty"
             d == [ver[i] EXCEPT !.state = st, !.failed = FALSE]
  <2>1. /\ wk[w].pc \in {"update", "built"} /\ UNCHANGED <<sent, gqueue, archive, twice, glost>>
        /\ i \in G!Rows /\ ver[i].job = wk[w].job /\ ver[i].no = wk[w].no
        /\ wk[w].pc = "built" => wk[w].no \in DOMAIN archive
    BY <1>0, <1>2 DEF G!UpdateVersion, G!At, GFit, GOwn, GMine
  <2>2. r \in GWorker /\ r.pc = "activate" /\ r.id = i /\ r.job = wk[w].job /\ r.no = wk[w].no
    BY <1>0 DEF GWorker, GPc, GOwn
  <2>3. /\ d \in GRow /\ d.job = ver[i].job /\ d.no = ver[i].no /\ d.state = st /\ d.active = ver[i].active
        /\ st \in {"empty", "built"} /\ (st = "built" => wk[w].pc = "built")
    BY <1>0, <2>1 DEF GRow
  <2>4. ver' = [ver EXCEPT ![i] = d] /\ wk' = [wk EXCEPT ![w] = r]
    BY <1>0, <1>2, <2>1 DEF G!UpdateVersion, G!Goto
  <2> HIDE DEF r, d, st
  <2>5. /\ ver' \in [Version -> GRow] /\ ver'[i] = d /\ (\A x \in Version \ {i} : ver'[x] = ver[x])
        /\ wk'[w] = r /\ G!Rows' = G!Rows
    BY <1>0, <2>1, <2>2, <2>3, <2>4 DEF G!Rows
  <2>6. GFit(w)'
    BY <1>0, <2>1, <2>2, <2>3, <2>5 DEF GFit, GMine, GOwn
  <2>7. \A v \in G!Rows : /\ ver[v].state \in {"empty", "built"} => ver'[v].state \in {"empty", "built"}
                          /\ ver[v].failed => ver'[v].failed \/ ver'[v].state \in {"empty", "built"}
                          /\ ver'[v].active => ver'[v].state \in {"empty", "built"}
                          /\ ver'[v].state = "built" => ver[v].no \in DOMAIN archive
    BY <1>0, <2>1, <2>3, <2>5 DEF GBase, GServed
  <2>8. \A v \in Version : ver'[v].job = ver[v].job /\ ver'[v].no = ver[v].no
    BY <2>3, <2>5
  <2> QED BY <1>0, <1>1, <2>1, <2>2, <2>4, <2>5, <2>6, <2>7, <2>8
<1>3. CASE G!Activate(w)
  <2> DEFINE i == wk[w].id
             r == [wk[w] EXCEPT !.pc = "ack", !.off = {}]
  <2>1. /\ UNCHANGED <<sent, gqueue, archive, twice, glost>>
        /\ i \in G!Rows /\ ver[i].job = wk[w].job /\ ver[i].state \in {"empty", "built"}
        /\ wk[w].job # None
    BY <1>0, <1>3 DEF G!Activate, G!At, GFit, GOwn, GMine
  <2>2. r \in GWorker /\ r.pc = "ack" /\ r.job = wk[w].job
    BY <1>0 DEF GWorker, GPc
  <2>3. /\ ver' = [v \in Version |-> [ver[v] EXCEPT !.active = v = i \/ (@ /\ v \notin wk[w].off)]]
        /\ wk' = [wk EXCEPT ![w] = r]
    BY <1>0, <1>3 DEF G!Activate
  <2> HIDE DEF r
  <2>4. ASSUME NEW v \in Version
        PROVE  /\ ver'[v] \in GRow /\ ver'[v].job = ver[v].job /\ ver'[v].no = ver[v].no
               /\ ver'[v].state = ver[v].state /\ ver'[v].failed = ver[v].failed
               /\ ver'[v].active => v = i \/ ver[v].active
    <3> DEFINE act == v = i \/ (ver[v].active /\ v \notin wk[w].off)
    <3>1. ver'[v] = [ver[v] EXCEPT !.active = act] /\ ver[v] \in GRow /\ act \in BOOLEAN
      BY <1>0, <2>3
    <3>2. act => v = i \/ ver[v].active
      OBVIOUS
    <3> HIDE DEF act
    <3> QED BY <3>1, <3>2 DEF GRow
  <2>5. ver' \in [Version -> GRow]
    BY <2>3, <2>4
  <2>6. wk'[w] = r /\ G!Rows' = G!Rows
    BY <1>0, <2>2, <2>3, <2>4 DEF G!Rows
  <2>7. GRecorded(wk[w].job)'
    BY <1>0, <2>1, <2>2, <2>4, <2>6 DEF GRecorded
  <2>8. GFit(w)'
    BY <2>1, <2>2, <2>6, <2>7 DEF GFit, GOwn
  <2>9. \A v \in G!Rows : /\ ver[v].state \in {"empty", "built"} => ver'[v].state \in {"empty", "built"}
                          /\ ver[v].failed => ver'[v].failed \/ ver'[v].state \in {"empty", "built"}
                          /\ ver'[v].active => ver'[v].state \in {"empty", "built"}
                          /\ ver'[v].state = "built" => ver[v].no \in DOMAIN archive
    BY <1>0, <2>1, <2>4 DEF GBase, GServed
  <2> QED BY <1>0, <1>1, <2>1, <2>2, <2>3, <2>4, <2>5, <2>8, <2>9
<1>4. CASE G!MarkFailed(w)
  <2> DEFINE r == [wk[w] EXCEPT !.pc = "ack"]
             own == {v \in G!Rows : ver[v].job = wk[w].job}
  <2>1. /\ UNCHANGED <<sent, gqueue, archive, twice>> /\ wk[w].pc = "mark" /\ wk[w].job \in Build
        /\ glost' = (IF wk[w].broken THEN glost \cup {wk[w].job} ELSE glost)
        /\ wk[w].broken \/ wk[w].id \in own
    BY <1>0, <1>4 DEF G!MarkFailed, GFit, GMine, GWorker
  <2>2. r \in GWorker /\ r.pc = "ack" /\ r.job = wk[w].job
    BY <1>0 DEF GWorker, GPc
  <2>3. wk' = [wk EXCEPT ![w] = r]
    BY <1>0, <1>4 DEF G!MarkFailed, G!Goto
  <2>4. \/ ver' = ver /\ wk[w].broken
        \/ \E v \in own : ver' = [ver EXCEPT ![v].failed = TRUE]
    BY <1>4, <2>1 DEF G!MarkFailed
  <2> HIDE DEF r
  <2>5. ASSUME NEW v \in own, ver' = [ver EXCEPT ![v].failed = TRUE]
        PROVE  /\ ver' \in [Version -> GRow] /\ ver'[v].failed
               /\ \A x \in Version : /\ ver'[x].job = ver[x].job /\ ver'[x].no = ver[x].no
                                     /\ ver'[x].state = ver[x].state /\ ver'[x].active = ver[x].active
                                     /\ ver[x].failed => ver'[x].failed
    <3> DEFINE d == [ver[v] EXCEPT !.failed = TRUE]
    <3>1. /\ d \in GRow /\ d.job = ver[v].job /\ d.no = ver[v].no /\ d.state = ver[v].state
          /\ d.active = ver[v].active /\ d.failed = TRUE /\ v \in Version
      BY <1>0 DEF GRow
    <3>2. ver' = [ver EXCEPT ![v] = d]
      BY <1>0, <2>5
    <3> HIDE DEF d
    <3> QED BY <1>0, <3>1, <3>2
  <2>6. /\ ver' \in [Version -> GRow]
        /\ \A x \in Version : /\ ver'[x].job = ver[x].job /\ ver'[x].no = ver[x].no
                              /\ ver'[x].state = ver[x].state /\ ver'[x].active = ver[x].active
                              /\ ver[x].failed => ver'[x].failed
    BY <1>0, <2>4, <2>5
  <2>7. G!Rows' = G!Rows /\ wk'[w] = r
    BY <1>0, <2>2, <2>3, <2>6 DEF G!Rows
  <2>8. wk[w].broken \/ GRecorded(wk[w].job)'
    BY <1>0, <2>2, <2>4, <2>5, <2>6, <2>7 DEF GRecorded
  <2>9. GFit(w)'
    BY <1>0, <2>1, <2>2, <2>7, <2>8, GConstants DEF GFit, GOwn
  <2>10. \A v \in G!Rows : /\ ver[v].state \in {"empty", "built"} => ver'[v].state \in {"empty", "built"}
                           /\ ver[v].failed => ver'[v].failed \/ ver'[v].state \in {"empty", "built"}
                           /\ ver'[v].active => ver'[v].state \in {"empty", "built"}
                           /\ ver'[v].state = "built" => ver[v].no \in DOMAIN archive
    BY <1>0, <2>6 DEF GBase, GServed
  <2>11. glost \subseteq glost' /\ glost' \subseteq Build
    BY <1>0, <2>1
  <2>12. \A v \in Version : ver'[v].job = ver[v].job /\ ver'[v].no = ver[v].no
    BY <2>6
  <2> QED BY <1>1, <2>1, <2>2, <2>3, <2>6, <2>9, <2>10, <2>11, <2>12
<1> QED BY <1>2, <1>3, <1>4

\* Every step keeps the invariant.
LEMMA GBaseNext == GBase /\ [G!Next]_gvars => GBase'
<1> SUFFICES ASSUME GBase, [G!Next]_gvars PROVE GBase'
  OBVIOUS
<1>1. CASE UNCHANGED gvars
  BY <1>1 DEF gvars, GBase, GType, GFit, GMine, GRecorded, GServed, GOutcome, G!Rows
<1> QED BY <1>1, GQueue, GLocal, GCreate, GRowSteps DEF G!Next

\* It holds of every reachable state.
LEMMA GBaseInvariant == Spec => []GBase
<1>1. Init => GBase
  BY GBaseStart DEF Init
<1> QED BY <1>1, GBaseNext, WorkersStep, PTL DEF Spec

(***************************************************************************)
(* Then what the order of the queue adds while no message has been         *)
(* received twice.  A message is handled when all before it are deleted    *)
(* (GFirst), so that one worker at a time has one, and the rows change in  *)
(* its hands only.                                                         *)
(***************************************************************************)
GFirst(j) == \A i \in 1 .. Len(sent) : gqueue[sent[i]] # "deleted" => \E k \in 1 .. i : sent[k] = j

GLine ==
  /\ \A j \in Build : gqueue[j] # "none" <=> \E i \in 1 .. Len(sent) : sent[i] = j
  /\ \A i, k \in 1 .. Len(sent) : sent[i] = sent[k] => i = k
  /\ \A w \in Actor : wk[w].job # None => gqueue[wk[w].job] \in {"visible", "hidden"} /\ GFirst(wk[w].job)
  /\ \A w, x \in Actor : wk[w].job # None /\ wk[x].job # None => w = x

GTold ==
  /\ \A u, v \in G!Rows : u # v => ver[u].no # ver[v].no
  /\ \A u, v \in G!Active : u = v
  /\ \A v \in G!Active : ~ver[v].failed
  /\ \A v \in G!Rows : ver[v].state = "built" => archive[ver[v].no] = v

GSole(w) ==
  /\ wk[w].pc \in {"number", "create"} => wk[w].id = None
  /\ \A v \in G!Rows : ver[v].job = wk[w].job =>
       /\ v = wk[w].id
       /\ wk[w].pc # "ack" => ~ver[v].active
       /\ wk[w].pc \in GOwn => ~ver[v].failed
  /\ wk[w].pc = "create" => \A v \in G!Rows : ver[v].no < wk[w].no
  /\ wk[w].pc = "built" => archive[wk[w].no] = wk[w].id
  /\ wk[w].pc = "deactivating" => wk[w].seen = G!Active
  /\ wk[w].pc = "commit" => wk[w].off = G!Active

GSerial == GLine /\ GTold /\ \A w \in Actor : wk[w].job # None => GSole(w)

GInv == GBase /\ (twice = {} => GSerial)

\* Messages join the line at its end and keep their place.
LEMMA GLineQueue ==
  ASSUME GBase, GLine, NEW j \in Build, G!Send(j) \/ G!VisibilityTimeout(j)
  PROVE  GLine'
<1>0. sent \in Seq(Build) /\ gqueue \in [Build -> {"none", "visible", "hidden", "deleted"}]
      /\ \A w \in Actor : wk[w].job \in Build \cup {None}
  BY DEF GBase, GType, GWorker
<1>1. CASE G!Send(j)
  <2>1. /\ gqueue[j] = "none" /\ gqueue' = [gqueue EXCEPT ![j] = "visible"] /\ sent' = Append(sent, j) /\ wk' = wk
    BY <1>1 DEF G!Send
  <2>2. /\ Len(sent') = Len(sent) + 1 /\ Len(sent) \in Nat /\ sent'[Len(sent) + 1] = j
        /\ \A i \in 1 .. Len(sent) : sent'[i] = sent[i] /\ sent[i] \in Build
    BY <1>0, <2>1
  <2>3. \A i \in 1 .. Len(sent) : sent[i] # j
    BY <2>1 DEF GLine
  <2>4. \A i \in Build : i # j => gqueue'[i] = gqueue[i]
    BY <1>0, <2>1
  <2>5. gqueue'[j] = "visible"
    BY <1>0, <2>1
  <2>6. \A i \in 1 .. Len(sent') : i \in 1 .. Len(sent) \/ i = Len(sent) + 1
    BY <2>2
  <2>7. \A i \in 1 .. Len(sent) : i \in 1 .. Len(sent')
    BY <2>2
  <2>8. Len(sent) + 1 \in 1 .. Len(sent')
    BY <2>2
  <2>9. \A k \in Build : gqueue'[k] # "none" <=> \E i \in 1 .. Len(sent') : sent'[i] = k
    <3> TAKE k \in Build
    <3>1. CASE k = j
      BY <2>2, <2>5, <2>8, <3>1
    <3>2. CASE k # j
      <4>1. (\E i \in 1 .. Len(sent') : sent'[i] = k) <=> \E i \in 1 .. Len(sent) : sent[i] = k
        BY <2>2, <2>6, <2>7, <3>2
      <4> QED BY <2>4, <3>2, <4>1 DEF GLine
    <3> QED BY <3>1, <3>2
  <2>10. \A i, k \in 1 .. Len(sent') : sent'[i] = sent'[k] => i = k
    BY <2>2, <2>3, <2>6 DEF GLine
  <2>11. ASSUME NEW w \in Actor, wk[w].job # None
         PROVE  gqueue'[wk[w].job] \in {"visible", "hidden"} /\ GFirst(wk[w].job)'
    <3>1. gqueue[wk[w].job] \in {"visible", "hidden"} /\ GFirst(wk[w].job) /\ wk[w].job \in Build
      BY <1>0, <2>11 DEF GLine
    <3>2. \A i \in 1 .. Len(sent) : gqueue'[sent'[i]] # "deleted" => \E k \in 1 .. i : sent'[k] = wk[w].job
      <4> TAKE i \in 1 .. Len(sent)
      <4> HAVE gqueue'[sent'[i]] # "deleted"
      <4>1. gqueue[sent[i]] # "deleted"
        BY <2>1, <2>2, <2>4
      <4>2. PICK k \in 1 .. i : sent[k] = wk[w].job
        BY <3>1, <4>1 DEF GFirst
      <4>3. k \in 1 .. Len(sent)
        BY <2>2
      <4> QED BY <2>2, <4>2, <4>3
    <3>3. \E k \in 1 .. Len(sent) + 1 : sent'[k] = wk[w].job
      <4>1. PICK k \in 1 .. Len(sent) : sent[k] = wk[w].job
        BY <3>1 DEF GLine
      <4> QED BY <2>2, <4>1
    <3> QED BY <2>1, <2>4, <2>6, <3>1, <3>2, <3>3 DEF GFirst
  <2> QED BY <2>1, <2>9, <2>10, <2>11 DEF GLine
<1>2. CASE G!VisibilityTimeout(j)
  <2>1. gqueue[j] = "hidden" /\ gqueue' = [gqueue EXCEPT ![j] = "visible"] /\ sent' = sent /\ wk' = wk
    BY <1>2 DEF G!VisibilityTimeout
  <2>2. \A i \in Build : /\ gqueue'[i] = "none" <=> gqueue[i] = "none"
                         /\ gqueue'[i] = "deleted" <=> gqueue[i] = "deleted"
                         /\ gqueue[i] \in {"visible", "hidden"} => gqueue'[i] \in {"visible", "hidden"}
    BY <1>0, <2>1
  <2>3. \A i \in 1 .. Len(sent) : sent[i] \in Build
    BY <1>0
  <2>4. \A k : GFirst(k) => GFirst(k)'
    BY <2>1, <2>2, <2>3 DEF GFirst
  <2> QED BY <1>0, <2>1, <2>2, <2>4 DEF GLine
<1> QED BY <1>1, <1>2

\* The message that is received is the first of the line, which nobody has at work.
LEMMA GLineReceive ==
  ASSUME GBase, GLine, twice' = {}, NEW w \in Actor, NEW j \in Build, G!Receive(w, j)
  PROVE  GLine' /\ wk'[w].job = j
<1>0. /\ sent \in Seq(Build) /\ gqueue \in [Build -> {"none", "visible", "hidden", "deleted"}]
      /\ wk \in [Actor -> GWorker] /\ \A x \in Actor : wk[x].job \in Build \cup {None}
  BY DEF GBase, GType, GWorker
<1>1. /\ gqueue[j] = "visible" /\ GFirst(j) /\ gqueue' = [gqueue EXCEPT ![j] = "hidden"] /\ sent' = sent
      /\ wk' = [wk EXCEPT ![w] = [G!Idle EXCEPT !.pc = "number", !.job = j, !.broken = wk[w].broken]]
  BY DEF G!Receive, GFirst
<1>2. wk'[w].job = j /\ \A x \in Actor \ {w} : wk'[x] = wk[x]
  BY <1>0, <1>1 DEF G!Idle
<1>3. \A x \in Actor : wk[x].job # j
  BY DEF G!Receive, G!Holders
<1>4. \A x \in Actor : wk[x].job = None
  <2> SUFFICES ASSUME NEW x \in Actor, wk[x].job # None PROVE FALSE
    OBVIOUS
  <2>1. gqueue[wk[x].job] \in {"visible", "hidden"} /\ GFirst(wk[x].job) /\ wk[x].job \in Build
    BY <1>0 DEF GLine
  <2>2. PICK i \in 1 .. Len(sent) : sent[i] = wk[x].job
    BY <2>1 DEF GLine
  <2>3. PICK k \in 1 .. Len(sent) : sent[k] = j
    BY <1>1 DEF GLine
  <2>4. PICK m \in 1 .. i : sent[m] = j
    BY <1>1, <2>1, <2>2 DEF GFirst
  <2>5. PICK n \in 1 .. k : sent[n] = wk[x].job
    BY <1>1, <2>1, <2>3 DEF GFirst
  <2>6. m \in 1 .. Len(sent) /\ n \in 1 .. Len(sent) /\ m <= i /\ n <= k
    BY <1>0
  <2>7. m = k /\ n = i
    BY <2>2, <2>3, <2>4, <2>5, <2>6 DEF GLine
  <2>8. i = k
    BY <1>0, <2>6, <2>7
  <2> QED BY <1>3, <2>2, <2>3, <2>8
<1>5. \A i \in Build : /\ gqueue'[i] = "none" <=> gqueue[i] = "none"
                       /\ gqueue'[i] = "deleted" <=> gqueue[i] = "deleted"
  BY <1>0, <1>1
<1>6. \A i \in 1 .. Len(sent) : sent[i] \in Build
  BY <1>0
<1>7. \A k : GFirst(k) => GFirst(k)'
  BY <1>1, <1>5, <1>6 DEF GFirst
<1>8. gqueue'[j] = "hidden" /\ GFirst(j)'
  BY <1>0, <1>1, <1>7
<1>9. \A x \in Actor \ {w} : wk'[x].job = None
  BY <1>2, <1>4
<1>10. \A x \in Actor : wk'[x].job # None => x = w
  BY <1>9
<1> QED BY <1>1, <1>2, <1>5, <1>8, <1>10 DEF GLine

\* Nobody else is at work, whose message is acknowledged is out of the line, and the other steps leave
\* the line alone.
LEMMA GLineSteps ==
  ASSUME GBase, GLine, twice = {}, NEW w \in Actor,
         \A x \in Actor \ {w} : wk'[x] = wk[x], wk[w].job # None, sent' = sent,
         \/ gqueue' = gqueue /\ wk'[w].job \in {wk[w].job, None}
         \/ gqueue' = [gqueue EXCEPT ![wk[w].job] = "deleted"] /\ wk'[w].job = None
  PROVE  GLine' /\ \A x \in Actor \ {w} : wk'[x].job = None
<1>0. /\ sent \in Seq(Build) /\ gqueue \in [Build -> {"none", "visible", "hidden", "deleted"}]
      /\ \A x \in Actor : wk[x].job \in Build \cup {None}
  BY DEF GBase, GType, GWorker
<1>1. \A x \in Actor \ {w} : wk[x].job = None /\ wk'[x].job = None
  BY DEF GLine
<1>2. gqueue[wk[w].job] \in {"visible", "hidden"} /\ GFirst(wk[w].job)
  BY DEF GLine
<1>3. CASE gqueue' = gqueue /\ wk'[w].job \in {wk[w].job, None}
  <2>1. \A j : GFirst(j) => GFirst(j)'
    BY <1>3 DEF GFirst
  <2> QED BY <1>1, <1>2, <1>3, <2>1 DEF GLine
<1>4. CASE gqueue' = [gqueue EXCEPT ![wk[w].job] = "deleted"] /\ wk'[w].job = None
  <2>1. \A i \in Build : gqueue'[i] = "none" <=> gqueue[i] = "none"
    BY <1>0, <1>2, <1>4
  <2> QED BY <1>1, <1>4, <2>1 DEF GLine
<1> QED BY <1>3, <1>4

\* The steps that leave the rows and the archive alone.
LEMMA GSerialLocal ==
  ASSUME GBase, GSerial, twice' = {}, NEW w \in Actor,
         \/ \E j \in Build : G!Receive(w, j)
         \/ G!NextNumber(w) \/ (\E found \in BOOLEAN : G!FetchChunks(w, found))
         \/ G!Deactivate(w) \/ G!Deactivated(w) \/ G!BuildFails(w)
         \/ G!ConnectionBreaks(w) \/ G!StatementFails(w) \/ G!Ack(w) \/ G!Crash(w)
  PROVE  GSerial'
<1>0. wk \in [Actor -> GWorker] /\ wk[w] \in GWorker /\ GFit(w) /\ GLine /\ GTold /\ (wk[w].job # None => GSole(w))
  BY DEF GBase, GType, GSerial
<1>1. ver' = ver /\ archive' = archive
  BY DEF G!Receive, G!NextNumber, G!FetchChunks, G!Deactivate, G!Deactivated, G!BuildFails,
         G!ConnectionBreaks, G!StatementFails, G!Ack, G!Crash
<1>2. G!Rows' = G!Rows /\ G!Active' = G!Active /\ G!Active \subseteq G!Rows /\ G!Rows \subseteq Version
  BY <1>1 DEF G!Rows, G!Active
<1>3. GTold'
  BY <1>0, <1>1, <1>2 DEF GTold
<1>4. ASSUME GLine', \A x \in Actor \ {w} : wk'[x].job = None, wk'[w].job # None => GSole(w)'
      PROVE  GSerial'
  BY <1>3, <1>4 DEF GSerial
<1>5. CASE \E j \in Build : G!Receive(w, j)
  <2>1. PICK j \in Build : G!Receive(w, j)
    BY <1>5
  <2>2. GLine' /\ wk'[w].job = j
    BY <1>0, <2>1, GLineReceive
  <2>3. \A x \in Actor \ {w} : wk'[x].job = None
    BY <2>2, GConstants DEF GLine
  <2>4. wk'[w].pc = "number" /\ wk'[w].id = None
    BY <1>0, <2>1 DEF G!Receive, G!Idle
  <2>5. \A v \in G!Rows : ver[v].job # j
    BY <2>1 DEF G!Receive
  <2>6. GSole(w)'
    BY <1>1, <1>2, <2>2, <2>4, <2>5 DEF GSole, GOwn
  <2> QED BY <1>4, <2>2, <2>3, <2>6
<1>6. CASE ~\E j \in Build : G!Receive(w, j)
  <2>1. wk[w].pc # "idle" /\ wk[w].job # None /\ wk[w].job \in Build /\ twice = {} /\ GSole(w)
    BY <1>0, <1>6 DEF G!NextNumber, G!FetchChunks, G!Deactivate, G!Deactivated, G!BuildFails,
         G!ConnectionBreaks, G!StatementFails, G!Ack, G!Crash, G!At, GFit, GWorker
  <2>2. ASSUME \A x \in Actor \ {w} : wk'[x] = wk[x], sent' = sent,
               \/ gqueue' = gqueue /\ wk'[w].job \in {wk[w].job, None}
               \/ gqueue' = [gqueue EXCEPT ![wk[w].job] = "deleted"] /\ wk'[w].job = None,
               wk'[w].job # None => GSole(w)'
        PROVE  GSerial'
    BY <1>0, <1>4, <2>1, <2>2, GLineSteps
  <2>3. CASE G!Ack(w) \/ G!Crash(w)
    <3>1. wk'[w].job = None /\ \A x \in Actor \ {w} : wk'[x] = wk[x]
      BY <1>0, <2>3 DEF G!Ack, G!Crash, G!Idle
    <3>2. sent' = sent /\ (gqueue' = gqueue \/ gqueue' = [gqueue EXCEPT ![wk[w].job] = "deleted"])
      BY <2>3 DEF G!Ack, G!Crash
    <3> QED BY <2>2, <3>1, <3>2
  <2>4. CASE G!NextNumber(w)
    <3>1. PICK n \in {0} \cup {ver[v].no : v \in G!Rows} :
            /\ \A v \in G!Rows : ver[v].no <= n
            /\ wk' = [wk EXCEPT ![w].pc = "create", ![w].no = n + 1]
      BY <2>4 DEF G!NextNumber
    <3>2. n \in Nat /\ \A v \in G!Rows : ver[v].no \in Nat
      BY <3>1 DEF GBase, GType, GRow, G!Rows
    <3>3. \A v \in G!Rows : ver[v].no < n + 1
      BY <3>1, <3>2
    <3>4. /\ wk[w].pc = "number" /\ UNCHANGED <<sent, gqueue>>
          /\ wk'[w].pc = "create" /\ wk'[w].no = n + 1 /\ wk'[w].job = wk[w].job /\ wk'[w].id = wk[w].id
          /\ \A x \in Actor \ {w} : wk'[x] = wk[x]
      BY <1>0, <2>4, <3>1 DEF G!NextNumber, G!At, GWorker
    <3>5. GSole(w)'
      BY <1>1, <1>2, <2>1, <3>3, <3>4 DEF GSole, GOwn
    <3> QED BY <2>2, <3>4, <3>5
  <2>5. ASSUME \A x \in Actor \ {w} : wk'[x] = wk[x], UNCHANGED <<sent, gqueue>>,
               wk'[w].job = wk[w].job, wk'[w].id = wk[w].id, wk'[w].no = wk[w].no, wk[w].pc # "ack",
               wk'[w].pc \in GOwn => wk[w].pc \in GOwn,
               wk'[w].pc \in {"number", "create", "built"} => wk'[w].pc = wk[w].pc,
               wk'[w].pc = "deactivating" => wk'[w].seen = G!Active,
               wk'[w].pc = "commit" => wk'[w].off = G!Active
        PROVE  GSerial'
    <3>1. GSole(w)'
      BY <1>1, <1>2, <2>1, <2>5 DEF GSole
    <3> QED BY <2>2, <2>5, <3>1
  <2>6. CASE \E found \in BOOLEAN : G!FetchChunks(w, found)
    BY <1>0, <2>5, <2>6 DEF G!FetchChunks, G!Goto, G!At, GWorker, GOwn
  <2>7. CASE G!Deactivate(w)
    BY <1>0, <2>5, <2>7 DEF G!Deactivate, G!At, GWorker, GOwn
  <2>8. CASE G!Deactivated(w)
    <3>1. wk[w].seen \cap G!Active = G!Active
      BY <2>1, <2>8 DEF G!Deactivated, G!At, GSole
    <3> QED BY <1>0, <2>5, <2>8, <3>1 DEF G!Deactivated, G!At, GWorker, GOwn
  <2>9. CASE G!BuildFails(w)
    BY <1>0, <2>5, <2>9 DEF G!BuildFails, G!Goto, GWorker, GOwn
  <2>10. CASE G!ConnectionBreaks(w)
    BY <1>0, <2>1, <2>5, <2>10 DEF G!ConnectionBreaks, GWorker, GSole
  <2>11. CASE G!StatementFails(w)
    BY <1>0, <2>5, <2>11 DEF G!StatementFails, GWorker, GOwn
  <2> QED BY <1>6, <2>3, <2>4, <2>6, <2>7, <2>8, <2>9, <2>10, <2>11
<1> QED BY <1>5, <1>6

\* The archive gets the graph under a number that no other row has.
LEMMA GSerialUpload ==
  ASSUME GBase, GSerial, twice' = {}, NEW w \in Actor, G!Upload(w)
  PROVE  GSerial'
<1>0. wk \in [Actor -> GWorker] /\ wk[w] \in GWorker /\ GFit(w) /\ GLine /\ GTold
  BY DEF GBase, GType, GSerial
<1>1. /\ wk[w].pc = "upload" /\ UNCHANGED <<sent, gqueue, ver, twice>>
      /\ wk' = [wk EXCEPT ![w].pc = "built"]
      /\ archive' = [n \in DOMAIN archive \cup {wk[w].no} |-> IF n = wk[w].no THEN wk[w].id ELSE archive[n]]
  BY DEF G!Upload, G!Goto, G!At
<1>2. wk[w].job # None /\ GMine(w) /\ GSole(w)
  BY <1>0, <1>1 DEF GFit, GOwn, GSerial
<1>3. /\ \A x \in Actor \ {w} : wk'[x] = wk[x]
      /\ wk'[w].pc = "built" /\ wk'[w].job = wk[w].job /\ wk'[w].id = wk[w].id /\ wk'[w].no = wk[w].no
  BY <1>0, <1>1 DEF GWorker
<1>4. GLine' /\ \A x \in Actor \ {w} : wk'[x].job = None
  BY <1>0, <1>1, <1>2, <1>3, GLineSteps
<1>5. G!Rows' = G!Rows /\ G!Active' = G!Active
  BY <1>1 DEF G!Rows, G!Active
<1>6. ASSUME NEW v \in G!Rows, ver[v].state = "built" PROVE archive'[ver[v].no] = v
  <2>1. ver[v].no \in DOMAIN archive /\ archive[ver[v].no] = v
    BY <1>0, <1>6 DEF GBase, GServed, GTold
  <2>2. ver[v].no = wk[w].no => v = wk[w].id
    BY <1>0, <1>2 DEF GMine, GTold
  <2> QED BY <1>1, <2>1, <2>2
<1>7. GTold'
  BY <1>0, <1>1, <1>5, <1>6 DEF GTold
<1>8. archive'[wk[w].no] = wk[w].id
  BY <1>1
<1>9. GSole(w)'
  BY <1>1, <1>2, <1>3, <1>5, <1>8 DEF GSole, GOwn
<1> QED BY <1>4, <1>7, <1>9 DEF GSerial

\* A new row has a number of its own.
LEMMA GSerialCreate ==
  ASSUME GBase, GSerial, twice' = {}, NEW w \in Actor, G!Create(w)
  PROVE  GSerial'
<1> DEFINE v == CHOOSE v \in Version : v \notin G!Rows
           d == [G!NoRow EXCEPT !.job = wk[w].job, !.no = wk[w].no, !.state = "created"]
<1>0. /\ wk \in [Actor -> GWorker] /\ wk[w] \in GWorker /\ GFit(w) /\ GLine /\ GTold /\ ver \in [Version -> GRow]
      /\ \A x \in G!Rows : ver[x].no \in Nat
  BY DEF GBase, GType, GSerial, G!Rows, GRow
<1>1. v \in Version /\ v \notin G!Rows
  <2>1. \E x \in Version : x \notin G!Rows
    BY DEF G!Create, G!Rows
  <2> QED BY <2>1
<1>2. wk[w].pc = "create" /\ wk[w].job \in Build /\ wk[w].job # None /\ GSole(w) /\ wk[w].no \in Nat
  BY <1>0, GConstants DEF G!Create, G!At, GFit, GWorker, GSerial
<1>3. d.job = wk[w].job /\ d.no = wk[w].no /\ d.state = "created" /\ d.active = FALSE /\ d.failed = FALSE
  BY <1>0 DEF G!NoRow
<1>4. /\ ver' = [ver EXCEPT ![v] = d] /\ wk' = [wk EXCEPT ![w].pc = "fetch", ![w].id = v]
      /\ UNCHANGED <<sent, gqueue, archive, twice>>
  BY Zenon DEF G!Create
<1> HIDE DEF v, d
<1>5. /\ \A x \in Actor \ {w} : wk'[x] = wk[x]
      /\ wk'[w].pc = "fetch" /\ wk'[w].id = v /\ wk'[w].job = wk[w].job /\ wk'[w].no = wk[w].no
  BY <1>0, <1>4 DEF GWorker
<1>6. GLine' /\ \A x \in Actor \ {w} : wk'[x].job = None
  BY <1>0, <1>2, <1>4, <1>5, GLineSteps
<1>7. ver'[v] = d /\ \A x \in Version \ {v} : ver'[x] = ver[x]
  BY <1>0, <1>1, <1>4
<1>8. G!Rows' = G!Rows \cup {v} /\ G!Rows \subseteq Version
  BY <1>1, <1>2, <1>3, <1>7 DEF G!Rows
<1>9. G!Active' = G!Active /\ v \notin G!Active /\ G!Active \subseteq G!Rows
  BY <1>1, <1>3, <1>7, <1>8 DEF G!Active
<1>10. \A x \in G!Rows : ver'[x] = ver[x] /\ ver'[x].no # wk[w].no /\ ver'[x].job # wk[w].job
  <2> TAKE x \in G!Rows
  <2>1. ver'[x] = ver[x] /\ ver[x].no < wk[w].no
    BY <1>1, <1>2, <1>7, <1>8 DEF GSole
  <2>2. ver[x].job = wk[w].job => x = wk[w].id /\ wk[w].id = None
    BY <1>2 DEF GSole
  <2>3. x # None
    BY <1>8, GConstants
  <2> QED BY <1>0, <1>2, <2>1, <2>2, <2>3
<1>11. GTold'
  <2>1. \A x, y \in G!Rows' : x # y => ver'[x].no # ver'[y].no
    BY <1>0, <1>3, <1>7, <1>8, <1>10 DEF GTold
  <2>2. (\A x, y \in G!Active' : x = y) /\ \A x \in G!Active' : ~ver'[x].failed
    BY <1>0, <1>9, <1>10 DEF GTold
  <2>3. \A x \in G!Rows' : ver'[x].state = "built" => archive'[ver'[x].no] = x
    BY <1>0, <1>3, <1>4, <1>7, <1>8, <1>10 DEF GTold
  <2> QED BY <2>1, <2>2, <2>3 DEF GTold
<1>12. GSole(w)'
  BY <1>3, <1>5, <1>7, <1>8, <1>10 DEF GSole, GOwn
<1> QED BY <1>6, <1>11, <1>12 DEF GSerial

\* A row is built or empty when its worker says so.
LEMMA GSerialUpdate ==
  ASSUME GBase, GSerial, twice' = {}, NEW w \in Actor, G!UpdateVersion(w)
  PROVE  GSerial'
<1> DEFINE i == wk[w].id
           st == IF wk[w].pc = "built" THEN "built" ELSE "empty"
           d == [ver[i] EXCEPT !.state = st, !.failed = FALSE]
<1>0. /\ wk \in [Actor -> GWorker] /\ wk[w] \in GWorker /\ GFit(w) /\ GLine /\ GTold /\ ver \in [Version -> GRow]
      /\ G!Rows \subseteq Version
  BY DEF GBase, GType, GSerial, G!Rows
<1>1. /\ wk[w].pc \in {"update", "built"} /\ UNCHANGED <<sent, gqueue, archive, twice>>
      /\ wk[w].job # None /\ GMine(w) /\ GSole(w)
  BY <1>0 DEF G!UpdateVersion, G!At, GFit, GOwn, GSerial
<1>2. /\ i \in G!Rows /\ i \in Version /\ ver[i].job = wk[w].job /\ ver[i].no = wk[w].no /\ ~ver[i].active
  BY <1>0, <1>1 DEF GMine, GSole
<1>3. /\ d.job = ver[i].job /\ d.no = ver[i].no /\ d.state = st /\ d.active = ver[i].active /\ d.failed = FALSE
  BY <1>0, <1>2 DEF GRow
<1>4. ver' = [ver EXCEPT ![i] = d] /\ wk' = [wk EXCEPT ![w].pc = "activate"]
  BY <1>0, <1>2 DEF G!UpdateVersion, G!Goto
<1>5. st = "built" => archive[ver[i].no] = i
  BY <1>1, <1>2 DEF GSole
<1> HIDE DEF d, st
<1>6. /\ \A x \in Actor \ {w} : wk'[x] = wk[x]
      /\ wk'[w].pc = "activate" /\ wk'[w].id = i /\ wk'[w].job = wk[w].job /\ wk'[w].no = wk[w].no
  BY <1>0, <1>4 DEF GWorker
<1>7. GLine' /\ \A x \in Actor \ {w} : wk'[x].job = None
  BY <1>0, <1>1, <1>6, GLineSteps
<1>8. ver'[i] = d /\ \A x \in Version \ {i} : ver'[x] = ver[x]
  BY <1>0, <1>2, <1>4
<1>9. G!Rows' = G!Rows /\ G!Active' = G!Active /\ i \notin G!Active /\ G!Active \subseteq G!Rows
  BY <1>0, <1>2, <1>3, <1>8 DEF G!Rows, G!Active
<1>10. \A x \in G!Rows : /\ ver'[x].job = ver[x].job /\ ver'[x].no = ver[x].no
                         /\ ver'[x].active = ver[x].active
                         /\ x # i => ver'[x] = ver[x]
  BY <1>0, <1>3, <1>8
<1>11. \A x \in G!Rows : ver'[x].state = "built" => archive'[ver'[x].no] = x
  BY <1>0, <1>1, <1>3, <1>5, <1>8, <1>10 DEF GTold
<1>12. \A x \in G!Active : ~ver'[x].failed
  BY <1>0, <1>9, <1>10 DEF GTold
<1>13. GTold'
  BY <1>0, <1>9, <1>10, <1>11, <1>12 DEF GTold
<1>14. GSole(w)'
  BY <1>1, <1>2, <1>3, <1>6, <1>8, <1>9, <1>10 DEF GSole, GOwn
<1> QED BY <1>7, <1>13, <1>14 DEF GSerial

\* The flip leaves the row of its worker active, and no other.
LEMMA GSerialActivate ==
  ASSUME GBase, GSerial, twice' = {}, NEW w \in Actor, G!Activate(w)
  PROVE  GSerial'
<1> DEFINE i == wk[w].id
<1>0. /\ wk \in [Actor -> GWorker] /\ wk[w] \in GWorker /\ GFit(w) /\ GLine /\ GTold /\ ver \in [Version -> GRow]
      /\ G!Rows \subseteq Version
  BY DEF GBase, GType, GSerial, G!Rows
<1>1. /\ wk[w].pc = "commit" /\ UNCHANGED <<sent, gqueue, archive, twice>>
      /\ wk[w].job # None /\ GMine(w) /\ GSole(w) /\ wk[w].off = G!Active
  BY <1>0 DEF G!Activate, G!At, GFit, GOwn, GSerial, GSole
<1>2. i \in G!Rows /\ ver[i].job = wk[w].job /\ ~ver[i].failed
  BY <1>0, <1>1 DEF GMine, GSole, GOwn
<1>3. wk' = [wk EXCEPT ![w].pc = "ack", ![w].off = {}]
  BY DEF G!Activate
<1>4. /\ \A x \in Actor \ {w} : wk'[x] = wk[x]
      /\ wk'[w].pc = "ack" /\ wk'[w].id = i /\ wk'[w].job = wk[w].job /\ wk'[w].no = wk[w].no
  BY <1>0, <1>3 DEF GWorker
<1>5. GLine' /\ \A x \in Actor \ {w} : wk'[x].job = None
  BY <1>0, <1>1, <1>4, GLineSteps
<1>6. ASSUME NEW v \in G!Rows
      PROVE  /\ ver'[v].job = ver[v].job /\ ver'[v].no = ver[v].no
             /\ ver'[v].state = ver[v].state /\ ver'[v].failed = ver[v].failed
             /\ ver'[v].active => v = i
  <2> DEFINE act == v = i \/ (ver[v].active /\ v \notin wk[w].off)
  <2>1. ver'[v] = [ver[v] EXCEPT !.active = act] /\ ver[v] \in GRow
    BY <1>0 DEF G!Activate
  <2>2. act => v = i
    BY <1>1 DEF G!Active
  <2> HIDE DEF act
  <2> QED BY <2>1, <2>2 DEF GRow
<1>7. \A v \in Version : ver'[v].job = ver[v].job
  BY <1>0 DEF G!Activate, GRow
<1>8. G!Rows' = G!Rows /\ G!Active' \subseteq {i}
  BY <1>6, <1>7 DEF G!Rows, G!Active
<1>9. GTold'
  BY <1>0, <1>1, <1>2, <1>6, <1>8 DEF GTold
<1>10. GSole(w)'
  BY <1>1, <1>4, <1>6, <1>8 DEF GSole, GOwn
<1> QED BY <1>5, <1>9, <1>10 DEF GSerial

\* What is marked as failed is not the row that the course shows.
LEMMA GSerialMark ==
  ASSUME GBase, GSerial, twice' = {}, NEW w \in Actor, G!MarkFailed(w)
  PROVE  GSerial'
<1>0. /\ wk \in [Actor -> GWorker] /\ wk[w] \in GWorker /\ GFit(w) /\ GLine /\ GTold /\ ver \in [Version -> GRow]
      /\ G!Rows \subseteq Version
  BY DEF GBase, GType, GSerial, G!Rows
<1>1. /\ wk[w].pc = "mark" /\ UNCHANGED <<sent, gqueue, archive, twice>> /\ wk[w].job # None /\ GSole(w)
  BY <1>0 DEF G!MarkFailed, GFit, GSerial
<1>2. wk' = [wk EXCEPT ![w].pc = "ack"]
  BY DEF G!MarkFailed, G!Goto
<1>3. /\ \A x \in Actor \ {w} : wk'[x] = wk[x]
      /\ wk'[w].pc = "ack" /\ wk'[w].id = wk[w].id /\ wk'[w].job = wk[w].job /\ wk'[w].no = wk[w].no
  BY <1>0, <1>2 DEF GWorker
<1>4. GLine' /\ \A x \in Actor \ {w} : wk'[x].job = None
  BY <1>0, <1>1, <1>3, GLineSteps
<1>5. ver' = ver \/ \E v \in G!Rows : ver[v].job = wk[w].job /\ ver' = [ver EXCEPT ![v].failed = TRUE]
  BY DEF G!MarkFailed
<1>6. ASSUME NEW x \in Version
      PROVE  /\ ver'[x].job = ver[x].job /\ ver'[x].no = ver[x].no
             /\ ver'[x].state = ver[x].state /\ ver'[x].active = ver[x].active
             /\ x \in G!Rows /\ ver[x].active => ver'[x].failed = ver[x].failed
  <2>1. CASE ver' = ver
    BY <2>1
  <2>2. CASE \E v \in G!Rows : ver[v].job = wk[w].job /\ ver' = [ver EXCEPT ![v].failed = TRUE]
    <3>1. PICK v \in G!Rows : ver[v].job = wk[w].job /\ ver' = [ver EXCEPT ![v].failed = TRUE]
      BY <2>2
    <3>2. ~ver[v].active
      BY <1>1, <3>1 DEF GSole
    <3>3. ver[x] \in GRow /\ v \in Version
      BY <1>0, <3>1
    <3>4. x = v => ver'[x] = [ver[x] EXCEPT !.failed = TRUE]
      BY <1>0, <3>1, <3>3
    <3>5. x # v => ver'[x] = ver[x]
      BY <1>0, <3>1, <3>3
    <3> QED BY <3>2, <3>3, <3>4, <3>5 DEF GRow
  <2> QED BY <1>5, <2>1, <2>2
<1>7. G!Rows' = G!Rows /\ G!Active' = G!Active /\ G!Active \subseteq G!Rows
  BY <1>6 DEF G!Rows, G!Active
<1>8. GTold'
  BY <1>0, <1>1, <1>6, <1>7 DEF GTold, G!Active
<1>9. GSole(w)'
  BY <1>0, <1>1, <1>3, <1>6, <1>7 DEF GSole, GOwn
<1> QED BY <1>4, <1>8, <1>9 DEF GSerial

\* Every step keeps both; a message received twice stays one.
LEMMA GNext == GInv /\ [G!Next]_gvars => GInv'
<1> SUFFICES ASSUME GInv, [G!Next]_gvars PROVE GInv'
  OBVIOUS
<1>1. GBase /\ GBase'
  BY GBaseNext DEF GInv
<1> SUFFICES ASSUME twice' = {} PROVE GSerial'
  BY <1>1 DEF GInv
<1>2. twice \subseteq twice'
  BY DEF G!Next, gvars, G!Send, G!VisibilityTimeout, G!Receive, G!NextNumber, G!Create, G!FetchChunks, G!Upload,
         G!UpdateVersion, G!Deactivate, G!Deactivated, G!Activate, G!BuildFails, G!ConnectionBreaks,
         G!StatementFails, G!MarkFailed, G!Ack, G!Crash
<1>3. GSerial /\ GLine
  BY <1>2 DEF GInv, GSerial
<1>4. CASE UNCHANGED gvars
  BY <1>3, <1>4 DEF gvars, GSerial, GLine, GFirst, GTold, GSole, G!Rows, G!Active
<1>5. ASSUME NEW j \in Build, G!Send(j) \/ G!VisibilityTimeout(j) PROVE GSerial'
  <2>1. GLine'
    BY <1>1, <1>3, <1>5, GLineQueue
  <2>2. ver' = ver /\ archive' = archive /\ wk' = wk
    BY <1>5 DEF G!Send, G!VisibilityTimeout
  <2> QED BY <1>3, <2>1, <2>2 DEF GSerial, GTold, GSole, G!Rows, G!Active
<1> QED BY <1>1, <1>3, <1>4, <1>5, GSerialLocal, GSerialUpload, GSerialCreate, GSerialUpdate, GSerialActivate,
           GSerialMark DEF G!Next

\* They hold of every reachable state.
LEMMA GInvariant == Spec => []GInv
<1>1. G!Init => GInv
  <2> SUFFICES ASSUME G!Init PROVE GSerial
    BY GBaseStart DEF GInv
  <2>1. G!NoRow.job = None /\ G!Idle.job = None
    BY DEF G!NoRow, G!Idle
  <2>2. G!Rows = {} /\ G!Active = {} /\ \A w \in Actor : wk[w].job = None
    BY <2>1 DEF G!Init, G!Rows, G!Active
  <2>3. GLine
    BY <2>2 DEF G!Init, GLine
  <2> QED BY <2>2, <2>3 DEF GSerial, GTold
<1>2. Init => GInv
  BY <1>1 DEF Init
<1> QED BY <1>2, GNext, WorkersStep, PTL DEF Spec

\* From the first build on the course always shows a graph, which was built; its own, the only one and
\* not one marked as failed, while no message of the queue was received twice (graph/metadata.py,
\* activate_version).
THEOREM NeverWithoutGraphHolds == Spec => NeverWithoutGraph
<1>1. ASSUME GBase, GBase', [G!Next]_gvars PROVE G!KeepsShowing
  <2> SUFFICES ASSUME NEW v \in G!Active PROVE G!Active' # {}
    BY DEF G!KeepsShowing
  <2>1. v \in G!Rows /\ v \in Version /\ ver[v].active /\ ver \in [Version -> GRow]
    BY <1>1 DEF G!Active, G!Rows, GBase, GType
  <2>2. CASE \E w \in Actor : G!Activate(w)
    <3>1. PICK w \in Actor : G!Activate(w)
      BY <2>2
    <3>2. wk[w].id \in G!Rows /\ wk[w].id \in Version
      BY <1>1, <3>1 DEF GBase, GFit, GOwn, GMine, G!Activate, G!At, G!Rows
    <3>3. ver'[wk[w].id].job = ver[wk[w].id].job /\ ver'[wk[w].id].active
      BY <2>1, <3>1, <3>2 DEF G!Activate, GRow
    <3> QED BY <3>2, <3>3 DEF G!Active, G!Rows
  <2>3. ASSUME NEW w \in Actor, G!Create(w) PROVE ver'[v] = ver[v]
    <3> DEFINE u == CHOOSE u \in Version : u \notin G!Rows
    <3>1. u \in Version /\ u \notin G!Rows
      <4>1. \E x \in Version : x \notin G!Rows
        BY <2>3 DEF G!Create, G!Rows
      <4> QED BY <4>1
    <3>2. \E d : ver' = [ver EXCEPT ![u] = d]
      BY <2>3, Zenon DEF G!Create
    <3> HIDE DEF u
    <3> QED BY <2>1, <3>1, <3>2
  <2>4. ASSUME NEW w \in Actor, G!UpdateVersion(w) \/ G!MarkFailed(w)
        PROVE  ver'[v].job = ver[v].job /\ ver'[v].active = ver[v].active
    <3>1. CASE G!UpdateVersion(w)
      <4>1. PICK st \in {"built", "empty"} : ver' = [ver EXCEPT ![wk[w].id].state = st, ![wk[w].id].failed = FALSE]
        BY <3>1 DEF G!UpdateVersion
      <4> DEFINE i == wk[w].id
                 d == [ver[i] EXCEPT !.state = st, !.failed = FALSE]
      <4>2. v = i => d.job = ver[v].job /\ d.active = ver[v].active
        BY <2>1 DEF GRow
      <4>3. ver' = [ver EXCEPT ![i] = d] \/ (i \notin Version /\ ver' = ver)
        BY <2>1, <4>1
      <4> HIDE DEF i, d
      <4> QED BY <2>1, <4>2, <4>3
    <3>2. CASE G!MarkFailed(w)
      <4>1. ver' = ver \/ \E u \in G!Rows : ver' = [ver EXCEPT ![u].failed = TRUE]
        BY <3>2 DEF G!MarkFailed
      <4>2. ASSUME NEW u \in G!Rows, ver' = [ver EXCEPT ![u].failed = TRUE]
            PROVE  ver'[v].job = ver[v].job /\ ver'[v].active = ver[v].active
        <5> DEFINE d == [ver[v] EXCEPT !.failed = TRUE]
        <5>1. d.job = ver[v].job /\ d.active = ver[v].active
          BY <2>1 DEF GRow
        <5>2. ver'[v] = ver[v] \/ ver'[v] = d
          BY <2>1, <4>2
        <5> HIDE DEF d
        <5> QED BY <5>1, <5>2
      <4> QED BY <4>1, <4>2
    <3> QED BY <2>4, <3>1, <3>2
  <2>5. CASE \A w \in Actor : ~G!Activate(w)
    <3>1. ver'[v].job = ver[v].job /\ ver'[v].active = ver[v].active
      <4>1. CASE ver' = ver
        BY <4>1
      <4>2. CASE \E w \in Actor : G!Create(w) \/ G!UpdateVersion(w) \/ G!MarkFailed(w)
        BY <2>3, <2>4, <4>2
      <4> QED BY <1>1, <2>5, <4>1, <4>2
            DEF G!Next, gvars, G!Send, G!VisibilityTimeout, G!Receive, G!NextNumber, G!FetchChunks, G!Upload,
                G!Deactivate, G!Deactivated, G!BuildFails, G!ConnectionBreaks, G!StatementFails, G!Ack, G!Crash
    <3> QED BY <2>1, <3>1 DEF G!Active, G!Rows
  <2> QED BY <2>2, <2>5
<1>2. GInv => G!ServedOnceBuilt
  <2> SUFFICES ASSUME GInv PROVE G!ServedOnceBuilt
    OBVIOUS
  <2>1. \A v \in G!Active : ver[v].state = "empty" \/ (ver[v].state = "built" /\ ver[v].no \in DOMAIN archive)
    BY DEF GInv, GBase, GServed, G!Active
  <2>2. ASSUME twice = {} PROVE G!Cardinality(G!Active) <= 1
    <3>1. \A u, v \in G!Active : u = v
      BY <2>2 DEF GInv, GSerial, GTold
    <3>2. G!Active = {} \/ \E v \in G!Active : G!Active = {v}
      BY <3>1
    <3>3. Cardinality(G!Active) \in {0, 1}
      BY <3>2, FS_EmptySet, FS_Singleton
    <3>4. G!Cardinality(G!Active) = Cardinality(G!Active)
      BY DEF G!Cardinality, Cardinality
    <3> QED BY <3>3, <3>4
  <2>3. \A v \in G!Active : v \in G!Rows
    BY DEF G!Active
  <2> QED BY <2>1, <2>2, <2>3 DEF GInv, GSerial, GTold, G!ServedOnceBuilt
<1>3. GInv' => G!ServedOnceBuilt'
  BY <1>2, PTL
<1>4. GInv /\ GInv' /\ [G!Next]_gvars => [G!KeepsShowing /\ G!ServedOnceBuilt']_gvars
  BY <1>1, <1>3 DEF GInv
<1> QED BY <1>4, GInvariant, WorkersStep, PTL DEF Spec, NeverWithoutGraph

-----------------------------------------------------------------------------
(***************************************************************************)
(* The three workers implement WorkQueue.  What the invariants above do    *)
(* not say yet of evaluation jobs: which calls have a message.             *)
(***************************************************************************)
EWorks(r) ==
  /\ r.worker => r.pc \in {"check", "store", "mark", "ack"}
  /\ r.pc \in {"mark", "ack"} => r.worker

EWork == \A x \in Actor : EWorks(eact[x])

\* the message of an actor in state r, of each actor, and the actors that may hand theirs in
EHas(r) == IF r.worker THEN r.on ELSE None
EHand == [x \in Actor |-> IF eact[x].worker THEN eact[x].on ELSE None]
EDone == {x \in Actor : eact[x].pc = "ack"}

\* What the queue sees of a step of one actor.
LEMMA EView ==
  ASSUME EInv, EWork, NEW x \in Actor, NEW r \in EActor, eact' = [eact EXCEPT ![x] = r], EWorks(r)
  PROVE  /\ EWork'
         /\ EHand' = [EHand EXCEPT ![x] = EHas(r)]
         /\ EDone' = IF r.pc = "ack" THEN EDone \cup {x} ELSE EDone \ {x}
         /\ EHand[x] = EHas(eact[x])
<1>1. \A y \in Actor : eact'[y] = IF y = x THEN r ELSE eact[y]
  BY DEF EInv, EType
<1>2. EWork'
  BY <1>1 DEF EWork
<1>3. \A y \in Actor : EHas(eact'[y]) = IF y = x THEN EHas(r) ELSE EHas(eact[y])
  BY <1>1
<1>4. EHand' = [EHand EXCEPT ![x] = EHas(r)]
  BY <1>3 DEF EHand, EHas
<1>5. EDone' = IF r.pc = "ack" THEN EDone \cup {x} ELSE EDone \ {x}
  BY <1>1 DEF EDone
<1> QED BY <1>2, <1>4, <1>5 DEF EHand, EHas

\* A step of the queue, told by what it does to messages, hands and outcomes.
EQueueStep == [E!Queue!Next]_(E!Queue!vars)

\* A call whose message, if any, stays with it and that records nothing is not seen; nor is a tool.
LEMMA EUnseen ==
  ASSUME EHand' = EHand, EDone' = EDone, UNCHANGED <<equeue, eval, failed, elost>>
  PROVE  EQueueStep
BY DEF EHand, EDone, EQueueStep, E!Queue!vars, E!At

\* The resting state has no message.
LEMMA ERests == E!Idle \in EActor /\ EWorks(E!Idle) /\ EHas(E!Idle) = None /\ E!Idle.pc = "idle"
BY EResting DEF E!Idle, EWorks, EHas

\* Sending, delivering and redelivering.
LEMMA EQueueSteps ==
  ASSUME EInv, EWork, NEW t \in Turn,
         E!Send(t) \/ E!VisibilityTimeout(t) \/ \E x \in Actor : E!Receive(x, t)
  PROVE  EQueueStep /\ EWork'
<1>1. CASE E!Send(t)
  <2>1. EHand' = EHand /\ EDone' = EDone /\ EWork'
    BY <1>1 DEF E!Send, EHand, EDone, EWork
  <2>2. E!Queue!Send(t)
    BY <1>1, <2>1 DEF E!Send, E!history, E!Queue!Send, EHand, EDone, E!At
  <2> QED BY <2>1, <2>2 DEF EQueueStep, E!Queue!Next
<1>2. CASE E!VisibilityTimeout(t)
  <2>1. EHand' = EHand /\ EDone' = EDone /\ EWork'
    BY <1>2 DEF E!VisibilityTimeout, EHand, EDone, EWork
  <2>2. E!Queue!Reappear(t)
    BY <1>2, <2>1 DEF E!VisibilityTimeout, E!history, E!Queue!Reappear, EHand, EDone, E!At
  <2> QED BY <2>1, <2>2 DEF EQueueStep, E!Queue!Next
<1>3. CASE \E x \in Actor : E!Receive(x, t)
  <2>1. PICK x \in Actor : E!Receive(x, t)
    BY <1>3
  <2> DEFINE r == [E!Idle EXCEPT !.pc = "check", !.on = t, !.worker = TRUE]
  <2>2. r \in EActor /\ EWorks(r) /\ EHas(r) = t /\ r.pc = "check"
    BY DEF E!Idle, E!NoGrade, EGrade, EActor, EPc, EWorks, EHas
  <2>3. eact' = [eact EXCEPT ![x] = r] /\ eact[x].pc = "idle"
    BY <2>1 DEF E!Receive, E!Begin, E!At
  <2> HIDE DEF r
  <2>4. /\ EWork' /\ EHand' = [EHand EXCEPT ![x] = t]
        /\ EDone' = EDone \ {x} /\ EHand[x] = EHas(eact[x])
    BY <2>2, <2>3, EView
  <2>5. EDone' = EDone /\ EHand[x] = None
    BY <2>3, <2>4 DEF EDone, EWork, EWorks, EHas
  <2>6. E!Queue!Deliver(x, t)
    BY <2>1, <2>4, <2>5 DEF E!Receive, E!history, E!Queue!Deliver, EHand, EDone, E!At
  <2> QED BY <2>4, <2>6 DEF EQueueStep, E!Queue!Next
<1> QED BY <1>1, <1>2, <1>3

\* A call that lets its message go.
LEMMA EReleases ==
  ASSUME EInv, EWork, NEW x \in Actor, E!Ack(x) \/ E!Crash(x)
  PROVE  EQueueStep /\ EWork'
<1>1. eact' = [eact EXCEPT ![x] = E!Idle] /\ UNCHANGED <<eval, failed, elost>>
  BY DEF E!Ack, E!Crash, E!Return, E!tables, E!history
<1>2. /\ EWork' /\ EHand' = [EHand EXCEPT ![x] = None] /\ EDone' = EDone \ {x}
      /\ EHand[x] = EHas(eact[x])
  BY <1>1, ERests, EView
<1>3. CASE E!Ack(x)
  <2>1. eact[x].pc = "ack" /\ equeue' = [equeue EXCEPT ![eact[x].on] = "deleted"]
    BY <1>3 DEF E!Ack, E!At
  <2>2. x \in EDone /\ EHand[x] = eact[x].on
    BY <1>2, <2>1 DEF EDone, EWork, EWorks, EHas
  <2>3. E!Queue!HandIn(x)
    BY <1>1, <1>2, <2>1, <2>2 DEF E!Queue!HandIn, EHand, EDone, E!At
  <2> QED BY <1>2, <2>3 DEF EQueueStep, E!Queue!Next
<1>4. CASE E!Crash(x)
  <2>1. equeue' = equeue
    BY <1>4 DEF E!Crash, E!tables
  <2>2. CASE EHand[x] = None
    <3>1. eact[x].worker => eact[x].on \in Turn
      BY DEF EWork, EWorks, EInv, EOutcome
    <3>2. ~eact[x].worker /\ eact[x].pc # "ack"
      BY <1>2, <2>2, <3>1, ModulesAssumption DEF E!EvaluationJobsAssumption, EHas, EWork, EWorks
    <3>3. EHand' = EHand /\ EDone' = EDone
      BY <1>2, <2>2, <3>2 DEF EHand, EDone
    <3> QED BY <1>1, <1>2, <2>1, <3>3, EUnseen
  <2>3. CASE EHand[x] # None
    <3>1. E!Queue!Drop(x)
      BY <1>1, <1>2, <2>1, <2>3 DEF E!Queue!Drop, EHand, EDone, E!At
    <3> QED BY <1>2, <3>1 DEF EQueueStep, E!Queue!Next
  <2> QED BY <2>2, <2>3
<1> QED BY <1>3, <1>4

\* A worker or a tool at its turn.
LEMMA ETurnSteps ==
  ASSUME EInv, EWork, NEW x \in Actor,
         \/ E!CheckEvaluated(x) \/ E!CreateEvaluation(x) \/ E!EvaluationFails(x)
         \/ E!MarkFailed(x) \/ E!SkipBlank(x)
  PROVE  EQueueStep /\ EWork'
<1> DEFINE at(pc) == [eact[x] EXCEPT !.pc = pc]
           t == eact[x].on
<1>1. /\ eact[x].pc \in {"check", "store", "mark"} /\ t \in Turn /\ t # None
      /\ EWorks(eact[x]) /\ eact[x] \in EActor
  BY ModulesAssumption
     DEF E!EvaluationJobsAssumption, E!CheckEvaluated, E!CreateEvaluation, E!EvaluationFails, E!MarkFailed,
         E!SkipBlank, E!At, EInv, EOutcome, EType, EWork
<1>2. /\ x \notin EDone
      /\ EHand[x] = EHas(eact[x])
  BY <1>1 DEF EDone, EHand, EHas
<1>3. \A pc \in {"store", "mark", "ack"} :
        /\ at(pc) \in EActor /\ at(pc).pc = pc /\ at(pc).on = t /\ at(pc).worker = eact[x].worker
  BY <1>1 DEF EActor, EPc
<1> HIDE DEF at
<1>4. ASSUME eact[x].worker, eact' = [eact EXCEPT ![x] = at("ack")]
      PROVE  EWork' /\ EHand' = EHand /\ EDone' = EDone \cup {x}
  <2>1. EWorks(at("ack")) /\ EHas(at("ack")) = t /\ at("ack") \in EActor /\ at("ack").pc = "ack"
    BY <1>3, <1>4 DEF EWorks, EHas
  <2>2. EWork' /\ EHand' = [EHand EXCEPT ![x] = t] /\ EDone' = EDone \cup {x}
    BY <1>4, <2>1, EView
  <2> QED BY <1>2, <1>4, <2>2 DEF EHas, EHand
<1>5. ASSUME ~eact[x].worker, eact' = [eact EXCEPT ![x] = E!Idle]
      PROVE  EWork' /\ EHand' = EHand /\ EDone' = EDone
  <2>1. EWork' /\ EHand' = [EHand EXCEPT ![x] = None] /\ EDone' = EDone \ {x}
    BY <1>5, ERests, EView
  <2> QED BY <1>2, <1>5, <2>1 DEF EHas, EHand
<1>6. ASSUME NEW pc \in {"store", "mark"}, pc = "mark" => eact[x].worker, eact' = [eact EXCEPT ![x] = at(pc)]
      PROVE  EWork' /\ EHand' = EHand /\ EDone' = EDone
  <2>1. EWorks(at(pc)) /\ EHas(at(pc)) = EHas(eact[x]) /\ at(pc) \in EActor /\ at(pc).pc = pc
    BY <1>3, <1>6 DEF EWorks, EHas
  <2>2. EWork' /\ EHand' = [EHand EXCEPT ![x] = EHas(eact[x])] /\ EDone' = EDone \ {x}
    BY <1>6, <2>1, EView
  <2> QED BY <1>2, <2>2 DEF EHand
<1>7. ASSUME eact[x].worker, EHand' = EHand, EDone' = EDone \cup {x}, UNCHANGED <<equeue, elost>>,
             eval' \cup failed' = (eval \cup failed) \cup {t}
      PROVE  EQueueStep
  <2>1. EHand[x] = t
    BY <1>2, <1>7 DEF EHas
  <2>2. E!Queue!Tell(x)
    BY <1>1, <1>2, <1>7, <2>1 DEF E!Queue!Tell, E!Queue!AtWork, EHand, EDone, E!At
  <2> QED BY <2>2 DEF EQueueStep, E!Queue!Next
<1>8. CASE E!CheckEvaluated(x)
  <2>1. UNCHANGED <<equeue, eval, failed, elost>>
    BY <1>8 DEF E!CheckEvaluated, E!tables, E!history
  <2>2. \/ t \in eval /\ eact[x].worker /\ eact' = [eact EXCEPT ![x] = at("ack")]
        \/ ~eact[x].worker /\ eact' = [eact EXCEPT ![x] = E!Idle]
        \/ eact' = [eact EXCEPT ![x] = at("store")]
    BY <1>8 DEF E!CheckEvaluated, E!Done, E!Goto, E!Return, at
  <2> QED BY <1>4, <1>5, <1>6, <1>7, <2>1, <2>2, EUnseen
<1>9. CASE E!CreateEvaluation(x)
  <2>1. /\ UNCHANGED <<equeue, failed, elost>> /\ eval' = eval \cup {t}
        /\ \/ eact[x].worker /\ eact' = [eact EXCEPT ![x] = at("ack")]
           \/ ~eact[x].worker /\ eact' = [eact EXCEPT ![x] = E!Idle]
    BY <1>9 DEF E!CreateEvaluation, E!Done, E!Goto, E!Return, at
  <2>2. eval' \cup failed' = (eval \cup failed) \cup {t}
    BY <2>1
  <2>3. CASE eact[x].worker
    BY <1>4, <1>7, <2>1, <2>2, <2>3
  <2>4. CASE ~eact[x].worker
    <3>1. EWork' /\ EHand' = EHand /\ EDone' = EDone
      BY <1>5, <2>1, <2>4
    <3>2. E!Queue!TellAside(t)
      BY <1>1, <2>1, <2>2, <3>1 DEF E!Queue!TellAside, EHand, EDone, E!At
    <3> QED BY <1>1, <3>1, <3>2 DEF EQueueStep, E!Queue!Next
  <2> QED BY <2>3, <2>4
<1>10. CASE E!EvaluationFails(x)
  <2>1. UNCHANGED <<equeue, eval, failed, elost>>
    BY <1>10 DEF E!EvaluationFails, E!tables, E!history
  <2>2. \/ eact[x].worker /\ eact' = [eact EXCEPT ![x] = at("mark")]
        \/ ~eact[x].worker /\ eact' = [eact EXCEPT ![x] = E!Idle]
    BY <1>10 DEF E!EvaluationFails, E!Goto, E!Return, at
  <2> QED BY <1>5, <1>6, <2>1, <2>2, EUnseen
<1>11. ASSUME eact[x].worker, elost' = elost \cup {t}, UNCHANGED <<equeue, eval, failed>>,
              eact' = [eact EXCEPT ![x] = at("ack")]
       PROVE  EQueueStep /\ EWork'
  <2>1. EWork' /\ EHand' = EHand /\ EDone' = EDone \cup {x}
    BY <1>4, <1>11
  <2>2. EHand[x] = t
    BY <1>2, <1>11 DEF EHas
  <2>3. E!Queue!GiveUp(x)
    BY <1>1, <1>2, <1>11, <2>1, <2>2 DEF E!Queue!GiveUp, E!Queue!AtWork, EHand, EDone, E!At
  <2> QED BY <2>1, <2>3 DEF EQueueStep, E!Queue!Next
<1>12. CASE E!MarkFailed(x)
  <2>1. /\ UNCHANGED <<equeue, eval, failed>> /\ elost' = elost \cup {t} /\ eact[x].pc = "mark"
        /\ eact' = [eact EXCEPT ![x] = at("ack")]
    BY <1>12 DEF E!MarkFailed, E!JobRows, E!Goto, E!At, at
  <2> QED BY <1>1, <1>11, <2>1 DEF EWorks
<1>13. CASE E!SkipBlank(x)
  <2>1. /\ UNCHANGED <<equeue, eval, failed>>
        /\ \/ eact[x].worker /\ elost' = elost \cup {t} /\ eact' = [eact EXCEPT ![x] = at("ack")]
           \/ ~eact[x].worker /\ elost' = elost /\ eact' = [eact EXCEPT ![x] = E!Idle]
    BY <1>13 DEF E!SkipBlank, E!tables, E!Done, E!Goto, E!Return, at
  <2> QED BY <1>5, <1>11, <2>1, EUnseen
<1> QED BY <1>8, <1>9, <1>10, <1>12, <1>13

\* The tools: no message is with them, and of the outcomes they tell none.
LEMMA EToolSteps ==
  ASSUME EInv, EWork, NEW x \in Actor,
         \/ \E t \in Turn : E!Evaluate(x, t)
         \/ E!OverrideRead(x) \/ (\E s \in Score : E!Override(x, s))
         \/ E!ReleaseRead(x) \/ E!ComputeGrade(x) \/ E!CreateGrade(x) \/ E!Release(x)
  PROVE  EQueueStep /\ EWork'
<1>1. ~eact[x].worker /\ eact[x].pc # "ack" /\ eact[x] \in EActor /\ grade \in EGrade
  BY DEF E!Evaluate, E!OverrideRead, E!Override, E!ReleaseRead, E!ComputeGrade, E!CreateGrade, E!Release,
         E!Begin, E!At, EInv, EType, EWork, EWorks
<1>2. UNCHANGED <<equeue, eval, failed, elost>>
  BY DEF E!Evaluate, E!OverrideRead, E!Override, E!ReleaseRead, E!ComputeGrade, E!CreateGrade, E!Release,
         E!tables, E!history
<1>3. \E r \in EActor : ~r.worker /\ r.pc \notin {"mark", "ack"} /\ eact' = [eact EXCEPT ![x] = r]
  <2>1. CASE \E t \in Turn : E!Evaluate(x, t)
    <3>1. PICK t \in Turn : E!Evaluate(x, t)
      BY <2>1
    <3> DEFINE r == [E!Idle EXCEPT !.pc = "check", !.on = t]
    <3>2. r \in EActor /\ ~r.worker /\ r.pc = "check"
      BY DEF E!Idle, E!NoGrade, EGrade, EActor, EPc
    <3> QED BY <3>1, <3>2 DEF E!Evaluate, E!Begin
  <2>2. CASE E!OverrideRead(x)
    <3> DEFINE r == [E!Idle EXCEPT !.pc = "override", !.grade = grade]
    <3>1. r \in EActor /\ ~r.worker /\ r.pc = "override"
      BY <1>1 DEF E!Idle, E!NoGrade, EGrade, EActor, EPc
    <3> QED BY <2>2, <3>1 DEF E!OverrideRead, E!Begin
  <2>3. CASE E!ReleaseRead(x)
    <3> DEFINE r == [E!Idle EXCEPT !.pc = IF grade.status = "none" THEN "compute" ELSE "release",
                                   !.grade = grade]
    <3>1. r \in EActor /\ ~r.worker /\ r.pc \in {"compute", "release"}
      BY <1>1 DEF E!Idle, E!NoGrade, EGrade, EActor, EPc
    <3> QED BY <2>3, <3>1 DEF E!ReleaseRead, E!Begin
  <2>4. CASE E!ComputeGrade(x)
    <3> DEFINE g == [E!NoGrade EXCEPT !.status = "pending", !.counted = eval]
               r == [eact[x] EXCEPT !.pc = "grade", !.grade = g]
    <3>1. g \in EGrade
      BY DEF E!NoGrade, EGrade, EInv, EType
    <3> HIDE DEF g
    <3>2. r \in EActor /\ ~r.worker /\ r.pc = "grade"
      BY <1>1, <3>1 DEF EActor, EPc
    <3> QED BY <2>4, <3>2 DEF E!ComputeGrade, g
  <2>5. CASE E!CreateGrade(x)
    <3> DEFINE r == [eact[x] EXCEPT !.pc = "release"]
    <3>1. r \in EActor /\ ~r.worker /\ r.pc = "release"
      BY <1>1 DEF EActor, EPc
    <3>2. E!Idle \in EActor /\ ~E!Idle.worker /\ E!Idle.pc = "idle"
      BY ERests DEF E!Idle
    <3> QED BY <2>5, <3>1, <3>2 DEF E!CreateGrade, E!Goto, E!Return
  <2>6. CASE (\E s \in Score : E!Override(x, s)) \/ E!Release(x)
    <3>1. E!Idle \in EActor /\ ~E!Idle.worker /\ E!Idle.pc = "idle"
      BY ERests DEF E!Idle
    <3> QED BY <2>6, <3>1 DEF E!Override, E!Release, E!Return
  <2> QED BY <2>1, <2>2, <2>3, <2>4, <2>5, <2>6
<1>4. PICK r \in EActor : ~r.worker /\ r.pc \notin {"mark", "ack"} /\ eact' = [eact EXCEPT ![x] = r]
  BY <1>3
<1>5. EWorks(r) /\ EHas(r) = None /\ r.pc # "ack"
  BY <1>4 DEF EWorks, EHas
<1>6. EWork' /\ EHand' = [EHand EXCEPT ![x] = None] /\ EDone' = EDone \ {x} /\ EHand[x] = EHas(eact[x])
  BY <1>4, <1>5, EView
<1>7. EHand' = EHand /\ EDone' = EDone
  BY <1>1, <1>6 DEF EHas, EHand, EDone
<1> QED BY <1>2, <1>6, <1>7, EUnseen

\* Every step of evaluation is a step of the queue.
LEMMA ERefines == EInv /\ EWork /\ [E!Next]_evars => EQueueStep /\ EWork'
<1> SUFFICES ASSUME EInv, EWork, [E!Next]_evars PROVE EQueueStep /\ EWork'
  OBVIOUS
<1>1. CASE UNCHANGED evars
  <2>1. EHand' = EHand /\ EDone' = EDone /\ EWork' /\ UNCHANGED <<equeue, eval, failed, elost>>
    BY <1>1 DEF evars, EHand, EDone, EWork
  <2> QED BY <2>1, EUnseen
<1>2. CASE E!Next
  BY <1>2, EQueueSteps, EReleases, ETurnSteps, EToolSteps DEF E!Next
<1> QED BY <1>1, <1>2

\* It begins empty.
LEMMA EOpens == E!Init => E!Queue!Init /\ EWork
<1> SUFFICES ASSUME E!Init PROVE E!Queue!Init /\ EWork
  OBVIOUS
<1>1. \A x \in Actor : eact[x] = E!Idle
  BY DEF E!Init
<1>2. ~E!Idle.worker /\ E!Idle.pc = "idle"
  BY DEF E!Idle
<1>3. EWork
  BY <1>1, <1>2 DEF EWork, EWorks
<1>4. EHand = [x \in Actor |-> None] /\ EDone = {}
  BY <1>1, <1>2 DEF EHand, EDone
<1>5. E!Queue!Init
  BY <1>4 DEF E!Init, E!Queue!Init, EHand, EDone, E!At
<1> QED BY <1>3, <1>5

\* Of every reachable state it holds which calls have a message.
LEMMA EWorkInvariant == Spec => []EWork
<1>1. Init => EWork
  BY EOpens DEF Init
<1>2. EInv /\ EWork /\ [E!Next]_evars => EWork'
  BY ERefines
<1> QED BY <1>1, <1>2, EInvariant, WorkersStep, PTL DEF Spec

\* Generation jobs: the message of each actor, the actors that may hand theirs in, and the jobs that
\* show how they ended.
QHand == [x \in Actor |-> qact[x].on]
QDone == {x \in Actor : qact[x].pc = "ack"}
QTold == {j \in Generation : job[j].status \in {"succeeded", "failed"}}

QQueueStep == [Q!Queue!Next]_(Q!Queue!vars)

\* What the queue sees of a step of one actor.
LEMMA QView ==
  ASSUME QInv, NEW x \in Actor, \A y \in Actor \ {x} : qact'[y] = qact[y]
  PROVE  /\ QHand' = [QHand EXCEPT ![x] = qact'[x].on]
         /\ QDone' = IF qact'[x].pc = "ack" THEN QDone \cup {x} ELSE QDone \ {x}
<1>1. \A y \in Actor : qact'[y].on = IF y = x THEN qact'[x].on ELSE qact[y].on
  OBVIOUS
<1> QED BY <1>1 DEF QHand, QDone

\* A step that leaves messages, hands and outcomes alone is not seen.
LEMMA QUnseen ==
  ASSUME QHand' = QHand, QDone' = QDone, QTold' = QTold, UNCHANGED <<qqueue, qlost>>
  PROVE  QQueueStep
BY DEF QHand, QDone, QTold, QQueueStep, Q!Queue!vars, Q!At

\* Sending, delivering and redelivering.
LEMMA QQueueSteps ==
  ASSUME QInv, NEW j \in Generation,
         Q!Send(j) \/ Q!VisibilityTimeout(j) \/ \E x \in Actor : Q!Receive(x, j)
  PROVE  QQueueStep
<1>1. CASE Q!Send(j)
  <2>1. QHand' = QHand /\ QDone' = QDone /\ QTold' = QTold
    BY <1>1 DEF Q!Send, QHand, QDone, QTold
  <2>2. Q!Queue!Send(j)
    BY <1>1, <2>1 DEF Q!Send, Q!history, Q!Queue!Send, QHand, QDone, QTold, Q!At
  <2> QED BY <2>2 DEF QQueueStep, Q!Queue!Next
<1>2. CASE Q!VisibilityTimeout(j)
  <2>1. QHand' = QHand /\ QDone' = QDone /\ QTold' = QTold
    BY <1>2 DEF Q!VisibilityTimeout, QHand, QDone, QTold
  <2>2. Q!Queue!Reappear(j)
    BY <1>2, <2>1 DEF Q!VisibilityTimeout, Q!history, Q!Queue!Reappear, QHand, QDone, QTold, Q!At
  <2> QED BY <2>2 DEF QQueueStep, Q!Queue!Next
<1>3. CASE \E x \in Actor : Q!Receive(x, j)
  <2>1. PICK x \in Actor : Q!Receive(x, j)
    BY <1>3
  <2> DEFINE r == [Q!Idle EXCEPT !.pc = "running", !.on = j]
  <2>2. r.on = j /\ r.pc = "running"
    BY DEF Q!Idle
  <2>3. qact' = [qact EXCEPT ![x] = r] /\ qact[x].pc = "idle"
    BY <2>1 DEF Q!Receive, Q!Begin, Q!At
  <2> HIDE DEF r
  <2>4. qact'[x] = r /\ \A y \in Actor \ {x} : qact'[y] = qact[y]
    BY <2>3 DEF QInv, QType
  <2>5. QHand' = [QHand EXCEPT ![x] = j] /\ QDone' = QDone
    BY <2>2, <2>3, <2>4, QView DEF QDone
  <2>6. QHand[x] = None
    BY <2>3 DEF QInv, QActs, QWorking, QHand
  <2>7. QTold' = QTold
    BY <2>1 DEF Q!Receive, QTold
  <2>8. Q!Queue!Deliver(x, j)
    BY <2>1, <2>5, <2>6, <2>7 DEF Q!Receive, Q!Queue!Deliver, QHand, QDone, QTold, Q!At
  <2> QED BY <2>8 DEF QQueueStep, Q!Queue!Next
<1> QED BY <1>1, <1>2, <1>3

\* A process that lets its message go, or what it was at without one.
LEMMA QReleases ==
  ASSUME QInv, NEW x \in Actor, Q!Ack(x) \/ Q!Crash(x)
  PROVE  QQueueStep
<1>1. Q!Idle.pc = "idle" /\ Q!Idle.on = None
  BY DEF Q!Idle
<1>2. qact' = [qact EXCEPT ![x] = Q!Idle] /\ UNCHANGED <<job, qlost>>
  BY DEF Q!Ack, Q!Crash, Q!history
<1>3. qact'[x] = Q!Idle /\ \A y \in Actor \ {x} : qact'[y] = qact[y]
  BY <1>2 DEF QInv, QType
<1>4. QHand' = [QHand EXCEPT ![x] = None] /\ QDone' = QDone \ {x} /\ QTold' = QTold
  BY <1>1, <1>2, <1>3, QView DEF QTold
<1>5. CASE Q!Ack(x)
  <2>1. x \in QDone /\ qqueue' = [qqueue EXCEPT ![QHand[x]] = "deleted"]
    BY <1>5 DEF Q!Ack, Q!At, QDone, QHand
  <2>2. Q!Queue!HandIn(x)
    BY <1>2, <1>4, <2>1 DEF Q!Queue!HandIn, QHand, QDone, QTold, Q!At
  <2> QED BY <2>2 DEF QQueueStep, Q!Queue!Next
<1>6. CASE Q!Crash(x)
  <2>1. qqueue' = qqueue
    BY <1>6 DEF Q!Crash
  <2>2. CASE QHand[x] = None
    <3>1. x \notin QDone
      BY <2>2 DEF QInv, QActs, QWorking, QHand, QDone
    <3>2. QHand' = QHand /\ QDone' = QDone
      BY <1>4, <2>2, <3>1 DEF QHand
    <3> QED BY <1>2, <1>4, <2>1, <3>2, QUnseen
  <2>3. CASE QHand[x] # None
    <3>1. Q!Queue!Drop(x)
      BY <1>2, <1>4, <2>1, <2>3 DEF Q!Queue!Drop, QHand, QDone, QTold, Q!At
    <3> QED BY <3>1 DEF QQueueStep, Q!Queue!Next
  <2> QED BY <2>2, <2>3
<1> QED BY <1>5, <1>6

\* The worker at its job.
LEMMA QJobSteps ==
  ASSUME QInv, NEW x \in Actor,
         \/ Q!MarkRunning(x) \/ Q!Succeed(x) \/ Q!GenerationFails(x) \/ Q!MarkFailed(x) \/ Q!RecordFails(x)
         \/ Q!CreateQuestion(x) \/ \E n \in Nat : Q!Generate(x, n)
  PROVE  QQueueStep
<1> DEFINE j == qact[x].on
<1>0. qact[x] \in QActor /\ qact \in [Actor -> QActor]
  BY DEF QInv, QType
<1>1. qact[x].pc \in {"running", "generate", "create", "mark"}
  BY DEF Q!MarkRunning, Q!Succeed, Q!GenerationFails, Q!MarkFailed, Q!RecordFails, Q!CreateQuestion,
         Q!Generate, Q!At
<1>2. j \in Generation /\ j # None /\ QHand[x] = j /\ x \notin QDone
  BY <1>0, <1>1, QConstants DEF QInv, QActs, QWorking, QActor, QHand, QDone
<1>3. qqueue' = qqueue
  BY DEF Q!MarkRunning, Q!Succeed, Q!GenerationFails, Q!MarkFailed, Q!RecordFails, Q!CreateQuestion,
         Q!Generate, Q!history
<1>4. qact'[x].on = j /\ \A y \in Actor \ {x} : qact'[y] = qact[y]
  BY <1>0 DEF Q!MarkRunning, Q!Succeed, Q!GenerationFails, Q!MarkFailed, Q!RecordFails, Q!CreateQuestion,
              Q!Generate, Q!Goto, QActor
<1>5. /\ QHand' = QHand
      /\ QDone' = IF qact'[x].pc = "ack" THEN QDone \cup {x} ELSE QDone
  <2>1. /\ QHand' = [QHand EXCEPT ![x] = j]
        /\ QDone' = IF qact'[x].pc = "ack" THEN QDone \cup {x} ELSE QDone \ {x}
    BY <1>4, QView
  <2>2. QDone \ {x} = QDone
    BY <1>2
  <2>3. [QHand EXCEPT ![x] = j] = QHand
    BY <1>2 DEF QHand
  <2> QED BY <2>1, <2>2, <2>3
<1>6. ASSUME NEW new, job' = [job EXCEPT ![j] = new]
      PROVE  QTold' = IF new.status \in {"succeeded", "failed"} THEN QTold \cup {j} ELSE QTold \ {j}
  <2>1. \A i \in Generation : job'[i] = IF i = j THEN new ELSE job[i]
    BY <1>6 DEF QInv, QType
  <2> QED BY <1>2, <2>1 DEF QTold
<1>7. CASE UNCHANGED <<job, qlost>> /\ qact'[x].pc # "ack"
  <2>1. QTold' = QTold
    BY <1>7 DEF QTold
  <2> QED BY <1>3, <1>5, <1>7, <2>1, QUnseen
<1>8. CASE qlost' = qlost /\ qact'[x].pc # "ack" /\ QTold' = QTold \ {j}
  <2>1. Q!Queue!Reopen(x)
    BY <1>2, <1>3, <1>5, <1>8 DEF Q!Queue!Reopen, Q!Queue!AtWork, QHand, QDone, QTold, Q!At
  <2> QED BY <2>1 DEF QQueueStep, Q!Queue!Next
<1>9. CASE qlost' = qlost /\ qact'[x].pc = "ack" /\ QTold' = QTold \cup {j}
  <2>1. Q!Queue!Tell(x)
    BY <1>2, <1>3, <1>5, <1>9 DEF Q!Queue!Tell, Q!Queue!AtWork, QHand, QDone, QTold, Q!At
  <2> QED BY <2>1 DEF QQueueStep, Q!Queue!Next
<1>10. CASE job' = job /\ qlost' = qlost \cup {j} /\ qact'[x].pc = "ack"
  <2>1. QTold' = QTold
    BY <1>10 DEF QTold
  <2>2. Q!Queue!GiveUp(x)
    BY <1>2, <1>3, <1>5, <1>10, <2>1 DEF Q!Queue!GiveUp, Q!Queue!AtWork, QHand, QDone, QTold, Q!At
  <2> QED BY <2>2 DEF QQueueStep, Q!Queue!Next
<1>11. job[j] \in [status : {"queued", "running", "succeeded", "failed"}, ids : SUBSET Draft]
  BY <1>2 DEF QInv, QType
<1>12. CASE Q!MarkRunning(x)
  <2> DEFINE d == [job[j] EXCEPT !.status = "running"]
  <2>1. d.status = "running" /\ job' = [job EXCEPT ![j] = d]
    BY <1>11, <1>12 DEF Q!MarkRunning
  <2> HIDE DEF d
  <2>2. QTold' = QTold \ {j}
    BY <1>6, <2>1
  <2> QED BY <1>0, <1>8, <1>12, <2>2 DEF Q!MarkRunning, Q!history, Q!Goto, QActor
<1>13. CASE Q!Succeed(x)
  <2> DEFINE d == [status |-> "succeeded", ids |-> qact[x].ids]
  <2>1. d.status = "succeeded" /\ job' = [job EXCEPT ![j] = d]
    BY <1>13 DEF Q!Succeed
  <2> HIDE DEF d
  <2>2. QTold' = QTold \cup {j}
    BY <1>6, <2>1
  <2> QED BY <1>0, <1>9, <1>13, <2>2 DEF Q!Succeed, Q!history, Q!Goto, QActor
<1>14. CASE Q!MarkFailed(x)
  <2> DEFINE d == [job[j] EXCEPT !.status = "failed"]
  <2>1. d.status = "failed" /\ job' = [job EXCEPT ![j] = d]
    BY <1>11, <1>14 DEF Q!MarkFailed
  <2> HIDE DEF d
  <2>2. QTold' = QTold \cup {j}
    BY <1>6, <2>1
  <2> QED BY <1>0, <1>9, <1>14, <2>2 DEF Q!MarkFailed, Q!history, Q!Goto, QActor
<1>15. CASE Q!RecordFails(x)
  BY <1>0, <1>10, <1>15 DEF Q!RecordFails, Q!Goto, QActor
<1>16. CASE Q!GenerationFails(x) \/ \E n \in Nat : Q!Generate(x, n)
  BY <1>0, <1>7, <1>16 DEF Q!GenerationFails, Q!Generate, Q!history, Q!Goto, QActor
<1>17. CASE Q!CreateQuestion(x)
  BY <1>0, <1>7, <1>17 DEF Q!CreateQuestion, Q!At, Q!history, QActor
<1> QED BY <1>12, <1>13, <1>14, <1>15, <1>16, <1>17

\* The tools have no message.
LEMMA QToolSteps ==
  ASSUME QInv, NEW x \in Actor,
         \/ Q!CreateNow(x) \/ Q!UpdateQuestion(x)
         \/ \E n \in Nat \ {0} : Q!GenerateNow(x, n)
         \/ \E q \in Draft, s \in {"approved", "rejected"} : Q!Review(x, q, s)
  PROVE  QQueueStep
<1>0. qact[x] \in QActor /\ qact \in [Actor -> QActor]
  BY DEF QInv, QType
<1>1. Q!Idle.pc = "idle" /\ Q!Idle.on = None /\ Q!Idle \in QActor
  BY DEF Q!Idle, QActor
<1>2. UNCHANGED <<qqueue, job, qlost>> /\ qact[x].pc \in {"idle", "now", "review"}
  BY DEF Q!CreateNow, Q!UpdateQuestion, Q!GenerateNow, Q!Review, Q!history, Q!Begin, Q!At
<1>3. qact[x].on = None
  BY <1>2 DEF QInv, QActs, QWorking
<1>4. qact'[x].on = None /\ qact'[x].pc # "ack" /\ \A y \in Actor \ {x} : qact'[y] = qact[y]
  <2>1. CASE Q!CreateNow(x)
    <3>1. qact[x].pc = "now"
      BY <2>1 DEF Q!CreateNow, Q!At
    <3>2. qact' = [qact EXCEPT ![x] = Q!Idle] \/ qact' = [qact EXCEPT ![x].left = @ - 1]
      BY <2>1 DEF Q!CreateNow
    <3>3. qact'[x] = Q!Idle \/ qact'[x] = [qact[x] EXCEPT !.left = @ - 1]
      BY <1>0, <3>2
    <3>4. qact'[x].on = None /\ qact'[x].pc # "ack"
      BY <1>0, <1>1, <1>3, <3>1, <3>3 DEF QActor
    <3> QED BY <1>0, <3>2, <3>4
  <2>2. CASE Q!UpdateQuestion(x)
    BY <1>0, <1>1, <2>2 DEF Q!UpdateQuestion
  <2>3. CASE \E n \in Nat \ {0} : Q!GenerateNow(x, n)
    <3>1. PICK n \in Nat \ {0} : Q!GenerateNow(x, n)
      BY <2>3
    <3> DEFINE r == [Q!Idle EXCEPT !.pc = "now", !.left = n]
    <3>2. r.on = None /\ r.pc = "now"
      BY DEF Q!Idle
    <3>3. qact' = [qact EXCEPT ![x] = r]
      BY <3>1 DEF Q!GenerateNow, Q!Begin
    <3> HIDE DEF r
    <3> QED BY <1>0, <3>2, <3>3
  <2>4. CASE \E q \in Draft, s \in {"approved", "rejected"} : Q!Review(x, q, s)
    <3>1. PICK q \in Draft, s \in {"approved", "rejected"} : Q!Review(x, q, s)
      BY <2>4
    <3> DEFINE r == [Q!Idle EXCEPT !.pc = "review", !.ids = {q}, !.status = s]
    <3>2. r.on = None /\ r.pc = "review"
      BY DEF Q!Idle
    <3>3. qact' = [qact EXCEPT ![x] = r]
      BY <3>1 DEF Q!Review, Q!Begin
    <3> HIDE DEF r
    <3> QED BY <1>0, <3>2, <3>3
  <2> QED BY <2>1, <2>2, <2>3, <2>4
<1>5. QHand' = QHand /\ QDone' = QDone /\ QTold' = QTold
  <2>1. QHand' = [QHand EXCEPT ![x] = None] /\ QDone' = QDone \ {x}
    BY <1>4, QView
  <2>2. QHand[x] = None /\ x \notin QDone
    BY <1>2, <1>3 DEF QHand, QDone
  <2> QED BY <1>2, <2>1, <2>2 DEF QHand, QTold
<1> QED BY <1>2, <1>5, QUnseen

\* Every step of generation is a step of the queue.
LEMMA QRefines == QInv /\ [Q!Next]_qvars => QQueueStep
<1> SUFFICES ASSUME QInv, [Q!Next]_qvars PROVE QQueueStep
  OBVIOUS
<1>1. CASE UNCHANGED qvars
  <2>1. QHand' = QHand /\ QDone' = QDone /\ QTold' = QTold /\ UNCHANGED <<qqueue, qlost>>
    BY <1>1 DEF qvars, QHand, QDone, QTold
  <2> QED BY <2>1, QUnseen
<1>2. CASE Q!Next
  <2>1. CASE \E j \in Generation : Q!Send(j) \/ Q!VisibilityTimeout(j) \/ \E x \in Actor : Q!Receive(x, j)
    BY <2>1, QQueueSteps
  <2>2. CASE \E x \in Actor : Q!Ack(x) \/ Q!Crash(x)
    BY <2>2, QReleases
  <2>3. CASE \E x \in Actor :
               \/ Q!MarkRunning(x) \/ Q!Succeed(x) \/ Q!GenerationFails(x) \/ Q!MarkFailed(x) \/ Q!RecordFails(x)
               \/ Q!CreateQuestion(x) \/ \E n \in 0 .. Q!Cardinality(Draft) : Q!Generate(x, n)
    <3>1. \A n \in 0 .. Q!Cardinality(Draft) : n \in Nat
      OBVIOUS
    <3> QED BY <2>3, <3>1, QJobSteps
  <2>4. CASE \E x \in Actor :
               \/ Q!CreateNow(x) \/ Q!UpdateQuestion(x)
               \/ \E n \in 1 .. Q!Cardinality(Draft) : Q!GenerateNow(x, n)
               \/ \E q \in Draft, s \in {"approved", "rejected"} : Q!Review(x, q, s)
    <3>1. \A n \in 1 .. Q!Cardinality(Draft) : n \in Nat \ {0}
      OBVIOUS
    <3> QED BY <2>4, <3>1, QToolSteps
  <2> QED BY <1>2, <2>1, <2>2, <2>3, <2>4 DEF Q!Next
<1> QED BY <1>1, <1>2

\* It begins empty.
LEMMA QOpens == Q!Init => Q!Queue!Init
<1> SUFFICES ASSUME Q!Init PROVE Q!Queue!Init
  OBVIOUS
<1>1. \A x \in Actor : qact[x].on = None /\ qact[x].pc = "idle"
  BY DEF Q!Init, Q!Idle
<1>2. QHand = [x \in Actor |-> None] /\ QDone = {}
  BY <1>1 DEF QHand, QDone
<1>3. QTold = {}
  BY DEF Q!Init, QTold
<1> QED BY <1>2, <1>3 DEF Q!Init, Q!Queue!Init, QHand, QDone, QTold, Q!At

\* Graph builds: the message of each worker, the workers that may hand theirs in, and the messages
\* whose outcome a row shows.
GHand == [w \in Actor |-> wk[w].job]
GDone == {w \in Actor : wk[w].pc = "ack"}
GSeen == {j \in Build : G!Recorded(j)}

GQueueStep == [G!Queue!Next]_(G!Queue!vars)

\* What the queue sees of a step of one worker.
LEMMA GView ==
  ASSUME NEW w \in Actor, \A x \in Actor \ {w} : wk'[x] = wk[x]
  PROVE  /\ GHand' = [GHand EXCEPT ![w] = wk'[w].job]
         /\ GDone' = IF wk'[w].pc = "ack" THEN GDone \cup {w} ELSE GDone \ {w}
<1>1. \A x \in Actor : wk'[x].job = IF x = w THEN wk'[w].job ELSE wk[x].job
  OBVIOUS
<1> QED BY <1>1 DEF GHand, GDone

\* A step that leaves messages, hands and outcomes alone is not seen.
LEMMA GUnseen ==
  ASSUME GHand' = GHand, GDone' = GDone, GSeen' = GSeen, UNCHANGED <<gqueue, glost>>
  PROVE  GQueueStep
BY DEF GHand, GDone, GSeen, GQueueStep, G!Queue!vars

\* The rows left alone show what they showed.
LEMMA GSeenSame == ASSUME UNCHANGED ver PROVE GSeen' = GSeen
BY DEF GSeen, G!Recorded, G!Rows

\* Sending, delivering and redelivering.
LEMMA GQueueSteps ==
  ASSUME GBase, NEW j \in Build,
         G!Send(j) \/ G!VisibilityTimeout(j) \/ \E w \in Actor : G!Receive(w, j)
  PROVE  GQueueStep
<1>0. UNCHANGED <<ver, glost>> /\ GSeen' = GSeen
  BY GSeenSame DEF G!Send, G!VisibilityTimeout, G!Receive
<1>1. CASE G!Send(j)
  <2>1. GHand' = GHand /\ GDone' = GDone
    BY <1>1 DEF G!Send, GHand, GDone
  <2>2. G!Queue!Send(j)
    BY <1>0, <1>1, <2>1 DEF G!Send, G!Queue!Send, GHand, GDone, GSeen
  <2> QED BY <2>2 DEF GQueueStep, G!Queue!Next
<1>2. CASE G!VisibilityTimeout(j)
  <2>1. GHand' = GHand /\ GDone' = GDone
    BY <1>2 DEF G!VisibilityTimeout, GHand, GDone
  <2>2. G!Queue!Reappear(j)
    BY <1>0, <1>2, <2>1 DEF G!VisibilityTimeout, G!Queue!Reappear, GHand, GDone, GSeen
  <2> QED BY <2>2 DEF GQueueStep, G!Queue!Next
<1>3. CASE \E w \in Actor : G!Receive(w, j)
  <2>1. PICK w \in Actor : G!Receive(w, j)
    BY <1>3
  <2> DEFINE r == [G!Idle EXCEPT !.pc = "number", !.job = j, !.broken = wk[w].broken]
  <2>2. r.job = j /\ r.pc = "number"
    BY DEF G!Idle
  <2>3. wk' = [wk EXCEPT ![w] = r] /\ wk[w].pc = "idle"
    BY <2>1 DEF G!Receive
  <2> HIDE DEF r
  <2>4. wk'[w] = r /\ \A x \in Actor \ {w} : wk'[x] = wk[x]
    BY <2>3 DEF GBase, GType
  <2>5. GHand' = [GHand EXCEPT ![w] = j] /\ GDone' = GDone
    BY <2>2, <2>3, <2>4, GView DEF GDone
  <2>6. GHand[w] = None
    BY <2>3 DEF GBase, GFit, GHand
  <2>7. G!Queue!Deliver(w, j)
    BY <1>0, <2>1, <2>5, <2>6 DEF G!Receive, G!Queue!Deliver, GHand, GDone, GSeen
  <2> QED BY <2>7 DEF GQueueStep, G!Queue!Next
<1> QED BY <1>1, <1>2, <1>3

\* A worker that lets its message go.
LEMMA GReleases ==
  ASSUME GBase, NEW w \in Actor, G!Ack(w) \/ G!Crash(w)
  PROVE  GQueueStep
<1>0. UNCHANGED <<ver, glost>> /\ GSeen' = GSeen /\ wk \in [Actor -> GWorker]
  BY GSeenSame DEF G!Ack, G!Crash, GBase, GType
<1> DEFINE r == [G!Idle EXCEPT !.broken = wk[w].broken]
<1>1. /\ G!Idle.pc = "idle" /\ G!Idle.job = None
      /\ r.pc = "idle" /\ r.job = None
  BY DEF G!Idle
<1>2. wk' = [wk EXCEPT ![w] = r] \/ wk' = [wk EXCEPT ![w] = G!Idle]
  BY DEF G!Ack, G!Crash
<1> HIDE DEF r
<1>3. wk'[w].pc = "idle" /\ wk'[w].job = None /\ \A x \in Actor \ {w} : wk'[x] = wk[x]
  BY <1>0, <1>1, <1>2
<1>4. GHand' = [GHand EXCEPT ![w] = None] /\ GDone' = GDone \ {w}
  BY <1>3, GView
<1>5. wk[w].pc # "idle" /\ GHand[w] # None
  BY DEF G!Ack, G!Crash, GBase, GFit, GHand
<1>6. CASE G!Ack(w)
  <2>1. w \in GDone /\ (gqueue' = [gqueue EXCEPT ![GHand[w]] = "deleted"] \/ gqueue' = gqueue)
    BY <1>6 DEF G!Ack, GDone, GHand
  <2>2. G!Queue!HandIn(w)
    BY <1>0, <1>4, <2>1 DEF G!Queue!HandIn, GHand, GDone, GSeen
  <2> QED BY <2>2 DEF GQueueStep, G!Queue!Next
<1>7. CASE G!Crash(w)
  <2>1. gqueue' = gqueue
    BY <1>7 DEF G!Crash
  <2>2. G!Queue!Drop(w)
    BY <1>0, <1>4, <1>5, <2>1 DEF G!Queue!Drop, GHand, GDone, GSeen
  <2> QED BY <2>2 DEF GQueueStep, G!Queue!Next
<1> QED BY <1>6, <1>7

\* The steps of a worker that nobody sees.
LEMMA GInnerSteps ==
  ASSUME GBase, NEW w \in Actor,
         \/ G!NextNumber(w) \/ (\E found \in BOOLEAN : G!FetchChunks(w, found)) \/ G!Upload(w)
         \/ G!Deactivate(w) \/ G!Deactivated(w) \/ G!BuildFails(w)
         \/ G!ConnectionBreaks(w) \/ G!StatementFails(w)
  PROVE  GQueueStep
<1>0. wk \in [Actor -> GWorker] /\ wk[w] \in GWorker
  BY DEF GBase, GType
<1>1. UNCHANGED <<gqueue, ver, glost>> /\ GSeen' = GSeen
  BY GSeenSame
     DEF G!NextNumber, G!FetchChunks, G!Upload, G!Deactivate, G!Deactivated, G!BuildFails,
         G!ConnectionBreaks, G!StatementFails
<1>2. wk[w].pc # "ack"
  BY DEF G!NextNumber, G!FetchChunks, G!Upload, G!Deactivate, G!Deactivated, G!BuildFails,
         G!ConnectionBreaks, G!StatementFails, G!At
<1>3. wk'[w].job = wk[w].job /\ wk'[w].pc # "ack" /\ \A x \in Actor \ {w} : wk'[x] = wk[x]
  <2>1. CASE G!NextNumber(w)
    BY <1>0, <2>1 DEF G!NextNumber, GWorker
  <2>2. CASE \E found \in BOOLEAN : G!FetchChunks(w, found)
    BY <1>0, <2>2 DEF G!FetchChunks, G!Goto, GWorker
  <2>3. CASE G!Upload(w) \/ G!BuildFails(w)
    BY <1>0, <2>3 DEF G!Upload, G!BuildFails, G!Goto, GWorker
  <2>4. CASE G!Deactivate(w)
    BY <1>0, <2>4 DEF G!Deactivate, GWorker
  <2>5. CASE G!Deactivated(w)
    BY <1>0, <2>5 DEF G!Deactivated, GWorker
  <2>6. CASE G!ConnectionBreaks(w)
    BY <1>0, <1>2, <2>6 DEF G!ConnectionBreaks, GWorker
  <2>7. CASE G!StatementFails(w)
    BY <1>0, <2>7 DEF G!StatementFails, GWorker
  <2> QED BY <2>1, <2>2, <2>3, <2>4, <2>5, <2>6, <2>7
<1>4. GHand' = [GHand EXCEPT ![w] = wk[w].job] /\ GDone' = GDone \ {w}
  BY <1>3, GView
<1>5. GHand' = GHand /\ GDone' = GDone
  BY <1>2, <1>4 DEF GHand, GDone
<1> QED BY <1>1, <1>5, GUnseen

\* A new row shows nothing yet.
LEMMA GCreateStep ==
  ASSUME GBase, NEW w \in Actor, G!Create(w)
  PROVE  GQueueStep
<1> DEFINE v == CHOOSE v \in Version : v \notin G!Rows
           d == [G!NoRow EXCEPT !.job = wk[w].job, !.no = wk[w].no, !.state = "created"]
<1>0. wk \in [Actor -> GWorker] /\ wk[w] \in GWorker /\ ver \in [Version -> GRow]
  BY DEF GBase, GType
<1>1. v \in Version /\ v \notin G!Rows
  <2>1. \E x \in Version : x \notin G!Rows
    BY DEF G!Create, G!Rows
  <2> QED BY <2>1
<1>2. d.state = "created" /\ d.failed = FALSE
  BY DEF G!NoRow
<1>3. /\ ver' = [ver EXCEPT ![v] = d] /\ wk' = [wk EXCEPT ![w].pc = "fetch", ![w].id = v]
      /\ UNCHANGED <<gqueue, glost>> /\ wk[w].pc = "create"
  BY Zenon DEF G!Create, G!At
<1> HIDE DEF v, d
<1>4. ver'[v] = d /\ \A x \in Version \ {v} : ver'[x] = ver[x]
  BY <1>0, <1>1, <1>3
<1>5. GSeen' = GSeen
  <2>1. \A j : G!Recorded(j)' <=> G!Recorded(j)
    BY <1>1, <1>2, <1>4 DEF G!Recorded, G!Rows
  <2> QED BY <2>1 DEF GSeen
<1>6. wk'[w].job = wk[w].job /\ wk'[w].pc = "fetch" /\ \A x \in Actor \ {w} : wk'[x] = wk[x]
  BY <1>0, <1>3 DEF GWorker
<1>7. GHand' = [GHand EXCEPT ![w] = wk[w].job] /\ GDone' = GDone \ {w}
  BY <1>6, GView
<1>8. GHand' = GHand /\ GDone' = GDone
  BY <1>3, <1>7 DEF GHand, GDone
<1> QED BY <1>3, <1>5, <1>8, GUnseen

\* The statements that record the outcome of a build.
LEMMA GTellSteps ==
  ASSUME GBase, NEW w \in Actor, G!UpdateVersion(w) \/ G!Activate(w) \/ G!MarkFailed(w)
  PROVE  GQueueStep
<1> DEFINE j == wk[w].job
           i == wk[w].id
<1>0. /\ wk \in [Actor -> GWorker] /\ wk[w] \in GWorker /\ GFit(w) /\ ver \in [Version -> GRow]
      /\ G!Rows \subseteq Version
  BY DEF GBase, GType, G!Rows
<1>1. wk[w].pc \in {"update", "built", "commit", "mark"} /\ gqueue' = gqueue
  BY DEF G!UpdateVersion, G!Activate, G!MarkFailed, G!At
<1>2. j \in Build /\ j # None /\ GHand[w] = j /\ w \notin GDone
  BY <1>0, <1>1, GConstants DEF GFit, GWorker, GHand, GDone
<1>3. /\ wk'[w].job = j /\ \A x \in Actor \ {w} : wk'[x] = wk[x]
      /\ G!UpdateVersion(w) => wk'[w].pc # "ack"
      /\ G!Activate(w) \/ G!MarkFailed(w) => wk'[w].pc = "ack"
  <2>1. CASE G!UpdateVersion(w)
    BY <1>0, <1>1, <2>1 DEF G!UpdateVersion, G!Activate, G!MarkFailed, G!At, G!Goto, GWorker
  <2>2. CASE G!Activate(w)
    BY <1>0, <1>1, <2>2 DEF G!UpdateVersion, G!Activate, G!At, GWorker
  <2>3. CASE G!MarkFailed(w)
    BY <1>0, <1>1, <2>3 DEF G!UpdateVersion, G!MarkFailed, G!At, G!Goto, GWorker
  <2> QED BY <2>1, <2>2, <2>3
<1>4. /\ GHand' = GHand
      /\ GDone' = IF wk'[w].pc = "ack" THEN GDone \cup {w} ELSE GDone
  <2>1. /\ GHand' = [GHand EXCEPT ![w] = j]
        /\ GDone' = IF wk'[w].pc = "ack" THEN GDone \cup {w} ELSE GDone \ {w}
    BY <1>3, GView
  <2>2. GDone \ {w} = GDone /\ [GHand EXCEPT ![w] = j] = GHand
    BY <1>2 DEF GHand
  <2> QED BY <2>1, <2>2
<1> HIDE DEF j
<1>5. ASSUME glost' = glost, GSeen' = GSeen \cup {j}
      PROVE  GQueueStep
  <2>1. G!Queue!Tell(w)
    BY <1>1, <1>2, <1>4, <1>5 DEF G!Queue!Tell, G!Queue!AtWork, GHand, GDone, GSeen
  <2> QED BY <2>1 DEF GQueueStep, G!Queue!Next
<1>6. ASSUME \A v \in Version : ver'[v].job = ver[v].job,
             NEW u \in G!Rows, ver[u].job = j, ver'[u].failed \/ ver'[u].state \in {"empty", "built"},
             \A v \in Version \ {u} : ver'[v].failed = ver[v].failed /\ ver'[v].state = ver[v].state
      PROVE  GSeen' = GSeen \cup {j}
  <2>1. G!Rows' = G!Rows
    BY <1>6 DEF G!Rows
  <2>2. ASSUME NEW k \in Build, k = j PROVE G!Recorded(k)'
    BY <1>0, <1>6, <2>1, <2>2 DEF G!Recorded
  <2>3. ASSUME NEW k \in Build, k # j PROVE G!Recorded(k)' <=> G!Recorded(k)
    BY <1>0, <1>6, <2>1, <2>3 DEF G!Recorded
  <2> QED BY <1>2, <2>2, <2>3 DEF GSeen
<1>7. CASE G!UpdateVersion(w)
  <2> DEFINE st == IF wk[w].pc = "built" THEN "built" ELSE "empty"
             d == [ver[i] EXCEPT !.state = st, !.failed = FALSE]
  <2>1. i \in G!Rows /\ ver[i].job = j /\ glost' = glost
    BY <1>0, <1>7 DEF G!UpdateVersion, G!At, GFit, GOwn, GMine, j
  <2>2. d.job = ver[i].job /\ d.state \in {"empty", "built"}
    BY <1>0, <2>1 DEF GRow
  <2>3. ver' = [ver EXCEPT ![i] = d]
    BY <1>0, <1>7, <2>1 DEF G!UpdateVersion
  <2> HIDE DEF d, i
  <2>4. ver'[i] = d /\ \A v \in Version \ {i} : ver'[v] = ver[v]
    BY <1>0, <2>1, <2>3
  <2>5. /\ \A v \in Version : ver'[v].job = ver[v].job
        /\ ver'[i].failed \/ ver'[i].state \in {"empty", "built"}
        /\ \A v \in Version \ {i} : ver'[v].failed = ver[v].failed /\ ver'[v].state = ver[v].state
    BY <2>2, <2>4
  <2>6. GSeen' = GSeen \cup {j}
    BY <1>6, <2>1, <2>5
  <2> QED BY <1>5, <2>1, <2>6
<1>8. CASE G!Activate(w)
  <2>1. i \in G!Rows /\ ver[i].job = j /\ ver[i].state \in {"empty", "built"} /\ glost' = glost
    BY <1>0, <1>8 DEF G!Activate, G!At, GFit, GOwn, GMine, j
  <2>2. ASSUME NEW v \in Version
        PROVE  ver'[v].job = ver[v].job /\ ver'[v].state = ver[v].state /\ ver'[v].failed = ver[v].failed
    <3> DEFINE act == v = i \/ (ver[v].active /\ v \notin wk[w].off)
    <3>1. ver'[v] = [ver[v] EXCEPT !.active = act] /\ ver[v] \in GRow /\ act \in BOOLEAN
      BY <1>0, <1>8 DEF G!Activate
    <3> HIDE DEF act
    <3> QED BY <3>1 DEF GRow
  <2> HIDE DEF i
  <2>3. /\ ver'[i].failed \/ ver'[i].state \in {"empty", "built"}
        /\ \A v \in Version : ver'[v].job = ver[v].job
        /\ \A v \in Version \ {i} : ver'[v].failed = ver[v].failed /\ ver'[v].state = ver[v].state
    BY <1>0, <2>1, <2>2
  <2>4. GSeen' = GSeen \cup {j}
    BY <1>6, <2>1, <2>3
  <2> QED BY <1>5, <2>1, <2>4
<1>9. CASE G!MarkFailed(w)
  <2> DEFINE own == {v \in G!Rows : ver[v].job = j}
  <2>1. wk[w].pc = "mark" /\ glost' = IF wk[w].broken THEN glost \cup {j} ELSE glost
    BY <1>9 DEF G!MarkFailed, j
  <2>2. CASE wk[w].broken
    <3>1. ver' = ver /\ glost' = glost \cup {j}
      BY <1>9, <2>1, <2>2 DEF G!MarkFailed
    <3>2. GSeen' = GSeen /\ wk'[w].pc = "ack"
      BY <1>3, <1>9, <3>1, GSeenSame
    <3>3. G!Queue!GiveUp(w)
      BY <1>1, <1>2, <1>4, <3>1, <3>2 DEF G!Queue!GiveUp, G!Queue!AtWork, GHand, GDone, GSeen
    <3> QED BY <3>3 DEF GQueueStep, G!Queue!Next
  <2>3. CASE ~wk[w].broken
    <3>1. i \in own /\ glost' = glost
      BY <1>0, <2>1, <2>3 DEF GFit, GMine, j
    <3>2. PICK u \in own : ver' = [ver EXCEPT ![u].failed = TRUE]
      BY <1>9, <2>3, <3>1 DEF G!MarkFailed, j
    <3> DEFINE d == [ver[u] EXCEPT !.failed = TRUE]
    <3>3. d.job = ver[u].job /\ d.failed = TRUE /\ u \in Version /\ ver' = [ver EXCEPT ![u] = d]
      BY <1>0, <3>2 DEF GRow
    <3> HIDE DEF d
    <3>4. ver'[u] = d /\ \A v \in Version \ {u} : ver'[v] = ver[v]
      BY <1>0, <3>3
    <3>5. /\ \A v \in Version : ver'[v].job = ver[v].job
          /\ ver'[u].failed \/ ver'[u].state \in {"empty", "built"}
          /\ \A v \in Version \ {u} : ver'[v].failed = ver[v].failed /\ ver'[v].state = ver[v].state
      BY <3>3, <3>4
    <3>6. GSeen' = GSeen \cup {j}
      BY <1>6, <3>2, <3>5
    <3> QED BY <1>5, <3>1, <3>6
  <2> QED BY <2>2, <2>3
<1> QED BY <1>7, <1>8, <1>9

\* Every step of a build is a step of the queue.
LEMMA GRefines == GBase /\ [G!Next]_gvars => GQueueStep
<1> SUFFICES ASSUME GBase, [G!Next]_gvars PROVE GQueueStep
  OBVIOUS
<1>1. CASE UNCHANGED gvars
  <2>1. GHand' = GHand /\ GDone' = GDone /\ UNCHANGED <<gqueue, ver, glost>>
    BY <1>1 DEF gvars, GHand, GDone
  <2> QED BY <2>1, GSeenSame, GUnseen
<1>2. CASE G!Next
  BY <1>2, GQueueSteps, GReleases, GInnerSteps, GCreateStep, GTellSteps DEF G!Next
<1> QED BY <1>1, <1>2

\* It begins empty.
LEMMA GOpens == G!Init => G!Queue!Init
<1> SUFFICES ASSUME G!Init PROVE G!Queue!Init
  OBVIOUS
<1>1. \A w \in Actor : wk[w].job = None /\ wk[w].pc = "idle"
  BY DEF G!Init, G!Idle
<1>2. GHand = [w \in Actor |-> None] /\ GDone = {}
  BY <1>1 DEF GHand, GDone
<1>3. GSeen = {}
  BY DEF G!Init, GSeen, G!Recorded, G!Rows, G!NoRow
<1> QED BY <1>2, <1>3 DEF G!Init, G!Queue!Init, GHand, GDone, GSeen

\* The three workers implement the queue of WorkQueue, however often messages are delivered again and
\* processes end: a message is removed only by a worker that had it and told its outcome, or gave it
\* up, and outcomes change only in the hands of those who work on them.
THEOREM WorkersImplementWorkQueue ==
  Spec => G!ImplementsWorkQueue /\ Q!ImplementsWorkQueue /\ E!ImplementsWorkQueue
<1>1. Init => G!Queue!Init /\ Q!Queue!Init /\ E!Queue!Init
  BY GOpens, QOpens, EOpens DEF Init
<1>2. GBase /\ [G!Next]_gvars => [G!Queue!Next]_(G!Queue!vars)
  BY GRefines DEF GQueueStep
<1>3. QInv /\ [Q!Next]_qvars => [Q!Queue!Next]_(Q!Queue!vars)
  BY QRefines DEF QQueueStep
<1>4. EInv /\ EWork /\ [E!Next]_evars => [E!Queue!Next]_(E!Queue!vars)
  BY ERefines DEF EQueueStep
<1> QED
  BY <1>1, <1>2, <1>3, <1>4, GBaseInvariant, QInvariant, EInvariant, EWorkInvariant, WorkersStep, PTL
     DEF Spec, G!ImplementsWorkQueue, Q!ImplementsWorkQueue, E!ImplementsWorkQueue,
         G!Queue!Spec, Q!Queue!Spec, E!Queue!Spec

\* The same of the runs, where one worker at a time is at it.
THEOREM MessagesHandedOnHolds == Spec => MessagesHandedOn
<1> DEFINE Step == /\ In("graph", [G!Queue!Next]_(G!Queue!vars))
                   /\ In("questions", [Q!Queue!Next]_(Q!Queue!vars))
                   /\ In("evaluation", [E!Queue!Next]_(E!Queue!vars))
<1>1. Init => G!Queue!Init /\ Q!Queue!Init /\ E!Queue!Init
  BY GOpens, QOpens, EOpens DEF Init
<1>2. ASSUME GBase, QInv, EInv, EWork, [G!Next]_gvars, [Q!Next]_qvars, [E!Next]_evars
      PROVE  Step
  BY <1>2, GRefines, QRefines, ERefines DEF GQueueStep, QQueueStep, EQueueStep, In
<1> HIDE DEF Step
<1>3. GBase /\ QInv /\ EInv /\ EWork /\ [G!Next]_gvars /\ [Q!Next]_qvars /\ [E!Next]_evars
        => [Step]_<<part, gvars, qvars, evars>>
  BY <1>2
<1>4. Spec => [][Step]_<<part, gvars, qvars, evars>>
  BY <1>3, GBaseInvariant, QInvariant, EInvariant, EWorkInvariant, WorkersStep, PTL DEF Spec
<1> QED BY <1>1, <1>4, PTL DEF Spec, MessagesHandedOn, Step

-----------------------------------------------------------------------------
\* What is gone from a queue, or a thread that ended, has left its outcome (the three workers and
\* the operator's background runs), whatever crashes, redeliveries and failing connections there are.
THEOREM OutcomesToldHolds == Spec => []OutcomesTold
<1>1. GBase => G!OutcomeRecorded
  BY DEF GBase, GOutcome, GRecorded, G!OutcomeRecorded
<1>2. QInv => Q!JobsTellTheirOutcome
  BY DEF QInv
<1>3. EInv => E!OutcomesFit
  BY DEF EInv
<1>4. OInv => O!RunsTellTheirOutcome
  BY DEF OInv, OType, OShown, O!At, O!RunsTellTheirOutcome
<1>5. GBase /\ QInv /\ EInv /\ OInv => OutcomesTold
  BY <1>1, <1>2, <1>3, <1>4 DEF OutcomesTold, In
<1> QED BY <1>5, GBaseInvariant, QInvariant, EInvariant, OInvariant, PTL

-----------------------------------------------------------------------------
(* The requests of the HTTP app.                                           *)

\* A step of the composition is a step of each part, or leaves that part alone.
LEMMA RequestsStep ==
  ASSUME [Next]_<<part, dvars, gvars, qvars, evars, lvars, ovars, cvars, rvars, pvars>>
  PROVE  [D!Next]_dvars /\ [L!Next]_lvars /\ [C!Next]_cvars /\ [R!Next]_rvars /\ [P!Next]_pvars
BY DEF Next

-----------------------------------------------------------------------------
(***************************************************************************)
(* Prompts.  A request acts on the status it has read: unless two act on   *)
(* the same override, it still has it, or another activation has archived  *)
(* it in between.                                                          *)
(***************************************************************************)
PTo == {"approved", "rejected", "active", "archived"}

PRequest == [pc : {"idle", "archive", "write"}, on : Row \cup {None}, to : PTo \cup {"none"}, seen : SUBSET Row]

PType ==
  /\ status \in [Row -> PTo \cup {"none", "draft"}]
  /\ prequest \in [Actor -> PRequest]

PFit(r) ==
  prequest[r].pc # "idle" =>
    /\ prequest[r].on \in Row /\ prequest[r].to \in PTo
    /\ prequest[r].to = "active" => prequest[r].on \in vetted
    /\ prequest[r].on \notin contested =>
         \/ status[prequest[r].on] = P!From[prequest[r].to]
         \/ status[prequest[r].on] = "archived" /\ prequest[r].to = "archived"

PInv ==
  /\ PType
  /\ \A r \in Actor : PFit(r)
  /\ \A r, q \in Actor :
       r # q /\ prequest[r].pc # "idle" /\ prequest[q].pc # "idle" /\ prequest[r].on = prequest[q].on =>
         prequest[r].on \in contested
  /\ \A o \in Row : status[o] \in {"approved", "active"} => o \in vetted
  /\ \A o, p \in P!Active : o = p
  /\ served \subseteq vetted
  /\ revived \subseteq contested

\* It holds initially.
LEMMA PStart == P!Init => PInv
<1> SUFFICES ASSUME P!Init PROVE PInv
  OBVIOUS
<1>1. P!Idle \in PRequest /\ P!Idle.pc = "idle"
  BY DEF P!Idle, PRequest
<1> HIDE DEF P!Idle
<1> QED BY <1>1 DEF P!Init, PInv, PType, PFit, P!Active

\* What a transition starts from, and that it has a goal.
LEMMA PFrom ==
  /\ DOMAIN P!From = PTo
  /\ P!From["approved"] = "draft" /\ P!From["rejected"] = "draft"
  /\ P!From["active"] = "approved" /\ P!From["archived"] = "active"
BY DEF P!From, PTo

\* Steps that change one request, from a status it has read.
LEMMA PRead ==
  ASSUME PInv, NEW r \in Actor, NEW o \in Row, NEW to \in PTo, P!Read(r, o, to)
  PROVE  PInv'
<1> DEFINE pc == IF to = "active" THEN "archive" ELSE "write"
           q == [P!Idle EXCEPT !.on = o, !.to = to, !.pc = pc]
<1>0. prequest \in [Actor -> PRequest] /\ status \in [Row -> PTo \cup {"none", "draft"}]
  BY DEF PInv, PType
<1>1. q \in PRequest /\ q.pc = pc /\ q.pc # "idle" /\ q.on = o /\ q.to = to
  BY DEF P!Idle, PRequest
<1>2. /\ prequest[r].pc = "idle" /\ status[o] = P!From[to] /\ prequest' = [prequest EXCEPT ![r] = q]
      /\ contested' = IF P!Working(o) # {} THEN contested \cup {o} ELSE contested
      /\ UNCHANGED <<status, vetted, served, revived>>
  BY DEF P!Read, P!Accepted
<1> HIDE DEF q
<1>3. prequest'[r] = q /\ (\A x \in Actor \ {r} : prequest'[x] = prequest[x]) /\ prequest' \in [Actor -> PRequest]
  BY <1>0, <1>1, <1>2
<1>4. contested \subseteq contested' /\ \A x \in Actor : prequest[x].on = o => o \in contested'
  BY <1>2 DEF P!Working
<1>5. to = "active" => o \in vetted
  BY <1>2, PFrom DEF PInv
<1>6. \A x \in Actor : PFit(x)'
  BY <1>1, <1>2, <1>3, <1>4, <1>5 DEF PInv, PFit
<1>7. \A x, y \in Actor : x # y /\ prequest'[x].pc # "idle" /\ prequest'[y].pc # "idle"
                            /\ prequest'[x].on = prequest'[y].on => prequest'[x].on \in contested'
  BY <1>1, <1>3, <1>4 DEF PInv
<1>8. P!Active' = P!Active
  BY <1>2 DEF P!Active
<1> QED BY <1>2, <1>3, <1>4, <1>6, <1>7, <1>8 DEF PInv, PType

\* A request that ends, or whose first statement has run.
LEMMA PAside ==
  ASSUME PInv, NEW r \in Actor, P!Archive(r) \/ P!Aborts(r)
  PROVE  PInv'
<1>0. prequest \in [Actor -> PRequest] /\ prequest[r] \in PRequest
  BY DEF PInv, PType
<1>1. UNCHANGED <<status, vetted, served, revived, contested>>
  BY DEF P!Archive, P!Aborts, P!history
<1>2. P!Active' = P!Active /\ P!Active \subseteq Row
  BY <1>1 DEF P!Active
<1>3. /\ prequest' \in [Actor -> PRequest] /\ \A x \in Actor \ {r} : prequest'[x] = prequest[x]
      /\ \/ prequest'[r].pc = "idle"
         \/ prequest[r].pc # "idle" /\ prequest'[r].on = prequest[r].on /\ prequest'[r].to = prequest[r].to
  <2>1. CASE P!Archive(r)
    <3> DEFINE q == [prequest[r] EXCEPT !.pc = "write", !.seen = P!Active]
    <3>1. q \in PRequest /\ q.on = prequest[r].on /\ q.to = prequest[r].to
      BY <1>0, <1>2 DEF PRequest
    <3>2. prequest' = [prequest EXCEPT ![r] = q] /\ prequest[r].pc = "archive"
      BY <1>0, <2>1 DEF P!Archive
    <3> HIDE DEF q
    <3> QED BY <1>0, <3>1, <3>2
  <2>2. CASE P!Aborts(r)
    <3>1. P!Idle \in PRequest /\ P!Idle.pc = "idle"
      BY DEF P!Idle, PRequest
    <3>2. prequest' = [prequest EXCEPT ![r] = P!Idle]
      BY <2>2 DEF P!Aborts
    <3> HIDE DEF P!Idle
    <3> QED BY <1>0, <3>1, <3>2
  <2> QED BY <2>1, <2>2
<1>4. \A x \in Actor : PFit(x)'
  BY <1>1, <1>3 DEF PInv, PFit
<1>5. \A x, y \in Actor : x # y /\ prequest'[x].pc # "idle" /\ prequest'[y].pc # "idle"
                            /\ prequest'[x].on = prequest'[y].on => prequest'[x].on \in contested
  BY <1>3 DEF PInv
<1> QED BY <1>1, <1>2, <1>3, <1>4, <1>5 DEF PInv, PType

\* A verdict, and an activation that archives what it has seen.
LEMMA PWrite ==
  ASSUME PInv, NEW r \in Actor, P!Write(r)
  PROVE  PInv'
<1> DEFINE on == prequest[r].on
           to == prequest[r].to
<1>0. /\ prequest \in [Actor -> PRequest] /\ prequest[r] \in PRequest /\ status \in [Row -> PTo \cup {"none", "draft"}]
      /\ prequest[r].pc = "write" /\ on \in Row /\ to \in PTo /\ PFit(r)
  BY DEF PInv, PType, PFit, P!Write
<1>1. P!Idle \in PRequest /\ P!Idle.pc = "idle"
  BY DEF P!Idle, PRequest
<1>2. prequest' = [prequest EXCEPT ![r] = P!Idle] /\ UNCHANGED <<served, contested>>
  BY DEF P!Write
<1>3. prequest'[r].pc = "idle" /\ (\A x \in Actor \ {r} : prequest'[x] = prequest[x]) /\ prequest' \in [Actor -> PRequest]
  BY <1>0, <1>1, <1>2
<1>4. \A x, y \in Actor : x # y /\ prequest'[x].pc # "idle" /\ prequest'[y].pc # "idle"
                            /\ prequest'[x].on = prequest'[y].on => prequest'[x].on \in contested'
  BY <1>2, <1>3 DEF PInv
<1>5. CASE P!Refused(r)
  <2>1. UNCHANGED <<status, vetted, revived>>
    BY <1>5 DEF P!Write
  <2>2. \A x \in Actor : PFit(x)'
    BY <1>2, <1>3, <2>1 DEF PInv, PFit
  <2>3. P!Active' = P!Active
    BY <2>1 DEF P!Active
  <2> QED BY <1>2, <1>3, <1>4, <2>1, <2>2, <2>3 DEF PInv, PType
<1>6. CASE ~P!Refused(r)
  <2>1. /\ status' = [o \in Row |-> IF o = on THEN to
                                    ELSE IF o \in prequest[r].seen \cap P!Active THEN "archived" ELSE status[o]]
        /\ revived' = IF status[on] \in P!Final /\ to \notin P!Final THEN revived \cup {on} ELSE revived
        /\ vetted' = IF to = "approved" THEN vetted \cup {on} ELSE vetted
    BY <1>6 DEF P!Write
  <2>2. to = "active" => P!Active \subseteq prequest[r].seen \cup {on}
    BY <1>6 DEF P!Refused
  <2>3. status' \in [Row -> PTo \cup {"none", "draft"}] /\ status'[on] = to
    BY <1>0, <2>1 DEF PTo
  <2>4. \A o \in Row \ {on} : status'[o] = status[o] \/ (status[o] = "active" /\ status'[o] = "archived")
    BY <2>1 DEF P!Active
  <2>5. vetted \subseteq vetted' /\ (to \in {"approved", "active"} => on \in vetted')
    BY <1>0, <2>1 DEF PFit
  <2>6. \A o \in Row : status'[o] \in {"approved", "active"} => o \in vetted'
    BY <2>3, <2>4, <2>5 DEF PInv
  <2>7. \A o, p \in P!Active' : o = p
    <3>1. CASE to = "active"
      BY <2>1, <2>2, <3>1 DEF P!Active
    <3>2. CASE to # "active"
      <4>1. P!Active' \subseteq P!Active
        BY <2>3, <2>4, <3>2 DEF P!Active
      <4> QED BY <4>1 DEF PInv
    <3> QED BY <3>1, <3>2
  <2>8. revived' \subseteq contested'
    <3>1. status[on] \in P!Final /\ to \notin P!Final => on \in contested
      BY <1>0, PFrom DEF PFit, P!Final, PTo
    <3> QED BY <1>2, <2>1, <3>1 DEF PInv
  <2>9. ASSUME NEW x \in Actor PROVE PFit(x)'
    <3>1. CASE x = r
      BY <1>3, <3>1 DEF PFit
    <3>2. CASE x # r /\ prequest[x].pc # "idle"
      <4>1. prequest'[x] = prequest[x] /\ PFit(x) /\ prequest[x].on \in Row /\ prequest[x].to \in PTo
        BY <1>3, <3>2 DEF PInv, PFit
      <4>2. prequest[x].on = on => on \in contested
        BY <1>0, <3>2 DEF PInv
      <4>3. prequest[x].on # on =>
              \/ status'[prequest[x].on] = status[prequest[x].on]
              \/ status[prequest[x].on] = "active" /\ status'[prequest[x].on] = "archived"
        BY <2>4, <4>1
      <4>4. P!From[prequest[x].to] = "active" => prequest[x].to = "archived"
        BY <4>1, PFrom DEF PTo
      <4> QED BY <1>2, <2>5, <3>2, <4>1, <4>2, <4>3, <4>4 DEF PFit
    <3>3. CASE x # r /\ prequest[x].pc = "idle"
      BY <1>3, <3>3 DEF PFit
    <3> QED BY <3>1, <3>2, <3>3
  <2> QED BY <1>2, <1>3, <1>4, <2>3, <2>5, <2>6, <2>7, <2>8, <2>9 DEF PInv, PType
<1> QED BY <1>5, <1>6

\* Every step keeps the invariant.
LEMMA PNext == PInv /\ [P!Next]_pvars => PInv'
<1> SUFFICES ASSUME PInv, [P!Next]_pvars PROVE PInv'
  OBVIOUS
<1>1. CASE UNCHANGED pvars
  BY <1>1 DEF pvars, PInv, PType, PFit, P!Active
<1>2. ASSUME NEW o \in Row, P!Create(o) PROVE PInv'
  <2>1. /\ status[o] = "none" /\ status' = [status EXCEPT ![o] = "draft"]
        /\ UNCHANGED <<prequest, vetted, served, revived, contested>>
    BY <1>2 DEF P!Create, P!history
  <2>2. status' \in [Row -> PTo \cup {"none", "draft"}] /\ P!Active' = P!Active
    BY <2>1 DEF PInv, PType, P!Active
  <2>3. status'[o] = "draft" /\ \A p \in Row \ {o} : status'[p] = status[p]
    BY <2>1 DEF PInv, PType
  <2>4. ASSUME NEW x \in Actor, prequest[x].pc # "idle" PROVE PFit(x)'
    <3>1. PFit(x) /\ prequest[x].to \in PTo
      BY <2>4 DEF PInv, PFit
    <3>2. prequest[x].on = o => o \in contested
      BY <2>1, <2>4, <3>1, PFrom DEF PFit, PTo
    <3> QED BY <2>1, <2>3, <3>1, <3>2 DEF PFit
  <2>5. \A x \in Actor : PFit(x)'
    BY <2>1, <2>4 DEF PFit
  <2> QED BY <2>1, <2>2, <2>3, <2>5 DEF PInv, PType
<1>3. CASE P!Answer
  <2>1. UNCHANGED <<status, prequest, vetted, revived, contested>> /\ served' = served \cup P!Active
    BY <1>3 DEF P!Answer
  <2>2. P!Active \subseteq vetted /\ P!Active' = P!Active
    BY <2>1 DEF PInv, P!Active
  <2> QED BY <2>1, <2>2 DEF PInv, PType, PFit
<1>4. ASSUME NEW r \in Actor, NEW o \in Row, NEW to \in DOMAIN P!From, P!Read(r, o, to) PROVE PInv'
  BY <1>4, PFrom, PRead
<1> QED BY <1>1, <1>2, <1>3, <1>4, PAside, PWrite DEF P!Next

\* It holds of every reachable state.
LEMMA PInvariant == Spec => []PInv
<1>1. Init => PInv
  BY PStart DEF Init
<1> QED BY <1>1, PNext, RequestsStep, PTL DEF Spec

\* What a person has decided stands: a grade keeps the professor's score and its release
\* (evaluation/tools.py), a prompt the admin's verdict (http_app.py, _override_transition).
THEOREM DecisionsStandHolds == Spec => []DecisionsStand
<1>1. PInv => P!VerdictsStand
  <2> SUFFICES ASSUME PInv PROVE P!VerdictsStand
    OBVIOUS
  <2>1. P!Active = {} \/ \E o \in P!Active : P!Active = {o}
    BY DEF PInv
  <2>2. Cardinality(P!Active) \in {0, 1}
    BY <2>1, FS_EmptySet, FS_Singleton
  <2>3. P!Cardinality(P!Active) = Cardinality(P!Active)
    BY DEF P!Cardinality, Cardinality
  <2> QED BY <2>2, <2>3 DEF PInv, P!VerdictsStand
<1>2. EInv => E!GradeKept
  BY DEF EInv
<1>3. EInv /\ PInv => DecisionsStand
  BY <1>1, <1>2 DEF DecisionsStand, In
<1> QED BY <1>3, EInvariant, PInvariant, PTL

-----------------------------------------------------------------------------
(***************************************************************************)
(* Courses.  A title that a request is about to write is free, unless the  *)
(* request has become stale or the title was raced for already; who is     *)
(* between the check and the insertion of a schedule holds the lock.       *)
(***************************************************************************)
CRequest ==
  [pc : {"idle", "create", "delete", "write", "rewrite", "lock", "check", "insert"}, session : Row \cup {None},
   entry : C!Entry \cup {None}, seen : SUBSET (Row \cup Loose), stale : BOOLEAN]

CRow == [document : Document \cup {None}, date : Date \cup {None}, by : Actor \cup {None}]

CType ==
  /\ class \in [Row -> CRow]
  /\ crequest \in [Actor -> CRequest]
  /\ loose \subseteq Loose /\ children \in BOOLEAN

CFree(title, s) == title \in craced \cup {Blank} \/ \A t \in C!Rows \ {s} : C!Title(t) # title

CFit(r) ==
  /\ crequest[r].pc \in {"check", "insert"} => lock = r
  /\ crequest[r].pc = "insert" =>
       /\ \A s \in C!Rows : class[s].by = None
       /\ ~crequest[r].stale => C!Rows = {}
  /\ crequest[r].pc \in {"write", "rewrite"} =>
       /\ crequest[r].entry \in C!Entry
       /\ ~crequest[r].stale => CFree(C!Wanted(r), crequest[r].session)
  /\ crequest[r].pc = "write" => crequest[r].session = None
  /\ crequest[r].pc = "delete" => (loose \cap Listed) \ crequest[r].seen \subseteq orphans

CRagged == \A t \in C!Rows : Trimmed[class[t].document] # Fold[class[t].document] => C!Title(t) \in craced

CInv == CType /\ CRagged /\ (\A r \in Actor : CFit(r)) /\ C!ScheduleOnce /\ C!TopicsUnique /\ C!DeletedWhole

\* the assumptions on the constants
LEMMA CConstants ==
  /\ None \notin Date /\ None \notin Document /\ None \notin Row /\ None \notin Actor
  /\ Schedule \subseteq C!Entry /\ Schedule # {} /\ Listed \subseteq Loose
  /\ \A e \in Schedule : Trimmed[e.document] = Fold[e.document]
  /\ \A e, f \in Schedule : e # f /\ Fold[e.document] = Fold[f.document] => Fold[e.document] = Blank
BY ModulesAssumption DEF C!CoursesAssumption

\* A resting request, and an empty row.
LEMMA CResting ==
  /\ C!Idle \in CRequest /\ C!Idle.pc = "idle" /\ C!Idle.session = None /\ C!Idle.stale = FALSE
  /\ C!NoRow \in CRow /\ C!NoRow.document = None
BY DEF C!Idle, CRequest, C!NoRow, CRow

\* It holds initially.
LEMMA CStart == C!Init => CInv
<1> SUFFICES ASSUME C!Init PROVE CInv
  OBVIOUS
<1>1. CType /\ \A r \in Actor : crequest[r].pc = "idle"
  <2>1. crequest = [r \in Actor |-> C!Idle] /\ class = [s \in Row |-> C!NoRow] /\ loose = {} /\ children = FALSE
    BY DEF C!Init
  <2> QED BY <2>1, CResting DEF CType
<1>2. C!Rows = {}
  BY DEF C!Init, C!Rows
<1> QED BY <1>1, <1>2 DEF C!Init, CInv, CRagged, CFit, C!ScheduleOnce, C!TopicsUnique, C!DeletedWhole

\* A step of one request that leaves the rows alone.
LEMMA CStep ==
  ASSUME CInv, NEW r \in Actor, NEW q \in CRequest, crequest' = [crequest EXCEPT ![r] = q],
         UNCHANGED <<class, children, loose, craced, orphans>>,
         course' = course \/ course' # "deleted",
         \A x \in Actor \ {r} : lock = x => lock' = x,
         CFit(r)'
  PROVE  CInv'
<1>1. crequest'[r] = q /\ (\A x \in Actor \ {r} : crequest'[x] = crequest[x]) /\ CType'
  BY DEF CInv, CType
<1>2. C!Rows' = C!Rows /\ \A s : C!Title(s)' = C!Title(s)
  BY DEF C!Rows, C!Title
<1>3. \A x \in Actor \ {r} : CFit(x)'
  BY <1>1, <1>2 DEF CInv, CFit, CFree, C!Wanted
<1>4. C!ScheduleOnce' /\ C!TopicsUnique' /\ C!DeletedWhole'
  BY <1>2 DEF CInv, C!ScheduleOnce, C!TopicsUnique, C!DeletedWhole
<1>5. CRagged'
  BY <1>2 DEF CInv, CRagged
<1> QED BY <1>1, <1>3, <1>4, <1>5 DEF CInv

\* What the database's trimming finds free is free, but for titles it does not see.
LEMMA CFreed == ASSUME CInv, NEW e, NEW s, C!TopicFree(e, s) PROVE CFree(Fold[e.document], s)
BY DEF C!TopicFree, CFree, CInv, CRagged, C!Title

\* The checks, and what a request does before and after its writes.
LEMMA CLocal ==
  ASSUME CInv, NEW r \in Actor,
         \/ C!CreateLook(r) \/ C!Create(r) \/ C!DeleteRows(r) \/ C!WriteRefused(r)
         \/ C!Process(r) \/ C!Lock(r) \/ C!Check(r) \/ C!ProcessEnds(r)
         \/ \E e \in C!Entry : C!AddCheck(r, e)
         \/ \E s \in Row, e \in C!Entry : C!UpdateCheck(r, s, e)
  PROVE  CInv'
<1>0. /\ crequest \in [Actor -> CRequest] /\ crequest[r] \in CRequest /\ CFit(r) /\ loose \subseteq Loose
      /\ children \in BOOLEAN
      /\ C!Rows \subseteq Row
  BY DEF CInv, CType, C!Rows
<1>1. ASSUME NEW q \in CRequest, crequest' = [crequest EXCEPT ![r] = q], q.pc \in {"idle", "create", "lock"},
             UNCHANGED <<class, children, loose, craced, orphans>>,
             course' = course \/ course' # "deleted",
             \A x \in Actor \ {r} : lock = x => lock' = x
      PROVE  CInv'
  <2>1. crequest'[r] = q
    BY <1>0, <1>1
  <2>2. CFit(r)'
    BY <1>1, <2>1 DEF CFit
  <2> QED BY <1>1, <2>2, CStep
<1>2. \A pc \in {"create", "lock", "check", "insert"} :
        [crequest[r] EXCEPT !.pc = pc] \in CRequest /\ [crequest[r] EXCEPT !.pc = pc].pc = pc
        /\ [crequest[r] EXCEPT !.pc = pc].stale = crequest[r].stale
  BY <1>0 DEF CRequest
<1>3. CASE C!CreateLook(r)
  BY <1>1, <1>2, <1>3 DEF C!CreateLook, C!Goto
<1>4. CASE C!Create(r)
  BY <1>1, <1>4, CResting DEF C!Create, C!End
<1>5. CASE C!Process(r)
  BY <1>1, <1>2, <1>5 DEF C!Process, C!Goto
<1>6. CASE C!WriteRefused(r)
  BY <1>1, <1>6, CResting DEF C!WriteRefused, C!End
<1>7. CASE C!ProcessEnds(r)
  BY <1>1, <1>7, CResting DEF C!ProcessEnds, C!End, C!Unlock
<1>8. CASE C!DeleteRows(r)
  <2> DEFINE q == [crequest[r] EXCEPT !.pc = "delete", !.seen = C!Rows \cup (loose \cap Listed), !.stale = children]
  <2>1. q \in CRequest /\ q.pc = "delete" /\ q.seen = C!Rows \cup (loose \cap Listed)
    BY <1>0 DEF CRequest
  <2>2. crequest' = [crequest EXCEPT ![r] = q] /\ UNCHANGED <<course, class, children, loose, lock, craced, orphans>>
    BY <1>0, <1>8 DEF C!DeleteRows
  <2> HIDE DEF q
  <2>3. crequest'[r] = q
    BY <1>0, <2>2
  <2>4. CFit(r)'
    BY <2>1, <2>2, <2>3 DEF CFit
  <2> QED BY <2>1, <2>2, <2>4, CStep
<1>9. CASE C!Lock(r)
  <2> DEFINE q == [crequest[r] EXCEPT !.pc = "check"]
  <2>1. q \in CRequest /\ q.pc = "check"
    BY <1>2
  <2>2. /\ lock = None /\ lock' = r /\ crequest' = [crequest EXCEPT ![r] = q]
        /\ UNCHANGED <<course, class, children, loose, craced, orphans>>
    BY <1>0, <1>9 DEF C!Lock, C!Goto
  <2> HIDE DEF q
  <2>3. crequest'[r] = q
    BY <1>0, <2>2
  <2>4. CFit(r)'
    BY <2>1, <2>2, <2>3 DEF CFit
  <2> QED BY <2>1, <2>2, <2>4, CStep, CConstants
<1>10. CASE C!Check(r)
  <2>1. UNCHANGED <<course, class, children, loose, craced, orphans>> /\ lock = r
    BY <1>0, <1>10 DEF C!Check, C!At, CFit
  <2>2. CASE C!Rows # {}
    <3>1. crequest' = [crequest EXCEPT ![r] = C!Idle] /\ (\A x \in Actor \ {r} : lock = x => lock' = x)
      BY <1>10, <2>1, <2>2 DEF C!Check, C!End, C!Unlock
    <3> QED BY <1>1, <2>1, <3>1, CResting
  <2>3. CASE C!Rows = {}
    <3> DEFINE q == [crequest[r] EXCEPT !.pc = "insert"]
    <3>1. q \in CRequest /\ q.pc = "insert"
      BY <1>2
    <3>2. lock' = lock /\ crequest' = [crequest EXCEPT ![r] = q]
      BY <1>0, <1>10, <2>3 DEF C!Check, C!Goto
    <3> HIDE DEF q
    <3>3. crequest'[r] = q /\ C!Rows' = {}
      BY <1>0, <2>1, <2>3, <3>2 DEF C!Rows
    <3>4. CFit(r)'
      BY <2>1, <3>1, <3>2, <3>3 DEF CFit
    <3> QED BY <2>1, <3>1, <3>2, <3>4, CStep
  <2> QED BY <2>2, <2>3
<1>11. ASSUME NEW e \in C!Entry, NEW s \in Row \cup {None}, CFree(Fold[e.document], s), NEW q \in CRequest,
              q.pc \in {"write", "rewrite"}, q.pc = "write" => s = None, q.session = s, q.entry = e,
              crequest' = [crequest EXCEPT ![r] = q],
              UNCHANGED <<course, class, children, loose, lock, craced, orphans>>
       PROVE  CInv'
  <2>1. crequest'[r] = q
    BY <1>0, <1>11
  <2>2. C!Rows' = C!Rows /\ \A t : C!Title(t)' = C!Title(t)
    BY <1>11 DEF C!Rows, C!Title
  <2>3. C!Wanted(r)' = Fold[e.document]
    BY <1>11, <2>1 DEF C!Wanted
  <2>4. CFree(C!Wanted(r), crequest[r].session)'
    BY <1>11, <2>1, <2>2, <2>3 DEF CFree
  <2>5. CFit(r)'
    BY <1>11, <2>1, <2>4 DEF CFit
  <2> QED BY <1>11, <2>5, CStep
<1>12. CASE \E e \in C!Entry : C!AddCheck(r, e)
  <2>1. PICK e \in C!Entry : C!AddCheck(r, e)
    BY <1>12
  <2>2. CFree(Fold[e.document], None)
    BY <2>1, CFreed DEF C!AddCheck
  <2> DEFINE q == [C!Idle EXCEPT !.pc = "write", !.entry = e]
  <2>3. q \in CRequest /\ q.pc = "write" /\ q.session = None /\ q.entry = e
    BY DEF C!Idle, CRequest
  <2>4. crequest' = [crequest EXCEPT ![r] = q] /\ UNCHANGED <<course, class, children, loose, lock, craced, orphans>>
    BY <2>1 DEF C!AddCheck
  <2> HIDE DEF q
  <2> QED BY <1>11, <2>2, <2>3, <2>4
<1>13. CASE \E s \in Row, e \in C!Entry : C!UpdateCheck(r, s, e)
  <2>1. PICK s \in Row, e \in C!Entry : C!UpdateCheck(r, s, e)
    BY <1>13
  <2>2. s \in C!Rows /\ (Fold[e.document] = C!Title(s) \/ C!TopicFree(e, s))
    BY <2>1 DEF C!UpdateCheck
  <2>3. CFree(Fold[e.document], s)
    BY <2>2, CFreed DEF CFree, CInv, C!TopicsUnique
  <2> DEFINE q == [C!Idle EXCEPT !.pc = "rewrite", !.session = s, !.entry = e]
  <2>4. q \in CRequest /\ q.pc = "rewrite" /\ q.session = s /\ q.entry = e
    BY DEF C!Idle, CRequest
  <2>5. crequest' = [crequest EXCEPT ![r] = q] /\ UNCHANGED <<course, class, children, loose, lock, craced, orphans>>
    BY <2>1 DEF C!UpdateCheck
  <2> HIDE DEF q
  <2> QED BY <1>11, <2>3, <2>4, <2>5
<1> QED BY <1>3, <1>4, <1>5, <1>6, <1>7, <1>8, <1>9, <1>10, <1>12, <1>13

\* Rows that go, with the course or alone.
LEMMA CShrinks ==
  ASSUME CInv, class' \in [Row -> CRow], \A s \in C!Rows' : s \in C!Rows /\ class'[s] = class[s],
         crequest' \in [Actor -> CRequest],
         \A x \in Actor : crequest'[x] = crequest[x] \/ crequest'[x].pc = "idle",
         craced' = craced, lock' = lock, loose' \subseteq loose, children' \in BOOLEAN, orphans' = orphans,
         course' = "deleted" => C!Rows' = {} /\ ~children' /\ loose' \cap Listed \subseteq orphans
  PROVE  CInv'
<1>1. \A s \in C!Rows' : C!Title(s)' = C!Title(s)
  BY DEF C!Title
<1>2. \A title, s : CFree(title, s) => CFree(title, s)'
  BY <1>1 DEF CFree
<1>3. ASSUME NEW x \in Actor PROVE CFit(x)'
  <2>1. CASE crequest'[x].pc = "idle"
    BY <2>1 DEF CFit
  <2>2. CASE crequest'[x] = crequest[x]
    <3>1. CFit(x) /\ C!Wanted(x)' = C!Wanted(x)
      BY <2>2 DEF CInv, C!Wanted
    <3>2. CFree(C!Wanted(x), crequest[x].session) => CFree(C!Wanted(x), crequest[x].session)'
      BY <1>1, <2>2, <3>1 DEF CFree
    <3> QED BY <2>2, <3>1, <3>2 DEF CFit
  <2> QED BY <2>1, <2>2
<1>4. C!ScheduleOnce' /\ C!TopicsUnique'
  BY <1>1 DEF CInv, C!ScheduleOnce, C!TopicsUnique
<1>5. CRagged'
  BY <1>1 DEF CInv, CRagged
<1> QED BY <1>3, <1>4, <1>5 DEF CInv, CType, C!DeletedWhole

\* A class session or the course is removed.
LEMMA CRemoves ==
  ASSUME CInv, (\E s \in Row : C!Remove(s)) \/ (\E r \in Actor : C!Delete(r))
  PROVE  CInv'
<1>0. class \in [Row -> CRow] /\ crequest \in [Actor -> CRequest] /\ children \in BOOLEAN /\ C!Rows \subseteq Row
  BY DEF CInv, CType, C!Rows
<1>1. CASE \E s \in Row : C!Remove(s)
  <2>1. PICK s \in Row : C!Remove(s)
    BY <1>1
  <2>2. class' = [class EXCEPT ![s] = C!NoRow] /\ UNCHANGED <<course, children, loose, lock, crequest, craced, orphans>>
    BY <2>1 DEF C!Remove
  <2>3. class' \in [Row -> CRow] /\ class'[s] = C!NoRow /\ \A t \in Row \ {s} : class'[t] = class[t]
    BY <1>0, <2>2, CResting
  <2>4. \A t \in C!Rows' : t \in C!Rows /\ class'[t] = class[t]
    BY <2>3 DEF C!Rows
  <2>5. course' = "deleted" => C!Rows' = {} /\ ~children' /\ loose' \cap Listed \subseteq orphans
    BY <2>2, <2>4 DEF CInv, C!DeletedWhole
  <2> QED BY <1>0, <2>2, <2>3, <2>4, <2>5, CShrinks
<1>2. CASE \E r \in Actor : C!Delete(r)
  <2>1. PICK r \in Actor : C!Delete(r)
    BY <1>2
  <2>2. crequest' = [crequest EXCEPT ![r] = C!Idle] /\ UNCHANGED <<lock, craced, orphans>>
    BY <2>1 DEF C!Delete, C!End
  <2>3. crequest' \in [Actor -> CRequest] /\ \A x \in Actor : crequest'[x] = crequest[x] \/ crequest'[x].pc = "idle"
    BY <1>0, <2>2, CResting
  <2>4. CASE UNCHANGED <<course, class, children, loose>>
    <3>1. C!Rows' = C!Rows
      BY <2>4 DEF C!Rows
    <3> QED BY <1>0, <2>2, <2>3, <2>4, <3>1, CShrinks DEF CInv, C!DeletedWhole
  <2>5. CASE /\ class' = [s \in Row |-> C!NoRow] /\ children' = FALSE
             /\ loose' = loose \ crequest[r].seen
    <3>1. C!Rows' = {} /\ class' \in [Row -> CRow]
      BY <2>5, CResting DEF C!Rows
    <3>2. loose' \cap Listed \subseteq orphans /\ loose' \subseteq loose
      BY <2>1, <2>5 DEF CInv, CFit, C!Delete, C!At
    <3> QED BY <2>2, <2>3, <2>5, <3>1, <3>2, CShrinks
  <2> QED BY <2>1, <2>4, <2>5 DEF C!Delete
<1> QED BY <1>1, <1>2

\* Rows that refer to the course.
LEMMA CRefers ==
  ASSUME CInv, C!AddChild \/ \E x \in Loose : C!AddLoose(x) \/ C!RemoveLoose(x)
  PROVE  CInv'
<1>1. UNCHANGED <<course, class, lock, crequest, craced>>
  BY DEF C!AddChild, C!AddLoose, C!RemoveLoose
<1>2. C!Rows' = C!Rows /\ \A s : C!Title(s)' = C!Title(s)
  BY <1>1 DEF C!Rows, C!Title
<1>3. loose' \subseteq Loose /\ children' \in BOOLEAN /\ orphans \subseteq orphans'
  BY DEF C!AddChild, C!AddLoose, C!RemoveLoose, CInv, CType
<1>4. \A x \in Actor : crequest[x].pc = "delete" => loose' \ loose \subseteq orphans'
  BY DEF C!AddChild, C!AddLoose, C!RemoveLoose, C!Deleting, C!At
<1>5. course = "deleted" => ~children' /\ loose' \ loose \subseteq orphans'
  BY DEF C!AddChild, C!AddLoose, C!RemoveLoose, CInv, C!DeletedWhole
<1>6. \A x \in Actor : CFit(x)'
  BY <1>1, <1>2, <1>3, <1>4 DEF CInv, CFit, CFree, C!Wanted
<1>7. CRagged'
  BY <1>1, <1>2 DEF CInv, CRagged
<1> QED BY <1>1, <1>2, <1>3, <1>5, <1>6, <1>7 DEF CInv, CType, C!ScheduleOnce, C!TopicsUnique, C!DeletedWhole

\* A session gets a title: whoever counted on its absence becomes stale.
LEMMA CPuts ==
  ASSUME CInv, NEW r \in Actor, NEW s \in Row, NEW e \in C!Entry, NEW d \in CRow,
         class' = [class EXCEPT ![s] = d], d.document = e.document,
         d.by = None \/ (s \in C!Rows /\ d.by = class[s].by),
         \A t \in C!Rows \ {s} : C!Title(t) = Fold[e.document] => Fold[e.document] \in craced' \cup {Blank},
         craced \subseteq craced', C!Ragged(e) => Fold[e.document] \in craced',
         crequest' = [C!Overtaken(r, s, e) EXCEPT ![r] = C!Idle],
         course # "deleted", UNCHANGED <<course, children, loose, lock, orphans>>
  PROVE  CInv'
<1>0. class \in [Row -> CRow] /\ crequest \in [Actor -> CRequest]
  BY DEF CInv, CType
<1>1. /\ class' \in [Row -> CRow] /\ class'[s] = d /\ \A t \in Row \ {s} : class'[t] = class[t]
  BY <1>0
<1>2. C!Rows' = C!Rows \cup {s} /\ C!Rows \subseteq Row
  <2>1. d # C!NoRow
    BY CConstants, CResting DEF C!Entry
  <2> QED BY <1>1, <2>1 DEF C!Rows
<1>3. C!Title(s)' = Fold[e.document] /\ \A t \in C!Rows \ {s} : C!Title(t)' = C!Title(t)
  BY <1>1, <1>2 DEF C!Title
<1>4. crequest'[r] = C!Idle /\ C!Overtaken(r, s, e) \in [Actor -> CRequest] /\ crequest' \in [Actor -> CRequest]
  <2>1. \A q \in Actor : [crequest[q] EXCEPT !.stale = TRUE] \in CRequest
    BY <1>0 DEF CRequest
  <2>2. C!Overtaken(r, s, e) \in [Actor -> CRequest]
    BY <1>0, <2>1 DEF C!Overtaken
  <2> QED BY <2>2, CResting
<1>5. ASSUME NEW x \in Actor \ {r}
      PROVE  /\ crequest'[x].pc = crequest[x].pc /\ crequest'[x].session = crequest[x].session
             /\ crequest'[x].entry = crequest[x].entry /\ crequest'[x].seen = crequest[x].seen
             /\ ~crequest'[x].stale =>
                  /\ ~crequest[x].stale /\ crequest[x].pc # "insert"
                  /\ crequest[x].pc = "write" => C!Wanted(x) # Fold[e.document]
                  /\ crequest[x].pc = "rewrite" => crequest[x].session # s /\ C!Wanted(x) # Fold[e.document]
  <2> DEFINE hit == \/ C!At(x, "insert")
                    \/ C!At(x, "write") /\ C!Wanted(x) = Fold[e.document]
                    \/ C!At(x, "rewrite") /\ (crequest[x].session = s \/ C!Wanted(x) = Fold[e.document])
  <2>1. crequest'[x] = IF hit THEN [crequest[x] EXCEPT !.stale = TRUE] ELSE crequest[x]
    BY <1>0 DEF C!Overtaken
  <2>2. ~hit => crequest[x].pc # "insert"
          /\ (crequest[x].pc = "write" => C!Wanted(x) # Fold[e.document])
          /\ (crequest[x].pc = "rewrite" => crequest[x].session # s /\ C!Wanted(x) # Fold[e.document])
    BY DEF C!At
  <2> HIDE DEF hit
  <2>3. crequest[x] \in CRequest
    BY <1>0
  <2>4. CASE hit
    BY <2>1, <2>3, <2>4 DEF CRequest
  <2>5. CASE ~hit
    BY <2>1, <2>2, <2>5
  <2> QED BY <2>4, <2>5
<1>6. ASSUME NEW x \in Actor \ {r} PROVE CFit(x)'
  <2>1. CFit(x) /\ C!Wanted(x)' = C!Wanted(x)
    BY <1>5 DEF CInv, C!Wanted
  <2>2. crequest[x].pc = "insert" => d.by = None
    BY <2>1 DEF CFit
  <2>3. crequest[x].pc = "insert" => \A t \in C!Rows' : class'[t].by = None
    BY <1>1, <1>2, <2>1, <2>2 DEF CFit
  <2>4. ASSUME crequest[x].pc \in {"write", "rewrite"}, ~crequest'[x].stale
        PROVE  CFree(C!Wanted(x), crequest[x].session)'
    <3>1. CFree(C!Wanted(x), crequest[x].session) /\ C!Wanted(x) # Fold[e.document]
      BY <1>5, <2>1, <2>4 DEF CFit
    <3> QED BY <1>2, <1>3, <1>5, <2>1, <3>1 DEF CFree
  <2> QED BY <1>5, <2>1, <2>3, <2>4 DEF CFit
<1>7. CFit(r)'
  BY <1>4, CResting DEF CFit
<1>8. C!ScheduleOnce'
  BY <1>1, <1>2 DEF CInv, C!ScheduleOnce
<1>9. C!TopicsUnique'
  BY <1>2, <1>3 DEF CInv, C!TopicsUnique
<1>10. CRagged'
  BY <1>1, <1>2, <1>3 DEF CInv, CRagged, C!Ragged
<1> QED BY <1>1, <1>4, <1>6, <1>7, <1>8, <1>9, <1>10 DEF CInv, CType, C!DeletedWhole

\* create_session and update_session write what they have checked, or a title that is raced for.
LEMMA CWrites ==
  ASSUME CInv, NEW r \in Actor, C!Rewrite(r) \/ \E s \in Row : C!Write(r, s)
  PROVE  CInv'
<1>0. class \in [Row -> CRow] /\ crequest \in [Actor -> CRequest] /\ CFit(r)
  BY DEF CInv, CType
<1> DEFINE e == crequest[r].entry
<1>1. e \in C!Entry /\ C!Wanted(r) = Fold[e.document]
  BY <1>0 DEF CFit, C!Rewrite, C!Write, C!At, C!Wanted
<1>2. craced \subseteq craced' /\ (crequest[r].stale \/ C!Ragged(e) => Fold[e.document] \in craced')
  BY DEF C!Rewrite, C!Write, C!Races
<1>3. CASE C!Rewrite(r)
  <2> DEFINE s == crequest[r].session
             d == [class[s] EXCEPT !.document = e.document, !.date = e.date]
  <2>1. s \in C!Rows /\ s \in Row /\ crequest[r].pc = "rewrite"
    BY <1>3 DEF C!Rewrite, C!Rows, C!At
  <2>2. d \in CRow /\ d.document = e.document /\ d.by = class[s].by
    BY <1>0, <1>1, <2>1 DEF CRow, C!Entry
  <2>3. /\ class' = [class EXCEPT ![s] = d] /\ crequest' = [C!Overtaken(r, s, e) EXCEPT ![r] = C!Idle]
        /\ UNCHANGED <<course, children, loose, lock, orphans>>
    BY <1>0, <1>3, <2>1 DEF C!Rewrite
  <2>4. course # "deleted"
    BY <2>1 DEF CInv, C!DeletedWhole
  <2>5. \A t \in C!Rows \ {s} : C!Title(t) = Fold[e.document] => Fold[e.document] \in craced' \cup {Blank}
    BY <1>0, <1>1, <1>2, <2>1 DEF CFit, CFree
  <2> HIDE DEF d, e
  <2> QED BY <1>1, <1>2, <2>1, <2>2, <2>3, <2>4, <2>5, CPuts
<1>4. CASE \E s \in Row : C!Write(r, s)
  <2>1. PICK s \in Row : C!Write(r, s)
    BY <1>4
  <2> DEFINE d == [document |-> e.document, date |-> e.date, by |-> None]
  <2>2. d \in CRow /\ d.document = e.document /\ d.by = None
    BY <1>1 DEF CRow, C!Entry
  <2>3. /\ class' = [class EXCEPT ![s] = d] /\ crequest' = [C!Overtaken(r, s, e) EXCEPT ![r] = C!Idle]
        /\ UNCHANGED <<course, children, loose, lock, orphans>> /\ course = "present"
        /\ crequest[r].pc = "write" /\ s \notin C!Rows
    BY <2>1 DEF C!Write, C!At
  <2>4. \A t \in C!Rows \ {s} : C!Title(t) = Fold[e.document] => Fold[e.document] \in craced' \cup {Blank}
    <3>1. \A t \in C!Rows : t # None
      BY CConstants DEF C!Rows
    <3> QED BY <1>0, <1>1, <1>2, <2>3, <3>1 DEF CFit, CFree
  <2> HIDE DEF d, e
  <2> QED BY <1>1, <1>2, <2>2, <2>3, <2>4, CPuts
<1> QED BY <1>3, <1>4

\* The schedule of a syllabus goes in at once, where no other schedule is.
LEMMA CInserts ==
  ASSUME CInv, NEW r \in Actor, C!Insert(r)
  PROVE  CInv'
<1> DEFINE titles == {Fold[e.document] : e \in Schedule}
           hit(q) == \E e \in Schedule : C!Overtaken(r, None, e)[q].stale
<1>0. class \in [Row -> CRow] /\ crequest \in [Actor -> CRequest] /\ CFit(r) /\ crequest[r].pc = "insert"
  BY DEF CInv, CType, C!Insert, C!At
<1>1. PICK id \in [Schedule -> Row \ C!Rows] :
        /\ \A e, f \in Schedule : e # f => id[e] # id[f]
        /\ class' = [s \in Row |->
             IF \E e \in Schedule : id[e] = s
             THEN LET e == CHOOSE x \in Schedule : id[x] = s
                  IN [document |-> e.document, date |-> e.date, by |-> r]
             ELSE class[s]]
  BY DEF C!Insert
<1>2. /\ course = "present" /\ UNCHANGED <<course, children, loose, orphans>>
      /\ craced \subseteq craced' /\ (crequest[r].stale => titles \subseteq craced')
      /\ crequest' = [q \in Actor |-> IF q = r THEN C!Idle
                                      ELSE IF hit(q) THEN [crequest[q] EXCEPT !.stale = TRUE] ELSE crequest[q]]
      /\ lock' = IF lock = r THEN None ELSE lock
  BY DEF C!Insert, C!Races, C!Unlock
<1>3. ASSUME NEW e \in Schedule
      PROVE  /\ id[e] \in Row /\ id[e] \notin C!Rows
             /\ class'[id[e]] \in CRow /\ class'[id[e]].document = e.document /\ class'[id[e]].by = r
  <2>1. id[e] \in Row /\ id[e] \notin C!Rows
    BY <1>1
  <2>2. (CHOOSE x \in Schedule : id[x] = id[e]) = e
    BY <1>1
  <2>3. class'[id[e]] = [document |-> e.document, date |-> e.date, by |-> r]
    BY <1>1, <2>1, <2>2
  <2> QED BY <2>1, <2>3, CConstants DEF CRow, C!Entry
<1>4. \A s \in Row : (\A e \in Schedule : id[e] # s) => class'[s] = class[s]
  BY <1>1
<1>5. class' \in [Row -> CRow]
  <2>1. \A s \in Row : class'[s] \in CRow
    BY <1>0, <1>3, <1>4
  <2> DEFINE new(s) == IF \E e \in Schedule : id[e] = s
                       THEN LET e == CHOOSE x \in Schedule : id[x] = s
                            IN [document |-> e.document, date |-> e.date, by |-> r]
                       ELSE class[s]
  <2>2. class' = [s \in Row |-> new(s)]
    BY <1>1
  <2> HIDE DEF new
  <2> QED BY <2>1, <2>2
<1>6. \A s \in C!Rows' : \/ s \in C!Rows /\ class'[s] = class[s] /\ C!Title(s)' = C!Title(s)
                         \/ \E e \in Schedule : id[e] = s /\ C!Title(s)' = Fold[e.document] /\ class'[s].by = r
  BY <1>3, <1>4 DEF C!Rows, C!Title
<1>7. \A x \in Actor : crequest[x].pc = "insert" => x = r
  BY <1>0 DEF CInv, CFit
<1>8. \A s \in C!Rows : class[s].by = None
  BY <1>0 DEF CFit
<1>9. C!ScheduleOnce'
  BY <1>6, <1>8 DEF C!ScheduleOnce
<1>10. C!TopicsUnique'
  <2> SUFFICES ASSUME NEW s \in C!Rows', NEW t \in C!Rows', s # t, C!Title(s)' = C!Title(t)'
               PROVE  C!Title(s)' \in craced' \cup {Blank}
    BY DEF C!TopicsUnique
  <2>1. CASE s \in C!Rows /\ t \in C!Rows
    <3>1. C!Title(s)' = C!Title(s) /\ C!Title(t)' = C!Title(t)
      BY <1>3, <1>6, <2>1
    <3> QED BY <1>2, <2>1, <3>1 DEF CInv, C!TopicsUnique
  <2>2. CASE s \notin C!Rows /\ t \notin C!Rows
    <3>1. PICK e \in Schedule : id[e] = s /\ C!Title(s)' = Fold[e.document]
      BY <1>6, <2>2
    <3>2. PICK f \in Schedule : id[f] = t /\ C!Title(t)' = Fold[f.document]
      BY <1>6, <2>2
    <3> QED BY <3>1, <3>2, CConstants
  <2>3. CASE ~(s \notin C!Rows /\ t \notin C!Rows) /\ ~(s \in C!Rows /\ t \in C!Rows)
    <3>1. crequest[r].stale
      BY <1>0, <2>3 DEF CFit
    <3>2. C!Title(s)' \in titles
      BY <1>6, <2>3
    <3> QED BY <1>2, <3>1, <3>2
  <2> QED BY <2>1, <2>2, <2>3
<1>11. ASSUME NEW x \in Actor \ {r}
       PROVE  /\ crequest'[x] \in CRequest
              /\ crequest'[x].pc = crequest[x].pc /\ crequest'[x].session = crequest[x].session
              /\ crequest'[x].entry = crequest[x].entry /\ crequest'[x].seen = crequest[x].seen
              /\ ~crequest'[x].stale => ~hit(x) /\ ~crequest[x].stale
  <2>1. crequest[x] \in CRequest
    BY <1>0
  <2>2. crequest'[x] = IF hit(x) THEN [crequest[x] EXCEPT !.stale = TRUE] ELSE crequest[x]
    BY <1>2
  <2> HIDE DEF hit
  <2>3. CASE hit(x)
    BY <2>1, <2>2, <2>3 DEF CRequest
  <2>4. CASE ~hit(x)
    BY <2>1, <2>2, <2>4
  <2> QED BY <2>3, <2>4
<1>12. ASSUME NEW x \in Actor \ {r}, crequest[x].pc \in {"write", "rewrite"}, ~hit(x)
       PROVE  C!Wanted(x) \notin titles
  <2> SUFFICES ASSUME NEW e \in Schedule, C!Wanted(x) = Fold[e.document] PROVE FALSE
    OBVIOUS
  <2>1. C!Overtaken(r, None, e)[x] = [crequest[x] EXCEPT !.stale = TRUE]
    BY <1>12 DEF C!Overtaken, C!At
  <2>2. crequest[x] \in CRequest
    BY <1>0
  <2>3. C!Overtaken(r, None, e)[x].stale
    BY <2>1, <2>2 DEF CRequest
  <2> QED BY <1>12, <2>3
<1>13. ASSUME NEW x \in Actor \ {r} PROVE CFit(x)'
  <2>1. CFit(x) /\ C!Wanted(x)' = C!Wanted(x)
    BY <1>11 DEF CInv, C!Wanted
  <2>2. crequest[x].pc # "insert" /\ (lock = x => lock' = x)
    BY <1>2, <1>7
  <2>3. ASSUME crequest[x].pc \in {"write", "rewrite"}, ~crequest'[x].stale
        PROVE  CFree(C!Wanted(x), crequest[x].session)'
    <3>1. CFree(C!Wanted(x), crequest[x].session) /\ C!Wanted(x) \notin titles
      BY <1>11, <1>12, <2>1, <2>3 DEF CFit
    <3>2. craced \subseteq craced'
      BY <1>2
    <3> QED BY <1>6, <1>11, <2>1, <3>1, <3>2 DEF CFree
  <2> QED BY <1>2, <1>11, <2>1, <2>2, <2>3 DEF CFit
<1>14. crequest'[r] = C!Idle /\ crequest' \in [Actor -> CRequest]
  BY <1>2, <1>11, CResting
<1>15. CFit(r)'
  BY <1>14, CResting DEF CFit
<1>16. CRagged'
  <2> SUFFICES ASSUME NEW s \in C!Rows', Trimmed[class'[s].document] # Fold[class'[s].document]
               PROVE  C!Title(s)' \in craced'
    BY DEF CRagged
  <2>1. s \in C!Rows /\ class'[s] = class[s] /\ C!Title(s)' = C!Title(s)
    BY <1>3, <1>6, CConstants
  <2> QED BY <1>2, <2>1 DEF CInv, CRagged
<1> QED BY <1>2, <1>5, <1>9, <1>10, <1>13, <1>14, <1>15, <1>16 DEF CInv, CType, C!DeletedWhole

\* Every step keeps the invariant.
LEMMA CNext == CInv /\ [C!Next]_cvars => CInv'
<1> SUFFICES ASSUME CInv, [C!Next]_cvars PROVE CInv'
  OBVIOUS
<1>1. CASE UNCHANGED cvars
  <2>1. C!Rows' = C!Rows /\ \A s : C!Title(s)' = C!Title(s)
    BY <1>1 DEF cvars, C!Rows, C!Title
  <2> QED BY <1>1, <2>1 DEF cvars, CInv, CType, CRagged, CFit, CFree, C!Wanted, C!ScheduleOnce, C!TopicsUnique, C!DeletedWhole
<1> QED BY <1>1, CLocal, CRefers, CRemoves, CWrites, CInserts DEF C!Next

\* It holds of every reachable state.
LEMMA CInvariant == Spec => []CInv
<1>1. Init => CInv
  BY CStart DEF Init
<1> QED BY <1>1, CNext, RequestsStep, PTL DEF Spec

\* A syllabus becomes class sessions once, titles stay unique but for stale checks and white space the
\* check does not see, and of the tables its deletion lists a deleted course leaves only late rows
\* (http_app.py, process_syllabus, update_session, delete_course).
THEOREM CoursesHoldHolds == Spec => []CoursesHold
<1>1. CInv => CoursesHold
  BY DEF CInv, CoursesHold, In
<1> QED BY <1>1, CInvariant, PTL

-----------------------------------------------------------------------------
(***************************************************************************)
(* Accounts.  Who redeems an invitation holds its row while there is a     *)
(* seat; a login that a batch has created is without a password until      *)
(* another request overlaps; the age of a cached role that is not true any *)
(* more and of its change are a TTL together.                              *)
(***************************************************************************)
RRole == {"none", "platform_admin", "professor", "student"}

RRequest ==
  [pc : {"idle", "create", "password", "store", "redeem", "cache"}, kind : R!Kind \cup {"none"},
   user : Student \cup {None}, role : RRole, old : BOOLEAN]

RTables ==
  /\ login \in [Student -> {"none", "unset", "known", "lost"} \cup Actor]
  /\ role \in [Student -> RRole]
  /\ cache \in [Student -> [role : RRole, left : Nat]]
  /\ since \in [Student -> Nat]
  /\ used \in Nat

RFit(r) ==
  /\ rrequest[r].pc # "idle" => rrequest[r].user \in Student
  /\ rrequest[r].pc = "redeem" => holder = r /\ used < Capacity
  /\ rrequest[r].pc = "password" /\ rrequest[r].kind = "batch" =>
       rrequest[r].user \in roverlapped \/ login[rrequest[r].user] = "unset"
  /\ rrequest[r].pc = "cache" /\ ~rrequest[r].old /\ rrequest[r].role # role[rrequest[r].user] =>
       since[rrequest[r].user] = 0

RAge(u) ==
  /\ cache[u].left <= Ttl
  /\ u \notin slow /\ cache[u].left > 0 /\ cache[u].role # role[u] => since[u] + cache[u].left <= Ttl

RInv ==
  /\ RTables /\ rrequest \in [Actor -> RRequest]
  /\ \A r \in Actor : RFit(r)
  /\ \A u \in Student : RAge(u)
  /\ R!SeatsKept /\ R!PasswordsKept /\ R!RosterComplete

\* the assumptions on the constants
LEMMA RConstants ==
  /\ Capacity \in Nat /\ Capacity > 0 /\ Ttl \in Nat /\ Ttl > 0
  /\ None \notin Actor /\ "none" \notin Actor /\ "unset" \notin Actor /\ "known" \notin Actor /\ "lost" \notin Actor
BY ModulesAssumption DEF R!RosterAssumption

\* a resting request
LEMMA RResting == R!Idle \in RRequest /\ R!Idle.pc = "idle"
BY DEF R!Idle, RRequest, RRole

\* It holds initially.
LEMMA RStart == R!Init => RInv
<1> SUFFICES ASSUME R!Init PROVE RInv
  OBVIOUS
<1>1. rrequest \in [Actor -> RRequest] /\ \A r \in Actor : rrequest[r].pc = "idle"
  BY RResting DEF R!Init
<1>2. R!Absent \in [role : RRole, left : Nat] /\ R!Absent.left = 0
  BY DEF R!Absent, RRole
<1>3. cache \in [Student -> [role : RRole, left : Nat]] /\ \A u \in Student : cache[u].left = 0
  BY <1>2 DEF R!Init
<1>4. RTables
  BY <1>3, RConstants DEF R!Init, RTables, RRole
<1>5. \A u \in Student : RAge(u)
  BY <1>3, RConstants DEF RAge
<1>6. R!SeatsKept /\ R!PasswordsKept /\ R!RosterComplete
  BY RConstants DEF R!Init, R!SeatsKept, R!PasswordsKept, R!RosterComplete
<1> QED BY <1>1, <1>4, <1>5, <1>6 DEF RInv, RFit

\* A step of one request keeps the invariant when the other requests keep what they know.
LEMMA RStep ==
  ASSUME RInv, NEW r \in Actor, NEW q \in RRequest, rrequest' = [rrequest EXCEPT ![r] = q],
         RTables', RFit(r)', \A u \in Student : RAge(u)',
         R!SeatsKept', R!PasswordsKept', R!RosterComplete',
         \A x \in Actor \ {r} : holder = x => holder' = x /\ used' = used,
         roverlapped \subseteq roverlapped',
         \A x \in Actor \ {r} :
           rrequest[x].pc = "password" /\ rrequest[x].kind = "batch" /\ login[rrequest[x].user] = "unset" =>
             login'[rrequest[x].user] = "unset" \/ rrequest[x].user \in roverlapped',
         \A u \in Student : (role'[u] = role[u] /\ since'[u] = since[u]) \/ since'[u] = 0
  PROVE  RInv'
<1>1. rrequest' \in [Actor -> RRequest] /\ \A x \in Actor \ {r} : rrequest'[x] = rrequest[x]
  BY DEF RInv
<1>2. \A x \in Actor \ {r} : RFit(x)'
  <2> TAKE x \in Actor \ {r}
  <2>1. RFit(x) /\ rrequest'[x] = rrequest[x]
    BY <1>1 DEF RInv
  <2>2. rrequest[x].pc = "cache" /\ ~rrequest[x].old /\ rrequest[x].role # role'[rrequest[x].user] =>
          since'[rrequest[x].user] = 0
    BY <2>1 DEF RFit
  <2> QED BY <2>1, <2>2 DEF RFit
<1> QED BY <1>1, <1>2 DEF RInv

\* A step that leaves logins, tables and the cache alone, or only the steps' own entries of the logins.
LEMMA RQuiet ==
  ASSUME RInv, NEW r \in Actor, NEW q \in RRequest, rrequest' = [rrequest EXCEPT ![r] = q],
         RFit(r)', login' \in [Student -> {"none", "unset", "known", "lost"} \cup Actor],
         \A u \in Student : login[u] = "unset" => login'[u] = "unset",
         \A x \in Actor \ {r} : holder = x => holder' = x,
         UNCHANGED <<role, enrolled, mirror, since, used, apart, cache, churned, roverlapped, slow>>
  PROVE  RInv'
<1>1. RTables' /\ \A u \in Student : RAge(u)'
  BY DEF RInv, RTables, RAge
<1>2. R!SeatsKept' /\ R!PasswordsKept' /\ R!RosterComplete'
  BY DEF RInv, R!SeatsKept, R!PasswordsKept, R!RosterComplete
<1>3. ASSUME NEW x \in Actor \ {r}, rrequest[x].pc = "password" PROVE rrequest[x].user \in Student
  BY <1>3 DEF RInv, RFit
<1> QED BY <1>1, <1>2, <1>3, RStep

\* The steps that change no table.
LEMMA RLocal ==
  ASSUME RInv, NEW r \in Actor,
         \/ \E u \in Student, kind \in R!Kind : R!Begin(r, u, kind)
         \/ R!CreateLogin(r) \/ R!Fails(r) \/ R!RedeemFails(r)
         \/ \E u \in Student : R!RedeemLook(r, u) \/ R!Load(r, u)
  PROVE  RInv'
<1>0. /\ rrequest \in [Actor -> RRequest] /\ rrequest[r] \in RRequest /\ RFit(r) /\ RTables
      /\ login \in [Student -> {"none", "unset", "known", "lost"} \cup Actor]
  BY DEF RInv, RTables
<1>1. CASE \E u \in Student, kind \in R!Kind : R!Begin(r, u, kind)
  <2>1. PICK u \in Student, kind \in R!Kind : R!Begin(r, u, kind)
    BY <1>1
  <2> DEFINE pc == IF kind = "reset" THEN "password" ELSE "create"
             q == [R!Idle EXCEPT !.kind = kind, !.user = u, !.pc = pc]
  <2>2. q \in RRequest /\ q.pc = pc /\ q.user = u /\ q.kind = kind
    BY DEF R!Idle, RRequest, RRole
  <2>3. rrequest' = [rrequest EXCEPT ![r] = q]
        /\ UNCHANGED <<login, role, enrolled, mirror, since, used, holder, apart, cache, churned, roverlapped, slow>>
    BY <2>1 DEF R!Begin, R!tables, R!invitation, R!history
  <2> HIDE DEF q
  <2>4. rrequest'[r] = q
    BY <1>0, <2>3
  <2>5. RFit(r)'
    BY <2>2, <2>4 DEF RFit
  <2> QED BY <1>0, <2>2, <2>3, <2>5, RQuiet
<1>2. CASE R!CreateLogin(r)
  <2> DEFINE u == rrequest[r].user
             pc == IF rrequest[r].kind = "batch" /\ login[u] # "none" THEN "store" ELSE "password"
             q == [rrequest[r] EXCEPT !.pc = pc]
  <2>1. q \in RRequest /\ q.pc = pc /\ q.user = u /\ q.kind = rrequest[r].kind
    BY <1>0 DEF RRequest
  <2>2. /\ rrequest' = [rrequest EXCEPT ![r] = q] /\ u \in Student
        /\ login' = [login EXCEPT ![u] = IF login[u] = "none" THEN "unset" ELSE login[u]]
        /\ UNCHANGED <<role, enrolled, mirror, since, used, holder, apart, cache, churned, roverlapped, slow>>
    BY <1>0, <1>2 DEF R!CreateLogin, R!Goto, R!At, R!UserOf, RFit, R!tables, R!invitation, R!history
  <2> HIDE DEF q
  <2>3. rrequest'[r] = q
    BY <1>0, <2>2
  <2>4. /\ login' \in [Student -> {"none", "unset", "known", "lost"} \cup Actor]
        /\ \A v \in Student : login[v] = "unset" => login'[v] = "unset"
        /\ login[u] = "none" => login'[u] = "unset"
    BY <1>0, <2>2
  <2>5. RFit(r)'
    BY <2>1, <2>2, <2>3, <2>4 DEF RFit
  <2> QED BY <2>1, <2>2, <2>4, <2>5, RQuiet
<1>3. ASSUME rrequest' = [rrequest EXCEPT ![r] = R!Idle], login' \in [Student -> {"none", "unset", "known", "lost"} \cup Actor],
             \A u \in Student : login[u] = "unset" => login'[u] = "unset",
             \A x \in Actor \ {r} : holder = x => holder' = x,
             UNCHANGED <<role, enrolled, mirror, since, used, apart, cache, churned, roverlapped, slow>>
      PROVE  RInv'
  <2>1. rrequest'[r] = R!Idle
    BY <1>0, <1>3
  <2>2. RFit(r)'
    BY <2>1, RResting DEF RFit
  <2> QED BY <1>3, <2>2, RQuiet, RResting
<1>4. CASE R!Fails(r)
  <2> DEFINE u == rrequest[r].user
  <2>1. /\ rrequest' = [rrequest EXCEPT ![r] = R!Idle] /\ u \in Student
        /\ login' = [login EXCEPT ![u] = IF login[u] = r THEN "lost" ELSE login[u]]
        /\ UNCHANGED <<role, enrolled, mirror, since, used, holder, apart, cache, churned, roverlapped, slow>>
    BY <1>0, <1>4 DEF R!Fails, R!End, R!UserOf, RFit, R!tables, R!invitation, R!history
  <2>2. /\ login' \in [Student -> {"none", "unset", "known", "lost"} \cup Actor]
        /\ \A v \in Student : login[v] = "unset" => login'[v] = "unset"
    BY <1>0, <2>1, RConstants
  <2> QED BY <1>3, <2>1, <2>2
<1>5. CASE R!RedeemFails(r)
  <2>1. holder = r /\ holder' = None /\ rrequest' = [rrequest EXCEPT ![r] = R!Idle]
        /\ UNCHANGED <<login, role, enrolled, mirror, since, used, apart, cache, churned, roverlapped, slow>>
    BY <1>0, <1>5 DEF R!RedeemFails, R!At, R!End, RFit, R!tables, R!history
  <2> QED BY <1>0, <1>3, <2>1
<1>6. CASE \E u \in Student : R!RedeemLook(r, u)
  <2>1. PICK u \in Student : R!RedeemLook(r, u)
    BY <1>6
  <2> DEFINE q == [R!Idle EXCEPT !.pc = "redeem", !.user = u]
  <2>2. q \in RRequest /\ q.pc = "redeem" /\ q.user = u
    BY DEF R!Idle, RRequest, RRole
  <2>3. /\ holder = None /\ holder' = r /\ used < Capacity /\ rrequest' = [rrequest EXCEPT ![r] = q]
        /\ UNCHANGED <<login, role, enrolled, mirror, since, used, apart, cache, churned, roverlapped, slow>>
    BY <2>1 DEF R!RedeemLook, R!tables, R!history
  <2> HIDE DEF q
  <2>4. rrequest'[r] = q
    BY <1>0, <2>3
  <2>5. RFit(r)'
    BY <2>2, <2>3, <2>4 DEF RFit
  <2> QED BY <1>0, <2>2, <2>3, <2>5, RQuiet, RConstants
<1>7. CASE \E u \in Student : R!Load(r, u)
  <2>1. PICK u \in Student : R!Load(r, u)
    BY <1>7
  <2> DEFINE q == [R!Idle EXCEPT !.pc = "cache", !.user = u, !.role = role[u]]
  <2>2. q \in RRequest /\ q.pc = "cache" /\ q.user = u /\ q.role = role[u]
    BY <1>0 DEF R!Idle, RRequest, RRole, RTables
  <2>3. /\ rrequest' = [rrequest EXCEPT ![r] = q]
        /\ UNCHANGED <<login, role, enrolled, mirror, since, used, holder, apart, cache, churned, roverlapped, slow>>
    BY <2>1 DEF R!Load, R!tables, R!invitation, R!history
  <2> HIDE DEF q
  <2>4. rrequest'[r] = q
    BY <1>0, <2>3
  <2>5. RFit(r)'
    BY <2>2, <2>3, <2>4 DEF RFit
  <2> QED BY <1>0, <2>2, <2>3, <2>5, RQuiet
<1> QED BY <1>1, <1>2, <1>4, <1>5, <1>6, <1>7

\* A password that overlaps with a batch's is noted.
LEMMA RPassword ==
  ASSUME RInv, NEW r \in Actor, NEW given \in BOOLEAN, R!SetPassword(r, given)
  PROVE  RInv'
<1> DEFINE u == rrequest[r].user
           q == [rrequest[r] EXCEPT !.pc = "store"]
<1>0. /\ rrequest \in [Actor -> RRequest] /\ rrequest[r] \in RRequest /\ RFit(r) /\ RTables
      /\ login \in [Student -> {"none", "unset", "known", "lost"} \cup Actor] /\ rrequest[r].pc = "password"
      /\ u \in Student
  BY DEF RInv, RTables, RFit, R!SetPassword, R!At
<1>1. q \in RRequest /\ q.pc = "store" /\ q.user = u
  BY <1>0 DEF RRequest
<1>2. /\ rrequest' = [rrequest EXCEPT ![r] = q]
      /\ login' = (IF given THEN [login EXCEPT ![u] = r] ELSE login)
      /\ churned' = (IF given /\ rrequest[r].kind = "batch" /\ login[u] = "known" THEN churned \cup {u} ELSE churned)
      /\ roverlapped' = (IF given /\ R!Creating(u, r) THEN roverlapped \cup {u} ELSE roverlapped)
      /\ UNCHANGED <<role, enrolled, mirror, since, used, holder, apart, cache, slow>>
  BY DEF R!SetPassword, R!Goto, R!UserOf, R!tables, R!invitation
<1> HIDE DEF q
<1>3. rrequest'[r] = q
  BY <1>0, <1>2
<1>4. RFit(r)'
  BY <1>0, <1>1, <1>2, <1>3 DEF RFit
<1>5. RTables' /\ \A v \in Student : RAge(v)'
  BY <1>0, <1>2 DEF RInv, RTables, RAge
<1>6. R!SeatsKept' /\ R!RosterComplete'
  BY <1>2 DEF RInv, R!SeatsKept, R!RosterComplete
<1>7. R!PasswordsKept'
  <2>1. rrequest[r].kind = "batch" /\ login[u] = "known" => u \in roverlapped
    BY <1>0 DEF RFit
  <2> QED BY <1>2, <2>1 DEF RInv, R!PasswordsKept
<1>8. ASSUME NEW x \in Actor \ {r}, rrequest[x].pc = "password", rrequest[x].kind = "batch",
             login[rrequest[x].user] = "unset"
      PROVE  login'[rrequest[x].user] = "unset" \/ rrequest[x].user \in roverlapped'
  <2>1. rrequest[x].user \in Student
    BY <1>8 DEF RInv, RFit
  <2>2. CASE rrequest[x].user = u
    <3>1. R!Creating(u, r)
      BY <1>8, <2>2 DEF R!Creating, R!At, R!UserOf
    <3> QED BY <1>0, <1>2, <1>8, <2>2, <3>1
  <2>3. CASE rrequest[x].user # u
    BY <1>0, <1>2, <1>8, <2>1, <2>3
  <2> QED BY <2>2, <2>3
<1> QED BY <1>1, <1>2, <1>4, <1>5, <1>6, <1>7, <1>8, RStep

\* A change of role starts its age anew.
LEMMA RGives ==
  ASSUME RInv, NEW u \in Student, NEW new \in RRole, R!GiveRole(u, new)
  PROVE  /\ role' \in [Student -> RRole] /\ since' \in [Student -> Nat]
         /\ \A v \in Student : (role'[v] = role[v] /\ since'[v] = since[v]) \/ since'[v] = 0
BY DEF RInv, RTables, R!GiveRole

\* What the age of the roles is when their cache stays.
LEMMA RAges ==
  ASSUME RInv, UNCHANGED <<cache, slow>>,
         \A v \in Student : (role'[v] = role[v] /\ since'[v] = since[v]) \/ since'[v] = 0
  PROVE  \A v \in Student : RAge(v)'
<1> SUFFICES ASSUME NEW v \in Student PROVE RAge(v)'
  OBVIOUS
<1>1. RAge(v) /\ cache[v].left \in Nat /\ since[v] \in Nat
  BY DEF RInv, RTables
<1>2. CASE role'[v] = role[v] /\ since'[v] = since[v]
  BY <1>1, <1>2 DEF RAge
<1>3. CASE since'[v] = 0
  BY <1>1, <1>3, RConstants DEF RAge
<1> QED BY <1>2, <1>3

\* What provisioning and redemption write.
LEMMA RStores ==
  ASSUME RInv, NEW r \in Actor, R!Redeem(r) \/ \E inCourse \in BOOLEAN : R!Store(r, inCourse)
  PROVE  RInv'
<1> DEFINE u == rrequest[r].user
<1>0. /\ rrequest \in [Actor -> RRequest] /\ rrequest[r] \in RRequest /\ RFit(r) /\ RTables
      /\ login \in [Student -> {"none", "unset", "known", "lost"} \cup Actor]
      /\ u \in Student /\ role[u] \in RRole
  BY DEF RInv, RTables, RFit, R!Redeem, R!Store, R!At
<1>1. rrequest' = [rrequest EXCEPT ![r] = R!Idle] /\ UNCHANGED <<cache, churned, roverlapped, slow>>
  BY DEF R!Redeem, R!Store, R!End, R!history
<1>2. rrequest'[r] = R!Idle
  BY <1>0, <1>1
<1>3. RFit(r)'
  BY <1>2, RResting DEF RFit
<1>4. R!PasswordsKept'
  BY <1>1 DEF RInv, R!PasswordsKept
<1>5. CASE R!Redeem(r)
  <2>1. /\ holder = r /\ used < Capacity /\ used' = used + 1 /\ login' = login
        /\ enrolled' = enrolled \cup {u} /\ apart' = apart \cup {u} /\ mirror' = mirror
    BY <1>0, <1>5 DEF R!Redeem, R!At, R!UserOf, RFit
  <2>2. /\ role' \in [Student -> RRole] /\ since' \in [Student -> Nat]
        /\ \A v \in Student : (role'[v] = role[v] /\ since'[v] = since[v]) \/ since'[v] = 0
    <3>1. CASE UNCHANGED <<role, since>>
      BY <1>0, <3>1 DEF RTables
    <3>2. CASE R!GiveRole(u, "student")
      BY <1>0, <3>2, RGives DEF RRole
    <3> QED BY <1>5, <3>1, <3>2 DEF R!Redeem, R!UserOf
  <2>3. RTables' /\ R!SeatsKept' /\ R!RosterComplete'
    <3>1. used' \in Nat /\ used' <= Capacity
      BY <1>0, <2>1, RConstants DEF RTables
    <3>2. R!RosterComplete'
      BY <2>1 DEF RInv, R!RosterComplete
    <3> QED BY <1>0, <1>1, <2>1, <2>2, <3>1, <3>2 DEF RTables, R!SeatsKept
  <2>4. \A v \in Student : RAge(v)'
    BY <1>1, <2>2, RAges
  <2> QED BY <1>1, <1>3, <1>4, <2>1, <2>2, <2>3, <2>4, RStep, RResting
<1>6. CASE \E inCourse \in BOOLEAN : R!Store(r, inCourse)
  <2>1. PICK inCourse \in BOOLEAN : R!Store(r, inCourse)
    BY <1>6
  <2>2. /\ UNCHANGED <<used, holder>>
        /\ login' = [login EXCEPT ![u] = IF login[u] = r THEN "known" ELSE login[u]]
        /\ \/ enrolled' = enrolled /\ mirror' = mirror /\ apart' = apart
           \/ enrolled' = enrolled \cup {u} /\ mirror' = mirror \cup {u} /\ apart' = apart
           \/ enrolled' = enrolled \cup {u} /\ mirror' = mirror /\ apart' = apart \cup {u}
    BY <1>0, <2>1 DEF R!Store, R!Told, R!UserOf
  <2>3. /\ login' \in [Student -> {"none", "unset", "known", "lost"} \cup Actor]
        /\ \A v \in Student : login[v] = "unset" => login'[v] = "unset"
    BY <1>0, <2>2, RConstants
  <2>4. /\ role' \in [Student -> RRole] /\ since' \in [Student -> Nat]
        /\ \A v \in Student : (role'[v] = role[v] /\ since'[v] = since[v]) \/ since'[v] = 0
    <3>1. CASE UNCHANGED <<role, since>>
      BY <1>0, <3>1 DEF RTables
    <3>2. CASE R!GiveRole(u, R!Kept(r))
      <4>1. R!Kept(r) \in RRole
        BY <1>0 DEF R!Kept, R!Wanted, R!UserOf, RRole
      <4> QED BY <1>0, <3>2, <4>1, RGives
    <3> QED BY <2>1, <3>1, <3>2 DEF R!Store, R!UserOf
  <2>5. RTables' /\ R!SeatsKept' /\ R!RosterComplete'
    <3>1. R!RosterComplete' /\ R!SeatsKept'
      BY <2>2 DEF RInv, R!RosterComplete, R!SeatsKept
    <3> QED BY <1>0, <1>1, <2>2, <2>3, <2>4, <3>1 DEF RTables
  <2>6. \A v \in Student : RAge(v)'
    BY <1>1, <2>4, RAges
  <2>7. \A x \in Actor \ {r} : rrequest[x].pc = "password" => rrequest[x].user \in Student
    BY DEF RInv, RFit
  <2> QED BY <1>1, <1>3, <1>4, <2>2, <2>3, <2>4, <2>5, <2>6, <2>7, RStep, RResting
<1> QED BY <1>5, <1>6

\* A role is cached for a TTL; it is not older than the entry unless it was loaded long before.
LEMMA RCaches ==
  ASSUME RInv, NEW r \in Actor, R!Cache(r)
  PROVE  RInv'
<1> DEFINE u == rrequest[r].user
           d == [role |-> rrequest[r].role, left |-> Ttl]
<1>0. /\ rrequest \in [Actor -> RRequest] /\ rrequest[r] \in RRequest /\ RFit(r) /\ RTables
      /\ u \in Student /\ rrequest[r].pc = "cache" /\ rrequest[r].role \in RRole
  BY DEF RInv, RTables, RFit, R!Cache, R!At, RRequest
<1>1. /\ cache' = [cache EXCEPT ![u] = d]
      /\ slow' = (IF rrequest[r].old THEN slow \cup {u} ELSE slow)
      /\ rrequest' = [rrequest EXCEPT ![r] = R!Idle]
      /\ UNCHANGED <<login, role, enrolled, mirror, since, used, holder, apart, churned, roverlapped>>
  BY DEF R!Cache, R!End, R!UserOf, R!tables, R!invitation
<1>2. d \in [role : RRole, left : Nat] /\ d.role = rrequest[r].role /\ d.left = Ttl
  BY <1>0, RConstants
<1> HIDE DEF d
<1>3. rrequest'[r] = R!Idle /\ cache'[u] = d /\ cache' \in [Student -> [role : RRole, left : Nat]]
      /\ \A v \in Student \ {u} : cache'[v] = cache[v]
  BY <1>0, <1>1, <1>2 DEF RTables
<1>4. RFit(r)'
  BY <1>3, RResting DEF RFit
<1>5. ASSUME NEW v \in Student, v = u PROVE RAge(v)'
  <2>1. v \notin slow' /\ rrequest[r].role # role[v] => since[v] = 0
    BY <1>0, <1>1, <1>5 DEF RFit
  <2>2. cache'[v] = d
    BY <1>3, <1>5
  <2> QED BY <1>1, <1>2, <2>1, <2>2, RConstants DEF RAge
<1>6. ASSUME NEW v \in Student, v # u PROVE RAge(v)'
  <2>1. RAge(v) /\ cache'[v] = cache[v]
    BY <1>3, <1>6 DEF RInv
  <2> QED BY <1>1, <2>1 DEF RAge
<1>7. \A v \in Student : RAge(v)'
  BY <1>5, <1>6
<1>8. RTables'
  BY <1>0, <1>1, <1>3 DEF RTables
<1>9. R!SeatsKept' /\ R!PasswordsKept' /\ R!RosterComplete'
  BY <1>1 DEF RInv, R!SeatsKept, R!PasswordsKept, R!RosterComplete
<1> QED BY <1>1, <1>4, <1>7, <1>8, <1>9, RStep, RResting

\* Time takes from an entry what it adds to the age of a change.
LEMMA RTicks ==
  ASSUME RInv, R!Tick
  PROVE  RInv'
<1>0. rrequest \in [Actor -> RRequest] /\ RTables
  BY DEF RInv
<1>1. /\ cache' = [u \in Student |-> IF cache[u].left > 1 THEN [cache[u] EXCEPT !.left = cache[u].left - 1] ELSE R!Absent]
      /\ since' = [u \in Student |-> IF since[u] < Ttl THEN since[u] + 1 ELSE Ttl]
      /\ rrequest' = [r \in Actor |-> IF rrequest[r].pc = "cache" THEN [rrequest[r] EXCEPT !.old = TRUE] ELSE rrequest[r]]
      /\ UNCHANGED <<login, role, enrolled, mirror, used, holder, apart, churned, roverlapped, slow>>
  BY DEF R!Tick, R!At, R!invitation, R!history
<1>2. ASSUME NEW x \in Actor
      PROVE  /\ rrequest'[x] \in RRequest /\ rrequest'[x].pc = rrequest[x].pc /\ rrequest'[x].kind = rrequest[x].kind
             /\ rrequest'[x].user = rrequest[x].user /\ (rrequest[x].pc = "cache" => rrequest'[x].old)
  <2>1. rrequest[x] \in RRequest
    BY <1>0
  <2>2. CASE rrequest[x].pc = "cache"
    <3>1. rrequest'[x] = [rrequest[x] EXCEPT !.old = TRUE]
      BY <1>1, <2>2
    <3> QED BY <2>1, <3>1 DEF RRequest
  <2>3. CASE rrequest[x].pc # "cache"
    <3>1. rrequest'[x] = rrequest[x]
      BY <1>1, <2>3
    <3> QED BY <2>1, <2>3, <3>1
  <2> QED BY <2>2, <2>3
<1>3. rrequest' \in [Actor -> RRequest]
  <2>1. \E f : rrequest' = [r \in Actor |-> f[r]]
    BY <1>1
  <2> QED BY <1>2, <2>1
<1>4. \A x \in Actor : RFit(x)'
  BY <1>1, <1>2 DEF RInv, RFit
<1>5. ASSUME NEW v \in Student
      PROVE  /\ cache'[v] \in [role : RRole, left : Nat] /\ since'[v] \in Nat
             /\ RAge(v)'
  <2>1. cache[v] \in [role : RRole, left : Nat] /\ since[v] \in Nat /\ RAge(v)
    BY <1>0 DEF RInv, RTables
  <2>2. since'[v] \in Nat /\ (since[v] < Ttl => since'[v] = since[v] + 1)
    BY <1>1, <2>1, RConstants
  <2>3. CASE cache[v].left > 1
    <3>1. cache'[v] = [cache[v] EXCEPT !.left = cache[v].left - 1]
      BY <1>1, <2>3
    <3>2. cache'[v].role = cache[v].role /\ cache'[v].left = cache[v].left - 1
      BY <2>1, <3>1
    <3>3. cache'[v] \in [role : RRole, left : Nat]
      BY <2>1, <2>3, <3>1
    <3> QED BY <1>1, <2>1, <2>2, <2>3, <3>2, <3>3, RConstants DEF RAge
  <2>4. CASE ~(cache[v].left > 1)
    <3>1. cache'[v] = R!Absent
      BY <1>1, <2>4
    <3>2. cache'[v].left = 0 /\ cache'[v] \in [role : RRole, left : Nat]
      BY <3>1 DEF R!Absent, RRole
    <3> QED BY <2>2, <3>2, RConstants DEF RAge
  <2> QED BY <2>3, <2>4
<1>6. cache' \in [Student -> [role : RRole, left : Nat]] /\ since' \in [Student -> Nat]
  <2> DEFINE entry(u) == IF cache[u].left > 1 THEN [cache[u] EXCEPT !.left = cache[u].left - 1] ELSE R!Absent
             age(u) == IF since[u] < Ttl THEN since[u] + 1 ELSE Ttl
  <2>1. cache' = [u \in Student |-> entry(u)] /\ since' = [u \in Student |-> age(u)]
    BY <1>1, Zenon
  <2> HIDE DEF entry, age
  <2> QED BY <1>5, <2>1
<1>7. RTables'
  BY <1>0, <1>1, <1>6 DEF RTables
<1>8. R!SeatsKept' /\ R!PasswordsKept' /\ R!RosterComplete'
  BY <1>1 DEF RInv, R!SeatsKept, R!PasswordsKept, R!RosterComplete
<1> QED BY <1>3, <1>4, <1>5, <1>7, <1>8 DEF RInv

\* Every step keeps the invariant.
LEMMA RNext == RInv /\ [R!Next]_rvars => RInv'
<1> SUFFICES ASSUME RInv, [R!Next]_rvars PROVE RInv'
  OBVIOUS
<1>1. CASE UNCHANGED rvars
  BY <1>1 DEF rvars, RInv, RTables, RFit, RAge, R!SeatsKept, R!PasswordsKept, R!RosterComplete
<1>2. ASSUME NEW u \in Student, R!Enroll(u) \/ R!Unenroll(u) PROVE RInv'
  <2>1. UNCHANGED <<login, role, since, used, holder, cache, rrequest, churned, roverlapped, slow>>
    BY <1>2 DEF R!Enroll, R!Unenroll, R!invitation, R!history
  <2>2. R!RosterComplete'
    BY <1>2 DEF R!Enroll, R!Unenroll, R!invitation, RInv, R!RosterComplete
  <2> QED BY <2>1, <2>2 DEF RInv, RTables, RFit, RAge, R!SeatsKept, R!PasswordsKept, R!RosterComplete
<1> QED BY <1>1, <1>2, RTicks, RLocal, RPassword, RStores, RCaches DEF R!Next

\* It holds of every reachable state.
LEMMA RInvariant == Spec => []RInv
<1>1. Init => RInv
  BY RStart DEF Init
<1> QED BY <1>1, RNext, RequestsStep, PTL DEF Spec

-----------------------------------------------------------------------------
(***************************************************************************)
(* Demo links.  A submit at work on a cell of a live session has room for  *)
(* its row or has it (LPlace); alone on the cell, what it has seen of the  *)
(* other rows is what they hold, and a row that was not scored against the *)
(* path holds nothing.                                                     *)
(***************************************************************************)
LWork == {"count", "upsert", "evaluate", "store"}

LRequest ==
  [pc : {"idle", "consume", "insert"} \cup LWork, cell : L!Cell \cup {None}, sub : Nat,
   own : SUBSET Concept, seen : SUBSET Concept]

LTurn == [by : {"none", "plain", "eds"}, nodes : SUBSET Concept]

LType ==
  /\ link \in [minted : BOOLEAN, expired : BOOLEAN, used : Nat]
  /\ session \in [Row -> [status : {"none", "active", "completed", "purged"}, at : Nat]]
  /\ turns \in [L!Cell -> Seq(LTurn)]
  /\ aggregate \in [L!Cell -> (SUBSET Concept) \cup {None}]
  /\ lrequest \in [Actor -> LRequest]
  /\ spent \in Nat

LFinite == IsFiniteSet(L!Sessions) /\ IsFiniteSet(L!Starting)

\* where a submit is, on a cell with these rows, with nobody else on it or not
LPlace(q, rows, alone) ==
  /\ q.pc = "upsert" => q.sub \in 1 .. Len(rows) + 1
  /\ q.pc \in {"evaluate", "store"} => q.sub \in 1 .. Len(rows)
  /\ q.pc = "store" /\ alone => q.seen = UNION {rows[k].nodes : k \in 1 .. Len(rows) \ {q.sub}}

LFit(r) ==
  lrequest[r].pc \in LWork =>
    /\ lrequest[r].cell \in L!Cell
    /\ session[lrequest[r].cell[1]].status # "none"
    /\ L!Alive(lrequest[r].cell[1]) =>
         LPlace(lrequest[r], turns[lrequest[r].cell], lrequest[r].cell \notin overlapped)

LApart ==
  \A r, q \in Actor :
    r # q /\ lrequest[r].pc \in LWork /\ lrequest[q].pc \in LWork /\ lrequest[r].cell = lrequest[q].cell =>
      lrequest[r].cell \in overlapped

LPlain == \A c \in L!Cell : \A k \in 1 .. Len(turns[c]) : turns[c][k].by # "eds" => turns[c][k].nodes = {}

\* L!AggregateHolds for one cell
LHolds(rows, seen) ==
  LET found == {k \in 1 .. Len(rows) : rows[k].by = "eds"}
  IN IF found = {} THEN seen = None ELSE seen = UNION {rows[k].nodes : k \in found}

LTable == LPlain /\ \A c \in L!Cell \ overlapped : LHolds(turns[c], aggregate[c])

LInv ==
  /\ LType /\ LFinite /\ L!AttemptsAccounted
  /\ \A r \in Actor : LFit(r)
  /\ LApart /\ LTable

\* What is assumed of the constants.
LEMMA LConstants == None \notin Row \cup Actor /\ Position \subseteq Nat /\ MaxAttempts \in Nat /\ MaxAnswers \in Nat
BY ModulesAssumption DEF L!DemoLinksAssumption

\* A resting request.
LEMMA LResting == L!Idle \in LRequest /\ L!Idle.pc = "idle"
BY DEF L!Idle, LRequest, LWork

\* The rows of a cell.
LEMMA LRows ==
  ASSUME NEW rows \in Seq(LTurn)
  PROVE  /\ Len(rows) \in Nat /\ DOMAIN rows = 1 .. Len(rows)
         /\ \A k \in 1 .. Len(rows) : rows[k] \in LTurn /\ rows[k].nodes \subseteq Concept
<1>1. \A k \in 1 .. Len(rows) : rows[k] \in LTurn
  OBVIOUS
<1> QED BY <1>1 DEF LTurn

\* The two ways of counting are one.
LEMMA LCounts == \A S : L!Cardinality(S) = Cardinality(S)
BY DEF L!Cardinality, Cardinality

\* Initially.
LEMMA LStart == L!Init => LInv
<1> SUFFICES ASSUME L!Init PROVE LInv
  OBVIOUS
<1>1. LType
  <2>1. L!NoSession \in [status : {"none", "active", "completed", "purged"}, at : Nat]
    BY DEF L!NoSession
  <2>2. link \in [minted : BOOLEAN, expired : BOOLEAN, used : Nat] /\ spent \in Nat
    BY DEF L!Init
  <2>3. turns \in [L!Cell -> Seq(LTurn)] /\ aggregate \in [L!Cell -> (SUBSET Concept) \cup {None}]
    BY DEF L!Init
  <2> QED BY LResting, <2>1, <2>2, <2>3 DEF L!Init, LType
<1>2. L!Sessions = {} /\ L!Starting = {}
  BY LResting DEF L!Init, L!Sessions, L!Starting, L!At, L!NoSession
<1>3. LFinite /\ Cardinality(L!Sessions) = 0 /\ Cardinality(L!Starting) = 0
  BY <1>2, FS_EmptySet DEF LFinite
<1>4. L!AttemptsAccounted
  BY <1>3, LCounts, LConstants DEF L!AttemptsAccounted, L!Init
<1>5. \A c \in L!Cell : Len(turns[c]) = 0 /\ aggregate[c] = None
  BY DEF L!Init
<1>6. LTable
  BY <1>5 DEF LTable, LPlain, LHolds
<1>7. LApart /\ \A r \in Actor : LFit(r)
  BY LResting DEF L!Init, LApart, LFit, LWork
<1> QED BY <1>1, <1>3, <1>4, <1>6, <1>7 DEF LInv

\* The account: what it takes to keep it.
LEMMA LSame ==
  ASSUME LInv, L!Sessions' = L!Sessions, L!Starting' = L!Starting, link'.used = link.used, spent' = spent
  PROVE  LFinite' /\ L!AttemptsAccounted'
BY DEF LInv, LFinite, L!AttemptsAccounted

\* A request that the step is not about stays fit.
LEMMA LOther ==
  ASSUME LInv, NEW x \in Actor, lrequest'[x] = lrequest[x], overlapped \subseteq overlapped',
         \A s \in Row : session[s].status # "none" => session'[s].status # "none" /\ (L!Alive(s)' => L!Alive(s)),
         \A c \in L!Cell : L!Alive(c[1])' /\ lrequest[x].cell = c /\ lrequest[x].pc \in LWork =>
           \/ turns'[c] = turns[c]
           \/ c \in overlapped /\ Len(turns'[c]) >= Len(turns[c]) /\ Len(turns'[c]) \in Nat
  PROVE  LFit(x)'
<1> DEFINE q == lrequest[x]
           c == lrequest[x].cell
<1> SUFFICES ASSUME q.pc \in LWork
             PROVE  c \in L!Cell /\ session'[c[1]].status # "none"
                    /\ (L!Alive(c[1])' => LPlace(q, turns'[c], c \notin overlapped'))
  BY DEF LFit
<1>1. c \in L!Cell /\ session[c[1]].status # "none" /\ c[1] \in Row
      /\ (L!Alive(c[1]) => LPlace(q, turns[c], c \notin overlapped))
  BY DEF LInv, LFit, L!Cell
<1>2. Len(turns[c]) \in Nat
  BY <1>1 DEF LInv, LType
<1>3. ASSUME L!Alive(c[1])' PROVE LPlace(q, turns'[c], c \notin overlapped')
  <2>1. LPlace(q, turns[c], c \notin overlapped)
    BY <1>1, <1>3
  <2>2. CASE turns'[c] = turns[c]
    BY <2>1, <2>2 DEF LPlace
  <2>3. CASE c \in overlapped /\ Len(turns'[c]) >= Len(turns[c]) /\ Len(turns'[c]) \in Nat
    BY <2>1, <2>3, <1>2, overlapped \subseteq overlapped' DEF LPlace
  <2> QED BY <1>1, <1>3, <2>2, <2>3
<1> QED BY <1>1, <1>3

\* No row changes.
LEMMA LSameTable ==
  ASSUME LInv, UNCHANGED <<turns, aggregate>>, overlapped \subseteq overlapped'
  PROVE  LTable'
BY DEF LInv, LTable, LPlain

\* No submit starts: those at work stay apart.
LEMMA LStaysApart ==
  ASSUME LInv, overlapped \subseteq overlapped',
         \A x \in Actor : lrequest'[x].pc \in LWork => lrequest[x].pc \in LWork /\ lrequest'[x].cell = lrequest[x].cell
  PROVE  LApart'
<1> SUFFICES ASSUME NEW x \in Actor, NEW y \in Actor, x # y, lrequest'[x].pc \in LWork, lrequest'[y].pc \in LWork,
                    lrequest'[x].cell = lrequest'[y].cell
             PROVE  lrequest'[x].cell \in overlapped'
  BY DEF LApart
<1> QED BY DEF LInv, LApart

\* Steps that change no row, and one request at most.
LEMMA LLocal ==
  ASSUME LInv, NEW r \in Actor, NEW q \in LRequest, lrequest' = [lrequest EXCEPT ![r] = q],
         q.pc \in LWork => lrequest[r].pc \in LWork /\ q.cell = lrequest[r].cell,
         UNCHANGED <<turns, aggregate, overlapped>>, LFit(r)',
         \A s \in Row : session[s].status # "none" => session'[s].status # "none" /\ (L!Alive(s)' => L!Alive(s))
  PROVE  lrequest' \in [Actor -> LRequest] /\ (\A x \in Actor : LFit(x)') /\ LApart' /\ LTable'
<1>1. lrequest' \in [Actor -> LRequest] /\ lrequest'[r] = q /\ \A x \in Actor \ {r} : lrequest'[x] = lrequest[x]
  BY DEF LInv, LType
<1>2. \A x \in Actor \ {r} : LFit(x)'
  BY <1>1, LOther
<1>3. LApart'
  BY <1>1, LStaysApart
<1> QED BY <1>1, <1>2, <1>3, LSameTable

\* Steps of the link, and a completion.
LEMMA LLinks ==
  ASSUME LInv, L!Mint \/ L!Expire \/ \E s \in Row : L!Complete(s)
  PROVE  LInv'
<1>0. /\ link \in [minted : BOOLEAN, expired : BOOLEAN, used : Nat]
      /\ session \in [Row -> [status : {"none", "active", "completed", "purged"}, at : Nat]]
  BY DEF LInv, LType
<1>1. UNCHANGED <<turns, aggregate, lrequest, spent, overlapped>>
  BY DEF L!Mint, L!Expire, L!Complete, L!exam
<1>2. /\ link' \in [minted : BOOLEAN, expired : BOOLEAN, used : Nat] /\ link'.used = link.used
      /\ session' \in [Row -> [status : {"none", "active", "completed", "purged"}, at : Nat]]
      /\ \A s \in Row : \/ session'[s].status = session[s].status
                        \/ L!Alive(s) /\ session'[s].status = "completed"
  <2>1. CASE L!Mint \/ L!Expire
    BY <1>0, <2>1 DEF L!Mint, L!Expire, L!exam
  <2>2. ASSUME NEW s \in Row, L!Complete(s)
        PROVE  /\ link' = link
               /\ session' \in [Row -> [status : {"none", "active", "completed", "purged"}, at : Nat]]
               /\ \A t \in Row : \/ session'[t].status = session[t].status
                                 \/ L!Alive(t) /\ session'[t].status = "completed"
    BY <1>0, <2>2 DEF L!Complete
  <2> QED BY <1>0, <2>1, <2>2
<1>3. \A s \in Row : session[s].status # "none" => session'[s].status # "none" /\ (L!Alive(s)' => L!Alive(s))
  BY <1>2 DEF L!Alive
<1>4. L!Sessions' = L!Sessions /\ L!Starting' = L!Starting
  BY <1>1, <1>2 DEF L!Sessions, L!Starting, L!Alive, L!At
<1>5. \A x \in Actor : LFit(x)'
  BY <1>1, <1>3, LOther
<1>6. LApart' /\ LTable'
  BY <1>1, LStaysApart, LSameTable
<1> QED BY <1>1, <1>2, <1>4, <1>5, <1>6, LSame DEF LInv, LType

\* The assignment goes, with its sessions and all they have.
LEMMA LDeletes ==
  ASSUME LInv, L!DeleteAssignment
  PROVE  LInv'
<1>0. session \in [Row -> [status : {"none", "active", "completed", "purged"}, at : Nat]]
  BY DEF LInv, LType
<1>1. /\ UNCHANGED <<link, lrequest, spent, overlapped>>
      /\ turns' = [c \in L!Cell |-> <<>>] /\ aggregate' = [c \in L!Cell |-> None]
      /\ session' = [s \in Row |-> IF L!Alive(s) THEN [L!NoSession EXCEPT !.status = "purged"] ELSE session[s]]
  BY DEF L!DeleteAssignment
<1>2. /\ session' \in [Row -> [status : {"none", "active", "completed", "purged"}, at : Nat]]
      /\ \A s \in Row : ~L!Alive(s)' /\ (session'[s].status = "none" <=> session[s].status = "none")
  <2>1. [L!NoSession EXCEPT !.status = "purged"] \in [status : {"none", "active", "completed", "purged"}, at : Nat]
        /\ [L!NoSession EXCEPT !.status = "purged"].status = "purged"
    BY DEF L!NoSession
  <2> DEFINE gone == [L!NoSession EXCEPT !.status = "purged"]
  <2> HIDE DEF gone
  <2> QED BY <1>0, <1>1, <2>1 DEF L!Alive
<1>3. L!Sessions' = L!Sessions /\ L!Starting' = L!Starting
  BY <1>1, <1>2 DEF L!Sessions, L!Starting, L!At
<1>4. turns' \in [L!Cell -> Seq(LTurn)] /\ aggregate' \in [L!Cell -> (SUBSET Concept) \cup {None}]
  BY <1>1
<1>5. \A c \in L!Cell : Len(turns'[c]) = 0 /\ aggregate'[c] = None
  BY <1>1
<1>6. LTable'
  BY <1>5 DEF LTable, LPlain, LHolds
<1>7. ASSUME NEW x \in Actor PROVE LFit(x)'
  <2>1. lrequest'[x] = lrequest[x] /\ \A c \in L!Cell : ~L!Alive(c[1])'
    BY <1>1, <1>2 DEF L!Cell
  <2> QED BY <1>1, <1>2, <2>1, LOther
<1>8. LApart'
  BY <1>1, LStaysApart
<1> QED BY <1>1, <1>2, <1>3, <1>4, <1>6, <1>7, <1>8, LSame DEF LInv, LType

\* The account when a start takes a step: from its consumed attempt to a session, or to nothing.
LEMMA LCountsOne ==
  ASSUME LInv, NEW r \in Actor
  PROVE  /\ IsFiniteSet(L!Starting \cup {r}) /\ IsFiniteSet(L!Starting \ {r})
         /\ r \notin L!Starting => Cardinality(L!Starting \cup {r}) = Cardinality(L!Starting) + 1
         /\ r \in L!Starting => Cardinality(L!Starting \ {r}) = Cardinality(L!Starting) - 1
         /\ Cardinality(L!Starting) \in Nat /\ Cardinality(L!Sessions) \in Nat
         /\ \A s : s \notin L!Sessions =>
              IsFiniteSet(L!Sessions \cup {s}) /\ Cardinality(L!Sessions \cup {s}) = Cardinality(L!Sessions) + 1
<1>1. IsFiniteSet(L!Starting) /\ IsFiniteSet(L!Sessions)
  BY DEF LInv, LFinite
<1> QED BY <1>1, FS_AddElement, FS_RemoveElement, FS_CardinalityType

\* The account is right when what is added on one side is added on the other.
LEMMA LAccount ==
  ASSUME LInv, link'.used \in Nat, link'.used <= MaxAttempts, IsFiniteSet(L!Sessions'), IsFiniteSet(L!Starting'), spent' \in Nat,
         NEW du \in Int, NEW ds \in Int, NEW di \in Int, NEW dx \in Int, du = ds + di + dx,
         link'.used = link.used + du, spent' = spent + dx,
         Cardinality(L!Sessions') = Cardinality(L!Sessions) + ds, Cardinality(L!Starting') = Cardinality(L!Starting) + di
  PROVE  LFinite' /\ L!AttemptsAccounted'
<1>1. /\ link.used \in Nat /\ spent \in Nat /\ Cardinality(L!Sessions) \in Nat /\ Cardinality(L!Starting) \in Nat
      /\ link.used = Cardinality(L!Sessions) + Cardinality(L!Starting) + spent
  BY LCounts, FS_CardinalityType DEF LInv, LType, LFinite, L!AttemptsAccounted
<1>2. link'.used = Cardinality(L!Sessions') + Cardinality(L!Starting') + spent'
  BY <1>1
<1>3. L!Cardinality(L!Sessions') = Cardinality(L!Sessions') /\ L!Cardinality(L!Starting') = Cardinality(L!Starting')
  BY LCounts
<1> QED BY <1>2, <1>3 DEF LFinite, L!AttemptsAccounted

\* demo_start.
LEMMA LStarts ==
  ASSUME LInv, NEW r \in Actor,
         L!Start(r) \/ L!Consume(r) \/ L!InsertFails(r) \/ \E s \in Row : L!Insert(r, s)
  PROVE  LInv'
<1> DEFINE q == lrequest'[r]
<1>0. /\ link \in [minted : BOOLEAN, expired : BOOLEAN, used : Nat] /\ spent \in Nat
      /\ session \in [Row -> [status : {"none", "active", "completed", "purged"}, at : Nat]]
      /\ lrequest \in [Actor -> LRequest] /\ lrequest[r] \in LRequest
  BY DEF LInv, LType
<1>1. UNCHANGED <<turns, aggregate, overlapped>>
  BY DEF L!Start, L!Consume, L!InsertFails, L!Insert, L!exam
<1>2. /\ lrequest' = [lrequest EXCEPT ![r] = q] /\ q \in LRequest /\ q.pc \in {"idle", "consume", "insert"}
      /\ lrequest[r].pc \in {"idle", "consume", "insert"}
      /\ \A x \in Actor \ {r} : lrequest'[x] = lrequest[x]
  <2>1. CASE L!Start(r)
    <3>1. lrequest[r].pc = "idle" /\ lrequest' = [lrequest EXCEPT ![r] = [lrequest[r] EXCEPT !.pc = "consume"]]
      BY <2>1 DEF L!Start, L!At, L!Goto
    <3> QED BY <1>0, <3>1 DEF LRequest
  <2>2. CASE /\ lrequest[r].pc \in {"consume", "insert"}
             /\ lrequest' = [lrequest EXCEPT ![r] = L!Idle]
    BY <1>0, <2>2, LResting
  <2>3. CASE lrequest[r].pc = "consume" /\ lrequest' = [lrequest EXCEPT ![r] = [lrequest[r] EXCEPT !.pc = "insert"]]
    BY <1>0, <2>3 DEF LRequest
  <2>4. CASE L!Consume(r)
    BY <2>2, <2>3, <2>4 DEF L!Consume, L!At, L!Goto, L!End
  <2> QED BY <2>1, <2>2, <2>4 DEF L!InsertFails, L!Insert, L!At, L!End
<1> HIDE DEF q
<1>3. /\ session' \in [Row -> [status : {"none", "active", "completed", "purged"}, at : Nat]]
      /\ \A s \in Row : session[s].status # "none" => session'[s] = session[s]
  <2>1. CASE session' = session
    BY <1>0, <2>1
  <2>2. ASSUME NEW s \in Row, L!Insert(r, s)
        PROVE  session' = [session EXCEPT ![s] = [session[s] EXCEPT !.status = "active"]] /\ session[s].status = "none"
    BY <2>2 DEF L!Insert
  <2>3. CASE \E s \in Row : L!Insert(r, s)
    <3>1. PICK s \in Row : L!Insert(r, s)
      BY <2>3
    <3>2. [session[s] EXCEPT !.status = "active"] \in [status : {"none", "active", "completed", "purged"}, at : Nat]
      BY <1>0
    <3> QED BY <1>0, <2>2, <3>1, <3>2
  <2> QED BY <2>1, <2>3 DEF L!Start, L!Consume, L!InsertFails, L!exam
<1>4. \A s \in Row : session[s].status # "none" => session'[s].status # "none" /\ (L!Alive(s)' => L!Alive(s))
  BY <1>3 DEF L!Alive
<1>5. lrequest' \in [Actor -> LRequest] /\ (\A x \in Actor : LFit(x)') /\ LApart' /\ LTable'
  <2>1. LFit(r)'
    BY <1>2 DEF LFit, LWork, q
  <2>2. q.pc \notin LWork
    BY <1>2 DEF LWork
  <2> QED BY <1>1, <1>2, <1>4, <2>1, <2>2, LLocal
<1>6. \A x \in Actor \ {r} : x \in L!Starting' <=> x \in L!Starting
  BY <1>2 DEF L!Starting, L!At
<1>7. (r \in L!Starting <=> lrequest[r].pc = "insert") /\ (r \in L!Starting' <=> q.pc = "insert")
      /\ L!Starting \subseteq Actor /\ L!Starting' \subseteq Actor
  BY DEF L!Starting, L!At, q
<1>8. link' \in [minted : BOOLEAN, expired : BOOLEAN, used : Nat] /\ spent' \in Nat /\ LFinite' /\ L!AttemptsAccounted'
  <2>1. CASE L!Start(r)
    <3>1. UNCHANGED <<link, session, spent>> /\ lrequest[r].pc = "idle" /\ q.pc = "consume"
      BY <1>0, <2>1 DEF L!Start, L!At, L!Goto, L!exam, LRequest, q
    <3>2. L!Sessions' = L!Sessions /\ L!Starting' = L!Starting
      BY <1>6, <1>7, <3>1 DEF L!Sessions
    <3> QED BY <1>0, <3>1, <3>2, LSame
  <2>2. CASE L!Consume(r)
    <3>1. UNCHANGED session /\ lrequest[r].pc = "consume"
      BY <2>2 DEF L!Consume, L!At, L!exam
    <3>2. L!Sessions' = L!Sessions
      BY <3>1 DEF L!Sessions
    <3>3. CASE UNCHANGED <<link, spent>> /\ q = L!Idle
      <4>1. L!Starting' = L!Starting
        BY <1>6, <1>7, <3>1, <3>3, LResting
      <4> QED BY <1>0, <3>2, <3>3, <4>1, LSame
    <3>4. CASE /\ link.used # MaxAttempts /\ link' = [link EXCEPT !.used = link.used + 1]
               /\ \/ q = [lrequest[r] EXCEPT !.pc = "insert"] /\ spent' = spent
                  \/ q = L!Idle /\ spent' = spent + 1
      <4>1. link' \in [minted : BOOLEAN, expired : BOOLEAN, used : Nat] /\ link'.used = link.used + 1
            /\ link'.used <= MaxAttempts /\ spent' \in Nat
        BY <1>0, <3>4, LConstants DEF LInv, L!AttemptsAccounted
      <4>2. \/ L!Starting' = L!Starting \cup {r} /\ spent' = spent
            \/ L!Starting' = L!Starting /\ spent' = spent + 1
        <5>1. (q.pc = "insert" /\ spent' = spent) \/ (q.pc = "idle" /\ spent' = spent + 1)
          BY <1>0, <3>4, LResting DEF LRequest
        <5>2. q.pc = "insert" => L!Starting' = L!Starting \cup {r}
          BY <1>6, <1>7
        <5>3. q.pc = "idle" => L!Starting' = L!Starting
          BY <1>6, <1>7, <3>1
        <5> QED BY <5>1, <5>2, <5>3
      <4>3. r \notin L!Starting
        BY <1>7, <3>1
      <4>4. /\ IsFiniteSet(L!Sessions') /\ Cardinality(L!Sessions') = Cardinality(L!Sessions) + 0
            /\ IsFiniteSet(L!Starting')
            /\ \/ Cardinality(L!Starting') = Cardinality(L!Starting) + 1 /\ spent' = spent + 0
               \/ Cardinality(L!Starting') = Cardinality(L!Starting) + 0 /\ spent' = spent + 1
        <5>1. IsFiniteSet(L!Sessions) /\ IsFiniteSet(L!Starting) /\ Cardinality(L!Starting) \in Nat
              /\ Cardinality(L!Sessions) \in Nat
          BY LCountsOne DEF LInv, LFinite
        <5>2. CASE L!Starting' = L!Starting \cup {r} /\ spent' = spent
          <6>1. IsFiniteSet(L!Starting') /\ Cardinality(L!Starting') = Cardinality(L!Starting) + 1
            BY <4>3, <5>2, LCountsOne
          <6> QED BY <1>0, <3>2, <5>1, <5>2, <6>1
        <5>3. CASE L!Starting' = L!Starting /\ spent' = spent + 1
          BY <1>0, <3>2, <5>1, <5>3
        <5> QED BY <4>2, <5>2, <5>3
      <4> QED BY <4>1, <4>4, LAccount, 1 = 0 + 1 + 0, 1 = 0 + 0 + 1
    <3> QED BY <1>0, <2>2, <3>3, <3>4 DEF L!Consume, L!Goto, L!End, q
  <2>3. CASE L!InsertFails(r)
    <3>1. UNCHANGED <<link, session>> /\ lrequest[r].pc = "insert" /\ q = L!Idle /\ spent' = spent + 1
      BY <1>0, <2>3 DEF L!InsertFails, L!At, L!End, L!exam, q
    <3>2. L!Sessions' = L!Sessions /\ L!Starting' = L!Starting \ {r} /\ r \in L!Starting
      BY <1>6, <1>7, <3>1, LResting DEF L!Sessions
    <3>3. /\ IsFiniteSet(L!Sessions') /\ Cardinality(L!Sessions') = Cardinality(L!Sessions) + 0
          /\ IsFiniteSet(L!Starting') /\ Cardinality(L!Starting') = Cardinality(L!Starting) + (-1)
          /\ spent' = spent + 1 /\ spent' \in Nat /\ link'.used = link.used + 0
      BY <1>0, <3>1, <3>2, LCountsOne DEF LInv, LFinite
    <3>4. link'.used \in Nat /\ link'.used <= MaxAttempts
      BY <1>0, <3>1 DEF LInv, L!AttemptsAccounted
    <3> QED BY <1>0, <3>1, <3>3, <3>4, LAccount, 0 = 0 + (-1) + 1
  <2>4. CASE \E s \in Row : L!Insert(r, s)
    <3>1. PICK s \in Row : L!Insert(r, s)
      BY <2>4
    <3>2. UNCHANGED <<link, spent>> /\ lrequest[r].pc = "insert" /\ q = L!Idle /\ session[s].status = "none"
          /\ session' = [session EXCEPT ![s] = [session[s] EXCEPT !.status = "active"]]
      BY <1>0, <3>1 DEF L!Insert, L!At, L!End, q
    <3>3. L!Sessions' = L!Sessions \cup {s} /\ s \notin L!Sessions
      BY <1>0, <3>2 DEF L!Sessions
    <3>4. L!Starting' = L!Starting \ {r} /\ r \in L!Starting
      BY <1>6, <1>7, <3>2, LResting
    <3>5. /\ IsFiniteSet(L!Sessions') /\ Cardinality(L!Sessions') = Cardinality(L!Sessions) + 1
          /\ IsFiniteSet(L!Starting') /\ Cardinality(L!Starting') = Cardinality(L!Starting) + (-1)
          /\ spent' = spent + 0 /\ spent' \in Nat /\ link'.used = link.used + 0
      <4>1. IsFiniteSet(L!Sessions') /\ Cardinality(L!Sessions') = Cardinality(L!Sessions) + 1
        BY <3>3, LCountsOne
      <4>2. IsFiniteSet(L!Starting') /\ Cardinality(L!Starting') = Cardinality(L!Starting) + (-1)
        BY <3>4, LCountsOne
      <4> QED BY <1>0, <3>2, <4>1, <4>2
    <3>6. link'.used \in Nat /\ link'.used <= MaxAttempts
      BY <1>0, <3>2 DEF LInv, L!AttemptsAccounted
    <3> QED BY <1>0, <3>2, <3>5, <3>6, LAccount, 0 = 1 + (-1) + 0
  <2> QED BY <2>1, <2>2, <2>3, <2>4
<1> QED BY <1>1, <1>3, <1>5, <1>8 DEF LInv, LType

\* A step of a submit neither starts a session nor stops starting one.
LEMMA LNoStart ==
  ASSUME LInv, NEW r \in Actor, \A x \in Actor \ {r} : lrequest'[x] = lrequest[x],
         lrequest[r].pc # "insert", lrequest'[r].pc # "insert"
  PROVE  L!Starting' = L!Starting
BY DEF L!Starting, L!At

\* demo_answer comes to a cell.
LEMMA LAnswers ==
  ASSUME LInv, NEW r \in Actor, NEW c \in L!Cell, L!Answer(r, c)
  PROVE  LInv'
<1> DEFINE q == [L!Idle EXCEPT !.pc = "count", !.cell = c]
<1>0. lrequest \in [Actor -> LRequest] /\ c[1] \in Row
  BY DEF LInv, LType, L!Cell
<1>1. q \in LRequest /\ q.pc = "count" /\ q.cell = c
  BY DEF L!Idle, LRequest, LWork
<1>2. /\ lrequest[r].pc = "idle" /\ L!Alive(c[1]) /\ lrequest' = [lrequest EXCEPT ![r] = q]
      /\ overlapped' = IF L!AtCell(c) # {} THEN overlapped \cup {c} ELSE overlapped
      /\ UNCHANGED <<link, assignment, session, turns, aggregate, spent>>
  BY DEF L!Answer, L!At, L!exam
<1> HIDE DEF q
<1>3. lrequest' \in [Actor -> LRequest] /\ lrequest'[r] = q /\ \A x \in Actor \ {r} : lrequest'[x] = lrequest[x]
  BY <1>0, <1>1, <1>2
<1>4. overlapped \subseteq overlapped' /\ \A x \in Actor : lrequest[x].cell = c => c \in overlapped'
  BY <1>2 DEF L!AtCell
<1>5. L!Sessions' = L!Sessions /\ L!Starting' = L!Starting
  BY <1>1, <1>2, <1>3, LNoStart DEF L!Sessions
<1>6. ASSUME NEW x \in Actor PROVE LFit(x)'
  <2>1. CASE x = r
    <3>1. session'[c[1]].status # "none"
      BY <1>2 DEF L!Alive
    <3>2. lrequest'[x].pc = "count" /\ lrequest'[x].cell = c
      BY <1>1, <1>3, <2>1
    <3> QED BY <3>1, <3>2 DEF LFit, LPlace
  <2>2. CASE x # r
    BY <1>2, <1>3, <1>4, <2>2, LOther DEF L!Alive
  <2> QED BY <2>1, <2>2
<1>7. LApart'
  <2> SUFFICES ASSUME NEW x \in Actor, NEW y \in Actor, x # y, lrequest'[x].pc \in LWork, lrequest'[y].pc \in LWork,
                      lrequest'[x].cell = lrequest'[y].cell
               PROVE  lrequest'[x].cell \in overlapped'
    BY DEF LApart
  <2>1. CASE x = r \/ y = r
    BY <1>1, <1>3, <1>4, <2>1
  <2>2. CASE x # r /\ y # r
    BY <1>3, <1>4, <2>2 DEF LInv, LApart
  <2> QED BY <2>1, <2>2
<1>8. LTable'
  BY <1>2, <1>4, LSameTable
<1> QED BY <1>2, <1>3, <1>5, <1>6, <1>7, <1>8, LSame DEF LInv, LType

\* Its sub-turn's number, the model's verdict, and an end without a write.
LEMMA LThinks ==
  ASSUME LInv, NEW r \in Actor,
         L!Count(r) \/ L!Aborts(r) \/ \E nodes \in SUBSET Concept : L!Evaluate(r, nodes)
  PROVE  LInv'
<1> DEFINE c == lrequest[r].cell
           q == lrequest'[r]
<1>0. lrequest \in [Actor -> LRequest] /\ lrequest[r] \in LRequest
  BY DEF LInv, LType
<1>1. UNCHANGED <<link, assignment, session, turns, aggregate, spent, overlapped>> /\ lrequest[r].pc \in LWork
  BY DEF L!Count, L!Aborts, L!Evaluate, L!exam, L!At, LWork
<1>2. c \in L!Cell /\ c[1] \in Row /\ turns[c] \in Seq(LTurn) /\ Len(turns[c]) \in Nat
      /\ (L!Alive(c[1]) => LPlace(lrequest[r], turns[c], c \notin overlapped))
  BY <1>1 DEF LInv, LType, LFit, L!Cell
<1>3. /\ lrequest' = [lrequest EXCEPT ![r] = q] /\ q \in LRequest /\ q.pc \in {"idle"} \cup LWork
      /\ q.pc \in LWork => q.cell = c /\ (L!Alive(c[1]) => LPlace(q, turns[c], c \notin overlapped))
  <2>1. CASE L!Aborts(r)
    BY <1>0, <2>1, LResting DEF L!Aborts, L!End, LWork
  <2>2. CASE L!Count(r)
    <3> DEFINE n == Len(turns[c]) + 1
               w == [lrequest[r] EXCEPT !.pc = "upsert", !.sub = n]
    <3>0. n \in Nat
      BY <1>2
    <3>1. lrequest' = [lrequest EXCEPT ![r] = w]
      BY <2>2 DEF L!Count
    <3> HIDE DEF n
    <3>2. w \in LRequest /\ w.pc = "upsert" /\ w.cell = c /\ w.sub = n
      BY <1>0, <3>0 DEF LRequest, LWork
    <3> HIDE DEF w
    <3> USE DEF n
    <3>3. LPlace(w, turns[c], c \notin overlapped)
      BY <1>2, <3>2 DEF LPlace
    <3> QED BY <1>0, <3>1, <3>2, <3>3 DEF LWork
  <2>3. ASSUME NEW nodes \in SUBSET Concept, L!Evaluate(r, nodes)
        PROVE  /\ lrequest' = [lrequest EXCEPT ![r] = q] /\ q \in LRequest /\ q.pc \in LWork /\ q.cell = c
               /\ (L!Alive(c[1]) => LPlace(q, turns[c], c \notin overlapped))
    <3> DEFINE others == UNION {turns[c][k].nodes : k \in DOMAIN turns[c] \ {lrequest[r].sub}}
               w == [lrequest[r] EXCEPT !.pc = "store", !.own = nodes, !.seen = others]
    <3>1. lrequest' = [lrequest EXCEPT ![r] = w] /\ lrequest[r].pc = "evaluate"
      BY <2>3 DEF L!Evaluate, L!At
    <3>2. DOMAIN turns[c] = 1 .. Len(turns[c])
      BY <1>2
    <3>3. others \subseteq Concept /\ others = UNION {turns[c][k].nodes : k \in 1 .. Len(turns[c]) \ {lrequest[r].sub}}
      <4>1. \A k \in 1 .. Len(turns[c]) : turns[c][k].nodes \subseteq Concept
        BY <1>2, LRows
      <4> QED BY <3>2, <4>1
    <3> HIDE DEF others
    <3>4. w \in LRequest /\ w.pc = "store" /\ w.cell = c /\ w.sub = lrequest[r].sub /\ w.seen = others
      BY <1>0, <3>3 DEF LRequest, LWork
    <3> HIDE DEF w
    <3>5. L!Alive(c[1]) => LPlace(w, turns[c], c \notin overlapped)
      BY <1>2, <3>1, <3>3, <3>4 DEF LPlace
    <3> QED BY <1>0, <3>1, <3>4, <3>5 DEF LWork
  <2> QED BY <2>1, <2>2, <2>3
<1>4. lrequest'[r] = q /\ \A x \in Actor \ {r} : lrequest'[x] = lrequest[x]
  BY <1>0, <1>3
<1>5. L!Sessions' = L!Sessions /\ L!Starting' = L!Starting
  BY <1>1, <1>3, <1>4, LNoStart DEF L!Sessions, LWork
<1>6. LFit(r)'
  BY <1>1, <1>2, <1>3 DEF LFit, LInv, L!Alive
<1> HIDE DEF q
<1>7. lrequest' \in [Actor -> LRequest] /\ (\A x \in Actor : LFit(x)') /\ LApart' /\ LTable'
  BY <1>1, <1>3, <1>6, LLocal DEF L!Alive
<1> QED BY <1>1, <1>5, <1>7, LSame DEF LInv, LType

\* A step that writes one cell's rows.
LEMMA LWrites ==
  ASSUME LInv, NEW r \in Actor, NEW c \in L!Cell, lrequest[r].cell = c, lrequest[r].pc \in LWork,
         NEW rows \in Seq(LTurn), turns' = [turns EXCEPT ![c] = rows], Len(rows) >= Len(turns[c]),
         NEW seen \in (SUBSET Concept) \cup {None}, aggregate' = [aggregate EXCEPT ![c] = seen],
         NEW q \in LRequest, lrequest' = [lrequest EXCEPT ![r] = q],
         q.pc = "idle" \/ (q.pc = "evaluate" /\ q.cell = c /\ q.sub \in 1 .. Len(rows)),
         session' \in [Row -> [status : {"none", "active", "completed", "purged"}, at : Nat]],
         \A s \in Row : session'[s].status = session[s].status,
         UNCHANGED <<link, spent, overlapped>>,
         \A k \in 1 .. Len(rows) : rows[k].by # "eds" => rows[k].nodes = {},
         c \notin overlapped => LHolds(rows, seen)
  PROVE  LInv'
<1>0. lrequest \in [Actor -> LRequest] /\ c[1] \in Row /\ turns \in [L!Cell -> Seq(LTurn)]
      /\ aggregate \in [L!Cell -> (SUBSET Concept) \cup {None}]
  BY DEF LInv, LType, L!Cell
<1>1. /\ lrequest' \in [Actor -> LRequest] /\ lrequest'[r] = q
      /\ \A x \in Actor \ {r} : lrequest'[x] = lrequest[x]
  BY <1>0
<1>2. /\ turns' \in [L!Cell -> Seq(LTurn)] /\ turns'[c] = rows /\ \A d \in L!Cell \ {c} : turns'[d] = turns[d]
      /\ aggregate' \in [L!Cell -> (SUBSET Concept) \cup {None}] /\ aggregate'[c] = seen
      /\ \A d \in L!Cell \ {c} : aggregate'[d] = aggregate[d]
  BY <1>0
<1>3. L!Sessions' = L!Sessions /\ L!Starting' = L!Starting
  BY <1>1, LNoStart DEF L!Sessions, LWork
<1>4. ASSUME NEW x \in Actor PROVE LFit(x)'
  <2>1. CASE x = r
    <3>1. q.pc \in LWork => q.pc = "evaluate" /\ q.cell = c /\ LPlace(q, rows, c \notin overlapped)
      BY DEF LWork, LPlace
    <3>2. session'[c[1]].status # "none"
      BY <1>0 DEF LInv, LFit
    <3> QED BY <1>1, <1>2, <2>1, <3>1, <3>2 DEF LFit
  <2>2. CASE x # r
    <3>1. \A d \in L!Cell : lrequest[x].cell = d /\ lrequest[x].pc \in LWork =>
            \/ turns'[d] = turns[d]
            \/ d \in overlapped /\ Len(turns'[d]) >= Len(turns[d]) /\ Len(turns'[d]) \in Nat
      BY <1>2, <2>2, LRows DEF LInv, LApart
    <3> QED BY <1>1, <2>2, <3>1, LOther DEF L!Alive
  <2> QED BY <2>1, <2>2
<1>5. LApart'
  BY <1>1, LStaysApart DEF LWork
<1>6. LTable'
  <2>1. LPlain'
    BY <1>2 DEF LInv, LTable, LPlain
  <2>2. \A d \in L!Cell \ overlapped : LHolds(turns'[d], aggregate'[d])
    BY <1>2 DEF LInv, LTable
  <2> QED BY <2>1, <2>2 DEF LTable
<1> QED BY <1>1, <1>2, <1>3, <1>4, <1>5, <1>6, LSame DEF LInv, LType

\* Where a submit that writes is.
LEMMA LHere ==
  ASSUME LInv, NEW r \in Actor, lrequest[r].pc \in LWork
  PROVE  LET c == lrequest[r].cell
         IN /\ lrequest[r] \in LRequest /\ c \in L!Cell /\ c[1] \in Row /\ c[2] \in Nat
            /\ turns[c] \in Seq(LTurn) /\ turns \in [L!Cell -> Seq(LTurn)]
            /\ (\A k \in 1 .. Len(turns[c]) : turns[c][k].by # "eds" => turns[c][k].nodes = {})
            /\ aggregate[c] \in (SUBSET Concept) \cup {None} /\ aggregate = [aggregate EXCEPT ![c] = aggregate[c]]
            /\ c \notin overlapped => LHolds(turns[c], aggregate[c])
            /\ L!Alive(c[1]) => LPlace(lrequest[r], turns[c], c \notin overlapped)
            /\ session \in [Row -> [status : {"none", "active", "completed", "purged"}, at : Nat]]
BY LConstants DEF LInv, LType, LFit, LTable, LPlain, L!Cell

\* The answer's row, at the end of the others or over the one that is there.
LEMMA LUpserts ==
  ASSUME LInv, NEW r \in Actor, L!Upsert(r)
  PROVE  LInv'
<1> DEFINE c == lrequest[r].cell
           n == lrequest[r].sub
           old == turns[c]
           rows == IF n > Len(old) THEN Append(old, L!Unscored) ELSE old
           q == [lrequest[r] EXCEPT !.pc = "evaluate"]
           at == L!Max({session[c[1]].at, c[2] + 1})
<1>0. lrequest[r].pc = "upsert" /\ lrequest[r].pc \in LWork /\ L!Alive(c[1])
  BY DEF L!Upsert, L!At, LWork
<1>1. /\ turns' = [turns EXCEPT ![c] = rows] /\ lrequest' = [lrequest EXCEPT ![r] = q]
      /\ session' = [session EXCEPT ![c[1]] = [session[c[1]] EXCEPT !.at = at]]
      /\ UNCHANGED <<link, aggregate, spent, overlapped>>
  BY DEF L!Upsert, L!Goto
<1>2. c \in L!Cell /\ c[1] \in Row /\ c[2] \in Nat /\ old \in Seq(LTurn) /\ n \in 1 .. Len(old) + 1
      /\ session \in [Row -> [status : {"none", "active", "completed", "purged"}, at : Nat]]
  BY <1>0, LHere DEF LPlace
<1>3. /\ rows \in Seq(LTurn) /\ Len(rows) >= Len(old) /\ n \in 1 .. Len(rows)
      /\ Len(rows) \in {Len(old), Len(old) + 1}
      /\ \A k \in 1 .. Len(rows) : IF k \in 1 .. Len(old) THEN rows[k] = old[k] ELSE rows[k] = L!Unscored
  <2>1. L!Unscored \in LTurn
    BY DEF L!Unscored, LTurn
  <2> HIDE DEF old
  <2> QED BY <1>2, <2>1, LRows
<1>4. q \in LRequest /\ q.pc = "evaluate" /\ q.cell = c /\ q.sub = n
  BY <1>0, LHere DEF LRequest, LWork
<1>5. /\ session' \in [Row -> [status : {"none", "active", "completed", "purged"}, at : Nat]]
      /\ \A s \in Row : session'[s].status = session[s].status
  <2>1. at \in Nat
    <3> DEFINE i == session[c[1]].at
               j == c[2] + 1
    <3>1. i \in Nat /\ j \in Nat
      BY <1>2
    <3> HIDE DEF i, j
    <3>2. \E x \in {i, j} : \A y \in {i, j} : x >= y
      BY <3>1
    <3>3. L!Max({i, j}) \in {i, j}
      BY <3>2 DEF L!Max
    <3> QED BY <3>1, <3>3 DEF i, j
  <2> HIDE DEF at
  <2> QED BY <1>1, <1>2, <2>1
<1>6. L!Unscored.by = "none" /\ L!Unscored.nodes = {}
  BY DEF L!Unscored
<1>7. \A k \in 1 .. Len(rows) : rows[k].by # "eds" => rows[k].nodes = {}
  BY <1>0, <1>3, <1>6, LHere
<1>8. c \notin overlapped => LHolds(rows, aggregate[c])
  <2> HIDE DEF rows, old
  <2> SUFFICES ASSUME c \notin overlapped PROVE LHolds(rows, aggregate[c])
    OBVIOUS
  <2>1. LHolds(old, aggregate[c])
    BY <1>0, LHere DEF old
  <2>2. {k \in 1 .. Len(rows) : rows[k].by = "eds"} = {k \in 1 .. Len(old) : old[k].by = "eds"}
    BY <1>2, <1>3, <1>6, LRows
  <2>3. \A k \in {i \in 1 .. Len(old) : old[i].by = "eds"} : rows[k].nodes = old[k].nodes
    BY <1>2, <1>3, LRows
  <2> QED BY <2>1, <2>2, <2>3 DEF LHolds
<1>9. /\ aggregate[c] \in (SUBSET Concept) \cup {None} /\ aggregate' = [aggregate EXCEPT ![c] = aggregate[c]]
      /\ q.pc = "evaluate" /\ q.cell = c /\ q.sub \in 1 .. Len(rows)
      /\ lrequest[r].cell = c /\ Len(rows) >= Len(turns[c])
  BY <1>0, <1>1, <1>3, <1>4, LHere
<1>10. UNCHANGED <<link, spent, overlapped>> /\ c \in L!Cell
  BY <1>1, <1>2
<1>11. turns' = [turns EXCEPT ![c] = rows] /\ lrequest' = [lrequest EXCEPT ![r] = q]
  BY <1>1
<1> HIDE DEF rows, q, n, at, c, old
<1> QED BY <1>0, <1>3, <1>4, <1>5, <1>7, <1>8, <1>9, <1>10, <1>11, LWrites

\* One row of a sequence replaced.
LEMMA LReplaces ==
  ASSUME NEW old \in Seq(LTurn), NEW k \in 1 .. Len(old), NEW e \in LTurn
  PROVE  LET rows == [old EXCEPT ![k] = e]
         IN /\ rows \in Seq(LTurn) /\ Len(rows) = Len(old) /\ rows[k] = e
            /\ \A i \in 1 .. Len(old) : i # k => rows[i] = old[i]
OBVIOUS

\* A verdict without a path: a row scored against the path stays one.
LEMMA LStoresPlain ==
  ASSUME LInv, NEW r \in Actor, L!StorePlain(r)
  PROVE  LInv'
<1> DEFINE c == lrequest[r].cell
           k == lrequest[r].sub
           old == turns[c]
           e == [old[k] EXCEPT !.by = IF old[k].by = "eds" THEN "eds" ELSE "plain"]
           rows == [old EXCEPT ![k] = e]
<1>0. lrequest[r].pc = "evaluate" /\ lrequest[r].pc \in LWork /\ L!Alive(c[1])
  BY DEF L!StorePlain, L!At, LWork
<1>1. turns' = [turns EXCEPT ![c] = rows] /\ lrequest' = [lrequest EXCEPT ![r] = L!Idle]
      /\ UNCHANGED <<link, session, aggregate, spent, overlapped>>
  BY DEF L!StorePlain, L!End
<1>2. c \in L!Cell /\ old \in Seq(LTurn) /\ k \in 1 .. Len(old) /\ old[k] \in LTurn /\ lrequest[r].cell = c
      /\ session \in [Row -> [status : {"none", "active", "completed", "purged"}, at : Nat]]
  BY <1>0, LHere, LRows DEF LPlace
<1>3. e \in LTurn /\ e.nodes = old[k].nodes /\ (e.by = "eds" <=> old[k].by = "eds")
  <2> HIDE DEF old, k
  <2> QED BY <1>2 DEF LTurn
<1>4. aggregate[c] \in (SUBSET Concept) \cup {None} /\ aggregate' = [aggregate EXCEPT ![c] = aggregate[c]]
  BY <1>0, <1>1, LHere
<1>5. /\ rows \in Seq(LTurn) /\ Len(rows) = Len(old)
      /\ \A i \in 1 .. Len(rows) : rows[i].nodes = old[i].nodes /\ (rows[i].by = "eds" <=> old[i].by = "eds")
  <2> HIDE DEF e, k, old
  <2> QED BY <1>2, <1>3, LReplaces
<1>6. \A i \in 1 .. Len(rows) : rows[i].by # "eds" => rows[i].nodes = {}
  <2>1. \A i \in 1 .. Len(old) : old[i].by # "eds" => old[i].nodes = {}
    BY <1>0, LHere
  <2> HIDE DEF rows, old
  <2> QED BY <1>5, <2>1
<1>7. c \notin overlapped => LHolds(rows, aggregate[c])
  <2> SUFFICES ASSUME c \notin overlapped PROVE LHolds(rows, aggregate[c])
    OBVIOUS
  <2>1. LHolds(old, aggregate[c])
    BY <1>0, LHere DEF old
  <2> HIDE DEF rows, old
  <2>2. {i \in 1 .. Len(rows) : rows[i].by = "eds"} = {i \in 1 .. Len(old) : old[i].by = "eds"}
    BY <1>5
  <2>3. \A i \in {j \in 1 .. Len(old) : old[j].by = "eds"} : rows[i].nodes = old[i].nodes
    BY <1>5
  <2> QED BY <2>1, <2>2, <2>3 DEF LHolds
<1>8. session' \in [Row -> [status : {"none", "active", "completed", "purged"}, at : Nat]]
      /\ UNCHANGED <<link, spent, overlapped>> /\ (\A s \in Row : session'[s].status = session[s].status)
      /\ turns' = [turns EXCEPT ![c] = rows] /\ lrequest' = [lrequest EXCEPT ![r] = L!Idle]
      /\ rows \in Seq(LTurn)
  BY <1>1, <1>2, <1>5
<1>9. Len(rows) >= Len(turns[c])
  <2> HIDE DEF rows
  <2> QED BY <1>2, <1>5, LRows
<1> HIDE DEF c, k, old, e, rows
<1> QED BY <1>0, <1>2, <1>4, <1>6, <1>7, <1>8, <1>9, LResting, LWrites

\* The evaluation against the path and the aggregate, both or neither.
LEMMA LStores ==
  ASSUME LInv, NEW r \in Actor, NEW fails \in BOOLEAN, L!Store(r, fails)
  PROVE  LInv'
<1> DEFINE c == lrequest[r].cell
           k == lrequest[r].sub
           old == turns[c]
           all == lrequest[r].seen \cup lrequest[r].own
           e == [by |-> "eds", nodes |-> lrequest[r].own]
           rows == [old EXCEPT ![k] = e]
<1>0. lrequest[r].pc = "store" /\ lrequest[r].pc \in LWork /\ L!Alive(c[1])
      /\ lrequest' = [lrequest EXCEPT ![r] = L!Idle] /\ UNCHANGED <<link, session, spent, overlapped>>
  BY DEF L!Store, L!At, L!End, LWork
<1>1. \/ UNCHANGED <<turns, aggregate>>
      \/ turns' = [turns EXCEPT ![c] = rows] /\ aggregate' = [aggregate EXCEPT ![c] = all]
  BY DEF L!Store, L!Scored
<1>2. c \in L!Cell /\ old \in Seq(LTurn) /\ k \in 1 .. Len(old) /\ lrequest[r].cell = c
      /\ session \in [Row -> [status : {"none", "active", "completed", "purged"}, at : Nat]]
      /\ lrequest[r].own \subseteq Concept /\ lrequest[r].seen \subseteq Concept
      /\ (c \notin overlapped => lrequest[r].seen = UNION {old[i].nodes : i \in 1 .. Len(old) \ {k}})
      /\ \A i \in 1 .. Len(old) : old[i].by # "eds" => old[i].nodes = {}
  BY <1>0, LHere DEF LPlace, LRequest
<1>3. CASE UNCHANGED <<turns, aggregate>>
  <2>1. aggregate[c] \in (SUBSET Concept) \cup {None} /\ aggregate' = [aggregate EXCEPT ![c] = aggregate[c]]
        /\ (c \notin overlapped => LHolds(old, aggregate[c]))
    BY <1>0, <1>3, LHere
  <2>2. turns' = [turns EXCEPT ![c] = old] /\ Len(old) >= Len(turns[c])
    BY <1>0, <1>2, <1>3, LHere, LRows
  <2>3. /\ \A s \in Row : session'[s].status = session[s].status
        /\ session' \in [Row -> [status : {"none", "active", "completed", "purged"}, at : Nat]]
    BY <1>0, <1>2
  <2> HIDE DEF c, k, old, e, rows, all
  <2> QED BY <1>0, <1>2, <2>1, <2>2, <2>3, LResting, LWrites
<1>4. CASE turns' = [turns EXCEPT ![c] = rows] /\ aggregate' = [aggregate EXCEPT ![c] = all]
  <2>1. e \in LTurn /\ e.by = "eds" /\ e.nodes = lrequest[r].own
    BY <1>2 DEF LTurn
  <2>2. /\ rows \in Seq(LTurn) /\ Len(rows) = Len(old) /\ rows[k] = e
        /\ \A i \in 1 .. Len(old) : i # k => rows[i] = old[i]
    <3> HIDE DEF e, k, old
    <3> QED BY <1>2, <2>1, LReplaces
  <2>3. \A i \in 1 .. Len(rows) : rows[i].by # "eds" => rows[i].nodes = {}
    <3> HIDE DEF rows, old, e, k
    <3> QED BY <1>2, <2>1, <2>2
  <2>4. c \notin overlapped => LHolds(rows, all)
    <3> SUFFICES ASSUME c \notin overlapped PROVE LHolds(rows, all)
      OBVIOUS
    <3> DEFINE found == {i \in 1 .. Len(rows) : rows[i].by = "eds"}
    <3>1. k \in found /\ lrequest[r].seen = UNION {old[i].nodes : i \in 1 .. Len(old) \ {k}}
      BY <1>2, <2>1, <2>2
    <3>2. all = UNION {rows[i].nodes : i \in found}
      <4>1. ASSUME NEW n PROVE n \in all <=> \E i \in found : n \in rows[i].nodes
        <5>1. n \in lrequest[r].seen <=> \E i \in 1 .. Len(old) \ {k} : n \in old[i].nodes
          BY <3>1
        <5> HIDE DEF rows, old, e, k
        <5>2. (\E i \in 1 .. Len(old) \ {k} : n \in old[i].nodes) <=> \E i \in found \ {k} : n \in rows[i].nodes
          BY <1>2, <2>2
        <5>3. n \in lrequest[r].own <=> n \in rows[k].nodes
          BY <2>1, <2>2
        <5> QED BY <3>1, <5>1, <5>2, <5>3
      <4> HIDE DEF all, found, rows
      <4> QED BY <4>1
    <3> HIDE DEF rows, all
    <3> QED BY <3>1, <3>2 DEF LHolds
  <2>5. all \in (SUBSET Concept) \cup {None} /\ Len(rows) >= Len(turns[c])
    BY <1>2, <2>2
  <2>6. \A s \in Row : session'[s].status = session[s].status
    BY <1>0
  <2> HIDE DEF c, k, old, e, rows, all
  <2> QED BY <1>0, <1>2, <1>4, <2>2, <2>3, <2>4, <2>5, <2>6, LResting, LWrites
<1> QED BY <1>1, <1>3, <1>4

\* Every step keeps the invariant.
LEMMA LNext == LInv /\ [L!Next]_lvars => LInv'
<1> SUFFICES ASSUME LInv, [L!Next]_lvars PROVE LInv'
  OBVIOUS
<1>1. CASE UNCHANGED lvars
  <2>1. UNCHANGED <<link, session, turns, aggregate, lrequest, spent, overlapped>>
    BY <1>1 DEF lvars
  <2>2. \A x \in Actor : LFit(x)'
    BY <2>1 DEF LInv, LFit, L!Alive
  <2>3. LApart' /\ LTable'
    BY <2>1, LStaysApart, LSameTable
  <2>4. L!Sessions' = L!Sessions /\ L!Starting' = L!Starting
    BY <2>1 DEF L!Sessions, L!Starting, L!At
  <2> QED BY <2>1, <2>2, <2>3, <2>4, LSame DEF LInv, LType
<1> QED BY <1>1, LLinks, LDeletes, LStarts, LAnswers, LThinks, LUpserts, LStoresPlain, LStores DEF L!Next

\* It holds of every reachable state.
LEMMA LInvariant == Spec => []LInv
<1>1. Init => LInv
  BY LStart DEF Init
<1> QED BY <1>1, LNext, RequestsStep, PTL DEF Spec

\* Attempts of a demo link and seats of an invitation are not oversold, each session has its attempt; no
\* batch replaces a password that was handed out; who is enrolled is on the roster unless parted from it;
\* a stale identity is served no longer than a TTL (http_app.py, demo_start; app/auth_routes.py; auth/identity.py).
THEOREM AccountsKeptHolds == Spec => []AccountsKept
<1>1. LInv /\ RInv => AccountsKept
  <2> SUFFICES ASSUME LInv, RInv PROVE AccountsKept
    OBVIOUS
  <2>1. R!IdentityFresh
    BY RConstants DEF RInv, RTables, RAge, R!IdentityFresh
  <2> QED BY <2>1 DEF LInv, RInv, AccountsKept, In
<1> QED BY <1>1, LInvariant, RInvariant, PTL

-----------------------------------------------------------------------------
(***************************************************************************)
(* Deliveries.  A row of session_turn never changes but to be answered     *)
(* (DKeeps), so what a call has loaded of a session stays true of its      *)
(* turns (DReached), whoever writes in between.  A session that no stale   *)
(* save has touched has no turn past its index, which is why a call that   *)
(* advances it finds an open question or none.                             *)
(***************************************************************************)
DRow == [status : {"none", "active", "completed", "abandoned"}, index : Nat, covered : SUBSET Concept]

DTurn == [of : Question \cup {None}, answered : BOOLEAN]

DTurns == [D!Index -> DTurn]

DPc == {"idle", "look", "start", "current", "select", "create", "delivered", "complete", "submit", "answer",
        "advance", "abandon"}

DCall == [pc : DPc, on : Session \cup {None}, copy : DRow, question : Question \cup {None}]

DType ==
  /\ row \in [Session -> DRow]
  /\ turn \in [Session -> DTurns]
  /\ call \in [Actor -> DCall]

DBelow(t, n) == UNION {Concepts[t[i].of] : i \in 0 .. n - 1}

\* an examination's turns
DSound(t) ==
  \A i \in D!Index :
    /\ t[i].of = None => ~t[i].answered
    /\ t[i].of # None => \A j \in 0 .. i - 1 : t[j].answered /\ t[j].of # t[i].of

\* the questions before the n-th are answered, and these are their concepts
DReached(t, n, covered) ==
  /\ n \in 0 .. MaxQuestions
  /\ \A j \in 0 .. n - 1 : t[j].answered
  /\ covered = DBelow(t, n)

\* a session with these turns and this row, which no stale save has touched or one may have
DWhole(t, r, still) ==
  /\ DSound(t) /\ DReached(t, r.index, r.covered)
  /\ still => \A i \in D!Index : i > r.index => t[i].of = None
  /\ r.status = "none" => \A i \in D!Index : t[i].of = None

\* a call on such a session
DFit(q, t, r, still) ==
  /\ r.status # "none" /\ q.copy.status # "none" /\ DReached(t, q.copy.index, q.copy.covered)
  /\ still => q.copy.index <= r.index
  /\ q.pc \in {"select", "create", "answer", "advance"} => q.copy.index \in D!Index
  /\ q.pc = "create" =>
       q.question # None /\ \A j \in 0 .. q.copy.index - 1 : t[j].of # q.question
  /\ q.pc \in {"answer", "advance"} => q.question # None /\ t[q.copy.index].of = q.question
  /\ q.pc = "advance" => t[q.copy.index].answered

DCalls ==
  \A c \in Actor :
    /\ call[c].pc \notin {"idle", "look", "start"} => call[c].on # None
    /\ call[c].on # None => DFit(call[c], turn[call[c].on], row[call[c].on], call[c].on \notin disturbed)

DInv ==
  /\ DType
  /\ \A s \in Session : DWhole(turn[s], row[s], s \notin disturbed)
  /\ DCalls
  /\ \A s, r \in D!ActiveSessions : s = r
  /\ D!CanGoOn

\* what may happen to a session's turns
DKeeps(t, u) ==
  \A i \in D!Index :
    t[i].of # None => u[i].of = t[i].of /\ (t[i].answered => u[i].answered)

\* What is assumed of the constants.
LEMMA DConstants ==
  /\ Concepts \in [Question -> SUBSET Concept]
  /\ MaxQuestions \in Nat /\ MaxQuestions > 0 /\ None \notin Question /\ None \notin Session
BY ModulesAssumption DEF D!DeliveryAssumption

\* No question has been reached at first.
LEMMA DNothing == \A t : DReached(t, 0, {})
<1> TAKE t
<1>1. \A j \in 0 .. 0 - 1 : FALSE
  OBVIOUS
<1>2. DBelow(t, 0) = {}
  BY <1>1 DEF DBelow
<1> QED BY <1>1, <1>2, DConstants DEF DReached

\* What a call has loaded stays true when turns are added and answered.
LEMMA DReachedStays ==
  ASSUME NEW t \in DTurns, NEW u \in DTurns, DSound(t), DKeeps(t, u), NEW n, NEW covered, DReached(t, n, covered)
  PROVE  DReached(u, n, covered)
<1>1. n \in 0 .. MaxQuestions /\ \A j \in 0 .. n - 1 : j \in D!Index
  BY DConstants DEF DReached, D!Index
<1>2. \A j \in 0 .. n - 1 : t[j].answered /\ t[j].of # None
  BY <1>1 DEF DReached, DSound
<1>3. \A j \in 0 .. n - 1 : u[j].of = t[j].of /\ u[j].answered
  BY <1>1, <1>2 DEF DKeeps
<1>4. DBelow(u, n) = DBelow(t, n)
  BY <1>3 DEF DBelow
<1> QED BY <1>1, <1>3, <1>4 DEF DReached

\* So does the rest of what it knows.
LEMMA DFitStays ==
  ASSUME NEW t \in DTurns, NEW u \in DTurns, DSound(t), DKeeps(t, u), NEW q \in DCall, NEW r \in DRow, NEW w \in DRow,
         NEW still \in BOOLEAN, NEW yet \in BOOLEAN, DFit(q, t, r, still), w.status # "none",
         yet => still /\ r.index <= w.index
  PROVE  DFit(q, u, w, yet)
<1>1. DReached(u, q.copy.index, q.copy.covered)
  BY DReachedStays DEF DFit
<1>2. q.copy \in DRow /\ q.copy.index \in Nat /\ r.index \in Nat /\ w.index \in Nat
  BY DEF DCall, DRow
<1>3. yet => q.copy.index <= w.index
  BY <1>2 DEF DFit
<1>4. \A j \in 0 .. q.copy.index - 1 : j \in D!Index /\ t[j].of # None
  BY <1>2, DConstants DEF DFit, DReached, DSound, D!Index
<1>5. \A j \in 0 .. q.copy.index - 1 : u[j].of = t[j].of
  BY <1>4 DEF DKeeps
<1> QED BY <1>1, <1>3, <1>5 DEF DFit, DKeeps

\* Initially.
LEMMA DStart == D!Init => DInv
<1> SUFFICES ASSUME D!Init PROVE DInv
  OBVIOUS
<1>1. D!NoSession \in DRow /\ D!NoSession.index = 0 /\ D!NoSession.covered = {} /\ D!NoSession.status = "none"
  BY DEF D!NoSession, DRow
<1>2. D!NoTurn \in DTurn /\ D!NoTurn.of = None /\ ~D!NoTurn.answered
  BY DEF D!NoTurn, DTurn
<1>3. D!NoCall \in DCall /\ D!NoCall.pc = "idle" /\ D!NoCall.on = None
  BY <1>1 DEF D!NoCall, DCall, DPc
<1>4. DType
  BY <1>1, <1>2, <1>3 DEF D!Init, DType, DTurns
<1>5. \A s \in Session : row[s] = D!NoSession /\ \A i \in D!Index : turn[s][i] = D!NoTurn
  BY DEF D!Init
<1>6. ASSUME NEW s \in Session PROVE DWhole(turn[s], row[s], s \notin disturbed)
  <2>1. DSound(turn[s])
    BY <1>2, <1>5 DEF DSound
  <2>3. DReached(turn[s], row[s].index, row[s].covered)
    BY <1>1, <1>5, DNothing
  <2> QED BY <1>2, <1>5, <2>1, <2>3 DEF DWhole
<1>7. DCalls
  BY <1>3 DEF D!Init, DCalls
<1>8. D!ActiveSessions = {}
  BY <1>1, <1>5 DEF D!ActiveSessions
<1> QED BY <1>4, <1>6, <1>7, <1>8 DEF DInv, D!CanGoOn

\* The turns of a session, and where a call is on it.
LEMMA DSession ==
  ASSUME DInv
  PROVE  /\ \A s \in Session : /\ turn[s] \in DTurns /\ row[s] \in DRow /\ DSound(turn[s])
                               /\ DWhole(turn[s], row[s], s \notin disturbed)
         /\ \A c \in Actor :
              /\ call[c] \in DCall
              /\ call[c].on # None =>
                   /\ call[c].on \in Session
                   /\ DFit(call[c], turn[call[c].on], row[call[c].on], call[c].on \notin disturbed)
              /\ call[c].pc \notin {"idle", "look", "start"} => call[c].on # None
BY DEF DInv, DType, DWhole, DCalls, DCall

\* A step of one call that changes no table.
LEMMA DLocal ==
  ASSUME DInv, NEW c \in Actor, NEW q \in DCall, call' = [call EXCEPT ![c] = q], UNCHANGED <<row, turn>>,
         disturbed \subseteq disturbed',
         q.pc \notin {"idle", "look", "start"} => q.on # None,
         q.on # None => DFit(q, turn[q.on], row[q.on], q.on \notin disturbed),
         call[c].pc = "advance" => call[c].on \in disturbed'
  PROVE  DInv'
<1>1. call' \in [Actor -> DCall] /\ call'[c] = q /\ \A x \in Actor \ {c} : call'[x] = call[x]
  BY DEF DInv, DType
<1>2. \A s \in Session : DWhole(turn'[s], row'[s], s \notin disturbed')
  BY DEF DInv, DWhole
<1>3. DCalls'
  BY <1>1 DEF DInv, DCalls, DFit
<1>4. D!ActiveSessions' = D!ActiveSessions
  BY DEF D!ActiveSessions
<1>5. D!CanGoOn'
  <2> SUFFICES ASSUME NEW s \in D!ActiveSessions \ disturbed', row[s].index \in D!Index, turn[s][row[s].index].answered
               PROVE  \E x \in Actor : call'[x].pc = "advance" /\ call'[x].on = s
    BY <1>4 DEF D!CanGoOn
  <2>1. PICK x \in Actor : call[x].pc = "advance" /\ call[x].on = s
    BY DEF DInv, D!CanGoOn
  <2> QED BY <1>1, <2>1
<1> QED BY <1>1, <1>2, <1>3, <1>4, <1>5 DEF DInv, DType

\* A call that comes back, or does not.
LEMMA DReturns ==
  ASSUME DInv, NEW c \in Actor, call' = [call EXCEPT ![c] = D!NoCall], UNCHANGED <<row, turn>>,
         disturbed \subseteq disturbed', call[c].pc = "advance" => call[c].on \in disturbed'
  PROVE  DInv'
<1>1. D!NoCall \in DCall /\ D!NoCall.pc = "idle" /\ D!NoCall.on = None
  BY DEF D!NoCall, D!NoSession, DCall, DRow, DPc
<1> QED BY <1>1, DLocal

\* A call that goes on, knowing no more than it did.
LEMMA DGoes ==
  ASSUME DInv, NEW c \in Actor, NEW pc \in DPc, D!Goto(c, pc), UNCHANGED <<row, turn, disturbed>>,
         call[c].pc # "advance", pc \notin {"create", "answer", "advance"},
         pc \notin {"idle", "look", "start"} => call[c].on # None,
         pc = "select" => call[c].copy.index \in D!Index
  PROVE  DInv'
<1> DEFINE q == [call[c] EXCEPT !.pc = pc]
<1>0. call[c] \in DCall
  BY DSession
<1>1. /\ q \in DCall /\ q.pc = pc /\ q.on = call[c].on /\ q.copy = call[c].copy
      /\ call' = [call EXCEPT ![c] = q]
  BY <1>0 DEF DCall, D!Goto
<1> HIDE DEF q
<1>2. q.on # None => DFit(q, turn[q.on], row[q.on], q.on \notin disturbed)
  BY <1>1, DSession DEF DFit
<1> QED BY <1>1, <1>2, DLocal

\* The steps of a call before it has loaded a session, and its load.
LEMMA DLoads ==
  ASSUME DInv, NEW c \in Actor,
         \/ D!StartCheck(c) \/ D!StartLook(c) \/ D!StartRefused(c)
         \/ \E s \in Session : D!NextLoad(c, s) \/ D!SubmitLoad(c, s) \/ D!AbandonLoad(c, s)
  PROVE  DInv'
<1>1. CASE D!StartCheck(c) \/ (D!StartLook(c) /\ D!Goto(c, "start"))
  BY <1>1, DGoes DEF D!StartCheck, D!StartLook, DPc
<1>2. CASE (D!StartLook(c) /\ D!Return(c)) \/ D!StartRefused(c)
  BY <1>2, DReturns DEF D!StartLook, D!StartRefused, D!Return
<1>3. ASSUME NEW s \in Session, NEW pc \in {"current", "submit", "abandon"}, D!LoadFor(c, s, pc) PROVE DInv'
  <2> DEFINE q == [D!NoCall EXCEPT !.pc = pc, !.on = s, !.copy = row[s]]
  <2>1. q \in DCall /\ q.pc = pc /\ q.on = s /\ q.copy = row[s]
    BY DSession DEF D!NoCall, DCall, DPc
  <2>2. /\ row[s].status = "active" /\ call[c].pc = "idle" /\ call' = [call EXCEPT ![c] = q]
        /\ UNCHANGED <<row, turn, disturbed>>
    BY <1>3 DEF D!LoadFor
  <2> HIDE DEF q
  <2>3. DFit(q, turn[s], row[s], s \notin disturbed)
    <3>1. DReached(turn[s], row[s].index, row[s].covered) /\ row[s].index \in Nat
      BY DSession DEF DWhole, DRow
    <3> QED BY <2>1, <2>2, <3>1 DEF DFit
  <2> QED BY <2>1, <2>2, <2>3, DConstants, DLocal
<1> QED BY <1>1, <1>2, <1>3 DEF D!StartLook, D!NextLoad, D!SubmitLoad, D!AbandonLoad

\* The turn a call looks at.
LEMMA DCurrent ==
  ASSUME DInv, NEW c \in Actor, call[c].on # None
  PROVE  /\ call[c].copy.index \in D!Index => D!Current(c) = turn[call[c].on][call[c].copy.index]
         /\ call[c].copy.index \notin D!Index => D!Current(c) = D!NoTurn /\ D!Current(c).of = None
BY DEF D!Current, D!NoTurn

\* A question of a call's choosing was not asked before.
LEMMA DChooses ==
  ASSUME DInv, NEW c \in Actor, D!Select(c)
  PROVE  DInv'
<1>0. /\ call[c] \in DCall /\ call[c].pc = "select" /\ call[c].on # None /\ call[c].on \in Session
      /\ DFit(call[c], turn[call[c].on], row[call[c].on], call[c].on \notin disturbed)
      /\ UNCHANGED <<row, turn, disturbed>>
  BY DSession DEF D!Select
<1>1. ASSUME NEW q \in D!Remaining(c), call' = [call EXCEPT ![c].pc = "create", ![c].question = q]
      PROVE  DInv'
  <2> DEFINE w == [call[c] EXCEPT !.pc = "create", !.question = q]
  <2>1. q \in Question /\ \A i \in D!Index : turn[call[c].on][i].of # q
    BY DEF D!Remaining, D!Asked
  <2>2. w \in DCall /\ w.pc = "create" /\ w.on = call[c].on /\ w.copy = call[c].copy /\ w.question = q
    BY <1>0, <2>1 DEF DCall, DPc
  <2>3. call' = [call EXCEPT ![c] = w]
    BY <1>1
  <2> HIDE DEF w
  <2>5. \A j \in 0 .. call[c].copy.index - 1 : j \in D!Index
    BY <1>0, DConstants DEF DFit, DReached, D!Index
  <2>6. DFit(w, turn[w.on], row[w.on], w.on \notin disturbed)
    BY <1>0, <2>1, <2>2, <2>5, DConstants DEF DFit
  <2> QED BY <1>0, <2>2, <2>3, <2>6, DLocal
<1>2. CASE D!Goto(c, "complete")
  BY <1>0, <1>2, DGoes DEF DPc
<1>3. ASSUME NEW q \in D!Choices(c), call' = [call EXCEPT ![c].pc = "create", ![c].question = q] PROVE DInv'
  <2>1. q \in D!Remaining(c)
    BY DEF D!Choices, D!Eligible
  <2> QED BY <1>1, <1>3, <2>1
<1> QED BY <1>2, <1>3 DEF D!Select

\* Calls that look at the current turn, are refused or break off.
LEMMA DLooks ==
  ASSUME DInv, NEW c \in Actor,
         D!NextCurrent(c) \/ D!TurnRefused(c) \/ D!SubmitCurrent(c) \/ D!CallFails(c)
  PROVE  DInv'
<1>1. CASE D!NextCurrent(c)
  <2>1. /\ call[c].pc = "current" /\ call[c].on # None /\ UNCHANGED <<row, turn, disturbed>>
        /\ DFit(call[c], turn[call[c].on], row[call[c].on], call[c].on \notin disturbed)
        /\ D!Return(c) \/ D!Goto(c, IF D!Finished(call[c].copy) THEN "complete" ELSE "select")
    BY <1>1, DSession DEF D!NextCurrent
  <2>2. ~D!Finished(call[c].copy) => call[c].copy.index \in D!Index
    BY <2>1, DConstants DEF DFit, DReached, D!Finished, D!Index
  <2>3. CASE D!Return(c)
    BY <2>1, <2>3, DReturns DEF D!Return
  <2>4. CASE D!Finished(call[c].copy) /\ D!Goto(c, "complete")
    BY <2>1, <2>4, DGoes DEF DPc
  <2>5. CASE ~D!Finished(call[c].copy) /\ D!Goto(c, "select")
    BY <2>1, <2>2, <2>5, DGoes DEF DPc
  <2> QED BY <2>1, <2>3, <2>4, <2>5
<1>2. CASE D!TurnRefused(c) \/ D!CallFails(c)
  BY <1>2, DReturns DEF D!TurnRefused, D!CallFails, D!Return
<1>3. CASE D!SubmitCurrent(c)
  <2>1. /\ call[c] \in DCall /\ call[c].pc = "submit" /\ call[c].on # None /\ UNCHANGED <<row, turn, disturbed>>
        /\ call[c].on \in Session /\ turn[call[c].on] \in DTurns
        /\ DFit(call[c], turn[call[c].on], row[call[c].on], call[c].on \notin disturbed)
    BY <1>3, DSession DEF D!SubmitCurrent
  <2>2. CASE D!Return(c)
    BY <2>1, <2>2, DReturns DEF D!Return
  <2>3. CASE /\ D!Current(c).of # None
             /\ call' = [call EXCEPT ![c].pc = "answer", ![c].question = D!Current(c).of]
    <3> DEFINE of == D!Current(c).of
               w == [call[c] EXCEPT !.pc = "answer", !.question = of]
    <3>1. call[c].copy.index \in D!Index /\ of = turn[call[c].on][call[c].copy.index].of /\ of \in Question /\ of # None
      BY <2>1, <2>3, DCurrent DEF DTurns, DTurn
    <3>2. call' = [call EXCEPT ![c] = w]
      BY <2>3
    <3> HIDE DEF of
    <3>3. w \in DCall /\ w.pc = "answer" /\ w.on = call[c].on /\ w.copy = call[c].copy /\ w.question = of
      BY <2>1, <3>1 DEF DCall, DPc
    <3> HIDE DEF w
    <3>4. DFit(w, turn[w.on], row[w.on], w.on \notin disturbed)
      BY <2>1, <3>1, <3>3 DEF DFit
    <3> QED BY <2>1, <3>2, <3>3, <3>4, DLocal
  <2> QED BY <1>3, <2>2, <2>3 DEF D!SubmitCurrent
<1> QED BY <1>1, <1>2, <1>3

\* A call that writes to its session's turns.
LEMMA DWritesTurn ==
  ASSUME DInv, NEW c \in Actor, NEW s \in Session, call[c].on = s, call[c].pc # "advance",
         NEW u \in DTurns, turn' = [turn EXCEPT ![s] = u], DKeeps(turn[s], u),
         NEW q \in DCall, call' = [call EXCEPT ![c] = q], q.on = s, UNCHANGED <<row, disturbed>>,
         DWhole(u, row[s], s \notin disturbed), DFit(q, u, row[s], s \notin disturbed),
         \A i \in D!Index : u[i].answered => turn[s][i].answered \/ q.pc = "advance"
  PROVE  DInv'
<1>0. turn \in [Session -> DTurns] /\ call \in [Actor -> DCall] /\ None \notin Session
  BY DConstants DEF DInv, DType
<1>1. turn' \in [Session -> DTurns] /\ turn'[s] = u /\ \A r \in Session \ {s} : turn'[r] = turn[r]
  BY <1>0
<1>2. call' \in [Actor -> DCall] /\ call'[c] = q /\ \A x \in Actor \ {c} : call'[x] = call[x]
  BY <1>0
<1>3. \A r \in Session : DWhole(turn'[r], row'[r], r \notin disturbed')
  BY <1>1 DEF DInv
<1>4. ASSUME NEW x \in Actor
      PROVE  /\ call'[x].pc \notin {"idle", "look", "start"} => call'[x].on # None
             /\ call'[x].on # None => DFit(call'[x], turn'[call'[x].on], row'[call'[x].on], call'[x].on \notin disturbed')
  <2>1. CASE x = c
    BY <1>0, <1>1, <1>2, <2>1
  <2>2. CASE x # c
    <3>1. CASE call[x].on = s
      <4>1. /\ call[x] \in DCall /\ turn[s] \in DTurns /\ DSound(turn[s]) /\ row[s] \in DRow
            /\ DFit(call[x], turn[s], row[s], s \notin disturbed)
        BY <1>0, <3>1, DSession
      <4>2. row[s].status # "none" /\ row[s].index <= row[s].index
        BY <4>1 DEF DFit, DRow
      <4>3. (s \notin disturbed) \in BOOLEAN
        OBVIOUS
      <4>4. DFit(call[x], u, row[s], s \notin disturbed)
        BY <4>1, <4>2, <4>3, DFitStays
      <4> QED BY <1>0, <1>1, <1>2, <2>2, <3>1, <4>4
    <3>2. CASE call[x].on # s
      BY <1>1, <1>2, <2>2, <3>2, DSession
    <3> QED BY <3>1, <3>2
  <2> QED BY <2>1, <2>2
<1>5. D!ActiveSessions' = D!ActiveSessions
  BY DEF D!ActiveSessions
<1>6. D!CanGoOn'
  <2> SUFFICES ASSUME NEW r \in D!ActiveSessions \ disturbed, row[r].index \in D!Index, turn'[r][row[r].index].answered
               PROVE  \E x \in Actor : call'[x].pc = "advance" /\ call'[x].on = r
    BY <1>5 DEF D!CanGoOn
  <2>1. CASE turn[r][row[r].index].answered
    <3>1. PICK x \in Actor : call[x].pc = "advance" /\ call[x].on = r
      BY <2>1 DEF DInv, D!CanGoOn
    <3> QED BY <1>2, <3>1
  <2>2. CASE ~turn[r][row[r].index].answered
    <3>1. r = s
      BY <1>1, <2>2 DEF D!ActiveSessions
    <3> QED BY <1>1, <1>2, <2>2, <3>1
  <2> QED BY <2>1, <2>2
<1> QED BY <1>1, <1>2, <1>3, <1>4, <1>5, <1>6 DEF DInv, DType, DCalls

\* The question is put, where no call has put one.
LEMMA DCreates ==
  ASSUME DInv, NEW c \in Actor, D!CreateTurn(c)
  PROVE  DInv'
<1> DEFINE s == call[c].on
           n == call[c].copy.index
           t == turn[s]
           e == [of |-> call[c].question, answered |-> FALSE]
           u == [t EXCEPT ![n] = e]
           q == [call[c] EXCEPT !.pc = "delivered"]
<1>1. /\ call[c] \in DCall /\ call[c].pc = "create" /\ s \in Session /\ s # None
      /\ t \in DTurns /\ DSound(t) /\ row[s] \in DRow /\ DWhole(t, row[s], s \notin disturbed)
      /\ DFit(call[c], t, row[s], s \notin disturbed)
      /\ UNCHANGED <<row, disturbed>>
  BY DSession DEF D!CreateTurn
<1>2. n \in D!Index /\ t[n] = D!NoTurn /\ t[n].of = None
  <2>1. n \in D!Index
    BY <1>1 DEF DFit
  <2>2. t[n] = D!NoTurn
    BY <1>1, <2>1, DCurrent DEF D!CreateTurn
  <2> QED BY <2>1, <2>2 DEF D!NoTurn
<1>3. turn' = [turn EXCEPT ![s] = u] /\ call' = [call EXCEPT ![c] = q]
  BY DEF D!CreateTurn, D!Goto
<1>4. e \in DTurn /\ e.of = call[c].question /\ ~e.answered /\ e.of # None /\ e.of \in Question
  BY <1>1 DEF DTurn, DCall, DFit
<1>5. q \in DCall /\ q.pc = "delivered" /\ q.on = s /\ q.copy = call[c].copy
  BY <1>1 DEF DCall, DPc
<1>6. call[c].copy.status # "none"
      /\ DReached(t, n, call[c].copy.covered) /\ row[s].status # "none" /\ (s \notin disturbed => n <= row[s].index)
      /\ (\A j \in 0 .. n - 1 : t[j].of # call[c].question)
  BY <1>1 DEF DFit
<1>7. row[s].index \in Nat /\ n \in Nat /\ \A i \in D!Index : i \in Nat /\ \A j \in 0 .. i - 1 : j \in D!Index
  BY <1>1, <1>2, DConstants DEF DRow, D!Index
<1> HIDE DEF s, n, t, e, q
<1>8. u \in DTurns /\ u[n] = e /\ \A i \in D!Index \ {n} : u[i] = t[i]
  BY <1>1, <1>2, <1>4 DEF DTurns
<1> HIDE DEF u
<1>9. DKeeps(t, u)
  BY <1>2, <1>8 DEF DKeeps
<1>10. DSound(u)
  <2> SUFFICES ASSUME NEW i \in D!Index
               PROVE  /\ u[i].of = None => ~u[i].answered
                      /\ u[i].of # None => \A j \in 0 .. i - 1 : u[j].answered /\ u[j].of # u[i].of
    BY DEF DSound
  <2>1. CASE i = n
    <3>1. DReached(u, n, call[c].copy.covered)
      BY <1>1, <1>6, <1>8, <1>9, DReachedStays
    <3>2. \A j \in 0 .. n - 1 : u[j].answered
      BY <3>1 DEF DReached
    <3>3. \A j \in 0 .. n - 1 : j # n /\ j \in D!Index
      BY <1>2, <1>7
    <3>4. \A j \in 0 .. n - 1 : u[j].of # e.of
      BY <1>4, <1>6, <1>8, <3>3
    <3> QED BY <1>4, <1>6, <1>8, <2>1, <3>2, <3>4
  <2>2. CASE i # n /\ t[i].of = None
    BY <1>1, <1>8, <2>2 DEF DSound
  <2>3. CASE i # n /\ t[i].of # None
    <3>1. \A j \in 0 .. i - 1 : t[j].answered /\ t[j].of # t[i].of /\ j \in D!Index
      BY <1>1, <1>7, <2>3 DEF DSound
    <3>2. \A j \in 0 .. i - 1 : j # n
      BY <1>1, <1>2, <3>1 DEF DSound
    <3>3. u[i] = t[i] /\ \A j \in 0 .. i - 1 : u[j] = t[j]
      BY <1>8, <2>3, <3>1, <3>2
    <3> QED BY <2>3, <3>1, <3>3
  <2> QED BY <2>1, <2>2, <2>3
<1>11. DWhole(u, row[s], s \notin disturbed)
  <2>1. DReached(u, row[s].index, row[s].covered)
    BY <1>1, <1>8, <1>9, DReachedStays DEF DWhole
  <2>2. s \notin disturbed => \A i \in D!Index : i > row[s].index => u[i].of = None
    BY <1>1, <1>6, <1>7, <1>8 DEF DWhole
  <2> QED BY <1>6, <1>10, <2>1, <2>2 DEF DWhole
<1>12. DFit(q, u, row[s], s \notin disturbed)
  <2>1. DReached(u, n, call[c].copy.covered)
    BY <1>1, <1>6, <1>8, <1>9, DReachedStays
  <2>2. q.copy.index = n /\ q.copy.covered = call[c].copy.covered /\ q.copy.status # "none" /\ q.pc = "delivered"
    BY <1>5, <1>6 DEF n
  <2> QED BY <1>6, <2>1, <2>2 DEF DFit
<1>13. \A i \in D!Index : u[i].answered => t[i].answered
  BY <1>4, <1>8
<1>14. call[c].on = s /\ call[c].pc # "advance" /\ turn[s] = t
  BY <1>1 DEF s, t
<1>15. s \in Session /\ UNCHANGED <<row, disturbed>> /\ q \in DCall /\ q.on = s /\ u \in DTurns
  BY <1>1, <1>5, <1>8
<1>16. DKeeps(turn[s], u) /\ \A i \in D!Index : u[i].answered => turn[s][i].answered \/ q.pc = "advance"
  BY <1>9, <1>13, <1>14
<1> QED BY <1>3, <1>11, <1>12, <1>14, <1>15, <1>16, DWritesTurn

\* The open question is answered.
LEMMA DAnswers ==
  ASSUME DInv, NEW c \in Actor, D!SubmitAnswer(c)
  PROVE  DInv'
<1> DEFINE s == call[c].on
           n == call[c].copy.index
           t == turn[s]
           e == [t[n] EXCEPT !.answered = TRUE]
           u == [t EXCEPT ![n] = e]
           q == [call[c] EXCEPT !.pc = "advance"]
<1>1. /\ call[c] \in DCall /\ call[c].pc = "answer" /\ s \in Session /\ s # None
      /\ t \in DTurns /\ DSound(t) /\ row[s] \in DRow /\ DWhole(t, row[s], s \notin disturbed)
      /\ DFit(call[c], t, row[s], s \notin disturbed)
      /\ UNCHANGED <<row, disturbed>>
  BY DSession DEF D!SubmitAnswer
<1>2. n \in D!Index /\ t[n].of # None /\ t[n] \in DTurn
  BY <1>1 DEF DFit, DTurns
<1>3. turn' = [turn EXCEPT ![s] = u] /\ call' = [call EXCEPT ![c] = q]
  BY DEF D!SubmitAnswer, D!Goto
<1>4. q \in DCall /\ q.pc = "advance" /\ q.on = s /\ q.copy = call[c].copy /\ q.question = call[c].question
  BY <1>1 DEF DCall, DPc
<1>5. call[c].copy.status # "none"
      /\ DReached(t, n, call[c].copy.covered) /\ row[s].status # "none" /\ (s \notin disturbed => n <= row[s].index)
      /\ call[c].question # None /\ t[n].of = call[c].question
  BY <1>1 DEF DFit
<1> HIDE DEF s, n, t, q
<1>6. e \in DTurn /\ e.of = t[n].of /\ e.answered
  BY <1>2 DEF DTurn
<1> HIDE DEF e
<1>7. u \in DTurns /\ u[n] = e /\ \A i \in D!Index \ {n} : u[i] = t[i]
  BY <1>1, <1>2, <1>6 DEF DTurns
<1> HIDE DEF u
<1>8. DKeeps(t, u) /\ \A i \in D!Index : u[i].of = t[i].of /\ (t[i].answered => u[i].answered)
  BY <1>6, <1>7 DEF DKeeps
<1>9. \A i \in D!Index : \A j \in 0 .. i - 1 : j \in D!Index
  BY DConstants DEF D!Index
<1>10. DSound(u)
  <2> SUFFICES ASSUME NEW i \in D!Index
               PROVE  /\ u[i].of = None => ~u[i].answered
                      /\ u[i].of # None => \A j \in 0 .. i - 1 : u[j].answered /\ u[j].of # u[i].of
    BY DEF DSound
  <2>2. CASE u[i].of = None
    BY <1>1, <1>2, <1>7, <1>8, <2>2 DEF DSound
  <2>3. CASE u[i].of # None
    <3>1. t[i].of # None /\ t[i].of = u[i].of
      BY <1>8, <2>3
    <3>2. \A j \in 0 .. i - 1 : t[j].answered /\ t[j].of # t[i].of
      BY <1>1, <3>1 DEF DSound
    <3> QED BY <1>8, <1>9, <2>3, <3>1, <3>2
  <2> QED BY <2>2, <2>3
<1>11. DWhole(u, row[s], s \notin disturbed)
  <2>1. DReached(u, row[s].index, row[s].covered)
    BY <1>1, <1>7, <1>8, DReachedStays DEF DWhole
  <2>2. s \notin disturbed => \A i \in D!Index : i > row[s].index => u[i].of = None
    BY <1>1, <1>8 DEF DWhole
  <2> QED BY <1>5, <1>10, <2>1, <2>2 DEF DWhole
<1>12. DFit(q, u, row[s], s \notin disturbed)
  <2>1. DReached(u, n, call[c].copy.covered)
    BY <1>1, <1>5, <1>7, <1>8, DReachedStays
  <2>2. q.copy.index = n /\ q.copy.covered = call[c].copy.covered
    BY <1>4 DEF n
  <2> QED BY <1>2, <1>4, <1>5, <1>6, <1>7, <1>8, <2>1, <2>2 DEF DFit
<1>13. call[c].on = s /\ call[c].pc # "advance" /\ turn[s] = t
  BY <1>1 DEF s, t
<1>14. \A i \in D!Index : u[i].answered => t[i].answered \/ q.pc = "advance"
  BY <1>4
<1>15. q \in DCall /\ q.on = s /\ DKeeps(t, u) /\ u \in DTurns
  BY <1>4, <1>7, <1>8
<1> QED BY <1>1, <1>3, <1>11, <1>12, <1>13, <1>14, <1>15, DWritesTurn DEF t

\* A new session, when the student has none that is active.
LEMMA DBegins ==
  ASSUME DInv, NEW c \in Actor, NEW s \in Session, D!StartCreate(c, s)
  PROVE  DInv'
<1> DEFINE q == [D!NoCall EXCEPT !.pc = "select", !.on = s, !.copy = D!Fresh]
<1>0. call \in [Actor -> DCall] /\ row \in [Session -> DRow]
  BY DEF DInv, DType
<1>1. D!Fresh \in DRow /\ D!Fresh.status = "active" /\ D!Fresh.index = 0 /\ D!Fresh.covered = {}
  BY DEF D!Fresh, D!NoSession, DRow
<1>2. q \in DCall /\ q.pc = "select" /\ q.on = s /\ q.copy = D!Fresh
  BY <1>1 DEF D!NoCall, DCall, DPc
<1>3. /\ row[s].status = "none" /\ D!ActiveSessions = {} /\ call[c].pc = "start"
      /\ row' = [row EXCEPT ![s] = D!Fresh] /\ call' = [call EXCEPT ![c] = q] /\ UNCHANGED <<turn, disturbed>>
  BY DEF D!StartCreate
<1> HIDE DEF q
<1>4. row' \in [Session -> DRow] /\ row'[s] = D!Fresh /\ \A r \in Session \ {s} : row'[r] = row[r]
  BY <1>0, <1>1, <1>3
<1>5. call' \in [Actor -> DCall] /\ call'[c] = q /\ \A x \in Actor \ {c} : call'[x] = call[x]
  BY <1>0, <1>2, <1>3
<1>6. DSound(turn[s]) /\ \A i \in D!Index : turn[s][i].of = None /\ ~turn[s][i].answered
  BY <1>3, DSession DEF DWhole, DSound
<1>7. DWhole(turn[s], D!Fresh, s \notin disturbed)
  BY <1>1, <1>6, DNothing DEF DWhole
<1>8. DFit(q, turn[s], D!Fresh, s \notin disturbed)
  <2>1. q.copy.index = 0 /\ q.copy.covered = {} /\ 0 \in D!Index
    BY <1>1, <1>2, DConstants DEF D!Index
  <2>2. DReached(turn[s], q.copy.index, q.copy.covered)
    BY <2>1, DNothing
  <2> QED BY <1>1, <1>2, <2>1, <2>2 DEF DFit
<1>9. \A x \in Actor : call[x].on # s
  BY <1>3, DSession, DConstants DEF DFit
<1>10. DCalls'
  BY <1>2, <1>3, <1>4, <1>5, <1>8, <1>9, DSession, DConstants DEF DCalls
<1>11. D!ActiveSessions' = {s}
  BY <1>1, <1>3, <1>4 DEF D!ActiveSessions
<1>12. D!CanGoOn'
  BY <1>1, <1>3, <1>4, <1>6, <1>11 DEF D!CanGoOn
<1>13. \A r \in Session : DWhole(turn'[r], row'[r], r \notin disturbed')
  BY <1>3, <1>4, <1>7 DEF DInv
<1> QED BY <1>3, <1>4, <1>5, <1>10, <1>11, <1>12, <1>13 DEF DInv, DType

\* update_session, whoever has written in between.
LEMMA DSaves ==
  ASSUME DInv, NEW c \in Actor, NEW s \in Session, call[c].on = s, NEW r \in DRow, NEW pc \in {"idle", "complete"},
         D!Save(c, r, pc), turn' = turn, r.status # "none", DReached(turn[s], r.index, r.covered),
         r.index >= call[c].copy.index,
         r.status = "active" => (r = call[c].copy /\ call[c].pc # "advance") \/ r.index = call[c].copy.index + 1
  PROVE  DInv'
<1> DEFINE copy == call[c].copy
           q == IF pc = "idle" THEN D!NoCall ELSE [D!NoCall EXCEPT !.pc = pc, !.on = s, !.copy = r]
<1>0. /\ call \in [Actor -> DCall] /\ row \in [Session -> DRow] /\ turn[s] \in DTurns /\ row[s] \in DRow
      /\ DWhole(turn[s], row[s], s \notin disturbed) /\ DSound(turn[s]) /\ None \notin Session
      /\ copy.index \in Nat /\ r.index \in Nat
  BY DSession, DConstants DEF DInv, DType, DCall, DRow
<1>1. CASE r.status = "active" /\ D!ActiveSessions \ {s} # {}
  <2>1. call' = [call EXCEPT ![c] = D!NoCall] /\ UNCHANGED <<row, turn, disturbed>>
    BY <1>1 DEF D!Save, D!Return
  <2>2. D!NoCall \in DCall /\ D!NoCall.pc = "idle" /\ D!NoCall.on = None
    BY DEF D!NoCall, D!NoSession, DCall, DRow, DPc
  <2>3. call' \in [Actor -> DCall] /\ call'[c] = D!NoCall /\ \A x \in Actor \ {c} : call'[x] = call[x]
    BY <1>0, <2>1, <2>2
  <2>4. D!ActiveSessions' = D!ActiveSessions /\ s \notin D!ActiveSessions
    BY <1>1, <2>1 DEF DInv, D!ActiveSessions
  <2>5. D!CanGoOn'
    <3> SUFFICES ASSUME NEW p \in D!ActiveSessions \ disturbed, row[p].index \in D!Index, turn[p][row[p].index].answered
                 PROVE  \E x \in Actor : call'[x].pc = "advance" /\ call'[x].on = p
      BY <2>1, <2>4 DEF D!CanGoOn
    <3>1. PICK x \in Actor : call[x].pc = "advance" /\ call[x].on = p
      BY DEF DInv, D!CanGoOn
    <3>2. x # c
      BY <2>4, <3>1
    <3> QED BY <2>3, <3>1, <3>2
  <2>6. DCalls'
    BY <2>1, <2>2, <2>3 DEF DInv, DCalls
  <2> QED BY <2>1, <2>3, <2>4, <2>5, <2>6 DEF DInv, DType
<1>2. CASE ~(r.status = "active" /\ D!ActiveSessions \ {s} # {})
  <2>1. /\ row' = [row EXCEPT ![s] = r] /\ call' = [call EXCEPT ![c] = q]
        /\ disturbed' = IF row[s] # copy THEN disturbed \cup {s} ELSE disturbed
    BY <1>2 DEF D!Save
  <2>2. /\ q \in DCall /\ q.pc = pc /\ (pc = "idle" => q.on = None) /\ (pc # "idle" => q.on = s /\ q.copy = r)
    BY DEF D!NoCall, D!NoSession, DCall, DRow, DPc
  <2> HIDE DEF q
  <2>3. row' \in [Session -> DRow] /\ row'[s] = r /\ \A p \in Session \ {s} : row'[p] = row[p]
    BY <1>0, <2>1
  <2>4. call' \in [Actor -> DCall] /\ call'[c] = q /\ \A x \in Actor \ {c} : call'[x] = call[x]
    BY <1>0, <2>1, <2>2
  <2>5. /\ disturbed \subseteq disturbed' /\ \A p \in Session \ {s} : p \in disturbed' <=> p \in disturbed
        /\ s \notin disturbed' => s \notin disturbed /\ row[s] = copy
    BY <2>1
  <2>6. DWhole(turn[s], r, s \notin disturbed')
    <3>1. s \notin disturbed' => \A i \in D!Index : i > r.index => turn[s][i].of = None
      <4> SUFFICES ASSUME s \notin disturbed', NEW i \in D!Index, i > r.index PROVE turn[s][i].of = None
        OBVIOUS
      <4>1. i > row[s].index
        BY <1>0, <2>5, DConstants DEF D!Index
      <4> QED BY <1>0, <2>5, <4>1 DEF DWhole
    <3> QED BY <1>0, <3>1 DEF DWhole
  <2>7. \A p \in Session : DWhole(turn'[p], row'[p], p \notin disturbed')
    BY <2>3, <2>5, <2>6 DEF DInv
  <2>8. ASSUME NEW x \in Actor
        PROVE  /\ call'[x].pc \notin {"idle", "look", "start"} => call'[x].on # None
               /\ call'[x].on # None => DFit(call'[x], turn[call'[x].on], row'[call'[x].on], call'[x].on \notin disturbed')
    <3>1. CASE x = c
      <4>1. pc # "idle" => DFit(q, turn[s], r, s \notin disturbed')
        BY <1>0, <2>2 DEF DFit
      <4> QED BY <1>0, <2>2, <2>3, <2>4, <3>1, <4>1
    <3>2. CASE x # c /\ call[x].on = s
      <4>1. DFit(call[x], turn[s], row[s], s \notin disturbed) /\ call[x] \in DCall
        BY <1>0, <3>2, DSession
      <4>2. DKeeps(turn[s], turn[s])
        BY DEF DKeeps
      <4>3. s \notin disturbed' => s \notin disturbed /\ row[s].index <= r.index
        BY <2>5
      <4> DEFINE still == s \notin disturbed
                 yet == s \notin disturbed'
      <4>4. still \in BOOLEAN /\ yet \in BOOLEAN /\ (yet => still /\ row[s].index <= r.index)
            /\ DFit(call[x], turn[s], row[s], still)
        BY <4>1, <4>3
      <4>5. DFit(call[x], turn[s], r, s \notin disturbed')
        <5> HIDE DEF still, yet
        <5>1. DFit(call[x], turn[s], r, yet)
          BY <1>0, <4>1, <4>2, <4>4, DFitStays
        <5> QED BY <5>1 DEF yet
      <4> QED BY <1>0, <2>3, <2>4, <3>2, <4>5
    <3>3. CASE x # c /\ call[x].on # s
      <4>1. call[x].on # None => call[x].on \in Session \ {s}
        BY <3>3, DSession
      <4> QED BY <2>3, <2>4, <2>5, <3>3, <4>1, DSession
    <3> QED BY <3>1, <3>2, <3>3
  <2>9. DCalls'
    BY <2>8 DEF DCalls
  <2>10. \A p, v \in D!ActiveSessions' : p = v
    BY <1>2, <2>3 DEF DInv, D!ActiveSessions
  <2>11. D!CanGoOn'
    <3> SUFFICES ASSUME NEW p \in D!ActiveSessions' \ disturbed', row'[p].index \in D!Index,
                        turn[p][row'[p].index].answered
                 PROVE  \E x \in Actor : call'[x].pc = "advance" /\ call'[x].on = p
      BY DEF D!CanGoOn
    <3>1. CASE p # s
      <4>1. p \in D!ActiveSessions \ disturbed /\ row'[p] = row[p]
        BY <2>3, <2>5, <3>1 DEF D!ActiveSessions
      <4>2. PICK x \in Actor : call[x].pc = "advance" /\ call[x].on = p
        BY <4>1 DEF DInv, D!CanGoOn
      <4> QED BY <2>4, <3>1, <4>2
    <3>2. CASE p = s
      <4>1. r.status = "active" /\ row[s] = copy /\ s \notin disturbed /\ r.index \in D!Index /\ turn[s][r.index].answered
        BY <2>3, <2>5, <3>2 DEF D!ActiveSessions
      <4>2. r.index # copy.index + 1
        <5>1. r.index = copy.index + 1 => turn[s][r.index].of = None
          BY <1>0, <4>1 DEF DWhole
        <5> QED BY <1>0, <4>1, <5>1 DEF DSound
      <4>3. r = copy /\ call[c].pc # "advance"
        BY <4>1, <4>2
      <4>4. s \in D!ActiveSessions \ disturbed /\ row[s] = r
        BY <4>1, <4>3 DEF D!ActiveSessions
      <4>5. PICK x \in Actor : call[x].pc = "advance" /\ call[x].on = s
        BY <4>1, <4>4 DEF DInv, D!CanGoOn
      <4> QED BY <2>4, <3>2, <4>3, <4>5
    <3> QED BY <3>1, <3>2
  <2> QED BY <2>3, <2>4, <2>7, <2>9, <2>10, <2>11 DEF DInv, DType
<1> QED BY <1>1, <1>2

\* The calls that end with it, and the advance, after which the session may be complete.
LEMMA DEnds ==
  ASSUME DInv, NEW c \in Actor,
         D!SaveDelivered(c) \/ D!Complete(c) \/ D!AbandonSave(c) \/ D!Advance(c)
  PROVE  DInv'
<1> DEFINE s == call[c].on
           copy == call[c].copy
<1>0. /\ call[c].pc \in {"delivered", "complete", "abandon", "advance"} /\ turn' = turn
      /\ s \in Session /\ copy \in DRow /\ copy.status # "none" /\ copy.index \in Nat
      /\ DReached(turn[s], copy.index, copy.covered) /\ call[c] \in DCall
      /\ DFit(call[c], turn[s], row[s], s \notin disturbed)
  <2>1. call[c].pc \in {"delivered", "complete", "abandon", "advance"} /\ turn' = turn
    BY DEF D!SaveDelivered, D!Complete, D!AbandonSave, D!Advance
  <2>2. s \in Session /\ call[c] \in DCall /\ DFit(call[c], turn[s], row[s], s \notin disturbed)
    BY <2>1, DSession
  <2> QED BY <2>1, <2>2 DEF DFit, DCall, DRow
<1>1. CASE D!SaveDelivered(c)
  <2>1. call[c].pc = "delivered" /\ D!Save(c, copy, "idle") /\ copy.index >= copy.index
    BY <1>0, <1>1 DEF D!SaveDelivered
  <2> HIDE DEF s, copy
  <2> QED BY <1>0, <2>1, DSaves DEF s, copy
<1>2. ASSUME NEW to \in {"completed", "abandoned"}, D!Save(c, [copy EXCEPT !.status = to], "idle")
      PROVE  DInv'
  <2> DEFINE r == [copy EXCEPT !.status = to]
  <2>1. r \in DRow /\ r.status # "none" /\ r.status # "active" /\ r.index = copy.index /\ r.covered = copy.covered
    BY <1>0 DEF DRow
  <2>2. D!Save(c, r, "idle")
    BY <1>2
  <2> HIDE DEF r
  <2>3. DReached(turn[s], r.index, r.covered) /\ r.index >= copy.index
    BY <1>0, <2>1
  <2> QED BY <1>0, <2>1, <2>2, <2>3, DSaves
<1>3. CASE D!Advance(c)
  <2> DEFINE n == copy.index
             r == [D!Covering(c) EXCEPT !.index = n + 1]
             pc == IF D!Finished(r) THEN "complete" ELSE "idle"
  <2>1. /\ call[c].pc = "advance" /\ n \in D!Index /\ turn[s][n].answered /\ turn[s][n].of = call[c].question
        /\ call[c].question # None /\ call[c].question \in Question
    BY <1>0, <1>3 DEF D!Advance, DFit, DCall
  <2>2. D!Covering(c) = [copy EXCEPT !.covered = copy.covered \cup Concepts[call[c].question]]
    BY DEF D!Covering
  <2>3. D!Covering(c) \in DRow /\ D!Covering(c).index = n /\ D!Covering(c).status = copy.status
        /\ D!Covering(c).covered = copy.covered \cup Concepts[call[c].question]
    BY <1>0, <2>1, <2>2, DConstants DEF DRow
  <2>4. D!Save(c, r, pc) /\ pc \in {"idle", "complete"}
    BY <1>3, <2>3 DEF D!Advance
  <2> HIDE DEF pc
  <2>5. r \in DRow /\ r.index = n + 1 /\ r.status = copy.status
        /\ r.covered = copy.covered \cup Concepts[call[c].question]
    BY <1>0, <2>3 DEF DRow
  <2> HIDE DEF r
  <2>6. DReached(turn[s], n + 1, copy.covered \cup Concepts[call[c].question])
    <3>1. n + 1 \in 0 .. MaxQuestions
      BY <2>1, DConstants DEF D!Index
    <3>2. \A j \in 0 .. (n + 1) - 1 : j \in 0 .. n - 1 \/ j = n
      BY <1>0
    <3>3. \A j \in 0 .. (n + 1) - 1 : turn[s][j].answered
      BY <1>0, <2>1, <3>2 DEF DReached
    <3>4. n \in 0 .. (n + 1) - 1 /\ \A j \in 0 .. n - 1 : j \in 0 .. (n + 1) - 1
      BY <1>0
    <3>5. DBelow(turn[s], n + 1) = DBelow(turn[s], n) \cup Concepts[turn[s][n].of]
      BY <3>2, <3>4 DEF DBelow
    <3> QED BY <1>0, <2>1, <3>1, <3>3, <3>5 DEF DReached
  <2>7. DReached(turn[s], r.index, r.covered) /\ r.index >= copy.index /\ r.index = copy.index + 1 /\ r.status # "none"
    BY <1>0, <2>5, <2>6
  <2> QED BY <1>0, <2>4, <2>5, <2>7, DSaves
<1> QED BY <1>1, <1>2, <1>3 DEF D!Complete, D!AbandonSave

\* Every step keeps the invariant.
LEMMA DNext == DInv /\ [D!Next]_dvars => DInv'
<1> SUFFICES ASSUME DInv, [D!Next]_dvars PROVE DInv'
  OBVIOUS
<1>1. CASE UNCHANGED <<row, turn, call, disturbed>>
  BY <1>1 DEF DInv, DType, DCalls, D!ActiveSessions, D!CanGoOn
<1>2. CASE UNCHANGED dvars \/ D!Activate \/ D!Close
  BY <1>1, <1>2 DEF dvars, D!Activate, D!Close
<1>3. ASSUME NEW c \in Actor, D!Step(c) PROVE DInv'
  BY <1>3, DLoads, DLooks, DChooses, DCreates, DAnswers, DBegins, DEnds DEF D!Step
<1> QED BY <1>2, <1>3, DLoads, DLooks DEF D!Next

\* It holds of every reachable state.
LEMMA DInvariant == Spec => []DInv
<1>1. Init => DInv
  BY DStart DEF Init
<1> QED BY <1>1, DNext, RequestsStep, PTL DEF Spec

\* A session's turns are what an examination is.
LEMMA DTurnsSound == DInv => D!TurnsSound
<1> SUFFICES ASSUME DInv PROVE D!TurnsSound
  OBVIOUS
<1>1. \A s, n : D!ConceptsBelow(s, n) = DBelow(turn[s], n)
  BY DEF D!ConceptsBelow, DBelow
<1>2. ASSUME NEW s \in Session, NEW i \in D!Index, turn[s][i].of # None
      PROVE  \A j \in 0 .. i - 1 : turn[s][j].answered /\ turn[s][j].of # turn[s][i].of
  BY <1>1, <1>2, DSession DEF DSound
<1>3. \A s \in Session : row[s].covered = D!ConceptsBelow(s, row[s].index)
  BY <1>1, DSession DEF DWhole, DReached
<1>4. \A c \in Actor : call[c].on # None => call[c].copy.covered = D!ConceptsBelow(call[c].on, call[c].copy.index)
  BY <1>1, DSession DEF DFit, DReached
<1> QED BY <1>2, <1>3, <1>4 DEF D!TurnsSound

\* The aggregate of a question holds what its stored evaluations found.
LEMMA LAggregate == LInv => L!AggregateHolds
<1> SUFFICES ASSUME LInv, NEW c \in L!Cell \ overlapped
             PROVE  LET found == {k \in DOMAIN turns[c] : turns[c][k].by = "eds"}
                    IN IF found = {} THEN aggregate[c] = None
                       ELSE aggregate[c] = UNION {turns[c][k].nodes : k \in found}
  BY DEF L!AggregateHolds
<1>1. DOMAIN turns[c] = 1 .. Len(turns[c])
  BY LRows DEF LInv, LType
<1>2. LHolds(turns[c], aggregate[c])
  BY DEF LInv, LTable
<1> QED BY <1>1, <1>2 DEF LHolds

\* A session and its turns stay what an examination is, and an active one can be gone on with
\* (delivery/session_manager.py, submit_answer); a demo session's aggregates hold what its evaluations
\* found (http_app.py, _demo_answer_turn).
THEOREM SessionsSoundHolds == Spec => []SessionsSound
<1>1. DInv /\ LInv => SessionsSound
  BY DTurnsSound, LAggregate DEF DInv, SessionsSound, In
<1> QED BY <1>1, DInvariant, LInvariant, PTL
=============================================================================
