------------------------- MODULE ExpectedPathProofs -------------------------
(***************************************************************************)
(* What holds of ExpectedPath for every set of questions and requests: the *)
(* in-flight set is exactly what the running threads hold, so they never   *)
(* share a question, and only a stale request can replace a stored path.   *)
(***************************************************************************)
EXTENDS ExpectedPath, TLAPS

(***************************************************************************)
(* The inductive invariant.  Mutual exclusion needs that a request which   *)
(* has not queued yet has no thread (Fresh), and the replacement property  *)
(* that what a thread has left was missing when it was queued and has      *)
(* stayed so, because no other thread may touch it (Untouched).            *)
(***************************************************************************)
Fresh == \A r \in Request : req[r].pc \in {"idle", "queue"} => fill[r].pc = "none"

Served == \A q \in Question : q \in inflight <=> \E r \in Running : q \in fill[r].batch

Untouched ==
  \A r \in Running : /\ fill[r].left \subseteq fill[r].batch
                     /\ \A q \in fill[r].left \ fill[r].stale : path[q] = None

IInv == TypeOK /\ Fresh /\ Served /\ OneFillerPerQuestion /\ Untouched

-----------------------------------------------------------------------------
\* A thread record built by Thread is of its type, with nothing done yet.
LEMMA ThreadFacts ==
  ASSUME NEW state \in {"none", "filling", "ended"}, NEW fresh \in SUBSET Question
  PROVE  /\ Thread(state, fresh) \in ThreadState
         /\ Thread(state, fresh).pc = state
         /\ Thread(state, fresh).batch = fresh
         /\ Thread(state, fresh).left = fresh
         /\ Thread(state, fresh).stale = fresh \ Missing
BY DEF Thread, ThreadState

\* Leave moves a request to the state named and keeps it of its type.
LEMMA LeaveFacts ==
  ASSUME TypeOK, NEW r \in Request,
         NEW next \in {"entry", "poll", "check", "done", "blank", "failed"}
  PROVE  Leave(r, next) \in CallerState /\ Leave(r, next).pc = next
<1>1. req[r] \in CallerState
  BY DEF TypeOK
<1>2. CASE next \in {"done", "blank", "failed"}
  BY <1>1, <1>2 DEF Leave, CallerState
<1>3. CASE next \in {"entry", "poll", "check"}
  BY <1>1, <1>3 DEF Leave, CallerState
<1> QED BY <1>2, <1>3

\* Initially nothing is queued.
LEMMA InitIInv == Init => IInv
<1> SUFFICES ASSUME Init PROVE IInv
  OBVIOUS
<1>1. \A r \in Request : fill[r] \in ThreadState /\ fill[r].pc = "none"
  BY ThreadFacts DEF Init
<1>2. fill \in [Request -> ThreadState]
  BY <1>1 DEF Init
<1>3. TypeOK
  BY <1>2 DEF Init, TypeOK, CallerState
<1>4. Running = {}
  BY <1>1 DEF Running
<1> QED BY <1>1, <1>3, <1>4 DEF Init, IInv, Fresh, Served, OneFillerPerQuestion, Untouched

\* A call only gives an idle request its work.
LEMMA CallStep ==
  ASSUME IInv, NEW r \in Request, NEW who \in {"assign", "start", "submit"},
         NEW next \in {"queue", "done"}, NEW wanted \in SUBSET Question,
         Called(r, who, next, wanted), assigned' \in BOOLEAN
  PROVE  IInv'
<1>1. TypeOK'
  BY DEF IInv, TypeOK, Called, CallerState
<1>2. Running' = Running
  BY DEF Called, Running
<1>3. Fresh'
  BY DEF IInv, Fresh, Called, TypeOK
<1> QED BY <1>1, <1>2, <1>3 DEF IInv, Served, OneFillerPerQuestion, Untouched, Called

\* Moving on in submit_answer leaves the threads alone.
LEMMA GotoStep ==
  ASSUME IInv, NEW r \in Request, NEW next \in {"poll", "check", "done", "blank"},
         Goto(r, next)
  PROVE  IInv'
<1>1. Leave(r, next) \in CallerState /\ Leave(r, next).pc = next
  BY LeaveFacts DEF IInv
<1>2. TypeOK'
  BY <1>1 DEF IInv, TypeOK, Goto
<1>3. Running' = Running
  BY DEF Goto, Running
<1>4. Fresh'
  BY <1>1 DEF IInv, Fresh, Goto, TypeOK
<1> QED BY <1>2, <1>3, <1>4 DEF IInv, Served, OneFillerPerQuestion, Untouched, Goto

\* Queueing starts a thread on questions no running thread holds.
LEMMA QueueStep ==
  ASSUME IInv, NEW r \in Request, Queue(r)
  PROVE  IInv'
<1> DEFINE fresh == req[r].want \ inflight
           next == IF req[r].by = "submit" THEN "entry" ELSE "done"
<1>1. req[r] \in CallerState /\ req[r].pc = "queue" /\ fresh \in SUBSET Question
  BY DEF IInv, TypeOK, Queue, QueueAs, CallerState
<1>2. Leave(r, next) \in CallerState /\ Leave(r, next).pc = next
  BY LeaveFacts DEF IInv
<1>3. fill[r].pc = "none" /\ r \notin Running
  BY <1>1 DEF IInv, Fresh, Running
<1>4. /\ Thread("filling", fresh) \in ThreadState
      /\ Thread("filling", fresh).pc = "filling"
      /\ Thread("filling", fresh).batch = fresh
      /\ Thread("filling", fresh).left = fresh
      /\ Thread("filling", fresh).stale = fresh \ Missing
  BY <1>1, ThreadFacts
<1>5. /\ inflight' = inflight \cup fresh
      /\ fill' = IF fresh = {} THEN fill ELSE [fill EXCEPT ![r] = Thread("filling", fresh)]
      /\ req' = [req EXCEPT ![r] = Leave(r, next)]
      /\ assigned' = assigned /\ path' = path
  BY DEF Queue, QueueAs
<1> HIDE DEF fresh, next
<1>6. TypeOK'
  <2>1. fill' \in [Request -> ThreadState]
    BY <1>4, <1>5 DEF IInv, TypeOK
  <2>2. req' \in [Request -> CallerState]
    BY <1>2, <1>5 DEF IInv, TypeOK
  <2> QED BY <1>1, <1>5, <2>1, <2>2 DEF IInv, TypeOK
<1>7. Fresh'
  BY <1>2, <1>5 DEF IInv, Fresh, TypeOK, next
<1>8. CASE fresh = {}
  <2>1. Running' = Running
    BY <1>5, <1>8 DEF Running
  <2> QED BY <1>5, <1>6, <1>7, <1>8, <2>1 DEF IInv, Served, OneFillerPerQuestion, Untouched
<1>9. CASE fresh # {}
  <2>1. /\ \A s \in Request \ {r} : fill'[s] = fill[s]
        /\ fill'[r] = Thread("filling", fresh)
    BY <1>5, <1>9 DEF IInv, TypeOK
  <2>2. Running' = Running \cup {r}
    BY <1>4, <2>1 DEF Running
  <2>3. \A s \in Running : s # r /\ fill[s].batch \cap fresh = {}
    BY <1>3 DEF IInv, Served, TypeOK, Running, ThreadState, fresh
  <2>4. Served'
    BY <1>1, <1>3, <1>4, <1>5, <2>1, <2>2 DEF IInv, Served, Running
  <2>5. OneFillerPerQuestion'
    BY <1>4, <2>1, <2>2, <2>3 DEF IInv, OneFillerPerQuestion, Running
  <2>6. Untouched'
    <3>1. \A q \in fresh \ (fresh \ Missing) : path[q] = None
      BY DEF Missing
    <3> QED BY <1>4, <1>5, <2>1, <2>2, <2>3, <3>1 DEF IInv, Untouched, Running
  <2> QED BY <1>6, <1>7, <2>4, <2>5, <2>6 DEF IInv
<1> QED BY <1>8, <1>9

\* A thread finishing a question, stored or not.
LEMMA FinishStep ==
  ASSUME IInv, NEW r \in Request, NEW q \in Question, Store(r, q) \/ Fails(r, q)
  PROVE  IInv'
<1>1. r \in Running /\ q \in fill[r].left /\ q \in fill[r].batch
  BY DEF IInv, Store, Fails, Finished, Untouched
<1>2. /\ fill' = [fill EXCEPT ![r].left = @ \ {q}]
      /\ assigned' = assigned /\ inflight' = inflight /\ req' = req
      /\ path' \in [Question -> Request \cup {None}]
      /\ \A p \in Question \ {q} : path'[p] = path[p]
  BY DEF IInv, TypeOK, Store, Fails, Finished
<1>3. /\ \A s \in Request : /\ fill'[s].pc = fill[s].pc
                            /\ fill'[s].batch = fill[s].batch
                            /\ fill'[s].stale = fill[s].stale
                            /\ s # r => fill'[s].left = fill[s].left
      /\ fill'[r].left = fill[r].left \ {q}
      /\ fill' \in [Request -> ThreadState]
  BY <1>2 DEF IInv, TypeOK, ThreadState
<1>4. TypeOK' /\ Fresh'
  BY <1>2, <1>3 DEF IInv, TypeOK, Fresh
<1>5. Running' = Running
  BY <1>3 DEF Running
<1>6. Served' /\ OneFillerPerQuestion'
  BY <1>2, <1>3, <1>5 DEF IInv, Served, OneFillerPerQuestion, Running
<1>7. Untouched'
  <2> SUFFICES ASSUME NEW s \in Running
               PROVE  /\ fill'[s].left \subseteq fill'[s].batch
                      /\ \A p \in fill'[s].left \ fill'[s].stale : path'[p] = None
    BY <1>5 DEF Untouched
  <2>1. s \in Request /\ fill[s].left \subseteq Question
    BY DEF Running, IInv, TypeOK, ThreadState
  <2>2. q \notin fill'[s].left
    BY <1>1, <1>3, <2>1 DEF IInv, OneFillerPerQuestion, Untouched
  <2>3. fill'[s].left \subseteq fill[s].left
    BY <1>3, <2>1
  <2> QED BY <1>2, <1>3, <2>1, <2>2, <2>3 DEF IInv, Untouched
<1> QED BY <1>4, <1>6, <1>7 DEF IInv

\* A thread that ends takes its own questions, and no others, out of flight.
LEMMA EndStep ==
  ASSUME IInv, NEW r \in Request, End(r)
  PROVE  IInv'
<1>1. /\ r \in Running
      /\ inflight' = inflight \ fill[r].batch
      /\ fill' = [fill EXCEPT ![r] = Thread("ended", {})]
      /\ assigned' = assigned /\ path' = path /\ req' = req
  BY DEF End, EndWith
<1>2. Thread("ended", {}) \in ThreadState /\ Thread("ended", {}).pc = "ended"
  BY ThreadFacts
<1>3. /\ \A s \in Request \ {r} : fill'[s] = fill[s]
      /\ fill'[r].pc = "ended"
  BY <1>1, <1>2 DEF IInv, TypeOK
<1>4. TypeOK' /\ Fresh'
  BY <1>1, <1>2, <1>3 DEF IInv, TypeOK, Fresh, Running
<1>5. Running' = Running \ {r}
  BY <1>3 DEF Running
<1>6. Served'
  BY <1>1, <1>3, <1>5 DEF IInv, Served, OneFillerPerQuestion, Running
<1>7. OneFillerPerQuestion' /\ Untouched'
  BY <1>1, <1>3, <1>5 DEF IInv, OneFillerPerQuestion, Untouched, Running
<1> QED BY <1>4, <1>6, <1>7 DEF IInv

\* A restart forgets the set together with the threads.
LEMMA RestartStep ==
  ASSUME IInv, Restart
  PROVE  IInv'
<1>1. \A r \in Request : Leave(r, "failed") \in CallerState /\ Leave(r, "failed").pc = "failed"
  BY LeaveFacts DEF IInv
<1>2. Thread("ended", {}) \in ThreadState /\ Thread("ended", {}).pc = "ended"
  BY ThreadFacts
<1>3. /\ inflight' = {} /\ assigned' = assigned /\ path' = path
      /\ \A r \in Request : /\ req'[r] \in CallerState
                            /\ req'[r] = req[r] \/ req'[r].pc = "failed"
                            /\ req'[r] = req[r] => req[r].pc # "queue"
                            /\ fill'[r] \in ThreadState
                            /\ fill'[r] = fill[r] \/ fill[r].pc = "filling"
                            /\ fill'[r].pc # "filling"
  BY <1>1, <1>2 DEF Restart, Running, IInv, TypeOK
<1>4. TypeOK'
  BY <1>3 DEF Restart, IInv, TypeOK
<1>5. Running' = {}
  BY <1>3 DEF Running
<1>6. Fresh'
  BY <1>3 DEF IInv, Fresh
<1> QED BY <1>3, <1>4, <1>5, <1>6 DEF IInv, Served, OneFillerPerQuestion, Untouched

\* Every step keeps the invariant.
LEMMA NextIInv == IInv /\ [Next]_vars => IInv'
<1> SUFFICES ASSUME IInv, [Next]_vars PROVE IInv'
  OBVIOUS
<1>1. CASE \E r \in Request : Assign(r)
  BY <1>1, CallStep DEF Assign
<1>2. CASE \E r \in Request : StartExam(r)
  <2>1. Missing \subseteq Question /\ assigned \in BOOLEAN
    BY DEF Missing, IInv, TypeOK
  <2> QED BY <1>2, <2>1, CallStep DEF StartExam
<1>3. CASE \E r \in Request, q \in Question : SubmitAnswer(r, q)
  <2>1. assigned \in BOOLEAN
    BY DEF IInv, TypeOK
  <2> QED BY <1>3, <2>1, CallStep DEF SubmitAnswer
<1>4. CASE \E r \in Request : CallerStep(r)
  BY <1>4, QueueStep, GotoStep DEF CallerStep, AwaitEntry, Poll, Check
<1>5. CASE \E r \in Request : Deadline(r)
  <2>1. PICK r \in Request : Deadline(r)
    BY <1>5
  <2>2. TypeOK' /\ Fresh'
    BY <2>1 DEF Deadline, IInv, TypeOK, CallerState, Fresh
  <2>3. Running' = Running
    BY <2>1 DEF Deadline, Running
  <2> QED BY <2>1, <2>2, <2>3 DEF Deadline, IInv, Served, OneFillerPerQuestion, Untouched
<1>6. CASE \E r \in Request : ThreadStep(r)
  BY <1>6, FinishStep, EndStep DEF ThreadStep
<1>7. CASE Restart
  BY <1>7, RestartStep
<1>8. CASE UNCHANGED vars
  BY <1>8 DEF vars, IInv, TypeOK, Fresh, Served, OneFillerPerQuestion, Untouched, Running
<1> QED BY <1>1, <1>2, <1>3, <1>4, <1>5, <1>6, <1>7, <1>8 DEF Next

-----------------------------------------------------------------------------
\* The invariant holds of every reachable state.
THEOREM IInvHolds == Spec => []IInv
BY InitIInv, NextIInv, PTL DEF Spec

\* Type correctness, for any questions and any number of overlapping requests.
THEOREM TypeCorrect == Spec => []TypeOK
<1>1. IInv => TypeOK
  BY DEF IInv
<1> QED BY <1>1, IInvHolds, PTL

\* No id is left in _INFLIGHT_PATHS by a thread that ended or died, and none a thread
\* still works on is missing from it.
THEOREM InflightIsServedHolds == Spec => []InflightIsServed
<1>1. IInv => InflightIsServed
  <2> SUFFICES ASSUME IInv PROVE InflightIsServed
    OBVIOUS
  <2>1. inflight \subseteq Question /\ \A r \in Running : fill[r].batch \subseteq Question
    BY DEF IInv, TypeOK, ThreadState, Running
  <2> QED BY <2>1 DEF IInv, Served, InflightIsServed
<1> QED BY <1>1, IInvHolds, PTL

\* The threads started by any number of callers never share a question.
THEOREM OneFillerPerQuestionHolds == Spec => []OneFillerPerQuestion
<1>1. IInv => OneFillerPerQuestion
  BY DEF IInv
<1> QED BY <1>1, IInvHolds, PTL

\* A step that changes a stored path is the store of a thread queued on stale information.
LEMMA ReplaceStep ==
  ASSUME IInv, [Next]_vars, NEW q \in Question, path[q] # None, path'[q] # path[q]
  PROVE  path'[q] \in Running /\ q \in fill[path'[q]].stale
<1>1. PICK r \in Request, p \in Question : Store(r, p)
  BY DEF Next, Assign, StartExam, SubmitAnswer, Called, CallerStep, Queue, QueueAs, AwaitEntry,
         Poll, Check, Goto, Deadline, ThreadStep, Fails, End, EndWith, Restart, vars
<1>2. p = q /\ path'[q] = r /\ r \in Running /\ q \in fill[r].left
  BY <1>1 DEF Store, Finished, IInv, TypeOK
<1> QED BY <1>2 DEF IInv, Untouched

\* A stored path is replaced only on behalf of a caller that looked before it was there.
THEOREM ReplacedOnlyWhenStaleHolds == Spec => ReplacedOnlyWhenStale
<1>1. IInv /\ [Next]_vars =>
        [\A q \in Question : path[q] # None /\ path'[q] # path[q] =>
            path'[q] \in Running /\ q \in fill[path'[q]].stale]_vars
  BY ReplaceStep
<1> QED BY <1>1, IInvHolds, PTL DEF Spec, ReplacedOnlyWhenStale

-----------------------------------------------------------------------------
(***************************************************************************)
(* The refinement.  Holder picks a thread that works on a question; as no  *)
(* two do, a thread is the holder of exactly what is in its batch.         *)
(***************************************************************************)
HolderIsExact ==
  /\ \A q \in Question :
       /\ Holder[q] \in Request \cup {None}
       /\ \A r \in Request : Holder[q] = r <=> r \in Running /\ q \in fill[r].batch
  /\ \A q : q \in Open <=> \E r \in Running : q \in fill[r].left

\* With one filler per question the CHOOSE of Holder has one candidate.
LEMMA HolderFacts == IInv => HolderIsExact
<1> SUFFICES ASSUME IInv PROVE HolderIsExact
  OBVIOUS
<1>1. ASSUME NEW q \in Question
      PROVE  /\ Holder[q] \in Request \cup {None}
             /\ \A r \in Request : Holder[q] = r <=> r \in Running /\ q \in fill[r].batch
  <2>1. Holder[q] = IF FillersOf(q) = {} THEN None ELSE CHOOSE r \in FillersOf(q) : TRUE
    BY DEF Holder
  <2>2. CASE FillersOf(q) = {}
    <3>1. Holder[q] = None
      BY <2>1, <2>2
    <3>2. \A r \in Request : Holder[q] # r
      BY <3>1, NoneAssumption
    <3> QED BY <2>2, <3>1, <3>2 DEF FillersOf
  <2>3. CASE FillersOf(q) # {}
    <3>1. Holder[q] \in FillersOf(q)
      BY <2>1, <2>3
    <3>2. Holder[q] \in Running /\ q \in fill[Holder[q]].batch
      BY <3>1 DEF FillersOf
    <3>3. \A r \in Running : q \in fill[r].batch => r = Holder[q]
      BY <3>2 DEF IInv, OneFillerPerQuestion
    <3> QED BY <3>2, <3>3 DEF Running
  <2> QED BY <2>2, <2>3
<1>2. \A q : q \in Open <=> \E r \in Running : q \in fill[r].left
  BY DEF Open
<1> QED BY <1>1, <1>2 DEF HolderIsExact

\* The same at the other end of a step.
LEMMA HolderFactsNext == IInv' => HolderIsExact'
BY HolderFacts, PTL

\* What leaves the paths and the threads alone leaves the book alone.
LEMMA QuietStep ==
  ASSUME path' = path, fill' = fill
  PROVE  UNCHANGED Book!vars
<1>1. Running' = Running
  BY DEF Running
<1>2. Holder' = Holder
  BY <1>1 DEF Holder, FillersOf
<1>3. Open' = Open
  BY <1>1 DEF Open
<1> QED BY <1>2, <1>3 DEF Book!vars

\* A thread started on questions that are not in flight takes what is free.
LEMMA QueueTakes ==
  ASSUME IInv, HolderIsExact, HolderIsExact', NEW r \in Request, Queue(r), fill' # fill
  PROVE  Book!Next
<1> DEFINE fresh == req[r].want \ inflight
<1>1. /\ req[r].pc = "queue" /\ fresh # {} /\ fresh \in SUBSET Question
      /\ fill' = [fill EXCEPT ![r] = Thread("filling", fresh)]
      /\ path' = path
  BY DEF IInv, TypeOK, Queue, QueueAs, CallerState
<1>2. r \notin Running
  BY <1>1 DEF IInv, Fresh, Running
<1>3. Thread("filling", fresh).pc = "filling" /\ Thread("filling", fresh).batch = fresh
      /\ Thread("filling", fresh).left = fresh
  BY <1>1, ThreadFacts
<1> HIDE DEF fresh
<1>4. (\A s \in Request \ {r} : fill'[s] = fill[s]) /\ fill'[r] = Thread("filling", fresh)
  BY <1>1 DEF IInv, TypeOK
<1>5. Running' = Running \cup {r}
  BY <1>3, <1>4 DEF Running
<1>6. Book!HeldBy(r) = {}
  BY <1>2 DEF Book!HeldBy, HolderIsExact
<1>7. \A q \in fresh : Holder[q] = None
  <2> SUFFICES ASSUME NEW q \in fresh PROVE Holder[q] = None
    OBVIOUS
  <2>1. q \in Question /\ q \notin inflight
    BY <1>1 DEF fresh
  <2>2. \A s \in Running : q \notin fill[s].batch
    BY <2>1 DEF IInv, Served
  <2> QED BY <2>1, <2>2 DEF HolderIsExact
<1>8. Holder' = [q \in Question |-> IF q \in fresh THEN r ELSE Holder[q]]
  <2>1. ASSUME NEW q \in Question PROVE Holder'[q] = IF q \in fresh THEN r ELSE Holder[q]
    <3>1. CASE q \in fresh
      BY <1>3, <1>4, <1>5, <3>1 DEF HolderIsExact
    <3>2. CASE q \notin fresh
      <4>1. \A s \in Request : s \in Running' /\ q \in fill'[s].batch <=> s \in Running /\ q \in fill[s].batch
        BY <1>2, <1>3, <1>4, <1>5, <3>2
      <4>2. \A s \in Request : Holder'[q] = s <=> Holder[q] = s
        BY <4>1 DEF HolderIsExact
      <4> QED BY <3>2, <4>2 DEF HolderIsExact
    <3> QED BY <3>1, <3>2
  <2>2. Holder' = [q \in Question |-> Holder'[q]]
    BY DEF Holder
  <2> QED BY <2>1, <2>2
<1>9. Open' = Open \cup fresh
  <2>1. \A q : q \in Open' <=> q \in Open \/ q \in fresh
    BY <1>2, <1>3, <1>4, <1>5 DEF HolderIsExact, Running
  <2> QED BY <2>1
<1>10. Book!Take(r, fresh)
  BY <1>1, <1>6, <1>7, <1>8, <1>9 DEF Book!Take
<1> QED BY <1>1, <1>10 DEF Book!Next

\* Finishing a question is recording its path or giving it up.
LEMMA FinishDeals ==
  ASSUME IInv, HolderIsExact, HolderIsExact', NEW r \in Request, NEW q \in Question,
         Store(r, q) \/ Fails(r, q)
  PROVE  Book!Next
<1>1. /\ r \in Running /\ q \in fill[r].left /\ q \in fill[r].batch
      /\ fill' = [fill EXCEPT ![r].left = @ \ {q}]
  BY DEF IInv, Store, Fails, Finished, Untouched
<1>2. /\ \A s \in Request : /\ fill'[s].pc = fill[s].pc
                            /\ fill'[s].batch = fill[s].batch
                            /\ s # r => fill'[s].left = fill[s].left
      /\ fill'[r].left = fill[r].left \ {q}
  BY <1>1 DEF IInv, TypeOK, ThreadState
<1>3. Running' = Running
  BY <1>2 DEF Running
<1>4. Holder' = Holder
  <2>1. ASSUME NEW p \in Question PROVE Holder'[p] = Holder[p]
    <3>1. \A s \in Request : Holder'[p] = s <=> Holder[p] = s
      BY <1>2, <1>3 DEF HolderIsExact
    <3> QED BY <3>1 DEF HolderIsExact
  <2>2. Holder' = [p \in Question |-> Holder'[p]] /\ Holder = [p \in Question |-> Holder[p]]
    BY DEF Holder
  <2> QED BY <2>1, <2>2
<1>5. \A s \in Running : s # r => q \notin fill[s].left
  BY <1>1 DEF IInv, OneFillerPerQuestion, Untouched
<1>6. Open' = Open \ {q}
  <2>1. \A p : p \in Open' <=> p \in Open /\ p # q
    BY <1>1, <1>2, <1>3, <1>5 DEF HolderIsExact, Running
  <2> QED BY <2>1
<1>7. Book!Deal(r, q)
  BY <1>1, <1>4, <1>6 DEF Book!Deal, HolderIsExact
<1>8. Book!Record(r, q) \/ Book!GiveUp(r, q)
  BY <1>7 DEF Book!Record, Book!GiveUp, Store, Fails
<1> QED BY <1>8 DEF Book!Next

\* A thread that ends lets its questions go; with none in its batch nothing is seen of it.
LEMMA EndLetsGo ==
  ASSUME IInv, HolderIsExact, HolderIsExact', NEW r \in Request, End(r)
  PROVE  Book!Next \/ UNCHANGED Book!vars
<1>1. /\ r \in Running /\ path' = path
      /\ fill' = [fill EXCEPT ![r] = Thread("ended", {})]
  BY DEF End, EndWith
<1>2. Thread("ended", {}).pc = "ended"
  BY ThreadFacts
<1>3. (\A s \in Request \ {r} : fill'[s] = fill[s]) /\ fill'[r].pc = "ended"
  BY <1>1, <1>2 DEF IInv, TypeOK
<1>4. Running' = Running \ {r}
  BY <1>3 DEF Running
<1>5. Book!HeldBy(r) = fill[r].batch
  <2>1. fill[r].batch \subseteq Question
    BY <1>1 DEF IInv, TypeOK, ThreadState, Running
  <2> QED BY <1>1, <2>1 DEF Book!HeldBy, HolderIsExact
<1>6. Holder' = [q \in Question |-> IF Holder[q] = r THEN None ELSE Holder[q]]
  <2>1. ASSUME NEW q \in Question PROVE Holder'[q] = IF Holder[q] = r THEN None ELSE Holder[q]
    <3>1. \A s \in Request : Holder'[q] = s <=> Holder[q] = s /\ s # r
      BY <1>3, <1>4 DEF HolderIsExact
    <3> QED BY <3>1 DEF HolderIsExact
  <2>2. Holder' = [q \in Question |-> Holder'[q]]
    BY DEF Holder
  <2> QED BY <2>1, <2>2
<1>7. Open' = Open \ fill[r].batch
  <2>1. \A s \in Running : s # r => fill[s].left \cap fill[r].batch = {}
    BY <1>1 DEF IInv, OneFillerPerQuestion, Untouched
  <2>2. fill[r].left \subseteq fill[r].batch
    BY <1>1 DEF IInv, Untouched
  <2>3. \A p : p \in Open' <=> p \in Open /\ p \notin fill[r].batch
    BY <1>1, <1>3, <1>4, <2>1, <2>2 DEF HolderIsExact, Running
  <2> QED BY <2>3
<1>8. CASE fill[r].batch # {}
  BY <1>1, <1>5, <1>6, <1>7, <1>8 DEF Book!LetGo, Book!Next
<1>9. CASE fill[r].batch = {}
  <2>1. \A q \in Question : Holder[q] # r
    BY <1>9 DEF HolderIsExact
  <2>2. Holder = [q \in Question |-> Holder[q]]
    BY DEF Holder
  <2> QED BY <1>1, <1>6, <1>7, <1>9, <2>1, <2>2 DEF Book!vars
<1> QED BY <1>8, <1>9

\* A restart leaves no question with anybody.
LEMMA RestartForgets ==
  ASSUME IInv, HolderIsExact', Restart
  PROVE  Book!Next
<1>1. Thread("ended", {}).pc = "ended"
  BY ThreadFacts
<1>2. path' = path /\ \A r \in Request : fill'[r].pc # "filling"
  BY <1>1 DEF Restart, Running
<1>3. Running' = {}
  BY <1>2 DEF Running
<1>4. Holder' = [q \in Question |-> None]
  <2>1. \A q \in Question : Holder'[q] = None
    BY <1>3 DEF HolderIsExact
  <2>2. Holder' = [q \in Question |-> Holder'[q]]
    BY DEF Holder
  <2> QED BY <2>1, <2>2
<1>5. Open' = {}
  BY <1>3 DEF HolderIsExact
<1> QED BY <1>2, <1>4, <1>5 DEF Book!Forget, Book!Next

\* Every step is one of the book of paths, or none that it sees.
LEMMA BookStep == IInv /\ IInv' /\ [Next]_vars => [Book!Next]_(Book!vars)
<1> SUFFICES ASSUME IInv, IInv', [Next]_vars PROVE Book!Next \/ UNCHANGED Book!vars
  OBVIOUS
<1>1. HolderIsExact /\ HolderIsExact'
  BY HolderFacts, HolderFactsNext
<1>2. CASE \E r \in Request : CallerStep(r)
  <2>1. PICK r \in Request : CallerStep(r)
    BY <1>2
  <2>2. CASE Queue(r)
    <3>1. path' = path
      BY <2>2 DEF Queue, QueueAs
    <3> QED BY <1>1, <2>2, <3>1, QuietStep, QueueTakes
  <2>3. CASE AwaitEntry(r) \/ Poll(r) \/ Check(r)
    BY <2>3, QuietStep DEF AwaitEntry, Poll, Check, Goto
  <2> QED BY <2>1, <2>2, <2>3 DEF CallerStep
<1>3. CASE \E r \in Request : ThreadStep(r)
  BY <1>1, <1>3, FinishDeals, EndLetsGo DEF ThreadStep
<1>4. CASE Restart
  BY <1>1, <1>4, RestartForgets
<1>5. CASE \/ \E r \in Request : Assign(r) \/ StartExam(r) \/ Deadline(r)
           \/ \E r \in Request, q \in Question : SubmitAnswer(r, q)
           \/ UNCHANGED vars
  <2>1. path' = path /\ fill' = fill
    BY <1>5 DEF Assign, StartExam, SubmitAnswer, Called, Deadline, vars
  <2> QED BY <2>1, QuietStep
<1> QED BY <1>2, <1>3, <1>4, <1>5 DEF Next

\* In the beginning no question is with anybody.
LEMMA InitBook == Init => Book!Init
<1> SUFFICES ASSUME Init PROVE Book!Init
  OBVIOUS
<1>1. \A r \in Request : fill[r].pc = "none"
  BY ThreadFacts DEF Init
<1>2. Running = {}
  BY <1>1 DEF Running
<1>3. \A q \in Question : FillersOf(q) = {}
  BY <1>2 DEF FillersOf
<1>4. Holder = [q \in Question |-> None]
  BY <1>3 DEF Holder
<1>5. Open = {}
  BY <1>2 DEF Open
<1> QED BY <1>4, <1>5 DEF Init, Book!Init

\* Whatever the callers, the threads and restarts do, a question is with one thread at
\* most, and its path is written by that thread only, once each time.
THEOREM ImplementsPathBookHolds == Spec => ImplementsPathBook
BY InitBook, BookStep, IInvHolds, PTL DEF Spec, ImplementsPathBook, Book!Spec
=============================================================================
