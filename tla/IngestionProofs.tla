-------------------------- MODULE IngestionProofs ---------------------------
(***************************************************************************)
(* What holds of Ingestion for any number of versions, jobs, workers,      *)
(* crashes and late redeliveries.                                          *)
(***************************************************************************)
EXTENDS Ingestion, FiniteSetTheorems, TLAPS

(***************************************************************************)
(* The invariants are proved one after the other, each from those before.  *)
(* Base ties a worker to a job that was registered to the end.             *)
(***************************************************************************)
Attached ==
  \A w \in Worker : /\ wk[w].pc = "idle" <=> wk[w].job = None
                    /\ wk[w].job # None => reg[wk[w].job] = "done"

Registered ==
  \A j \in Job : /\ queue[j] # "none" <=> reg[j] = "done"
                 /\ reg[j] # "idle" => job[j].of \in Version

Base == TypeOK /\ Attached /\ Registered

-----------------------------------------------------------------------------
\* An UPDATE of the status keeps the rows and their type.
LEMMA StatusUpdate ==
  ASSUME TypeOK, NEW v \in Version,
         NEW status \in {"uploaded", "extracting", "chunking", "embedding", "ready", "failed"}
  PROVE  WithStatus(v, status) \in [Version -> VersionRow]
BY DEF WithStatus, TypeOK, VersionRow, Rows

\* Moving a worker on keeps its job.
LEMMA WorkerMoves ==
  ASSUME TypeOK, NEW w \in Worker,
         NEW pc \in Phases \cup {"idle", "load", "persist", "ready", "flip", "succeed", "failing",
                                 "dying", "ack"},
         Goto(w, pc)
  PROVE  /\ wk' \in [Worker -> WorkerState]
         /\ wk'[w].pc = pc /\ wk'[w].job = wk[w].job
         /\ \A x \in Worker \ {w} : wk'[x] = wk[x]
         /\ \A x \in Worker : wk'[x].job = wk[x].job
BY DEF Goto, TypeOK, WorkerState

\* So does noting that the version's status is written.
LEMMA WorkerNotes ==
  ASSUME TypeOK, NEW w \in Worker, wk' = [wk EXCEPT ![w].noted = TRUE]
  PROVE  /\ wk' \in [Worker -> WorkerState]
         /\ wk'[w].pc = wk[w].pc /\ wk'[w].job = wk[w].job
         /\ \A x \in Worker \ {w} : wk'[x] = wk[x]
         /\ \A x \in Worker : wk'[x].job = wk[x].job /\ wk'[x].pc = wk[x].pc
BY DEF TypeOK, WorkerState

\* So does loading the version.
LEMMA WorkerLoads ==
  ASSUME TypeOK, NEW w \in Worker, Load(w)
  PROVE  /\ wk' \in [Worker -> WorkerState]
         /\ wk'[w].pc = "extracting" /\ wk'[w].job = wk[w].job
         /\ \A x \in Worker \ {w} : wk'[x] = wk[x]
         /\ \A x \in Worker : wk'[x].job = wk[x].job
<1>1. "extracting" \in Phases /\ After["load"] = "extracting"
  BY DEF Phases, After
<1>2. (Of(w) \in Rows) \in BOOLEAN
  OBVIOUS
<1>3. ASSUME NEW found \in BOOLEAN, wk' = [wk EXCEPT ![w].pc = "extracting", ![w].found = found]
      PROVE  /\ wk' \in [Worker -> WorkerState]
             /\ wk'[w].pc = "extracting" /\ wk'[w].job = wk[w].job
             /\ \A x \in Worker \ {w} : wk'[x] = wk[x]
             /\ \A x \in Worker : wk'[x].job = wk[x].job
  BY <1>1, <1>3 DEF TypeOK, WorkerState
<1>4. wk' = [wk EXCEPT ![w].pc = "extracting", ![w].found = Of(w) \in Rows]
  BY <1>1, Zenon DEF Load
<1> QED BY <1>2, <1>3, <1>4, Zenon

\* One worker's step keeps Attached when it leaves that worker attached.
LEMMA AttachedStep ==
  ASSUME Attached, UNCHANGED reg, NEW w \in Worker,
         \A x \in Worker \ {w} : wk'[x] = wk[x],
         wk'[w].pc = "idle" <=> wk'[w].job = None,
         wk'[w].job # None => reg[wk'[w].job] = "done"
  PROVE  Attached'
<1> SUFFICES ASSUME NEW x \in Worker
             PROVE  /\ wk'[x].pc = "idle" <=> wk'[x].job = None
                    /\ wk'[x].job # None => reg[wk'[x].job] = "done"
  BY DEF Attached
<1>1. CASE x = w
  BY <1>1
<1>2. CASE x # w
  BY <1>2 DEF Attached
<1> QED BY <1>1, <1>2

\* Initially nothing is registered.
LEMMA BaseInit == Init => Base
<1> SUFFICES ASSUME Init PROVE Base
  OBVIOUS
<1>1. 0 \in Number
  BY BoundsAssumption, FS_CardinalityType DEF Number
<1>2. TypeOK
  BY <1>1, BoundsAssumption DEF Init, TypeOK, VersionRow, NoRow, JobRow, WorkerState, Resting
<1>3. Attached /\ Registered
  BY DEF Init, Attached, Registered, Resting
<1> QED BY <1>2, <1>3 DEF Base

\* A worker that is not idle has a job, and the job a version.
LEMMA WorkerJob ==
  ASSUME Base, NEW w \in Worker, wk[w].pc # "idle"
  PROVE  wk[w].job \in Job /\ Of(w) \in Version /\ wk[w].job # None
BY DEF Base, TypeOK, Attached, Registered, WorkerState, Of

\* The requests and the queue keep Base.
LEMMA BaseRequests ==
  ASSUME Base,
         \/ \E v \in Version : Presign(v) \/ CreateVersion(v) \/ Upload(v)
         \/ \E j \in Job, v \in Version : CreateJob(j, v)
         \/ \E j \in Job : MarkUploaded(j) \/ Send(j) \/ RegisterFails(j) \/ VisibilityTimeout(j)
         \/ DeleteMaterial
         \/ \E w \in Worker, j \in Job : Receive(w, j)
  PROVE  Base'
<1> USE DEF Base
<1>1. CASE \E v \in Version : Presign(v) \/ CreateVersion(v) \/ Upload(v)
  <2>1. PICK v \in Version : Presign(v) \/ CreateVersion(v) \/ Upload(v)
    BY <1>1
  <2>2. pre' \in [Version -> Number]
    BY <2>1 DEF Presign, CreateVersion, InsertVersion, Upload, TypeOK
  <2>3. ver' \in [Version -> VersionRow]
    <3>1. [no |-> pre[v], status |-> "pending", chunks |-> FALSE] \in VersionRow
      BY DEF TypeOK, VersionRow
    <3> QED BY <2>1, <3>1 DEF Presign, CreateVersion, InsertVersion, Upload, TypeOK
  <2> QED BY <2>1, <2>2, <2>3
          DEF Presign, CreateVersion, InsertVersion, Upload, TypeOK, Attached, Registered, Rows
<1>2. CASE \E j \in Job, v \in Version : CreateJob(j, v)
  BY <1>2 DEF CreateJob, material_vars, queue_vars, TypeOK, JobRow, Attached, Registered
<1>3. CASE \E j \in Job : MarkUploaded(j)
  <2>1. PICK j \in Job : MarkUploaded(j)
    BY <1>3
  <2>2. ver' \in [Version -> VersionRow]
    BY <2>1, StatusUpdate DEF MarkUploaded, Registered
  <2> QED BY <2>1, <2>2 DEF MarkUploaded, queue_vars, TypeOK, Attached, Registered
<1>4. CASE \E j \in Job : Send(j)
  BY <1>4 DEF Send, SendFrom, material_vars, TypeOK, Attached, Registered
<1>5. CASE \E j \in Job : RegisterFails(j)
  BY <1>5 DEF RegisterFails, material_vars, queue_vars, TypeOK, Attached, Registered
<1>6. CASE \E j \in Job : VisibilityTimeout(j)
  BY <1>6, BoundsAssumption DEF VisibilityTimeout, material_vars, TypeOK, Attached, Registered
<1>7. CASE DeleteMaterial
  <2>1. NoRow \in VersionRow
    BY BoundsAssumption, FS_CardinalityType DEF NoRow, VersionRow, Number
  <2> QED BY <1>7, <2>1 DEF DeleteMaterial, queue_vars, TypeOK, Attached, Registered
<1>8. CASE \E w \in Worker, j \in Job : Receive(w, j)
  <2>1. PICK w \in Worker, j \in Job : Receive(w, j)
    BY <1>8
  <2>2. wk' \in [Worker -> WorkerState] /\ wk'[w].pc = "load" /\ wk'[w].job = j
    BY <2>1 DEF Receive, TypeOK, WorkerState, Resting
  <2>3. \A x \in Worker \ {w} : wk'[x] = wk[x]
    BY <2>1 DEF Receive, TypeOK
  <2>4. Attached'
    <3>1. reg' = reg /\ j # None /\ reg[j] = "done"
      BY <2>1, NoneAssumption DEF Receive, Registered
    <3> QED BY <2>2, <2>3, <3>1, AttachedStep
  <2> QED BY <2>1, <2>2, <2>4 DEF Receive, material_vars, TypeOK, Registered
<1> QED BY <1>1, <1>2, <1>3, <1>4, <1>5, <1>6, <1>7, <1>8

\* A worker's steps keep Base.
LEMMA BaseWorker ==
  ASSUME Base, NEW w \in Worker, Run(w) \/ RunFails(w) \/ LoseConnection(w) \/ Crash(w)
  PROVE  Base'
<1> USE DEF Base
<1>0. wk[w].pc # "idle"
  BY DEF Run, Load, StepVersion, StepJob, Persist, MarkReady, SetCurrent, Succeed, RunFails,
         FailVersion, FailJob, RecordFailure, LoseConnection, Ack, AckAfter, Crash, Phases
<1>1. wk[w].job \in Job /\ Of(w) \in Version /\ wk[w].job # None
  BY <1>0, WorkerJob
<1>2. ASSUME NEW pc \in Phases \cup {"load", "persist", "ready", "flip", "succeed", "failing", "dying", "ack"},
             Goto(w, pc)
      PROVE  wk' \in [Worker -> WorkerState] /\ (UNCHANGED reg => Attached')
  BY <1>0, <1>2, WorkerMoves DEF Attached, Phases
<1>3. CASE Load(w)
  <2>1. wk' \in [Worker -> WorkerState] /\ Attached'
    <3>1. reg' = reg
      BY <1>3 DEF Load
    <3>2. wk' \in [Worker -> WorkerState] /\ wk'[w].pc = "extracting" /\ wk'[w].job = wk[w].job
      BY <1>3, WorkerLoads
    <3>3. \A x \in Worker \ {w} : wk'[x] = wk[x]
      BY <1>3, WorkerLoads
    <3> QED BY <1>0, <3>1, <3>2, <3>3, AttachedStep DEF Attached
  <2> QED BY <1>3, <2>1 DEF Load, material_vars, queue_vars, TypeOK, Registered
<1>4. CASE StepVersion(w)
  <2>1. ver' \in [Version -> VersionRow]
    BY <1>1, <1>4, StatusUpdate DEF StepVersion, Phases
  <2>2. wk' \in [Worker -> WorkerState] /\ Attached'
    <3>1. reg' = reg /\ wk' = [wk EXCEPT ![w].noted = TRUE]
      BY <1>4 DEF StepVersion, register_vars
    <3>2. wk' \in [Worker -> WorkerState] /\ wk'[w].pc = wk[w].pc /\ wk'[w].job = wk[w].job
      BY <3>1, WorkerNotes
    <3>3. \A x \in Worker \ {w} : wk'[x] = wk[x]
      BY <3>1, WorkerNotes
    <3> QED BY <3>1, <3>2, <3>3, AttachedStep DEF Attached
  <2> QED BY <1>4, <2>1, <2>2 DEF StepVersion, register_vars, queue_vars, TypeOK, Registered
<1>5. CASE StepJob(w)
  <2>1. wk' \in [Worker -> WorkerState] /\ Attached'
    BY <1>2, <1>5 DEF StepJob, After, Phases
  <2> QED BY <1>1, <1>5, <2>1 DEF StepJob, material_vars, queue_vars, TypeOK, JobRow, Registered
<1>6. CASE Persist(w)
  <2>1. wk' \in [Worker -> WorkerState] /\ Attached'
    BY <1>2, <1>6 DEF Persist, StoreChunks, StoreNothing, AbortPersist, Advance, After, register_vars
  <2>2. ver' \in [Version -> VersionRow] /\ lost' \subseteq Job /\ blank' \subseteq Version
    <3>1. CASE StoreChunks(w)
      <4>1. [ver[Of(w)] EXCEPT !.chunks = TRUE] \in VersionRow
        BY <1>1 DEF TypeOK, VersionRow
      <4> QED BY <1>1, <3>1, <4>1 DEF StoreChunks, TypeOK
    <3>2. CASE StoreNothing(w) \/ AbortPersist(w)
      BY <1>1, <3>2 DEF StoreNothing, AbortPersist, TypeOK
    <3> QED BY <1>6, <3>1, <3>2 DEF Persist
  <2>3. UNCHANGED <<material, current, reg, stored, pre, job, queue, late, twice, crashes>>
    BY <1>6 DEF Persist, queue_vars
  <2> QED BY <2>1, <2>2, <2>3 DEF TypeOK, Registered
<1>7. CASE MarkReady(w)
  <2>1. wk' \in [Worker -> WorkerState] /\ Attached'
    BY <1>2, <1>7 DEF MarkReady, Advance, After, register_vars
  <2>2. ver' \in [Version -> VersionRow]
    BY <1>1, <1>7, StatusUpdate DEF MarkReady
  <2> QED BY <1>7, <2>1, <2>2 DEF MarkReady, register_vars, queue_vars, TypeOK, Registered
<1>8. CASE SetCurrent(w)
  <2>1. wk' \in [Worker -> WorkerState] /\ Attached'
    BY <1>2, <1>8 DEF SetCurrent, Advance, After, register_vars
  <2> QED BY <1>1, <1>8, <2>1 DEF SetCurrent, register_vars, queue_vars, TypeOK, Registered
<1>9. CASE Succeed(w)
  <2>1. wk' \in [Worker -> WorkerState] /\ Attached'
    BY <1>2, <1>9 DEF Succeed, Advance, After
  <2> QED BY <1>1, <1>9, <2>1 DEF Succeed, material_vars, queue_vars, TypeOK, JobRow, Registered
<1>10. CASE RunFails(w)
  BY <1>2, <1>10 DEF RunFails, material_vars, queue_vars, TypeOK, Registered
<1>11. CASE FailVersion(w)
  <2>1. ver' \in [Version -> VersionRow]
    BY <1>1, <1>11, StatusUpdate DEF FailVersion
  <2>2. wk' \in [Worker -> WorkerState] /\ Attached'
    <3>1. reg' = reg /\ wk' = [wk EXCEPT ![w].noted = TRUE]
      BY <1>11 DEF FailVersion, register_vars
    <3>2. wk' \in [Worker -> WorkerState] /\ wk'[w].pc = wk[w].pc /\ wk'[w].job = wk[w].job
      BY <3>1, WorkerNotes
    <3>3. \A x \in Worker \ {w} : wk'[x] = wk[x]
      BY <3>1, WorkerNotes
    <3> QED BY <3>1, <3>2, <3>3, AttachedStep DEF Attached
  <2> QED BY <1>11, <2>1, <2>2 DEF FailVersion, register_vars, queue_vars, TypeOK, Registered
<1>12. CASE FailJob(w)
  <2>1. wk' \in [Worker -> WorkerState] /\ Attached'
    BY <1>2, <1>12 DEF FailJob, RecordFailure
  <2> QED BY <1>1, <1>12, <2>1 DEF FailJob, RecordFailure, material_vars, queue_vars, TypeOK, JobRow, Registered
<1>13. CASE LoseConnection(w)
  <2>1. wk' \in [Worker -> WorkerState] /\ Attached'
    BY <1>2, <1>13 DEF LoseConnection
  <2> QED BY <1>1, <1>13, <2>1, BoundsAssumption DEF LoseConnection, material_vars, queue_vars, TypeOK, Registered
<1>14. CASE Ack(w)
  BY <1>1, <1>14 DEF Ack, AckAfter, Deleted, material_vars, TypeOK, WorkerState, Resting, Attached, Registered
<1>15. CASE Crash(w)
  BY <1>15, BoundsAssumption DEF Crash, material_vars, queue_vars, TypeOK, WorkerState, Resting, Attached, Registered
<1> QED BY <1>3, <1>4, <1>5, <1>6, <1>7, <1>8, <1>9, <1>10, <1>11, <1>12, <1>13, <1>14, <1>15 DEF Run

\* Every step keeps Base.
LEMMA BaseNext == Base /\ [Next]_vars => Base'
<1> SUFFICES ASSUME Base, [Next]_vars PROVE Base'
  OBVIOUS
<1>1. CASE UNCHANGED vars
  BY <1>1 DEF vars, Base, TypeOK, Attached, Registered
<1> QED BY <1>1, BaseRequests, BaseWorker DEF Next

\* Base holds of every reachable state.
LEMMA BaseInvariant == Spec => []Base
BY BaseInit, BaseNext, PTL DEF Spec

\* Type correctness for any number of versions, jobs and workers.
THEOREM TypeCorrect == Spec => []TypeOK
<1>1. Base => TypeOK
  BY DEF Base
<1> QED BY <1>1, BaseInvariant, PTL

-----------------------------------------------------------------------------
\* A registered job's version goes only with the material.
Linked ==
  \A j \in Job : reg[j] # "idle" => material = "deleted" \/ job[j].of \in Rows

\* A step that keeps the material keeps its versions.
LEMMA RowsStay ==
  ASSUME Base, Next, material' = "exists"
  PROVE  Rows \subseteq Rows'
<1>0. TypeOK
  BY DEF Base
<1>1. ASSUME NEW v \in Version, NEW status, ver' = WithStatus(v, status)
      PROVE  Rows \subseteq Rows'
  BY <1>0, <1>1 DEF WithStatus, Rows, TypeOK, VersionRow
<1>2. CASE \E v \in Version : CreateVersion(v)
  BY <1>0, <1>2 DEF CreateVersion, InsertVersion, Rows, TypeOK, NoRow
<1>3. CASE \E j \in Job : MarkUploaded(j)
  BY <1>1, <1>3 DEF MarkUploaded, Base, Registered
<1>4. ASSUME NEW w \in Worker, StepVersion(w) \/ MarkReady(w) \/ FailVersion(w)
      PROVE  Rows \subseteq Rows'
  <2>1. wk[w].pc # "idle"
    BY <1>4 DEF StepVersion, MarkReady, FailVersion, Phases
  <2> QED BY <1>1, <1>4, <2>1, WorkerJob DEF StepVersion, MarkReady, FailVersion
<1>5. ASSUME NEW w \in Worker, Persist(w)
      PROVE  Rows \subseteq Rows'
  BY <1>0, <1>5 DEF Persist, StoreChunks, StoreNothing, AbortPersist, Rows, TypeOK, VersionRow
<1>6. CASE ver' = ver
  BY <1>6 DEF Rows
<1>7. \/ ver' = ver
      \/ \E v \in Version : CreateVersion(v)
      \/ \E j \in Job : MarkUploaded(j)
      \/ \E w \in Worker : StepVersion(w) \/ MarkReady(w) \/ FailVersion(w) \/ Persist(w)
  BY DEF Next, Presign, Upload, CreateJob, Send, SendFrom, RegisterFails, VisibilityTimeout,
         DeleteMaterial, Receive, Run, Load, StepJob, SetCurrent, Succeed, FailJob, RecordFailure,
         Ack, AckAfter, RunFails, LoseConnection, Crash, material_vars
<1> QED BY <1>2, <1>3, <1>4, <1>5, <1>6, <1>7

\* A step changes the version of a registered job never, and registers only existing ones.
LEMMA LinkedNext == Base /\ Linked /\ [Next]_vars => Linked'
<1> SUFFICES ASSUME Base, Linked, [Next]_vars PROVE Linked'
  OBVIOUS
<1>0. TypeOK
  BY DEF Base
<1>1. CASE UNCHANGED vars
  BY <1>1 DEF vars, Linked, Rows
<1>2. CASE Next
  <2> SUFFICES ASSUME NEW j \in Job, reg'[j] # "idle", material' # "deleted"
               PROVE  job'[j].of \in Rows'
    BY DEF Linked
  <2>1. material' \in {"exists", "deleted"}
    BY <1>2, BaseNext DEF Base, TypeOK
  <2>2. Rows \subseteq Rows'
    BY <1>2, <2>1, RowsStay
  <2>3. material # "deleted"
    BY <1>2, <2>1 DEF Next, Presign, CreateVersion, InsertVersion, Upload, CreateJob, MarkUploaded,
         Send, SendFrom, RegisterFails, VisibilityTimeout, DeleteMaterial, Receive, Run, Load,
         StepVersion, StepJob, Persist, MarkReady, SetCurrent, Succeed, FailVersion, FailJob,
         RecordFailure, Ack, AckAfter, RunFails, LoseConnection, Crash, material_vars
  <2>4. CASE reg[j] # "idle" /\ job'[j].of = job[j].of
    BY <2>2, <2>3, <2>4 DEF Linked
  <2>5. CASE \E i \in Job, v \in Version : CreateJob(i, v)
    <3>1. PICK i \in Job, v \in Version : CreateJob(i, v)
      BY <2>5
    <3>2. CASE i = j
      BY <1>0, <2>2, <3>1, <3>2 DEF CreateJob, TypeOK
    <3>3. CASE i # j
      BY <1>0, <2>2, <2>3, <3>1, <3>3 DEF CreateJob, TypeOK, Linked
    <3> QED BY <3>2, <3>3
  <2>6. CASE \E i \in Job : MarkUploaded(i) \/ Send(i) \/ RegisterFails(i)
    BY <1>0, <2>2, <2>3, <2>6 DEF MarkUploaded, Send, SendFrom, RegisterFails, TypeOK, Linked
  <2>7. ASSUME NEW w \in Worker, StepJob(w) \/ Succeed(w) \/ FailJob(w)
        PROVE  reg[j] # "idle" /\ job'[j].of = job[j].of
    <3>1. wk[w].pc # "idle" /\ reg' = reg
      BY <2>7 DEF StepJob, Succeed, FailJob, RecordFailure, Phases
    <3>2. wk[w].job \in Job
      BY <3>1, WorkerJob
    <3>3. PICK status : job' = [job EXCEPT ![wk[w].job].status = status]
      BY <2>7 DEF StepJob, Succeed, FailJob, RecordFailure
    <3> QED BY <1>0, <3>1, <3>2, <3>3 DEF TypeOK, JobRow
  <2>8. UNCHANGED <<reg, job>>
        \/ (\E i \in Job, v \in Version : CreateJob(i, v))
        \/ (\E i \in Job : MarkUploaded(i) \/ Send(i) \/ RegisterFails(i))
        \/ \E w \in Worker : StepJob(w) \/ Succeed(w) \/ FailJob(w)
    BY <1>2 DEF Next, Presign, CreateVersion, InsertVersion, Upload, VisibilityTimeout,
         DeleteMaterial, Receive, Run, Load, StepVersion, Persist, MarkReady, SetCurrent, FailVersion,
         Ack, AckAfter, RunFails, LoseConnection, Crash, register_vars
  <2> QED BY <2>4, <2>5, <2>6, <2>7, <2>8
<1> QED BY <1>1, <1>2

\* Always.
LEMMA LinkedInvariant == Spec => []Linked
<1>1. Init => Linked
  BY DEF Init, Linked
<1> QED BY <1>1, BaseInvariant, LinkedNext, PTL DEF Spec

(***************************************************************************)
(* What search serves.  A worker past its upsert has stored chunks that    *)
(* only the deletion of the material takes away (Kept), and after that     *)
(* nothing is left to be served (Gone).                                    *)
(***************************************************************************)
Gone == material = "deleted" => Rows = {} /\ current = None

Past(w) == wk[w].pc \in {"ready", "flip", "succeed"}

Kept ==
  \A w \in Worker :
     /\ Past(w) => material = "deleted" \/ (Of(w) \in Rows /\ Searchable(Of(w)))
     /\ wk[w].pc = "succeed" => material = "deleted" \/ current # None

SearchInv == Gone /\ ReadyIsSearchable /\ Kept

\* An UPDATE of the status touches nothing but that row's status.
LEMMA StatusFacts ==
  ASSUME TypeOK, NEW v \in Version, NEW status, ver' = WithStatus(v, status)
  PROVE  /\ Rows' = Rows
         /\ \A o \in Version : ver'[o].chunks = ver[o].chunks /\ ver'[o].no = ver[o].no
         /\ \A o \in Rows : ver'[o].status # ver[o].status => o = v /\ ver'[o].status = status
<1>1. \A o \in Version : ver'[o].no = ver[o].no /\ ver'[o].chunks = ver[o].chunks
  BY DEF WithStatus, TypeOK, VersionRow
<1>2. Rows' = Rows
  BY <1>1 DEF Rows
<1>3. \A o \in Rows : ver'[o].status # ver[o].status => o = v /\ ver'[o].status = status
  BY DEF WithStatus, TypeOK, VersionRow, Rows
<1> QED BY <1>1, <1>2, <1>3

\* A status other than "ready" may be written to any version at any time.
LEMMA SearchStatus ==
  ASSUME TypeOK, SearchInv, NEW v \in Version, NEW status, status # "ready",
         ver' = WithStatus(v, status), UNCHANGED <<material, current, blank, job>>,
         \A w \in Worker : wk'[w].pc = wk[w].pc /\ wk'[w].job = wk[w].job
  PROVE  SearchInv'
<1>1. /\ Rows' = Rows
      /\ \A o \in Version : ver'[o].chunks = ver[o].chunks
      /\ \A o \in Rows : ver'[o].status # ver[o].status => ver'[o].status = status
  BY StatusFacts
<1>2. Rows \subseteq Version
  BY DEF Rows
<1>3. ReadyIsSearchable'
  BY <1>1, <1>2 DEF SearchInv, ReadyIsSearchable, Searchable
<1>4. Kept'
  BY <1>1, <1>2 DEF SearchInv, Kept, Searchable, Past, Of
<1> QED BY <1>1, <1>3, <1>4 DEF SearchInv, Gone

\* A worker may go anywhere but past its upsert, and give its message up.
LEMMA SearchMoves ==
  ASSUME SearchInv, NEW w \in Worker, ~Past(w)',
         UNCHANGED <<material, current, blank, ver>>,
         \A x \in Worker \ {w} : wk'[x] = wk[x] /\ (wk[x].pc # "idle" => Of(x)' = Of(x)),
         \A j \in Job : job'[j].status = "succeeded" => job[j].status = "succeeded"
  PROVE  SearchInv'
<1>1. Rows' = Rows
  BY DEF Rows
<1>2. Gone' /\ ReadyIsSearchable'
  BY <1>1 DEF SearchInv, Gone, ReadyIsSearchable, Searchable
<1>3. ASSUME NEW x \in Worker
      PROVE  /\ Past(x)' => material' = "deleted" \/ (Of(x)' \in Rows' /\ (ver'[Of(x)'].chunks \/ Of(x)' \in blank'))
             /\ wk'[x].pc = "succeed" => material' = "deleted" \/ current' # None
  <2>1. CASE x = w
    BY <2>1 DEF Past
  <2>2. CASE x # w
    BY <1>1, <2>2 DEF SearchInv, Kept, Searchable, Past
  <2> QED BY <2>1, <2>2
<1> QED BY <1>2, <1>3 DEF SearchInv, Kept, Searchable

\* A status written to a job leaves every worker's version as it is.
LEMMA JobStatus ==
  ASSUME TypeOK, NEW j \in Job, NEW status, job' = [job EXCEPT ![j].status = status]
  PROVE  /\ \A k \in Job : job'[k].of = job[k].of
         /\ \A k \in Job \ {j} : job'[k] = job[k]
         /\ job'[j].status = status
BY DEF TypeOK, JobRow

\* Initially there is no version and no job.
LEMMA SearchInit == Init => SearchInv
BY NoneAssumption DEF Init, SearchInv, Gone, ReadyIsSearchable, Searchable, Kept, Past, Rows, NoRow, Resting

\* The requests and the queue keep what search serves.
LEMMA SearchRequests ==
  ASSUME Base, Base', SearchInv,
         \/ \E v \in Version : Presign(v) \/ CreateVersion(v) \/ Upload(v)
         \/ \E j \in Job, v \in Version : CreateJob(j, v)
         \/ \E j \in Job : MarkUploaded(j) \/ Send(j) \/ RegisterFails(j) \/ VisibilityTimeout(j)
         \/ DeleteMaterial
         \/ \E w \in Worker, j \in Job : Receive(w, j)
  PROVE  SearchInv'
<1>0. TypeOK
  BY DEF Base
<1>1. ASSUME UNCHANGED <<material, current, blank, ver, job, wk>>
      PROVE  SearchInv'
  BY <1>1 DEF SearchInv, Gone, ReadyIsSearchable, Searchable, Kept, Past, Of, Rows
<1>2. CASE \E v \in Version : Presign(v) \/ Upload(v)
  BY <1>1, <1>2 DEF Presign, Upload
<1>3. CASE \E v \in Version : CreateVersion(v)
  <2>1. PICK v \in Version : CreateVersion(v)
    BY <1>3
  <2>2. /\ material = "exists" /\ ver[v] = NoRow /\ pre[v] # 0
        /\ ver' = [ver EXCEPT ![v] = [no |-> pre[v], status |-> "pending", chunks |-> FALSE]]
        /\ UNCHANGED <<material, current, blank, job, wk>>
    BY <2>1 DEF CreateVersion, InsertVersion
  <2>3. /\ v \notin Rows /\ Rows' = Rows \cup {v}
        /\ ver'[v].status = "pending"
        /\ \A o \in Rows : ver'[o] = ver[o]
    BY <1>0, <2>2 DEF Rows, NoRow, TypeOK
  <2>4. Gone' /\ ReadyIsSearchable'
    BY <2>2, <2>3 DEF SearchInv, Gone, ReadyIsSearchable, Searchable
  <2>5. Kept'
    BY <2>2, <2>3 DEF SearchInv, Kept, Searchable, Past, Of
  <2> QED BY <2>4, <2>5 DEF SearchInv
<1>4. CASE \E j \in Job, v \in Version : CreateJob(j, v)
  <2>1. PICK j \in Job, v \in Version : CreateJob(j, v)
    BY <1>4
  <2>2. /\ reg[j] = "idle"
        /\ job' = [job EXCEPT ![j] = [status |-> "queued", of |-> v]]
        /\ UNCHANGED <<material, current, blank, ver, wk>>
    BY <2>1 DEF CreateJob, material_vars
  <2>3. /\ job'[j].status = "queued"
        /\ \A k \in Job \ {j} : job'[k] = job[k]
    BY <1>0, <2>2 DEF TypeOK
  <2>4. \A w \in Worker : wk[w].pc # "idle" => Of(w)' = Of(w)
    BY <2>2, <2>3, WorkerJob DEF Base, Attached, Of
  <2>5. Rows' = Rows
    BY <2>2 DEF Rows
  <2>6. Gone' /\ ReadyIsSearchable'
    BY <2>2, <2>3, <2>5 DEF SearchInv, Gone, ReadyIsSearchable, Searchable
  <2>7. Kept'
    BY <2>2, <2>4, <2>5 DEF SearchInv, Kept, Searchable, Past
  <2> QED BY <2>6, <2>7 DEF SearchInv
<1>5. CASE \E j \in Job : MarkUploaded(j)
  <2>1. PICK j \in Job : MarkUploaded(j)
    BY <1>5
  <2>2. job[j].of \in Version
    BY <2>1 DEF MarkUploaded, Base, Registered
  <2>3. ver' = WithStatus(job[j].of, "uploaded") /\ UNCHANGED <<material, current, blank, job, wk>>
    BY <2>1 DEF MarkUploaded
  <2> QED BY <1>0, <2>2, <2>3, SearchStatus
<1>6. CASE \E j \in Job : Send(j)
  BY <1>1, <1>6 DEF Send, SendFrom, material_vars
<1>7. CASE \E j \in Job : RegisterFails(j)
  BY <1>1, <1>7 DEF RegisterFails, material_vars
<1>8. CASE \E j \in Job : VisibilityTimeout(j)
  BY <1>1, <1>8 DEF VisibilityTimeout, material_vars
<1>9. CASE DeleteMaterial
  <2>1. /\ material' = "deleted" /\ current' = None /\ Rows' = {}
    BY <1>9 DEF DeleteMaterial, Rows, NoRow
  <2>2. UNCHANGED <<job, wk>>
    BY <1>9 DEF DeleteMaterial
  <2> QED BY <2>1, <2>2 DEF SearchInv, Gone, ReadyIsSearchable, Searchable, Kept
<1>10. CASE \E w \in Worker, j \in Job : Receive(w, j)
  <2>1. PICK w \in Worker, j \in Job : Receive(w, j)
    BY <1>10
  <2>2. wk'[w].pc = "load" /\ \A x \in Worker \ {w} : wk'[x] = wk[x]
    BY <1>0, <2>1 DEF Receive, TypeOK, WorkerState, Resting
  <2>3. UNCHANGED <<material, current, blank, ver, job>>
    BY <2>1 DEF Receive, material_vars
  <2>4. ~Past(w)' /\ \A x \in Worker \ {w} : Of(x)' = Of(x)
    BY <2>2, <2>3 DEF Past, Of
  <2> QED BY <2>2, <2>3, <2>4, SearchMoves
<1> QED BY <1>2, <1>3, <1>4, <1>5, <1>6, <1>7, <1>8, <1>9, <1>10

\* So do the workers.
LEMMA SearchWorker ==
  ASSUME Base, Linked, SearchInv, NEW w \in Worker, Run(w) \/ RunFails(w) \/ LoseConnection(w) \/ Crash(w)
  PROVE  SearchInv'
<1>0. TypeOK
  BY DEF Base
<1>1. wk[w].pc # "idle"
  BY DEF Run, Load, StepVersion, StepJob, Persist, MarkReady, SetCurrent, Succeed, RunFails,
         FailVersion, FailJob, RecordFailure, LoseConnection, Ack, AckAfter, Crash, Phases
<1>2. wk[w].job \in Job /\ Of(w) \in Version
  BY <1>1, WorkerJob
<1>3. ASSUME NEW pc \in Phases \cup {"persist", "failing", "dying", "ack"},
             Goto(w, pc), UNCHANGED <<material, current, blank, ver, job>>
      PROVE  SearchInv'
  <2>1. wk'[w].pc = pc /\ \A x \in Worker \ {w} : wk'[x] = wk[x]
    BY <1>0, <1>3, WorkerMoves
  <2>2. ~Past(w)'
    BY <2>1 DEF Past, Phases
  <2>3. \A x \in Worker \ {w} : Of(x)' = Of(x)
    BY <1>3, <2>1 DEF Of
  <2> QED BY <1>3, <2>1, <2>2, <2>3, SearchMoves
<1>4. ASSUME NEW pc \in Phases \cup {"persist", "failing", "dying", "ack"},
             Goto(w, pc), UNCHANGED <<material, current, blank, ver>>,
             NEW status, status # "succeeded", job' = [job EXCEPT ![wk[w].job].status = status]
      PROVE  SearchInv'
  <2>1. wk'[w].pc = pc /\ \A x \in Worker \ {w} : wk'[x] = wk[x]
    BY <1>0, <1>4, WorkerMoves
  <2>2. ~Past(w)'
    BY <2>1 DEF Past, Phases
  <2>3. /\ \A k \in Job : job'[k].of = job[k].of
        /\ \A k \in Job \ {wk[w].job} : job'[k] = job[k]
        /\ job'[wk[w].job].status = status
    BY <1>0, <1>2, <1>4, JobStatus
  <2>4. \A k \in Job : job'[k].status = "succeeded" => job[k].status = "succeeded"
    BY <1>4, <2>3
  <2>5. \A x \in Worker \ {w} : wk[x].pc # "idle" => Of(x)' = Of(x)
    BY <2>1, <2>3, WorkerJob DEF Of
  <2> QED BY <1>4, <2>1, <2>2, <2>4, <2>5, SearchMoves
<1>5. CASE Load(w)
  <2>1. wk'[w].pc = "extracting" /\ \A x \in Worker \ {w} : wk'[x] = wk[x]
    BY <1>0, <1>5, WorkerLoads
  <2>2. UNCHANGED <<material, current, blank, ver, job>>
    BY <1>5 DEF Load, material_vars
  <2>3. ~Past(w)' /\ \A x \in Worker \ {w} : Of(x)' = Of(x)
    BY <2>1, <2>2 DEF Past, Of
  <2> QED BY <2>1, <2>2, <2>3, SearchMoves
<1>6. CASE StepVersion(w)
  <2>1. /\ ver' = WithStatus(Of(w), wk[w].pc) /\ wk[w].pc # "ready"
        /\ wk' = [wk EXCEPT ![w].noted = TRUE]
        /\ UNCHANGED <<material, current, blank, job>>
    BY <1>6 DEF StepVersion, Phases, register_vars
  <2>2. \A x \in Worker : wk'[x].pc = wk[x].pc /\ wk'[x].job = wk[x].job
    BY <1>0, <2>1, WorkerNotes
  <2> QED BY <1>0, <1>2, <2>1, <2>2, SearchStatus
<1>7. CASE StepJob(w)
  <2>1. PICK pc \in Phases \cup {"persist", "failing", "dying", "ack"} : Goto(w, pc)
    BY <1>7 DEF StepJob, After, Phases
  <2> QED BY <1>4, <1>7, <2>1 DEF StepJob, material_vars
<1>8. CASE Persist(w)
  <2>1. CASE StoreChunks(w) \/ StoreNothing(w)
    <3>1. Goto(w, "ready") /\ UNCHANGED <<material, current, job>>
      BY <1>8, <2>1 DEF Persist, StoreChunks, StoreNothing, Advance, After
    <3>2. /\ wk'[w].pc = "ready"
          /\ \A x \in Worker \ {w} : wk'[x] = wk[x]
          /\ \A x \in Worker : wk'[x].job = wk[x].job
      BY <1>0, <3>1, WorkerMoves
    <3>3. /\ Rows' = Rows
          /\ ver'[Of(w)].chunks \/ Of(w) \in blank'
          /\ \A o \in Version : ver'[o].status = ver[o].status
      BY <1>0, <1>2, <2>1 DEF StoreChunks, StoreNothing, TypeOK, VersionRow, Rows
    <3>4. /\ \A o \in Version : ver[o].chunks => ver'[o].chunks
          /\ blank \subseteq blank'
      BY <1>0, <1>2, <2>1 DEF StoreChunks, StoreNothing, TypeOK, VersionRow
    <3>5. Gone' /\ ReadyIsSearchable'
      BY <3>1, <3>3, <3>4 DEF SearchInv, Gone, ReadyIsSearchable, Searchable, Rows
    <3>6. \A x \in Worker : Of(x)' = Of(x)
      BY <3>1, <3>2 DEF Of
    <3>7. material = "deleted" \/ Of(w) \in Rows
      BY <1>1, <1>2, NoneAssumption DEF Linked, Base, Attached, Of
    <3>8. Kept'
      <4> SUFFICES ASSUME NEW x \in Worker
                   PROVE  /\ Past(x)' => material' = "deleted" \/ (Of(x)' \in Rows' /\ (ver'[Of(x)'].chunks \/ Of(x)' \in blank'))
                          /\ wk'[x].pc = "succeed" => material' = "deleted" \/ current' # None
        BY DEF Kept, Searchable
      <4>1. CASE x = w
        BY <3>1, <3>2, <3>3, <3>6, <3>7, <4>1
      <4>2. CASE x # w
        BY <3>1, <3>2, <3>3, <3>4, <3>6, <4>2 DEF SearchInv, Kept, Searchable, Past, Rows
      <4> QED BY <4>1, <4>2
    <3> QED BY <3>5, <3>8 DEF SearchInv
  <2>2. CASE AbortPersist(w)
    BY <1>3, <1>8, <2>2 DEF Persist, AbortPersist
  <2> QED BY <1>8, <2>1, <2>2 DEF Persist
<1>9. CASE MarkReady(w)
  <2>1. /\ wk[w].pc = "ready" /\ ver' = WithStatus(Of(w), "ready") /\ Goto(w, "flip")
        /\ UNCHANGED <<material, current, blank, job>>
    BY <1>9 DEF MarkReady, Advance, After, register_vars
  <2>2. /\ wk'[w].pc = "flip"
        /\ \A x \in Worker \ {w} : wk'[x] = wk[x]
        /\ \A x \in Worker : wk'[x].job = wk[x].job
    BY <1>0, <2>1, WorkerMoves
  <2>3. /\ Rows' = Rows
        /\ \A o \in Version : ver'[o].chunks = ver[o].chunks
        /\ \A o \in Rows : ver'[o].status # ver[o].status => o = Of(w)
    BY <1>0, <1>2, <2>1, StatusFacts
  <2>4. material = "deleted" \/ (Of(w) \in Rows /\ Searchable(Of(w)))
    BY <2>1 DEF SearchInv, Kept, Searchable, Past
  <2>5. Gone'
    BY <2>1, <2>3 DEF SearchInv, Gone
  <2>6. ReadyIsSearchable'
    BY <2>1, <2>3, <2>4 DEF SearchInv, Gone, ReadyIsSearchable, Searchable, Rows
  <2>7. \A x \in Worker : Of(x)' = Of(x)
    BY <2>1, <2>2 DEF Of
  <2>8. \A x \in Worker : (Past(x)' => Past(x)) /\ (wk'[x].pc = "succeed" => wk[x].pc = "succeed")
    BY <2>1, <2>2 DEF Past
  <2>9. Kept'
    BY <2>1, <2>3, <2>7, <2>8 DEF SearchInv, Kept, Searchable, Rows
  <2> QED BY <2>5, <2>6, <2>9 DEF SearchInv
<1>10. CASE SetCurrent(w)
  <2>1. /\ wk[w].pc = "flip" /\ current' = (IF material = "exists" THEN Of(w) ELSE current)
        /\ Goto(w, "succeed") /\ UNCHANGED <<material, ver, job, blank>>
    BY <1>10 DEF SetCurrent, Advance, After, register_vars
  <2>2. /\ wk'[w].pc = "succeed"
        /\ \A x \in Worker \ {w} : wk'[x] = wk[x]
        /\ \A x \in Worker : wk'[x].job = wk[x].job
    BY <1>0, <2>1, WorkerMoves
  <2>3. Rows' = Rows /\ \A x \in Worker : Of(x)' = Of(x)
    BY <2>1, <2>2 DEF Rows, Of
  <2>4. material = "exists" => Of(w) \in Rows /\ Searchable(Of(w))
    BY <2>1 DEF SearchInv, Kept, Searchable, Past
  <2>5. Of(w) # None /\ (material = "exists" => current' = Of(w)) /\ (material # "exists" => current' = current)
    BY <1>2, <2>1, NoneAssumption
  <2>6. material \in {"exists", "deleted"}
    BY <1>0 DEF TypeOK
  <2>7. Gone' /\ ReadyIsSearchable'
    BY <2>1, <2>3, <2>4, <2>5, <2>6 DEF SearchInv, Gone, ReadyIsSearchable, Searchable
  <2>8. \A x \in Worker : Past(x)' => Past(x)
    BY <2>1, <2>2 DEF Past
  <2>9. Kept'
    BY <2>1, <2>3, <2>5, <2>6, <2>8 DEF SearchInv, Kept, Searchable
  <2> QED BY <2>7, <2>9 DEF SearchInv
<1>11. CASE Succeed(w)
  <2>1. /\ wk[w].pc = "succeed" /\ job' = [job EXCEPT ![wk[w].job].status = "succeeded"]
        /\ Goto(w, "ack") /\ UNCHANGED <<material, current, blank, ver>>
    BY <1>11 DEF Succeed, Advance, After, material_vars
  <2>2. material = "deleted" \/ current # None
    BY <2>1 DEF SearchInv, Kept, Searchable
  <2>3. wk'[w].pc = "ack" /\ \A x \in Worker \ {w} : wk'[x] = wk[x]
    BY <1>0, <2>1, WorkerMoves
  <2>4. \A k \in Job : job'[k].of = job[k].of
    BY <1>0, <1>2, <2>1, JobStatus
  <2>5. Rows' = Rows /\ \A x \in Worker \ {w} : wk[x].pc # "idle" => Of(x)' = Of(x)
    BY <2>1, <2>3, <2>4, WorkerJob DEF Rows, Of
  <2>6. Gone' /\ ReadyIsSearchable'
    BY <2>1, <2>2, <2>5 DEF SearchInv, Gone, ReadyIsSearchable, Searchable
  <2>7. ASSUME NEW x \in Worker
        PROVE  /\ Past(x)' => material' = "deleted" \/ (Of(x)' \in Rows' /\ (ver'[Of(x)'].chunks \/ Of(x)' \in blank'))
               /\ wk'[x].pc = "succeed" => material' = "deleted" \/ current' # None
    <3>1. CASE x = w
      BY <2>3, <3>1 DEF Past
    <3>2. CASE x # w
      BY <2>1, <2>3, <2>5, <3>2 DEF SearchInv, Kept, Searchable, Past
    <3> QED BY <3>1, <3>2
  <2> QED BY <2>6, <2>7 DEF SearchInv, Kept, Searchable
<1>12. CASE RunFails(w)
  BY <1>3, <1>12 DEF RunFails, material_vars
<1>13. CASE FailVersion(w)
  <2>1. /\ ver' = WithStatus(Of(w), "failed") /\ wk' = [wk EXCEPT ![w].noted = TRUE]
        /\ UNCHANGED <<material, current, blank, job>>
    BY <1>13 DEF FailVersion, register_vars
  <2>2. \A x \in Worker : wk'[x].pc = wk[x].pc /\ wk'[x].job = wk[x].job
    BY <1>0, <2>1, WorkerNotes
  <2> QED BY <1>0, <1>2, <2>1, <2>2, SearchStatus
<1>14. CASE FailJob(w)
  BY <1>4, <1>14 DEF FailJob, RecordFailure, material_vars
<1>15. CASE LoseConnection(w)
  BY <1>3, <1>15 DEF LoseConnection, material_vars
<1>16. ASSUME wk' = [wk EXCEPT ![w] = Resting], UNCHANGED <<material, current, blank, ver, job>>
       PROVE  SearchInv'
  <2>1. wk'[w].pc = "idle" /\ \A x \in Worker \ {w} : wk'[x] = wk[x]
    BY <1>0, <1>16 DEF TypeOK, Resting
  <2>2. ~Past(w)' /\ \A x \in Worker \ {w} : Of(x)' = Of(x)
    BY <1>16, <2>1 DEF Past, Of
  <2> QED BY <1>16, <2>1, <2>2, SearchMoves
<1>17. CASE Ack(w)
  BY <1>16, <1>17 DEF Ack, AckAfter, material_vars
<1>18. CASE Crash(w)
  BY <1>16, <1>18 DEF Crash, material_vars
<1> QED BY <1>5, <1>6, <1>7, <1>8, <1>9, <1>10, <1>11, <1>12, <1>13, <1>14, <1>15, <1>17, <1>18 DEF Run

\* Every step keeps what search serves.
LEMMA SearchNext == Base /\ Base' /\ Linked /\ SearchInv /\ [Next]_vars => SearchInv'
<1> SUFFICES ASSUME Base, Base', Linked, SearchInv, [Next]_vars PROVE SearchInv'
  OBVIOUS
<1>1. CASE UNCHANGED vars
  BY <1>1 DEF vars, SearchInv, Gone, ReadyIsSearchable, Searchable, Kept, Past, Of, Rows
<1> QED BY <1>1, SearchRequests, SearchWorker DEF Next

\* For any number of versions, jobs, workers, crashes and redeliveries: the current version,
\* and every version shown as ready, has chunks unless its file was blank, and a succeeded job means
\* a current version.
THEOREM ReadyIsSearchableHolds == Spec => []ReadyIsSearchable
<1>1. SearchInv => ReadyIsSearchable
  BY DEF SearchInv
<1> QED BY <1>1, BaseInvariant, LinkedInvariant, SearchInit, SearchNext, PTL DEF Spec

-----------------------------------------------------------------------------
(***************************************************************************)
(* Failures are recorded.  A job that was never with two workers at once   *)
(* keeps its message until its only worker gives it up, and that worker    *)
(* has then recorded the outcome or lost its transaction.                  *)
(***************************************************************************)
Exclusive ==
  \A w, x \in Worker : w # x /\ wk[w].job = wk[x].job /\ wk[w].job # None => wk[w].job \in twice

Undeleted ==
  \A w \in Worker : wk[w].job # None => wk[w].job \in twice \/ queue[wk[w].job] # "deleted"

Ending ==
  \A w \in Worker : /\ wk[w].pc = "ack" => wk[w].job \in twice \/ Settled(wk[w].job)
                    /\ wk[w].pc = "dying" => wk[w].job \in lost

RecordInv == Exclusive /\ Undeleted /\ Ending /\ RecordedUnlessLost

\* Initially no worker has a message.
LEMMA RecordInit == Init => RecordInv
BY DEF Init, RecordInv, Exclusive, Undeleted, Ending, RecordedUnlessLost, Handled, Resting

\* A worker that keeps its message may write to its own job only, must have recorded the
\* outcome when it is about to acknowledge, and counts as lost when it dies.
LEMMA RecordStep ==
  ASSUME Base, RecordInv, NEW w \in Worker, wk[w].job \in Job, wk[w].job # None,
         \A x \in Worker : wk'[x].job = wk[x].job,
         \A x \in Worker \ {w} : wk'[x].pc = wk[x].pc,
         UNCHANGED <<queue, twice>>, lost \subseteq lost',
         \A k \in Job \ {wk[w].job} : job'[k].status = job[k].status,
         wk'[w].pc = "ack" => Settled(wk[w].job)',
         wk'[w].pc = "dying" => wk[w].job \in lost'
  PROVE  RecordInv'
<1>1. Exclusive' /\ Undeleted'
  BY DEF RecordInv, Exclusive, Undeleted
<1>2. ASSUME NEW x \in Worker
      PROVE  /\ wk'[x].pc = "ack" => wk'[x].job \in twice' \/ Settled(wk[x].job)'
             /\ wk'[x].pc = "dying" => wk'[x].job \in lost'
  <2>1. CASE x = w
    BY <2>1 DEF Settled
  <2>2. CASE x # w /\ wk[x].job = wk[w].job
    BY <2>2 DEF RecordInv, Exclusive, Ending
  <2>3. CASE x # w /\ wk[x].job # wk[w].job
    <3>1. wk[x].job \in Job \cup {None}
      BY DEF Base, TypeOK, WorkerState
    <3>2. CASE wk[x].job \in Job
      BY <2>3, <3>2 DEF RecordInv, Ending, Settled
    <3>3. CASE wk[x].job = None
      <4>1. wk[x].pc = "idle"
        BY <3>3 DEF Base, Attached
      <4> QED BY <2>3, <4>1
    <3> QED BY <3>1, <3>2, <3>3
  <2> QED BY <2>1, <2>2, <2>3
<1>3. Ending'
  BY <1>2 DEF Ending, Settled
<1>4. ASSUME NEW k \in Job, k \notin (twice \cup lost)', Handled(k)'
      PROVE  Settled(k)'
  <2>1. Handled(k) /\ k # wk[w].job
    BY <1>4 DEF Handled, Holders
  <2>2. Settled(k)
    BY <1>4, <2>1 DEF RecordInv, RecordedUnlessLost
  <2> QED BY <2>1, <2>2 DEF Settled
<1>5. RecordedUnlessLost'
  BY <1>4 DEF RecordedUnlessLost
<1> QED BY <1>1, <1>3, <1>5 DEF RecordInv

\* A worker that gives its message up leaves the others as they are; if it deletes the
\* message, it has recorded the outcome, or it counts as lost.
LEMMA RecordRelease ==
  ASSUME Base, RecordInv, NEW w \in Worker, wk[w].pc # "idle",
         wk' = [wk EXCEPT ![w] = Resting], UNCHANGED <<job, twice, lost>>,
         \A k \in Job \ {wk[w].job} : queue'[k] = queue[k],
         queue'[wk[w].job] # queue[wk[w].job] => wk[w].pc \in {"ack", "dying"}
  PROVE  RecordInv'
<1>0. TypeOK /\ wk[w].job \in Job /\ wk[w].job # None
  BY WorkerJob DEF Base
<1>1. /\ wk'[w].pc = "idle" /\ wk'[w].job = None
      /\ \A x \in Worker \ {w} : wk'[x] = wk[x]
  BY <1>0 DEF TypeOK, Resting
<1>2. Exclusive'
  BY <1>1 DEF RecordInv, Exclusive
<1>3. Undeleted'
  <2> SUFFICES ASSUME NEW x \in Worker, wk'[x].job # None
               PROVE  wk'[x].job \in twice' \/ queue'[wk'[x].job] # "deleted"
    BY DEF Undeleted
  <2>1. x # w /\ wk'[x].job = wk[x].job
    BY <1>1
  <2>2. CASE wk[x].job = wk[w].job
    BY <1>0, <2>1, <2>2 DEF RecordInv, Exclusive
  <2>3. CASE wk[x].job # wk[w].job
    <3>1. wk[x].job \in Job
      BY <2>1, <1>0 DEF TypeOK, WorkerState
    <3> QED BY <2>1, <2>3, <3>1 DEF RecordInv, Undeleted
  <2> QED BY <2>2, <2>3
<1>4. Ending'
  BY <1>1 DEF RecordInv, Ending, Settled
<1>5. ASSUME NEW k \in Job, k \notin twice \cup lost, Handled(k)'
      PROVE  Settled(k)'
  <2>1. CASE k # wk[w].job
    <3>1. Handled(k)
      BY <1>1, <1>5, <2>1 DEF Handled, Holders
    <3> QED BY <1>5, <3>1 DEF RecordInv, RecordedUnlessLost, Settled
  <2>2. CASE k = wk[w].job
    <3>1. queue'[k] = "deleted" /\ queue[k] # "deleted"
      BY <1>0, <1>5, <2>2 DEF RecordInv, Undeleted, Handled
    <3>2. wk[w].pc \in {"ack", "dying"}
      BY <2>2, <3>1
    <3>3. wk[w].pc = "ack"
      BY <1>5, <2>2, <3>2 DEF RecordInv, Ending
    <3> QED BY <1>5, <2>2, <3>3 DEF RecordInv, Ending, Settled
  <2> QED BY <2>1, <2>2
<1>6. RecordedUnlessLost'
  BY <1>5 DEF RecordedUnlessLost
<1> QED BY <1>2, <1>3, <1>4, <1>6 DEF RecordInv

\* The requests and the queue keep it: no message is deleted here, and no job written
\* that was registered before.
LEMMA RecordRequests ==
  ASSUME Base, RecordInv,
         \/ \E v \in Version : Presign(v) \/ CreateVersion(v) \/ Upload(v)
         \/ \E j \in Job, v \in Version : CreateJob(j, v)
         \/ \E j \in Job : MarkUploaded(j) \/ Send(j) \/ RegisterFails(j) \/ VisibilityTimeout(j)
         \/ DeleteMaterial
         \/ \E w \in Worker, j \in Job : Receive(w, j)
  PROVE  RecordInv'
<1>0. TypeOK
  BY DEF Base
<1>1. ASSUME UNCHANGED <<job, queue, wk, twice, lost>>
      PROVE  RecordInv'
  BY <1>1 DEF RecordInv, Exclusive, Undeleted, Ending, RecordedUnlessLost, Handled, Settled, Holders
<1>2. CASE \E v \in Version : Presign(v) \/ CreateVersion(v) \/ Upload(v)
  BY <1>1, <1>2 DEF Presign, CreateVersion, InsertVersion, Upload
<1>3. CASE \E j \in Job, v \in Version : CreateJob(j, v)
  <2>1. PICK j \in Job, v \in Version : CreateJob(j, v)
    BY <1>3
  <2>2. /\ reg[j] = "idle" /\ UNCHANGED <<queue, wk, twice, lost>>
        /\ job' = [job EXCEPT ![j] = [status |-> "queued", of |-> v]]
    BY <2>1 DEF CreateJob, queue_vars
  <2>3. \A k \in Job \ {j} : job'[k] = job[k]
    BY <1>0, <2>2 DEF TypeOK
  <2>4. queue[j] = "none" /\ \A w \in Worker : wk[w].job # j
    BY <2>2, NoneAssumption DEF Base, Attached, Registered, TypeOK
  <2>5. Exclusive' /\ Undeleted'
    BY <2>2 DEF RecordInv, Exclusive, Undeleted
  <2>6. Ending'
    <3> SUFFICES ASSUME NEW w \in Worker
                 PROVE  /\ wk[w].pc = "ack" => wk[w].job \in twice \/ Settled(wk[w].job)'
                        /\ wk[w].pc = "dying" => wk[w].job \in lost
      BY <2>2 DEF Ending, Settled
    <3>1. wk[w].pc = "ack" => wk[w].job \in Job \ {j}
      BY <2>4, WorkerJob
    <3> QED BY <2>2, <2>3, <3>1 DEF RecordInv, Ending, Settled
  <2>7. RecordedUnlessLost'
    BY <2>2, <2>3, <2>4 DEF RecordInv, RecordedUnlessLost, Handled, Holders, Settled
  <2> QED BY <2>5, <2>6, <2>7 DEF RecordInv
<1>4. CASE \E j \in Job : MarkUploaded(j) \/ RegisterFails(j)
  BY <1>1, <1>4 DEF MarkUploaded, RegisterFails, queue_vars
<1>5. ASSUME NEW j \in Job, queue' = [queue EXCEPT ![j] = "visible"], UNCHANGED <<job, wk, twice, lost>>
      PROVE  RecordInv'
  <2>1. \A k \in Job : queue'[k] = "deleted" => queue[k] = "deleted"
    BY <1>0, <1>5 DEF TypeOK
  <2>2. \A w \in Worker : wk[w].job # None => wk[w].job \in Job
    BY <1>0 DEF TypeOK, WorkerState
  <2> QED BY <1>5, <2>1, <2>2
          DEF RecordInv, Exclusive, Undeleted, Ending, RecordedUnlessLost, Handled, Settled, Holders
<1>6. CASE \E j \in Job : Send(j) \/ VisibilityTimeout(j)
  BY <1>5, <1>6 DEF Send, SendFrom, VisibilityTimeout
<1>7. CASE DeleteMaterial
  BY <1>1, <1>7 DEF DeleteMaterial, queue_vars
<1>8. CASE \E w \in Worker, j \in Job : Receive(w, j)
  <2>1. PICK w \in Worker, j \in Job : Receive(w, j)
    BY <1>8
  <2>2. /\ wk'[w].pc = "load" /\ wk'[w].job = j
        /\ \A x \in Worker \ {w} : wk'[x] = wk[x]
    BY <1>0, <2>1 DEF Receive, TypeOK, WorkerState, Resting
  <2>3. /\ queue[j] = "visible" /\ queue'[j] = "hidden"
        /\ \A k \in Job \ {j} : queue'[k] = queue[k]
        /\ UNCHANGED <<job, lost>>
    BY <1>0, <2>1 DEF Receive, TypeOK
  <2>4. twice \subseteq twice' /\ (Holders(j) # {} => j \in twice')
    BY <2>1 DEF Receive
  <2>5. Exclusive'
    BY <2>2, <2>4 DEF RecordInv, Exclusive, Holders
  <2>6. Undeleted'
    <3> SUFFICES ASSUME NEW x \in Worker, wk'[x].job # None
                 PROVE  wk'[x].job \in twice' \/ queue'[wk'[x].job] # "deleted"
      BY DEF Undeleted
    <3>1. CASE wk'[x].job = j
      BY <2>3, <3>1
    <3>2. CASE wk'[x].job # j
      <4>1. wk'[x].job = wk[x].job /\ wk[x].job \in Job \ {j}
        BY <1>0, <2>2, <3>2 DEF TypeOK, WorkerState
      <4> QED BY <2>3, <2>4, <4>1 DEF RecordInv, Undeleted
    <3> QED BY <3>1, <3>2
  <2>7. Ending'
    BY <2>2, <2>3, <2>4 DEF RecordInv, Ending, Settled
  <2>8. ASSUME NEW k \in Job, k \notin (twice \cup lost)', Handled(k)'
        PROVE  Settled(k)'
    <3>1. k # j
      BY <2>3, <2>8 DEF Handled
    <3>2. \A x \in Worker : wk[x].job = k => wk'[x].job = k
      <4>1. wk[w].job = None /\ k # None
        BY <2>1, NoneAssumption DEF Receive, Base, Attached
      <4> QED BY <2>2, <4>1
    <3>3. Handled(k) /\ k \notin twice \cup lost
      BY <2>3, <2>4, <2>8, <3>1, <3>2 DEF Handled, Holders
    <3> QED BY <2>3, <3>3 DEF RecordInv, RecordedUnlessLost, Settled
  <2>9. RecordedUnlessLost'
    BY <2>8 DEF RecordedUnlessLost
  <2> QED BY <2>5, <2>6, <2>7, <2>9 DEF RecordInv
<1> QED BY <1>2, <1>3, <1>4, <1>6, <1>7, <1>8

\* So do the workers.
LEMMA RecordWorker ==
  ASSUME Base, RecordInv, NEW w \in Worker, Run(w) \/ RunFails(w) \/ LoseConnection(w) \/ Crash(w)
  PROVE  RecordInv'
<1>0. TypeOK
  BY DEF Base
<1>1. wk[w].pc # "idle"
  BY DEF Run, Load, StepVersion, StepJob, Persist, MarkReady, SetCurrent, Succeed, RunFails,
         FailVersion, FailJob, RecordFailure, LoseConnection, Ack, AckAfter, Crash, Phases
<1>2. wk[w].job \in Job /\ wk[w].job # None
  BY <1>1, WorkerJob
<1>3. ASSUME NEW pc \in Phases \cup {"persist", "ready", "flip", "succeed", "failing", "dying"},
             Goto(w, pc), UNCHANGED <<queue, twice>>, lost \subseteq lost',
             pc = "dying" => wk[w].job \in lost',
             \A k \in Job \ {wk[w].job} : job'[k].status = job[k].status
      PROVE  RecordInv'
  <2>1. /\ wk'[w].pc = pc
        /\ \A x \in Worker \ {w} : wk'[x] = wk[x]
        /\ \A x \in Worker : wk'[x].job = wk[x].job
    BY <1>0, <1>3, WorkerMoves
  <2>2. wk'[w].pc # "ack"
    BY <2>1 DEF Phases
  <2> QED BY <1>2, <1>3, <2>1, <2>2, RecordStep
<1>4. ASSUME Goto(w, "ack"), UNCHANGED <<queue, twice, lost>>,
             NEW status \in {"succeeded", "failed"},
             job' = [job EXCEPT ![wk[w].job].status = status]
      PROVE  RecordInv'
  <2>1. /\ wk'[w].pc = "ack"
        /\ \A x \in Worker \ {w} : wk'[x] = wk[x]
        /\ \A x \in Worker : wk'[x].job = wk[x].job
    BY <1>0, <1>4, WorkerMoves
  <2>2. /\ \A k \in Job \ {wk[w].job} : job'[k] = job[k]
        /\ job'[wk[w].job].status = status
    BY <1>0, <1>2, <1>4, JobStatus
  <2>3. Settled(wk[w].job)'
    BY <2>1, <2>2 DEF Settled
  <2> QED BY <1>2, <1>4, <2>1, <2>2, <2>3, RecordStep
<1>5. ASSUME wk[w].pc \notin {"ack", "dying"}, wk' = [wk EXCEPT ![w].noted = TRUE],
             UNCHANGED <<job, queue, twice, lost>>
      PROVE  RecordInv'
  <2>1. /\ wk'[w].pc = wk[w].pc
        /\ \A x \in Worker \ {w} : wk'[x] = wk[x]
        /\ \A x \in Worker : wk'[x].job = wk[x].job
    BY <1>0, <1>5, WorkerNotes
  <2> QED BY <1>2, <1>5, <2>1, RecordStep
<1>6. CASE Load(w)
  <2>1. /\ wk'[w].pc = "extracting" /\ wk'[w].job = wk[w].job
        /\ \A x \in Worker \ {w} : wk'[x] = wk[x]
        /\ \A x \in Worker : wk'[x].job = wk[x].job
    BY <1>0, <1>6, WorkerLoads
  <2>2. UNCHANGED <<job, queue, twice, lost>>
    BY <1>6 DEF Load, queue_vars
  <2> QED BY <1>2, <2>1, <2>2, RecordStep
<1>7. CASE StepVersion(w)
  BY <1>5, <1>7 DEF StepVersion, queue_vars, Phases
<1>8. CASE StepJob(w)
  <2>1. PICK pc \in Phases \cup {"persist", "failing"} : Goto(w, pc)
    BY <1>8 DEF StepJob, After, Phases
  <2>2. UNCHANGED <<queue, twice, lost>> /\ job' = [job EXCEPT ![wk[w].job].status = "running"]
    BY <1>8 DEF StepJob, queue_vars
  <2>3. \A k \in Job \ {wk[w].job} : job'[k] = job[k]
    BY <1>0, <1>2, <2>2, JobStatus
  <2>4. pc # "dying"
    BY DEF Phases
  <2> QED BY <1>3, <2>1, <2>2, <2>3, <2>4
<1>9. CASE Persist(w)
  BY <1>3, <1>9 DEF Persist, StoreChunks, StoreNothing, AbortPersist, Advance, After, queue_vars
<1>10. CASE MarkReady(w)
  BY <1>3, <1>10 DEF MarkReady, Advance, After, queue_vars
<1>11. CASE SetCurrent(w)
  BY <1>3, <1>11 DEF SetCurrent, Advance, After, queue_vars
<1>12. CASE Succeed(w)
  BY <1>4, <1>12 DEF Succeed, Advance, After, queue_vars
<1>13. CASE RunFails(w)
  BY <1>3, <1>13 DEF RunFails, queue_vars
<1>14. CASE FailVersion(w)
  BY <1>5, <1>14 DEF FailVersion, queue_vars
<1>15. CASE FailJob(w)
  BY <1>4, <1>15 DEF FailJob, RecordFailure, queue_vars
<1>16. CASE LoseConnection(w)
  BY <1>3, <1>16 DEF LoseConnection, queue_vars
<1>17. CASE Ack(w)
  <2>1. /\ wk[w].pc \in {"ack", "dying"} /\ wk' = [wk EXCEPT ![w] = Resting]
        /\ UNCHANGED <<job, twice, lost>>
    BY <1>17 DEF Ack, AckAfter
  <2>2. \A k \in Job \ {wk[w].job} : queue'[k] = queue[k]
    BY <1>0, <1>17 DEF Ack, AckAfter, Deleted, TypeOK
  <2> QED BY <1>1, <2>1, <2>2, RecordRelease
<1>18. CASE Crash(w)
  BY <1>1, <1>18, RecordRelease DEF Crash, queue_vars
<1> QED BY <1>6, <1>7, <1>8, <1>9, <1>10, <1>11, <1>12, <1>13, <1>14, <1>15, <1>16, <1>17, <1>18 DEF Run

\* Every step keeps it.
LEMMA RecordNext == Base /\ RecordInv /\ [Next]_vars => RecordInv'
<1> SUFFICES ASSUME Base, RecordInv, [Next]_vars PROVE RecordInv'
  OBVIOUS
<1>1. CASE UNCHANGED vars
  BY <1>1 DEF vars, RecordInv, Exclusive, Undeleted, Ending, RecordedUnlessLost, Handled, Settled, Holders
<1> QED BY <1>1, RecordRequests, RecordWorker DEF Next

\* For any number of jobs, workers, crashes and redeliveries: a message is gone without a
\* recorded outcome only where two workers had it or a worker had lost its transaction.
THEOREM RecordedUnlessLostHolds == Spec => []RecordedUnlessLost
<1>1. RecordInv => RecordedUnlessLost
  BY DEF RecordInv
<1> QED BY <1>1, BaseInvariant, RecordInit, RecordNext, PTL DEF Spec

-----------------------------------------------------------------------------
(***************************************************************************)
(* Version numbers.  A presign saw all the numbers below its own, and rows *)
(* are deleted only all together, so they are still there when it inserts. *)
(***************************************************************************)
PresignSawAll ==
  material = "exists" =>
    \A v \in Version : \A n \in 1 .. pre[v] - 1 : \E o \in Rows : ver[o].no = n

NumberInv == VersionsNumbered /\ PresignSawAll

\* What changes neither a number nor the requests keeps the numbering.
LEMMA NumberKept ==
  ASSUME NumberInv, UNCHANGED <<material, pre>>, \A v \in Version : ver'[v].no = ver[v].no
  PROVE  NumberInv'
<1>1. Rows' = Rows
  BY DEF Rows
<1>2. Rows \subseteq Version
  BY DEF Rows
<1>3. VersionsNumbered'
  BY <1>1, <1>2 DEF NumberInv, VersionsNumbered
<1>4. PresignSawAll'
  BY <1>1, <1>2 DEF NumberInv, PresignSawAll
<1> QED BY <1>3, <1>4 DEF NumberInv

\* Initially there is nothing to number.
LEMMA NumberInit == Init => NumberInv
BY DEF Init, NumberInv, VersionsNumbered, PresignSawAll, Rows, NoRow

\* Every step keeps the numbering.
LEMMA NumberNext == Base /\ Gone /\ NumberInv /\ [Next]_vars => NumberInv'
<1> SUFFICES ASSUME Base, Gone, NumberInv, [Next]_vars PROVE NumberInv'
  OBVIOUS
<1>0. TypeOK
  BY DEF Base
<1>1. ASSUME UNCHANGED <<material, pre, ver>>
      PROVE  NumberInv'
  BY <1>1, NumberKept
<1>2. ASSUME NEW v \in Version, NEW status, ver' = WithStatus(v, status), UNCHANGED <<material, pre>>
      PROVE  NumberInv'
  BY <1>0, <1>2, StatusFacts, NumberKept
<1>3. CASE UNCHANGED vars
  BY <1>1, <1>3 DEF vars
<1>4. CASE \E v \in Version : Presign(v)
  <2>1. PICK v \in Version, n \in Number \ {0} :
          /\ HighestNo(n - 1) /\ material = "exists"
          /\ pre' = [pre EXCEPT ![v] = n] /\ UNCHANGED <<material, ver>>
    BY <1>4 DEF Presign
  <2>2. n \in Nat
    BY BoundsAssumption, FS_CardinalityType DEF Number
  <2>3. \A k \in 1 .. n - 1 : \E o \in Rows : ver[o].no = k
    <3> SUFFICES ASSUME NEW k \in 1 .. n - 1
                 PROVE  \E o \in Rows : ver[o].no = k
      OBVIOUS
    <3>1. PICK o \in Version : ver[o].no = n - 1
      BY <2>1, <2>2 DEF HighestNo
    <3>2. o \in Rows
      BY <2>2, <3>1 DEF Rows
    <3> QED BY <3>1, <3>2 DEF NumberInv, VersionsNumbered
  <2>4. Rows' = Rows
    BY <2>1 DEF Rows
  <2>5. PresignSawAll'
    <3>1. pre'[v] = n /\ \A o \in Version \ {v} : pre'[o] = pre[o]
      BY <1>0, <2>1 DEF TypeOK
    <3> QED BY <2>1, <2>3, <2>4, <3>1 DEF NumberInv, PresignSawAll
  <2>6. VersionsNumbered'
    BY <2>1, <2>4 DEF NumberInv, VersionsNumbered
  <2> QED BY <2>5, <2>6 DEF NumberInv
<1>5. CASE \E v \in Version : CreateVersion(v)
  <2>1. PICK v \in Version : CreateVersion(v)
    BY <1>5
  <2>2. /\ material = "exists" /\ ver[v] = NoRow /\ pre[v] # 0
        /\ ver' = [ver EXCEPT ![v] = [no |-> pre[v], status |-> "pending", chunks |-> FALSE]]
        /\ \A o \in Version : ver[o].no # pre[v]
        /\ UNCHANGED <<material, pre>>
    BY <2>1 DEF CreateVersion, InsertVersion
  <2>3. /\ v \notin Rows /\ Rows' = Rows \cup {v} /\ Rows \subseteq Version
        /\ ver'[v].no = pre[v]
        /\ \A o \in Rows : ver'[o] = ver[o]
    BY <1>0, <2>2 DEF Rows, NoRow, TypeOK
  <2>4. pre[v] \in Nat
    BY <1>0, BoundsAssumption, FS_CardinalityType DEF TypeOK, Number
  <2>5. ASSUME NEW u \in Rows', NEW o \in Rows', ver'[u].no = ver'[o].no
        PROVE  u = o
    BY <2>2, <2>3, <2>5 DEF NumberInv, VersionsNumbered
  <2>6. ASSUME NEW u \in Rows', NEW n \in 1 .. ver'[u].no
        PROVE  \E o \in Rows' : ver'[o].no = n
    <3>1. CASE u \in Rows
      <4>1. PICK o \in Rows : ver[o].no = n
        BY <2>3, <2>6, <3>1 DEF NumberInv, VersionsNumbered
      <4> QED BY <2>3, <4>1
    <3>2. CASE u = v /\ n = pre[v]
      BY <2>3, <3>2
    <3>3. CASE u = v /\ n # pre[v]
      <4>1. n \in 1 .. pre[v] - 1
        BY <2>3, <2>4, <2>6, <3>3
      <4>2. PICK o \in Rows : ver[o].no = n
        BY <2>2, <4>1 DEF NumberInv, PresignSawAll
      <4> QED BY <2>3, <4>2
    <3> QED BY <2>3, <3>1, <3>2, <3>3
  <2>7. VersionsNumbered'
    BY <2>5, <2>6 DEF VersionsNumbered
  <2>8. PresignSawAll'
    BY <2>2, <2>3 DEF NumberInv, PresignSawAll
  <2> QED BY <2>7, <2>8 DEF NumberInv
<1>6. CASE \E v \in Version : Upload(v)
  BY <1>1, <1>6 DEF Upload
<1>7. CASE \E j \in Job, v \in Version : CreateJob(j, v)
  BY <1>1, <1>7 DEF CreateJob, material_vars
<1>8. CASE \E j \in Job : MarkUploaded(j)
  <2>1. PICK j \in Job : MarkUploaded(j)
    BY <1>8
  <2>2. job[j].of \in Version
    BY <2>1 DEF MarkUploaded, Base, Registered
  <2> QED BY <1>2, <2>1, <2>2 DEF MarkUploaded
<1>9. CASE \E j \in Job : Send(j) \/ RegisterFails(j) \/ VisibilityTimeout(j)
  BY <1>1, <1>9 DEF Send, SendFrom, RegisterFails, VisibilityTimeout, material_vars
<1>10. CASE DeleteMaterial
  BY <1>10 DEF DeleteMaterial, NumberInv, VersionsNumbered, PresignSawAll, Rows, NoRow
<1>11. CASE \E w \in Worker, j \in Job : Receive(w, j)
  BY <1>1, <1>11 DEF Receive, material_vars
<1>12. CASE \E w \in Worker : Run(w) \/ RunFails(w) \/ LoseConnection(w) \/ Crash(w)
  <2>1. PICK w \in Worker : Run(w) \/ RunFails(w) \/ LoseConnection(w) \/ Crash(w)
    BY <1>12
  <2>2. wk[w].pc # "idle"
    BY <2>1 DEF Run, Load, StepVersion, StepJob, Persist, MarkReady, SetCurrent, Succeed, RunFails,
         FailVersion, FailJob, RecordFailure, LoseConnection, Ack, AckAfter, Crash, Phases
  <2>3. Of(w) \in Version
    BY <2>2, WorkerJob
  <2>4. CASE StepVersion(w)
    BY <1>2, <2>3, <2>4 DEF StepVersion, register_vars
  <2>5. CASE MarkReady(w)
    BY <1>2, <2>3, <2>5 DEF MarkReady, register_vars
  <2>6. CASE FailVersion(w)
    BY <1>2, <2>3, <2>6 DEF FailVersion, register_vars
  <2>7. CASE Persist(w)
    <3>1. UNCHANGED <<material, pre>>
      BY <2>7 DEF Persist, StoreChunks, StoreNothing, AbortPersist, register_vars
    <3>2. ver' = [ver EXCEPT ![Of(w)].chunks = TRUE] \/ ver' = ver
      BY <2>7 DEF Persist, StoreChunks, StoreNothing, AbortPersist
    <3>3. \A v \in Version : ver'[v].no = ver[v].no
      BY <1>0, <2>3, <3>2 DEF TypeOK, VersionRow
    <3> QED BY <3>1, <3>3, NumberKept
  <2>8. CASE SetCurrent(w)
    BY <1>1, <2>8 DEF SetCurrent, register_vars
  <2>9. CASE Load(w) \/ StepJob(w) \/ Succeed(w) \/ RunFails(w) \/ FailJob(w)
    BY <1>1, <2>9 DEF Load, StepJob, Succeed, RunFails, FailJob, RecordFailure, material_vars
  <2>10. CASE LoseConnection(w) \/ Ack(w) \/ Crash(w)
    BY <1>1, <2>10 DEF LoseConnection, Ack, AckAfter, Crash, material_vars
  <2> QED BY <2>1, <2>4, <2>5, <2>6, <2>7, <2>8, <2>9, <2>10 DEF Run
<1> QED BY <1>3, <1>4, <1>5, <1>6, <1>7, <1>8, <1>9, <1>10, <1>11, <1>12 DEF Next

\* However many presigns overlap: the versions of a material are numbered without gap or
\* repetition.
THEOREM VersionsNumberedHolds == Spec => []VersionsNumbered
<1>1. NumberInv => VersionsNumbered
  BY DEF NumberInv
<1>2. SearchInv => Gone
  BY DEF SearchInv
<1> QED BY <1>1, <1>2, BaseInvariant, LinkedInvariant, SearchInit, SearchNext, NumberInit, NumberNext, PTL DEF Spec

-----------------------------------------------------------------------------
(***************************************************************************)
(* The statuses a worker writes.  Such a status comes from a job whose     *)
(* register has sent its message, so a register that is only now marking   *)
(* the version uploaded belongs to another job.                            *)
(***************************************************************************)
Worked == Phases \cup {"ready", "failed"}

WorkedBySent ==
  \A v \in Version : ver[v].status \in Worked =>
    \E k \in Job : job[k].of = v /\ reg[k] = "done"

\* Nothing is recorded at first.
LEMMA WorkedInit == Init => WorkedBySent
BY DEF Init, WorkedBySent, NoRow, Worked, Phases

\* An UPDATE of the status changes that of one version only.
LEMMA OneStatus ==
  ASSUME TypeOK, NEW v \in Version, NEW status, ver' = WithStatus(v, status)
  PROVE  \A o \in Version : ver'[o].status = ver[o].status \/ (o = v /\ ver'[o].status = status)
BY DEF WithStatus, TypeOK, VersionRow, Rows

\* A worked-on status that appears is the doing of a worker.
LEMMA StatusSource ==
  ASSUME Base, Next, NEW v \in Version
  PROVE  \/ ver'[v].status = ver[v].status
         \/ ver'[v].status \in {"none", "pending"}
         \/ /\ ver'[v].status = "uploaded"
            /\ \E j \in Job : reg[j] = "created" /\ job[j].of = v /\ UNCHANGED job
         \/ /\ ver'[v].status \in Worked
            /\ UNCHANGED <<job, reg>>
            /\ \E k \in Job : job[k].of = v /\ reg[k] = "done"
<1> DEFINE Source == \/ ver'[v].status = ver[v].status
                     \/ ver'[v].status \in {"none", "pending"}
                     \/ /\ ver'[v].status = "uploaded"
                        /\ \E j \in Job : reg[j] = "created" /\ job[j].of = v /\ UNCHANGED job
                     \/ /\ ver'[v].status \in Worked
                        /\ UNCHANGED <<job, reg>>
                        /\ \E k \in Job : job[k].of = v /\ reg[k] = "done"
<1>0. TypeOK
  BY DEF Base
<1>1. ver' = ver => Source
  OBVIOUS
<1>2. ASSUME NEW o \in Version, CreateVersion(o) PROVE Source
  BY <1>0, <1>2 DEF CreateVersion, InsertVersion, TypeOK
<1>3. ASSUME NEW j \in Job, MarkUploaded(j) PROVE Source
  <2>1. /\ reg[j] = "created" /\ UNCHANGED job /\ job[j].of \in Version
        /\ ver' = WithStatus(job[j].of, "uploaded")
    BY <1>3 DEF MarkUploaded, Base, Registered
  <2> QED BY <1>0, <2>1, OneStatus
<1>4. CASE DeleteMaterial
  BY <1>4 DEF DeleteMaterial, NoRow
<1>5. ASSUME NEW w \in Worker, Run(w) PROVE Source
  <2>1. ASSUME NEW status \in Worked, wk[w].pc # "idle", ver' = WithStatus(Of(w), status),
               UNCHANGED <<job, reg>>
        PROVE  Source
    <3>1. wk[w].job \in Job /\ Of(w) \in Version /\ reg[wk[w].job] = "done"
      BY <2>1, WorkerJob DEF Base, Attached
    <3>2. ver'[v].status = ver[v].status \/ (v = Of(w) /\ ver'[v].status = status)
      BY <1>0, <2>1, <3>1, OneStatus
    <3> QED BY <2>1, <3>1, <3>2 DEF Of
  <2>2. CASE StepVersion(w)
    BY <2>1, <2>2 DEF StepVersion, register_vars, Phases, Worked
  <2>3. CASE MarkReady(w)
    BY <2>1, <2>3 DEF MarkReady, register_vars, Worked
  <2>4. CASE FailVersion(w)
    BY <2>1, <2>4 DEF FailVersion, register_vars, Worked
  <2>5. CASE Persist(w)
    <3>1. ver' = [ver EXCEPT ![Of(w)].chunks = TRUE] \/ ver' = ver
      BY <2>5 DEF Persist, StoreChunks, StoreNothing, AbortPersist
    <3>2. ver'[v].status = ver[v].status
      BY <1>0, <3>1 DEF TypeOK, VersionRow
    <3> QED BY <3>2
  <2>6. CASE Load(w) \/ StepJob(w) \/ SetCurrent(w) \/ Succeed(w) \/ FailJob(w) \/ Ack(w)
    BY <1>1, <2>6 DEF Load, StepJob, SetCurrent, Succeed, FailJob, RecordFailure, Ack, AckAfter,
                      material_vars
  <2> QED BY <1>5, <2>2, <2>3, <2>4, <2>5, <2>6 DEF Run
<1>6. CASE \E o \in Version : Presign(o) \/ Upload(o)
  BY <1>1, <1>6 DEF Presign, Upload
<1>7. CASE \E j \in Job, o \in Version : CreateJob(j, o)
  BY <1>1, <1>7 DEF CreateJob, material_vars
<1>8. CASE \E j \in Job : Send(j) \/ RegisterFails(j) \/ VisibilityTimeout(j)
  BY <1>1, <1>8 DEF Send, SendFrom, RegisterFails, VisibilityTimeout, material_vars
<1>9. CASE \E w \in Worker, j \in Job : Receive(w, j)
  BY <1>1, <1>9 DEF Receive, material_vars
<1>10. CASE \E w \in Worker : RunFails(w) \/ LoseConnection(w) \/ Crash(w)
  BY <1>1, <1>10 DEF RunFails, LoseConnection, Crash, material_vars
<1> QED BY <1>2, <1>3, <1>4, <1>5, <1>6, <1>7, <1>8, <1>9, <1>10 DEF Next

\* A job whose message was sent keeps its version.
LEMMA SentJobsStay ==
  ASSUME Base, Next, NEW k \in Job, reg[k] = "done"
  PROVE  reg'[k] = "done" /\ job'[k].of = job[k].of
<1>0. job \in [Job -> JobRow] /\ reg \in [Job -> {"idle", "created", "uploaded", "done", "failed"}]
  BY DEF Base, TypeOK
<1>1. CASE \E j \in Job, v \in Version : CreateJob(j, v)
  BY <1>0, <1>1 DEF CreateJob
<1>2. CASE \E j \in Job : MarkUploaded(j) \/ Send(j) \/ RegisterFails(j) \/ VisibilityTimeout(j)
  BY <1>0, <1>2 DEF MarkUploaded, Send, SendFrom, RegisterFails, VisibilityTimeout
<1>3. ASSUME NEW w \in Worker, Run(w) PROVE reg'[k] = "done" /\ job'[k].of = job[k].of
  <2>1. reg' = reg
    BY <1>3 DEF Run, Load, StepVersion, StepJob, Persist, MarkReady, SetCurrent, Succeed,
                FailVersion, FailJob, RecordFailure, Ack, AckAfter, register_vars
  <2>2. job' = job \/ \E status : job' = [job EXCEPT ![wk[w].job].status = status]
    BY <1>3 DEF Run, Load, StepVersion, StepJob, Persist, MarkReady, SetCurrent, Succeed,
                FailVersion, FailJob, RecordFailure, Ack, AckAfter
  <2>3. job[k] \in JobRow
    BY <1>0
  <2>4. ASSUME NEW status, job' = [job EXCEPT ![wk[w].job].status = status]
        PROVE  job'[k].of = job[k].of
    <3>1. job'[k] = [job[k] EXCEPT !.status = status] \/ job'[k] = job[k]
      BY <1>0, <2>4
    <3> QED BY <2>3, <3>1 DEF JobRow
  <2> QED BY <2>1, <2>2, <2>4
<1>4. CASE \E w \in Worker : RunFails(w) \/ LoseConnection(w) \/ Crash(w)
  BY <1>4 DEF RunFails, LoseConnection, Crash
<1>5. CASE \E w \in Worker, j \in Job : Receive(w, j)
  BY <1>5 DEF Receive
<1>6. CASE DeleteMaterial \/ \E v \in Version : Presign(v) \/ CreateVersion(v) \/ Upload(v)
  BY <1>6 DEF DeleteMaterial, Presign, CreateVersion, InsertVersion, Upload
<1> QED BY <1>1, <1>2, <1>3, <1>4, <1>5, <1>6 DEF Next

\* Every step keeps WorkedBySent.
LEMMA WorkedNext == Base /\ WorkedBySent /\ [Next]_vars => WorkedBySent'
<1> SUFFICES ASSUME Base, WorkedBySent, [Next]_vars PROVE WorkedBySent'
  OBVIOUS
<1>1. CASE UNCHANGED vars
  BY <1>1 DEF vars, WorkedBySent
<1>2. CASE Next
  <2> SUFFICES ASSUME NEW v \in Version, ver'[v].status \in Worked
               PROVE  \E k \in Job : job'[k].of = v /\ reg'[k] = "done"
    BY DEF WorkedBySent
  <2>1. ver'[v].status \notin {"none", "pending", "uploaded"}
    BY DEF Worked, Phases
  <2>2. PICK k \in Job : job[k].of = v /\ reg[k] = "done"
    BY <1>2, <2>1, StatusSource DEF WorkedBySent
  <2> QED BY <1>2, <2>2, SentJobsStay
<1> QED BY <1>1, <1>2

\* One step that takes what a worker recorded of a version back to "uploaded" belongs to
\* another job of that version.
LEMMA ResetStep ==
  ASSUME Base, WorkedBySent, [Next]_vars, NEW v \in Version,
         ver[v].status \in Worked, ver'[v].status = "uploaded"
  PROVE  \E j, k \in Job : j # k /\ job[j].of = v /\ job[k].of = v
<1>1. "uploaded" \notin Worked
  BY DEF Worked, Phases
<1>2. Next
  BY <1>1 DEF vars
<1>3. PICK j \in Job : reg[j] = "created" /\ job[j].of = v
  BY <1>1, <1>2, StatusSource
<1>4. PICK k \in Job : job[k].of = v /\ reg[k] = "done"
  BY DEF WorkedBySent
<1> QED BY <1>3, <1>4

\* What a worker has recorded is reset to "uploaded" only by a second register of the
\* version, never by the register whose message the worker has.
THEOREM ProgressNotResetHolds == Spec => ProgressNotReset
<1>1. Base /\ WorkedBySent /\ [Next]_vars =>
        [\A v \in Version :
           ver[v].status \in Phases \cup {"ready", "failed"} /\ ver'[v].status = "uploaded" =>
             \E j, k \in Job : j # k /\ job[j].of = v /\ job[k].of = v]_vars
  BY ResetStep DEF Worked
<1> QED
  BY <1>1, BaseInvariant, WorkedInit, WorkedNext, PTL DEF Spec, ProgressNotReset

-----------------------------------------------------------------------------
(***************************************************************************)
(* Ingestion implements WorkQueue.  The only invariant this takes besides  *)
(* Base is that a job that is not registered yet does not show an end.     *)
(***************************************************************************)
Unended == \A j \in Job : reg[j] = "idle" => ~Settled(j)

QueueInv == Base /\ Unended

Ends == {"ack", "dying"}

\* The workers' steps write to jobs that were registered.
LEMMA UnendedNext == Base /\ Unended /\ [Next]_vars => Unended'
<1> SUFFICES ASSUME Base, Unended, [Next]_vars, NEW j \in Job, reg'[j] = "idle"
             PROVE  job'[j].status \notin {"succeeded", "failed"}
  BY DEF Unended, Settled
<1>0. TypeOK
  BY DEF Base
<1>1. CASE UNCHANGED <<reg, job>>
  BY <1>1 DEF Unended, Settled
<1>2. CASE \E k \in Job, v \in Version : CreateJob(k, v)
  BY <1>0, <1>2 DEF CreateJob, Unended, Settled, TypeOK
<1>3. CASE \E k \in Job : MarkUploaded(k) \/ Send(k) \/ RegisterFails(k)
  BY <1>0, <1>3 DEF MarkUploaded, Send, SendFrom, RegisterFails, Unended, Settled, TypeOK
<1>4. ASSUME NEW w \in Worker, StepJob(w) \/ Succeed(w) \/ FailJob(w)
      PROVE  job'[j].status \notin {"succeeded", "failed"}
  <2>1. wk[w].pc # "idle" /\ UNCHANGED reg
    BY <1>4 DEF StepJob, Succeed, FailJob, RecordFailure, Phases
  <2>2. wk[w].job \in Job /\ reg[wk[w].job] = "done"
    BY <2>1, WorkerJob DEF Base, Attached
  <2>3. PICK status \in {"running", "succeeded", "failed"} : job' = [job EXCEPT ![wk[w].job].status = status]
    BY <1>4 DEF StepJob, Succeed, FailJob, RecordFailure
  <2>4. job'[j] = job[j]
    BY <1>0, <2>1, <2>2, <2>3, JobStatus
  <2> QED BY <2>1, <2>4 DEF Unended, Settled
<1>5. UNCHANGED <<reg, job>>
      \/ (\E k \in Job, v \in Version : CreateJob(k, v))
      \/ (\E k \in Job : MarkUploaded(k) \/ Send(k) \/ RegisterFails(k))
      \/ \E w \in Worker : StepJob(w) \/ Succeed(w) \/ FailJob(w)
  BY DEF Next, vars, Presign, CreateVersion, InsertVersion, Upload, VisibilityTimeout, DeleteMaterial,
         Receive, Run, Load, StepVersion, Persist, MarkReady, SetCurrent, FailVersion, Ack, AckAfter,
         RunFails, LoseConnection, Crash, register_vars
<1> QED BY <1>1, <1>2, <1>3, <1>4, <1>5

\* Always.
LEMMA QueueInvariant == Spec => []QueueInv
<1>1. Init => Unended
  BY DEF Init, Unended, Settled
<1>2. Base /\ Unended <=> QueueInv
  BY DEF QueueInv
<1> QED BY <1>1, <1>2, BaseInvariant, UnendedNext, PTL DEF Spec

\* The queue does not see a step that leaves the messages with their workers and their ends.
LEMMA QueueUnseen ==
  ASSUME UNCHANGED <<queue, lost>>,
         \A w \in Worker : wk'[w].job = wk[w].job /\ (wk'[w].pc \in Ends <=> wk[w].pc \in Ends),
         \A j \in Job : Settled(j)' <=> Settled(j)
  PROVE  UNCHANGED Queue!vars
<1>1. [w \in Worker |-> wk'[w].job] = [w \in Worker |-> wk[w].job]
  OBVIOUS
<1>2. {w \in Worker : wk'[w].pc \in Ends} = {w \in Worker : wk[w].pc \in Ends}
  OBVIOUS
<1>3. {j \in Job : Settled(j)'} = {j \in Job : Settled(j)}
  OBVIOUS
<1> QED BY <1>1, <1>2, <1>3 DEF Queue!vars, Ends

\* A worker at its message: what it may do to the outcome, and what it must have done to it when it
\* goes on to acknowledge.
LEMMA QueueWorker ==
  ASSUME Base, NEW w \in Worker, wk[w].pc \notin Ends \cup {"idle"}, UNCHANGED queue,
         \A x \in Worker : wk'[x].job = wk[x].job,
         \A x \in Worker \ {w} : wk'[x].pc = wk[x].pc,
         \A k \in Job \ {wk[w].job} : Settled(k)' <=> Settled(k),
         \/ /\ wk'[w].pc \notin Ends /\ lost' = lost
            /\ (Settled(wk[w].job)' => Settled(wk[w].job))
         \/ wk'[w].pc = "ack" /\ lost' = lost /\ Settled(wk[w].job)'
         \/ /\ wk'[w].pc = "dying" /\ lost' = lost \cup {wk[w].job}
            /\ (Settled(wk[w].job)' <=> Settled(wk[w].job))
  PROVE  [Queue!Next]_(Queue!vars)
<1> DEFINE hand == [x \in Worker |-> wk[x].job]
           done == {x \in Worker : wk[x].pc \in Ends}
           told == {j \in Job : Settled(j)}
           m == wk[w].job
<1>1. m \in Job /\ m # None /\ hand[w] = m /\ w \notin done
  BY WorkerJob
<1>2. hand' = hand
  OBVIOUS
<1>3. CASE wk'[w].pc \notin Ends /\ lost' = lost /\ (Settled(m)' => Settled(m))
  <2>1. done' = done
    BY <1>1, <1>3
  <2>2. CASE Settled(m)' <=> Settled(m)
    <3>1. \A x \in Worker : wk'[x].pc \in Ends <=> wk[x].pc \in Ends
      BY <1>3
    <3> QED BY <1>3, <2>2, <3>1, QueueUnseen
  <2>3. CASE Settled(m) /\ ~Settled(m)'
    <3>1. told' = told \ {m}
      BY <1>1, <2>3
    <3>2. Queue!Reopen(w)
      BY <1>1, <1>2, <1>3, <2>1, <3>1 DEF Queue!Reopen, Queue!AtWork, Ends
    <3> QED BY <3>2 DEF Queue!Next
  <2> QED BY <1>3, <2>2, <2>3
<1>4. CASE wk'[w].pc = "ack" /\ lost' = lost /\ Settled(m)'
  <2>1. done' = done \cup {w} /\ told' = told \cup {m}
    BY <1>1, <1>4 DEF Ends
  <2>2. Queue!Tell(w)
    BY <1>1, <1>2, <1>4, <2>1 DEF Queue!Tell, Queue!AtWork, Ends
  <2> QED BY <2>2 DEF Queue!Next
<1>5. CASE wk'[w].pc = "dying" /\ lost' = lost \cup {m} /\ (Settled(m)' <=> Settled(m))
  <2>1. done' = done \cup {w} /\ told' = told
    BY <1>1, <1>5 DEF Ends
  <2>2. Queue!GiveUp(w)
    BY <1>1, <1>2, <1>5, <2>1 DEF Queue!GiveUp, Queue!AtWork, Ends
  <2> QED BY <2>2 DEF Queue!Next
<1> QED BY <1>3, <1>4, <1>5

\* A worker that lets its message go hands it in, once it has told or given up on its outcome, or
\* drops it.
LEMMA QueueRelease ==
  ASSUME Base, NEW w \in Worker, wk[w].pc # "idle",
         wk' = [wk EXCEPT ![w] = Resting], UNCHANGED <<job, lost>>,
         queue' = queue \/ (wk[w].pc \in Ends /\ queue' = [queue EXCEPT ![wk[w].job] = "deleted"])
  PROVE  [Queue!Next]_(Queue!vars)
<1> DEFINE hand == [x \in Worker |-> wk[x].job]
           done == {x \in Worker : wk[x].pc \in Ends}
           told == {j \in Job : Settled(j)}
<1>1. wk[w].job \in Job /\ wk[w].job # None /\ hand[w] = wk[w].job
  BY WorkerJob
<1>2. wk'[w] = Resting /\ \A x \in Worker \ {w} : wk'[x] = wk[x]
  BY DEF Base, TypeOK
<1>3. hand' = [hand EXCEPT ![w] = None]
  <2>1. \A x \in Worker : wk'[x].job = IF x = w THEN None ELSE wk[x].job
    BY <1>2 DEF Resting
  <2> QED BY <2>1
<1>4. done' = done \ {w}
  BY <1>2 DEF Resting, Ends
<1>5. told' = told
  BY DEF Settled
<1>6. CASE wk[w].pc \in Ends
  <2>1. Queue!HandIn(w)
    BY <1>1, <1>3, <1>4, <1>5, <1>6 DEF Queue!HandIn, Ends
  <2> QED BY <2>1 DEF Queue!Next
<1>7. CASE queue' = queue
  <2>1. Queue!Drop(w)
    BY <1>1, <1>3, <1>4, <1>5, <1>7 DEF Queue!Drop, Ends
  <2> QED BY <2>1 DEF Queue!Next
<1> QED BY <1>6, <1>7

\* Requests and queue: they send, deliver and redeliver, and touch no outcome.
LEMMA QueueRequests ==
  ASSUME QueueInv,
         \/ \E v \in Version : Presign(v) \/ CreateVersion(v) \/ Upload(v)
         \/ \E j \in Job, v \in Version : CreateJob(j, v)
         \/ \E j \in Job : MarkUploaded(j) \/ Send(j) \/ RegisterFails(j) \/ VisibilityTimeout(j)
         \/ DeleteMaterial
         \/ \E w \in Worker, j \in Job : Receive(w, j)
  PROVE  [Queue!Next]_(Queue!vars)
<1>0. TypeOK /\ Base /\ Unended
  BY DEF QueueInv, Base
<1> DEFINE hand == [x \in Worker |-> wk[x].job]
           done == {x \in Worker : wk[x].pc \in Ends}
           told == {j \in Job : Settled(j)}
<1>1. ASSUME UNCHANGED <<queue, wk, job, lost>> PROVE UNCHANGED Queue!vars
  BY <1>1, QueueUnseen DEF Settled
<1>2. CASE \E v \in Version : Presign(v) \/ CreateVersion(v) \/ Upload(v)
  BY <1>1, <1>2 DEF Presign, CreateVersion, InsertVersion, Upload
<1>3. CASE \E j \in Job, v \in Version : CreateJob(j, v)
  <2>1. PICK j \in Job, v \in Version : CreateJob(j, v)
    BY <1>3
  <2>2. job'[j].status = "queued" /\ \A k \in Job \ {j} : job'[k] = job[k]
    BY <1>0, <2>1 DEF CreateJob, TypeOK
  <2>3. ~Settled(j) /\ ~Settled(j)'
    BY <1>0, <2>1, <2>2 DEF CreateJob, Unended, Settled
  <2>4. \A k \in Job : Settled(k)' <=> Settled(k)
    BY <2>2, <2>3 DEF Settled
  <2>5. UNCHANGED <<queue, wk, lost>>
    BY <2>1 DEF CreateJob, queue_vars
  <2> QED BY <2>4, <2>5, QueueUnseen
<1>4. CASE \E j \in Job : MarkUploaded(j) \/ RegisterFails(j)
  BY <1>1, <1>4 DEF MarkUploaded, RegisterFails, queue_vars
<1>5. CASE \E j \in Job : Send(j)
  <2>1. PICK j \in Job : Send(j)
    BY <1>5
  <2>2. hand' = hand /\ done' = done /\ told' = told
    BY <2>1 DEF Send, SendFrom, Settled
  <2>3. Queue!Send(j)
    BY <2>1, <2>2 DEF Send, SendFrom, Queue!Send, Ends
  <2> QED BY <2>3 DEF Queue!Next
<1>6. CASE \E j \in Job : VisibilityTimeout(j)
  <2>1. PICK j \in Job : VisibilityTimeout(j)
    BY <1>6
  <2>2. hand' = hand /\ done' = done /\ told' = told
    BY <2>1 DEF VisibilityTimeout, Settled
  <2>3. Queue!Reappear(j)
    BY <2>1, <2>2 DEF VisibilityTimeout, Queue!Reappear, Ends
  <2> QED BY <2>3 DEF Queue!Next
<1>7. CASE DeleteMaterial
  BY <1>1, <1>7 DEF DeleteMaterial, queue_vars
<1>8. CASE \E w \in Worker, j \in Job : Receive(w, j)
  <2>1. PICK w \in Worker, j \in Job : Receive(w, j)
    BY <1>8
  <2>2. /\ wk[w].pc = "idle" /\ wk[w].job = None
        /\ wk'[w].pc = "load" /\ wk'[w].job = j
        /\ \A x \in Worker \ {w} : wk'[x] = wk[x]
    BY <1>0, <2>1 DEF Receive, Resting, TypeOK, WorkerState, Base, Attached
  <2>3. hand' = [hand EXCEPT ![w] = j]
    <3>1. \A x \in Worker : wk'[x].job = IF x = w THEN j ELSE wk[x].job
      BY <2>2
    <3> QED BY <3>1
  <2>4. done' = done
    BY <2>2 DEF Ends
  <2>5. told' = told
    BY <2>1 DEF Receive, Settled
  <2>6. Queue!Deliver(w, j)
    BY <2>1, <2>2, <2>3, <2>4, <2>5 DEF Receive, Queue!Deliver, Ends
  <2> QED BY <2>6 DEF Queue!Next
<1> QED BY <1>2, <1>3, <1>4, <1>5, <1>6, <1>7, <1>8

\* The pipeline and the worker around it.
LEMMA QueueRun ==
  ASSUME QueueInv, NEW w \in Worker, Run(w) \/ RunFails(w) \/ LoseConnection(w) \/ Crash(w)
  PROVE  [Queue!Next]_(Queue!vars)
<1>0. TypeOK /\ Base
  BY DEF QueueInv, Base
<1>1. wk[w].pc # "idle"
  BY DEF Run, Load, StepVersion, StepJob, Persist, MarkReady, SetCurrent, Succeed, RunFails,
         FailVersion, FailJob, RecordFailure, LoseConnection, Ack, AckAfter, Crash, Phases
<1>2. wk[w].job \in Job /\ wk[w].job # None
  BY <1>0, <1>1, WorkerJob
<1>3. ASSUME UNCHANGED job PROVE \A k \in Job : Settled(k)' <=> Settled(k)
  BY <1>3 DEF Settled
<1>4. ASSUME NEW pc \in Phases \cup {"persist", "ready", "flip", "succeed", "failing"},
             wk[w].pc \notin Ends, Goto(w, pc), UNCHANGED <<queue, job, lost>>
      PROVE  [Queue!Next]_(Queue!vars)
  <2>1. /\ wk'[w].pc = pc
        /\ \A x \in Worker \ {w} : wk'[x].pc = wk[x].pc
        /\ \A x \in Worker : wk'[x].job = wk[x].job
    BY <1>0, <1>4, WorkerMoves
  <2>2. wk'[w].pc \notin Ends
    BY <1>4, <2>1 DEF Ends, Phases
  <2>3. \A k \in Job : Settled(k)' <=> Settled(k)
    BY <1>3, <1>4
  <2>4. queue' = queue /\ lost' = lost /\ wk[w].pc \notin Ends \cup {"idle"}
    BY <1>1, <1>4
  <2> QED BY <1>0, <1>2, <2>1, <2>2, <2>3, <2>4, QueueWorker
<1>5. ASSUME wk[w].pc \notin Ends, wk' = [wk EXCEPT ![w].noted = TRUE], UNCHANGED <<queue, job, lost>>
      PROVE  [Queue!Next]_(Queue!vars)
  BY <1>0, <1>3, <1>5, WorkerNotes, QueueUnseen
<1>6. ASSUME wk[w].pc \notin Ends, NEW status \in {"running", "succeeded", "failed"},
             job' = [job EXCEPT ![wk[w].job].status = status], UNCHANGED <<queue, lost>>,
             NEW pc \in Phases \cup {"persist", "failing", "ack"}, Goto(w, pc),
             pc = "ack" <=> status # "running"
      PROVE  [Queue!Next]_(Queue!vars)
  <2>1. /\ wk'[w].pc = pc
        /\ \A x \in Worker \ {w} : wk'[x] = wk[x]
        /\ \A x \in Worker : wk'[x].job = wk[x].job
    BY <1>0, <1>6, WorkerMoves
  <2>2. /\ \A k \in Job \ {wk[w].job} : job'[k] = job[k]
        /\ job'[wk[w].job].status = status
    BY <1>0, <1>2, <1>6, JobStatus
  <2>3. \A k \in Job \ {wk[w].job} : Settled(k)' <=> Settled(k)
    BY <2>2 DEF Settled
  <2>4. CASE status = "running"
    <3>1. ~Settled(wk[w].job)'
      BY <2>1, <2>2, <2>4 DEF Settled
    <3>2. wk'[w].pc \notin Ends
      BY <1>6, <2>1, <2>4 DEF Ends, Phases
    <3> QED BY <1>0, <1>1, <1>6, <2>1, <2>3, <3>1, <3>2, QueueWorker
  <2>5. CASE status # "running"
    <3>1. Settled(wk[w].job)'
      BY <2>1, <2>2, <2>5 DEF Settled
    <3> QED BY <1>0, <1>1, <1>6, <2>1, <2>3, <2>5, <3>1, QueueWorker
  <2> QED BY <2>4, <2>5
<1>7. ASSUME wk[w].pc \notin Ends, Goto(w, "dying"), lost' = lost \cup {wk[w].job},
             UNCHANGED <<queue, job>>
      PROVE  [Queue!Next]_(Queue!vars)
  <2>1. /\ wk'[w].pc = "dying"
        /\ \A x \in Worker \ {w} : wk'[x].pc = wk[x].pc
        /\ \A x \in Worker : wk'[x].job = wk[x].job
    BY <1>0, <1>7, WorkerMoves
  <2>2. \A k \in Job : Settled(k)' <=> Settled(k)
    BY <1>3, <1>7
  <2>3. queue' = queue /\ wk[w].pc \notin Ends \cup {"idle"}
    BY <1>1, <1>7
  <2> QED BY <1>0, <1>2, <1>7, <2>1, <2>2, <2>3, QueueWorker
<1>8. CASE Load(w)
  <2>1. wk[w].pc \notin Ends /\ UNCHANGED <<queue, job, lost>>
    BY <1>8 DEF Load, Ends, queue_vars
  <2>2. /\ \A x \in Worker : wk'[x].job = wk[x].job
        /\ \A x \in Worker : wk'[x].pc \in Ends <=> wk[x].pc \in Ends
    BY <1>0, <1>8, <2>1, WorkerLoads DEF Ends
  <2> QED BY <1>3, <2>1, <2>2, QueueUnseen
<1>9. CASE StepVersion(w)
  BY <1>5, <1>9 DEF StepVersion, queue_vars, Phases, Ends
<1>10. CASE StepJob(w)
  <2>1. PICK pc \in Phases \cup {"persist", "failing"} : Goto(w, pc)
    BY <1>10 DEF StepJob, After, Phases
  <2>2. UNCHANGED <<queue, lost>> /\ job' = [job EXCEPT ![wk[w].job].status = "running"]
    BY <1>10 DEF StepJob, queue_vars
  <2>3. pc # "ack" /\ wk[w].pc \notin Ends
    BY <1>10 DEF StepJob, Phases, Ends
  <2> QED BY <1>6, <2>1, <2>2, <2>3
<1>11. CASE Persist(w)
  BY <1>4, <1>7, <1>11 DEF Persist, StoreChunks, StoreNothing, AbortPersist, Advance, After, queue_vars, Ends
<1>12. CASE MarkReady(w) \/ SetCurrent(w)
  BY <1>4, <1>12 DEF MarkReady, SetCurrent, Advance, After, queue_vars, Ends
<1>13. CASE Succeed(w)
  <2>1. /\ wk[w].pc \notin Ends /\ Goto(w, "ack") /\ UNCHANGED <<queue, lost>>
        /\ job' = [job EXCEPT ![wk[w].job].status = "succeeded"]
    BY <1>13 DEF Succeed, Advance, After, queue_vars, Ends
  <2> QED BY <1>6, <2>1
<1>14. CASE RunFails(w)
  BY <1>4, <1>14 DEF RunFails, queue_vars, Ends
<1>15. CASE FailVersion(w)
  BY <1>5, <1>15 DEF FailVersion, queue_vars, Ends
<1>16. CASE FailJob(w)
  <2>1. /\ wk[w].pc \notin Ends /\ Goto(w, "ack") /\ UNCHANGED <<queue, lost>>
        /\ job' = [job EXCEPT ![wk[w].job].status = "failed"]
    BY <1>16 DEF FailJob, RecordFailure, queue_vars, Ends
  <2> QED BY <1>6, <2>1
<1>17. CASE LoseConnection(w)
  BY <1>7, <1>17 DEF LoseConnection, queue_vars, Ends
<1>18. CASE Ack(w)
  BY <1>0, <1>1, <1>18, QueueRelease DEF Ack, AckAfter, Deleted, Ends
<1>19. CASE Crash(w)
  BY <1>0, <1>1, <1>19, QueueRelease DEF Crash, queue_vars
<1> QED BY <1>8, <1>9, <1>10, <1>11, <1>12, <1>13, <1>14, <1>15, <1>16, <1>17, <1>18, <1>19 DEF Run

\* For any number of jobs, workers, crashes and redeliveries, the worker is a handler of the queue.
THEOREM ImplementsWorkQueueHolds == Spec => ImplementsWorkQueue
<1>1. Init => Queue!Init
  <2> SUFFICES ASSUME Init PROVE Queue!Init
    OBVIOUS
  <2>1. {w \in Worker : wk[w].pc \in {"ack", "dying"}} = {} /\ {j \in Job : Settled(j)} = {}
    BY DEF Init, Resting, Settled
  <2>2. [w \in Worker |-> wk[w].job] = [w \in Worker |-> None]
    BY DEF Init, Resting
  <2> QED BY <2>1, <2>2 DEF Init, Queue!Init
<1>2. QueueInv /\ [Next]_vars => [Queue!Next]_(Queue!vars)
  <2> SUFFICES ASSUME QueueInv, [Next]_vars PROVE [Queue!Next]_(Queue!vars)
    OBVIOUS
  <2>1. CASE UNCHANGED vars
    BY <2>1, QueueUnseen DEF vars, Settled
  <2> QED BY <2>1, QueueRequests, QueueRun DEF Next
<1> QED BY <1>1, <1>2, QueueInvariant, PTL DEF Spec, ImplementsWorkQueue, Queue!Spec
=============================================================================
