------------------------------ MODULE Ingestion ------------------------------
(***************************************************************************)
(* Uploading and ingesting the versions of one course material:            *)
(* backend/api/service.py (presign, register), the queue, the worker and   *)
(* the pipeline of backend/async_jobs, and delete_material.                *)
(*                                                                         *)
(* Every call of backend/db/postgres.py commits by itself, so a register   *)
(* and a pipeline run are sequences of commits that a crash, a deletion of *)
(* the material or another worker may come between.  SQS delivers a        *)
(* message again when it is not deleted within its visibility timeout:     *)
(* after a worker has died, or while a slow one is still at it.            *)
(***************************************************************************)
EXTENDS FiniteSets, Naturals

CONSTANTS
  Version,     \* version ids, one for each presign request
  Job,         \* job ids, one for each register request and its message
  Worker,      \* worker processes; two while a deployment replaces the task
  None,
  MaxCrashes,  \* bound: worker processes killed
  MaxLate      \* bound: visibility timeouts that pass while a worker is at the message

ASSUME NoneAssumption == None \notin Version \cup Job
ASSUME BoundsAssumption == MaxCrashes \in Nat /\ MaxLate \in Nat /\ IsFiniteSet(Version)

VARIABLES
  material,  \* the row of the material
  current,   \* its current_version_id
  pre,       \* presign requests: the version number each is about to insert
  ver,       \* material_version and its chunks
  stored,    \* versions whose object is in the bucket
  job,       \* async_job
  reg,       \* register requests
  queue,     \* the message of each job
  wk,        \* the workers
  crashes,   \* processes killed so far
  late,      \* timeouts that passed during a run so far
  twice,     \* history: jobs two workers had at the same time
  lost,      \* history: jobs whose worker lost its database transaction
  blank      \* history: versions ingested from a file that has slides or pages but no text

vars == <<material, current, pre, ver, stored, job, reg, queue, wk, crashes, late, twice, lost,
          blank>>

Number == 0 .. Cardinality(Version)

VersionRow ==
  [no     : Number,        \* 0: no such row
   status : {"none", "pending", "uploaded", "extracting", "chunking", "embedding",
             "ready", "failed"},
   chunks : BOOLEAN]

JobRow ==
  [status : {"none", "queued", "running", "succeeded", "failed"},
   of     : Version \cup {None}]

Phases == {"extracting", "chunking", "embedding"}

WorkerState ==
  [pc    : Phases \cup {"idle", "load", "persist", "ready", "flip", "succeed", "failing", "dying", "ack"},
   job   : Job \cup {None},
   found : BOOLEAN,         \* get_version returned a row
   noted : BOOLEAN]         \* the version's status is written, the job's is not yet

NoRow == [no |-> 0, status |-> "none", chunks |-> FALSE]
Resting == [pc |-> "idle", job |-> None, found |-> FALSE, noted |-> FALSE]

Rows == {v \in Version : ver[v].no # 0}
Of(w) == job[wk[w].job].of
Holders(j) == {w \in Worker : wk[w].job = j}

\* UPDATE material_version SET status: matches nothing once the row is deleted
WithStatus(v, status) == IF v \in Rows THEN [ver EXCEPT ![v].status = status] ELSE ver

Init ==
  /\ material = "exists"
  /\ current = None
  /\ pre = [v \in Version |-> 0]
  /\ ver = [v \in Version |-> NoRow]
  /\ stored = {}
  /\ job = [j \in Job |-> [status |-> "none", of |-> None]]
  /\ reg = [j \in Job |-> "idle"]
  /\ queue = [j \in Job |-> "none"]
  /\ wk = [w \in Worker |-> Resting]
  /\ crashes = 0
  /\ late = 0
  /\ twice = {}
  /\ lost = {}
  /\ blank = {}

material_vars == <<material, current, pre, ver, stored, blank>>
queue_vars == <<queue, late, twice>>
register_vars == <<reg, stored, pre, blank>>

-----------------------------------------------------------------------------
(* The professor's requests.                                               *)

HighestNo(n) == /\ \A v \in Version : ver[v].no <= n
                /\ n = 0 \/ \E v \in Version : ver[v].no = n

\* max_version_no + 1, for a material that exists (or has just been created)
Presign(v) ==
  /\ material = "exists"
  /\ pre[v] = 0
  /\ \E n \in Number \ {0} : HighestNo(n - 1) /\ pre' = [pre EXCEPT ![v] = n]
  /\ UNCHANGED <<material, current, ver, stored, blank, job, reg, queue, wk, crashes, late, twice, lost>>

InsertVersion(v) ==
  /\ pre[v] # 0
  /\ ver[v] = NoRow
  /\ material = "exists"
  /\ ver' = [ver EXCEPT ![v] = [no |-> pre[v], status |-> "pending", chunks |-> FALSE]]
  /\ UNCHANGED <<material, current, pre, stored, blank, job, reg, queue, wk, crashes, late, twice, lost>>

\* mutant: no UNIQUE (material_id, version_no)
CreateVersionUnchecked(v) == InsertVersion(v)

\* the request whose number is taken ends with the violation of the unique constraint
CreateVersion(v) == InsertVersion(v) /\ \A o \in Version : ver[o].no # pre[v]

\* the browser PUTs the file to the presigned URL
Upload(v) ==
  /\ v \in Rows
  /\ stored' = stored \cup {v}
  /\ UNCHANGED <<material, current, pre, ver, blank, job, reg, queue, wk, crashes, late, twice, lost>>

\* register looks at the version and its object, and creates the job
CreateJob(j, v) ==
  /\ reg[j] = "idle"
  /\ v \in Rows \cap stored
  /\ job' = [job EXCEPT ![j] = [status |-> "queued", of |-> v]]
  /\ reg' = [reg EXCEPT ![j] = "created"]
  /\ UNCHANGED <<material_vars, queue_vars, wk, crashes, lost>>

MarkUploaded(j) ==
  /\ reg[j] = "created"
  /\ ver' = WithStatus(job[j].of, "uploaded")
  /\ reg' = [reg EXCEPT ![j] = "uploaded"]
  /\ UNCHANGED <<material, current, pre, stored, blank, job, queue_vars, wk, crashes, lost>>

SendFrom(j, before, after) ==
  /\ reg[j] = before
  /\ queue[j] = "none"
  /\ queue' = [queue EXCEPT ![j] = "visible"]
  /\ reg' = [reg EXCEPT ![j] = after]
  /\ UNCHANGED <<material_vars, job, wk, crashes, late, twice, lost>>

\* mutant: the message is sent before the version is marked uploaded
SendFirst(j) == SendFrom(j, "created", "created")

Send(j) == SendFrom(j, "uploaded", "done")

\* the service is restarted, or SQS answers with an error
RegisterFails(j) ==
  /\ reg[j] \in {"created", "uploaded"}
  /\ reg' = [reg EXCEPT ![j] = "failed"]
  /\ UNCHANGED <<material_vars, job, queue_vars, wk, crashes, lost>>

\* delete_material: chunks, versions and the material in one transaction
DeleteMaterial ==
  /\ material = "exists"
  /\ material' = "deleted"
  /\ current' = None
  /\ ver' = [v \in Version |-> NoRow]
  /\ UNCHANGED <<pre, stored, blank, job, reg, queue_vars, wk, crashes, lost>>

-----------------------------------------------------------------------------
(* SQS.                                                                    *)

\* mutant: the message is deleted when it is received
ReceiveForGood(w, j) ==
  /\ wk[w].pc = "idle"
  /\ queue[j] = "visible"
  /\ queue' = [queue EXCEPT ![j] = "deleted"]
  /\ wk' = [wk EXCEPT ![w] = [Resting EXCEPT !.pc = "load", !.job = j]]
  /\ UNCHANGED <<material_vars, job, reg, crashes, late, twice, lost>>

Receive(w, j) ==
  /\ wk[w].pc = "idle"
  /\ queue[j] = "visible"
  /\ queue' = [queue EXCEPT ![j] = "hidden"]
  /\ wk' = [wk EXCEPT ![w] = [Resting EXCEPT !.pc = "load", !.job = j]]
  /\ twice' = IF Holders(j) # {} THEN twice \cup {j} ELSE twice
  /\ UNCHANGED <<material_vars, job, reg, crashes, late, lost>>

\* the message is not deleted in time
VisibilityTimeout(j) ==
  /\ queue[j] = "hidden"
  /\ IF Holders(j) = {} THEN UNCHANGED late ELSE late < MaxLate /\ late' = late + 1
  /\ queue' = [queue EXCEPT ![j] = "visible"]
  /\ UNCHANGED <<material_vars, job, reg, wk, crashes, twice, lost>>

\* a receipt that is not the newest one may delete the message or not
Deleted(w, j) ==
  \/ queue' = [queue EXCEPT ![j] = "deleted"]
  \/ (queue[j] = "visible" \/ Holders(j) # {w}) /\ UNCHANGED queue

-----------------------------------------------------------------------------
(* The pipeline, one commit after the other.                               *)

\* mutant: the version becomes current before its chunks are stored
AfterFlipFirst ==
  [load |-> "extracting", extracting |-> "chunking", chunking |-> "embedding",
   embedding |-> "ready", ready |-> "flip", flip |-> "persist", persist |-> "succeed",
   succeed |-> "ack"]

After ==
  [load |-> "extracting", extracting |-> "chunking", chunking |-> "embedding",
   embedding |-> "persist", persist |-> "ready", ready |-> "flip", flip |-> "succeed",
   succeed |-> "ack"]

Goto(w, pc) == wk' = [wk EXCEPT ![w].pc = pc, ![w].noted = FALSE]
Advance(w) == Goto(w, After[wk[w].pc])

\* get_version; a deleted version is noticed only when its chunks are stamped
Load(w) ==
  /\ wk[w].pc = "load"
  /\ wk' = [wk EXCEPT ![w].pc = After["load"], ![w].found = Of(w) \in Rows]
  /\ UNCHANGED <<material_vars, job, reg, queue_vars, crashes, lost>>

\* _step: the version's status, then the job's
StepVersion(w) ==
  /\ wk[w].pc \in Phases /\ ~wk[w].noted
  /\ ver' = WithStatus(Of(w), wk[w].pc)
  /\ wk' = [wk EXCEPT ![w].noted = TRUE]
  /\ UNCHANGED <<material, current, register_vars, job, queue_vars, crashes, lost>>

StepJob(w) ==
  /\ wk[w].pc \in Phases /\ wk[w].noted
  /\ job' = [job EXCEPT ![wk[w].job].status = "running"]
  /\ Goto(w, IF wk[w].pc = "chunking" /\ ~wk[w].found THEN "failing" ELSE After[wk[w].pc])
  /\ UNCHANGED <<material_vars, reg, queue_vars, crashes, lost>>

\* ON CONFLICT DO NOTHING
StoreChunks(w) ==
  /\ Of(w) \in Rows
  /\ ver' = [ver EXCEPT ![Of(w)].chunks = TRUE]
  /\ Advance(w)
  /\ UNCHANGED <<lost, blank>>

\* slides or pages that are all blank are units, so the run goes on, and give no chunk: there is
\* nothing to insert
StoreNothing(w) ==
  /\ blank' = blank \cup {Of(w)}
  /\ Advance(w)
  /\ UNCHANGED <<ver, lost>>

\* the foreign key of a deleted version aborts the transaction
AbortPersist(w) ==
  /\ Of(w) \notin Rows
  /\ Goto(w, "dying")
  /\ lost' = lost \cup {wk[w].job}
  /\ UNCHANGED <<ver, blank>>

Persist(w) ==
  /\ wk[w].pc = "persist"
  /\ StoreChunks(w) \/ StoreNothing(w) \/ AbortPersist(w)
  /\ UNCHANGED <<material, current, reg, stored, pre, job, queue_vars, crashes>>

MarkReady(w) ==
  /\ wk[w].pc = "ready"
  /\ ver' = WithStatus(Of(w), "ready")
  /\ Advance(w)
  /\ UNCHANGED <<material, current, register_vars, job, queue_vars, crashes, lost>>

SetCurrent(w) ==
  /\ wk[w].pc = "flip"
  /\ current' = IF material = "exists" THEN Of(w) ELSE current
  /\ Advance(w)
  /\ UNCHANGED <<material, ver, register_vars, job, queue_vars, crashes, lost>>

Succeed(w) ==
  /\ wk[w].pc = "succeed"
  /\ job' = [job EXCEPT ![wk[w].job].status = "succeeded"]
  /\ Advance(w)
  /\ UNCHANGED <<material_vars, reg, queue_vars, crashes, lost>>

-----------------------------------------------------------------------------
(* The worker.                                                             *)

\* no bytes, an unreadable file, no text (after "extracting"); no embedding (after "embedding")
RunFails(w) ==
  /\ wk[w].pc \in {"chunking", "persist"} /\ ~wk[w].noted
  /\ Goto(w, "failing")
  /\ UNCHANGED <<material_vars, job, reg, queue_vars, crashes, lost>>

\* _mark_failed: the version's status, then the job's
FailVersion(w) ==
  /\ wk[w].pc = "failing" /\ ~wk[w].noted
  /\ ver' = WithStatus(Of(w), "failed")
  /\ wk' = [wk EXCEPT ![w].noted = TRUE]
  /\ UNCHANGED <<material, current, register_vars, job, queue_vars, crashes, lost>>

RecordFailure(w, status) ==
  /\ wk[w].pc = "failing" /\ wk[w].noted
  /\ job' = [job EXCEPT ![wk[w].job].status = status]
  /\ Goto(w, "ack")
  /\ UNCHANGED <<material_vars, reg, queue_vars, crashes, lost>>

\* mutant: only the version is marked
FailVersionOnly(w) == RecordFailure(w, job[wk[w].job].status)

FailJob(w) == RecordFailure(w, "failed")

\* the connection is gone: _mark_failed raises as well, and only the `finally' is left
LoseConnection(w) ==
  /\ wk[w].pc \notin {"idle", "dying", "ack"}
  /\ crashes < MaxCrashes
  /\ crashes' = crashes + 1
  /\ Goto(w, "dying")
  /\ lost' = lost \cup {wk[w].job}
  /\ UNCHANGED <<material_vars, job, reg, queue_vars>>

\* `finally': the message is deleted whatever happened; a dying process is restarted
AckAfter(w, pcs) ==
  /\ wk[w].pc \in pcs
  /\ Deleted(w, wk[w].job)
  /\ wk' = [wk EXCEPT ![w] = Resting]
  /\ UNCHANGED <<material_vars, job, reg, crashes, late, twice, lost>>

\* mutant: a worker that dies leaves its message to the next one, which dies as well
AckUnlessDying(w) == AckAfter(w, {"ack"})

Ack(w) == AckAfter(w, {"ack", "dying"})

\* the process is killed and started again
Crash(w) ==
  /\ wk[w].pc # "idle"
  /\ crashes < MaxCrashes
  /\ crashes' = crashes + 1
  /\ wk' = [wk EXCEPT ![w] = Resting]
  /\ UNCHANGED <<material_vars, job, reg, queue_vars, lost>>

-----------------------------------------------------------------------------
Run(w) ==
  \/ Load(w)
  \/ StepVersion(w)
  \/ StepJob(w)
  \/ Persist(w)
  \/ MarkReady(w)
  \/ SetCurrent(w)
  \/ Succeed(w)
  \/ FailVersion(w)
  \/ FailJob(w)
  \/ Ack(w)

Next ==
  \/ \E v \in Version : Presign(v) \/ CreateVersion(v) \/ Upload(v)
  \/ \E j \in Job, v \in Version : CreateJob(j, v)
  \/ \E j \in Job : MarkUploaded(j) \/ Send(j) \/ RegisterFails(j) \/ VisibilityTimeout(j)
  \/ DeleteMaterial
  \/ \E w \in Worker, j \in Job : Receive(w, j)
  \/ \E w \in Worker : Run(w) \/ RunFails(w) \/ LoseConnection(w) \/ Crash(w)

(***************************************************************************)
(* Workers run, each polling the queue whenever it is free, and SQS makes  *)
(* what was not deleted visible again.                                     *)
(***************************************************************************)
Fairness ==
  /\ \A w \in Worker : WF_vars(Run(w))
  /\ \A j \in Job : WF_vars(VisibilityTimeout(j)) /\ SF_vars(\E w \in Worker : Receive(w, j))

Spec == Init /\ [][Next]_vars
FairSpec == Spec /\ Fairness

-----------------------------------------------------------------------------
(* Properties.                                                             *)

\* Every variable has its type.
TypeOK ==
  /\ material \in {"exists", "deleted"}
  /\ current \in Version \cup {None}
  /\ pre \in [Version -> Number]
  /\ ver \in [Version -> VersionRow]
  /\ stored \subseteq Version
  /\ job \in [Job -> JobRow]
  /\ reg \in [Job -> {"idle", "created", "uploaded", "done", "failed"}]
  /\ queue \in [Job -> {"none", "visible", "hidden", "deleted"}]
  /\ wk \in [Worker -> WorkerState]
  /\ crashes \in 0 .. MaxCrashes
  /\ late \in 0 .. MaxLate
  /\ twice \subseteq Job
  /\ lost \subseteq Job
  /\ blank \subseteq Version

\* The versions of a material are numbered 1, 2, ... without gap or repetition, however
\* many presigns overlap.  The number is part of the S3 key a browser may write to.
VersionsNumbered ==
  /\ \A v, o \in Rows : ver[v].no = ver[o].no => v = o
  /\ \A v \in Rows : \A n \in 1 .. ver[v].no : \E o \in Rows : ver[o].no = n

Searchable(v) == ver[v].chunks \/ v \in blank

\* What search joins on has chunks: the current version, every version shown as ready, and, unless
\* the material was deleted, the material of a job shown as succeeded; through redelivery, two
\* workers at one message, crashes and deletion.  The exception is a version whose file had nothing
\* but blank slides or pages (pipeline.py, _embed_and_persist and _finalize).
ReadyIsSearchable ==
  /\ current # None => current \in Rows /\ Searchable(current)
  /\ \A v \in Rows : ver[v].status = "ready" => Searchable(v)
  /\ \A j \in Job : job[j].status = "succeeded" => material = "deleted" \/ current # None

Handled(j) == queue[j] = "deleted" /\ Holders(j) = {}
Settled(j) == job[j].status \in {"succeeded", "failed"}

\* handle "record[s] failure and always ack[s] the message": a message is gone only when
\* its job shows how it ended.
FailureRecorded == \A j \in Job \ twice : Handled(j) => Settled(j)

\* The same with its exception: the record is missing only where the worker had lost its
\* database transaction, or the message was delivered to a second worker too early.
RecordedUnlessLost == \A j \in Job \ (twice \cup lost) : Handled(j) => Settled(j)

\* The worker promises what every handler of a queue does: a message is removed only when the worker
\* that has it has recorded how its job ended, or has lost its connection, and only a worker at the
\* job changes how it ended (async_jobs/worker.py, handle; async_jobs/pipeline.py, run_pipeline).
Queue == INSTANCE WorkQueue WITH
  Message <- Job, Handler <- Worker, Aside <- {},
  mail <- queue,
  hand <- [w \in Worker |-> wk[w].job],
  done <- {w \in Worker : wk[w].pc \in {"ack", "dying"}},
  told <- {j \in Job : Settled(j)}

ImplementsWorkQueue == Queue!Spec

\* What the worker has recorded of a version is reset to "uploaded" only by registering
\* that version a second time, never by the register whose message the worker has.
ProgressNotReset ==
  [][\A v \in Version : ver[v].status \in Phases \cup {"ready", "failed"} /\ ver'[v].status = "uploaded" =>
        \E j, k \in Job : j # k /\ job[j].of = v /\ job[k].of = v]_vars

\* Every message is dealt with, after crashes, late deliveries and lost connections.
MessagesHandled == \A j \in Job : queue[j] = "visible" ~> queue[j] = "deleted"
=============================================================================
