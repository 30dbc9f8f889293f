----------------------------- MODULE GraphBuild -----------------------------
(***************************************************************************)
(* The graph builds of one course behind the agent tools: rebuild_graph of *)
(* graph/tools.py, the FIFO queue and the worker of graph/worker_handler.py*)
(* and the versions of graph/metadata.py.                                  *)
(*                                                                         *)
(* Each call of the metadata store is a transaction; activate_version has  *)
(* two statements in one.  The store keeps one connection for the life of  *)
(* its process and never rolls back, so that once a statement has failed   *)
(* every later one of the process fails too.                               *)
(***************************************************************************)
EXTENDS Naturals, FiniteSets, Sequences

CONSTANTS
  Job,        \* build messages
  Version,    \* version ids
  Worker,
  None,
  MaxCrashes, \* how often a worker is killed or its connection breaks
  MaxLate     \* how often a message's visibility ends while its worker is at it

\* of the constants; assumed where they get values
GraphBuildAssumption == None \notin Job \cup Version /\ {MaxCrashes, MaxLate} \subseteq Nat

VARIABLES
  sent,     \* the messages in the order of their sending
  queue,    \* SQS: state of each message
  ver,      \* graph_version rows
  archive,  \* S3: whose graph is stored, by version number
  wk,       \* the workers
  crashes, late,
  twice,    \* history: messages received more than once
  lost      \* history: messages handled on a connection that had failed

vars == <<sent, queue, ver, archive, wk, crashes, late, twice, lost>>

NoRow == [job |-> None, no |-> 0, active |-> FALSE, state |-> "none", failed |-> FALSE]
Idle == [pc |-> "idle", job |-> None, id |-> None, no |-> 0, seen |-> {}, off |-> {}, broken |-> FALSE]

Init ==
  /\ sent = <<>>
  /\ queue = [j \in Job |-> "none"]
  /\ ver = [v \in Version |-> NoRow]
  /\ archive = [n \in {} |-> None]
  /\ wk = [w \in Worker |-> Idle]
  /\ crashes = 0 /\ late = 0
  /\ twice = {} /\ lost = {}

Rows == {v \in Version : ver[v].job # None}
Active == {v \in Rows : ver[v].active}
Holders(j) == {w \in Worker : wk[w].job = j}
Goto(w, pc) == wk' = [wk EXCEPT ![w].pc = pc]

-----------------------------------------------------------------------------
(* rebuild_graph and the queue: one message group for the course.          *)

Send(j) ==
  /\ queue[j] = "none"
  /\ queue' = [queue EXCEPT ![j] = "visible"]
  /\ sent' = Append(sent, j)
  /\ UNCHANGED <<ver, archive, wk, crashes, late, twice, lost>>

\* the oldest message not deleted yet, if it is not being handled
Receive(w, j) ==
  /\ wk[w].pc = "idle" /\ queue[j] = "visible"
  /\ \A i \in 1 .. Len(sent) : queue[sent[i]] # "deleted" => \E k \in 1 .. i : sent[k] = j
  /\ queue' = [queue EXCEPT ![j] = "hidden"]
  /\ wk' = [wk EXCEPT ![w] = [Idle EXCEPT !.pc = "number", !.job = j, !.broken = wk[w].broken]]
  /\ twice' = IF Holders(j) # {} \/ \E v \in Rows : ver[v].job = j THEN twice \cup {j} ELSE twice
  /\ UNCHANGED <<sent, ver, archive, crashes, late, lost>>

VisibilityTimeout(j) ==
  /\ queue[j] = "hidden"
  /\ Holders(j) # {} => late < MaxLate
  /\ late' = IF Holders(j) # {} THEN late + 1 ELSE late
  /\ queue' = [queue EXCEPT ![j] = "visible"]
  /\ UNCHANGED <<sent, ver, archive, wk, crashes, twice, lost>>

-----------------------------------------------------------------------------
(* handle.                                                                 *)

At(w, pc) == wk[w].pc = pc /\ ~wk[w].broken

NextNumber(w) ==
  /\ At(w, "number")
  /\ \E n \in {0} \cup {ver[v].no : v \in Rows} :
       /\ \A v \in Rows : ver[v].no <= n
       /\ wk' = [wk EXCEPT ![w].pc = "create", ![w].no = n + 1]
  /\ UNCHANGED <<sent, queue, ver, archive, crashes, late, twice, lost>>

\* under a fresh id
Create(w) ==
  /\ At(w, "create") /\ Rows # Version
  /\ LET v == CHOOSE v \in Version : v \notin Rows
     IN /\ ver' = [ver EXCEPT ![v] = [NoRow EXCEPT !.job = wk[w].job, !.no = wk[w].no, !.state = "created"]]
        /\ wk' = [wk EXCEPT ![w].pc = "fetch", ![w].id = v]
  /\ UNCHANGED <<sent, queue, archive, crashes, late, twice, lost>>

\* without text the version is activated without an archive
FetchChunks(w, found) ==
  /\ At(w, "fetch")
  /\ Goto(w, IF found THEN "upload" ELSE "update")
  /\ UNCHANGED <<sent, queue, ver, archive, crashes, late, twice, lost>>

\* the graph is built in a directory of the worker's own
Upload(w) ==
  /\ At(w, "upload")
  /\ archive' = [n \in DOMAIN archive \cup {wk[w].no} |-> IF n = wk[w].no THEN wk[w].id ELSE archive[n]]
  /\ Goto(w, "built")
  /\ UNCHANGED <<sent, queue, ver, crashes, late, twice, lost>>

UpdateVersion(w) ==
  /\ At(w, "update") \/ At(w, "built")
  /\ ver' = [ver EXCEPT ![wk[w].id].state = IF wk[w].pc = "built" THEN "built" ELSE "empty",
                         ![wk[w].id].failed = FALSE]
  /\ Goto(w, "activate")
  /\ UNCHANGED <<sent, queue, archive, crashes, late, twice, lost>>

-----------------------------------------------------------------------------
(* activate_version.                                                       *)

\* the first UPDATE fixes its rows when it starts
Deactivate(w) ==
  /\ At(w, "activate")
  /\ wk' = [wk EXCEPT ![w].pc = "deactivating", ![w].seen = Active]
  /\ UNCHANGED <<sent, queue, ver, archive, crashes, late, twice, lost>>

\* mutant: the flip is two transactions
DeactivateNow(w) ==
  /\ At(w, "deactivating")
  /\ \A u \in Worker \ {w} : wk[u].off \cap wk[w].seen = {}
  /\ ver' = [v \in Version |-> [ver[v] EXCEPT !.active = @ /\ v \notin wk[w].seen]]
  /\ wk' = [wk EXCEPT ![w].pc = "commit", ![w].seen = {}]
  /\ UNCHANGED <<sent, queue, archive, crashes, late, twice, lost>>

\* it waits for those another transaction holds, and leaves out what is no longer active
Deactivated(w) ==
  /\ At(w, "deactivating")
  /\ \A u \in Worker \ {w} : wk[u].off \cap wk[w].seen = {}
  /\ wk' = [wk EXCEPT ![w].pc = "commit", ![w].off = wk[w].seen \cap Active, ![w].seen = {}]
  /\ UNCHANGED <<sent, queue, ver, archive, crashes, late, twice, lost>>

Activate(w) ==
  /\ At(w, "commit")
  /\ ver' = [v \in Version |-> [ver[v] EXCEPT !.active = v = wk[w].id \/ (@ /\ v \notin wk[w].off)]]
  /\ wk' = [wk EXCEPT ![w].pc = "ack", ![w].off = {}]
  /\ UNCHANGED <<sent, queue, archive, crashes, late, twice, lost>>

-----------------------------------------------------------------------------
(* Failures.                                                               *)

\* chunks, extraction or the upload fail
BuildFails(w) ==
  /\ wk[w].pc \in {"fetch", "upload"}
  /\ Goto(w, "mark")
  /\ UNCHANGED <<sent, queue, ver, archive, crashes, late, twice, lost>>

\* the metadata connection breaks; what its transaction had done is undone
ConnectionBreaks(w) ==
  /\ wk[w].pc \in {"number", "create", "update", "built", "activate", "deactivating", "commit"}
  /\ ~wk[w].broken /\ crashes < MaxCrashes
  /\ crashes' = crashes + 1
  /\ wk' = [wk EXCEPT ![w].broken = TRUE]
  /\ UNCHANGED <<sent, queue, ver, archive, late, twice, lost>>

\* on a connection that has failed, with whatever message is being handled
StatementFails(w) ==
  /\ wk[w].broken /\ wk[w].pc \notin {"idle", "mark", "ack"}
  /\ wk' = [wk EXCEPT ![w].pc = "mark", ![w].seen = {}, ![w].off = {}]
  /\ UNCHANGED <<sent, queue, ver, archive, crashes, late, twice, lost>>

\* the newest version of the job gets the score -1, if the connection still works
MarkFailed(w) ==
  /\ wk[w].pc = "mark"
  /\ LET own == {v \in Rows : ver[v].job = wk[w].job}
         newest == {v \in own : \A u \in own : ver[u].no <= ver[v].no}
     IN IF wk[w].broken \/ own = {} THEN ver' = ver
        ELSE \E v \in newest : ver' = [ver EXCEPT ![v].failed = TRUE]
  /\ lost' = IF wk[w].broken THEN lost \cup {wk[w].job} ELSE lost
  /\ Goto(w, "ack")
  /\ UNCHANGED <<sent, queue, archive, crashes, late, twice>>

\* always; the receipt of an earlier delivery may have lost its force
Ack(w) ==
  /\ wk[w].pc = "ack"
  /\ \/ queue' = [queue EXCEPT ![wk[w].job] = "deleted"]
     \/ wk[w].job \in twice /\ queue' = queue
  /\ wk' = [wk EXCEPT ![w] = [Idle EXCEPT !.broken = wk[w].broken]]
  /\ UNCHANGED <<sent, ver, archive, crashes, late, twice, lost>>

\* the process ends: its connection goes with it
Crash(w) ==
  /\ wk[w].pc # "idle" /\ crashes < MaxCrashes
  /\ crashes' = crashes + 1
  /\ wk' = [wk EXCEPT ![w] = Idle]
  /\ UNCHANGED <<sent, queue, ver, archive, late, twice, lost>>

Next ==
  \/ \E j \in Job : Send(j) \/ VisibilityTimeout(j) \/ \E w \in Worker : Receive(w, j)
  \/ \E w \in Worker :
       \/ NextNumber(w) \/ Create(w)
       \/ \E found \in BOOLEAN : FetchChunks(w, found)
       \/ Upload(w) \/ UpdateVersion(w) \/ Deactivate(w) \/ Deactivated(w) \/ Activate(w)
       \/ BuildFails(w) \/ ConnectionBreaks(w) \/ StatementFails(w) \/ MarkFailed(w)
       \/ Ack(w) \/ Crash(w)

Spec == Init /\ [][Next]_vars

-----------------------------------------------------------------------------
(* Properties.                                                             *)

\* What the course shows has been built, and the archive under its number is its own; there is one
\* such version and numbers are not used twice.  A message that was received twice may break that:
\* the queue's order is what keeps the builds of a course apart.
ServedOnceBuilt ==
  /\ \A v \in Active : ver[v].state = "empty" \/ (ver[v].state = "built" /\ ver[v].no \in DOMAIN archive)
  /\ twice = {} =>
       /\ Cardinality(Active) <= 1
       /\ \A u, v \in Rows : u # v => ver[u].no # ver[v].no
       /\ \A v \in Active : ~ver[v].failed /\ (ver[v].state = "built" => archive[ver[v].no] = v)

\* A message is gone only when its version was activated or marked as failed, unless it was handled on
\* a connection that had failed, of which a later message of the same process suffers too.
OutcomeRecorded ==
  \A j \in Job \ lost :
    queue[j] = "deleted" =>
      \E v \in Rows : ver[v].job = j /\ (ver[v].failed \/ ver[v].state \in {"empty", "built"})

\* From the first build on the course always shows a graph: the flip leaves no gap.
KeepsShowing == Active # {} => Active' # {}

Recorded(j) == \E v \in Rows : ver[v].job = j /\ (ver[v].failed \/ ver[v].state \in {"empty", "built"})

\* The worker promises what every handler of a queue does (graph/worker_handler.py, handle).
Queue == INSTANCE WorkQueue WITH
  Message <- Job, Handler <- Worker, Aside <- {},
  mail <- queue,
  hand <- [w \in Worker |-> wk[w].job],
  done <- {w \in Worker : wk[w].pc = "ack"},
  told <- {j \in Job : Recorded(j)}

ImplementsWorkQueue == Queue!Spec
=============================================================================
