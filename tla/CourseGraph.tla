----------------------------- MODULE CourseGraph -----------------------------
(***************************************************************************)
(* The concept graph of one course: per-document rows, the course rows     *)
(* recomputed from them and the published snapshot (app/concept_graph.py), *)
(* with everything that writes them: the build after an ingest             *)
(* (async_jobs/pipeline.py) and, in app/http_app.py, the build of one      *)
(* document, the full rebuild, the deletion of a material, the choice of   *)
(* the syllabus and the professor's curation.                              *)
(*                                                                         *)
(* Transactions are READ COMMITTED.  What an open one has done stays in    *)
(* its operation until it commits; a DELETE or UPDATE fixes its rows when  *)
(* it starts and waits for those that another transaction holds; an INSERT *)
(* into course_concept meets UNIQUE (course_id, label), on the label as    *)
(* spelled.  A concept is its label, lower-cased (Fold): a snapshot keeps  *)
(* one spelling of each.  Definitions, banks and edges follow the labels.  *)
(***************************************************************************)
EXTENDS Naturals, FiniteSets

CONSTANTS
  Doc,        \* the material versions of the course
  DataDoc,    \* those of a type in NON_GRAPH_SOURCE_TYPES
  Label,      \* concept labels as they are spelled
  Fold,       \* strip().lower() of a label, the concept
  Contents,   \* the sets of labels that are found in documents
  Op,         \* the operations; a version is known by the operation that published it
  Kind,       \* the kinds of operation that happen
  None,
  MaxRestarts \* how often the service or the worker dies

ASSUME GraphAssumption ==
  /\ DataDoc \subseteq Doc
  /\ None \notin Doc
  /\ DOMAIN Fold = Label /\ Contents \subseteq SUBSET Label
  /\ Op \cap ((Doc \X Label \X Op) \cup (Label \X Op)) = {}   \* a version is not a row
  /\ MaxRestarts \in Nat
  /\ Kind \subseteq {"ingest", "build", "rebuild", "delete", "mark", "curate"}

VARIABLES
  chunks,     \* the documents that have chunks
  gone,       \* history: the documents whose material was deleted
  syllabus,   \* course_syllabus: at most one document
  docRows,    \* document_concept: <<document, label, operation>>
  courseRows, \* course_concept: <<label, operation>>
  version,    \* graph_version, by publishing operation
  inflight,   \* _INFLIGHT_REBUILDS has the course
  op,         \* the operations
  excuse,     \* history: why the published graph may not be the documents' graph
  restarts

vars == <<chunks, gone, syllabus, docRows, courseRows, version, inflight, op, excuse, restarts>>
tables == <<chunks, gone, syllabus, docRows, courseRows>>

Idle ==
  [kind |-> "none", pc |-> "idle", doc |-> None, todo |-> {}, got |-> {}, wipe |-> FALSE,
   del |-> {}, ins |-> {}, cdel |-> {}, cins |-> {}, upd |-> {},   \* what its transaction has done
   excl |-> {}, graph |-> {},
   blocked |-> FALSE, seen |-> {},                                 \* a statement that waits, and its rows
   overlapped |-> FALSE, partial |-> FALSE]                        \* history

Ended == [Idle EXCEPT !.pc = "done"]
Unpublished == [state |-> "none", labels |-> {}, published |-> {}, stale |-> FALSE]

Init ==
  /\ chunks = {} /\ gone = {} /\ syllabus = {}
  /\ docRows = {} /\ courseRows = {}
  /\ version = [o \in Op |-> Unpublished]
  /\ inflight = FALSE
  /\ op = [o \in Op |-> Idle]
  /\ excuse = {}
  /\ restarts = 0

Active == {o \in Op : version[o].state = "active"}
InSnapshot(o) == op[o].pc \in {"merge", "clear", "insert", "retire", "commit"}

-----------------------------------------------------------------------------
(* Statements and the row locks between transactions.                      *)

Others(o) == Op \ {o}
View(o) == (docRows \ op[o].del) \cup op[o].ins

\* rows another transaction has deleted or updated and not committed
Held(o) == UNION {op[p].del \cup op[p].cdel \cup op[p].upd : p \in Others(o)}

Orphans(o) == {r \in View(o) : r[1] \notin chunks}

Targets(o) ==
  CASE op[o].pc = "write" -> {r \in docRows : r[1] = op[o].doc}
    [] op[o].pc = "purge" -> IF op[o].wipe THEN docRows ELSE Orphans(o)
    [] op[o].pc = "clear" -> courseRows
    [] op[o].pc = "retire" -> {p \in Op : version[p].state # "none"}
    [] op[o].pc \in {"stale", "unstale", "curate"} -> Active
    [] OTHER -> {}

Aim(o) == IF op[o].blocked THEN op[o].seen ELSE Targets(o)

Block(o) ==
  /\ ~op[o].blocked
  /\ Targets(o) \cap Held(o) # {}
  /\ op' = [op EXCEPT ![o].blocked = TRUE, ![o].seen = Targets(o),
                      ![o].overlapped = @ \/ op[o].pc = "purge"]
  /\ UNCHANGED <<tables, version, inflight, excuse, restarts>>

At(o, pc) == op[o].pc = pc /\ Aim(o) \cap Held(o) = {}

\* the operation after a statement
Past(o, pc) == [op[o] EXCEPT !.pc = pc, !.blocked = FALSE, !.seen = {}]
Goto(o, next) ==
  /\ op' = [op EXCEPT ![o] = next]
  /\ UNCHANGED <<tables, version, inflight, excuse, restarts>>

\* what happened to the tables is not in a snapshot that is open already
Spoiled(next) ==
  [p \in Op |-> IF InSnapshot(p) THEN [next[p] EXCEPT !.overlapped = TRUE] ELSE next[p]]

\* opening a snapshot while another one is open
Opening(o, next) ==
  LET open == {p \in Others(o) : InSnapshot(p)}
  IN [p \in Op |-> IF p = o THEN [next EXCEPT !.overlapped = @ \/ open # {}]
                   ELSE IF p \in open THEN [op[p] EXCEPT !.overlapped = TRUE] ELSE op[p]]

\* operation o ends with what it committed not published
Abandon(o, next) ==
  LET after == [op EXCEPT ![o] = next]
  IN IF op[o].partial THEN /\ excuse' = excuse \cup {"partial"}
                           /\ op' = Spoiled(after)
     ELSE excuse' = excuse /\ op' = after

-----------------------------------------------------------------------------
(* What starts an operation.                                               *)

Begins(o, kind, next) ==
  /\ kind \in Kind
  /\ op[o].pc = "idle"
  /\ op' = [op EXCEPT ![o] = [next EXCEPT !.kind = kind]]

\* the worker has committed the chunks of d; _trigger_graph_build starts a thread
Ingest(o, d) ==
  /\ d \notin chunks \cup gone
  /\ chunks' = chunks \cup {d}
  /\ Begins(o, "ingest", IF d \in DataDoc THEN Ended ELSE [Idle EXCEPT !.pc = "read", !.doc = d])
  /\ UNCHANGED <<gone, syllabus, docRows, courseRows, version, inflight, excuse, restarts>>

\* build_material_graph; the type of the document is not looked at
BuildMaterial(o, d) ==
  /\ d \in chunks \ syllabus
  /\ Begins(o, "build", [Idle EXCEPT !.pc = "read", !.doc = d])
  /\ UNCHANGED <<tables, version, inflight, excuse, restarts>>

RebuildGraph(o) ==
  /\ chunks # {}
  /\ Begins(o, "rebuild", [Idle EXCEPT !.pc = "stale"])
  /\ UNCHANGED <<tables, version, inflight, excuse, restarts>>

\* delete_material's first transaction
DeleteMaterial(o, d) ==
  /\ d \in chunks
  /\ chunks' = chunks \ {d}
  /\ gone' = gone \cup {d}
  /\ Begins(o, "delete", [Idle EXCEPT !.pc = "purge"])
  /\ UNCHANGED <<syllabus, docRows, courseRows, version, inflight, excuse, restarts>>

\* set_syllabus' first transaction
SetSyllabus(o, s) ==
  /\ s # syllabus
  /\ syllabus' = s
  /\ Begins(o, "mark", [Idle EXCEPT !.pc = "purge"])
  /\ UNCHANGED <<chunks, gone, docRows, courseRows, version, inflight, excuse, restarts>>

\* save_graph_concepts reads an active graph
CurateRead(o, kept) ==
  /\ Active # {}
  /\ Begins(o, "curate", [Idle EXCEPT !.pc = "curate", !.got = kept])
  /\ UNCHANGED <<tables, version, inflight, excuse, restarts>>

-----------------------------------------------------------------------------
(* Extracting one document.                                                *)

Read(o) ==
  /\ op[o].pc = "read"
  /\ Goto(o, IF op[o].kind = "ingest" /\ op[o].doc \in syllabus THEN Past(o, "purge")
             ELSE IF op[o].doc \in chunks THEN Past(o, "llm")
             ELSE IF op[o].kind = "rebuild" THEN Past(o, "next") ELSE Ended)

Extract(o, labels) ==
  /\ op[o].pc = "llm"
  /\ Goto(o, [Past(o, "write") EXCEPT !.got = labels])

Rows(o) == {op[o].doc} \X op[o].got \X {o}

\* write_document_concepts, inside the transaction of the snapshot
WriteConcepts(o) ==
  /\ At(o, "write") /\ op[o].kind # "rebuild"
  /\ Goto(o, [Past(o, "purge") EXCEPT !.del = Aim(o) \cap docRows, !.ins = Rows(o)])

\* the full rebuild commits each document
WriteAndCommit(o) ==
  /\ At(o, "write") /\ op[o].kind = "rebuild"
  /\ docRows' = (docRows \ Aim(o)) \cup Rows(o)
  /\ op' = [op EXCEPT ![o] = [Past(o, "next") EXCEPT !.got = {}, !.partial = TRUE]]
  /\ UNCHANGED <<chunks, gone, syllabus, courseRows, version, inflight, excuse, restarts>>

-----------------------------------------------------------------------------
(* The rebuild thread, _rebuild_course_graph_bg.                           *)

\* is_stale = true, by the endpoint or by a deletion whose recompute failed
MarkStale(o) ==
  /\ At(o, "stale")
  /\ version' = [p \in Op |-> IF p \in Aim(o) \cap Active THEN [version[p] EXCEPT !.stale = TRUE]
                              ELSE version[p]]
  /\ op' = [op EXCEPT ![o] = Past(o, "thread")]
  /\ UNCHANGED <<tables, inflight, excuse, restarts>>

EnterRebuild(o) ==
  /\ op[o].pc = "thread"
  /\ inflight' = TRUE
  /\ op' = [op EXCEPT ![o].pc = "list"]
  /\ UNCHANGED <<tables, version, excuse, restarts>>

\* no connection: there is nothing to clear the flag with
ConnectFails(o) ==
  /\ op[o].pc = "list"
  /\ inflight' = FALSE
  /\ op' = Spoiled([op EXCEPT ![o] = Ended])
  /\ excuse' = excuse \cup {"lost"}
  /\ UNCHANGED <<tables, version, restarts>>

ListDocuments(o) ==
  /\ op[o].pc = "list"
  /\ LET docs == chunks \ (DataDoc \cup syllabus)
     IN Goto(o, IF docs = {} THEN [Past(o, "purge") EXCEPT !.wipe = TRUE]
                ELSE [Past(o, "next") EXCEPT !.todo = docs])

NextDocument(o) ==
  /\ op[o].pc = "next"
  /\ IF op[o].todo = {} THEN Goto(o, [Past(o, "purge") EXCEPT !.doc = None])
     ELSE \E d \in op[o].todo : Goto(o, [Past(o, "read") EXCEPT !.doc = d, !.todo = @ \ {d}])

\* after a failure
ClearStale(o) ==
  /\ At(o, "unstale")
  /\ version' = [p \in Op |-> IF p \in Aim(o) \cap Active THEN [version[p] EXCEPT !.stale = FALSE]
                              ELSE version[p]]
  /\ Abandon(o, Past(o, "leave"))
  /\ UNCHANGED <<tables, inflight, restarts>>

\* the connection is what was lost, or is lost now: the failure is swallowed
ClearFails(o) ==
  /\ op[o].pc = "unstale"
  /\ op' = Spoiled([op EXCEPT ![o] = Past(o, "leave")])
  /\ excuse' = excuse \cup {"lost"}
  /\ UNCHANGED <<tables, version, inflight, restarts>>

\* the entry is the course's, whoever put it there
LeaveRebuild(o) ==
  /\ op[o].pc = "leave"
  /\ inflight' = FALSE
  /\ op' = [op EXCEPT ![o] = Ended]
  /\ UNCHANGED <<tables, version, excuse, restarts>>

-----------------------------------------------------------------------------
(* snapshot_course_graph, and the wipe of a course without documents.      *)

Purge(o) ==
  /\ At(o, "purge")
  /\ op' = Opening(o, [Past(o, IF op[o].wipe THEN "clear" ELSE "merge") EXCEPT
                         !.del = @ \cup (Aim(o) \cap docRows), !.ins = @ \ Orphans(o), !.excl = syllabus])
  /\ UNCHANGED <<tables, version, inflight, excuse, restarts>>

\* one spelling of every concept found: the first that the unordered SELECT returns
Merges(graph, found) ==
  /\ graph \subseteq found
  /\ \A l \in found : \E k \in graph : Fold[k] = Fold[l]
  /\ \A k, l \in graph : Fold[k] = Fold[l] => k = l

\* mutant: labels are compared as spelled
MergeSpelled(o) ==
  /\ op[o].pc = "merge"
  /\ Goto(o, [Past(o, "clear") EXCEPT !.graph = {r[2] : r \in {v \in View(o) : v[1] \notin op[o].excl}}])

MergeDocuments(o) ==
  /\ op[o].pc = "merge"
  /\ LET found == {r[2] : r \in {v \in View(o) : v[1] \notin op[o].excl}}
     IN \E graph \in SUBSET found :
          /\ Merges(graph, found)
          /\ Goto(o, [Past(o, "clear") EXCEPT !.graph = graph])

ClearCourse(o) ==
  /\ At(o, "clear")
  /\ Goto(o, [Past(o, "insert") EXCEPT !.cdel = Aim(o) \cap courseRows])

Clash(o) == {c \in courseRows \ op[o].cdel : c[1] \in op[o].graph}
Inserting(o) ==
  {p \in Others(o) : \E c \in op[p].cins \cup (op[p].cdel \cap Clash(o)) : c[1] \in op[o].graph}

InsertAt(o) == op[o].pc = "insert" /\ Inserting(o) = {}

\* mutant: ON CONFLICT DO NOTHING, as for the edges
InsertAnyway(o) ==
  /\ InsertAt(o)
  /\ Goto(o, [Past(o, "retire") EXCEPT !.cins = (op[o].graph \ {c[1] : c \in Clash(o)}) \X {o}])

InsertCourse(o) ==
  /\ InsertAt(o) /\ Clash(o) = {}
  /\ Goto(o, [Past(o, "retire") EXCEPT !.cins = op[o].graph \X {o}])

Retire(o) ==
  /\ At(o, "retire")
  /\ Goto(o, [Past(o, "commit") EXCEPT !.upd = Aim(o)])

Published(o) ==
  [p \in Op |->
     IF p = o /\ ~op[o].wipe
     THEN [state |-> "active", labels |-> op[o].graph, published |-> op[o].graph, stale |-> FALSE]
     ELSE IF p \in op[o].upd
     THEN [version[p] EXCEPT !.state = "retired", !.labels = {}, !.published = {}, !.stale = FALSE]
     ELSE version[p]]

CommitSnapshot(o) ==
  /\ op[o].pc = "commit"
  /\ docRows' = (docRows \ op[o].del) \cup op[o].ins
  /\ courseRows' = (courseRows \ op[o].cdel) \cup op[o].cins
  /\ version' = Published(o)
  /\ excuse' = IF op[o].overlapped THEN excuse \cup {"overlap"} ELSE {}
  /\ op' = [op EXCEPT ![o] = IF op[o].kind = "rebuild" THEN [Idle EXCEPT !.kind = "rebuild", !.pc = "leave"]
                             ELSE Ended]
  /\ UNCHANGED <<chunks, gone, syllabus, inflight, restarts>>

Curate(o) ==
  /\ At(o, "curate")
  /\ version' = [p \in Op |-> IF p \in Aim(o) \cap Active THEN [version[p] EXCEPT !.labels = op[o].got]
                              ELSE version[p]]
  /\ op' = [op EXCEPT ![o] = Ended]
  /\ excuse' = excuse \cup {"curated"}
  /\ UNCHANGED <<tables, inflight, restarts>>

-----------------------------------------------------------------------------
(* Failures: rollback, and what each caller does next.                     *)

\* mutant: a rebuild that failed leaves the flag
AfterFailureFlagged(o) ==
  CASE op[o].kind = "rebuild" -> [Idle EXCEPT !.kind = "rebuild", !.pc = "leave", !.partial = op[o].partial]
    [] op[o].kind = "delete" -> [Idle EXCEPT !.kind = "rebuild", !.pc = "stale", !.partial = TRUE]
    [] OTHER -> Ended

AfterFailure(o) ==
  CASE op[o].kind = "rebuild" -> [Idle EXCEPT !.kind = "rebuild", !.pc = "unstale", !.partial = op[o].partial]
    [] op[o].kind = "delete" -> [Idle EXCEPT !.kind = "rebuild", !.pc = "stale", !.partial = TRUE]
    [] OTHER -> Ended

Failing(o) ==
  /\ IF op[o].kind = "mark" THEN /\ excuse' = excuse \cup {"partial"}
                                 /\ op' = Spoiled([op EXCEPT ![o] = AfterFailure(o)])
     ELSE Goto(o, AfterFailure(o))
  /\ UNCHANGED <<tables, version, inflight, restarts>>

\* the model's answer is cut off or no JSON
ExtractFails(o) == op[o].pc = "llm" /\ Failing(o)

\* UNIQUE (course_id, label)
InsertClashes(o) == InsertAt(o) /\ Clash(o) # {} /\ Failing(o)

\* the transactions an operation waits for; rows are inserted one by one, in the order the
\* documents' rows were read in, so that two snapshots may wait for each other's labels
Awaits(o) ==
  IF op[o].pc = "insert"
  THEN Inserting(o) \cup {p \in Others(o) : op[p].pc = "insert" /\ Cardinality(op[o].graph \cap op[p].graph) > 1}
  ELSE IF op[o].blocked
  THEN {p \in Others(o) : (op[p].del \cup op[p].cdel \cup op[p].upd) \cap op[o].seen # {}}
  ELSE {}

Deadlocks(o) ==
  /\ \E cycle \in SUBSET Op : o \in cycle /\ \A p \in cycle : Awaits(p) \cap cycle # {}
  /\ Failing(o)

\* The web process ends, with its requests and threads; its shutdown hook runs
\* when it is asked to.  Builds after an ingest belong to the worker.
Restart(graceful) ==
  /\ restarts < MaxRestarts
  /\ \E o \in Op : op[o].pc \notin {"idle", "done"} /\ op[o].kind # "ingest"
  /\ restarts' = restarts + 1
  /\ inflight' = FALSE
  /\ version' = IF graceful /\ inflight
                THEN [p \in Op |-> IF p \in Active THEN [version[p] EXCEPT !.stale = FALSE] ELSE version[p]]
                ELSE version
  /\ excuse' = excuse \cup {"restart"}
  /\ op' = Spoiled([o \in Op |-> IF op[o].pc = "idle" \/ op[o].kind = "ingest" THEN op[o] ELSE Ended])
  /\ UNCHANGED tables

WorkerDies ==
  /\ restarts < MaxRestarts
  /\ \E o \in Op : op[o].pc # "done" /\ op[o].kind = "ingest"
  /\ restarts' = restarts + 1
  /\ op' = [o \in Op |-> IF op[o].kind = "ingest" THEN Ended ELSE op[o]]
  /\ UNCHANGED <<tables, version, inflight, excuse>>

Request(o) ==
  \/ \E d \in Doc : Ingest(o, d) \/ BuildMaterial(o, d) \/ DeleteMaterial(o, d)
  \/ \E s \in {{}} \cup {{d} : d \in Doc} : SetSyllabus(o, s)
  \/ \E kept \in SUBSET Label \ {{}} : CurateRead(o, kept)
  \/ RebuildGraph(o)

Step(o) ==
  \/ Block(o)
  \/ Read(o) \/ \E labels \in Contents : Extract(o, labels)
  \/ WriteConcepts(o) \/ WriteAndCommit(o)
  \/ MarkStale(o) \/ EnterRebuild(o) \/ ConnectFails(o) \/ ListDocuments(o) \/ NextDocument(o)
  \/ ClearStale(o) \/ ClearFails(o) \/ LeaveRebuild(o)
  \/ Purge(o) \/ MergeDocuments(o) \/ ClearCourse(o) \/ InsertCourse(o) \/ Retire(o)
  \/ CommitSnapshot(o) \/ Curate(o)
  \/ ExtractFails(o) \/ InsertClashes(o) \/ Deadlocks(o)

Next ==
  \/ \E o \in Op : Request(o) \/ Step(o)
  \/ \E graceful \in BOOLEAN : Restart(graceful)
  \/ WorkerDies

Spec == Init /\ [][Next]_vars

-----------------------------------------------------------------------------
(* Properties.                                                             *)

Row == Doc \X Label \X Op
CourseRow == Label \X Op

OpState ==
  [kind : {"none", "ingest", "build", "rebuild", "delete", "mark", "curate"},
   doc : Doc \cup {None}, todo : SUBSET Doc, got : SUBSET Label, wipe : BOOLEAN,
   pc : {"idle", "read", "llm", "write", "stale", "thread", "list", "next", "unstale", "leave",
         "purge", "merge", "clear", "insert", "retire", "commit", "curate", "done"},
   del : SUBSET Row, ins : SUBSET Row, cdel : SUBSET CourseRow, cins : SUBSET CourseRow, upd : SUBSET Op,
   excl : SUBSET Doc, graph : SUBSET Label,
   blocked : BOOLEAN, seen : SUBSET (Row \cup CourseRow \cup Op), overlapped : BOOLEAN, partial : BOOLEAN]

\* Every variable has its type.
TypeOK ==
  /\ chunks \subseteq Doc /\ gone \subseteq Doc \ chunks /\ syllabus \subseteq Doc
  /\ docRows \subseteq Row /\ courseRows \subseteq CourseRow
  /\ version \in [Op -> [state : {"none", "active", "retired"}, labels : SUBSET Label,
                         published : SUBSET Label, stale : BOOLEAN]]
  /\ inflight \in BOOLEAN
  /\ op \in [Op -> OpState]
  /\ excuse \subseteq {"overlap", "partial", "restart", "curated", "lost"}
  /\ restarts \in 0..MaxRestarts

\* the labels of the materials that are there, the syllabus excepted
Documents == {r[2] : r \in {d \in docRows : d[1] \in chunks \ syllabus}}
Quiet == \A o \in Op : op[o].pc \in {"idle", "done"}

\* The graph is a function of the course's current documents: with no operation
\* under way there is one active version and it shows exactly the concepts of the
\* ingested documents other than the syllabus, each in one of the documents'
\* spellings, unless something that can part them
\* (overlapping snapshots, a rebuild abandoned half-way or cut off from the
\* database, a restart, a curation) has happened and no undisturbed snapshot has come after it.
CurrentUnlessDisturbed ==
  Quiet /\ excuse = {} =>
    /\ \A o \in Active : Merges(version[o].labels, Documents) /\ Active = {o}
    /\ Active = {} => Documents = {}

\* Overlapping snapshots can leave two active versions, but never with a label in
\* common: the unique key of course_concept makes one of them fail.  The key is on the
\* label as spelled, so that only the rows of one snapshot are one to a concept; two
\* active versions may show the same concept in two spellings.
ActiveVersionsDisjoint ==
  /\ \A a, b \in courseRows : a[1] = b[1] => a = b
  /\ \A a, b \in courseRows : a[2] = b[2] /\ Fold[a[1]] = Fold[b[1]] => a = b
  /\ \A o, p \in Active : o # p => version[o].published \cap version[p].published = {}

\* A graph shown as being rebuilt is being rebuilt: a rebuild that is still to come,
\* or is running, will retire the version or clear the flag, unless the service died,
\* or a rebuild's thread got no connection or lost it before it could clear the flag.
StaleIsServed ==
  (\E o \in Active : version[o].stale) =>
    \/ excuse \cap {"restart", "lost"} # {}
    \/ \E o \in Op : op[o].kind = "rebuild" /\ op[o].pc \notin {"idle", "stale", "leave", "done"}
=============================================================================
