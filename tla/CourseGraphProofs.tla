------------------------- MODULE CourseGraphProofs -------------------------
(***************************************************************************)
(* What holds of CourseGraph for every number of documents, labels,        *)
(* operations and restarts: the active versions have no label in common,   *)
(* a graph shown as being rebuilt is, and an undisturbed graph is that of  *)
(* the current documents.                                                  *)
(***************************************************************************)
EXTENDS CourseGraph, TLAPS

Late == {"clear", "insert", "retire", "commit"}   \* the snapshot has merged
Snapshot == {"merge"} \cup Late

(***************************************************************************)
(* The inductive invariant.  First, what the fields q of an operation o    *)
(* say of each other at the points of its program.                         *)
(***************************************************************************)
OneSpelling(labels) == \A k, l \in labels : Fold[k] = Fold[l] => k = l

Shape(o, q) ==
  /\ q.pc \in {"stale", "thread", "list", "next", "unstale", "leave"} => q.kind = "rebuild"
  /\ q.kind \in {"delete", "mark"} => q.pc \in {"purge"} \cup Snapshot
  /\ q.pc = "curate" => q.kind = "curate"
  /\ q.wipe => q.kind = "rebuild" /\ q.graph = {} /\ q.pc \in {"purge"} \cup Late
  /\ q.kind = "rebuild" => q.ins = {}
  /\ q.partial => q.kind = "rebuild" /\ q.pc \notin {"idle", "done"}
  /\ q.pc \notin Late => q.graph = {}
  /\ OneSpelling(q.graph)
  /\ q.cdel # {} => q.pc \in {"insert", "retire", "commit"}
  /\ q.cins = IF q.pc \in {"retire", "commit"} THEN q.graph \X {o} ELSE {}
  /\ q.upd # {} => q.pc = "commit"
  /\ q.blocked => q.pc \in {"write", "purge", "clear", "retire", "stale", "unstale", "curate"}
  /\ q.pc \in {"purge", "retire"} /\ q.blocked => q.overlapped

\* Rows are of documents that are, or were, there.
RowsKnown ==
  /\ \A r \in docRows : r[1] \in chunks \cup gone
  /\ \A o \in Op : /\ op[o].pc \in {"llm", "write"} => op[o].doc \in chunks \cup gone
                   /\ \A r \in op[o].ins : r[1] \in chunks \cup gone

\* A snapshot that has not been overlapped is alone, and will retire every version.
Alone ==
  \A o \in Op : InSnapshot(o) /\ ~op[o].overlapped =>
    /\ \A p \in Others(o) : ~InSnapshot(p)
    /\ op[o].pc = "commit" => Active \subseteq op[o].upd

\* The unique key of course_concept, for what is committed and what will be.
Unique ==
  /\ \A a, b \in courseRows : a[1] = b[1] => a = b
  /\ \A a, b \in courseRows : a[2] = b[2] /\ Fold[a[1]] = Fold[b[1]] => a = b
  /\ \A o \in Op : \A c \in op[o].cins, r \in courseRows \ op[o].cdel : c[1] # r[1]
  /\ \A o, p \in Op : o # p => \A c \in op[o].cins, d \in op[p].cins : c[1] # d[1]

\* the versions that an operation in the state q is going to retire
Retiring(q) == q.upd \cup (IF q.pc = "retire" /\ q.blocked THEN q.seen ELSE {})

\* An active version has its rows; whoever deletes them retires it, and only what has been
\* published is retired.
Backed ==
  /\ \A o \in Op : version[o].state # "none" => op[o].pc \in {"leave", "done"}
  /\ \A c \in courseRows : version[c[2]].state # "none"
  /\ \A o \in Active : \A l \in version[o].published : <<l, o>> \in courseRows
  /\ \A o \in Op : \A c \in op[o].cdel :
       /\ version[c[2]].state # "none"
       /\ op[o].pc = "retire" /\ op[o].blocked => c[2] \in op[o].seen
       /\ op[o].pc = "commit" => c[2] \in op[o].upd
  /\ \A o \in Op : \A v \in Retiring(op[o]) : v \in Op /\ version[v].state # "none"

\* A rebuild in the state q will retire version v, or clear its flag.
Serves(q, v) ==
  /\ q.kind = "rebuild" /\ q.pc \notin {"idle", "stale", "leave", "done"}
  /\ q.pc \in {"unstale", "retire"} /\ q.blocked => v \in q.seen
  /\ q.pc = "commit" => v \in q.upd

Served ==
  excuse \cap {"restart", "lost"} = {} =>
    \A v \in Active : version[v].stale => \E o \in Op : Serves(op[o], v)

\* An operation that has committed a change of the documents and has yet to publish it.
Owing(q) == q.kind \in {"delete", "mark"} \/ (q.partial /\ q.pc # "leave")
Owes(o) == Owing(op[o])

\* the labels of the documents as they will be when o commits
Coming(o) == {r[2] : r \in {v \in View(o) : v[1] \in chunks \ syllabus}}

\* What an undisturbed snapshot is about to publish, and what is published, is the documents'
\* graph, as long as nobody owes a publication.
Current ==
  /\ \A o \in Op : ~op[o].overlapped /\ (\A p \in Others(o) : ~Owes(p)) =>
       /\ op[o].pc = "merge" => op[o].excl = syllabus /\ \A r \in View(o) : r[1] \in chunks
       /\ op[o].pc \in Late => Merges(op[o].graph, Coming(o))
  /\ excuse = {} /\ (\A p \in Op : ~Owes(p)) =>
       /\ \A o \in Active : Merges(version[o].labels, Documents) /\ Active = {o}
       /\ Active = {} => Documents = {}

IInv ==
  /\ TypeOK
  /\ \A o \in Op : Shape(o, op[o])
  /\ RowsKnown /\ Alone /\ Unique /\ Backed /\ Served /\ Current

-----------------------------------------------------------------------------
(***************************************************************************)
(* One operation takes a step; the others are marked as overlapped, at the *)
(* most.                                                                   *)
(***************************************************************************)
Like(a, b) ==
  /\ a.kind = b.kind /\ a.pc = b.pc /\ a.doc = b.doc /\ a.wipe = b.wipe /\ a.partial = b.partial
  /\ a.del = b.del /\ a.ins = b.ins /\ a.cdel = b.cdel /\ a.cins = b.cins /\ a.upd = b.upd
  /\ a.excl = b.excl /\ a.graph = b.graph /\ a.blocked = b.blocked /\ a.seen = b.seen
  /\ b.overlapped => a.overlapped

Becomes(o, q) ==
  /\ op' \in [Op -> OpState]
  /\ op'[o] = q
  /\ \A p \in Others(o) : Like(op'[p], op[p])

\* What an operation must be like after its step, so that it disturbs nobody.
Fitting(o, q) ==
  /\ Shape(o, q)
  /\ q.pc \in {"llm", "write"} => q.doc \in (chunks \cup gone)'
  /\ \A r \in q.ins : r[1] \in (chunks \cup gone)'
  /\ q.pc \in Snapshot /\ op[o].pc \notin Snapshot =>
       /\ \A p \in Others(o) : InSnapshot(p) => op'[p].overlapped
       /\ q.overlapped \/ \A p \in Others(o) : ~InSnapshot(p)
  /\ q.pc \in Snapshot /\ op[o].pc \in Snapshot /\ op[o].overlapped => q.overlapped
  /\ q.pc = "commit" /\ ~q.overlapped => Active \subseteq q.upd
  /\ \A c \in q.cins : /\ \A r \in courseRows \ q.cdel : c[1] # r[1]
                       /\ \A p \in Others(o) : \A d \in op[p].cins : c[1] # d[1]
  /\ version[o].state # "none" => q.pc \in {"leave", "done"}
  /\ \A c \in q.cdel : /\ version[c[2]].state # "none"
                       /\ q.pc = "retire" /\ q.blocked => c[2] \in q.seen
                       /\ q.pc = "commit" => c[2] \in q.upd
  /\ \A v \in Retiring(q) : v \in Op /\ version[v].state # "none"

SameVersions ==
  \A v \in Op : /\ version'[v].state = version[v].state
                /\ version'[v].published = version[v].published

LEMMA LikeShape ==
  ASSUME NEW p, NEW a, NEW b, Like(a, b), Shape(p, b)
  PROVE  Shape(p, a)
BY DEF Like, Shape

LEMMA ShapeStep ==
  ASSUME IInv, NEW o \in Op, NEW q, Becomes(o, q), Fitting(o, q)
  PROVE  \A p \in Op : Shape(p, op'[p])
<1>1. Shape(o, q)
  BY DEF Fitting
<1> QED BY <1>1, LikeShape DEF IInv, Becomes, Others

LEMMA RowsKnownStep ==
  ASSUME IInv, NEW o \in Op, NEW q, Becomes(o, q), Fitting(o, q),
         chunks \cup gone \subseteq (chunks \cup gone)',
         \A r \in docRows' : r[1] \in (chunks \cup gone)'
  PROVE  RowsKnown'
BY DEF IInv, RowsKnown, Becomes, Like, Fitting, Others

LEMMA AloneStep ==
  ASSUME IInv, NEW o \in Op, NEW q, Becomes(o, q), Fitting(o, q), SameVersions
  PROVE  Alone'
<1>1. Active' = Active
  BY DEF Active, SameVersions
<1>2. \A p \in Op : InSnapshot(p) <=> op[p].pc \in Snapshot
  BY DEF InSnapshot, Snapshot, Late
<1>3. \A p \in Op : InSnapshot(p)' <=> op'[p].pc \in Snapshot
  BY DEF InSnapshot, Snapshot, Late
<1>4. \A p \in Others(o) : op'[p].pc = op[p].pc /\ op'[p].upd = op[p].upd /\ (op[p].overlapped => op'[p].overlapped)
  BY DEF Becomes, Like
<1>5. op'[o] = q
  BY DEF Becomes
<1>6. /\ q.pc \in Snapshot /\ op[o].pc \notin Snapshot =>
           /\ \A p \in Others(o) : InSnapshot(p) => op'[p].overlapped
           /\ q.overlapped \/ \A p \in Others(o) : ~InSnapshot(p)
      /\ q.pc \in Snapshot /\ op[o].pc \in Snapshot /\ op[o].overlapped => q.overlapped
      /\ q.pc = "commit" /\ ~q.overlapped => Active \subseteq q.upd
  BY DEF Fitting
<1> QED BY <1>1, <1>2, <1>3, <1>4, <1>5, <1>6 DEF IInv, Alone, Others

LEMMA UniqueStep ==
  ASSUME IInv, NEW o \in Op, NEW q, Becomes(o, q), Fitting(o, q), UNCHANGED courseRows
  PROVE  Unique'
BY DEF IInv, Unique, Becomes, Like, Fitting, Others

LEMMA BackedStep ==
  ASSUME IInv, NEW o \in Op, NEW q, Becomes(o, q), Fitting(o, q), UNCHANGED courseRows, SameVersions
  PROVE  Backed'
<1>1. Active' = Active /\ \A v \in Op : /\ version'[v].state = version[v].state
                                        /\ version'[v].published = version[v].published
  BY DEF Active, SameVersions
<1>2. \A c \in courseRows : c[2] \in Op
  BY DEF IInv, TypeOK, CourseRow
<1>3. \A p \in Op : \A c \in op'[p].cdel : c[2] \in Op
  BY DEF Becomes, OpState, CourseRow
<1>4. \A p \in Others(o) : /\ op'[p].pc = op[p].pc /\ op'[p].cdel = op[p].cdel /\ op'[p].upd = op[p].upd
                           /\ op'[p].blocked = op[p].blocked /\ op'[p].seen = op[p].seen
  BY DEF Becomes, Like
<1>5. /\ op'[o] = q
      /\ version[o].state # "none" => q.pc \in {"leave", "done"}
      /\ \A c \in q.cdel : /\ version[c[2]].state # "none"
                           /\ q.pc = "retire" /\ q.blocked => c[2] \in q.seen
                           /\ q.pc = "commit" => c[2] \in q.upd
  BY DEF Becomes, Fitting
<1>6. \A p \in Op : version'[p].state # "none" => op'[p].pc \in {"leave", "done"}
  BY <1>1, <1>4, <1>5 DEF IInv, Backed, Others, Becomes
<1>7. \A p \in Op : \A c \in op'[p].cdel :
       /\ version'[c[2]].state # "none"
       /\ op'[p].pc = "retire" /\ op'[p].blocked => c[2] \in op'[p].seen
       /\ op'[p].pc = "commit" => c[2] \in op'[p].upd
  BY <1>1, <1>3, <1>4, <1>5 DEF IInv, Backed, Others, Becomes
<1>8. \A p \in Op : \A v \in Retiring(op'[p]) : v \in Op /\ version'[v].state # "none"
  <2> SUFFICES ASSUME NEW p \in Op, NEW v \in Retiring(op'[p])
               PROVE  v \in Op /\ version'[v].state # "none"
    OBVIOUS
  <2>1. CASE p = o
    BY <1>1, <1>5, <2>1 DEF Fitting
  <2>2. CASE p # o
    <3>1. Retiring(op'[p]) = Retiring(op[p])
      BY <1>4, <2>2 DEF Retiring, Others
    <3> QED BY <1>1, <3>1 DEF IInv, Backed
  <2> QED BY <2>1, <2>2
<1> QED BY <1>1, <1>2, <1>6, <1>7, <1>8 DEF IInv, Backed, Active

LEMMA ServedStep ==
  ASSUME IInv, NEW o \in Op, NEW q, Becomes(o, q), SameVersions,
         excuse \cap {"restart", "lost"} \subseteq excuse',
         \A v \in Active : version'[v].stale =>
           \/ version[v].stale /\ (Serves(op[o], v) => Serves(q, v) \/ "lost" \in excuse')
           \/ Serves(q, v)
  PROVE  Served'
<1>1. Active' = Active
  BY DEF Active, SameVersions
<1> SUFFICES ASSUME (excuse \cap {"restart", "lost"})' = {}, NEW v \in Active, version'[v].stale
             PROVE  \E p \in Op : Serves(op'[p], v)
  BY <1>1 DEF Served
<1>2. CASE Serves(q, v)
  BY <1>2 DEF Becomes
<1>3. CASE version[v].stale /\ ~Serves(q, v)
  <2>1. PICK p \in Op : Serves(op[p], v)
    BY <1>3 DEF IInv, Served
  <2>2. p # o
    BY <1>3, <2>1
  <2> QED BY <2>1, <2>2 DEF Becomes, Like, Serves, Others
<1> QED BY <1>2, <1>3

\* While the documents' rows stay as they are.
LEMMA CurrentStep ==
  ASSUME IInv, NEW o \in Op, NEW q, Becomes(o, q), SameVersions,
         excuse' = {} => excuse = {} /\ \A v \in Op : version'[v].labels = version[v].labels,
         UNCHANGED <<docRows, syllabus>>, chunks \subseteq chunks', chunks' \cap gone \subseteq chunks,
         Owing(op[o]) => \/ Owing(q)
                         \/ excuse' # {} /\ \A p \in Others(o) : InSnapshot(p) => op'[p].overlapped,
         ~q.overlapped /\ (\A p \in Others(o) : ~Owes(p)) =>
           /\ q.pc = "merge" => q.excl = syllabus /\ \A r \in (docRows \ q.del) \cup q.ins : r[1] \in chunks'
           /\ q.pc \in Late => Merges(q.graph, {r[2] : r \in {v \in (docRows \ q.del) \cup q.ins : v[1] \in chunks' \ syllabus}})
  PROVE  Current'
<1>0. /\ \A r \in docRows : r[1] \in chunks' <=> r[1] \in chunks
      /\ \A p \in Op : \A r \in View(p) : r[1] \in chunks' <=> r[1] \in chunks
  BY DEF IInv, RowsKnown, View
<1>1. Active' = Active /\ Documents' = Documents
  BY <1>0 DEF Active, SameVersions, Documents
<1>2. op'[o] = q /\ \A p \in Others(o) : Like(op'[p], op[p])
  BY DEF Becomes
<1>3. \A p \in Others(o) : Owes(p)' <=> Owes(p)
  BY <1>2 DEF Owes, Owing, Like
<1>4. ASSUME NEW p \in Op, ~op'[p].overlapped, \A r \in Others(p) : ~Owes(r)'
      PROVE  /\ op'[p].pc = "merge" => op'[p].excl = syllabus /\ \A r \in View(p)' : r[1] \in chunks'
             /\ op'[p].pc \in Late => Merges(op'[p].graph, Coming(p)')
  <2>1. CASE p = o
    <3>1. View(o)' = (docRows \ q.del) \cup q.ins
      BY <1>2 DEF View
    <3>2. Coming(o)' = {r[2] : r \in {v \in (docRows \ q.del) \cup q.ins : v[1] \in chunks' \ syllabus}}
      BY <3>1 DEF Coming
    <3> QED BY <1>2, <1>3, <1>4, <2>1, <3>1, <3>2
  <2>2. CASE p # o
    <3>1. Like(op'[p], op[p]) /\ p \in Others(o)
      BY <1>2, <2>2 DEF Others
    <3>2. CASE op'[p].pc \in Snapshot
      <4>1. InSnapshot(p) /\ ~op[p].overlapped
        BY <1>4, <3>1, <3>2 DEF Like, InSnapshot, Snapshot, Late
      <4>2. ~Owing(q)
        BY <1>2, <1>4, <2>2 DEF Others, Owes
      <4>3. \A r \in Others(p) : ~Owes(r)
        <5>1. ~Owing(op[o])
          BY <1>4, <3>1, <4>1, <4>2
        <5> QED BY <1>3, <1>4, <5>1 DEF Owes, Others
      <4>4. View(p)' = View(p) /\ Coming(p)' = Coming(p)
        BY <1>0, <3>1 DEF View, Coming, Like
      <4> QED BY <1>0, <3>1, <4>1, <4>3, <4>4 DEF IInv, Current, Like
    <3> QED BY <3>2 DEF Snapshot, Late
  <2> QED BY <2>1, <2>2
<1>5. ASSUME excuse' = {}, \A p \in Op : ~Owes(p)'
      PROVE  /\ \A p \in Active : Merges(version'[p].labels, Documents) /\ Active = {p}
             /\ Active = {} => Documents = {}
  <2>1. excuse = {} /\ \A p \in Op : ~Owes(p) /\ version'[p].labels = version[p].labels
    BY <1>2, <1>3, <1>5 DEF Owes, Others
  <2> QED BY <2>1 DEF IInv, Current, Active
<1> QED BY <1>1, <1>4, <1>5 DEF Current

-----------------------------------------------------------------------------
(***************************************************************************)
(* Steps that change an operation, and no table or version.                *)
(***************************************************************************)
\* Its snapshot, when it is undisturbed, is of the documents there are.
Seen(q) == (docRows \ q.del) \cup q.ins
Merged(rows) == {r[2] : r \in {v \in rows : v[1] \in chunks \ syllabus}}
Faithful(o, q) ==
  ~q.overlapped /\ (\A p \in Others(o) : ~Owes(p)) =>
    /\ q.pc = "merge" => q.excl = syllabus /\ \A r \in Seen(q) : r[1] \in chunks
    /\ q.pc \in Late => Merges(q.graph, Merged(Seen(q)))

LEMMA OpStep ==
  ASSUME IInv, NEW o \in Op, NEW q, Becomes(o, q), Fitting(o, q), Faithful(o, q),
         UNCHANGED <<tables, version, restarts>>, inflight' \in BOOLEAN,
         excuse \subseteq excuse', excuse' \subseteq {"overlap", "partial", "restart", "curated", "lost"},
         \A v \in Active : Serves(op[o], v) => Serves(q, v) \/ "lost" \in excuse',
         Owing(op[o]) => \/ Owing(q)
                         \/ excuse' # {} /\ \A p \in Others(o) : InSnapshot(p) => op'[p].overlapped
  PROVE  IInv'
<1>1. TypeOK'
  BY DEF IInv, TypeOK, tables, Becomes
<1>2. SameVersions /\ UNCHANGED <<chunks, gone, syllabus, docRows, courseRows>>
  BY DEF SameVersions, tables
<1>3. RowsKnown'
  <2>1. \A r \in docRows' : r[1] \in (chunks \cup gone)'
    BY <1>2 DEF IInv, RowsKnown
  <2> QED BY <1>2, <2>1, RowsKnownStep
<1>4. Served'
  BY <1>2, ServedStep
<1>5. Current'
  BY <1>2, CurrentStep DEF Faithful, Seen, Merged
<1>6. Alone' /\ Unique' /\ Backed' /\ \A p \in Op : Shape(p, op'[p])
  BY <1>2, AloneStep, UniqueStep, BackedStep, ShapeStep
<1> QED BY <1>1, <1>3, <1>4, <1>5, <1>6 DEF IInv

Points ==
  {"idle", "read", "llm", "write", "stale", "thread", "list", "next", "unstale", "leave",
   "purge", "merge", "clear", "insert", "retire", "commit", "curate", "done"}

\* An operation becomes what is put in its place.
LEMMA PutFacts ==
  ASSUME TypeOK, NEW o \in Op, NEW q \in OpState, op' = [op EXCEPT ![o] = q]
  PROVE  Becomes(o, q)
BY DEF TypeOK, Becomes, Others, Like

\* The same, with open snapshots marked.
LEMMA SpoiledFacts ==
  ASSUME TypeOK, NEW o \in Op, NEW q \in OpState, op' = Spoiled([op EXCEPT ![o] = q]),
         q.pc \notin Snapshot
  PROVE  /\ \A p \in Others(o) : InSnapshot(p) => op'[p].overlapped
         /\ \E x \in {q, [q EXCEPT !.overlapped = TRUE]} : Becomes(o, x)
<1> DEFINE x == IF InSnapshot(o) THEN [q EXCEPT !.overlapped = TRUE] ELSE q
<1>1. \A p \in Op : op'[p] = IF InSnapshot(p) THEN [[op EXCEPT ![o] = q][p] EXCEPT !.overlapped = TRUE]
                             ELSE [op EXCEPT ![o] = q][p]
  BY DEF Spoiled
<1>2. op'[o] = x
  BY <1>1 DEF TypeOK
<1>3. \A p \in Others(o) : op'[p] = IF InSnapshot(p) THEN [op[p] EXCEPT !.overlapped = TRUE] ELSE op[p]
  BY <1>1 DEF TypeOK, Others
<1>4. ASSUME NEW b \in OpState
      PROVE  /\ [b EXCEPT !.overlapped = TRUE] \in OpState /\ Like([b EXCEPT !.overlapped = TRUE], b)
             /\ [b EXCEPT !.overlapped = TRUE].overlapped
  BY DEF OpState, Like
<1>5. \A p \in Others(o) : op[p] \in OpState /\ Like(op[p], op[p])
  BY DEF TypeOK, Others, Like
<1>6. op' \in [Op -> OpState]
  <2>1. x \in OpState
    BY <1>4
  <2>2. \A p \in Op : op'[p] \in OpState
    BY <1>2, <1>3, <1>4, <1>5, <2>1 DEF Others
  <2> QED BY <2>2 DEF Spoiled
<1>7. \A p \in Others(o) : Like(op'[p], op[p]) /\ (InSnapshot(p) => op'[p].overlapped)
  BY <1>3, <1>4, <1>5
<1> QED BY <1>2, <1>6, <1>7 DEF Becomes

\* The fields that a statement without effect leaves as they are.
Rest(a, b) ==
  /\ a.kind = b.kind /\ a.doc = b.doc /\ a.wipe = b.wipe /\ a.partial = b.partial
  /\ a.del = b.del /\ a.ins = b.ins /\ a.cdel = b.cdel /\ a.cins = b.cins /\ a.upd = b.upd
  /\ a.excl = b.excl /\ a.graph = b.graph /\ a.overlapped = b.overlapped /\ a.got = b.got

LEMMA PastFacts ==
  ASSUME TypeOK, NEW o \in Op, NEW pc \in Points
  PROVE  /\ Past(o, pc) \in OpState /\ Rest(Past(o, pc), op[o])
         /\ Past(o, pc).pc = pc /\ Past(o, pc).blocked = FALSE /\ Past(o, pc).seen = {}
<1>1. op[o] \in OpState
  BY DEF TypeOK
<1> QED BY <1>1 DEF Past, Points, OpState, Rest

\* An operation that holds nothing.
Calm(q) ==
  /\ q.ins = {} /\ q.cdel = {} /\ q.cins = {} /\ q.upd = {} /\ q.graph = {}
  /\ ~q.wipe /\ ~q.blocked

LEMMA IdleFacts ==
  /\ Idle \in OpState /\ Calm(Idle) /\ Idle.pc = "idle" /\ Idle.kind = "none" /\ ~Idle.partial
  /\ Ended \in OpState /\ Calm(Ended) /\ Ended.pc = "done" /\ Ended.kind = "none" /\ ~Ended.partial
<1>1. Idle \in OpState /\ Calm(Idle) /\ Idle.pc = "idle" /\ Idle.kind = "none" /\ ~Idle.partial
  BY DEF Idle, OpState, Calm
<1> QED BY <1>1 DEF Ended, OpState, Calm

\* It fits in anywhere outside a snapshot.
LEMMA CalmFits ==
  ASSUME NEW o \in Op, NEW q, Calm(q), q.pc \notin Snapshot \cup {"llm", "write"},
         q.pc \in {"stale", "thread", "list", "next", "unstale", "leave"} => q.kind = "rebuild",
         q.kind \in {"delete", "mark"} => q.pc = "purge", q.pc = "curate" => q.kind = "curate",
         q.partial => q.kind = "rebuild" /\ q.pc \notin {"idle", "done"},
         version[o].state # "none" => q.pc \in {"leave", "done"}
  PROVE  Fitting(o, q) /\ Faithful(o, q)
<1>1. q.pc \notin {"insert", "retire", "commit", "clear", "merge"} /\ Late \subseteq Snapshot
  BY DEF Snapshot, Late
<1>2. Shape(o, q)
  BY <1>1 DEF Calm, Shape, Late, OneSpelling
<1> QED BY <1>1, <1>2 DEF Calm, Fitting, Faithful, Retiring

-----------------------------------------------------------------------------
(***************************************************************************)
(* The steps outside a snapshot.                                           *)
(***************************************************************************)
\* What an operation is at the point where it is.
LEMMA OpFacts ==
  ASSUME IInv, NEW o \in Op
  PROVE  /\ TypeOK /\ op[o] \in OpState /\ Shape(o, op[o])
         /\ InSnapshot(o) <=> op[o].pc \in Snapshot
         /\ version[o].state # "none" => op[o].pc \in {"leave", "done"}
BY DEF IInv, TypeOK, Backed, InSnapshot, Snapshot, Late

\* A request that starts with nothing.
LEMMA BeginStep ==
  ASSUME IInv, NEW o \in Op, op[o].pc = "idle", NEW q \in OpState, op' = [op EXCEPT ![o] = q], Calm(q),
         q.pc \in {"read", "stale", "curate"}, q.pc = "stale" => q.kind = "rebuild",
         q.pc = "curate" => q.kind = "curate",
         q.kind \notin {"delete", "mark"}, ~q.partial,
         UNCHANGED <<tables, version, inflight, excuse, restarts>>
  PROVE  IInv'
<1>1. TypeOK /\ Shape(o, op[o]) /\ version[o].state = "none"
  BY OpFacts
<1>2. Becomes(o, q)
  BY <1>1, PutFacts
<1>3. Fitting(o, q) /\ Faithful(o, q)
  BY <1>1, CalmFits DEF Snapshot, Late
<1>4. ~Owing(op[o]) /\ \A v \in Active : ~Serves(op[o], v)
  BY <1>1 DEF Shape, Owing, Serves, Snapshot, Late
<1>5. inflight \in BOOLEAN /\ excuse \subseteq {"overlap", "partial", "restart", "curated", "lost"}
  BY <1>1 DEF TypeOK
<1> QED BY <1>2, <1>3, <1>4, <1>5, OpStep

LEMMA BuildMaterialStep ==
  ASSUME IInv, NEW o \in Op, NEW d \in Doc, BuildMaterial(o, d)
  PROVE  IInv'
<1> DEFINE q == [[Idle EXCEPT !.pc = "read", !.doc = d] EXCEPT !.kind = "build"]
<1>1. q \in OpState /\ Calm(q) /\ q.pc = "read" /\ q.kind = "build" /\ ~q.partial
  BY IdleFacts DEF OpState, Calm
<1>2. op' = [op EXCEPT ![o] = q] /\ op[o].pc = "idle" /\ UNCHANGED <<tables, version, inflight, excuse, restarts>>
  BY DEF BuildMaterial, Begins
<1> HIDE DEF q
<1> QED BY <1>1, <1>2, BeginStep

LEMMA RebuildGraphStep ==
  ASSUME IInv, NEW o \in Op, RebuildGraph(o)
  PROVE  IInv'
<1> DEFINE q == [[Idle EXCEPT !.pc = "stale"] EXCEPT !.kind = "rebuild"]
<1>1. q \in OpState /\ Calm(q) /\ q.pc = "stale" /\ q.kind = "rebuild" /\ ~q.partial
  BY IdleFacts DEF OpState, Calm
<1>2. op' = [op EXCEPT ![o] = q] /\ op[o].pc = "idle" /\ UNCHANGED <<tables, version, inflight, excuse, restarts>>
  BY DEF RebuildGraph, Begins
<1> HIDE DEF q
<1> QED BY <1>1, <1>2, BeginStep

LEMMA CurateReadStep ==
  ASSUME IInv, NEW o \in Op, NEW kept \in SUBSET Label, CurateRead(o, kept)
  PROVE  IInv'
<1> DEFINE q == [[Idle EXCEPT !.pc = "curate", !.got = kept] EXCEPT !.kind = "curate"]
<1>1. q \in OpState /\ Calm(q) /\ q.pc = "curate" /\ q.kind = "curate" /\ ~q.partial
  BY IdleFacts DEF OpState, Calm
<1>2. op' = [op EXCEPT ![o] = q] /\ op[o].pc = "idle" /\ UNCHANGED <<tables, version, inflight, excuse, restarts>>
  BY DEF CurateRead, Begins
<1> HIDE DEF q
<1> QED BY <1>1, <1>2, BeginStep

\* A move between points outside the snapshot, or up to its start.
LEMMA MoveStep ==
  ASSUME IInv, NEW o \in Op, NEW q \in OpState, op' = [op EXCEPT ![o] = q],
         op[o].pc \in {"read", "llm", "write", "stale", "thread", "list", "next"},
         q.kind = op[o].kind, q.partial = op[o].partial, ~q.blocked,
         q.cdel = op[o].cdel, q.cins = op[o].cins, q.upd = op[o].upd, q.graph = op[o].graph,
         q.pc \in {"read", "llm", "write", "list", "next", "purge"},
         q.pc \in {"list", "next"} => q.kind = "rebuild",
         q.pc \in {"llm", "write"} => q.doc \in chunks \cup gone,
         q.wipe => q.kind = "rebuild" /\ q.pc = "purge",
         \A r \in q.ins : r[1] \in chunks \cup gone, q.kind = "rebuild" => q.ins = {},
         UNCHANGED <<tables, version, excuse, restarts>>, inflight' \in BOOLEAN
  PROVE  IInv'
<1>1. TypeOK /\ Shape(o, op[o]) /\ version[o].state = "none"
  BY OpFacts
<1>2. Becomes(o, q)
  BY <1>1, PutFacts
<1>3. q.cdel = {} /\ q.cins = {} /\ q.upd = {} /\ q.graph = {} /\ q.kind \notin {"delete", "mark"}
  BY <1>1 DEF Shape, Snapshot, Late
<1>4. Shape(o, q)
  BY <1>1, <1>3 DEF Shape, Snapshot, Late
<1>5. Fitting(o, q) /\ Faithful(o, q)
  BY <1>1, <1>3, <1>4 DEF Fitting, Faithful, Snapshot, Late, tables, Retiring
<1>6. \A v \in Active : Serves(op[o], v) => Serves(q, v)
  BY DEF Serves
<1>7. Owing(op[o]) => Owing(q)
  BY DEF Owing
<1>8. excuse \subseteq {"overlap", "partial", "restart", "curated", "lost"}
  BY <1>1 DEF TypeOK
<1> QED BY <1>2, <1>5, <1>6, <1>7, <1>8, OpStep

LEMMA ReadStep ==
  ASSUME IInv, NEW o \in Op, Read(o), op' # [op EXCEPT ![o] = Ended]
  PROVE  IInv'
<1>1. /\ TypeOK /\ Shape(o, op[o]) /\ op[o].pc = "read"
      /\ \A r \in op[o].ins : r[1] \in chunks \cup gone
  BY OpFacts DEF Read, IInv, RowsKnown
<1>2. /\ UNCHANGED <<tables, version, excuse, restarts, inflight>> /\ inflight \in BOOLEAN
      /\ \/ op' = [op EXCEPT ![o] = Past(o, "purge")]
         \/ op[o].doc \in chunks /\ op' = [op EXCEPT ![o] = Past(o, "llm")]
         \/ op[o].kind = "rebuild" /\ op' = [op EXCEPT ![o] = Past(o, "next")]
  BY <1>1 DEF Read, Goto, TypeOK
<1>3. PICK pc \in {"purge", "llm", "next"} :
        /\ op' = [op EXCEPT ![o] = Past(o, pc)]
        /\ pc = "llm" => op[o].doc \in chunks
        /\ pc = "next" => op[o].kind = "rebuild"
  BY <1>2
<1>4. ~op[o].wipe
  BY <1>1 DEF Shape, Late
<1> DEFINE q == Past(o, pc)
<1>p. pc \in Points
  BY DEF Points
<1>5. q \in OpState /\ Rest(q, op[o]) /\ q.pc = pc /\ q.blocked = FALSE
  BY <1>1, <1>p, PastFacts
<1> HIDE DEF q
<1>6. /\ q.kind = op[o].kind /\ q.partial = op[o].partial /\ q.doc = op[o].doc /\ q.wipe = op[o].wipe
      /\ q.cdel = op[o].cdel /\ q.cins = op[o].cins /\ q.upd = op[o].upd /\ q.graph = op[o].graph /\ q.ins = op[o].ins
  BY <1>5 DEF Rest
<1>7. /\ q.pc \in {"read", "llm", "write", "list", "next", "purge"}
      /\ q.pc \in {"list", "next"} => q.kind = "rebuild"
      /\ q.pc \in {"llm", "write"} => q.doc \in chunks \cup gone
      /\ q.kind = "rebuild" => q.ins = {}
  BY <1>1, <1>3, <1>5, <1>6 DEF Shape
<1>8. op' = [op EXCEPT ![o] = q]
  BY <1>3 DEF q
<1> QED BY <1>1, <1>2, <1>4, <1>5, <1>6, <1>7, <1>8, MoveStep

LEMMA ExtractStep ==
  ASSUME IInv, NEW o \in Op, NEW labels \in Contents, Extract(o, labels)
  PROVE  IInv'
<1> DEFINE b == Past(o, "write")
           q == [b EXCEPT !.got = labels]
<1>1. /\ TypeOK /\ Shape(o, op[o]) /\ op[o].pc = "llm" /\ op[o].doc \in chunks \cup gone
      /\ \A r \in op[o].ins : r[1] \in chunks \cup gone
  BY OpFacts DEF Extract, IInv, RowsKnown
<1>2. b \in OpState /\ Rest(b, op[o]) /\ b.pc = "write" /\ b.blocked = FALSE
  BY <1>1, PastFacts DEF Points
<1>3. op' = [op EXCEPT ![o] = q] /\ UNCHANGED <<tables, version, excuse, restarts, inflight>> /\ inflight \in BOOLEAN
  BY <1>1 DEF Extract, Goto, TypeOK
<1> HIDE DEF b
<1>4. /\ q \in OpState /\ q.pc = "write" /\ q.blocked = FALSE
      /\ q.kind = op[o].kind /\ q.partial = op[o].partial /\ q.doc = op[o].doc /\ q.wipe = op[o].wipe
      /\ q.cdel = op[o].cdel /\ q.cins = op[o].cins /\ q.upd = op[o].upd /\ q.graph = op[o].graph /\ q.ins = op[o].ins
  BY <1>2, GraphAssumption DEF OpState, Rest
<1> HIDE DEF q
<1>5. ~q.wipe /\ (q.kind = "rebuild" => q.ins = {})
  BY <1>1, <1>4 DEF Shape, Late
<1> QED BY <1>1, <1>3, <1>4, <1>5, MoveStep

LEMMA WriteConceptsStep ==
  ASSUME IInv, NEW o \in Op, WriteConcepts(o)
  PROVE  IInv'
<1> DEFINE b == Past(o, "purge")
           deleted == Aim(o) \cap docRows
           inserted == Rows(o)
           q == [b EXCEPT !.del = deleted, !.ins = inserted]
<1>1. /\ TypeOK /\ Shape(o, op[o]) /\ op[o] \in OpState /\ op[o].pc = "write" /\ op[o].kind # "rebuild"
      /\ op[o].doc \in chunks \cup gone
  BY OpFacts DEF WriteConcepts, At, IInv, RowsKnown
<1>2. b \in OpState /\ Rest(b, op[o]) /\ b.pc = "purge" /\ b.blocked = FALSE
  BY <1>1, PastFacts DEF Points
<1>3. op' = [op EXCEPT ![o] = q] /\ UNCHANGED <<tables, version, excuse, restarts, inflight>> /\ inflight \in BOOLEAN
  BY <1>1 DEF WriteConcepts, Goto, TypeOK
<1>4. deleted \in SUBSET Row
  BY <1>1 DEF TypeOK
<1>5. inserted \in SUBSET Row /\ \A r \in inserted : r[1] \in chunks \cup gone
  <2>1. op[o].doc \in Doc /\ op[o].got \in SUBSET Label
    BY <1>1 DEF OpState, TypeOK
  <2> QED BY <1>1, <2>1 DEF Rows, Row
<1> HIDE DEF b, deleted, inserted
<1>6. /\ q \in OpState /\ q.pc = "purge" /\ q.blocked = FALSE /\ q.ins = inserted
      /\ q.kind = op[o].kind /\ q.partial = op[o].partial /\ q.wipe = op[o].wipe
      /\ q.cdel = op[o].cdel /\ q.cins = op[o].cins /\ q.upd = op[o].upd /\ q.graph = op[o].graph
  BY <1>2, <1>4, <1>5 DEF OpState, Rest
<1> HIDE DEF q
<1>7. ~q.wipe
  BY <1>1, <1>6 DEF Shape, Late
<1> QED BY <1>1, <1>3, <1>5, <1>6, <1>7, MoveStep

LEMMA EnterRebuildStep ==
  ASSUME IInv, NEW o \in Op, EnterRebuild(o)
  PROVE  IInv'
<1> DEFINE q == [op[o] EXCEPT !.pc = "list"]
<1>1. /\ TypeOK /\ Shape(o, op[o]) /\ op[o] \in OpState /\ op[o].pc = "thread"
  BY OpFacts DEF EnterRebuild
<1>2. op' = [op EXCEPT ![o] = q] /\ UNCHANGED <<tables, version, excuse, restarts>> /\ inflight' \in BOOLEAN
  BY <1>1 DEF EnterRebuild
<1>3. /\ q \in OpState /\ q.pc = "list" /\ q.blocked = op[o].blocked
      /\ q.kind = op[o].kind /\ q.partial = op[o].partial /\ q.wipe = op[o].wipe /\ q.ins = op[o].ins
      /\ q.cdel = op[o].cdel /\ q.cins = op[o].cins /\ q.upd = op[o].upd /\ q.graph = op[o].graph
  BY <1>1 DEF OpState
<1> HIDE DEF q
<1>4. ~q.wipe /\ q.kind = "rebuild" /\ q.ins = {} /\ ~q.blocked
  BY <1>1, <1>3 DEF Shape, Late
<1> QED BY <1>1, <1>2, <1>3, <1>4, MoveStep

LEMMA ListDocumentsStep ==
  ASSUME IInv, NEW o \in Op, ListDocuments(o)
  PROVE  IInv'
<1> DEFINE docs == chunks \ (DataDoc \cup syllabus)
           wiping == [Past(o, "purge") EXCEPT !.wipe = TRUE]
           listing == [Past(o, "next") EXCEPT !.todo = docs]
           q == IF docs = {} THEN wiping ELSE listing
<1>1. /\ TypeOK /\ Shape(o, op[o]) /\ op[o].pc = "list" /\ docs \in SUBSET Doc
  BY OpFacts DEF ListDocuments, TypeOK
<1>2. op' = [op EXCEPT ![o] = q] /\ UNCHANGED <<tables, version, excuse, restarts, inflight>> /\ inflight \in BOOLEAN
  BY <1>1 DEF ListDocuments, Goto, TypeOK
<1> HIDE DEF docs
<1>3. /\ wiping \in OpState /\ Rest([wiping EXCEPT !.wipe = op[o].wipe], op[o]) /\ wiping.pc = "purge" /\ wiping.blocked = FALSE
      /\ listing \in OpState /\ Rest(listing, op[o]) /\ listing.pc = "next" /\ listing.blocked = FALSE
  <2>1. /\ Past(o, "purge") \in OpState /\ Rest(Past(o, "purge"), op[o])
        /\ Past(o, "purge").pc = "purge" /\ Past(o, "purge").blocked = FALSE
        /\ Past(o, "next") \in OpState /\ Rest(Past(o, "next"), op[o])
        /\ Past(o, "next").pc = "next" /\ Past(o, "next").blocked = FALSE
    BY <1>1, PastFacts DEF Points
  <2> QED BY <1>1, <2>1 DEF OpState, Rest
<1>4. /\ q \in OpState /\ q.pc \in {"next", "purge"} /\ q.blocked = FALSE /\ (q.wipe => q.pc = "purge")
      /\ q.kind = op[o].kind /\ q.partial = op[o].partial /\ q.ins = op[o].ins
      /\ q.cdel = op[o].cdel /\ q.cins = op[o].cins /\ q.upd = op[o].upd /\ q.graph = op[o].graph
  <2>1. ~op[o].wipe
    BY <1>1 DEF Shape, Late
  <2> QED BY <1>1, <1>3, <2>1 DEF Rest, OpState
<1> HIDE DEF q
<1>5. q.kind = "rebuild" /\ q.ins = {}
  BY <1>1, <1>4 DEF Shape
<1> QED BY <1>1, <1>2, <1>4, <1>5, MoveStep

LEMMA NextDocumentStep ==
  ASSUME IInv, NEW o \in Op, NextDocument(o)
  PROVE  IInv'
<1>1. /\ TypeOK /\ Shape(o, op[o]) /\ op[o].pc = "next"
      /\ UNCHANGED <<tables, version, excuse, restarts, inflight>> /\ inflight \in BOOLEAN
  BY OpFacts DEF NextDocument, Goto, TypeOK
<1>2. /\ op[o].kind = "rebuild" /\ op[o].ins = {} /\ ~op[o].wipe
  BY <1>1 DEF Shape, Late
<1>3. CASE op[o].todo = {}
  <2> DEFINE b == Past(o, "purge")
             q == [b EXCEPT !.doc = None]
  <2>1. b \in OpState /\ Rest(b, op[o]) /\ b.pc = "purge" /\ b.blocked = FALSE
    BY <1>1, PastFacts DEF Points
  <2>2. op' = [op EXCEPT ![o] = q]
    BY <1>3 DEF NextDocument, Goto
  <2> HIDE DEF b
  <2>3. /\ q \in OpState /\ q.pc = "purge" /\ q.blocked = FALSE
        /\ q.kind = op[o].kind /\ q.partial = op[o].partial /\ q.wipe = op[o].wipe /\ q.ins = op[o].ins
        /\ q.cdel = op[o].cdel /\ q.cins = op[o].cins /\ q.upd = op[o].upd /\ q.graph = op[o].graph
    BY <2>1 DEF OpState, Rest
  <2> HIDE DEF q
  <2> QED BY <1>1, <1>2, <2>2, <2>3, MoveStep
<1>4. CASE op[o].todo # {}
  <2> DEFINE b == Past(o, "read")
  <2>1. b \in OpState /\ Rest(b, op[o]) /\ b.pc = "read" /\ b.blocked = FALSE
    BY <1>1, PastFacts DEF Points
  <2>2. PICK d \in op[o].todo : op' = [op EXCEPT ![o] = [b EXCEPT !.doc = d, !.todo = @ \ {d}]]
    BY <1>4 DEF NextDocument, Goto
  <2>3. d \in Doc
    BY <1>1 DEF TypeOK, OpState
  <2> DEFINE q == [b EXCEPT !.doc = d, !.todo = @ \ {d}]
  <2> HIDE DEF b
  <2>4. /\ q \in OpState /\ q.pc = "read" /\ q.blocked = FALSE
        /\ q.kind = op[o].kind /\ q.partial = op[o].partial /\ q.wipe = op[o].wipe /\ q.ins = op[o].ins
        /\ q.cdel = op[o].cdel /\ q.cins = op[o].cins /\ q.upd = op[o].upd /\ q.graph = op[o].graph
    BY <2>1, <2>3 DEF OpState, Rest
  <2>5. op' = [op EXCEPT ![o] = q]
    BY <2>2
  <2> HIDE DEF q
  <2> QED BY <1>1, <1>2, <2>4, <2>5, MoveStep
<1> QED BY <1>3, <1>4

-----------------------------------------------------------------------------
(***************************************************************************)
(* An operation ends, or starts over, with nothing in hand.                *)
(***************************************************************************)
LEMMA EndStep ==
  ASSUME IInv, NEW o \in Op, NEW q, Becomes(o, q), Calm(q), q.pc \notin Snapshot \cup {"llm", "write"},
         q.pc \in {"stale", "thread", "list", "next", "unstale", "leave"} => q.kind = "rebuild",
         q.kind \in {"delete", "mark"} => q.pc = "purge", q.pc = "curate" => q.kind = "curate",
         q.partial => q.kind = "rebuild" /\ q.pc \notin {"idle", "done"},
         version[o].state # "none" => q.pc \in {"leave", "done"},
         UNCHANGED <<tables, version, restarts>>, inflight' \in BOOLEAN,
         excuse \subseteq excuse', excuse' \subseteq {"overlap", "partial", "restart", "curated", "lost"},
         \A v \in Active : Serves(op[o], v) => Serves(q, v) \/ "lost" \in excuse',
         Owing(op[o]) => \/ Owing(q)
                         \/ excuse' # {} /\ \A p \in Others(o) : InSnapshot(p) => op'[p].overlapped
  PROVE  IInv'
<1>1. Fitting(o, q) /\ Faithful(o, q)
  BY CalmFits
<1> QED BY <1>1, OpStep

LEMMA ReadEndsStep ==
  ASSUME IInv, NEW o \in Op, Read(o), op' = [op EXCEPT ![o] = Ended]
  PROVE  IInv'
<1>1. /\ TypeOK /\ Shape(o, op[o]) /\ op[o].pc = "read"
      /\ UNCHANGED <<tables, version, excuse, restarts, inflight>> /\ inflight \in BOOLEAN
      /\ excuse \subseteq {"overlap", "partial", "restart", "curated", "lost"}
  BY OpFacts DEF Read, Goto, TypeOK
<1>2. Becomes(o, Ended)
  BY <1>1, IdleFacts, PutFacts
<1>3. op[o].kind # "rebuild"
  <2>1. ASSUME op[o].kind = "rebuild"
        PROVE  op'[o].pc \in {"llm", "next"}
    <3>1. Past(o, "llm").pc = "llm" /\ Past(o, "next").pc = "next"
      BY <1>1, PastFacts DEF Points
    <3>2. op' = [op EXCEPT ![o] = IF op[o].doc \in chunks THEN Past(o, "llm") ELSE Past(o, "next")]
      BY <2>1 DEF Read, Goto
    <3> QED BY <1>1, <3>1, <3>2 DEF TypeOK
  <2>2. op'[o].pc = "done"
    BY <1>2, IdleFacts DEF Becomes
  <2> QED BY <2>1, <2>2
<1>4. ~Owing(op[o]) /\ \A v \in Active : ~Serves(op[o], v)
  BY <1>1, <1>3 DEF Shape, Owing, Serves, Snapshot, Late
<1> QED BY <1>1, <1>2, <1>4, IdleFacts, EndStep DEF Snapshot, Late

\* A rollback.
LEMMA FailingStep ==
  ASSUME IInv, NEW o \in Op, Failing(o), version[o].state = "none"
  PROVE  IInv'
<1>1. /\ TypeOK /\ Shape(o, op[o]) /\ op[o] \in OpState
      /\ excuse \subseteq {"overlap", "partial", "restart", "curated", "lost"} /\ inflight \in BOOLEAN
  BY OpFacts DEF TypeOK
<1>2. UNCHANGED <<tables, version, inflight, restarts>>
  BY DEF Failing
<1>3. CASE op[o].kind = "mark"
  <2>1. op' = Spoiled([op EXCEPT ![o] = Ended]) /\ excuse' = excuse \cup {"partial"}
    BY <1>3 DEF Failing, AfterFailure
  <2>2. /\ \A p \in Others(o) : InSnapshot(p) => op'[p].overlapped
        /\ \E x \in {Ended, [Ended EXCEPT !.overlapped = TRUE]} : Becomes(o, x)
    BY <1>1, <2>1, IdleFacts, SpoiledFacts DEF Snapshot, Late
  <2>3. PICK x : /\ Becomes(o, x) /\ Calm(x) /\ x.pc = "done" /\ x.kind = "none" /\ ~x.partial
    <3>1. LET y == [Ended EXCEPT !.overlapped = TRUE]
          IN Calm(y) /\ y.pc = "done" /\ y.kind = "none" /\ ~y.partial
      BY DEF Ended, Idle, Calm
    <3> QED BY <2>2, <3>1, IdleFacts
  <2>4. \A v \in Active : ~Serves(op[o], v)
    BY <1>3 DEF Serves
  <2> QED BY <1>1, <1>2, <2>1, <2>2, <2>3, <2>4, EndStep DEF Snapshot, Late
<1>4. CASE op[o].kind = "rebuild"
  <2> DEFINE q == [Idle EXCEPT !.kind = "rebuild", !.pc = "unstale", !.partial = op[o].partial]
  <2>1. op' = [op EXCEPT ![o] = q] /\ excuse' = excuse
    BY <1>4 DEF Failing, AfterFailure, Goto
  <2>2. /\ q \in OpState /\ Calm(q) /\ q.pc = "unstale" /\ q.kind = "rebuild" /\ q.partial = op[o].partial
        /\ ~q.blocked
    BY <1>1 DEF Idle, OpState, Calm
  <2> HIDE DEF q
  <2>3. Becomes(o, q)
    BY <1>1, <2>1, <2>2, PutFacts
  <2>4. (\A v \in Active : Serves(q, v)) /\ (Owing(op[o]) => Owing(q))
    BY <1>4, <2>2 DEF Serves, Owing
  <2> QED BY <1>1, <1>2, <2>1, <2>2, <2>3, <2>4, EndStep DEF Snapshot, Late
<1>5. CASE op[o].kind = "delete"
  <2> DEFINE q == [Idle EXCEPT !.kind = "rebuild", !.pc = "stale", !.partial = TRUE]
  <2>1. op' = [op EXCEPT ![o] = q] /\ excuse' = excuse
    BY <1>5 DEF Failing, AfterFailure, Goto
  <2>2. q \in OpState /\ Calm(q) /\ q.pc = "stale" /\ q.kind = "rebuild" /\ q.partial
    BY <1>1 DEF Idle, OpState, Calm
  <2> HIDE DEF q
  <2>3. Becomes(o, q)
    BY <1>1, <2>1, <2>2, PutFacts
  <2>4. (\A v \in Active : ~Serves(op[o], v)) /\ Owing(q)
    BY <1>5, <2>2 DEF Serves, Owing
  <2> QED BY <1>1, <1>2, <2>1, <2>2, <2>3, <2>4, EndStep DEF Snapshot, Late
<1>6. CASE op[o].kind \notin {"mark", "rebuild", "delete"}
  <2>1. op' = [op EXCEPT ![o] = Ended] /\ excuse' = excuse
    BY <1>6 DEF Failing, AfterFailure, Goto
  <2>2. Becomes(o, Ended)
    BY <1>1, <2>1, IdleFacts, PutFacts
  <2>3. ~Owing(op[o]) /\ \A v \in Active : ~Serves(op[o], v)
    BY <1>1, <1>6 DEF Shape, Owing, Serves
  <2> QED BY <1>1, <1>2, <2>1, <2>2, <2>3, IdleFacts, EndStep DEF Snapshot, Late
<1> QED BY <1>3, <1>4, <1>5, <1>6

LEMMA FailuresStep ==
  ASSUME IInv, NEW o \in Op, ExtractFails(o) \/ InsertClashes(o) \/ Deadlocks(o)
  PROVE  IInv'
<1>1. Failing(o) /\ op[o].pc \notin {"leave", "done"}
  <2>1. CASE ExtractFails(o)
    BY <2>1 DEF ExtractFails
  <2>2. CASE InsertClashes(o)
    BY <2>2 DEF InsertClashes, InsertAt
  <2>3. CASE Deadlocks(o)
    <3>1. Failing(o) /\ Awaits(o) # {}
      BY <2>3 DEF Deadlocks
    <3>2. op[o].pc = "insert" \/ op[o].blocked
      BY <3>1 DEF Awaits
    <3> QED BY <3>1, <3>2, OpFacts DEF Shape
  <2> QED BY <2>1, <2>2, <2>3
<1>2. version[o].state = "none"
  BY <1>1, OpFacts
<1> QED BY <1>1, <1>2, FailingStep

LEMMA ConnectFailsStep ==
  ASSUME IInv, NEW o \in Op, ConnectFails(o)
  PROVE  IInv'
<1>1. /\ TypeOK /\ op[o].pc = "list" /\ version[o].state = "none"
      /\ excuse \subseteq {"overlap", "partial", "restart", "curated", "lost"}
      /\ UNCHANGED <<tables, version, restarts>> /\ inflight' \in BOOLEAN
      /\ excuse' = excuse \cup {"lost"} /\ op' = Spoiled([op EXCEPT ![o] = Ended])
  BY OpFacts DEF ConnectFails, TypeOK
<1>2. /\ \A p \in Others(o) : InSnapshot(p) => op'[p].overlapped
      /\ \E x \in {Ended, [Ended EXCEPT !.overlapped = TRUE]} : Becomes(o, x)
  BY <1>1, IdleFacts, SpoiledFacts DEF Snapshot, Late
<1>3. PICK x : /\ Becomes(o, x) /\ Calm(x) /\ x.pc = "done" /\ x.kind = "none" /\ ~x.partial
  <2>1. LET y == [Ended EXCEPT !.overlapped = TRUE]
        IN Calm(y) /\ y.pc = "done" /\ y.kind = "none" /\ ~y.partial
    BY DEF Ended, Idle, Calm
  <2> QED BY <1>2, <2>1, IdleFacts
<1> QED BY <1>1, <1>2, <1>3, EndStep DEF Snapshot, Late

LEMMA LeaveRebuildStep ==
  ASSUME IInv, NEW o \in Op, LeaveRebuild(o)
  PROVE  IInv'
<1>1. /\ TypeOK /\ Shape(o, op[o]) /\ op[o].pc = "leave"
      /\ excuse \subseteq {"overlap", "partial", "restart", "curated", "lost"} /\ excuse' = excuse
      /\ UNCHANGED <<tables, version, restarts>> /\ inflight' \in BOOLEAN
      /\ op' = [op EXCEPT ![o] = Ended]
  BY OpFacts DEF LeaveRebuild, TypeOK
<1>2. Becomes(o, Ended)
  BY <1>1, IdleFacts, PutFacts
<1>3. ~Owing(op[o]) /\ \A v \in Active : ~Serves(op[o], v)
  BY <1>1 DEF Shape, Owing, Serves, Snapshot, Late
<1> QED BY <1>1, <1>2, <1>3, IdleFacts, EndStep DEF Snapshot, Late

-----------------------------------------------------------------------------
(***************************************************************************)
(* The steps of a snapshot.                                                *)
(***************************************************************************)
\* What the invariant says of an operation as it stands.
LEMMA Standing ==
  ASSUME IInv, NEW o \in Op
  PROVE  /\ op[o].pc \in {"llm", "write"} => op[o].doc \in chunks \cup gone
         /\ \A r \in op[o].ins : r[1] \in chunks \cup gone
         /\ op[o].pc \in Snapshot /\ ~op[o].overlapped => \A p \in Others(o) : ~InSnapshot(p)
         /\ op[o].pc = "commit" /\ ~op[o].overlapped => Active \subseteq op[o].upd
         /\ \A c \in op[o].cins : /\ \A r \in courseRows \ op[o].cdel : c[1] # r[1]
                                  /\ \A p \in Others(o) : \A d \in op[p].cins : c[1] # d[1]
         /\ \A c \in op[o].cdel : /\ c[2] \in Op /\ version[c[2]].state # "none"
                                  /\ op[o].pc = "retire" /\ op[o].blocked => c[2] \in op[o].seen
                                  /\ op[o].pc = "commit" => c[2] \in op[o].upd
         /\ \A v \in Retiring(op[o]) : v \in Op /\ version[v].state # "none"
         /\ Faithful(o, op[o])
<1>1. op[o] \in OpState /\ (InSnapshot(o) <=> op[o].pc \in Snapshot)
  BY OpFacts
<1>2. Faithful(o, op[o])
  BY DEF IInv, Current, Faithful, View, Coming, Seen, Merged
<1>3. /\ op[o].pc \in {"llm", "write"} => op[o].doc \in chunks \cup gone
      /\ \A r \in op[o].ins : r[1] \in chunks \cup gone
  BY DEF IInv, RowsKnown
<1>4. /\ op[o].pc \in Snapshot /\ ~op[o].overlapped => \A p \in Others(o) : ~InSnapshot(p)
      /\ op[o].pc = "commit" /\ ~op[o].overlapped => Active \subseteq op[o].upd
  BY <1>1 DEF IInv, Alone, Snapshot, Late
<1>5. \A c \in op[o].cins : /\ \A r \in courseRows \ op[o].cdel : c[1] # r[1]
                            /\ \A p \in Others(o) : \A d \in op[p].cins : c[1] # d[1]
  BY DEF IInv, Unique, Others
<1>6. /\ \A c \in op[o].cdel : /\ c[2] \in Op /\ version[c[2]].state # "none"
                               /\ op[o].pc = "retire" /\ op[o].blocked => c[2] \in op[o].seen
                               /\ op[o].pc = "commit" => c[2] \in op[o].upd
      /\ \A v \in Retiring(op[o]) : v \in Op /\ version[v].state # "none"
  BY <1>1 DEF IInv, Backed, OpState, CourseRow
<1> QED BY <1>2, <1>3, <1>4, <1>5, <1>6

\* A statement waits.
LEMMA BlockStep ==
  ASSUME IInv, NEW o \in Op, Block(o)
  PROVE  IInv'
<1> DEFINE b == op[o]
           waits == Targets(o)
           late == b.overlapped \/ b.pc = "purge"
           q == [b EXCEPT !.blocked = TRUE, !.seen = waits, !.overlapped = late]
<1>1. /\ TypeOK /\ Shape(o, b) /\ b \in OpState /\ ~b.blocked
      /\ (version[o].state # "none" => b.pc \in {"leave", "done"})
      /\ UNCHANGED <<tables, version, excuse, restarts, inflight>> /\ inflight \in BOOLEAN
      /\ excuse \subseteq {"overlap", "partial", "restart", "curated", "lost"}
  BY OpFacts DEF Block, TypeOK
<1>2. waits \in SUBSET (Row \cup CourseRow \cup Op)
  BY <1>1 DEF Targets, TypeOK, Orphans, View, OpState, Active
<1>3. b.pc \in {"write", "purge", "clear", "retire", "stale", "unstale", "curate"}
  BY DEF Block, Targets
<1>4. b.pc = "retire" => waits = {v \in Op : version[v].state # "none"}
  BY DEF Targets
<1>5. b.pc = "unstale" => waits = Active
  BY DEF Targets
<1>6. op' = [op EXCEPT ![o] = q]
  BY DEF Block
<1>7. b.pc = "retire" => b.overlapped
  <2> SUFFICES ASSUME b.pc = "retire", ~b.overlapped
               PROVE  FALSE
    OBVIOUS
  <2>1. PICK x \in waits : x \in Held(o)
    BY DEF Block
  <2>2. PICK p \in Others(o) : x \in op[p].del \cup op[p].cdel \cup op[p].upd
    BY <2>1 DEF Held
  <2>3. x \in Op /\ p \in Op /\ op[p] \in OpState
    BY <1>1, <1>4, <2>1, <2>2 DEF Others, TypeOK
  <2>4. op[p].upd # {}
    BY <2>2, <2>3, GraphAssumption DEF OpState, Row, CourseRow
  <2>5. op[p].pc = "commit"
    BY <2>3, <2>4, OpFacts DEF Shape
  <2> QED BY <2>2, <2>5, Standing DEF InSnapshot, Snapshot, Late
<1> HIDE DEF waits
<1>8. /\ q \in OpState /\ q.pc = b.pc /\ q.kind = b.kind /\ q.doc = b.doc /\ q.wipe = b.wipe /\ q.partial = b.partial
      /\ q.del = b.del /\ q.ins = b.ins /\ q.cdel = b.cdel /\ q.cins = b.cins /\ q.upd = b.upd
      /\ q.excl = b.excl /\ q.graph = b.graph /\ q.blocked = TRUE /\ q.seen = waits /\ q.overlapped = late
  BY <1>1, <1>2 DEF OpState
<1> HIDE DEF q
<1>9. Becomes(o, q)
  BY <1>1, <1>6, <1>8, PutFacts
<1>10. Shape(o, q)
  BY <1>1, <1>3, <1>7, <1>8 DEF Shape
<1>11. /\ \A v \in Retiring(q) : v \in Op /\ version[v].state # "none"
       /\ \A c \in q.cdel : /\ version[c[2]].state # "none"
                            /\ q.pc = "retire" => c[2] \in q.seen
  <2>1. b.upd = {}
    BY <1>1, <1>3 DEF Shape
  <2> QED BY <1>4, <1>8, <2>1, Standing DEF Retiring
<1>12. Fitting(o, q)
  <2>1. b.overlapped => q.overlapped
    BY <1>8
  <2> HIDE DEF late
  <2>2. /\ q.pc \in {"llm", "write"} => q.doc \in (chunks \cup gone)'
        /\ \A r \in q.ins : r[1] \in (chunks \cup gone)'
    BY <1>1, <1>8, Standing DEF tables
  <2>3. \A c \in q.cins : /\ \A r \in courseRows \ q.cdel : c[1] # r[1]
                          /\ \A p \in Others(o) : \A d \in op[p].cins : c[1] # d[1]
    BY <1>8, Standing
  <2>4. q.pc \notin {"leave", "done", "commit"} /\ version[o].state = "none"
    BY <1>1, <1>3, <1>8
  <2>5. q.pc = op[o].pc /\ (op[o].overlapped => q.overlapped)
    BY <1>8, <2>1
  <2> QED BY <1>10, <1>11, <2>2, <2>3, <2>4, <2>5 DEF Fitting
<1>13. Faithful(o, q)
  <2>1. Seen(q) = Seen(b) /\ (~q.overlapped => ~b.overlapped)
    BY <1>8 DEF Seen
  <2> HIDE DEF late
  <2> QED BY <1>8, <2>1, Standing DEF Faithful
<1>14. (Owing(op[o]) => Owing(q)) /\ \A v \in Active : Serves(op[o], v) => Serves(q, v)
  <2>1. b.pc \in {"unstale", "retire"} => Active \subseteq waits
    BY <1>4, <1>5 DEF Active
  <2> QED BY <1>3, <1>8, <2>1 DEF Owing, Serves
<1> QED BY <1>1, <1>9, <1>12, <1>13, <1>14, OpStep

\* A step inside the snapshot.
LEMMA InnerStep ==
  ASSUME IInv, NEW o \in Op, NEW q \in OpState, op' = [op EXCEPT ![o] = q],
         op[o].pc \in Snapshot, q.pc \in Late,
         q.kind = op[o].kind, q.partial = op[o].partial, q.ins = op[o].ins, q.overlapped = op[o].overlapped,
         Shape(o, q), Faithful(o, q),
         q.pc = "commit" /\ ~q.overlapped => Active \subseteq q.upd,
         \A c \in q.cins : /\ \A r \in courseRows \ q.cdel : c[1] # r[1]
                           /\ \A p \in Others(o) : \A d \in op[p].cins : c[1] # d[1],
         \A c \in q.cdel : /\ version[c[2]].state # "none"
                           /\ q.pc = "retire" /\ q.blocked => c[2] \in q.seen
                           /\ q.pc = "commit" => c[2] \in q.upd,
         \A v \in Retiring(q) : v \in Op /\ version[v].state # "none",
         \A v \in Active : Serves(op[o], v) => Serves(q, v),
         UNCHANGED <<tables, version, inflight, excuse, restarts>>
  PROVE  IInv'
<1>1. /\ TypeOK /\ version[o].state = "none" /\ inflight \in BOOLEAN
      /\ excuse \subseteq {"overlap", "partial", "restart", "curated", "lost"}
      /\ q.pc \notin {"llm", "write", "leave"}
  BY OpFacts DEF Snapshot, Late, TypeOK
<1>2. Becomes(o, q)
  BY <1>1, PutFacts
<1>3. \A r \in q.ins : r[1] \in (chunks \cup gone)'
  BY Standing DEF tables
<1>4. Fitting(o, q)
  BY <1>1, <1>3 DEF Fitting
<1>5. Owing(op[o]) => Owing(q)
  BY <1>1 DEF Owing
<1> QED BY <1>1, <1>2, <1>4, <1>5, OpStep

LEMMA MergeStep ==
  ASSUME IInv, NEW o \in Op, MergeDocuments(o)
  PROVE  IInv'
<1> DEFINE b == Past(o, "clear")
           found == {r[2] : r \in {v \in View(o) : v[1] \notin op[o].excl}}
<1>0. PICK graph \in SUBSET found : Merges(graph, found) /\ Goto(o, [b EXCEPT !.graph = graph])
  BY DEF MergeDocuments
<1> DEFINE q == [b EXCEPT !.graph = graph]
<1>1. /\ TypeOK /\ op[o] \in OpState /\ Shape(o, op[o]) /\ op[o].pc = "merge" /\ op' = [op EXCEPT ![o] = q]
      /\ UNCHANGED <<tables, version, inflight, excuse, restarts>>
  BY <1>0, OpFacts DEF MergeDocuments, Goto
<1>2. b \in OpState /\ Rest(b, op[o]) /\ b.pc = "clear" /\ b.blocked = FALSE
  BY <1>1, PastFacts DEF Points
<1>3. graph \in SUBSET Label /\ OneSpelling(graph)
  <2>1. found \in SUBSET Label
    BY <1>1 DEF View, TypeOK, OpState, Row
  <2> QED BY <1>0, <2>1 DEF Merges, OneSpelling
<1>4. ~op[o].overlapped /\ (\A p \in Others(o) : ~Owes(p)) => Merges(graph, Merged(Seen(op[o])))
  <2>1. ~op[o].overlapped /\ (\A p \in Others(o) : ~Owes(p)) => found = Merged(Seen(op[o]))
    BY <1>1, Standing DEF Faithful, Merged, Seen, View
  <2> QED BY <1>0, <2>1
<1> HIDE DEF b, found
<1>5. /\ q \in OpState /\ q.pc = "clear" /\ q.blocked = FALSE /\ q.graph = graph
      /\ q.kind = op[o].kind /\ q.partial = op[o].partial /\ q.wipe = op[o].wipe /\ q.overlapped = op[o].overlapped
      /\ q.del = op[o].del /\ q.ins = op[o].ins /\ q.cdel = op[o].cdel /\ q.cins = op[o].cins /\ q.upd = op[o].upd
  BY <1>2, <1>3 DEF OpState, Rest
<1> HIDE DEF q
<1>6. q.cdel = {} /\ q.cins = {} /\ q.upd = {} /\ ~q.wipe
  BY <1>1, <1>5 DEF Shape, Late
<1>7. Shape(o, q) /\ Retiring(q) = {}
  BY <1>1, <1>3, <1>5, <1>6 DEF Shape, Late, Snapshot, Retiring
<1>8. Faithful(o, q)
  <2>1. Seen(q) = Seen(op[o])
    BY <1>5 DEF Seen
  <2> QED BY <1>4, <1>5, <2>1 DEF Faithful
<1>9. (\A v \in Active : Serves(op[o], v) => Serves(q, v)) /\ q.pc \in Late /\ op[o].pc \in Snapshot
  BY <1>1, <1>5 DEF Serves, Late, Snapshot
<1> QED BY <1>1, <1>5, <1>6, <1>7, <1>8, <1>9, InnerStep

LEMMA ClearStep ==
  ASSUME IInv, NEW o \in Op, ClearCourse(o)
  PROVE  IInv'
<1> DEFINE b == Past(o, "insert")
           deleted == Aim(o) \cap courseRows
           q == [b EXCEPT !.cdel = deleted]
<1>1. /\ TypeOK /\ op[o] \in OpState /\ Shape(o, op[o]) /\ op[o].pc = "clear" /\ op' = [op EXCEPT ![o] = q]
      /\ UNCHANGED <<tables, version, inflight, excuse, restarts>>
  BY OpFacts DEF ClearCourse, At, Goto
<1>2. b \in OpState /\ Rest(b, op[o]) /\ b.pc = "insert" /\ b.blocked = FALSE
  BY <1>1, PastFacts DEF Points
<1>3. deleted \in SUBSET CourseRow /\ \A c \in deleted : version[c[2]].state # "none"
  BY <1>1 DEF TypeOK, IInv, Backed
<1> HIDE DEF b, deleted
<1>4. /\ q \in OpState /\ q.pc = "insert" /\ q.blocked = FALSE /\ q.cdel = deleted
      /\ q.kind = op[o].kind /\ q.partial = op[o].partial /\ q.wipe = op[o].wipe /\ q.overlapped = op[o].overlapped
      /\ q.del = op[o].del /\ q.ins = op[o].ins /\ q.graph = op[o].graph /\ q.cins = op[o].cins /\ q.upd = op[o].upd
  BY <1>2, <1>3 DEF OpState, Rest
<1> HIDE DEF q
<1>5. q.cins = {} /\ q.upd = {}
  BY <1>1, <1>4 DEF Shape, Late
<1>6. Shape(o, q) /\ Retiring(q) = {}
  BY <1>1, <1>4, <1>5 DEF Shape, Late, Snapshot, Retiring
<1>7. Faithful(o, q)
  <2>1. Seen(q) = Seen(op[o])
    BY <1>4 DEF Seen
  <2> QED BY <1>1, <1>4, <2>1, Standing DEF Faithful, Late
<1>8. (\A v \in Active : Serves(op[o], v) => Serves(q, v)) /\ q.pc \in Late /\ op[o].pc \in Snapshot
  BY <1>1, <1>4 DEF Serves, Late, Snapshot
<1> QED BY <1>1, <1>3, <1>4, <1>5, <1>6, <1>7, <1>8, InnerStep

LEMMA InsertStep ==
  ASSUME IInv, NEW o \in Op, InsertCourse(o)
  PROVE  IInv'
<1> DEFINE b == Past(o, "retire")
           inserted == op[o].graph \X {o}
           q == [b EXCEPT !.cins = inserted]
<1>1. /\ TypeOK /\ op[o] \in OpState /\ Shape(o, op[o]) /\ op[o].pc = "insert" /\ op' = [op EXCEPT ![o] = q]
      /\ Clash(o) = {} /\ Inserting(o) = {}
      /\ UNCHANGED <<tables, version, inflight, excuse, restarts>>
  BY OpFacts DEF InsertCourse, InsertAt, Goto
<1>2. b \in OpState /\ Rest(b, op[o]) /\ b.pc = "retire" /\ b.blocked = FALSE
  BY <1>1, PastFacts DEF Points
<1>3. inserted \in SUBSET CourseRow
  BY <1>1 DEF OpState, CourseRow
<1>4. \A c \in inserted : /\ \A r \in courseRows \ op[o].cdel : c[1] # r[1]
                          /\ \A p \in Others(o) : \A d \in op[p].cins : c[1] # d[1]
  BY <1>1 DEF Clash, Inserting
<1>5. inserted = op[o].graph \X {o}
  OBVIOUS
<1> HIDE DEF b, inserted
<1>6. /\ q \in OpState /\ q.pc = "retire" /\ q.blocked = FALSE /\ q.cins = inserted
      /\ q.kind = op[o].kind /\ q.partial = op[o].partial /\ q.wipe = op[o].wipe /\ q.overlapped = op[o].overlapped
      /\ q.del = op[o].del /\ q.ins = op[o].ins /\ q.graph = op[o].graph /\ q.cdel = op[o].cdel /\ q.upd = op[o].upd
  BY <1>2, <1>3 DEF OpState, Rest
<1> HIDE DEF q
<1>7. q.upd = {} /\ \A c \in q.cdel : version[c[2]].state # "none"
  BY <1>1, <1>6, Standing DEF Shape, Late
<1>8. Shape(o, q) /\ Retiring(q) = {}
  BY <1>1, <1>5, <1>6, <1>7 DEF Shape, Late, Snapshot, Retiring
<1>9. Faithful(o, q)
  <2>1. Seen(q) = Seen(op[o])
    BY <1>6 DEF Seen
  <2> QED BY <1>1, <1>6, <2>1, Standing DEF Faithful, Late
<1>10. (\A v \in Active : Serves(op[o], v) => Serves(q, v)) /\ q.pc \in Late /\ op[o].pc \in Snapshot
  BY <1>1, <1>6 DEF Serves, Late, Snapshot
<1> QED BY <1>1, <1>4, <1>6, <1>7, <1>8, <1>9, <1>10, InnerStep

LEMMA RetireStep ==
  ASSUME IInv, NEW o \in Op, Retire(o)
  PROVE  IInv'
<1> DEFINE b == Past(o, "commit")
           retired == Aim(o)
           q == [b EXCEPT !.upd = retired]
<1>1. /\ TypeOK /\ op[o] \in OpState /\ Shape(o, op[o]) /\ op[o].pc = "retire" /\ op' = [op EXCEPT ![o] = q]
      /\ UNCHANGED <<tables, version, inflight, excuse, restarts>>
  BY OpFacts DEF Retire, At, Goto
<1>2. b \in OpState /\ Rest(b, op[o]) /\ b.pc = "commit" /\ b.blocked = FALSE /\ b.seen = {}
  BY <1>1, PastFacts DEF Points
<1>3. retired = IF op[o].blocked THEN op[o].seen ELSE {v \in Op : version[v].state # "none"}
  BY <1>1 DEF Aim, Targets
<1>4. \A v \in retired : v \in Op /\ version[v].state # "none"
  BY <1>1, <1>3, Standing DEF Retiring
<1>5. \A c \in op[o].cdel : c[2] \in retired
  BY <1>1, <1>3, Standing
<1>6. ~op[o].blocked => Active \subseteq retired
  BY <1>3 DEF Active
<1> HIDE DEF b, retired
<1>7. /\ q \in OpState /\ q.pc = "commit" /\ q.blocked = FALSE /\ q.upd = retired
      /\ q.kind = op[o].kind /\ q.partial = op[o].partial /\ q.wipe = op[o].wipe /\ q.overlapped = op[o].overlapped
      /\ q.del = op[o].del /\ q.ins = op[o].ins /\ q.graph = op[o].graph /\ q.cdel = op[o].cdel /\ q.cins = op[o].cins
  BY <1>2, <1>4 DEF OpState, Rest
<1> HIDE DEF q
<1>8. Shape(o, q) /\ Retiring(q) = retired
  BY <1>1, <1>7 DEF Shape, Late, Snapshot, Retiring
<1>9. q.pc = "commit" /\ ~q.overlapped => Active \subseteq q.upd
  BY <1>1, <1>6, <1>7 DEF Shape
<1>10. Faithful(o, q)
  <2>1. Seen(q) = Seen(op[o])
    BY <1>7 DEF Seen
  <2> QED BY <1>1, <1>7, <2>1, Standing DEF Faithful, Late
<1>11. (\A v \in Active : Serves(op[o], v) => Serves(q, v)) /\ q.pc \in Late /\ op[o].pc \in Snapshot
  BY <1>1, <1>3, <1>6, <1>7 DEF Serves, Late, Snapshot
<1>12. \A c \in q.cins : /\ \A r \in courseRows \ q.cdel : c[1] # r[1]
                         /\ \A p \in Others(o) : \A d \in op[p].cins : c[1] # d[1]
  BY <1>7, Standing
<1>13. \A c \in q.cdel : version[c[2]].state # "none" /\ c[2] \in q.upd
  BY <1>5, <1>7, Standing
<1> QED BY <1>1, <1>4, <1>7, <1>8, <1>9, <1>10, <1>11, <1>12, <1>13, InnerStep

\* A snapshot is opened; it and the open ones are marked, if there are any.
LEMMA OpeningFacts ==
  ASSUME TypeOK, NEW o \in Op, NEW q \in OpState, op' = Opening(o, q)
  PROVE  /\ \A p \in Others(o) : InSnapshot(p) => op'[p].overlapped
         /\ \E late \in BOOLEAN : /\ Becomes(o, [q EXCEPT !.overlapped = late])
                                  /\ q.overlapped => late
                                  /\ late \/ \A p \in Others(o) : ~InSnapshot(p)
<1> DEFINE open == {p \in Others(o) : InSnapshot(p)}
           late == q.overlapped \/ open # {}
           x == [q EXCEPT !.overlapped = late]
<1>1. op' = [p \in Op |-> IF p = o THEN x ELSE IF p \in open THEN [op[p] EXCEPT !.overlapped = TRUE] ELSE op[p]]
  BY DEF Opening
<1>2. ASSUME NEW b \in OpState, NEW f \in BOOLEAN
      PROVE  /\ [b EXCEPT !.overlapped = f] \in OpState /\ (f => Like([b EXCEPT !.overlapped = f], b))
             /\ [b EXCEPT !.overlapped = f].overlapped = f
  BY DEF OpState, Like
<1>3. late \in BOOLEAN /\ (q.overlapped => late) /\ (late \/ \A p \in Others(o) : ~InSnapshot(p))
  BY DEF OpState
<1> HIDE DEF late
<1>4. x \in OpState
  BY <1>2, <1>3
<1> HIDE DEF x
<1>5. \A p \in Others(o) : op'[p] = IF p \in open THEN [op[p] EXCEPT !.overlapped = TRUE] ELSE op[p]
  BY <1>1 DEF Others
<1>6. \A p \in Others(o) : op[p] \in OpState /\ Like(op[p], op[p])
  BY DEF TypeOK, Others, Like
<1>7. \A p \in Others(o) : Like(op'[p], op[p]) /\ op'[p] \in OpState /\ (InSnapshot(p) => op'[p].overlapped)
  BY <1>2, <1>5, <1>6
<1>8. op' \in [Op -> OpState] /\ op'[o] = x
  BY <1>1, <1>4, <1>5, <1>7 DEF Others
<1>9. Becomes(o, x)
  BY <1>7, <1>8 DEF Becomes
<1> QED BY <1>3, <1>7, <1>9 DEF x

LEMMA PurgeStep ==
  ASSUME IInv, NEW o \in Op, Purge(o)
  PROVE  IInv'
<1> DEFINE next == IF op[o].wipe THEN "clear" ELSE "merge"
           b == Past(o, next)
           deleted == op[o].del \cup (Aim(o) \cap docRows)
           inserted == op[o].ins \ Orphans(o)
           y == [b EXCEPT !.del = deleted, !.ins = inserted, !.excl = syllabus]
<1>1. /\ TypeOK /\ op[o] \in OpState /\ Shape(o, op[o]) /\ op[o].pc = "purge"
      /\ UNCHANGED <<tables, version, inflight, excuse, restarts>> /\ inflight \in BOOLEAN
      /\ excuse \subseteq {"overlap", "partial", "restart", "curated", "lost"}
      /\ version[o].state = "none"
  BY OpFacts DEF Purge, At, TypeOK
<1>2. b \in OpState /\ Rest(b, op[o]) /\ b.pc = next /\ b.blocked = FALSE /\ b.seen = {}
  BY <1>1, PastFacts DEF Points
<1>3. /\ deleted \in SUBSET Row /\ inserted \in SUBSET Row /\ syllabus \in SUBSET Doc
      /\ inserted \subseteq op[o].ins
  BY <1>1 DEF TypeOK, OpState
<1>4. op' = Opening(o, y)
  <2>1. b.del = op[o].del /\ b.ins = op[o].ins
    BY <1>2 DEF Rest
  <2>2. y = [b EXCEPT !.del = @ \cup (Aim(o) \cap docRows), !.ins = @ \ Orphans(o), !.excl = syllabus]
    BY <2>1
  <2> HIDE DEF y
  <2> QED BY <2>2 DEF Purge
<1>5. ~op[o].overlapped =>
        LET rows == (docRows \ deleted) \cup inserted
        IN (\A r \in rows : r[1] \in chunks) /\ (op[o].wipe => rows = {})
  <2> SUFFICES ASSUME ~op[o].overlapped
               PROVE  LET rows == (docRows \ deleted) \cup inserted
                      IN (\A r \in rows : r[1] \in chunks) /\ (op[o].wipe => rows = {})
    OBVIOUS
  <2>1. Aim(o) = IF op[o].wipe THEN docRows ELSE Orphans(o)
    BY <1>1 DEF Aim, Targets, Shape
  <2>2. op[o].wipe => op[o].ins = {}
    BY <1>1 DEF Shape
  <2> QED BY <2>1, <2>2 DEF Orphans, View
<1> HIDE DEF next, b, deleted, inserted
<1>6. /\ y \in OpState /\ y.pc = next /\ y.blocked = FALSE /\ y.del = deleted /\ y.ins = inserted /\ y.excl = syllabus
      /\ y.kind = op[o].kind /\ y.partial = op[o].partial /\ y.wipe = op[o].wipe /\ y.overlapped = op[o].overlapped
      /\ y.graph = op[o].graph /\ y.cdel = op[o].cdel /\ y.cins = op[o].cins /\ y.upd = op[o].upd
  BY <1>2, <1>3 DEF OpState, Rest
<1> HIDE DEF y
<1>7. PICK late \in BOOLEAN : /\ Becomes(o, [y EXCEPT !.overlapped = late])
                              /\ y.overlapped => late
                              /\ late \/ \A p \in Others(o) : ~InSnapshot(p)
  BY <1>1, <1>4, <1>6, OpeningFacts
<1> DEFINE q == [y EXCEPT !.overlapped = late]
<1>8. /\ q.pc = next /\ q.blocked = FALSE /\ q.del = deleted /\ q.ins = inserted /\ q.excl = syllabus
      /\ q.kind = op[o].kind /\ q.partial = op[o].partial /\ q.wipe = op[o].wipe /\ q.overlapped = late
      /\ q.graph = op[o].graph /\ q.cdel = op[o].cdel /\ q.cins = op[o].cins /\ q.upd = op[o].upd
  BY <1>6 DEF OpState
<1>9. Becomes(o, q)
  BY <1>7
<1> HIDE DEF q
<1>10. /\ next \in {"clear", "merge"} /\ (op[o].wipe <=> next = "clear") /\ op[o].wipe \in BOOLEAN
       /\ q.cdel = {} /\ q.cins = {} /\ q.upd = {} /\ q.graph = {} /\ (q.kind = "rebuild" => q.ins = {})
  BY <1>1, <1>3, <1>8 DEF next, Shape, Late, OpState
<1>11. Shape(o, q) /\ Retiring(q) = {}
  BY <1>1, <1>8, <1>10 DEF Shape, Late, Snapshot, Retiring
<1>12. Fitting(o, q)
  <2>1. \A r \in q.ins : r[1] \in (chunks \cup gone)'
    BY <1>1, <1>3, <1>8, Standing DEF tables
  <2>2. \A p \in Others(o) : InSnapshot(p) => op'[p].overlapped
    BY <1>1, <1>4, <1>6, OpeningFacts
  <2>3. op[o].pc \notin Snapshot /\ q.pc \notin {"llm", "write", "commit", "retire"}
    BY <1>1, <1>8, <1>10 DEF Snapshot, Late
  <2> QED BY <1>1, <1>7, <1>8, <1>10, <1>11, <2>1, <2>2, <2>3 DEF Fitting
<1>13. Faithful(o, q)
  <2>1. Seen(q) = (docRows \ deleted) \cup inserted
    BY <1>8 DEF Seen
  <2>2. ~q.overlapped => (\A r \in Seen(q) : r[1] \in chunks) /\ (next = "clear" => Seen(q) = {})
    BY <1>5, <1>6, <1>7, <1>8, <1>10, <2>1
  <2>3. Merged({}) = {} /\ Merges({}, {})
    BY DEF Merged, Merges
  <2>4. q.pc \in Late => next = "clear"
    BY <1>8, <1>10 DEF Late
  <2> QED BY <1>8, <1>10, <2>2, <2>3, <2>4 DEF Faithful
<1>14. (Owing(op[o]) => Owing(q)) /\ \A v \in Active : Serves(op[o], v) => Serves(q, v)
  BY <1>1, <1>8, <1>10 DEF Owing, Serves
<1> QED BY <1>1, <1>9, <1>12, <1>13, <1>14, OpStep

-----------------------------------------------------------------------------
(***************************************************************************)
(* The steps that set the flag or the labels of the active versions.       *)
(***************************************************************************)
LEMMA FlagStep ==
  ASSUME IInv, NEW o \in Op, NEW q, Becomes(o, q), Fitting(o, q), SameVersions, UNCHANGED tables,
         TypeOK', Served', Current'
  PROVE  IInv'
<1>1. UNCHANGED <<chunks, gone, docRows, courseRows>>
  BY DEF tables
<1>2. RowsKnown'
  <2>1. \A r \in docRows' : r[1] \in (chunks \cup gone)'
    BY <1>1 DEF IInv, RowsKnown
  <2> QED BY <1>1, <2>1, RowsKnownStep
<1>3. Alone' /\ Unique' /\ Backed' /\ \A p \in Op : Shape(p, op'[p])
  BY <1>1, AloneStep, UniqueStep, BackedStep, ShapeStep
<1> QED BY <1>2, <1>3 DEF IInv

\* Setting one field of some versions.
Flagged(set, flag) ==
  version' = [v \in Op |-> IF v \in set THEN [version[v] EXCEPT !.stale = flag] ELSE version[v]]

LEMMA FlaggedFacts ==
  ASSUME TypeOK, NEW set, NEW flag \in BOOLEAN, Flagged(set, flag)
  PROVE  /\ version' \in [Op -> [state : {"none", "active", "retired"}, labels : SUBSET Label,
                                 published : SUBSET Label, stale : BOOLEAN]]
         /\ SameVersions /\ \A v \in Op : version'[v].labels = version[v].labels
         /\ \A v \in Op : version'[v].stale = IF v \in set THEN flag ELSE version[v].stale
BY DEF TypeOK, Flagged, SameVersions

LEMMA MarkStaleStep ==
  ASSUME IInv, NEW o \in Op, MarkStale(o)
  PROVE  IInv'
<1> DEFINE q == Past(o, "thread")
<1>1. /\ TypeOK /\ op[o] \in OpState /\ Shape(o, op[o]) /\ op[o].pc = "stale" /\ version[o].state = "none"
      /\ op' = [op EXCEPT ![o] = q] /\ UNCHANGED <<tables, inflight, excuse, restarts>>
      /\ Flagged(Aim(o) \cap Active, TRUE)
  BY OpFacts DEF MarkStale, At, Flagged
<1>2. q \in OpState /\ Rest(q, op[o]) /\ q.pc = "thread" /\ q.blocked = FALSE
  BY <1>1, PastFacts DEF Points
<1> HIDE DEF q
<1>3. Becomes(o, q)
  BY <1>1, <1>2, PutFacts
<1>4. q.kind = "rebuild" /\ q.partial = op[o].partial /\ Calm(q)
  BY <1>1, <1>2 DEF Rest, Calm, Shape, Late
<1>5. Fitting(o, q) /\ Faithful(o, q) /\ q.pc \notin Snapshot
  BY <1>1, <1>2, <1>4, CalmFits DEF Snapshot, Late
<1>6. /\ SameVersions /\ \A v \in Op : version'[v].labels = version[v].labels
      /\ version' \in [Op -> [state : {"none", "active", "retired"}, labels : SUBSET Label,
                              published : SUBSET Label, stale : BOOLEAN]]
  BY <1>1, FlaggedFacts
<1>7. TypeOK'
  BY <1>1, <1>3, <1>6 DEF TypeOK, tables, Becomes
<1>8. Served'
  <2>1. \A v \in Active : Serves(q, v)
    BY <1>2, <1>4 DEF Serves
  <2> QED BY <1>1, <1>3, <1>6, <2>1, ServedStep
<1>9. Current'
  <2>1. Owing(op[o]) => Owing(q)
    BY <1>1, <1>2, <1>4 DEF Owing, Shape, Snapshot, Late
  <2>2. UNCHANGED <<docRows, syllabus, chunks>> /\ excuse' = excuse
    BY <1>1 DEF tables
  <2> QED BY <1>2, <1>3, <1>5, <1>6, <2>1, <2>2, CurrentStep DEF Snapshot
<1> QED BY <1>1, <1>3, <1>5, <1>6, <1>7, <1>8, <1>9, FlagStep

LEMMA ClearStaleStep ==
  ASSUME IInv, NEW o \in Op, ClearStale(o)
  PROVE  IInv'
<1> DEFINE b == Past(o, "leave")
<1>1. /\ TypeOK /\ op[o] \in OpState /\ Shape(o, op[o]) /\ op[o].pc = "unstale" /\ version[o].state = "none"
      /\ UNCHANGED <<tables, inflight, restarts>> /\ Flagged(Aim(o) \cap Active, FALSE)
  BY OpFacts DEF ClearStale, At, Flagged
<1>2. b \in OpState /\ Rest(b, op[o]) /\ b.pc = "leave" /\ b.blocked = FALSE
  BY <1>1, PastFacts DEF Points
<1>3. b.kind = "rebuild" /\ b.partial = op[o].partial /\ Calm(b)
  BY <1>1, <1>2 DEF Rest, Calm, Shape, Late
<1>4. \/ op[o].partial /\ excuse' = excuse \cup {"partial"} /\ op' = Spoiled([op EXCEPT ![o] = b])
      \/ ~op[o].partial /\ excuse' = excuse /\ op' = [op EXCEPT ![o] = b]
  BY DEF ClearStale, Abandon
<1> HIDE DEF b
<1>5. PICK q : /\ Becomes(o, q) /\ Calm(q) /\ q.pc = "leave" /\ q.kind = "rebuild"
               /\ op[o].partial => /\ excuse' # {}
                                   /\ \A p \in Others(o) : InSnapshot(p) => op'[p].overlapped
  <2>1. CASE ~op[o].partial
    BY <1>1, <1>2, <1>3, <1>4, <2>1, PutFacts
  <2>2. CASE op[o].partial
    <3>1. /\ \A p \in Others(o) : InSnapshot(p) => op'[p].overlapped
          /\ \E x \in {b, [b EXCEPT !.overlapped = TRUE]} : Becomes(o, x)
      BY <1>1, <1>2, <1>4, <2>2, SpoiledFacts DEF Snapshot, Late
    <3>2. LET y == [b EXCEPT !.overlapped = TRUE]
          IN Calm(y) /\ y.pc = "leave" /\ y.kind = "rebuild"
      BY <1>2, <1>3 DEF OpState, Calm
    <3>3. excuse' # {}
      BY <1>4, <2>2
    <3> QED BY <1>2, <1>3, <3>1, <3>2, <3>3
  <2> QED BY <2>1, <2>2
<1>6. Fitting(o, q) /\ Faithful(o, q) /\ q.pc \notin Snapshot
  BY <1>1, <1>5, CalmFits DEF Snapshot, Late
<1>7. /\ SameVersions /\ \A v \in Op : version'[v].labels = version[v].labels
      /\ \A v \in Active : version'[v].stale => version[v].stale /\ v \notin Aim(o)
      /\ version' \in [Op -> [state : {"none", "active", "retired"}, labels : SUBSET Label,
                              published : SUBSET Label, stale : BOOLEAN]]
  <2>1. \A v \in Op : version'[v].stale = IF v \in Aim(o) \cap Active THEN FALSE ELSE version[v].stale
    BY <1>1, FlaggedFacts
  <2>2. \A v \in Active : version'[v].stale => version[v].stale /\ v \notin Aim(o)
    BY <2>1 DEF Active
  <2> QED BY <1>1, <2>2, FlaggedFacts
<1>8. TypeOK'
  BY <1>1, <1>4, <1>5, <1>7 DEF TypeOK, tables, Becomes
<1>9. Served'
  <2>1. \A v \in Active : Serves(op[o], v) => v \in Aim(o)
    BY <1>1 DEF Serves, Aim, Targets
  <2>2. excuse \subseteq excuse'
    BY <1>4
  <2> QED BY <1>5, <1>7, <2>1, <2>2, ServedStep
<1>10. Current'
  <2>1. Owing(op[o]) => op[o].partial
    BY <1>1 DEF Owing, Shape, Snapshot, Late
  <2>2. UNCHANGED <<docRows, syllabus, chunks>> /\ (excuse' = {} => excuse = {})
    BY <1>1, <1>4 DEF tables
  <2> QED BY <1>5, <1>6, <1>7, <2>1, <2>2, CurrentStep DEF Snapshot
<1> QED BY <1>1, <1>5, <1>6, <1>7, <1>8, <1>9, <1>10, FlagStep

LEMMA ClearFailsStep ==
  ASSUME IInv, NEW o \in Op, ClearFails(o)
  PROVE  IInv'
<1> DEFINE b == Past(o, "leave")
<1>1. /\ TypeOK /\ Shape(o, op[o]) /\ op[o].pc = "unstale" /\ version[o].state = "none"
      /\ excuse \subseteq {"overlap", "partial", "restart", "curated", "lost"}
      /\ UNCHANGED <<tables, version, inflight, restarts>> /\ inflight \in BOOLEAN
      /\ excuse' = excuse \cup {"lost"} /\ op' = Spoiled([op EXCEPT ![o] = b])
  BY OpFacts DEF ClearFails, TypeOK
<1>2. b \in OpState /\ Rest(b, op[o]) /\ b.pc = "leave" /\ b.blocked = FALSE
  BY <1>1, PastFacts DEF Points
<1>3. b.kind = "rebuild" /\ Calm(b)
  BY <1>1, <1>2 DEF Rest, Calm, Shape, Late
<1> HIDE DEF b
<1>4. /\ \A p \in Others(o) : InSnapshot(p) => op'[p].overlapped
      /\ \E x \in {b, [b EXCEPT !.overlapped = TRUE]} : Becomes(o, x)
  BY <1>1, <1>2, SpoiledFacts DEF Snapshot, Late
<1>5. PICK q : Becomes(o, q) /\ Calm(q) /\ q.pc = "leave" /\ q.kind = "rebuild"
  <2>1. LET y == [b EXCEPT !.overlapped = TRUE]
        IN Calm(y) /\ y.pc = "leave" /\ y.kind = "rebuild"
    BY <1>2, <1>3 DEF OpState, Calm
  <2> QED BY <1>2, <1>3, <1>4, <2>1
<1> QED BY <1>1, <1>4, <1>5, EndStep DEF Snapshot, Late

LEMMA CurateStep ==
  ASSUME IInv, NEW o \in Op, Curate(o)
  PROVE  IInv'
<1>1. /\ TypeOK /\ op[o] \in OpState /\ Shape(o, op[o]) /\ op[o].pc = "curate" /\ version[o].state = "none"
      /\ UNCHANGED <<tables, inflight, restarts>> /\ op' = [op EXCEPT ![o] = Ended]
      /\ excuse' = excuse \cup {"curated"}
  BY OpFacts DEF Curate, At
<1>2. Becomes(o, Ended)
  BY <1>1, IdleFacts, PutFacts
<1>3. Fitting(o, Ended) /\ Ended.pc \notin Snapshot
  BY <1>1, IdleFacts, CalmFits DEF Snapshot, Late
<1>4. op[o].got \in SUBSET Label
  BY <1>1 DEF OpState
<1>5. version' = [p \in Op |-> IF p \in Aim(o) \cap Active THEN [version[p] EXCEPT !.labels = op[o].got] ELSE version[p]]
  BY DEF Curate
<1>6. /\ SameVersions /\ \A v \in Op : version'[v].stale = version[v].stale
      /\ version' \in [Op -> [state : {"none", "active", "retired"}, labels : SUBSET Label,
                              published : SUBSET Label, stale : BOOLEAN]]
  BY <1>1, <1>4, <1>5 DEF TypeOK, SameVersions
<1>7. TypeOK'
  BY <1>1, <1>2, <1>6 DEF TypeOK, tables, Becomes
<1>8. ~Owing(op[o]) /\ \A v \in Active : ~Serves(op[o], v)
  <2>1. op[o].kind = "curate"
    BY <1>1 DEF Shape
  <2> QED BY <1>1, <2>1 DEF Shape, Owing, Serves, Snapshot, Late
<1>9. Served'
  BY <1>1, <1>2, <1>6, <1>8, ServedStep DEF Active
<1>10. Current'
  <2>1. UNCHANGED <<docRows, syllabus, chunks>> /\ excuse' # {}
    BY <1>1 DEF tables
  <2> QED BY <1>2, <1>3, <1>6, <1>8, <2>1, CurrentStep DEF Snapshot
<1> QED BY <1>1, <1>2, <1>3, <1>6, <1>7, <1>9, <1>10, FlagStep

-----------------------------------------------------------------------------
(***************************************************************************)
(* The steps that change the documents or their rows.                      *)
(***************************************************************************)
\* Whoever does so without publishing owes a publication, which suspends what is
\* said of the others' graphs.
LEMMA OwingStep ==
  ASSUME IInv, NEW o \in Op, NEW q, Becomes(o, q), Fitting(o, q), Owing(q), q.pc \notin Snapshot,
         UNCHANGED <<courseRows, version, excuse>>, TypeOK',
         chunks \cup gone \subseteq (chunks \cup gone)',
         \A r \in docRows' : r[1] \in (chunks \cup gone)',
         \A v \in Active : Serves(op[o], v) => Serves(q, v)
  PROVE  IInv'
<1>1. SameVersions /\ op'[o] = q
  BY DEF SameVersions, Becomes
<1>2. RowsKnown' /\ Served' /\ Alone' /\ Unique' /\ Backed' /\ \A p \in Op : Shape(p, op'[p])
  BY <1>1, RowsKnownStep, ServedStep, AloneStep, UniqueStep, BackedStep, ShapeStep
<1>3. Owes(o)' /\ \A p \in Op : p # o => o \in Others(p)
  BY <1>1 DEF Owes, Others
<1>4. Current'
  BY <1>1, <1>3 DEF Current, Snapshot
<1> QED BY <1>2, <1>4 DEF IInv

LEMMA WriteAndCommitStep ==
  ASSUME IInv, NEW o \in Op, WriteAndCommit(o)
  PROVE  IInv'
<1> DEFINE b == Past(o, "next")
           q == [b EXCEPT !.got = {}, !.partial = TRUE]
<1>1. /\ TypeOK /\ op[o] \in OpState /\ Shape(o, op[o]) /\ op[o].pc = "write" /\ op[o].kind = "rebuild"
      /\ op[o].doc \in chunks \cup gone /\ version[o].state = "none"
      /\ UNCHANGED <<chunks, gone, syllabus, courseRows, version, inflight, excuse, restarts>>
      /\ docRows' = (docRows \ Aim(o)) \cup Rows(o) /\ op' = [op EXCEPT ![o] = q]
  BY OpFacts, Standing DEF WriteAndCommit, At
<1>2. b \in OpState /\ Rest(b, op[o]) /\ b.pc = "next" /\ b.blocked = FALSE
  BY <1>1, PastFacts DEF Points
<1>3. \A r \in Rows(o) : r \in Row /\ r[1] = op[o].doc
  <2>1. op[o].doc \in Doc /\ op[o].got \in SUBSET Label
    BY <1>1 DEF OpState, TypeOK
  <2> QED BY <2>1 DEF Rows, Row
<1> HIDE DEF b
<1>4. /\ q \in OpState /\ q.pc = "next" /\ q.blocked = FALSE /\ q.partial = TRUE /\ q.kind = "rebuild"
      /\ q.wipe = op[o].wipe /\ q.ins = op[o].ins /\ q.graph = op[o].graph
      /\ q.cdel = op[o].cdel /\ q.cins = op[o].cins /\ q.upd = op[o].upd
  BY <1>1, <1>2 DEF OpState, Rest
<1> HIDE DEF q
<1>5. Calm(q)
  BY <1>1, <1>4 DEF Calm, Shape, Late
<1>6. Becomes(o, q) /\ Fitting(o, q) /\ Owing(q) /\ q.pc \notin Snapshot
  BY <1>1, <1>4, <1>5, PutFacts, CalmFits DEF Owing, Snapshot, Late
<1>7. docRows' \subseteq Row /\ \A r \in docRows' : r[1] \in (chunks \cup gone)'
  BY <1>1, <1>3 DEF IInv, TypeOK, RowsKnown
<1>8. TypeOK'
  BY <1>1, <1>6, <1>7 DEF TypeOK, Becomes
<1>9. \A v \in Active : Serves(op[o], v) => Serves(q, v)
  BY <1>4 DEF Serves
<1> QED BY <1>1, <1>6, <1>7, <1>8, <1>9, OwingStep

LEMMA DeleteMaterialStep ==
  ASSUME IInv, NEW o \in Op, NEW d \in Doc, DeleteMaterial(o, d)
  PROVE  IInv'
<1> DEFINE q == [[Idle EXCEPT !.pc = "purge"] EXCEPT !.kind = "delete"]
<1>1. q \in OpState /\ Calm(q) /\ q.pc = "purge" /\ q.kind = "delete" /\ ~q.partial
  BY IdleFacts DEF OpState, Calm
<1>2. /\ TypeOK /\ Shape(o, op[o]) /\ version[o].state = "none"
      /\ op' = [op EXCEPT ![o] = q] /\ op[o].pc = "idle" /\ d \in chunks
      /\ chunks' = chunks \ {d} /\ gone' = gone \cup {d}
      /\ UNCHANGED <<syllabus, docRows, courseRows, version, inflight, excuse, restarts>>
  BY OpFacts DEF DeleteMaterial, Begins
<1> HIDE DEF q
<1>3. Becomes(o, q) /\ Fitting(o, q) /\ Owing(q) /\ q.pc \notin Snapshot
  BY <1>1, <1>2, PutFacts, CalmFits DEF Owing, Snapshot, Late
<1>4. chunks \cup gone \subseteq (chunks \cup gone)' /\ \A r \in docRows' : r[1] \in (chunks \cup gone)'
  BY <1>2 DEF IInv, RowsKnown
<1>5. TypeOK'
  BY <1>2, <1>3 DEF TypeOK, Becomes
<1>6. \A v \in Active : ~Serves(op[o], v)
  BY <1>2 DEF Serves
<1> QED BY <1>2, <1>3, <1>4, <1>5, <1>6, OwingStep

LEMMA SetSyllabusStep ==
  ASSUME IInv, NEW o \in Op, NEW s \in SUBSET Doc, SetSyllabus(o, s)
  PROVE  IInv'
<1> DEFINE q == [[Idle EXCEPT !.pc = "purge"] EXCEPT !.kind = "mark"]
<1>1. q \in OpState /\ Calm(q) /\ q.pc = "purge" /\ q.kind = "mark" /\ ~q.partial
  BY IdleFacts DEF OpState, Calm
<1>2. /\ TypeOK /\ Shape(o, op[o]) /\ version[o].state = "none"
      /\ op' = [op EXCEPT ![o] = q] /\ op[o].pc = "idle" /\ syllabus' = s
      /\ UNCHANGED <<chunks, gone, docRows, courseRows, version, inflight, excuse, restarts>>
  BY OpFacts DEF SetSyllabus, Begins
<1> HIDE DEF q
<1>3. Becomes(o, q) /\ Fitting(o, q) /\ Owing(q) /\ q.pc \notin Snapshot
  BY <1>1, <1>2, PutFacts, CalmFits DEF Owing, Snapshot, Late
<1>4. chunks \cup gone \subseteq (chunks \cup gone)' /\ \A r \in docRows' : r[1] \in (chunks \cup gone)'
  BY <1>2 DEF IInv, RowsKnown
<1>5. TypeOK'
  BY <1>2, <1>3 DEF TypeOK, Becomes
<1>6. \A v \in Active : ~Serves(op[o], v)
  BY <1>2 DEF Serves
<1> QED BY <1>2, <1>3, <1>4, <1>5, <1>6, OwingStep

\* A new document has no rows yet.
LEMMA IngestStep ==
  ASSUME IInv, NEW o \in Op, NEW d \in Doc, Ingest(o, d)
  PROVE  IInv'
<1> DEFINE first == IF d \in DataDoc THEN Ended ELSE [Idle EXCEPT !.pc = "read", !.doc = d]
           q == [first EXCEPT !.kind = "ingest"]
<1>1. q \in OpState /\ Calm(q) /\ q.pc \in {"done", "read"} /\ q.kind = "ingest" /\ ~q.partial
  <2>1. first \in OpState /\ Calm(first) /\ first.pc \in {"done", "read"} /\ ~first.partial
    BY IdleFacts DEF OpState, Calm
  <2> HIDE DEF first
  <2> QED BY <2>1 DEF OpState, Calm
<1>2. /\ TypeOK /\ Shape(o, op[o]) /\ version[o].state = "none"
      /\ op' = [op EXCEPT ![o] = q] /\ op[o].pc = "idle" /\ d \notin chunks \cup gone
      /\ chunks' = chunks \cup {d}
      /\ UNCHANGED <<gone, syllabus, docRows, courseRows, version, inflight, excuse, restarts>>
  BY OpFacts DEF Ingest, Begins
<1> HIDE DEF q
<1>3. Becomes(o, q) /\ Fitting(o, q) /\ q.pc \notin Snapshot
  BY <1>1, <1>2, PutFacts, CalmFits DEF Snapshot, Late
<1>4. TypeOK'
  BY <1>2, <1>3 DEF TypeOK, Becomes
<1>5. SameVersions /\ UNCHANGED <<courseRows, excuse>>
  BY <1>2 DEF SameVersions
<1>6. ~Owing(op[o]) /\ \A v \in Active : ~Serves(op[o], v)
  BY <1>2 DEF Shape, Owing, Serves, Snapshot, Late
<1>7. RowsKnown'
  <2>1. \A r \in docRows' : r[1] \in (chunks \cup gone)'
    BY <1>2 DEF IInv, RowsKnown
  <2> QED BY <1>2, <1>3, <2>1, RowsKnownStep
<1>8. Served'
  BY <1>2, <1>3, <1>5, <1>6, ServedStep
<1>9. Current'
  BY <1>2, <1>3, <1>5, <1>6, CurrentStep DEF Snapshot
<1> QED BY <1>3, <1>4, <1>5, <1>7, <1>8, <1>9, AloneStep, UniqueStep, BackedStep, ShapeStep DEF IInv

-----------------------------------------------------------------------------
(***************************************************************************)
(* The commit of a snapshot.                                               *)
(***************************************************************************)
\* What it publishes.
LEMMA PublishedFacts ==
  ASSUME TypeOK, NEW o \in Op, version' = Published(o), version[o].state = "none",
         \A v \in op[o].upd : version[v].state # "none"
  PROVE  /\ version' \in [Op -> [state : {"none", "active", "retired"}, labels : SUBSET Label,
                                 published : SUBSET Label, stale : BOOLEAN]]
         /\ ~op[o].wipe => /\ version'[o].state = "active" /\ version'[o].stale = FALSE
                           /\ version'[o].labels = op[o].graph /\ version'[o].published = op[o].graph
         /\ op[o].wipe => version'[o].state = "none"
         /\ \A v \in Others(o) : IF v \in op[o].upd THEN version'[v].state = "retired"
                                 ELSE version'[v] = version[v]
<1>1. op[o] \in OpState /\ op[o].graph \in SUBSET Label /\ op[o].wipe \in BOOLEAN
  BY DEF TypeOK, OpState
<1>2. op[o].wipe => o \notin op[o].upd
  OBVIOUS
<1>3. \A v \in Op : version'[v] = IF v = o /\ ~op[o].wipe
        THEN [state |-> "active", labels |-> op[o].graph, published |-> op[o].graph, stale |-> FALSE]
        ELSE IF v \in op[o].upd
        THEN [version[v] EXCEPT !.state = "retired", !.labels = {}, !.published = {}, !.stale = FALSE]
        ELSE version[v]
  BY DEF Published
<1>4. DOMAIN version' = Op /\ version' = [v \in Op |-> version'[v]]
  BY DEF Published
<1>5. ASSUME NEW v \in Op
      PROVE  version'[v] \in [state : {"none", "active", "retired"}, labels : SUBSET Label,
                              published : SUBSET Label, stale : BOOLEAN]
  <2>1. version[v] \in [state : {"none", "active", "retired"}, labels : SUBSET Label,
                        published : SUBSET Label, stale : BOOLEAN]
    BY DEF TypeOK
  <2>2. CASE v = o /\ ~op[o].wipe
    <3>1. version'[v] = [state |-> "active", labels |-> op[o].graph, published |-> op[o].graph, stale |-> FALSE]
      BY <1>3, <2>2
    <3> QED BY <1>1, <3>1
  <2>3. CASE ~(v = o /\ ~op[o].wipe) /\ v \in op[o].upd
    <3>1. version'[v] = [version[v] EXCEPT !.state = "retired", !.labels = {}, !.published = {}, !.stale = FALSE]
      BY <1>3, <2>3
    <3> QED BY <2>1, <3>1
  <2>4. CASE ~(v = o /\ ~op[o].wipe) /\ v \notin op[o].upd
    <3>1. version'[v] = version[v]
      BY <1>3, <2>4
    <3> QED BY <2>1, <3>1
  <2> QED BY <2>2, <2>3, <2>4
<1>6. \A v \in Others(o) : IF v \in op[o].upd THEN version'[v].state = "retired" ELSE version'[v] = version[v]
  <2> SUFFICES ASSUME NEW v \in Others(o)
               PROVE  IF v \in op[o].upd THEN version'[v].state = "retired" ELSE version'[v] = version[v]
    OBVIOUS
  <2>1. v \in Op /\ v # o
    BY DEF Others
  <2>2. version[v] \in [state : {"none", "active", "retired"}, labels : SUBSET Label,
                        published : SUBSET Label, stale : BOOLEAN]
    BY <2>1 DEF TypeOK
  <2> QED BY <1>3, <2>1, <2>2
<1>7. ~op[o].wipe => /\ version'[o].state = "active" /\ version'[o].stale = FALSE
                     /\ version'[o].labels = op[o].graph /\ version'[o].published = op[o].graph
  <2> DEFINE new == [state |-> "active", labels |-> op[o].graph, published |-> op[o].graph, stale |-> FALSE]
  <2>1. ~op[o].wipe => version'[o] = new
    BY <1>3
  <2>2. new.state = "active" /\ new.stale = FALSE /\ new.labels = op[o].graph /\ new.published = op[o].graph
    OBVIOUS
  <2> HIDE DEF new
  <2> QED BY <2>1, <2>2
<1>8. op[o].wipe => version'[o].state = "none"
  BY <1>2, <1>3
<1> QED BY <1>4, <1>5, <1>6, <1>7, <1>8

LEMMA CommitStep ==
  ASSUME IInv, NEW o \in Op, CommitSnapshot(o)
  PROVE  IInv'
<1> DEFINE leaving == [Idle EXCEPT !.kind = "rebuild", !.pc = "leave"]
           q == IF op[o].kind = "rebuild" THEN leaving ELSE Ended
<1>1. /\ TypeOK /\ op[o] \in OpState /\ Shape(o, op[o]) /\ op[o].pc = "commit" /\ version[o].state = "none"
      /\ UNCHANGED <<chunks, gone, syllabus, inflight, restarts>>
      /\ docRows' = (docRows \ op[o].del) \cup op[o].ins
      /\ courseRows' = (courseRows \ op[o].cdel) \cup op[o].cins
      /\ version' = Published(o)
      /\ excuse' = IF op[o].overlapped THEN excuse \cup {"overlap"} ELSE {}
      /\ op' = [op EXCEPT ![o] = q]
  BY OpFacts DEF CommitSnapshot
<1>2. q \in OpState /\ Calm(q) /\ q.pc \in {"leave", "done"} /\ ~q.partial
      /\ (q.pc = "leave" => q.kind = "rebuild") /\ q.kind \notin {"delete", "mark"}
  BY IdleFacts DEF OpState, Calm
<1> HIDE DEF q
<1>3. Becomes(o, q) /\ Fitting(o, q) /\ q.pc \notin Snapshot
  BY <1>1, <1>2, PutFacts, CalmFits DEF Snapshot, Late
<1>4. op'[o] = q /\ \A p \in Op : p # o => op'[p] = op[p]
  BY <1>1 DEF TypeOK
<1>5. /\ version' \in [Op -> [state : {"none", "active", "retired"}, labels : SUBSET Label,
                              published : SUBSET Label, stale : BOOLEAN]]
      /\ ~op[o].wipe => /\ version'[o].state = "active" /\ version'[o].stale = FALSE
                        /\ version'[o].labels = op[o].graph /\ version'[o].published = op[o].graph
      /\ op[o].wipe => version'[o].state = "none"
      /\ \A v \in Others(o) : IF v \in op[o].upd THEN version'[v].state = "retired"
                              ELSE version'[v] = version[v]
  BY <1>1, Standing, PublishedFacts DEF Retiring
<1>6. \A v \in Op : version[v].state # "none" => v # o /\ version'[v].state # "none"
  BY <1>1, <1>5 DEF Others
<1>7. \A v \in Active' : v # o => v \in Active /\ v \notin op[o].upd /\ version'[v] = version[v]
  BY <1>5 DEF Active, Others
<1>8. ~op[o].overlapped => Active' = IF op[o].wipe THEN {} ELSE {o}
  <2>1. ~op[o].overlapped => \A v \in Active' : v = o
    BY <1>1, <1>7, Standing
  <2>2. o \in Active' <=> ~op[o].wipe
    BY <1>5 DEF Active
  <2> QED BY <2>1, <2>2
<1>9. \A p \in Op : op'[p].pc \in Snapshot => p # o /\ op[p].overlapped
  <2> SUFFICES ASSUME NEW p \in Op, op'[p].pc \in Snapshot
               PROVE  p # o /\ op[p].overlapped
    OBVIOUS
  <2>1. p # o /\ op[p].pc \in Snapshot
    BY <1>3, <1>4
  <2> QED BY <1>1, <2>1, Standing DEF InSnapshot, Others
<1>10. op[o].cins = op[o].graph \X {o} /\ (op[o].wipe => op[o].graph = {}) /\ op[o].wipe \in BOOLEAN
  BY <1>1 DEF Shape, OpState
<1>11. TypeOK'
  <2>1. docRows' \subseteq Row /\ courseRows' \subseteq CourseRow
    BY <1>1 DEF TypeOK, OpState
  <2>2. excuse' \subseteq {"overlap", "partial", "restart", "curated", "lost"}
    BY <1>1 DEF TypeOK
  <2> QED BY <1>1, <1>3, <1>5, <2>1, <2>2 DEF TypeOK, Becomes
<1>12. RowsKnown'
  <2>1. \A r \in docRows' : r[1] \in (chunks \cup gone)'
    BY <1>1, Standing DEF IInv, RowsKnown
  <2> QED BY <1>1, <1>3, <2>1, RowsKnownStep
<1>13. Alone'
  BY <1>4, <1>9 DEF Alone, InSnapshot, Snapshot, Late
<1>14. Unique'
  <2>1. \A a, b \in courseRows' : a[1] = b[1] => a = b
    BY <1>1, <1>10, Standing DEF IInv, Unique
  <2>4. \A a, b \in courseRows' : a[2] = b[2] /\ Fold[a[1]] = Fold[b[1]] => a = b
    <3>1. \A a, b \in courseRows : a[2] = b[2] /\ Fold[a[1]] = Fold[b[1]] => a = b
      BY DEF IInv, Unique
    <3>2. \A a \in courseRows, b \in op[o].cins : a[2] # b[2]
      BY <1>1, <1>10 DEF IInv, Backed
    <3>3. \A a, b \in op[o].cins : Fold[a[1]] = Fold[b[1]] => a = b
      BY <1>1, <1>10 DEF Shape, OneSpelling
    <3> QED BY <1>1, <3>1, <3>2, <3>3
  <2>2. \A p \in Op : \A c \in op'[p].cins, r \in courseRows' \ op'[p].cdel : c[1] # r[1]
    <3>1. q.cins = {}
      BY <1>2 DEF Calm
    <3> QED BY <1>1, <1>4, <3>1 DEF IInv, Unique
  <2>3. \A p, r \in Op : p # r => \A c \in op'[p].cins, d \in op'[r].cins : c[1] # d[1]
    <3>1. q.cins = {}
      BY <1>2 DEF Calm
    <3> QED BY <1>4, <3>1 DEF IInv, Unique
  <2> QED BY <2>1, <2>2, <2>3, <2>4 DEF Unique
<1>15. Backed'
  <2>1. \A p \in Op : version'[p].state # "none" => op'[p].pc \in {"leave", "done"}
    <3>1. \A p \in Op : p # o /\ version'[p].state # "none" => version[p].state # "none"
      BY <1>5, Standing DEF Others, Retiring
    <3> QED BY <1>2, <1>4, <3>1 DEF IInv, Backed
  <2>2. \A c \in courseRows' : version'[c[2]].state # "none"
    <3> SUFFICES ASSUME NEW c \in courseRows'
                 PROVE  version'[c[2]].state # "none"
      OBVIOUS
    <3>1. CASE c \in courseRows
      <4>1. c[2] \in Op /\ version[c[2]].state # "none"
        BY <1>1, <3>1 DEF IInv, Backed, TypeOK, CourseRow
      <4> QED BY <1>6, <4>1
    <3>2. CASE c \in op[o].cins
      <4>1. c[2] = o /\ op[o].graph # {}
        BY <1>10, <3>2
      <4> QED BY <1>5, <1>10, <4>1
    <3> QED BY <1>1, <3>1, <3>2
  <2>3. \A v \in Active' : \A l \in version'[v].published : <<l, v>> \in courseRows'
    <3> SUFFICES ASSUME NEW v \in Active', NEW l \in version'[v].published
                 PROVE  <<l, v>> \in courseRows'
      OBVIOUS
    <3>1. CASE v = o
      <4>1. ~op[o].wipe
        BY <1>5, <3>1 DEF Active
      <4>2. l \in op[o].graph
        BY <1>5, <3>1, <4>1
      <4> QED BY <1>1, <1>10, <3>1, <4>2
    <3>2. CASE v # o
      <4>1. v \in Active /\ v \notin op[o].upd /\ l \in version[v].published
        BY <1>7, <3>2
      <4>2. <<l, v>> \in courseRows
        BY <4>1 DEF IInv, Backed
      <4>3. <<l, v>> \notin op[o].cdel
        <5> SUFFICES ASSUME <<l, v>> \in op[o].cdel
                     PROVE  FALSE
          OBVIOUS
        <5>1. <<l, v>>[2] \in op[o].upd
          BY <1>1, Standing
        <5> QED BY <4>1, <5>1
      <4> QED BY <1>1, <4>2, <4>3
    <3> QED BY <3>1, <3>2
  <2>4. ASSUME NEW p \in Op
        PROVE  /\ \A c \in op'[p].cdel :
                    /\ version'[c[2]].state # "none"
                    /\ op'[p].pc = "retire" /\ op'[p].blocked => c[2] \in op'[p].seen
                    /\ op'[p].pc = "commit" => c[2] \in op'[p].upd
               /\ \A v \in Retiring(op'[p]) : v \in Op /\ version'[v].state # "none"
    <3>1. CASE p = o
      <4>1. q.cdel = {} /\ Retiring(q) = {}
        BY <1>2 DEF Calm, Retiring
      <4> QED BY <1>4, <3>1, <4>1
    <3>2. CASE p # o
      <4>1. op'[p] = op[p]
        BY <1>4, <3>2
      <4> QED BY <1>6, <4>1, Standing
    <3> QED BY <3>1, <3>2
  <2> QED BY <2>1, <2>2, <2>3, <2>4 DEF Backed
<1>16. Served'
  <2> SUFFICES ASSUME (excuse \cap {"restart", "lost"})' = {}, NEW v \in Active', version'[v].stale
               PROVE  \E p \in Op : Serves(op'[p], v)
    BY DEF Served
  <2>1. v # o
    BY <1>5 DEF Active
  <2>2. op[o].overlapped /\ excuse \subseteq excuse'
    BY <1>1, <1>8, <2>1
  <2>3. PICK p \in Op : Serves(op[p], v)
    BY <1>7, <2>1, <2>2 DEF IInv, Served
  <2>4. p # o
    BY <1>1, <1>7, <2>1, <2>3 DEF Serves
  <2> QED BY <1>4, <2>3, <2>4
<1>17. Current'
  <2>1. ASSUME excuse' = {}, \A p \in Op : ~Owes(p)'
        PROVE  /\ \A p \in Active' : Merges(version'[p].labels, Documents') /\ Active' = {p}
               /\ Active' = {} => Documents' = {}
    <3>1. ~op[o].overlapped
      BY <1>1, <2>1
    <3>2. \A p \in Others(o) : ~Owes(p)
      BY <1>4, <2>1 DEF Owes, Others
    <3>3. Merges(op[o].graph, Merged(Seen(op[o])))
      BY <1>1, <3>1, <3>2, Standing DEF Faithful, Late
    <3>4. Documents' = Merged(Seen(op[o]))
      BY <1>1 DEF Documents, Merged, Seen
    <3>5. op[o].wipe => Documents' = {}
      BY <1>10, <3>3, <3>4 DEF Merges
    <3>6. ~op[o].wipe => Merges(version'[o].labels, Documents')
      BY <1>5, <3>3, <3>4
    <3> QED BY <1>8, <1>10, <3>1, <3>5, <3>6
  <2>2. \A p \in Op : ~op'[p].overlapped => op'[p].pc # "merge" /\ op'[p].pc \notin Late
    <3>1. \A p \in Op : op'[p].pc \in Snapshot => op'[p].overlapped
      BY <1>4, <1>9
    <3> QED BY <3>1 DEF Snapshot
  <2> QED BY <2>1, <2>2 DEF Current
<1> QED BY <1>3, <1>11, <1>12, <1>13, <1>14, <1>15, <1>16, <1>17, ShapeStep DEF IInv

-----------------------------------------------------------------------------
(***************************************************************************)
(* The ends of the processes.                                              *)
(***************************************************************************)
\* Every operation goes on as it was, marked at the most, or is over.
LEMMA SurvivorsStep ==
  ASSUME IInv, op' \in [Op -> OpState], UNCHANGED tables, SameVersions,
         \A p \in Op : Like(op'[p], op[p]) \/ (Calm(op'[p]) /\ op'[p].pc = "done" /\ op'[p].kind = "none" /\ ~op'[p].partial)
  PROVE  RowsKnown' /\ Alone' /\ Unique' /\ Backed' /\ \A p \in Op : Shape(p, op'[p])
<1> DEFINE Over(p) == Calm(op'[p]) /\ op'[p].pc = "done" /\ op'[p].kind = "none" /\ ~op'[p].partial
<1>1. UNCHANGED <<chunks, gone, docRows, courseRows>> /\ Active' = Active
  BY DEF tables, SameVersions, Active
<1>2. \A p \in Op : Shape(p, op'[p])
  <2> SUFFICES ASSUME NEW p \in Op
               PROVE  Shape(p, op'[p])
    OBVIOUS
  <2>1. CASE Like(op'[p], op[p])
    BY <2>1, OpFacts, LikeShape
  <2>2. CASE Over(p)
    BY <2>2 DEF Calm, Shape, Late, OneSpelling
  <2> QED BY <2>1, <2>2
<1>3. RowsKnown'
  BY <1>1 DEF IInv, RowsKnown, Like, Calm
<1>4. Alone'
  <2>1. \A p \in Op : /\ InSnapshot(p)' => InSnapshot(p) /\ Like(op'[p], op[p])
    BY DEF InSnapshot, Like
  <2> QED BY <1>1, <2>1 DEF IInv, Alone, Others, Like
<1>5. Unique'
  <2>1. \A p \in Op : op'[p].cins = {} \/ (op'[p].cins = op[p].cins /\ op'[p].cdel = op[p].cdel)
    BY DEF Like, Calm
  <2> QED BY <1>1, <2>1 DEF IInv, Unique
<1>6. Backed'
  <2>1. \A v \in Op : version'[v].state = version[v].state /\ version'[v].published = version[v].published
    BY DEF SameVersions
  <2>2. ASSUME NEW p \in Op
        PROVE  /\ version'[p].state # "none" => op'[p].pc \in {"leave", "done"}
               /\ \A c \in op'[p].cdel :
                    /\ version'[c[2]].state # "none"
                    /\ op'[p].pc = "retire" /\ op'[p].blocked => c[2] \in op'[p].seen
                    /\ op'[p].pc = "commit" => c[2] \in op'[p].upd
               /\ \A v \in Retiring(op'[p]) : v \in Op /\ version'[v].state # "none"
    <3>1. CASE Like(op'[p], op[p])
      <4>1. Retiring(op'[p]) = Retiring(op[p])
        BY <3>1 DEF Like, Retiring
      <4> QED BY <2>1, <3>1, <4>1, OpFacts, Standing DEF Like
    <3>2. CASE Over(p)
      BY <3>2 DEF Calm, Retiring
    <3> QED BY <3>1, <3>2
  <2>3. \A c \in courseRows : c[2] \in Op
    BY DEF IInv, TypeOK, CourseRow
  <2> QED BY <1>1, <2>1, <2>2, <2>3 DEF IInv, Backed, Active
<1> QED BY <1>2, <1>3, <1>4, <1>5, <1>6

LEMMA RestartStep ==
  ASSUME IInv, NEW graceful \in BOOLEAN, Restart(graceful)
  PROVE  IInv'
<1> DEFINE next == [p \in Op |-> IF op[p].pc = "idle" \/ op[p].kind = "ingest" THEN op[p] ELSE Ended]
<1>1. /\ TypeOK /\ UNCHANGED tables /\ restarts' = restarts + 1 /\ restarts < MaxRestarts /\ inflight' = FALSE
      /\ excuse' = excuse \cup {"restart"} /\ op' = Spoiled(next)
      /\ version' = version \/ Flagged(Active, FALSE)
  <2>1. version' = version \/ Flagged(Active, FALSE)
    BY DEF Restart, Flagged
  <2>2. op' = Spoiled(next)
    BY DEF Restart
  <2> QED BY <2>1, <2>2 DEF Restart, IInv
<1>2. /\ SameVersions
      /\ version' \in [Op -> [state : {"none", "active", "retired"}, labels : SUBSET Label,
                              published : SUBSET Label, stale : BOOLEAN]]
  <2>1. CASE version' = version
    BY <1>1, <2>1 DEF TypeOK, SameVersions
  <2>2. CASE Flagged(Active, FALSE)
    BY <1>1, <2>2, FlaggedFacts
  <2> QED BY <1>1, <2>1, <2>2
<1>3. ASSUME NEW p \in Op
      PROVE  /\ op'[p] \in OpState
             /\ InSnapshot(p) => op'[p].overlapped
             /\ \/ Like(op'[p], op[p])
                \/ Calm(op'[p]) /\ op'[p].pc = "done" /\ op'[p].kind = "none" /\ ~op'[p].partial
  <2>1. op'[p] = IF InSnapshot(p) THEN [next[p] EXCEPT !.overlapped = TRUE] ELSE next[p]
    BY <1>1 DEF Spoiled
  <2>2. next[p] = op[p] \/ next[p] = Ended
    OBVIOUS
  <2>3. op[p] \in OpState
    BY <1>1 DEF TypeOK
  <2>4. CASE next[p] = op[p]
    <3> HIDE DEF next
    <3> DEFINE marked == [op[p] EXCEPT !.overlapped = TRUE]
    <3>1. marked \in OpState /\ Like(marked, op[p]) /\ marked.overlapped
      BY <2>3 DEF OpState, Like
    <3>2. Like(op[p], op[p])
      BY DEF Like
    <3>3. op'[p] = IF InSnapshot(p) THEN marked ELSE op[p]
      BY <2>1, <2>4
    <3> HIDE DEF marked
    <3> QED BY <2>3, <3>1, <3>2, <3>3
  <2>5. CASE next[p] = Ended
    <3> HIDE DEF next
    <3>1. LET y == [Ended EXCEPT !.overlapped = TRUE]
          IN y \in OpState /\ Calm(y) /\ y.pc = "done" /\ y.kind = "none" /\ ~y.partial /\ y.overlapped
      BY IdleFacts DEF OpState, Calm
    <3> QED BY <2>1, <2>5, <3>1, IdleFacts
  <2> QED BY <2>2, <2>4, <2>5
<1>4. op' \in [Op -> OpState]
  BY <1>1, <1>3 DEF Spoiled
<1>5. TypeOK'
  <2>1. restarts' \in 0..MaxRestarts
    BY <1>1, GraphAssumption DEF TypeOK
  <2> QED BY <1>1, <1>2, <1>4, <2>1 DEF TypeOK, tables
<1>6. RowsKnown' /\ Alone' /\ Unique' /\ Backed' /\ \A p \in Op : Shape(p, op'[p])
  BY <1>1, <1>2, <1>3, <1>4, SurvivorsStep
<1>7. Served'
  BY <1>1 DEF Served
<1>8. Current'
  <2>1. \A p \in Op : ~op'[p].overlapped => op'[p].pc # "merge" /\ op'[p].pc \notin Late
    <3>1. \A p \in Op : op'[p].pc \in Snapshot => op[p].pc \in Snapshot
      BY <1>3 DEF Like, Snapshot, Late
    <3> QED BY <1>3, <3>1, OpFacts DEF Snapshot
  <2> QED BY <1>1, <2>1 DEF Current
<1> QED BY <1>5, <1>6, <1>7, <1>8 DEF IInv

LEMMA WorkerDiesStep ==
  ASSUME IInv, WorkerDies
  PROVE  IInv'
<1>1. /\ TypeOK /\ UNCHANGED <<tables, version, inflight, excuse>> /\ restarts' = restarts + 1 /\ restarts < MaxRestarts
      /\ op' = [p \in Op |-> IF op[p].kind = "ingest" THEN Ended ELSE op[p]]
  BY DEF WorkerDies, IInv
<1>2. /\ op' \in [Op -> OpState]
      /\ \A p \in Op : op'[p] = IF op[p].kind = "ingest" THEN Ended ELSE op[p]
  BY <1>1, IdleFacts DEF TypeOK
<1>3. SameVersions
  BY <1>1 DEF SameVersions
<1>4. \A p \in Op : \/ Like(op'[p], op[p])
                    \/ Calm(op'[p]) /\ op'[p].pc = "done" /\ op'[p].kind = "none" /\ ~op'[p].partial
  BY <1>2, IdleFacts DEF Like
<1>5. TypeOK'
  <2>1. restarts' \in 0..MaxRestarts
    BY <1>1, GraphAssumption DEF TypeOK
  <2> QED BY <1>1, <1>2, <2>1 DEF TypeOK, tables
<1>6. RowsKnown' /\ Alone' /\ Unique' /\ Backed' /\ \A p \in Op : Shape(p, op'[p])
  BY <1>1, <1>2, <1>3, <1>4, SurvivorsStep
<1>7. Served'
  <2>1. Active' = Active
    BY <1>1 DEF Active
  <2>2. \A p \in Op, v \in Active : Serves(op[p], v) => op'[p] = op[p]
    BY <1>2 DEF Serves
  <2> QED BY <1>1, <2>1, <2>2 DEF IInv, Served
<1>8. Current'
  <2>1. \A p \in Op : Owes(p)' <=> Owes(p)
    <3> SUFFICES ASSUME NEW p \in Op, op[p].kind = "ingest"
                 PROVE  ~Owing(op[p]) /\ ~Owing(op'[p])
      BY <1>2 DEF Owes
    <3> QED BY <1>2, IdleFacts, OpFacts DEF Shape, Owing
  <2>2. ASSUME NEW p \in Op, ~op'[p].overlapped, \A r \in Others(p) : ~Owes(r)'
        PROVE  /\ op'[p].pc = "merge" => op'[p].excl = syllabus' /\ \A r \in View(p)' : r[1] \in chunks'
               /\ op'[p].pc \in Late => Merges(op'[p].graph, Coming(p)')
    <3>1. CASE op[p].kind = "ingest"
      BY <1>2, <3>1, IdleFacts DEF Late
    <3>2. CASE op[p].kind # "ingest"
      <4>1. op'[p] = op[p] /\ \A r \in Others(p) : ~Owes(r)
        BY <1>2, <2>1, <2>2, <3>2 DEF Others
      <4>2. View(p)' = View(p) /\ Coming(p)' = Coming(p) /\ UNCHANGED <<chunks, syllabus>>
        BY <1>1, <4>1 DEF View, Coming, tables
      <4> QED BY <2>2, <4>1, <4>2 DEF IInv, Current
    <3> QED BY <3>1, <3>2
  <2>3. Active' = Active /\ Documents' = Documents /\ version' = version
    BY <1>1 DEF Active, Documents, tables
  <2>4. excuse' = {} /\ (\A p \in Op : ~Owes(p)') =>
          /\ \A p \in Active' : Merges(version'[p].labels, Documents') /\ Active' = {p}
          /\ Active' = {} => Documents' = {}
    BY <1>1, <2>1, <2>3 DEF IInv, Current
  <2> QED BY <2>2, <2>4 DEF Current
<1> QED BY <1>5, <1>6, <1>7, <1>8 DEF IInv

-----------------------------------------------------------------------------
(***************************************************************************)
(* Every behaviour.                                                        *)
(***************************************************************************)
LEMMA InitIInv == Init => IInv
<1> SUFFICES ASSUME Init
             PROVE  IInv
  OBVIOUS
<1>1. /\ \A o \in Op : op[o] = Idle /\ version[o] = Unpublished
      /\ op = [o \in Op |-> Idle] /\ version = [o \in Op |-> Unpublished]
  BY DEF Init
<1>2. /\ \A o \in Op : Calm(op[o]) /\ op[o].pc = "idle" /\ op[o].kind = "none" /\ ~op[o].partial /\ ~op[o].blocked
  BY <1>1, IdleFacts DEF Calm
<1>3. /\ Unpublished \in [state : {"none", "active", "retired"}, labels : SUBSET Label,
                          published : SUBSET Label, stale : BOOLEAN]
      /\ Unpublished.state = "none"
  BY DEF Unpublished
<1>4. TypeOK
  <2>1. /\ version \in [Op -> [state : {"none", "active", "retired"}, labels : SUBSET Label,
                               published : SUBSET Label, stale : BOOLEAN]]
        /\ op \in [Op -> OpState] /\ restarts \in 0..MaxRestarts
    <3>1. Idle \in OpState /\ 0 \in 0..MaxRestarts
      BY IdleFacts, GraphAssumption
    <3> HIDE DEF Idle, Unpublished
    <3> QED BY <1>1, <1>3, <3>1 DEF Init
  <2> QED BY <2>1 DEF Init, TypeOK
<1>5. \A o \in Op : Shape(o, op[o])
  BY <1>2 DEF Calm, Shape, Late, OneSpelling
<1>6. Active = {} /\ Documents = {} /\ courseRows = {} /\ docRows = {}
  BY <1>1, <1>3 DEF Init, Active, Documents
<1>7. RowsKnown /\ Alone /\ Unique
  BY <1>2, <1>6 DEF RowsKnown, Alone, Unique, InSnapshot, Calm
<1>8. Backed
  <2>1. \A o \in Op : Retiring(op[o]) = {}
    BY <1>2 DEF Retiring, Calm
  <2> QED BY <1>1, <1>2, <1>3, <1>6, <2>1 DEF Backed, Calm
<1>9. Served /\ Current
  BY <1>2, <1>6 DEF Served, Current, Late
<1> QED BY <1>4, <1>5, <1>7, <1>8, <1>9 DEF IInv

LEMMA RequestStep ==
  ASSUME IInv, NEW o \in Op, Request(o)
  PROVE  IInv'
<1>1. CASE \E d \in Doc : Ingest(o, d) \/ BuildMaterial(o, d) \/ DeleteMaterial(o, d)
  BY <1>1, IngestStep, BuildMaterialStep, DeleteMaterialStep
<1>2. CASE \E s \in {{}} \cup {{d} : d \in Doc} : SetSyllabus(o, s)
  <2>1. PICK s \in {{}} \cup {{d} : d \in Doc} : SetSyllabus(o, s)
    BY <1>2
  <2>2. s \in SUBSET Doc
    OBVIOUS
  <2> QED BY <2>1, <2>2, SetSyllabusStep
<1>3. CASE \E kept \in SUBSET Label \ {{}} : CurateRead(o, kept)
  BY <1>3, CurateReadStep
<1>4. CASE RebuildGraph(o)
  BY <1>4, RebuildGraphStep
<1> QED BY <1>1, <1>2, <1>3, <1>4 DEF Request

LEMMA NextIInv ==
  ASSUME IInv, [Next]_vars
  PROVE  IInv'
<1>1. CASE UNCHANGED vars
  <2>1. /\ UNCHANGED <<chunks, gone, syllabus, docRows, courseRows, version, inflight, op, excuse, restarts>>
    BY <1>1 DEF vars
  <2>2. TypeOK' /\ RowsKnown' /\ Unique' /\ Backed' /\ \A o \in Op : Shape(o, op'[o])
    BY <2>1 DEF IInv, TypeOK, RowsKnown, Unique, Backed, Active
  <2>3. Alone'
    BY <2>1 DEF IInv, Alone, InSnapshot, Active
  <2>4. Served'
    BY <2>1 DEF IInv, Served, Active
  <2>5. Current'
    <3>1. Active' = Active /\ Documents' = Documents /\ \A o \in Op : /\ View(o)' = View(o) /\ Coming(o)' = Coming(o)
                                                                      /\ Owes(o)' <=> Owes(o)
      BY <2>1 DEF Active, Documents, View, Coming, Owes
    <3> QED BY <2>1, <3>1 DEF IInv, Current, Others
  <2> QED BY <2>2, <2>3, <2>4, <2>5 DEF IInv
<1>2. ASSUME NEW o \in Op, Step(o)
      PROVE  IInv'
  <2>1. CASE Read(o)
    BY <2>1, ReadStep, ReadEndsStep
  <2>2. CASE Block(o) \/ (\E labels \in Contents : Extract(o, labels)) \/ WriteConcepts(o) \/ WriteAndCommit(o)
    BY <2>2, BlockStep, ExtractStep, WriteConceptsStep, WriteAndCommitStep
  <2>3. CASE MarkStale(o) \/ EnterRebuild(o) \/ ConnectFails(o) \/ ListDocuments(o) \/ NextDocument(o)
    BY <2>3, MarkStaleStep, EnterRebuildStep, ConnectFailsStep, ListDocumentsStep, NextDocumentStep
  <2>4. CASE ClearStale(o) \/ ClearFails(o) \/ LeaveRebuild(o)
    BY <2>4, ClearStaleStep, ClearFailsStep, LeaveRebuildStep
  <2>5. CASE Purge(o) \/ MergeDocuments(o) \/ ClearCourse(o) \/ InsertCourse(o) \/ Retire(o)
    BY <2>5, PurgeStep, MergeStep, ClearStep, InsertStep, RetireStep
  <2>6. CASE CommitSnapshot(o) \/ Curate(o)
    BY <2>6, CommitStep, CurateStep
  <2>7. CASE ExtractFails(o) \/ InsertClashes(o) \/ Deadlocks(o)
    BY <2>7, FailuresStep
  <2> QED BY <1>2, <2>1, <2>2, <2>3, <2>4, <2>5, <2>6, <2>7 DEF Step
<1>3. CASE \E graceful \in BOOLEAN : Restart(graceful)
  BY <1>3, RestartStep
<1>4. CASE WorkerDies
  BY <1>4, WorkerDiesStep
<1>5. CASE \E o \in Op : Request(o)
  BY <1>5, RequestStep
<1> QED BY <1>1, <1>2, <1>3, <1>4, <1>5 DEF Next

\* The inductive invariant holds in every state the course's graph can reach.
THEOREM Invariance == Spec => []IInv
<1>1. Init => IInv
  BY InitIInv
<1>2. IInv /\ [Next]_vars => IInv'
  BY NextIInv
<1> QED BY <1>1, <1>2, PTL DEF Spec

\* Whatever the requests, the rebuild threads, the worker and the restarts do to the
\* graph of a course, every table, version and operation keeps its type.
THEOREM TypesCorrect == Spec => []TypeOK
<1>1. IInv => TypeOK
  BY DEF IInv
<1> QED BY <1>1, Invariance, PTL

\* However many snapshots of app/concept_graph.py overlap, two active versions never have a
\* label in common, as it is spelled, and the course's rows have every label once: the
\* unique key lets the later of two snapshots in only if it has deleted, and so will
\* retire, the other's.  Within one snapshot's rows, a concept has one spelling.
THEOREM VersionsAreDisjoint == Spec => []ActiveVersionsDisjoint
<1>1. IInv => ActiveVersionsDisjoint
  <2> SUFFICES ASSUME IInv
               PROVE  ActiveVersionsDisjoint
    OBVIOUS
  <2>1. /\ \A a, b \in courseRows : a[1] = b[1] => a = b
        /\ \A a, b \in courseRows : a[2] = b[2] /\ Fold[a[1]] = Fold[b[1]] => a = b
    BY DEF IInv, Unique
  <2>2. ASSUME NEW o \in Active, NEW p \in Active, NEW l \in version[o].published, l \in version[p].published
        PROVE  o = p
    <3>1. <<l, o>> \in courseRows /\ <<l, p>> \in courseRows
      BY <2>2 DEF IInv, Backed
    <3>2. <<l, o>> = <<l, p>>
      BY <2>1, <3>1
    <3> QED BY <3>2
  <2> QED BY <2>1, <2>2 DEF ActiveVersionsDisjoint
<1> QED BY <1>1, Invariance, PTL

\* A graph shown as stale has a rebuild that will publish another or clear the flag: of all the
\* ways out of _rebuild_course_graph_bg and the deletion's recompute, only the end of the
\* process, a refused connection, and an UPDATE that fails after a failure and is passed
\* over leave the flag behind.
THEOREM StaleGraphIsServed == Spec => []StaleIsServed
<1>1. IInv => StaleIsServed
  <2> SUFFICES ASSUME IInv, NEW v \in Active, version[v].stale, excuse \cap {"restart", "lost"} = {}
               PROVE  \E o \in Op : op[o].kind = "rebuild" /\ op[o].pc \notin {"idle", "stale", "leave", "done"}
    BY DEF StaleIsServed
  <2> QED BY DEF IInv, Served, Serves
<1> QED BY <1>1, Invariance, PTL

\* With nothing under way, and nothing that could part them since the last undisturbed snapshot,
\* the one active version shows exactly the concepts of the course's documents, each in one of
\* their spellings, whatever was ingested, deleted, built, failed and marked as syllabus before.
THEOREM GraphIsCurrent == Spec => []CurrentUnlessDisturbed
<1>1. IInv => CurrentUnlessDisturbed
  <2> SUFFICES ASSUME IInv, Quiet, excuse = {}
               PROVE  /\ \A o \in Active : Merges(version[o].labels, Documents) /\ Active = {o}
                      /\ Active = {} => Documents = {}
    BY DEF CurrentUnlessDisturbed
  <2>1. \A o \in Op : ~Owes(o)
    BY OpFacts DEF Quiet, Owes, Owing, Shape, Snapshot, Late
  <2> QED BY <2>1 DEF IInv, Current
<1> QED BY <1>1, Invariance, PTL
=============================================================================
