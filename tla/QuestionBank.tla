---------------------------- MODULE QuestionBank ----------------------------
(***************************************************************************)
(* From document concepts to exam questions, without the database: the     *)
(* merge of app/concept_graph.py, the curation of app/graph_curation.py,   *)
(* the node ids and layers of graph/layout.py, the banks of                *)
(* app/exam_questions.py and the assembly of questions/exam_builder.py.    *)
(*                                                                         *)
(* A label is known by its lower-cased form.  Its id drops everything but  *)
(* letters and digits, so two labels may share one ("C" and "C++").        *)
(***************************************************************************)
EXTENDS Integers, Sequences, FiniteSetsExt, SequencesExt

CONSTANTS
  Slug(_),     \* the id slug() gives a label
  Tier,        \* DEPTH_TIERS
  Drawn        \* the tiers of the chosen difficulty, in order

ASSUME DrawnAssumption == Drawn \in Seq(Tier)

PerTier == 3

-----------------------------------------------------------------------------
(* concept_graph.py.  A row is [doc, label, text, bank]: whether it has a  *)
(* definition, and per tier a sequence of questions.                       *)

Distinct(s) == FoldLeft(LAMBDA out, x : IF x \in ToSet(out) THEN out ELSE Append(out, x), <<>>, s)
Joined(seqs) == FoldLeft(\o, <<>>, seqs)
AtMost(n, s) == SubSeq(s, 1, IF Len(s) < n THEN Len(s) ELSE n)

SanitizeBank(b) == [t \in Tier |-> AtMost(PerTier, b[t])]

MergeBanks(a, b) == [t \in Tier |-> AtMost(PerTier, Distinct(SanitizeBank(a)[t] \o SanitizeBank(b)[t]))]

Rows(rows, label) ==
  FoldLeft(LAMBDA own, r : IF r.label = label THEN Append(own, r) ELSE own, <<>>, rows)

MergeConcept(rows, label) ==
  LET own == Rows(rows, label)
  IN [id |-> Slug(label), label |-> label,
      text |-> \E r \in ToSet(own) : r.text,
      bank |-> FoldLeft(LAMBDA b, r : MergeBanks(b, r.bank), SanitizeBank(own[1].bank), Tail(own)),
      sources |-> {r.doc : r \in ToSet(own)}]

\* edges are <<source, target, type>>
MergeDocumentConcepts(rows, edges) ==
  LET labels == Distinct([k \in DOMAIN rows |-> rows[k].label])
      Kept(e) == {e[1], e[2]} \subseteq ToSet(labels) /\ e[1] # e[2]
  IN [concepts |-> [k \in DOMAIN labels |-> MergeConcept(rows, labels[k])],
      relations |-> Distinct(SelectSeq(edges, Kept))]

-----------------------------------------------------------------------------
(* apply_curation.  An entry of the kept list is [id, label].              *)

\* by id (the last concept with it), else by label (the first), else a stub
Existing(concepts, entry) ==
  LET byId == {k \in DOMAIN concepts : concepts[k].id = entry.id}
      byLabel == {k \in DOMAIN concepts : concepts[k].label = entry.label}
  IN IF byId # {} THEN concepts[Max(byId)]
     ELSE IF byLabel # {} THEN concepts[Min(byLabel)]
     ELSE [id |-> Slug(entry.label), label |-> entry.label, text |-> FALSE,
           bank |-> [t \in Tier |-> <<>>], sources |-> {}]

\* an id that is taken gets a number: <<id, n>> reads "id-n"
FreshId(used, id) ==
  IF id \notin used THEN id ELSE Append(id, Min({n \in 2..Cardinality(used) + 2 : Append(id, n) \notin used}))

CurateConcepts(concepts, kept) ==
  FoldLeft(LAMBDA out, entry :
             LET c == Existing(concepts, entry)
             IN Append(out, [c EXCEPT !.id = FreshId({o.id : o \in ToSet(out)}, c.id)]), <<>>, kept)

CurateRelations(relations, kept) ==
  LET labels == {e.label : e \in ToSet(kept)}
  IN SelectSeq(relations, LAMBDA r : {r[1], r[2]} \subseteq labels)

-----------------------------------------------------------------------------
(* compute_layout.                                                         *)

\* build_node_ids: the node of each label, in order
NodeIds(labels) ==
  FoldLeft(LAMBDA ids, l : Append(ids, FreshId(ToSet(ids), Slug(l))), <<>>, labels)

\* one pass of _depths over the pairs
Relax(depth, pairs) ==
  FoldLeft(LAMBDA d, p : IF d[p[2]] < d[p[1]] + 1 THEN [d EXCEPT ![p[2]] = d[p[1]] + 1] ELSE d, depth, pairs)

\* mutant: a single pass
DepthsOnce(nodes, pairs) == Relax([n \in nodes |-> 0], pairs)

\* as many passes as there are nodes; a pass that changes nothing ends the loop
Depths(nodes, pairs) ==
  LET pass[k \in 0..Cardinality(nodes)] ==
        IF k = 0 THEN [n \in nodes |-> 0] ELSE Relax(pass[k - 1], pairs)
  IN pass[Cardinality(nodes)]

-----------------------------------------------------------------------------
(* exam_questions.py.                                                      *)

\* concept_bank: the tiers of the difficulty, each question once
ConceptBank(c) == Distinct(Joined([k \in DOMAIN Drawn |-> c.bank[Drawn[k]]]))

\* the generator's answer: per label a sequence of questions, empty when it skipped the concept
MergeGenerated(answer, c) == IF answer[c.label] # <<>> THEN answer[c.label] ELSE ConceptBank(c)

\* What _questions_for finds in the dictionary of pools for a concept: by its id, where the last
\* concept with the id wins, else by its label, which another concept's id may shadow.
Lookup(concepts, answer, c) ==
  LET WithId(id) == {k \in DOMAIN concepts : concepts[k].id = id}
      byId == MergeGenerated(answer, concepts[Max(WithId(c.id))])
      shadow == WithId(<<c.label>>)
      byLabel == MergeGenerated(answer, IF shadow = {} THEN c ELSE concepts[Max(shadow)])
  IN IF byId # <<>> THEN byId ELSE byLabel

-----------------------------------------------------------------------------
(* exam_builder.py: largest remainder, then cycling through each pool.     *)
(* The code divides floats; quotas are exact here.  Where two remainders   *)
(* are equal, rounding may make the code prefer the other concept, which   *)
(* no property tells apart.                                                *)

Weights(n, mode) == [i \in 1..n |-> CASE mode = "front" -> n - i + 1 [] mode = "back" -> i [] OTHER -> 1]
Sum(w) == FoldLeft(+, 0, w)

Floors(w, count) == [i \in DOMAIN w |-> (w[i] * count) \div Sum(w)]
Remainder(w, count, i) == (w[i] * count) % Sum(w)

DistributeQuestions(n, count, mode) ==
  LET w == Weights(n, mode)
      left == count - Sum(Floors(w, count))
      Before(i) == {j \in 1..n : \/ Remainder(w, count, j) > Remainder(w, count, i)
                                 \/ Remainder(w, count, j) = Remainder(w, count, i) /\ j < i}
  IN [i \in 1..n |-> Floors(w, count)[i] + IF Cardinality(Before(i)) < left THEN 1 ELSE 0]

\* GENERIC_Q
Templates == <<"core", "mechanism", "wrong", "apply">>

QuestionsFor(pool) == IF pool = <<>> THEN Templates ELSE pool

\* mutant: the first question again and again
AssembleFirst(pool, count) == [i \in 1..count |-> QuestionsFor(pool)[1]]

Assemble(pool, count) == [i \in 1..count |-> QuestionsFor(pool)[((i - 1) % Len(QuestionsFor(pool))) + 1]]

-----------------------------------------------------------------------------
(* What they promise.                                                      *)

Keys(graph) == {c.label : c \in ToSet(graph.concepts)}
Facts(graph) == {<<c.label, c.text, c.sources>> : c \in ToSet(graph.concepts)}

\* The rows are read without an order, so the graph must not depend on it: the concepts, their
\* sources, whether they are defined and the relations are those of the reversed rows too; a concept
\* is there once, a relation joins two concepts of the graph, and a tier has at most three questions.
MergeIsCanonical(rows, edges) ==
  LET graph == MergeDocumentConcepts(rows, edges)
      other == MergeDocumentConcepts(Reverse(rows), Reverse(edges))
  IN /\ Facts(graph) = Facts(other)
     /\ ToSet(graph.relations) = ToSet(other.relations)
     /\ Cardinality(Keys(graph)) = Len(graph.concepts)
     /\ \A r \in ToSet(graph.relations) : r[1] # r[2] /\ {r[1], r[2]} \subseteq Keys(graph)
     /\ \A c \in ToSet(graph.concepts), t \in Tier : Len(c.bank[t]) <= PerTier /\ IsInjective(c.bank[t])

IdsDiffer(concepts) == Cardinality({c.id : c \in ToSet(concepts)}) = Len(concepts)

\* the ids the page shows still name the concepts they named
IdsAgree(concepts, kept) == \A c \in ToSet(concepts), e \in ToSet(kept) : c.id = e.id => c.label = e.label

\* Curating a graph with what the professor saw of it, in any order and with additions: the concepts
\* kept are exactly those asked for, with all they had, under ids of their own, and no relation is
\* left that touches a concept taken out.  Excepted are ids that two concepts share or that a rebuild
\* gave to another: there one concept stands in for another.
CurationKeeps(graph, kept) ==
  LET out == CurateConcepts(graph.concepts, kept)
      relations == CurateRelations(graph.relations, kept)
  IN IdsDiffer(graph.concepts) /\ IdsAgree(graph.concepts, kept) =>
       /\ {c.label : c \in ToSet(out)} = {e.label : e \in ToSet(kept)}
       /\ IdsDiffer(out)
       /\ \A c \in ToSet(out) : c.label \in Keys(graph) =>
            \E old \in ToSet(graph.concepts) : old = [c EXCEPT !.id = old.id]
       /\ \A r \in ToSet(relations) : {r[1], r[2]} \subseteq {c.label : c \in ToSet(out)}

\* Node ids differ, and along the relations of a graph without cycles every concept is drawn to the
\* right of what it depends on.
LayersFollowRelations(labels, pairs) ==
  LET depth == Depths(ToSet(labels), pairs)
      Reach[n \in 0..Len(labels)] ==
        IF n = 0 THEN ToSet(pairs)
        ELSE Reach[n - 1] \cup {<<pq[1][1], pq[2][2]>> :
                              pq \in {z \in Reach[n - 1] \X Reach[n - 1] : z[1][2] = z[2][1]}}
      acyclic == \A l \in ToSet(labels) : <<l, l>> \notin Reach[Len(labels)]
  IN /\ Len(NodeIds(labels)) = Len(labels) /\ IsInjective(NodeIds(labels))
     /\ acyclic => \A p \in ToSet(pairs) : depth[p[1]] < depth[p[2]]

\* Every question is handed out, each concept gets its share rounded up or down, and the counts
\* follow the mode's weights.
SharesFair(n, count, mode) ==
  LET out == DistributeQuestions(n, count, mode)
      w == Weights(n, mode)
  IN /\ Sum(out) = count
     /\ \A i \in 1..n : out[i] * Sum(w) > w[i] * count - Sum(w) /\ out[i] * Sum(w) < w[i] * count + Sum(w)
     /\ \A i, j \in 1..n : w[i] > w[j] => out[i] >= out[j]

\* no two concepts share an id, and no label reads like another concept's id
KeysDiffer(concepts) ==
  IdsDiffer(concepts) /\ \A c, d \in ToSet(concepts) : c.id = <<d.label>> => c = d

\* A topic repeats a question only after its whole pool was asked (if the generator did not write
\* the question twice), and asks its own pool: what the generator wrote for it, its stored bank if
\* it was skipped, templates if there is neither.  Where keys clash it may ask another's.
QuestionsFit(concepts, answer, count) ==
  \A c \in ToSet(concepts) :
    LET pool == QuestionsFor(Lookup(concepts, answer, c))
        out == Assemble(Lookup(concepts, answer, c), count)
    IN /\ IsInjective(pool) => \A i, j \in 1..count : i < j /\ out[i] = out[j] => j - i >= Len(pool)
       /\ KeysDiffer(concepts) => ToSet(out) \subseteq ToSet(QuestionsFor(MergeGenerated(answer, c)))
=============================================================================
