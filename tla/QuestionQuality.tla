--------------------------- MODULE QuestionQuality ---------------------------
(***************************************************************************)
(* The checks of app/qg_bench.py on a batch of generated questions, and    *)
(* what questions/generator.py retrieves for a batch and accepts of what   *)
(* the model returns.  A question is its declared level, the edges of its  *)
(* expected path, the concepts it names, and whether a surface pattern     *)
(* gives it away; labels are their normalised forms.                       *)
(***************************************************************************)
EXTENDS Integers, Sequences, SequencesExt

CONSTANT
  Similarity(_, _)   \* of two questions' texts, in percent

Level == {"recall", "balanced", "deep"}
Criterion == {"QG-01", "QG-02", "QG-03", "QG-04", "QG-05", "QG-06"}
Status == {"pass", "fail", "skip"}

-----------------------------------------------------------------------------

\* the concepts of the graph, the ends of its relations among them
GraphNodes(graph) == graph.concepts \cup UNION {{e[1], e[2]} : e \in graph.edges}

Labels(q) == q.concepts \cup q.nodes

ClassifyDifficulty(q) ==
  IF Len(q.edges) >= 2 THEN "deep" ELSE IF Len(q.edges) = 1 THEN "balanced" ELSE "recall"

Count(seq, Test(_)) == Cardinality({i \in DOMAIN seq : Test(seq[i])})
Passes(test) == IF test THEN "pass" ELSE "fail"

\* each of the first three judges the questions of one declared level
Judge(q, criterion, graph) ==
  CASE criterion = "QG-01" ->
         IF q.declared # "recall" THEN "skip" ELSE Passes(Labels(q) \cap GraphNodes(graph) # {})
    [] criterion = "QG-02" ->
         IF q.declared # "balanced" THEN "skip" ELSE Passes(Range(q.edges) \cap graph.edges # {})
    [] criterion = "QG-03" ->
         IF q.declared # "deep" THEN "skip" ELSE Passes(Len(q.edges) >= 2)

Deep(batch) == SelectSeq(batch, LAMBDA q : q.declared = "deep")

\* at least 95 of 100 questions are what they declare to be
Agreement(batch) ==
  IF batch = <<>> THEN "skip"
  ELSE Passes(100 * Count(batch, LAMBDA q : q.declared = ClassifyDifficulty(q)) >= 95 * Len(batch))

\* at most 40 of 100 deep questions are given away
NaiveBaseline(batch) ==
  IF Deep(batch) = <<>> THEN "skip"
  ELSE Passes(100 * Len(SelectSeq(Deep(batch), LAMBDA q : q.leak)) <= 40 * Len(Deep(batch)))

\* the worst similarity of two questions, in percent, stays below 85
NearDuplicates(batch) ==
  IF Len(batch) < 2 THEN "skip"
  ELSE LET pair == {p \in (DOMAIN batch) \X (DOMAIN batch) : p[1] < p[2]}
       IN Passes(Max({0} \cup {Similarity(batch[p[1]], batch[p[2]]) : p \in pair}) < 85)

RunQgChecks(batch, graph) ==
  [c \in Criterion |->
     CASE c \in {"QG-01", "QG-02", "QG-03"} -> [i \in DOMAIN batch |-> Judge(batch[i], c, graph)]
       [] c = "QG-04" -> <<Agreement(batch)>>
       [] c = "QG-05" -> <<NaiveBaseline(batch)>>
       [] c = "QG-06" -> <<NearDuplicates(batch)>>]

Summarize(results) ==
  [c \in Criterion |-> [s \in Status |-> Count(results[c], LAMBDA r : r = s)]]

\* In a batch of fewer than twenty no question slips through an agreement that passes: each deep one has
\* its hops and each balanced one an edge; and every question of a known level is judged exactly once.
GatesAgree(batch, graph) ==
  LET results == RunQgChecks(batch, graph)
      summary == Summarize(results)
  IN /\ summary["QG-04"]["pass"] = 1 /\ Len(batch) < 20 =>
          /\ summary["QG-03"]["fail"] = 0
          /\ \A i \in DOMAIN batch :
               batch[i].declared \in Level /\ (batch[i].declared = "balanced" => batch[i].edges # <<>>)
     /\ \A i \in DOMAIN batch :
          Cardinality({c \in {"QG-01", "QG-02", "QG-03"} : results[c][i] # "skip"}) =
            IF batch[i].declared \in Level THEN 1 ELSE 0

-----------------------------------------------------------------------------
(* The generator.                                                          *)

MaxChunks == 10

Joined(seqs) == FoldLeft(\o, <<>>, seqs)

\* the hits of each concept's search, in order, each chunk once; a search that fails adds none
RetrieveChunks(searches, maxChunks) ==
  LET chunks == FoldLeft(LAMBDA acc, hit : IF hit \in ToSet(acc) THEN acc ELSE Append(acc, hit),
                         <<>>, Joined(searches))
  IN SubSeq(chunks, 1, IF Len(chunks) < maxChunks THEN Len(chunks) ELSE maxChunks)

\* a level the enum does not know is taken for medium
LevelOf(raw) == IF raw.level \in {"low", "medium", "high"} THEN raw.level ELSE "medium"

Base == [low |-> 25, medium |-> 55, high |-> 80]

\* in hundredths of a percent of the average depth of five
EstimateEds(level, depth) == 60 * Base[level] + 4 * (IF depth < 5 THEN depth ELSE 5) * 200

BuildCandidates(raws, chunks, depth) ==
  LET valid == SelectSeq(raws, LAMBDA r : r.text)
  IN [i \in DOMAIN valid |->
        [level |-> LevelOf(valid[i]), eds |-> EstimateEds(LevelOf(valid[i]), depth), status |-> "draft",
         concepts |-> valid[i].concepts, sources |-> chunks]]

\* The chunks a generation rests on are different ones, in the order the concepts' searches found them,
\* and one is left out only for the limit; what the model returns becomes drafts, a harder one of the
\* same graph always estimated higher.
GenerationFits(searches, maxChunks, raws, depth) ==
  LET chunks == RetrieveChunks(searches, maxChunks)
      hits == Joined(searches)
      First(chunk) == Min({i \in DOMAIN hits : hits[i] = chunk})
      candidates == BuildCandidates(raws, chunks, depth)
  IN /\ IsInjective(chunks)
     /\ \A i, j \in DOMAIN chunks : i < j => First(chunks[i]) < First(chunks[j])
     /\ ToSet(hits) \subseteq ToSet(chunks) \/ Len(chunks) = maxChunks
     /\ \A i, j \in DOMAIN candidates :
          candidates[i].eds < candidates[j].eds => candidates[i].level # "high" /\ candidates[j].level # "low"
=============================================================================
