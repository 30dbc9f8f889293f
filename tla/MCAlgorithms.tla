----------------------------- MODULE MCAlgorithms -----------------------------
(***************************************************************************)
(* The pure algorithms over bounded inputs.  An input is a sequence that   *)
(* grows by one part per step, so that every input up to the bound of its  *)
(* subject is a state; what has no order of its own is quantified in the   *)
(* invariants.                                                             *)
(***************************************************************************)
EXTENDS SyllabusMap, QuestionBank, Scoring, TLC

CONSTANT MaxPath

SimilarityOf(p, q) == IF p = q THEN 100 ELSE IF p.nodes = q.nodes THEN 84 ELSE 0

Q == INSTANCE QuestionQuality WITH Similarity <- SimilarityOf
K == INSTANCE Chunking
G == INSTANCE GraphStore

VARIABLES subject, parts
vars == <<subject, parts>>

-----------------------------------------------------------------------------
(* The parts.                                                              *)

Line(kind, date, class) == [kind |-> kind, date |-> date, class |-> class]

Lines == {Line("heading", 0, "text"), Line("end", 0, "text"), Line("keyword", 0, "text"),
          Line("title", 0, "text"), Line("class", 2, "text"), Line("open", 1, "text"),
          Line("dated", 1, "text"), Line("brief", 2, "text"), Line("bare", 1, "text"),
          Line("timed", 2, "text"), Line("item", 0, "case"), Line("cont", 0, "documents"),
          Line("noise", 0, "text")}

\* a table with these dates in its first column, whose other cells hold all lines of a document
Table(doc, head, dates) ==
  LET Cell(d) == [date |-> d, lines |-> Interval(1, Len(doc))]
  IN [head |-> head, rows |-> [k \in DOMAIN dates |-> [c \in DOMAIN head |-> Cell(IF c = 1 THEN dates[k] ELSE Undated)]]]

\* dates in order with the topic's column last; a smaller table before one with a date twice, a gap and no
\* header for the topic; dates out of order, so that no table counts, after a table without dates
Tables(doc) ==
  {<<Table(doc, <<"date", "room", "due", "topic">>, <<1, 2>>)>>,
   <<Table(doc, <<"week">>, <<3, 4>>), Table(doc, <<"date", "room">>, <<1, Undated, 2, 1>>)>>,
   <<Table(doc, <<"name">>, <<Undated>>), Table(doc, <<"date", "topic">>, <<5, 3, 2>>)>>}

\* a table of given dates between two others
Item == <<Line("item", 0, "case")>>
Pages(dates) ==
  <<Table(Item, <<"week">>, <<3, 4>>), Table(Item, <<"date", "topic">>, dates), Table(Item, <<"due", "note">>, <<6, 7>>)>>

Inputs(doc) == {[doc |-> doc, tables |-> t, pasted |-> FALSE, pdf |-> TRUE] : t \in Tables(doc)}

Titles == {<<"a">>, <<"a", 2>>, <<"b">>}

Labels == {"c", "c++", "d"}
SlugOf(label) == IF label = "c++" THEN <<"c">> ELSE <<label>>
Tiers == {"recall", "case"}
DrawnTiers == <<"case", "recall">>

Bank(recall, case) == [t \in Tier |-> IF t = "recall" THEN recall ELSE case]
Row(doc, label, text, bank) == [doc |-> doc, label |-> label, text |-> text, bank |-> bank]
ConceptRows ==
  {Row("d1", "c", FALSE, Bank(<<"q1", "q2">>, <<>>)), Row("d2", "c", TRUE, Bank(<<"q3", "q2", "q4", "q5">>, <<"q1">>)),
   Row("d1", "c++", TRUE, Bank(<<"q6">>, <<"q7">>)), Row("d2", "d", FALSE, Bank(<<>>, <<>>)),
   Row("d1", "d", TRUE, Bank(<<>>, <<"q8">>))}
EdgeRows == {<<>>, <<<<"c", "d", "needs">>, <<"d", "d", "needs">>, <<"c", "d", "needs">>, <<"d", "c++", "needs">>>>}

Entry(id, label) == [id |-> id, label |-> label]
KeptLists ==
  LET entry == {Entry(SlugOf(l), l) : l \in Labels} \cup {Entry(<<"custom">>, "d"), Entry(<<"custom">>, "e")}
  IN {<<a, b, c>> : a, b, c \in entry} \cup {<<a>> : a \in entry}

Answers == [Labels -> {<<>>, <<"g1", "g2">>, <<"g1", "g1", "g3">>}]

Pairs == {"c", "c++", "d", "e"} \X {"c", "c++", "d", "e"}

\* relations that are there already, and what belongs to the course
BaseEdges == {{}, {<<"c", "d">>, <<"c++", "d">>}}
Courses == {{"c", "c++", "d", "e"}, {"c", "d", "e"}}

Relation(src, dst, type) == <<src, dst, type>>
Extractions ==
  {[concepts |-> <<"c">>, relations |-> <<>>], [concepts |-> <<"d", "c++">>, relations |-> <<>>],
   [concepts |-> <<"c++", "c", "d">>, relations |-> <<Relation("c", "d", "PREREQUISITE_FOR"), Relation("c++", "d", "x")>>],
   [concepts |-> <<"d">>, relations |-> <<Relation("c", "d", "PREREQUISITE_FOR"), Relation("c", "c++", "IS_A")>>]}
OldNodes == [n \in {<<"old", "c">>, <<"old", "c++">>, <<"old", "d">>} |-> n[2]]
Nearest == {<<"old", "c">>, <<"old", "d">>, G!NotFound}
StoredGraphs ==
  {G!Empty, [nodes |-> [n \in {<<"old", "c">>} |-> "c"], edges |-> {}],
   [nodes |-> OldNodes, edges |-> {<<<<"old", "c++">>, <<"old", "d">>, "ENABLES">>}]}

\* two nodes and an edge are expected, or nothing is; the model may report a third node
ExpectedPaths == {[nodes |-> 2, edges |-> 1, extensions |-> 0], [nodes |-> 0, edges |-> 0, extensions |-> 0]}
Verdict(nodes, edges, extensions, recitation, answered, adequate, probe) ==
  [nodes |-> nodes, edges |-> edges, extensions |-> extensions, recitation |-> recitation,
   answered |-> answered, adequate |-> adequate, probe |-> probe]
Verdicts ==
  [nodes : {{}, {1}, {1, 2, 3}}, edges : {{}, {1}}, extensions : {{}, {"x", "y"}}, recitation : {2, 8},
   answered : {TRUE}, adequate : {FALSE}, probe : {TRUE}] \cup
  {Verdict({1, 2}, {1}, {}, 0, TRUE, TRUE, FALSE), Verdict({2}, {}, {}, 5, TRUE, TRUE, TRUE),
   Verdict({}, {}, {}, 5, FALSE, FALSE, TRUE), Verdict({2}, {}, {}, 10, FALSE, FALSE, FALSE)}

AgentScores == {0, 19, 20, 39, 40, 59, 60, 79, 80, 100}

Claim(text, concepts, causal, confidence, says) ==
  [text |-> text, concepts |-> concepts, causal |-> causal, confidence |-> confidence, says |-> says]
Claims ==
  [text : {TRUE}, concepts : {<<"c">>, <<"c", "d">>, <<"d", "e", "x">>}, causal : BOOLEAN,
   confidence : {2, 4, 8}, says : {{}}] \cup
  {Claim(FALSE, <<"c">>, TRUE, 8, {"c"}), Claim(TRUE, <<>>, TRUE, 12, {"e"}), Claim(TRUE, <<"c", "c">>, FALSE, 3, {}),
   Claim(TRUE, <<"x">>, FALSE, -1, {"d"})}
Asked == {<<>>, <<"c", "d">>, <<"c", "d", "e">>}
Near == [c \in {"c", "d", "e"} |-> IF c = "d" THEN {"c"} ELSE {}]
Store(there, answers, vectors, depth) ==
  [there |-> there, answers |-> answers, vectors |-> vectors, depth |-> depth, near |-> Near]
Stores == {Store(FALSE, FALSE, FALSE, 0), Store(TRUE, TRUE, FALSE, 700), Store(TRUE, FALSE, TRUE, 0)}

Question(declared, edges, nodes, leak) ==
  [declared |-> declared, edges |-> edges, nodes |-> nodes, concepts |-> {}, leak |-> leak]
GeneratedQuestions ==
  {Question("recall", <<>>, {"c"}, FALSE), Question("recall", <<<<"c", "d">>>>, {"c", "d"}, FALSE),
   Question("recall", <<>>, {"c", "d"}, FALSE), Question("balanced", <<<<"c", "d">>>>, {"c", "d"}, FALSE),
   Question("balanced", <<>>, {"c", "d"}, FALSE), Question("balanced", <<<<"d", "e">>>>, {"d", "x"}, TRUE),
   Question("deep", <<<<"c", "d">>, <<"d", "e">>>>, {"c", "d", "e"}, TRUE),
   Question("deep", <<<<"c", "d">>>>, {"c", "d", "e"}, FALSE), Question("medium", <<<<"c", "d">>>>, {"c"}, FALSE)}
CourseGraphs == {[concepts |-> {"c"}, edges |-> {<<"c", "d">>}], [concepts |-> {}, edges |-> {}]}

Raws == {[text |-> t, level |-> l, concepts |-> {"c"}] : t \in BOOLEAN, l \in {"low", "high", "hard"}}
Hits == {<<>>, <<"k1", "k2">>, <<"k2", "k1">>, <<"k3", "k2", "k4">>}

Part == [doc |-> Lines, dates |-> {Undated, 1, 5, 6, 9, 12, 15}, titles |-> Titles, rows |-> ConceptRows, pairs |-> Pairs, concepts |-> {"concept"},
         extractions |-> Extractions, evals |-> Verdicts, scores |-> AgentScores, claims |-> Claims,
         batch |-> GeneratedQuestions, raws |-> Raws, sizes |-> {1, 3, 5, 9}]
Bound == [doc |-> 4, dates |-> 4, titles |-> 5, rows |-> 4, pairs |-> 3, concepts |-> 6,
          extractions |-> 3, evals |-> 3, scores |-> 3, claims |-> 3, batch |-> 4, raws |-> 3, sizes |-> 6]

Init == subject \in DOMAIN Part /\ parts = <<>>

Grow == /\ Len(parts) < Bound[subject]
        /\ \E p \in Part[subject] : parts' = Append(parts, p)
        /\ UNCHANGED subject

Next == Grow
Spec == Init /\ [][Next]_vars

-----------------------------------------------------------------------------
(* The properties, for every input of a subject.                           *)

\* Each line of a schedule belongs to one session, whose fields hold its text unless it is a date line, a
\* keyword's or a stray label's; a table that runs over a page is read whole, and of the tables the largest,
\* in the columns that have a known header; no tuple is dropped in merging, a year's order is not taken for
\* disorder, the tuples used are those of the best strategy that validates, and titles end up different
\* (syllabus_mapper.py, run_pipeline, process_syllabus).  Of a text's sentences every one is in a chunk for
\* search (chunker.py); for extraction all are but a short remainder of the text (ingestion.py, TextChunker).
TextKept ==
  /\ subject = "doc" =>
       /\ LinesOwnedOnce(parts) /\ NothingDropped(Inputs(parts))
       /\ \A input \in Inputs(parts) : BestGrounded(input)
  /\ subject = "dates" => YearInOrder(parts) /\ PagesRejoined(Item, Pages(parts))
  /\ subject = "titles" => TitlesUnique(parts)
  /\ subject = "sizes" =>
       /\ \A structured \in BOOLEAN, overlap \in {0, 4} : K!WindowsFit(parts, structured, 6, overlap)
       /\ \A limit \in {6, 10}, overlap \in {0, 4} : K!TextChunksFit(parts, limit, overlap, 5)

\* The course graph does not depend on the order of rows, a curation keeps what it is asked to keep,
\* and the layout follows the relations (concept_graph.py, graph_curation.py, layout.py); the graph store
\* takes a corpus in once as far as the search finds its labels again, and its walks find what the edges
\* say, depths up to chains of MaxPath edges (ingestion.py, kuzu_store.py).
GraphsKept ==
  /\ subject = "rows" =>
       \A edges \in EdgeRows :
         /\ MergeIsCanonical(parts, edges)
         /\ \A kept \in KeptLists : CurationKeeps(MergeDocumentConcepts(parts, edges), kept)
  /\ subject = "pairs" =>
       /\ LayersFollowRelations(<<"c", "c++", "d", "e">>, SelectSeq(parts, LAMBDA p : p[1] # p[2]))
       /\ \A base \in BaseEdges, own \in Courses, depth \in {1, 3} :
            \A node \in {"d", "e"} : G!WalksExact(node, base \cup Range(parts), own, depth)
  /\ subject = "extractions" =>
       \A graph \in StoredGraphs :
         \A hit \in [G!Seen(parts) -> Nearest] : G!IngestedOnce(graph, hit, parts)

\* Questions are shared out completely and proportionally, and each topic asks its own
\* (exam_questions.py, exam_builder.py); a batch's checks agree with one another (qg_bench.py), and the
\* generator rests on different chunks and keeps levels apart (questions/generator.py).
QuestionsShared ==
  /\ subject = "concepts" =>
       \A count \in 0..12, mode \in {"front", "even", "back"} :
         parts # <<>> => SharesFair(Len(parts), count, mode)
  /\ subject = "rows" =>
       \A answer \in Answers : QuestionsFit(MergeDocumentConcepts(parts, <<>>).concepts, answer, 5)
  /\ subject = "batch" => \A graph \in CourseGraphs : Q!GatesAgree(parts, graph)
  /\ subject = "raws" =>
       \A first, second \in Hits, depth \in {0, 3, 7} : Q!GenerationFits(<<first, second>>, 3, parts, depth)

\* Following up never costs points, more evidence never counts for less, a concept is covered by what is
\* claimed of it in all, and reports add up (agent_sim.py, evaluation/scorer.py, claim_extractor.py).
ScoresFit ==
  /\ subject = "evals" =>
       \A path \in ExpectedPaths, followups \in 0..2 :
         FollowUpsNeverHurt(path, parts, followups) /\ ProbesFollowed(path, parts, followups)
  /\ (subject = "scores" /\ parts # <<>>) => CohortCounted(parts)
  /\ subject = "claims" =>
       \A asked \in Asked, store \in Stores, reached \in BOOLEAN :
         LET claims == Extract(parts, asked, reached)
         IN /\ CoverageAddsUp(claims, asked) /\ ClaimsNeverHurt(claims, asked, store)
            /\ SessionBetweenTurns([i \in DOMAIN claims |-> ScoreTurn(<<claims[i]>>, asked, store)])
=============================================================================
