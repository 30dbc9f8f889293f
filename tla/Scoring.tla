------------------------------- MODULE Scoring -------------------------------
(***************************************************************************)
(* How answers become numbers: the EDS of a question over its sub-turns    *)
(* (app/agent_sim.py, the formula of the live endpoint), the simulated     *)
(* cohort's report, and the graph scorer behind the evaluation worker      *)
(* (evaluation/claim_extractor.py, evaluation/scorer.py).  Scores are      *)
(* integers over the fixed denominators named with them; the rounding to   *)
(* four places is left out.                                                *)
(***************************************************************************)
EXTENDS Integers, Sequences, SequencesExt

Least(x, y) == IF x < y THEN x ELSE y
Most(x, y) == IF x < y THEN y ELSE x
Clamp(x, low, high) == Least(high, Most(low, x))
RoundDiv(x, y) == (2 * x + y) \div (2 * y)
Total(seq) == FoldLeft(+, 0, seq)
Count(seq, Test(_)) == Cardinality({i \in DOMAIN seq : Test(seq[i])})
Among(seq, wanted) == FoldLeft(LAMBDA kept, x : IF x \in wanted THEN Append(kept, x) ELSE kept, <<>>, seq)
WithText(claims) == Among(claims, {c \in Range(claims) : c.text})

-----------------------------------------------------------------------------
(* Questions by sub-turns.  A path is the numbers of its nodes, edges and  *)
(* extensions; an evaluation the sets the model reports, the recitation in *)
(* tenths, and whether the answer was one, was adequate, and left a probe. *)

LastRecitation(evals) == IF evals = <<>> THEN 5 ELSE Last(evals).recitation

MinRecitation(evals) ==
  IF evals = <<>> THEN 5 ELSE Min({evals[i].recitation : i \in DOMAIN evals})

Reported(evals, kind) == UNION {evals[i][kind] : i \in DOMAIN evals}

\* the score times 400 x nodes x edges x extensions, each at least 1, 1 and 3: alpha is 8/20, beta
\* 12/20, gamma 3/20
EdsUnit(path) == 400 * Most(path.nodes, 1) * Most(path.edges, 1) * Most(path.extensions, 3)

EdsFromComponents(path, evals) ==
  LET N == Most(path.nodes, 1)
      E == Most(path.edges, 1)
      X == Most(path.extensions, 3)
      R == 10 - MinRecitation(evals)
      node == E * Cardinality(Reported(evals, "nodes"))
      edge == N * Cardinality(Reported(evals, "edges"))
      gen == Least(X, Cardinality(Reported(evals, "extensions")))
  IN Clamp(2 * R * X * (8 * node + 12 * edge) + 3 * gen * (20 * N * E - R * (node + edge)), 0, EdsUnit(path))

LegacyScore(answered, adequate) ==
  IF ~answered THEN 0 ELSE IF adequate THEN 100 ELSE 40

\* the rounds of take_question on these verdicts, the first adequate or without a probe being the last
Rounds(evals, followups) ==
  Min({i \in 1..Len(evals) : evals[i].adequate \/ ~evals[i].probe \/ i \in {followups + 1, Len(evals)}})

TakeQuestion(path, evals, followups) ==
  LET used == SubSeq(evals, 1, Rounds(evals, followups))
      answered == \E i \in DOMAIN used : used[i].answered
      adequate == Last(used).adequate
  IN [turns |-> Len(used), answered |-> answered, adequate |-> adequate,
      score |-> IF path.nodes > 0
                THEN RoundDiv(100 * EdsFromComponents(path, used), EdsUnit(path))
                ELSE LegacyScore(answered, adequate)]

OverReported(path, evals) ==
  \/ Cardinality(Reported(evals, "nodes")) > path.nodes
  \/ Cardinality(Reported(evals, "edges")) > path.edges

\* Another follow-up never costs a student points, unless the model reports more than the path has.
FollowUpsNeverHurt(path, evals, followups) ==
  evals # <<>> /\ ~OverReported(path, evals) =>
    TakeQuestion(path, evals, followups).score <= TakeQuestion(path, evals, followups + 1).score

\* A question whose answers were never adequate took every round a probe was left for.
ProbesFollowed(path, evals, followups) ==
  evals # <<>> =>
    LET q == TakeQuestion(path, evals, followups)
    IN q.adequate \/ q.turns \in {followups + 1, Len(evals)} \/ ~evals[q.turns].probe

-----------------------------------------------------------------------------
(* The report on a cohort, from the agents' scores in percent.             *)

Bucket(score) ==
  IF score < 20 THEN "0-19" ELSE IF score < 40 THEN "20-39" ELSE IF score < 60 THEN "40-59"
  ELSE IF score < 80 THEN "60-79" ELSE "80-100"

Aggregate(scores) ==
  [mean |-> RoundDiv(Total(scores), Len(scores)), min |-> Min(Range(scores)), max |-> Max(Range(scores)),
   distribution |-> [b \in {"0-19", "20-39", "40-59", "60-79", "80-100"} |->
                       Count(scores, LAMBDA s : Bucket(s) = b)]]

\* Every agent is in one bucket, the one named for its score, and the mean lies between the extremes.
CohortCounted(scores) ==
  LET report == Aggregate(scores)
      From(low, high) == Count(scores, LAMBDA s : low <= s /\ s <= high)
  IN /\ report.min <= report.mean /\ report.mean <= report.max
     /\ report.distribution = [b \in DOMAIN report.distribution |->
          CASE b = "0-19" -> From(0, 19) [] b = "20-39" -> From(20, 39) [] b = "40-59" -> From(40, 59)
            [] b = "60-79" -> From(60, 79) [] b = "80-100" -> From(80, 100)]

-----------------------------------------------------------------------------
(* Claims.  What the model returns for a claim may lack its text, name     *)
(* concepts the question is not about, and hold any confidence (tenths).   *)

ParseExtraction(raw, expected) ==
  LET claims == WithText(raw)
  IN [i \in DOMAIN claims |->
       [claims[i] EXCEPT !.concepts = Among(@, Range(expected)),
                         !.confidence = Clamp(@, 0, 10)]]

\* without the model every sentence claims the first two of the question's concepts
HeuristicExtraction(sentences, expected) ==
  LET claims == WithText(sentences)
  IN [i \in DOMAIN claims |->
       [claims[i] EXCEPT !.concepts = SubSeq(expected, 1, Least(2, Len(expected))), !.confidence = 5]]

Extract(raw, expected, reached) ==
  IF reached THEN ParseExtraction(raw, expected) ELSE HeuristicExtraction(raw, expected)

(* The graph scorer.  A store is whether there is one, whether it answers  *)
(* prerequisite queries or fails them, what is within three hops of a      *)
(* concept, and the depth the graph gives (none without hops).  Ratios are *)
(* in 1/1200, exact for up to four claims and concepts.                    *)

Unit == 1200
Ratio(part, whole) == (Unit * part) \div whole

\* in fiftieths: the bonus of a causal claim is a fifth
Weight(claim) == IF claim.causal THEN Least(50, 6 * claim.confidence) ELSE 5 * claim.confidence

\* partial credit adds up over the claims, and half of it covers a concept for good
Credit(sofar, concept, weight) ==
  IF concept \notin DOMAIN sofar.partial THEN sofar
  ELSE LET sum == Least(50, sofar.partial[concept] + weight)
       IN [partial |-> [sofar.partial EXCEPT ![concept] = sum],
           covered |-> IF sum >= 25 THEN sofar.covered \cup {concept} ELSE sofar.covered]

CreditClaim(sofar, claim) == FoldLeft(LAMBDA acc, c : Credit(acc, c, Weight(claim)), sofar, claim.concepts)

ClaimCoverage(claims, expected) ==
  FoldLeft(CreditClaim, [partial |-> [c \in Range(expected) |-> 0], covered |-> {}], claims)

SemanticMatch(claims, unmatched) == {c \in unmatched : \E i \in DOMAIN claims : c \in claims[i].says}

Covered(claims, expected, store) ==
  LET covered == ClaimCoverage(claims, expected).covered
  IN IF store.there /\ store.vectors
     THEN covered \cup SemanticMatch(claims, Range(expected) \ covered)
     ELSE covered

CoverageRatio(claims, expected, store) ==
  IF expected = <<>> THEN Unit
  ELSE Ratio(Cardinality(Covered(claims, expected, store)), Cardinality(Range(expected)))

DepthScore(claims, expected, store) ==
  IF store.there /\ store.answers /\ expected # <<>> /\ store.depth > 0 THEN store.depth
  ELSE IF claims = <<>> THEN 0 ELSE Ratio(Count(claims, LAMBDA c : c.causal), Len(claims))

\* one related pair of neighbours is enough, and a failing query counts for the student
ValidChain(claim, store) ==
  \/ Len(claim.concepts) < 2 \/ ~store.there \/ ~store.answers
  \/ \E i \in 1..(Len(claim.concepts) - 1) :
       LET source == claim.concepts[i]
           target == claim.concepts[i + 1]
       IN source \in store.near[target] \/ target \in store.near[source]

Coherence(claims, store) ==
  LET causal == Count(claims, LAMBDA c : c.causal)
      valid == Count(claims, LAMBDA c : c.causal /\ ValidChain(c, store))
  IN IF causal = 0 THEN IF claims = <<>> THEN 0 ELSE 360
     ELSE IF ~store.there THEN Ratio(causal, Len(claims))
     ELSE Least(Unit, Ratio(valid, causal) + Least(240, 60 * causal))

\* the components of one turn, and the weighted score in hundredths of the unit
ScoreTurn(claims, expected, store) ==
  [coverage |-> CoverageRatio(claims, expected, store), depth |-> DepthScore(claims, expected, store),
   coherence |-> Coherence(claims, store)]

Weighted(score) == 35 * score.coverage + 35 * score.depth + 30 * score.coherence

\* the sums of the components stand for their averages: the session's score times the number of turns
ScoreSession(scores) ==
  Weighted([coverage |-> Total([i \in DOMAIN scores |-> scores[i].coverage]),
            depth |-> Total([i \in DOMAIN scores |-> scores[i].depth]),
            coherence |-> Total([i \in DOMAIN scores |-> scores[i].coherence])])

\* A concept is covered when all that was claimed of it adds up to one half, in whatever order and in
\* however many claims.
CoverageAddsUp(claims, expected) ==
  ClaimCoverage(claims, expected).covered =
    {c \in Range(expected) :
       Total([i \in DOMAIN claims |-> Weight(claims[i]) * Count(claims[i].concepts, LAMBDA d : d = c)]) >= 25}

\* A further claim never uncovers a concept, and with a graph at hand only a causal claim the graph
\* does not support makes an answer less coherent.
ClaimsNeverHurt(claims, expected, store) ==
  claims # <<>> =>
    /\ Covered(Front(claims), expected, store) \subseteq Covered(claims, expected, store)
    /\ \/ Coherence(Front(claims), store) <= Coherence(claims, store)
       \/ ~store.there \/ (Last(claims).causal /\ ~ValidChain(Last(claims), store))

\* A session's score lies between those of its turns.
SessionBetweenTurns(scores) ==
  scores # <<>> =>
    LET each == {Weighted(scores[i]) : i \in DOMAIN scores}
    IN Len(scores) * Min(each) <= ScoreSession(scores) /\ ScoreSession(scores) <= Len(scores) * Max(each)
=============================================================================
