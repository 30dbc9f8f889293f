------------------------------ MODULE GraphStore ------------------------------
(***************************************************************************)
(* The graph store's content and queries: what graph/ingestion.py makes of *)
(* the extractions of a corpus, graph/kuzu_store.py stores of it, and its  *)
(* walks find.  A node is an id with a label, in lower case; which node a  *)
(* label is resolved to is the vector search's answer, any function from   *)
(* the labels to a node or none: a stored label may not be found by        *)
(* itself, for its vector is of "label: label" and the encoder without a   *)
(* model is random, and the node may be of an earlier graph, for a worker  *)
(* keeps its vectors from one graph to the next.                           *)
(***************************************************************************)
EXTENDS Integers, Sequences, SequencesExt

CONSTANT
  MaxPath    \* the 20 edges up to which paths from a root are searched

Prerequisite == "PREREQUISITE_FOR"
Enables == "ENABLES"
\* one for each way the walks treat a type
EdgeRelation == {Prerequisite, Enables, "IS_A"}

Empty == [nodes |-> <<>>, edges |-> {}]

-----------------------------------------------------------------------------
(* Ingestion.  An extraction is a sequence of labels and one of relations. *)

\* get_or_create_id: the closest of the stored nodes over the threshold, asked for once
NotFound == <<>>
ResolvedId(hit, label, corpus) == IF hit[label] = NotFound THEN <<corpus, label>> ELSE hit[label]

\* a label keeps the id of its first occurrence
Seen(extractions) == UNION {Range(extractions[i].concepts) : i \in DOMAIN extractions}
Labelled(hit, extractions, corpus) == [l \in Seen(extractions) |-> ResolvedId(hit, l, corpus)]

\* the relations whose ends were extracted with them or before, an unknown type taken for ENABLES
Related(hit, extractions, corpus) ==
  LET id == Labelled(hit, extractions, corpus)
      Known(i) == UNION {Range(extractions[j].concepts) : j \in 1..i}
  IN UNION {{<<id[r[1]], id[r[2]], IF r[3] \in EdgeRelation THEN r[3] ELSE Enables>> :
              r \in {q \in Range(extractions[i].relations) : q[1] \in Known(i) /\ q[2] \in Known(i)}} :
            i \in DOMAIN extractions}

\* of labels resolved to one node the last new one names it; an edge is stored once for its ends and type
Ingest(graph, hit, extractions, corpus) ==
  LET id == Labelled(hit, extractions, corpus)
      order == FoldLeft(LAMBDA acc, l : IF l \in Range(acc) THEN acc ELSE Append(acc, l), <<>>,
                        FlattenSeq([i \in DOMAIN extractions |-> extractions[i].concepts]))
      LastOf(n) == order[Max({i \in DOMAIN order : id[order[i]] = n})]
      upserted == {id[l] : l \in DOMAIN id}
  IN [nodes |-> [n \in (DOMAIN graph.nodes) \cup upserted |->
                   IF n \in upserted THEN LastOf(n) ELSE graph.nodes[n]],
      edges |-> graph.edges \cup Related(hit, extractions, corpus)]

\* Edges join stored nodes and nothing stored is lost.  Ingesting a corpus a second time adds one
\* node for each label that the search now misses, with edges of that node, and changes nothing when
\* each is found again.
IngestedOnce(graph, hit, extractions) ==
  LET once == Ingest(graph, hit, extractions, "new")
      id == Labelled(hit, extractions, "new")
      Again(missed) ==
        Ingest(once, [l \in DOMAIN id |-> IF l \in missed THEN NotFound ELSE id[l]], extractions, "again")
      Fits(after, added) ==
        /\ DOMAIN after.nodes = (DOMAIN once.nodes) \cup added
        /\ \A e \in after.edges \ once.edges : {e[1], e[2]} \cap added # {}
  IN /\ \A e \in once.edges : {e[1], e[2]} \subseteq DOMAIN once.nodes
     /\ DOMAIN graph.nodes \subseteq DOMAIN once.nodes /\ graph.edges \subseteq once.edges
     /\ Again({}) = once
     /\ \A missed \in SUBSET DOMAIN id : Fits(Again(missed), {<<"again", l>> : l \in missed})

-----------------------------------------------------------------------------
(* Queries.  Edges are pairs of one course; what another course owns is no *)
(* node of the walk.                                                       *)

\* the breadth-first walk to the prerequisites of a node: a row for every edge met, also to a node met
\* before, with its hops; a node is expanded once
Prerequisites(node, edges, own, maxDepth) ==
  LET Before(n) == SetToSeq({e[1] : e \in {f \in edges : f[2] = n /\ f[1] \in own}})
      Walk[w \in [queue : Seq(own \X Nat), visited : SUBSET own, rows : Seq(own \X Nat)]] ==
        IF w.queue = <<>> THEN w.rows
        ELSE LET n == Head(w.queue)[1]
                 depth == Head(w.queue)[2]
                 found == [i \in DOMAIN Before(n) |-> <<Before(n)[i], depth + 1>>]
             IN IF depth >= maxDepth \/ n \in w.visited
                THEN Walk[[w EXCEPT !.queue = Tail(@)]]
                ELSE Walk[[queue |-> Tail(w.queue) \o found, visited |-> w.visited \cup {n},
                           rows |-> w.rows \o found]]
  IN Walk[[queue |-> <<<<node, 0>>>>, visited |-> {}, rows |-> <<>>]]

\* the nodes within k hops in either direction, the node itself left out
Neighborhood(node, edges, own, k) ==
  LET Beside(n) == {m \in own : <<n, m>> \in edges \/ <<m, n>> \in edges}
      Within[i \in 0..k] == IF i = 0 THEN {node} ELSE Within[i - 1] \cup UNION {Beside(n) : n \in Within[i - 1]}
  IN Within[k] \ {node}

Subgraph(ids, edges, own) ==
  LET nodes == ids \cap own
  IN [nodes |-> nodes, edges |-> {e \in edges : e[1] \in nodes /\ e[2] \in nodes}]

\* the simple paths between two nodes, as sequences of nodes
SimplePaths(from, to, edges, own) ==
  {p \in UNION {[1..n -> own] : n \in 1..Cardinality(own)} :
     /\ p[1] = from /\ p[Len(p)] = to /\ IsInjective(p)
     /\ \A i \in 1..(Len(p) - 1) : <<p[i], p[i + 1]>> \in edges}

\* the longest of the simple paths from a root that have MaxPath edges at most; a node that none
\* leads to has depth 0
Roots(edges, own) == {n \in own : \A e \in edges : e[2] # n}

TopologicalDepths(edges, own) ==
  LET Lengths(n) == {Len(p) - 1 : p \in UNION {SimplePaths(r, n, edges, own) : r \in Roots(edges, own)}}
  IN [n \in own |-> Max({0} \cup {h \in Lengths(n) : h <= MaxPath})]

\* The nodes that lead to a node in exactly h edges of the course.
Leading(node, edges, own, h) ==
  LET To[i \in 0..h] == IF i = 0 THEN {node} ELSE {n \in own : \E m \in To[i - 1] : <<n, m>> \in edges}
  IN To[h]

Acyclic(edges, own) == \A n \in own : \A h \in 1..Cardinality(own) : n \notin Leading(n, edges, own, h)

\* The longest chain of edges that ends at a node and starts at a root.
LongestChain(node, edges, own) ==
  Max({h \in 0..Cardinality(own) : Leading(node, edges, own, h) \cap Roots(edges, own) # {}})

\* The prerequisites found are those within the depth, none expanded late: each appears with the fewest
\* hops it takes first; every node but the first is in the neighbourhood of as many hops; and in a graph
\* without a cycle a concept no chain over MaxPath leads to lies deeper than what it builds on.
WalksExact(node, edges, own, maxDepth) ==
  LET rows == Prerequisites(node, edges, own, maxDepth)
      Hops(n) == Min({h \in 1..maxDepth : n \in Leading(node, edges, own, h)})
      First(n) == Min({i \in DOMAIN rows : rows[i][1] = n})
      inside == Subgraph(own, edges, own).edges
      depths == TopologicalDepths(inside, own)
  IN /\ {rows[i][1] : i \in DOMAIN rows} = UNION {Leading(node, edges, own, h) : h \in 1..maxDepth}
     /\ \A i \in DOMAIN rows : rows[First(rows[i][1])][2] = Hops(rows[i][1])
     /\ {rows[i][1] : i \in DOMAIN rows} \ {node} \subseteq Neighborhood(node, edges, own, maxDepth)
     /\ Acyclic(inside, own) =>
          \A e \in inside : LongestChain(e[2], inside, own) <= MaxPath => depths[e[1]] < depths[e[2]]
=============================================================================
