----------------------------- MODULE ViewsProofs -----------------------------
(***************************************************************************)
(* The parts of a view of the memory graph agree, for any graphs, any      *)
(* number of writes and any order of the lanes of a recall: what each view *)
(* shows of one graph, and that an undisturbed view shows one.             *)
(***************************************************************************)
EXTENDS MemoryViews, FiniteSetTheorems, TLAPS

-----------------------------------------------------------------------------
(* Counting.                                                               *)

\* At least two of the entities bear each name that has duplicates.
LEMMA DuplicatesCounted ==
  ASSUME NEW g, IsFiniteSet(g.nodes)
  PROVE  2 * Cardinality(DuplicateEntities(g)) <= Cardinality(g.nodes)
  <1> DEFINE D == DuplicateEntities(g)
             named(n) == {e \in g.nodes : NameOf[e] = n}
  <1>1. \A n \in D : Cardinality(named(n)) > 1
    BY DEF DuplicateEntities
  <1>2. ASSUME NEW n \in D PROVE \E a, b \in named(n) : a # b
    <2>1. IsFiniteSet(named(n))
      BY FS_Subset
    <2>2. Cardinality(named(n)) # 0 /\ Cardinality(named(n)) # 1
      BY <1>1
    <2>3. named(n) # {} /\ ~\E x : named(n) = {x}
      BY <2>1, <2>2, FS_EmptySet, FS_Singleton
    <2> HIDE DEF named
    <2> QED
      BY <2>3
  <1> HIDE DEF D
  <1> DEFINE one == [n \in D |-> CHOOSE a \in named(n) : TRUE]
             other == [n \in D |-> CHOOSE b \in named(n) : b # one[n]]
             A == {one[n] : n \in D}
             B == {other[n] : n \in D}
  <1>3. ASSUME NEW n \in D
        PROVE  one[n] \in named(n) /\ other[n] \in named(n) /\ one[n] # other[n]
    <2> HIDE DEF named
    <2>1. one[n] = (CHOOSE a \in named(n) : TRUE) /\ \E a \in named(n) : TRUE
      BY <1>2
    <2>2. one[n] \in named(n)
      BY <2>1
    <2>3. other[n] = (CHOOSE b \in named(n) : b # one[n])
      OBVIOUS
    <2> HIDE DEF one, other
    <2>4. \E b \in named(n) : b # one[n]
      BY <1>2, <2>2
    <2> QED
      BY <2>2, <2>3, <2>4
  <1>4. one \in [D -> g.nodes] /\ other \in [D -> g.nodes]
    BY <1>3
  <1> HIDE DEF one, other
  <1>5. one \in Injection(D, g.nodes)
    BY <1>3, <1>4 DEF Injection, IsInjective
  <1>6. IsFiniteSet(D)
    BY <1>5, FS_Injection
  <1>7. one \in Bijection(D, A) /\ other \in Bijection(D, B)
    BY <1>3, <1>4 DEF Bijection, Injection, IsInjective, Surjection
  <1>8. /\ IsFiniteSet(A) /\ Cardinality(A) = Cardinality(D)
        /\ IsFiniteSet(B) /\ Cardinality(B) = Cardinality(D)
    BY <1>6, <1>7, FS_Bijection DEF ExistsBijection
  <1>9. A \cap B = {} /\ A \cup B \subseteq g.nodes
    BY <1>3
  <1>10. Cardinality(A \cup B) = Cardinality(D) + Cardinality(D)
    <2>1. Cardinality(A \cup B) = Cardinality(A) + Cardinality(B) - Cardinality(A \cap B)
      BY <1>8, FS_Union
    <2>2. Cardinality(A \cap B) = 0
      BY <1>9, FS_EmptySet
    <2>3. Cardinality(D) \in Nat
      BY <1>6, FS_CardinalityType
    <2> QED
      BY <1>8, <2>1, <2>2, <2>3
  <1>11. Cardinality(A \cup B) <= Cardinality(g.nodes)
    BY <1>9, FS_Subset
  <1>12. Cardinality(D) \in Nat
    BY <1>6, FS_CardinalityType
  <1> QED
    BY <1>10, <1>11, <1>12 DEF D

\* As many entities of a type are shown as there are.
LEMMA TypesCounted ==
  ASSUME NEW g, IsFiniteSet(g.nodes), NEW t
  PROVE  Cardinality({e \in g.nodes : TypeOf[NameOf[e]] = t})
           = Cardinality({n \in ProfileEntities(g) : n.type = t})
  <1> DEFINE S == {e \in g.nodes : TypeOf[NameOf[e]] = t}
             T == {n \in ProfileEntities(g) : n.type = t}
             shown == [e \in S |-> ProfileEntity(g, e)]
  <1>1. \A e : ProfileEntity(g, e).id = e /\ ProfileEntity(g, e).type = TypeOf[NameOf[e]]
    BY DEF ProfileEntity
  <1>2. T = {ProfileEntity(g, e) : e \in S}
    BY <1>1 DEF ProfileEntities
  <1>3. shown \in Bijection(S, T)
    BY <1>1, <1>2 DEF Bijection, Injection, IsInjective, Surjection
  <1>4. IsFiniteSet(S)
    BY FS_Subset
  <1> HIDE DEF S, T, shown
  <1>5. Cardinality(T) = Cardinality(S)
    BY <1>3, <1>4, FS_Bijection DEF ExistsBijection
  <1> QED
    BY <1>5 DEF S, T

-----------------------------------------------------------------------------
(* What each view shows of one graph.                                      *)

\* Edges join listed nodes.
LEMMA GraphAgrees ==
  ASSUME NEW g, Related(g), NEW r \in GraphEdges(g)
  PROVE  {r.source, r.target} \subseteq {n.id : n \in GraphNodes(g)}
  <1>1. PICK x \in g.relations : r = GraphEdge(x)
    BY DEF GraphEdges, Current
  <1>2. x[1] \in g.nodes /\ x[2] \in g.nodes
    BY DEF Related
  <1>3. \A e : GraphNode(g, e).id = e
    BY DEF GraphNode
  <1>4. g.nodes \subseteq {n.id : n \in GraphNodes(g)}
    BY <1>3 DEF GraphNodes
  <1> QED
    BY <1>1, <1>2, <1>4 DEF GraphEdge

\* Neighbours are joined to the center, and no edge leads out of the view.
LEMMA SubgraphAgrees ==
  ASSUME NEW g, Related(g), NEW c
  PROVE  /\ \A r \in SubgraphEdges(g, c) :
              {r.source, r.target} \subseteq {n.id : n \in SubgraphNodes(g, c)}
         /\ \A n \in {n.id : n \in SubgraphNodes(g, c)} \ {c} :
              \E r \in SubgraphEdges(g, c) : {r.source, r.target} = {n, c}
  <1> DEFINE at == {r \in g.relations \ outdated : c \in {r[1], r[2]}}
             near == UNION {{r[1], r[2]} : r \in at}
  <1>1. \A r \in g.relations : r[1] \in g.nodes /\ r[2] \in g.nodes
    BY DEF Related
  <1>2. SubgraphEdges(g, c) = {GraphEdge(r) : r \in {x \in g.relations \ outdated :
                                                       x[1] \in near /\ x[2] \in near}}
    BY DEF SubgraphEdges, Current, AtEntity
  <1>3. \A e : GraphNode(g, e).id = e
    BY DEF GraphNode
  <1>4. {n.id : n \in SubgraphNodes(g, c)} = IF c \in g.nodes THEN {c} \cup near ELSE {}
    <2>1. CASE c \in g.nodes
      <3>1. SubgraphNodes(g, c) = {GraphNode(g, x) : x \in {c} \cup near}
        BY <2>1 DEF SubgraphNodes, Current, AtEntity
      <3> HIDE DEF near
      <3> QED
        BY <1>3, <2>1, <3>1
    <2>2. CASE c \notin g.nodes
      BY <2>2 DEF SubgraphNodes
    <2> QED
      BY <2>1, <2>2
  <1>5. c \notin g.nodes => near = {}
    BY <1>1
  <1>6. \A r : GraphEdge(r).source = r[1] /\ GraphEdge(r).target = r[2]
    BY DEF GraphEdge
  <1>7. \A n \in near : \E r \in at : {n, c} = {r[1], r[2]} \/ n = c
    OBVIOUS
  <1>8. \A r \in at : GraphEdge(r) \in SubgraphEdges(g, c)
    BY <1>2
  <1>9. ASSUME NEW r \in SubgraphEdges(g, c)
        PROVE  {r.source, r.target} \subseteq {n.id : n \in SubgraphNodes(g, c)}
    <2>1. r.source \in near /\ r.target \in near
      BY <1>2, <1>6
    <2> HIDE DEF near
    <2> QED
      BY <1>4, <1>5, <2>1
  <1>10. ASSUME NEW n \in {x.id : x \in SubgraphNodes(g, c)} \ {c}
         PROVE  \E r \in SubgraphEdges(g, c) : {r.source, r.target} = {n, c}
    <2>1. n \in near /\ n # c
      BY <1>4
    <2>2. PICK r \in at : {n, c} = {r[1], r[2]}
      BY <1>7, <2>1
    <2> QED
      BY <1>6, <1>8, <2>2
  <1> QED
    BY <1>9, <1>10

\* Counts are those of the entities shown, and so are the targets.
LEMMA ProfileAgrees ==
  ASSUME NEW g, Related(g)
  PROVE  /\ \A t \in DOMAIN EntityTypeCounts(g) :
              EntityTypeCounts(g)[t] = Cardinality({n \in ProfileEntities(g) : n.type = t})
         /\ \A n \in ProfileEntities(g) :
              /\ n.type \in DOMAIN EntityTypeCounts(g)
              /\ n.targets \subseteq {x.id : x \in ProfileEntities(g)}
  <1>1. IsFiniteSet(g.nodes)
    BY DEF Related
  <1>2. DOMAIN EntityTypeCounts(g) = {TypeOf[NameOf[e]] : e \in g.nodes}
    BY DEF EntityTypeCounts
  <1>3. \A t \in DOMAIN EntityTypeCounts(g) :
          EntityTypeCounts(g)[t] = Cardinality({e \in g.nodes : TypeOf[NameOf[e]] = t})
    BY DEF EntityTypeCounts
  <1>4. ASSUME NEW n \in ProfileEntities(g)
        PROVE  /\ n.type \in DOMAIN EntityTypeCounts(g)
               /\ n.targets \subseteq {x.id : x \in ProfileEntities(g)}
    <2>1. PICK e \in g.nodes : n = ProfileEntity(g, e)
      BY DEF ProfileEntities
    <2>2. n.type = TypeOf[NameOf[e]] /\ n.targets \subseteq {r[2] : r \in g.relations}
      BY <2>1 DEF ProfileEntity, Current
    <2>3. n.targets \subseteq g.nodes
      BY <2>2 DEF Related
    <2>4. \A x : ProfileEntity(g, x).id = x
      BY DEF ProfileEntity
    <2>5. g.nodes \subseteq {x.id : x \in ProfileEntities(g)}
      BY <2>4 DEF ProfileEntities
    <2> QED
      BY <1>2, <2>2, <2>3, <2>5
  <1> QED
    <2>1. \A t : Cardinality({e \in g.nodes : TypeOf[NameOf[e]] = t})
                   = Cardinality({n \in ProfileEntities(g) : n.type = t})
      BY <1>1, TypesCounted
    <2>2. \A t \in DOMAIN EntityTypeCounts(g) :
            EntityTypeCounts(g)[t] = Cardinality({n \in ProfileEntities(g) : n.type = t})
      BY <1>3, <2>1
    <2> QED
      BY <1>4, <2>2

\* A relation of a community is between its members.
LEMMA CommunityAgrees ==
  ASSUME NEW g, Related(g), NEW c, NEW r \in CommunityRelationships(g, c)
  PROVE  {r[1], r[2]} \subseteq CommunityMembers(g, c)
  BY DEF CommunityRelationships, CommunityMembers, Current, Related

\* The audit finds no more than it counts.
LEMMA QualityAgrees ==
  ASSUME NEW g, Related(g)
  PROVE  LET counts == QualityGraphCounts(g)
             issues == QualityIssueSummary(g)
         IN /\ 2 * issues.duplicate_entities <= counts.entities
            /\ issues.orphan_entities <= counts.entities
            /\ issues.orphan_statements <= counts.statements
            /\ issues.expired_relations <= counts.relations
            /\ issues.empty_communities <= counts.communities
            /\ issues.orphan_insights <= counts.insights
            /\ issues.broken_relations = 0
  <1> DEFINE counts == QualityGraphCounts(g)
             issues == QualityIssueSummary(g)
             q == QualityIssues(g)
  <1>1. /\ IsFiniteSet(g.nodes) /\ IsFiniteSet(g.statements) /\ IsFiniteSet(g.relations)
        /\ IsFiniteSet(g.communities) /\ IsFiniteSet(g.insights)
    BY DEF Related
  <1>2. /\ counts.entities = Cardinality(g.nodes)
        /\ counts.statements = Cardinality(g.statements)
        /\ counts.relations = Cardinality(g.relations)
        /\ counts.communities = Cardinality(g.communities)
        /\ counts.insights = Cardinality(g.insights)
    BY DEF QualityGraphCounts
  <1>3. /\ {"duplicate_entities", "orphan_entities", "orphan_statements", "broken_relations",
            "expired_relations", "empty_communities", "orphan_insights"} \subseteq DOMAIN q
        /\ q.duplicate_entities = DuplicateEntities(g)
        /\ q.orphan_entities \subseteq g.nodes
        /\ q.orphan_statements \subseteq g.statements
        /\ q.broken_relations = {r \in g.relations : r[3] \notin g.statements}
        /\ q.expired_relations \subseteq g.relations
        /\ q.empty_communities \subseteq g.communities
        /\ q.orphan_insights \subseteq g.insights
    BY DEF QualityIssues, OrphanStatements
  <1>4. q.broken_relations = {}
    BY <1>3 DEF Related
  <1> HIDE DEF q
  <1>5. \A c \in DOMAIN q : issues[c] = Cardinality(q[c])
    BY DEF QualityIssueSummary, q
  <1> HIDE DEF issues, counts
  <1>6. 2 * issues.duplicate_entities <= counts.entities
    BY <1>1, <1>2, <1>3, <1>5, DuplicatesCounted
  <1>7. issues.orphan_entities <= counts.entities
    BY <1>1, <1>2, <1>3, <1>5, FS_Subset
  <1>8. issues.orphan_statements <= counts.statements
    BY <1>1, <1>2, <1>3, <1>5, FS_Subset
  <1>9. issues.expired_relations <= counts.relations
    BY <1>1, <1>2, <1>3, <1>5, FS_Subset
  <1>10. issues.empty_communities <= counts.communities
    BY <1>1, <1>2, <1>3, <1>5, FS_Subset
  <1>11. issues.orphan_insights <= counts.insights
    BY <1>1, <1>2, <1>3, <1>5, FS_Subset
  <1>12. issues.broken_relations = 0
    BY <1>3, <1>4, <1>5, FS_EmptySet
  <1> QED
    BY <1>6, <1>7, <1>8, <1>9, <1>10, <1>11, <1>12 DEF issues, counts

-----------------------------------------------------------------------------
(* The lanes.                                                              *)

\* The lanes of a view and what may be left of each.
Rests(kind) ==
  CASE kind = "graph" -> {<<"nodes", "edges", "communities">>, <<"edges", "communities">>,
                          <<"communities">>}
    [] kind = "entity_subgraph" -> {<<"subgraph nodes", "subgraph edges">>, <<"subgraph edges">>}
    [] kind = "profile" -> {<<"profile entities", "type counts">>, <<"type counts">>}
    [] kind = "community_detail" -> {<<"members", "relationships">>, <<"relationships">>}
    [] kind = "relation_history" -> {<<"exists", "history">>, <<"history">>}
    [] kind = "quality" -> {<<"counts", "issues">>, <<"issues">>}
    [] kind = "recall" -> {<<"insights">>, <<"fulltext", "vector", "hits">>, <<"vector", "hits">>,
                           <<"hits">>, <<"listed", "recalled communities">>,
                           <<"recalled communities">>, <<"events">>}
    [] OTHER -> {}

\* The queries of a lane, and those of a view.
Left(l) == {l[i] : i \in DOMAIN l}
Queries(kind) == UNION {Left(l) : l \in Rests(kind)}

\* The queries that the parts which have to agree come from.
Asked(kind) ==
  CASE kind = "graph" -> {"nodes", "edges"}
    [] kind = "entity_subgraph" -> {"subgraph nodes", "subgraph edges"}
    [] kind = "profile" -> {"profile entities", "type counts"}
    [] kind = "community_detail" -> {"members", "relationships"}
    [] kind = "quality" -> {"counts", "issues"}
    [] kind = "recall" -> {"hits", "recalled communities"}
    [] OTHER -> {}

\* What is left of a lane after its first query is left of the view.
LaneStep(kind, l) ==
  /\ Head(l) \in Left(l) /\ l[Len(l)] \in Left(l)
  /\ Tail(l) # << >> => Tail(l) \in Rests(kind)
  /\ \A q \in Left(l) : q = Head(l) \/ (Tail(l) # << >> /\ q \in Left(Tail(l)))
  /\ Tail(l) = <<"hits">> => Head(l) = "vector" /\ l = <<"vector", "hits">>
  /\ Tail(l) = <<"vector", "hits">> => Head(l) = "fulltext"
  /\ Head(l) = "hits" => kind = "recall" /\ l = <<"hits">>

\* A lane of three queries: the first, what comes after it, the last, all of them.
LEMMA LaneOfThree ==
  ASSUME NEW a, NEW b, NEW c
  PROVE  LET l == <<a, b, c>> IN
         /\ Head(l) = a /\ Tail(l) = <<b, c>> /\ Tail(l) # << >> /\ l[Len(l)] = c
         /\ Left(l) = {a, b, c}
  BY DEF Left

\* A lane of two.
LEMMA LaneOfTwo ==
  ASSUME NEW a, NEW b
  PROVE  LET l == <<a, b>> IN
         /\ Head(l) = a /\ Tail(l) = <<b>> /\ Tail(l) # << >> /\ l[Len(l)] = b
         /\ Left(l) = {a, b}
  BY DEF Left

\* A lane of one.
LEMMA LaneOfOne ==
  ASSUME NEW a
  PROVE  LET l == <<a>> IN
         Head(l) = a /\ Tail(l) = << >> /\ l[Len(l)] = a /\ Left(l) = {a}
  BY DEF Left

\* Such a lane goes on to one that its view can have.
LEMMA StepOfThree ==
  ASSUME NEW kind, NEW a, NEW b, NEW c, <<b, c>> \in Rests(kind), a # "hits",
         b = "vector" => a = "fulltext"
  PROVE  LaneStep(kind, <<a, b, c>>)
  <1> DEFINE l == <<a, b, c>>
  <1>1. /\ Head(l) = a /\ Tail(l) = <<b, c>> /\ Tail(l) # << >> /\ l[Len(l)] = c
        /\ Left(l) = {a, b, c}
    BY LaneOfThree
  <1>2. Left(<<b, c>>) = {b, c}
    BY LaneOfTwo
  <1>3. <<b, c>> # <<"hits">> /\ (<<b, c>> = <<"vector", "hits">> => b = "vector")
    OBVIOUS
  <1> HIDE DEF l
  <1>4. LaneStep(kind, l)
    BY <1>1, <1>2, <1>3 DEF LaneStep
  <1> QED
    BY <1>4 DEF l

\* So does one of two.
LEMMA StepOfTwo ==
  ASSUME NEW kind, NEW a, NEW b, <<b>> \in Rests(kind), a # "hits", b = "hits" => a = "vector"
  PROVE  LaneStep(kind, <<a, b>>)
  <1> DEFINE l == <<a, b>>
  <1>1. /\ Head(l) = a /\ Tail(l) = <<b>> /\ Tail(l) # << >> /\ l[Len(l)] = b
        /\ Left(l) = {a, b}
    BY LaneOfTwo
  <1>2. Left(<<b>>) = {b}
    BY LaneOfOne
  <1>3. <<b>> # <<"vector", "hits">> /\ (<<b>> = <<"hits">> => b = "hits")
    OBVIOUS
  <1>4. b = "hits" => l = <<"vector", "hits">>
    OBVIOUS
  <1> HIDE DEF l
  <1>5. LaneStep(kind, l)
    BY <1>1, <1>2, <1>3, <1>4 DEF LaneStep
  <1> QED
    BY <1>5 DEF l

\* A lane of one ends.
LEMMA StepOfOne ==
  ASSUME NEW kind, NEW a, a = "hits" => kind = "recall"
  PROVE  LaneStep(kind, <<a>>)
  <1> DEFINE l == <<a>>
  <1>1. Head(l) = a /\ Tail(l) = << >> /\ l[Len(l)] = a /\ Left(l) = {a}
    BY LaneOfOne
  <1>2. << >> # <<"hits">> /\ << >> # <<"vector", "hits">>
    OBVIOUS
  <1>3. a = "hits" => l = <<"hits">>
    OBVIOUS
  <1> HIDE DEF l
  <1>4. LaneStep(kind, l)
    BY <1>1, <1>2, <1>3 DEF LaneStep
  <1> QED
    BY <1>4 DEF l

\* Every lane that a view can have goes on like that.
LEMMA LaneSteps ==
  ASSUME NEW kind \in Kinds, NEW l \in Rests(kind)
  PROVE  LaneStep(kind, l)
  <1>1. CASE kind = "graph"
    <2>1. Rests(kind) = {<<"nodes", "edges", "communities">>,
                          <<"edges", "communities">>, <<"communities">>}
      BY <1>1 DEF Rests
    <2>2. LaneStep(kind, <<"nodes", "edges", "communities">>)
      BY <1>1, <2>1, StepOfThree
    <2>3. LaneStep(kind, <<"edges", "communities">>)
      BY <1>1, <2>1, StepOfTwo
    <2>4. LaneStep(kind, <<"communities">>)
      BY <1>1, <2>1, StepOfOne
    <2> QED
      BY <2>1, <2>2, <2>3, <2>4
  <1>2. CASE kind = "entity_subgraph"
    <2>1. Rests(kind) = {<<"subgraph nodes", "subgraph edges">>, <<"subgraph edges">>}
      BY <1>2 DEF Rests
    <2>2. LaneStep(kind, <<"subgraph nodes", "subgraph edges">>)
      BY <1>2, <2>1, StepOfTwo
    <2>3. LaneStep(kind, <<"subgraph edges">>)
      BY <1>2, <2>1, StepOfOne
    <2> QED
      BY <2>1, <2>2, <2>3
  <1>3. CASE kind = "profile"
    <2>1. Rests(kind) = {<<"profile entities", "type counts">>, <<"type counts">>}
      BY <1>3 DEF Rests
    <2>2. LaneStep(kind, <<"profile entities", "type counts">>)
      BY <1>3, <2>1, StepOfTwo
    <2>3. LaneStep(kind, <<"type counts">>)
      BY <1>3, <2>1, StepOfOne
    <2> QED
      BY <2>1, <2>2, <2>3
  <1>4. CASE kind = "community_detail"
    <2>1. Rests(kind) = {<<"members", "relationships">>, <<"relationships">>}
      BY <1>4 DEF Rests
    <2>2. LaneStep(kind, <<"members", "relationships">>)
      BY <1>4, <2>1, StepOfTwo
    <2>3. LaneStep(kind, <<"relationships">>)
      BY <1>4, <2>1, StepOfOne
    <2> QED
      BY <2>1, <2>2, <2>3
  <1>5. CASE kind = "relation_history"
    <2>1. Rests(kind) = {<<"exists", "history">>, <<"history">>}
      BY <1>5 DEF Rests
    <2>2. LaneStep(kind, <<"exists", "history">>)
      BY <1>5, <2>1, StepOfTwo
    <2>3. LaneStep(kind, <<"history">>)
      BY <1>5, <2>1, StepOfOne
    <2> QED
      BY <2>1, <2>2, <2>3
  <1>6. CASE kind = "quality"
    <2>1. Rests(kind) = {<<"counts", "issues">>, <<"issues">>}
      BY <1>6 DEF Rests
    <2>2. LaneStep(kind, <<"counts", "issues">>)
      BY <1>6, <2>1, StepOfTwo
    <2>3. LaneStep(kind, <<"issues">>)
      BY <1>6, <2>1, StepOfOne
    <2> QED
      BY <2>1, <2>2, <2>3
  <1>7. CASE kind = "recall"
    <2>1. Rests(kind) = {<<"insights">>, <<"fulltext", "vector", "hits">>,
                          <<"vector", "hits">>, <<"hits">>,
                          <<"listed", "recalled communities">>,
                          <<"recalled communities">>, <<"events">>}
      BY <1>7 DEF Rests
    <2>2. LaneStep(kind, <<"insights">>)
      BY <1>7, <2>1, StepOfOne
    <2>3. LaneStep(kind, <<"fulltext", "vector", "hits">>)
      BY <1>7, <2>1, StepOfThree
    <2>4. LaneStep(kind, <<"vector", "hits">>)
      BY <1>7, <2>1, StepOfTwo
    <2>5. LaneStep(kind, <<"hits">>)
      BY <1>7, <2>1, StepOfOne
    <2>6. LaneStep(kind, <<"listed", "recalled communities">>)
      BY <1>7, <2>1, StepOfTwo
    <2>7. LaneStep(kind, <<"recalled communities">>)
      BY <1>7, <2>1, StepOfOne
    <2>8. LaneStep(kind, <<"events">>)
      BY <1>7, <2>1, StepOfOne
    <2> QED
      BY <2>1, <2>2, <2>3, <2>4, <2>5, <2>6, <2>7, <2>8
  <1> QED
    BY <1>1, <1>2, <1>3, <1>4, <1>5, <1>6, <1>7 DEF Kinds

\* A view begins with all its queries ahead.
LEMMA LanesCover ==
  ASSUME NEW kind \in Kinds
  PROVE  /\ Lanes(kind) \subseteq Rests(kind)
         /\ \A q \in Asked(kind) : \E l \in Lanes(kind) : q \in Left(l)
  <1>1. Lanes(kind) \subseteq Rests(kind)
    BY DEF Kinds, Lanes, Rests
  <1>2. CASE kind = "graph"
    <2>1. Left(<<"nodes", "edges", "communities">>) = {"nodes", "edges", "communities"}
      BY DEF Left
    <2> QED
      BY <1>1, <1>2, <2>1 DEF Lanes, Asked
  <1>3. CASE kind = "recall"
    <2>1. Left(<<"fulltext", "vector", "hits">>) = {"fulltext", "vector", "hits"}
      BY DEF Left
    <2>2. Left(<<"listed", "recalled communities">>) = {"listed", "recalled communities"}
      BY LaneOfTwo
    <2> QED
      BY <1>1, <1>3, <2>1, <2>2 DEF Lanes, Asked
  <1>4. CASE kind \notin {"graph", "recall"}
    <2>1. /\ Left(<<"subgraph nodes", "subgraph edges">>) = {"subgraph nodes", "subgraph edges"}
          /\ Left(<<"profile entities", "type counts">>) = {"profile entities", "type counts"}
          /\ Left(<<"members", "relationships">>) = {"members", "relationships"}
          /\ Left(<<"counts", "issues">>) = {"counts", "issues"}
      BY LaneOfTwo
    <2>2. \A q \in Asked(kind) : \E l \in Lanes(kind) : q \in Left(l)
      BY <1>4, <2>1 DEF Kinds, Lanes, Asked
    <2> QED
      BY <1>1, <2>2
  <1> QED
    BY <1>2, <1>3, <1>4

\* The last query of a lane of a recall is the only one of it that is shown.
LEMMA RecallLanes ==
  ASSUME NEW l \in Rests("recall"), NEW q \in Asked("recall"), q \in Left(l)
  PROVE  q = l[Len(l)]
  <1> DEFINE Last(x) == x[Len(x)]
  <1>1. /\ Left(<<"insights">>) = {"insights"} /\ Left(<<"events">>) = {"events"}
        /\ Left(<<"hits">>) = {"hits"} /\ Last(<<"hits">>) = "hits"
        /\ Left(<<"recalled communities">>) = {"recalled communities"}
        /\ Last(<<"recalled communities">>) = "recalled communities"
    BY LaneOfOne
  <1>2. /\ Left(<<"vector", "hits">>) = {"vector", "hits"}
        /\ Last(<<"vector", "hits">>) = "hits"
        /\ Left(<<"listed", "recalled communities">>) = {"listed", "recalled communities"}
        /\ Last(<<"listed", "recalled communities">>) = "recalled communities"
    BY LaneOfTwo
  <1>3. /\ Left(<<"fulltext", "vector", "hits">>) = {"fulltext", "vector", "hits"}
        /\ Last(<<"fulltext", "vector", "hits">>) = "hits"
    BY DEF Left
  <1>4. l \in {<<"insights">>, <<"fulltext", "vector", "hits">>, <<"vector", "hits">>,
               <<"hits">>, <<"listed", "recalled communities">>,
               <<"recalled communities">>, <<"events">>}
    BY DEF Rests
  <1>5. q \in {"hits", "recalled communities"}
    BY DEF Asked
  <1> HIDE DEF Last
  <1>6. q = Last(l)
    BY <1>1, <1>2, <1>3, <1>4, <1>5
  <1> QED
    BY <1>6 DEF Last

-----------------------------------------------------------------------------
(* The inductive invariant.                                                *)

\* Queries that read the graph and nothing else, and have one answer.
Exact == {"nodes", "edges", "subgraph nodes", "subgraph edges", "profile entities",
          "type counts", "members", "relationships", "counts", "issues"}

\* What was answered is what the graph would answer now; what a recall found is
\* still there.
Stands(q, a) ==
  /\ q \in Exact => a \in QueryAnswers(q, world, view.about, view.seen)
  /\ q \in {"fulltext", "vector", "hits"} =>
       \A h \in a : h.neighbors \cup {h.id} \subseteq world.nodes
  /\ q = "hits" => Cardinality({h.id : h \in a}) = Cardinality(a)
  /\ q = "recalled communities" => \A c \in a : CommunityMembers(world, c.id) # {}

IsView(v) ==
  /\ v = [kind |-> v.kind, about |-> v.about, todo |-> v.todo, seen |-> v.seen,
          fresh |-> v.fresh]
  /\ v.kind \in Kinds \cup {"none"}
  /\ v.todo \subseteq Rests(v.kind)
  /\ DOMAIN v.seen \subseteq Queries(v.kind)

\* A query that counts is answered or ahead, and what it is put together from was
\* answered before it.
InTurn(v) ==
  /\ \A q \in Asked(v.kind) : q \in DOMAIN v.seen \/ \E l \in v.todo : q \in Left(l)
  /\ <<"vector", "hits">> \in v.todo => "fulltext" \in DOMAIN v.seen
  /\ <<"hits">> \in v.todo => {"fulltext", "vector"} \subseteq DOMAIN v.seen

AnswersStand == view.fresh => \A q \in DOMAIN view.seen : Stands(q, view.seen[q])

ViewInv == Related(world) /\ IsView(view) /\ InTurn(view) /\ AnswersStand

-----------------------------------------------------------------------------
(* The view's own steps.                                                   *)

\* Before there is a view nothing is asked.
LEMMA NoneAsked == Rests("none") = {} /\ Queries("none") = {} /\ Asked("none") = {}
  <1>1. Rests("none") = {}
    BY DEF Rests
  <1> QED
    BY <1>1 DEF Queries, Asked

\* A recall asks for no exact answer.
LEMMA RecallExact == Queries("recall") \cap Exact = {}
  <1>1. /\ Left(<<"insights">>) = {"insights"} /\ Left(<<"events">>) = {"events"}
        /\ Left(<<"hits">>) = {"hits"}
        /\ Left(<<"recalled communities">>) = {"recalled communities"}
    BY LaneOfOne
  <1>2. /\ Left(<<"vector", "hits">>) = {"vector", "hits"}
        /\ Left(<<"listed", "recalled communities">>) = {"listed", "recalled communities"}
    BY LaneOfTwo
  <1>3. Left(<<"fulltext", "vector", "hits">>) = {"fulltext", "vector", "hits"}
    BY DEF Left
  <1>4. Rests("recall")
          = {<<"insights">>, <<"fulltext", "vector", "hits">>, <<"vector", "hits">>, <<"hits">>,
             <<"listed", "recalled communities">>, <<"recalled communities">>, <<"events">>}
    BY DEF Rests
  <1>5. \A q \in Queries("recall") : q \in {"insights", "events", "hits", "recalled communities",
                                          "vector", "listed", "fulltext"}
    <2> SUFFICES ASSUME NEW l \in Rests("recall"), NEW q \in Left(l)
                 PROVE  q \in {"insights", "events", "hits", "recalled communities",
                               "vector", "listed", "fulltext"}
      BY DEF Queries
    <2> QED
      BY <1>1, <1>2, <1>3, <1>4
  <1> QED
    BY <1>5 DEF Exact

\* A reader without a view has no answers.
LEMMA NothingStands ==
  ASSUME view = Nothing
  PROVE  IsView(view) /\ InTurn(view) /\ AnswersStand
  <1>1. view = [kind |-> "none", about |-> NoView, todo |-> {}, seen |-> << >>, fresh |-> TRUE]
    BY DEF Nothing
  <1>2. DOMAIN view.seen = {}
    BY <1>1
  <1>3. IsView(view)
    BY <1>1, <1>2 DEF IsView
  <1>4. InTurn(view)
    BY <1>1, NoneAsked DEF InTurn
  <1> QED
    BY <1>2, <1>3, <1>4 DEF AnswersStand

\* The same of the next state.
LEMMA NothingStandsNext ==
  ASSUME view' = Nothing
  PROVE  IsView(view') /\ InTurn(view') /\ AnswersStand'
  <1>1. view' = [kind |-> "none", about |-> NoView, todo |-> {}, seen |-> << >>, fresh |-> TRUE]
    BY DEF Nothing
  <1>2. DOMAIN view'.seen = {}
    BY <1>1
  <1>3. IsView(view')
    BY <1>1, <1>2 DEF IsView
  <1>4. InTurn(view')
    BY <1>1, NoneAsked DEF InTurn
  <1> QED
    BY <1>2, <1>3, <1>4 DEF AnswersStand

\* A view begins with all of its lanes ahead and without answers.
LEMMA OpensViewStep ==
  ASSUME ViewInv, NEW kind \in Kinds, NEW x, OpensView(kind, x)
  PROVE  ViewInv'
  <1>1. view' = [kind |-> kind, about |-> x, todo |-> Lanes(kind), seen |-> << >>, fresh |-> TRUE]
    BY DEF OpensView, Nothing
  <1>2. DOMAIN view'.seen = {}
    BY <1>1
  <1>3. Related(world')
    BY DEF OpensView, ViewInv
  <1>4. IsView(view')
    BY <1>1, <1>2, LanesCover DEF IsView
  <1>5. <<"vector", "hits">> \notin Lanes(kind) /\ <<"hits">> \notin Lanes(kind)
    BY DEF Lanes, Kinds
  <1>6. InTurn(view')
    BY <1>1, <1>5, LanesCover DEF InTurn
  <1> QED
    BY <1>2, <1>3, <1>4, <1>6 DEF ViewInv, AnswersStand

\* Counting lookups changes nothing that a recall shows.
LEMMA BumpedFields ==
  ASSUME NEW g, Related(g), NEW ids
  PROVE  LET h == BumpEntityAccess(g, ids) IN
         /\ Related(h) /\ h.nodes = g.nodes /\ h.community = g.community
  <1>1. PICK h : h = BumpEntityAccess(g, ids)
    OBVIOUS
  <1>2. DOMAIN h = DOMAIN g /\ \A f \in DOMAIN g : f # "accessCount" => h[f] = g[f]
    BY <1>1 DEF BumpEntityAccess
  <1>3. h.nodes = g.nodes /\ h.community = g.community
    BY <1>1 DEF BumpEntityAccess
  <1>4. Related(h)
    BY <1>2 DEF Related
  <1> QED
    BY <1>1, <1>3, <1>4

\* An exact answer does not depend on the answers before it, and stays as long as
\* the graph does and no relation expires.
LEMMA ExactAnswers ==
  ASSUME NEW q \in Exact, NEW g, NEW x, NEW s, NEW t
  PROVE  QueryAnswers(q, g, x, s) = QueryAnswers(q, g, x, t)
  <1>1. CASE q \in {"nodes", "edges", "subgraph nodes", "subgraph edges"}
    BY <1>1 DEF QueryAnswers
  <1>2. CASE q \in {"profile entities", "type counts", "members", "relationships"}
    BY <1>2 DEF QueryAnswers
  <1>3. CASE q \in {"counts", "issues"}
    BY <1>3 DEF QueryAnswers
  <1> QED
    BY <1>1, <1>2, <1>3 DEF Exact

\* A query answers the same while nothing is written and nothing expires.
LEMMA SameAnswers ==
  ASSUME NEW q, NEW x, NEW s, outdated' = outdated, world' = world
  PROVE  QueryAnswers(q, world, x, s)' = QueryAnswers(q, world, x, s)
  BY DEF QueryAnswers, Current, GraphEdges, GraphNodes, SubgraphNodes, SubgraphEdges,
         ProfileEntities, ProfileEntity, EntityTypeCounts, CommunityRelationships,
         RelationHistory, QualityIssueSummary, QualityIssues, SearchFulltext, SearchVector,
         Found, EntityContext

\* So does an exact one for the view as it stands.
LEMMA AnswersStay ==
  ASSUME NEW q \in Exact, outdated' = outdated, world' = world, view'.about = view.about
  PROVE  QueryAnswers(q, world, view.about, view.seen)'
           = QueryAnswers(q, world, view.about, view.seen)
  <1>1. PICK x, s, t : x = view.about /\ s = view.seen /\ t = view'.seen
    OBVIOUS
  <1>2. QueryAnswers(q, world, x, t)' = QueryAnswers(q, world, x, t)
    BY SameAnswers
  <1>3. QueryAnswers(q, world, x, t) = QueryAnswers(q, world, x, s)
    BY ExactAnswers
  <1>4. QueryAnswers(q, world, view.about, view.seen)' = QueryAnswers(q, world, x, t)'
    BY <1>1
  <1> QED
    BY <1>1, <1>2, <1>3, <1>4

\* An answer stands as long as nothing is written and no relation expires; what a
\* recall found, as long as the entities and their communities are there.
LEMMA AnswerStands ==
  ASSUME NEW q, NEW a, Stands(q, a), outdated' = outdated, view'.about = view.about,
         world' = world
  PROVE  Stands(q, a)'
  <1>1. q \in Exact => a \in QueryAnswers(q, world, view.about, view.seen)'
    BY AnswersStay DEF Stands
  <1> QED
    BY <1>1 DEF Stands, CommunityMembers

\* What a recall found stands while nodes and communities are the same.
LEMMA RecallStands ==
  ASSUME NEW q, NEW a, Stands(q, a), q \notin Exact, world'.nodes = world.nodes,
         world'.community = world.community
  PROVE  Stands(q, a)'
  BY DEF Stands, CommunityMembers
\* An index finds what is there, related to what is there.
LEMMA FoundThere ==
  ASSUME NEW g, Related(g), NEW among, NEW a \in Found(g, among), NEW h \in a
  PROVE  h.neighbors \cup {h.id} \subseteq g.nodes
  <1>1. PICK e \in g.nodes : h = EntityContext(g, e)
    BY DEF Found
  <1>2. h.id = e /\ \A x \in h.neighbors : \E r \in g.relations : x \in {r[1], r[2]}
    BY <1>1 DEF EntityContext, AtEntity, Current
  <1> QED
    BY <1>2 DEF Related

\* Rows fused from two rankings come from them, each id once.
LEMMA FusedRows ==
  ASSUME NEW f, NEW v, NEW h \in FuseRows(f, v)
  PROVE  h \subseteq f \cup v /\ Cardinality({x.id : x \in h}) = Cardinality(h)
  BY DEF FuseRows, kSubset

\* What a query answers now stands.
LEMMA NewAnswerStands ==
  ASSUME ViewInv, view.fresh, NEW l \in view.todo,
         NEW a \in QueryAnswers(Head(l), world, view.about, view.seen)
  PROVE  Stands(Head(l), a)
  <1> DEFINE q == Head(l)
  <1>1. view.kind \in Kinds /\ l \in Rests(view.kind)
    BY NoneAsked DEF ViewInv, IsView
  <1>2. LaneStep(view.kind, l)
    BY <1>1, LaneSteps
  <1>3. Related(world)
    BY DEF ViewInv
  <1>4. CASE q = "fulltext"
    <2>1. a \in Found(world, Entities)
      BY <1>4 DEF QueryAnswers, SearchFulltext
    <2> QED
      BY <1>3, <1>4, <2>1, FoundThere DEF Stands, Exact
  <1>5. CASE q = "vector"
    <2>1. a \in Found(world, Entities \ Unembedded)
      BY <1>5 DEF QueryAnswers, SearchVector
    <2> QED
      BY <1>3, <1>5, <2>1, FoundThere DEF Stands, Exact
  <1>6. CASE q = "hits"
    <2>1. {"fulltext", "vector"} \subseteq DOMAIN view.seen
      BY <1>2, <1>6 DEF LaneStep, ViewInv, InTurn
    <2>2. Stands("fulltext", view.seen["fulltext"]) /\ Stands("vector", view.seen["vector"])
      BY <2>1 DEF ViewInv, AnswersStand
    <2>3. \A h \in view.seen["fulltext"] \cup view.seen["vector"] :
             h.neighbors \cup {h.id} \subseteq world.nodes
      BY <2>2 DEF Stands
    <2>4. a \in FuseRows(view.seen["fulltext"], view.seen["vector"])
      BY <1>6 DEF QueryAnswers
    <2>5. /\ a \subseteq view.seen["fulltext"] \cup view.seen["vector"]
          /\ Cardinality({x.id : x \in a}) = Cardinality(a)
      BY <2>4, FusedRows
    <2> QED
      BY <1>6, <2>3, <2>5 DEF Stands, Exact
  <1>7. CASE q = "recalled communities"
    <2>1. a \in SearchCommunities(world, view.seen["listed"])
      BY <1>7 DEF QueryAnswers
    <2>2. \A c \in a : \E e \in world.nodes : world.community[e] = c.id
      BY <2>1 DEF SearchCommunities, AtMost
    <2> QED
      BY <1>7, <2>2 DEF Stands, Exact, CommunityMembers
  <1>8. CASE q \notin {"fulltext", "vector", "hits", "recalled communities"}
    BY <1>8 DEF Stands
  <1> QED
    BY <1>4, <1>5, <1>6, <1>7, <1>8

\* What has been seen with one more answer.
LEMMA NotedAnswer ==
  ASSUME NEW s, NEW q, NEW a
  PROVE  DOMAIN Noted(s, q, a) = DOMAIN s \cup {q}
  BY DEF Noted

\* Noting an answer changes no other.
LEMMA NotedBefore ==
  ASSUME NEW s, NEW q, NEW a, NEW p \in DOMAIN s, p # q
  PROVE  Noted(s, q, a)[p] = s[p]
  BY DEF Noted

\* A query is answered, by the answers before it where it needs them.
LEMMA RunsQueryStep ==
  ASSUME ViewInv, NEW l \in view.todo, RunsQuery(l)
  PROVE  ViewInv'
  <1> DEFINE q == Head(l)
             rest == IF Tail(l) = << >> THEN {} ELSE {Tail(l)}
  <1>1. view.kind \in Kinds /\ l \in Rests(view.kind)
    BY NoneAsked DEF ViewInv, IsView
  <1>2. LaneStep(view.kind, l)
    BY <1>1, LaneSteps
  <1>3. /\ IsView(view) /\ InTurn(view) /\ AnswersStand /\ Related(world)
    BY DEF ViewInv
  <1>4. PICK a \in QueryAnswers(q, world, view.about, view.seen) :
          /\ view' = [view EXCEPT !.todo = (@ \ {l}) \cup rest, !.seen = Noted(@, q, a)]
          /\ \/ world' = world
             \/ q = "hits" /\ world' = BumpEntityAccess(world, {x.id : x \in a})
    BY DEF RunsQuery
  <1>5. outdated' = outdated
    BY DEF RunsQuery
  <1>6. view' = [kind |-> view.kind, about |-> view.about, todo |-> (view.todo \ {l}) \cup rest,
                 seen |-> Noted(view.seen, q, a), fresh |-> view.fresh]
    <2>1. PICK v : v = view
      OBVIOUS
    <2>2. v = [kind |-> v.kind, about |-> v.about, todo |-> v.todo, seen |-> v.seen,
               fresh |-> v.fresh]
      BY <1>3, <2>1 DEF IsView
    <2> HIDE DEF q, rest
    <2>3. view' = [v EXCEPT !.todo = (@ \ {l}) \cup rest, !.seen = Noted(@, q, a)]
      BY <1>4, <2>1
    <2> QED
      BY <2>1, <2>2, <2>3
  <1>7. q \in Left(l) /\ Left(l) \subseteq Queries(view.kind)
    BY <1>1, <1>2 DEF LaneStep, Queries
  <1>8. rest \subseteq Rests(view.kind)
    BY <1>2 DEF LaneStep
  <1> HIDE DEF rest
  <1>9. IsView(view')
    <2>1. DOMAIN view'.seen = DOMAIN view.seen \cup {q}
      BY <1>6, NotedAnswer
    <2>2. DOMAIN view'.seen \subseteq Queries(view.kind)
      BY <1>3, <1>7, <2>1 DEF IsView
    <2>3. view'.todo \subseteq Rests(view.kind)
      BY <1>3, <1>6, <1>8 DEF IsView
    <2>4. view'.kind = view.kind
      BY <1>6
    <2>5. view' = [kind |-> view'.kind, about |-> view'.about, todo |-> view'.todo,
                   seen |-> view'.seen, fresh |-> view'.fresh]
      BY <1>6
    <2> QED
      BY <1>1, <2>2, <2>3, <2>4, <2>5 DEF IsView
  <1>10. InTurn(view')
    <2>1. DOMAIN view'.seen = DOMAIN view.seen \cup {q}
      BY <1>6, NotedAnswer
    <2>2. ASSUME NEW p \in Asked(view.kind)
          PROVE  p \in DOMAIN view'.seen \/ \E k \in view'.todo : p \in Left(k)
      <3>1. CASE p \in DOMAIN view.seen
        BY <2>1, <3>1
      <3>2. CASE p \in Left(l)
        <4>1. p = q \/ (Tail(l) # << >> /\ p \in Left(Tail(l)))
          BY <1>2, <3>2 DEF LaneStep
        <4>2. Tail(l) # << >> => Tail(l) \in view'.todo
          BY <1>6 DEF rest
        <4> QED
          BY <2>1, <4>1, <4>2
      <3>3. CASE \E k \in view.todo \ {l} : p \in Left(k)
        BY <1>6, <3>3
      <3> QED
        BY <1>3, <3>1, <3>2, <3>3 DEF InTurn
    <2>3. ASSUME <<"vector", "hits">> \in view'.todo
          PROVE  "fulltext" \in DOMAIN view'.seen
      <3>1. CASE <<"vector", "hits">> \in view.todo
        BY <1>3, <2>1, <3>1 DEF InTurn
      <3>2. CASE Tail(l) = <<"vector", "hits">>
        BY <1>2, <2>1, <3>2 DEF LaneStep
      <3> QED
        BY <1>6, <2>3, <3>1, <3>2 DEF rest
    <2>4. ASSUME <<"hits">> \in view'.todo
          PROVE  {"fulltext", "vector"} \subseteq DOMAIN view'.seen
      <3>1. CASE <<"hits">> \in view.todo
        BY <1>3, <2>1, <3>1 DEF InTurn
      <3>2. CASE Tail(l) = <<"hits">>
        <4>1. q = "vector" /\ l = <<"vector", "hits">>
          BY <1>2, <3>2 DEF LaneStep
        <4> QED
          BY <1>3, <2>1, <4>1 DEF InTurn
      <3> QED
        BY <1>6, <2>4, <3>1, <3>2 DEF rest
    <2> QED
      BY <1>6, <2>2, <2>3, <2>4 DEF InTurn
  <1>11. ASSUME view.fresh, NEW p, NEW b, Stands(p, b), p \in Queries(view.kind)
         PROVE  Stands(p, b)'
    <2>1. CASE world' = world
      BY <1>5, <1>6, <1>11, <2>1, AnswerStands
    <2>2. CASE q = "hits" /\ world' = BumpEntityAccess(world, {x.id : x \in a})
      <3>1. world'.nodes = world.nodes /\ world'.community = world.community
        BY <1>3, <2>2, BumpedFields
      <3>2. p \notin Exact
        BY <1>2, <1>11, <2>2, RecallExact DEF LaneStep
      <3> QED
        BY <1>11, <3>1, <3>2, RecallStands
    <2> QED
      BY <1>4, <2>1, <2>2
  <1>12. AnswersStand'
    <2> SUFFICES ASSUME view'.fresh, NEW p \in DOMAIN view'.seen PROVE Stands(p, view.seen[p])'
      BY DEF AnswersStand
    <2>1. view.fresh
      BY <1>6
    <2>2. view'.seen = Noted(view.seen, q, a)
      BY <1>6
    <2>3. PICK b : b = view'.seen[p]
      OBVIOUS
    <2>4. Stands(p, b)
      <3>1. CASE p = q
        <4>1. Noted(view.seen, q, a)[q] = a
          <5> HIDE DEF q
          <5> QED
            BY DEF Noted
        <4>2. b = a
          BY <2>2, <2>3, <3>1, <4>1
        <4>3. Stands(q, a)
          BY <2>1, NewAnswerStands
        <4> QED
          BY <3>1, <4>2, <4>3
      <3>2. CASE p # q
        <4>1. p \in DOMAIN view.seen
          <5> HIDE DEF q
          <5>1. DOMAIN Noted(view.seen, q, a) = DOMAIN view.seen \cup {q}
            BY NotedAnswer
          <5> QED
            BY <2>2, <3>2, <5>1
        <4>2. Noted(view.seen, q, a)[p] = view.seen[p]
          <5> HIDE DEF q
          <5> QED
            BY <3>2, <4>1, NotedBefore
        <4> QED
          BY <1>3, <2>1, <2>2, <2>3, <3>2, <4>1, <4>2 DEF AnswersStand
      <3> QED
        BY <3>1, <3>2
    <2>5. p \in Queries(view.kind)
      BY <1>6, <1>9 DEF IsView
    <2>6. Stands(p, b)'
      BY <1>11, <2>1, <2>4, <2>5
    <2> QED
      BY <2>3, <2>6
  <1>13. Related(world')
    BY <1>3, <1>4, BumpedFields
  <1> QED
    BY <1>9, <1>10, <1>12, <1>13 DEF ViewInv

\* A query fails: the view is given up, or a recall goes on without that lane.
LEMMA QueryFailsStep ==
  ASSUME ViewInv, NEW l \in view.todo, QueryFails(l)
  PROVE  ViewInv'
  <1>1. Related(world) /\ world' = world /\ outdated' = outdated
    BY DEF ViewInv, QueryFails
  <1>2. CASE view.kind # "recall"
    <2>1. view' = Nothing
      BY <1>2 DEF QueryFails
    <2> QED
      BY <1>1, <2>1, NothingStandsNext DEF ViewInv
  <1>3. CASE view.kind = "recall"
    <2> DEFINE q == l[Len(l)]
    <2>1. /\ IsView(view) /\ InTurn(view) /\ AnswersStand
      BY DEF ViewInv
    <2>2. l \in Rests("recall") /\ LaneStep("recall", l)
      BY <1>3, <2>1, LaneSteps DEF IsView, Kinds
    <2>3. q \in Left(l) /\ Left(l) \subseteq Queries("recall")
      BY <2>2 DEF LaneStep, Queries
    <2>4. \A p \in Asked("recall") : p \in Left(l) => p = q
      BY <2>2, RecallLanes
    <2>5. view' = [view EXCEPT !.todo = @ \ {l}, !.seen = Noted(@, q, {})]
      BY <1>3 DEF QueryFails
    <2> HIDE DEF q
    <2>6. view' = [kind |-> "recall", about |-> view.about, todo |-> view.todo \ {l},
                   seen |-> Noted(view.seen, q, {}), fresh |-> view.fresh]
      <3>1. PICK v : v = view
        OBVIOUS
      <3>2. v = [kind |-> v.kind, about |-> v.about, todo |-> v.todo, seen |-> v.seen,
                 fresh |-> v.fresh]
        BY <2>1, <3>1 DEF IsView
      <3>3. view' = [v EXCEPT !.todo = @ \ {l}, !.seen = Noted(@, q, {})]
        BY <2>5, <3>1
      <3> QED
        BY <1>3, <3>1, <3>2, <3>3
    <2>7. view'.seen = Noted(view.seen, q, {}) /\ view'.todo = view.todo \ {l}
          /\ view'.kind = "recall" /\ view'.about = view.about /\ view'.fresh = view.fresh
      BY <2>6
    <2>8. DOMAIN view'.seen = DOMAIN view.seen \cup {q}
      BY <2>7 DEF Noted
    <2>9. IsView(view')
      <3>1. view' = [kind |-> view'.kind, about |-> view'.about, todo |-> view'.todo,
                     seen |-> view'.seen, fresh |-> view'.fresh]
        BY <2>6
      <3>2. view'.todo \subseteq Rests("recall") /\ DOMAIN view'.seen \subseteq Queries("recall")
        BY <1>3, <2>1, <2>3, <2>7, <2>8 DEF IsView
      <3> QED
        BY <2>7, <3>1, <3>2 DEF IsView, Kinds
    <2>10. InTurn(view')
      BY <1>3, <2>1, <2>4, <2>7, <2>8 DEF InTurn
    <2>11. Stands(q, {})
      BY <2>3, FS_EmptySet, RecallExact DEF Stands
    <2>12. AnswersStand'
      <3> SUFFICES ASSUME view'.fresh, NEW p \in DOMAIN view'.seen PROVE Stands(p, view.seen[p])'
        BY DEF AnswersStand
      <3>1. PICK b : b = view'.seen[p]
        OBVIOUS
      <3>2. CASE p = q
        <4>1. b = {}
          BY <2>7, <3>1, <3>2 DEF Noted
        <4>2. Stands(p, b)'
          BY <1>1, <2>7, <2>11, <3>2, <4>1, AnswerStands
        <4> QED
          BY <3>1, <4>2
      <3>3. CASE p # q
        <4>1. p \in DOMAIN view.seen
          BY <2>8, <3>3
        <4>2. b = view.seen[p]
          BY <2>7, <3>1, <3>3, <4>1, NotedBefore
        <4>3. Stands(p, b)
          BY <2>1, <2>7, <4>1, <4>2 DEF AnswersStand
        <4>4. Stands(p, b)'
          BY <1>1, <2>7, <4>3, AnswerStands
        <4> QED
          BY <3>1, <4>4
      <3> QED
        BY <3>2, <3>3
    <2> QED
      BY <1>1, <2>9, <2>10, <2>12 DEF ViewInv
  <1> QED
    BY <1>2, <1>3

\* A view that is looked at while the graph is written is fresh no more.
LEMMA DisturbedStep ==
  ASSUME ViewInv, Disturbs, Related(world')
  PROVE  ViewInv'
  <1>1. IsView(view) /\ InTurn(view)
    BY DEF ViewInv
  <1>2. view' = [kind |-> view.kind, about |-> view.about, todo |-> view.todo,
                 seen |-> view.seen, fresh |-> view.kind = "none"]
    <2>1. PICK v : v = view
      OBVIOUS
    <2>2. v = [kind |-> v.kind, about |-> v.about, todo |-> v.todo, seen |-> v.seen,
               fresh |-> v.fresh]
      BY <1>1, <2>1 DEF IsView
    <2>3. view' = [v EXCEPT !.fresh = v.kind = "none"]
      BY <2>1 DEF Disturbs
    <2> QED
      BY <2>1, <2>2, <2>3
  <1>3. IsView(view')
    BY <1>1, <1>2 DEF IsView
  <1>4. InTurn(view')
    BY <1>1, <1>2 DEF InTurn
  <1>5. AnswersStand'
    <2>1. view'.fresh => DOMAIN view'.seen = {}
      BY <1>1, <1>2, NoneAsked DEF IsView
    <2> QED
      BY <2>1 DEF AnswersStand
  <1> QED
    BY <1>3, <1>4, <1>5 DEF ViewInv

-----------------------------------------------------------------------------
(* The writes of the others.                                               *)

\* They leave relations between entities that are there.
LEMMA DetachedRelated ==
  ASSUME NEW g, Related(g), NEW gone
  PROVE  LET h == Detached(g, gone) IN
         /\ DOMAIN h = DOMAIN g /\ h.nodes = g.nodes \ gone
         /\ h.relations = {x \in g.relations : x[1] \notin gone /\ x[2] \notin gone}
         /\ h.statements = g.statements /\ h.insights = g.insights
         /\ h.communities = g.communities
  BY DEF Detached, Related

\* A graph with fewer nodes and relations between them.
LEMMA SmallerRelated ==
  ASSUME NEW g, Related(g), NEW h, DOMAIN g \subseteq DOMAIN h, h.nodes \subseteq g.nodes,
         h.statements = g.statements, IsFiniteSet(h.insights), h.communities = g.communities,
         h.relations \subseteq h.nodes \X h.nodes \X h.statements, IsFiniteSet(h.relations)
  PROVE  Related(h)
  <1>1. IsFiniteSet(h.nodes)
    BY FS_Subset DEF Related
  <1>2. \A f \in {"statements", "nodes", "relations", "insights", "communities"} :
           IsFiniteSet(h[f])
    BY <1>1 DEF Related
  <1> QED
    BY <1>2 DEF Related

\* Deleting an entity takes its relations along.
LEMMA DeletedRelated ==
  ASSUME NEW g, Related(g), NEW e
  PROVE  Related(DeleteEntity(g, e))
  <1> DEFINE h == DeleteEntity(g, e)
  <1>1. /\ DOMAIN h = DOMAIN g /\ h.nodes = g.nodes \ {e}
        /\ h.relations = {x \in g.relations : x[1] \notin {e} /\ x[2] \notin {e}}
        /\ h.statements = g.statements /\ h.insights = g.insights
        /\ h.communities = g.communities
    BY DetachedRelated DEF DeleteEntity
  <1> HIDE DEF h
  <1>2. IsFiniteSet(h.relations) /\ IsFiniteSet(h.insights)
    BY <1>1, FS_Subset DEF Related
  <1>3. h.relations \subseteq h.nodes \X h.nodes \X h.statements
    BY <1>1 DEF Related
  <1>4. Related(h)
    BY <1>1, <1>2, <1>3, SmallerRelated
  <1> QED
    BY <1>4 DEF h

\* Merging moves relations to the keepers.
LEMMA MergedRelated ==
  ASSUME NEW g, Related(g), NEW k \in Keepers(g)
  PROVE  Related(MergeDuplicateEntities(g, k))
  <1> DEFINE gone == {e \in g.nodes : k[e] # e}
             d == Detached(g, gone)
             h == MergeDuplicateEntities(g, k)
             kept == g.nodes \ gone
             inner == {x \in g.relations : x[1] = x[2] /\ x[1] \in kept}
             across == {y \in g.relations : k[y[1]] # k[y[2]]}
             moved == [x \in across |-> <<k[x[1]], k[x[2]], x[3]>>]
             between == {<<k[x[1]], k[x[2]], x[3]>> : x \in across}
  <1>1. /\ k \in [g.nodes -> g.nodes]
        /\ \A a \in g.nodes : NameOf[k[a]] = NameOf[a]
        /\ \A a, b \in g.nodes : NameOf[a] = NameOf[b] => k[a] = k[b]
    BY DEF Keepers
  <1>2. \A a \in g.nodes : k[a] \in kept
    BY <1>1
  <1>3. /\ DOMAIN d = DOMAIN g /\ d.nodes = kept /\ d.statements = g.statements
        /\ d.insights = g.insights /\ d.communities = g.communities
    BY DetachedRelated
  <1>4. {"statements", "nodes", "relations", "insights", "communities"} \subseteq DOMAIN d
    BY <1>3 DEF Related
  <1> HIDE DEF d
  <1>5. DOMAIN h = DOMAIN d /\ h.nodes = d.nodes /\ h.statements = d.statements
    BY <1>4 DEF MergeDuplicateEntities, d
  <1>6. h.insights = d.insights /\ h.communities = d.communities
    BY <1>4 DEF MergeDuplicateEntities, d
  <1>7. h.relations = inner \cup between
    BY <1>4 DEF MergeDuplicateEntities, d
  <1> HIDE DEF h, kept
  <1>8. IsFiniteSet(inner) /\ IsFiniteSet(across) /\ IsFiniteSet(g.insights)
    BY FS_Subset DEF Related
  <1>9. moved \in Surjection(across, between)
    BY DEF Surjection
  <1>10. IsFiniteSet(between)
    <2> HIDE DEF moved, across, between
    <2> QED
      BY <1>8, <1>9, FS_Surjection
  <1>11. IsFiniteSet(h.relations)
    <2> HIDE DEF inner, between
    <2> QED
      BY <1>7, <1>8, <1>10, FS_Union
  <1>12. h.relations \subseteq h.nodes \X h.nodes \X h.statements
    <2>1. inner \subseteq kept \X kept \X g.statements
      BY DEF Related
    <2>2. between \subseteq kept \X kept \X g.statements
      BY <1>2 DEF Related
    <2> QED
      BY <1>3, <1>5, <1>7, <2>1, <2>2
  <1>13. h.nodes \subseteq g.nodes
    BY <1>3, <1>5 DEF kept
  <1>14. Related(h)
    BY <1>3, <1>5, <1>6, <1>8, <1>11, <1>12, <1>13, SmallerRelated
  <1> QED
    BY <1>14 DEF h

\* Assigning a community concerns no relation.
LEMMA AssignedRelated ==
  ASSUME NEW g, Related(g), NEW old, NEW e, NEW c
  PROVE  Related(AssignEntityCommunity(g, old, e, c))
  <1>1. PICK h : h = AssignEntityCommunity(g, old, e, c)
    OBVIOUS
  <1>2. DOMAIN h = DOMAIN g
        /\ \A f \in {"statements", "nodes", "relations", "insights", "communities"} : h[f] = g[f]
    BY <1>1 DEF AssignEntityCommunity
  <1>3. Related(h)
    BY <1>2 DEF Related
  <1> QED
    BY <1>1, <1>3

\* Nor does writing an insight.
LEMMA InsightRelated ==
  ASSUME NEW g, Related(g), NEW t, NEW ids, NEW n
  PROVE  Related(UpsertInsight(g, t, ids, n))
  <1>1. PICK h : h = UpsertInsight(g, t, ids, n)
    OBVIOUS
  <1>2. /\ DOMAIN h = DOMAIN g /\ h.insights = g.insights \cup {t}
        /\ \A f \in {"statements", "nodes", "relations", "communities"} : h[f] = g[f]
    BY <1>1 DEF UpsertInsight, Related
  <1>3. IsFiniteSet(h.insights)
    BY <1>2, FS_AddElement DEF Related
  <1>4. Related(h)
    BY <1>2, <1>3 DEF Related
  <1> QED
    BY <1>1, <1>4

-----------------------------------------------------------------------------
(* The theorem.                                                            *)

\* Every step of the view and of the writers keeps the invariant.
LEMMA ViewStep == ViewInv /\ [ViewsNext]_viewVars => ViewInv'
  <1> SUFFICES ASSUME ViewInv, [ViewsNext]_viewVars PROVE ViewInv'
    OBVIOUS
  <1>1. Related(world)
    BY DEF ViewInv
  <1>2. ASSUME NEW kind \in Kinds, NEW x, OpensView(kind, x) PROVE ViewInv'
    BY <1>2, OpensViewStep
  <1>3. ASSUME NEW l \in view.todo, RunsQuery(l) PROVE ViewInv'
    BY <1>3, RunsQueryStep
  <1>4. ASSUME NEW l \in view.todo, QueryFails(l) PROVE ViewInv'
    BY <1>4, QueryFailsStep
  <1>5. CASE LeavesView
    BY <1>1, <1>5, NothingStandsNext DEF ViewInv, LeavesView
  <1>6. ASSUME NEW g, Related(g), Rewrites(g) PROVE ViewInv'
    BY <1>6, DisturbedStep DEF Rewrites
  <1>7. CASE RewritesGraph
    <2>1. ASSUME NEW e, Rewrites(DeleteEntity(world, e)) PROVE ViewInv'
      BY <1>1, <1>6, <2>1, DeletedRelated
    <2>2. ASSUME NEW k \in Keepers(world), Rewrites(MergeDuplicateEntities(world, k))
          PROVE  ViewInv'
      BY <1>1, <1>6, <2>2, MergedRelated
    <2>3. ASSUME NEW old, NEW e, NEW c, Rewrites(AssignEntityCommunity(world, old, e, c)) PROVE ViewInv'
      BY <1>1, <1>6, <2>3, AssignedRelated
    <2>4. ASSUME NEW t, NEW ids, NEW n, Rewrites(UpsertInsight(world, t, ids, n))
          PROVE  ViewInv'
      BY <1>1, <1>6, <2>4, InsightRelated
    <2> QED
      BY <1>7, <2>1, <2>2, <2>3, <2>4 DEF RewritesGraph
  <1>8. ASSUME NEW r, Expires(r) PROVE ViewInv'
    BY <1>1, <1>8, DisturbedStep DEF Expires
  <1>9. CASE UNCHANGED viewVars
    <2>1. world' = world /\ outdated' = outdated /\ view' = view
      BY <1>9 DEF viewVars
    <2>2. IsView(view') /\ InTurn(view') /\ Related(world')
      BY <2>1 DEF ViewInv
    <2>3. AnswersStand'
      <3> SUFFICES ASSUME view'.fresh, NEW p \in DOMAIN view'.seen PROVE Stands(p, view.seen[p])'
        BY DEF AnswersStand
      <3>1. PICK b : b = view.seen[p]
        OBVIOUS
      <3>2. Stands(p, b)
        BY <2>1, <3>1 DEF ViewInv, AnswersStand
      <3>3. Stands(p, b)'
        BY <2>1, <3>2, AnswerStands
      <3> QED
        BY <2>1, <3>1, <3>3
    <2> QED
      BY <2>2, <2>3 DEF ViewInv
  <1> QED
    BY <1>2, <1>3, <1>4, <1>5, <1>7, <1>8, <1>9 DEF ViewsNext

\* Before the first view.
LEMMA ViewBegins == ViewsInit => ViewInv
  <1> SUFFICES ASSUME ViewsInit PROVE ViewInv
    OBVIOUS
  <1>1. Related(world)
    BY WorldsAssumption DEF WorldsAssumption, ViewsInit
  <1>2. view = Nothing
    BY DEF ViewsInit
  <1> QED
    BY <1>1, <1>2, NothingStands DEF ViewInv

\* The parts of a view that nothing disturbed come from one graph, and agree.
LEMMA ViewsAgree == ViewInv => UndisturbedViewsAgree
  <1> SUFFICES ASSUME ViewInv, view.kind # "none", view.todo = {}, view.fresh
               PROVE  UndisturbedViewsAgree
    BY DEF UndisturbedViewsAgree
  <1> DEFINE g == world
             about == view.about
  <1>1. Related(g) /\ view.kind \in Kinds
    BY DEF ViewInv, IsView
  <1>2. \A q \in Asked(view.kind) : Stands(q, view.seen[q])
    BY DEF ViewInv, InTurn, AnswersStand
  <1>3. CASE view.kind = "graph"
    <2>1. view.seen["nodes"] = GraphNodes(g) /\ view.seen["edges"] = GraphEdges(g)
      BY <1>2, <1>3 DEF Asked, Stands, Exact, QueryAnswers
    <2>2. \A r \in view.seen["edges"] : {r.source, r.target} \subseteq {n.id : n \in view.seen["nodes"]}
      BY <1>1, <2>1, GraphAgrees
    <2> QED
      BY <1>3, <2>2 DEF UndisturbedViewsAgree
  <1>4. CASE view.kind = "entity_subgraph"
    <2>1. /\ view.seen["subgraph nodes"] = SubgraphNodes(g, about)
          /\ view.seen["subgraph edges"] = SubgraphEdges(g, about)
      BY <1>2, <1>4 DEF Asked, Stands, Exact, QueryAnswers
    <2>2. /\ \A r \in view.seen["subgraph edges"] :
               {r.source, r.target} \subseteq {n.id : n \in view.seen["subgraph nodes"]}
          /\ \A n \in {n.id : n \in view.seen["subgraph nodes"]} \ {about} :
               \E r \in view.seen["subgraph edges"] : {r.source, r.target} = {n, about}
      <3> HIDE DEF g, about
      <3>1. /\ \A r \in SubgraphEdges(g, about) :
                 {r.source, r.target} \subseteq {n.id : n \in SubgraphNodes(g, about)}
            /\ \A n \in {n.id : n \in SubgraphNodes(g, about)} \ {about} :
                 \E r \in SubgraphEdges(g, about) : {r.source, r.target} = {n, about}
        BY <1>1, SubgraphAgrees
      <3>2. {n.id : n \in view.seen["subgraph nodes"]} = {n.id : n \in SubgraphNodes(g, about)}
        BY <2>1
      <3>3. \A r \in view.seen["subgraph edges"] :
              {r.source, r.target} \subseteq {n.id : n \in view.seen["subgraph nodes"]}
        BY <2>1, <3>1, <3>2
      <3>4. \A n \in {n.id : n \in view.seen["subgraph nodes"]} \ {about} :
              \E r \in view.seen["subgraph edges"] : {r.source, r.target} = {n, about}
        BY <2>1, <3>1, <3>2
      <3> QED
        BY <3>3, <3>4
    <2> QED
      BY <1>4, <2>2 DEF UndisturbedViewsAgree
  <1>5. CASE view.kind = "profile"
    <2>1. /\ view.seen["profile entities"] = ProfileEntities(g)
          /\ view.seen["type counts"] = EntityTypeCounts(g)
      BY <1>2, <1>5 DEF Asked, Stands, Exact, QueryAnswers
    <2>2. /\ \A t \in DOMAIN view.seen["type counts"] : view.seen["type counts"][t] =
                 Cardinality({n \in view.seen["profile entities"] : n.type = t})
          /\ \A n \in view.seen["profile entities"] :
                 /\ n.type \in DOMAIN view.seen["type counts"]
                 /\ n.targets \subseteq {x.id : x \in view.seen["profile entities"]}
      <3> HIDE DEF g
      <3>1. /\ \A t \in DOMAIN EntityTypeCounts(g) : EntityTypeCounts(g)[t] =
                   Cardinality({n \in ProfileEntities(g) : n.type = t})
            /\ \A n \in ProfileEntities(g) :
                 /\ n.type \in DOMAIN EntityTypeCounts(g)
                 /\ n.targets \subseteq {x.id : x \in ProfileEntities(g)}
        BY <1>1, ProfileAgrees
      <3> QED
        BY <2>1, <3>1
    <2> QED
      BY <1>5, <2>2 DEF UndisturbedViewsAgree
  <1>6. CASE view.kind = "community_detail"
    <2>1. /\ view.seen["members"] = CommunityMembers(g, about)
          /\ view.seen["relationships"] = CommunityRelationships(g, about)
      BY <1>2, <1>6 DEF Asked, Stands, Exact, QueryAnswers
    <2>2. \A r \in view.seen["relationships"] : {r[1], r[2]} \subseteq view.seen["members"]
      BY <1>1, <2>1, CommunityAgrees
    <2> QED
      BY <1>6, <2>2 DEF UndisturbedViewsAgree
  <1>7. CASE view.kind = "quality"
    <2>1. /\ view.seen["counts"] = QualityGraphCounts(g)
          /\ view.seen["issues"] = QualityIssueSummary(g)
      BY <1>2, <1>7 DEF Asked, Stands, Exact, QueryAnswers
    <2>2. LET counts == view.seen["counts"]
              issues == view.seen["issues"]
          IN /\ 2 * issues.duplicate_entities <= counts.entities
             /\ issues.orphan_entities <= counts.entities
             /\ issues.orphan_statements <= counts.statements
             /\ issues.expired_relations <= counts.relations
             /\ issues.empty_communities <= counts.communities
             /\ issues.orphan_insights <= counts.insights
             /\ issues.broken_relations = 0
      BY <1>1, <2>1, QualityAgrees
    <2> QED
      BY <1>7, <2>2 DEF UndisturbedViewsAgree
  <1>8. CASE view.kind = "recall"
    <2>1. Stands("hits", view.seen["hits"])
          /\ Stands("recalled communities", view.seen["recalled communities"])
      BY <1>2, <1>8 DEF Asked
    <2>2. /\ Cardinality({h.id : h \in view.seen["hits"]}) = Cardinality(view.seen["hits"])
          /\ \A h \in view.seen["hits"] : h.neighbors \cup {h.id} \subseteq world.nodes
          /\ \A c \in view.seen["recalled communities"] : CommunityMembers(world, c.id) # {}
      BY <2>1 DEF Stands
    <2> QED
      BY <1>8, <2>2 DEF UndisturbedViewsAgree
  <1>9. CASE view.kind = "relation_history"
    BY <1>9 DEF UndisturbedViewsAgree
  <1> QED
    BY <1>1, <1>3, <1>4, <1>5, <1>6, <1>7, <1>8, <1>9 DEF Kinds

\* Of any graphs, however many queries a view is put together from and whichever of
\* a recall's lanes fail, the parts that separate queries make fit one another,
\* unless the graph was written or a relation expired between them.
THEOREM ViewsFit == ViewsSpec => []UndisturbedViewsAgree
  <1> QED
    BY ViewBegins, ViewStep, ViewsAgree, PTL DEF ViewsSpec
=============================================================================
