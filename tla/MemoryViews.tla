----------------------------- MODULE MemoryViews -----------------------------
(***************************************************************************)
(* What users and agents read of the memory graph.  A query sees the graph *)
(* of one moment; most views are put together from several, and the graph  *)
(* and the clock go on between them.  Recall runs several lanes of queries *)
(* at once, each of which may fail, against a timeout.                     *)
(*                                                                         *)
(* Scores are left out: a search finds any of the entities.                *)
(***************************************************************************)
EXTENDS MemoryGraph, Sequences

CONSTANTS
  Worlds,       \* the graphs that a reader may find
  TypeOf,       \* TypeOf[n] is the type in the name and type n
  Unembedded,   \* entities without an embedding
  RecallK,      \* most hits of a lane
  NoView,
  MaxRewrites    \* bound: writes, lookups counted, relations that expire

VARIABLES
  world,       \* the graph
  outdated,    \* relations whose time of validity is over
  view,        \* what the reader asked for and has got so far
  rewrites     \* writes so far

viewVars == <<world, outdated, view, rewrites>>

\* A graph as extractions and clusterings leave it: relations are between entities
\* that are there, and each is from a statement that is there.
Related(g) ==
  /\ {"statements", "nodes", "relations", "insights", "communities"} \subseteq DOMAIN g
  /\ g.relations \subseteq g.nodes \X g.nodes \X g.statements
  /\ \A f \in {"statements", "nodes", "relations", "insights", "communities"} :
       IsFiniteSet(g[f])

ASSUME WorldsAssumption == \A g \in Worlds : Related(g)

-----------------------------------------------------------------------------
(* The queries.                                                            *)

Current(g) == g.relations \ outdated
AtEntity(rs, e) == {r \in rs : e \in {r[1], r[2]}}

GraphNode(g, e) == [id |-> e, type |-> TypeOf[NameOf[e]], community |-> g.community[e],
                    long |-> e \in g.longEntities, facts |-> g.facts[e]]
GraphEdge(r) == [source |-> r[1], target |-> r[2]]

GraphNodes(g) == {GraphNode(g, e) : e \in g.nodes}
GraphEdges(g) == {GraphEdge(r) : r \in Current(g)}
ListCommunities(g) == {[id |-> c, count |-> g.memberCount[c]] : c \in g.communities}

\* The center and what it is related to now; nothing when it is not there.
SubgraphNodes(g, e) ==
  IF e \notin g.nodes THEN {}
  ELSE {GraphNode(g, x) : x \in {e} \cup UNION {{r[1], r[2]} : r \in AtEntity(Current(g), e)}}

\* Mutant of SubgraphEdges: relations that have expired lead to neighbours too.
MutSubgraphEdges(g, e) ==
  LET near == UNION {{r[1], r[2]} : r \in AtEntity(g.relations, e)}
  IN {GraphEdge(r) : r \in {x \in Current(g) : x[1] \in near /\ x[2] \in near}}

\* All that relates the center or its neighbours to one another.
SubgraphEdges(g, e) ==
  LET near == UNION {{r[1], r[2]} : r \in AtEntity(Current(g), e)}
  IN {GraphEdge(r) : r \in {x \in Current(g) : x[1] \in near /\ x[2] \in near}}

ProfileEntity(g, e) == [id |-> e, type |-> TypeOf[NameOf[e]],
                        targets |-> {r[2] : r \in {x \in Current(g) : x[1] = e}}]
ProfileEntities(g) == {ProfileEntity(g, e) : e \in g.nodes}
EntityTypeCounts(g) ==
  LET ofType(t) == {e \in g.nodes : TypeOf[NameOf[e]] = t}
  IN [t \in {TypeOf[NameOf[e]] : e \in g.nodes} |-> Cardinality(ofType(t))]

CommunityRelationships(g, c) ==
  {r \in Current(g) : g.community[r[1]] = c /\ g.community[r[2]] = c}

\* With the relations that have expired.
RelationHistory(g, e) ==
  {[direction |-> IF r[1] = e THEN "outgoing" ELSE "incoming",
    neighbor |-> IF r[1] = e THEN r[2] ELSE r[1],
    is_current |-> r \notin outdated] : r \in AtEntity(g.relations, e)}

QualityGraphCounts(g) ==
  [dialogues |-> Cardinality(g.dialogues), statements |-> Cardinality(g.statements),
   entities |-> Cardinality(g.nodes), relations |-> Cardinality(g.relations),
   events |-> Cardinality(g.events), involves |-> Cardinality(g.involves),
   communities |-> Cardinality(g.communities), insights |-> Cardinality(g.insights)]

\* What the audit complains of, by category.
QualityIssues(g) ==
  [duplicate_entities |-> DuplicateEntities(g),
   missing_embeddings |-> g.nodes \cap Unembedded,
   orphan_entities |-> {e \in g.nodes : ~\E x \in g.mentions : x[2] = e},
   orphan_statements |-> OrphanStatements(g),
   broken_relations |-> {r \in g.relations : r[3] \notin g.statements},
   expired_relations |-> g.relations \cap outdated,
   empty_communities |-> {c \in g.communities : ~\E x \in g.inCommunity : x[2] = c},
   orphan_insights |-> {t \in g.insights : ~\E x \in g.derived : x[1] = t}]
QualityIssueSummary(g) ==
  [c \in DOMAIN QualityIssues(g) |-> Cardinality(QualityIssues(g)[c])]

\* A hit of the fulltext or the vector index, with its relations at that time.
EntityContext(g, e) ==
  [id |-> e, neighbors |-> UNION {{r[1], r[2]} \ {e} : r \in AtEntity(Current(g), e)}]
Found(g, among) ==
  {{EntityContext(g, e) : e \in S} : S \in {x \in SUBSET (among \cap g.nodes) :
                                              Cardinality(x) <= RecallK}}
SearchFulltext(g) == Found(g, Entities)
SearchVector(g) == Found(g, Entities \ Unembedded)

\* One row of each entity that an index found, as many as were asked for.
FuseRows(f, v) ==
  LET ids == {x.id : x \in f \cup v}
      n == IF Cardinality(ids) < RecallK THEN Cardinality(ids) ELSE RecallK
  IN {h \in SUBSET (f \cup v) : Cardinality(h) = n /\ {x.id : x \in h} \in kSubset(n, ids)}

AtMost(S) == {x \in SUBSET S : Cardinality(x) <= RecallK}
SearchInsights(g) == AtMost({[id |-> t, count |-> g.sourceCount[t]] : t \in g.insights})

\* Communities as they were listed, by the embeddings of their members.
SearchCommunities(g, listed) ==
  AtMost({c \in listed : \E e \in g.nodes \ Unembedded : g.community[e] = c.id})

TimelineEvent(g, m) == [id |-> m, participants |-> {x[2] : x \in {y \in g.involves : y[1] = m}}]
EventTimeline(g) == {TimelineEvent(g, m) : m \in g.events}
SearchEvents(g) == AtMost(EventTimeline(g))

-----------------------------------------------------------------------------
(* The views: lanes of queries about an entity or a community.             *)

Lanes(kind) ==
  CASE kind = "graph" -> {<<"nodes", "edges", "communities">>}
    [] kind = "entity_subgraph" -> {<<"subgraph nodes", "subgraph edges">>}
    [] kind = "profile" -> {<<"profile entities", "type counts">>}
    [] kind = "community_detail" -> {<<"members", "relationships">>}
    [] kind = "relation_history" -> {<<"exists", "history">>}
    [] kind = "quality" -> {<<"counts", "issues">>}
    [] kind = "recall" -> {<<"insights">>, <<"fulltext", "vector", "hits">>,
                           <<"listed", "recalled communities">>, <<"events">>}

Abouts(kind) ==
  CASE kind \in {"entity_subgraph", "relation_history"} -> Entities
    [] kind = "community_detail" -> Communities
    [] OTHER -> {NoView}

\* What a query may answer, of graph g, about x, after the answers in seen.
QueryAnswers(q, g, x, seen) ==
  CASE q = "nodes" -> {GraphNodes(g)}
    [] q = "edges" -> {GraphEdges(g)}
    [] q \in {"communities", "listed"} -> {ListCommunities(g)}
    [] q = "subgraph nodes" -> {SubgraphNodes(g, x)}
    [] q = "subgraph edges" -> {SubgraphEdges(g, x)}
    [] q = "profile entities" -> {ProfileEntities(g)}
    [] q = "type counts" -> {EntityTypeCounts(g)}
    [] q = "members" -> {CommunityMembers(g, x)}
    [] q = "relationships" -> {CommunityRelationships(g, x)}
    [] q = "exists" -> {x \in g.nodes}
    [] q = "history" -> {IF seen["exists"] THEN RelationHistory(g, x) ELSE {}}
    [] q = "counts" -> {QualityGraphCounts(g)}
    [] q = "issues" -> {QualityIssueSummary(g)}
    [] q = "insights" -> SearchInsights(g)
    [] q = "fulltext" -> SearchFulltext(g)
    [] q = "vector" -> SearchVector(g)
    [] q = "hits" -> FuseRows(seen["fulltext"], seen["vector"])
    [] q = "recalled communities" -> SearchCommunities(g, seen["listed"])
    [] q = "events" -> SearchEvents(g)

Kinds == {"graph", "entity_subgraph", "profile", "community_detail",
          "relation_history", "quality", "recall"}
Nothing == [kind |-> "none", about |-> NoView, todo |-> {}, seen |-> << >>, fresh |-> TRUE]

ViewsInit ==
  /\ world \in Worlds
  /\ outdated = {}
  /\ view = Nothing
  /\ rewrites = 0

\* What has been seen, and a as the answer to q.
Noted(seen, q, a) == [p \in DOMAIN seen \cup {q} |-> IF p = q THEN a ELSE seen[p]]

OpensView(kind, x) ==
  /\ view.kind = "none" /\ x \in Abouts(kind)
  /\ view' = [Nothing EXCEPT !.kind = kind, !.about = x, !.todo = Lanes(kind)]
  /\ UNCHANGED <<world, outdated, rewrites>>

\* The next query of a lane.  The hits of a search are counted as looked up.
RunsQuery(l) ==
  /\ l \in view.todo
  /\ \E a \in QueryAnswers(Head(l), world, view.about, view.seen) :
       /\ view' = [view EXCEPT
            !.todo = (@ \ {l}) \cup (IF Tail(l) = << >> THEN {} ELSE {Tail(l)}),
            !.seen = Noted(@, Head(l), a)]
       /\ \/ UNCHANGED <<world, rewrites>>
          \/ /\ Head(l) = "hits" /\ rewrites < MaxRewrites
             /\ world' = BumpEntityAccess(world, {x.id : x \in a})
             /\ rewrites' = rewrites + 1
  /\ UNCHANGED outdated

\* A lane of a recall that fails has found nothing; any other view is not made.
QueryFails(l) ==
  /\ l \in view.todo
  /\ view' = IF view.kind # "recall" THEN Nothing
             ELSE [view EXCEPT !.todo = @ \ {l}, !.seen = Noted(@, l[Len(l)], {})]
  /\ UNCHANGED <<world, outdated, rewrites>>

\* The view is shown, or the recall takes too long and says nothing.
LeavesView ==
  /\ view.kind = "recall" \/ (view.kind # "none" /\ view.todo = {})
  /\ view' = Nothing
  /\ UNCHANGED <<world, outdated, rewrites>>

-----------------------------------------------------------------------------
(* The others.                                                             *)

Disturbs == view' = [view EXCEPT !.fresh = view.kind = "none"]
Rewrites(g) ==
  /\ rewrites < MaxRewrites /\ g # world
  /\ rewrites' = rewrites + 1
  /\ world' = g /\ UNCHANGED outdated
  /\ Disturbs

RewritesGraph ==
  \/ \E e \in world.nodes : Rewrites(DeleteEntity(world, e))
  \/ \E k \in Keepers(world) : Rewrites(MergeDuplicateEntities(world, k))
  \/ \E e \in world.nodes : \E c \in world.communities : \E old \in SUBSET EdgesOf(world, e) :
       Rewrites(AssignEntityCommunity(world, old, e, c))
  \/ \E t \in Themes : Rewrites(UpsertInsight(world, t, world.nodes, Cardinality(world.nodes)))

Expires(r) ==
  /\ r \in Current(world) /\ rewrites < MaxRewrites
  /\ rewrites' = rewrites + 1
  /\ outdated' = outdated \cup {r} /\ UNCHANGED world
  /\ Disturbs

ViewsNext ==
  \/ \E kind \in Kinds : \E x \in Entities \cup Communities \cup {NoView} : OpensView(kind, x)
  \/ \E l \in view.todo : RunsQuery(l) \/ QueryFails(l)
  \/ LeavesView \/ RewritesGraph
  \/ \E r \in world.relations : Expires(r)

ViewsSpec == ViewsInit /\ [][ViewsNext]_viewVars

-----------------------------------------------------------------------------
(* Properties.                                                             *)

\* The parts of a view, which separate queries make, fit one another, unless the
\* graph was written or a relation expired between them: edges join listed nodes,
\* neighbours are joined to the center, counts are those of the entities shown,
\* the audit finds no more than it counts, and no relation has lost its statement.
UndisturbedViewsAgree ==
  LET seen == view.seen
      ids(q) == {n.id : n \in seen[q]}
      within(edges, nodes) == \A r \in seen[edges] : {r.source, r.target} \subseteq ids(nodes)
  IN view.kind # "none" /\ view.todo = {} /\ view.fresh =>
     CASE view.kind = "graph" -> within("edges", "nodes")
       [] view.kind = "entity_subgraph" ->
            /\ within("subgraph edges", "subgraph nodes")
            /\ \A n \in ids("subgraph nodes") \ {view.about} :
                 \E r \in seen["subgraph edges"] : {r.source, r.target} = {n, view.about}
       [] view.kind = "profile" ->
            /\ \A t \in DOMAIN seen["type counts"] : seen["type counts"][t] =
                 Cardinality({n \in seen["profile entities"] : n.type = t})
            /\ \A n \in seen["profile entities"] :
                 n.type \in DOMAIN seen["type counts"] /\ n.targets \subseteq ids("profile entities")
       [] view.kind = "community_detail" ->
            \A r \in seen["relationships"] : {r[1], r[2]} \subseteq seen["members"]
       [] view.kind = "quality" ->
            LET counts == seen["counts"]  issues == seen["issues"]
            IN /\ 2 * issues.duplicate_entities <= counts.entities
               /\ issues.orphan_entities <= counts.entities
               /\ issues.orphan_statements <= counts.statements
               /\ issues.expired_relations <= counts.relations
               /\ issues.empty_communities <= counts.communities
               /\ issues.orphan_insights <= counts.insights
               /\ issues.broken_relations = 0
       [] view.kind = "recall" ->
            /\ Cardinality(ids("hits")) = Cardinality(seen["hits"])
            /\ \A h \in seen["hits"] : h.neighbors \cup {h.id} \subseteq world.nodes
            /\ \A c \in seen["recalled communities"] : CommunityMembers(world, c.id) # {}
       [] OTHER -> TRUE
=============================================================================
