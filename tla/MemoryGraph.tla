---------------------------- MODULE MemoryGraph ----------------------------
(***************************************************************************)
(* The memory graph of one user, as Neo4jMemoryGraphRepository keeps it.   *)
(* A graph is a record and every method of the repository is an operator   *)
(* on it; a method that writes returns the graph that its one transaction  *)
(* leaves.  MemoryJobs and MemoryClustering decide who calls what, when.   *)
(*                                                                         *)
(* A memory has one dialogue, at most one statement and at most one event, *)
(* so these nodes are named by their memory; an entity is its node id.     *)
(* Texts, embeddings, scores and times are left out: what they decide is a *)
(* parameter of the operator.                                              *)
(***************************************************************************)
EXTENDS Integers, FiniteSets, FiniteSetsExt, TLC

CONSTANTS
  Memories,      \* long-term memories (rows in Postgres, dialogues here)
  Entities,      \* ids of entity nodes
  Names,         \* pairs of a normalised name and a type
  NameOf,        \* NameOf[e] is the name and type that node e carries
  StableId,      \* StableId[n] is stable_memory_graph_id of that name and type
  Similar,       \* pairs of names that the deduplicator may take for one
  Facts,         \* what a profile may say of an entity
  Important,     \* entities whose importance reaches the promotion threshold
  MinAccess, MinMention,  \* the other promotion thresholds
  Themes,        \* themes of insights
  MaxRenames,    \* bound: full clusterings that may rename one community
  NoCommunity    \* community_id of an entity that has none

ASSUME NameAssumption ==
  /\ NameOf \in [Entities -> Names]
  /\ StableId \in [Names -> Entities]
  /\ \A n \in Names : NameOf[StableId[n]] = n
ASSUME ThresholdAssumption == MinAccess \in Nat /\ MinMention \in Nat

\* A community's id is a uuid made from the label it was voted under: an
\* entity's id, or the id of the community that the members were in.
Communities == Entities \X (1..MaxRenames)
CommunityIdForLabel(l) ==
  IF l \in Entities THEN <<l, 1>> ELSE <<l[1], l[2] + 1>>

EmptyGraph ==
  [dialogues |-> {}, statements |-> {}, nodes |-> {}, mentions |-> {},
   relations |-> {}, events |-> {}, involves |-> {},
   longEntities |-> {}, longStatements |-> {},
   mentionCount |-> [e \in Entities |-> 0],
   accessCount |-> [e \in Entities |-> 0],
   facts |-> [e \in Entities |-> {}],
   insights |-> {}, derived |-> {}, sourceCount |-> [t \in Themes |-> 0],
   communities |-> {}, memberCount |-> [c \in Communities |-> 0],
   community |-> [e \in Entities |-> NoCommunity], inCommunity |-> {}]

-----------------------------------------------------------------------------
(* Extraction.                                                             *)

ListEntitiesByType(g, n) == {e \in g.nodes : NameOf[e] = n}

\* What an extraction will write: the entities it found or reuses with the
\* copy it made of each, the statement's mentions and relations, the event.
NoDraft == [stated |-> {}, entities |-> {}, long |-> {},
            mentionCount |-> [e \in Entities |-> 0],
            accessCount |-> [e \in Entities |-> 0],
            facts |-> [e \in Entities |-> {}],
            mentions |-> {}, relations |-> {}, events |-> {}, involves |-> {}]

\* What a job has read of the entities: those of the names it asked for, as each
\* of them was then.
NothingRead == [read |-> {}, nodes |-> {}, longEntities |-> {},
                mentionCount |-> [e \in Entities |-> 0],
                accessCount |-> [e \in Entities |-> 0],
                facts |-> [e \in Entities |-> {}]]
AlsoRead(s, g, ns) ==
  LET listed == UNION {ListEntitiesByType(g, n) : n \in ns}
      newer(f, h) == [e \in Entities |-> IF e \in listed THEN h[e] ELSE f[e]]
  IN [read |-> s.read \cup ns, nodes |-> s.nodes \cup listed,
      longEntities |-> s.longEntities \cup (listed \cap g.longEntities),
      mentionCount |-> newer(s.mentionCount, g.mentionCount),
      accessCount |-> newer(s.accessCount, g.accessCount),
      facts |-> newer(s.facts, g.facts)]

\* Names that the rules bring together, in either order, or through a third.
Alike(n, o) ==
  LET near(x) == {y \in Names : <<x, y>> \in Similar \/ <<y, x>> \in Similar}
  IN o \in near(n) \cup UNION {near(y) : y \in near(n)}

\* Within one extraction the model takes some names for others: those go by the
\* name that it found to be the canonical one.
DedupBatch(names) ==
  {c \in [names -> names] :
     \A n \in names : c[c[n]] = c[n] /\ (c[n] = n \/ Alike(c[n], n))}

\* A canonical name reuses a node of that name, or one whose name is similar and
\* which the model takes for it, or gets its stable id.
MergeWithGraph(g, names) ==
  {p \in [names -> Entities] : \A n \in names :
     IF ListEntitiesByType(g, n) # {} THEN p[n] \in ListEntitiesByType(g, n)
     ELSE p[n] \in {e \in g.nodes : <<NameOf[e], n>> \in Similar} \cup {StableId[n]}}

\* The copies of the nodes that are reused: layer, profile and counts as they are
\* now, and one mention more for every name.  A node that two canonical names
\* chose has its count taken over twice.
ReuseExisting(g, c, p) ==
  LET canonical(e) == {n \in DOMAIN p : p[n] = e}
      named(e) == {n \in DOMAIN c : p[c[n]] = e}
      known == {p[n] : n \in DOMAIN p} \cap g.nodes
  IN [long |-> known \cap g.longEntities,
      mentionCount |-> [e \in Entities |->
        Cardinality(canonical(e)) * g.mentionCount[e] + Cardinality(named(e))],
      accessCount |-> [e \in Entities |-> IF e \in known THEN g.accessCount[e] ELSE 0],
      facts |-> [e \in Entities |-> IF e \in known THEN g.facts[e] ELSE {}]]

\* The event of memory m and those of its participants that are entities.
BuildEvents(m, x, node(_)) ==
  [events |-> IF x.events = {} THEN {} ELSE {m},
   involves |-> {<<m, node(n)>> : n \in UNION x.events}]

\* What the language model made of memory m is x: whether there is a statement,
\* the names in it, triplets of names, and the participants of an event.
BuildGraph(g, m, x, c, p) ==
  LET node(n) == p[c[n]]
      copies == ReuseExisting(g, c, p)
      event == BuildEvents(m, x, node)
  IN [stated |-> IF x.stated THEN {m} ELSE {},
      entities |-> {node(n) : n \in x.names},
      mentions |-> {<<m, node(n)>> : n \in UNION {{t[1], t[2]} : t \in x.triplets}},
      relations |-> {<<node(t[1]), node(t[2]), m>> : t \in x.triplets},
      long |-> copies.long, mentionCount |-> copies.mentionCount,
      accessCount |-> copies.accessCount, facts |-> copies.facts,
      events |-> event.events, involves |-> event.involves]

\* Mutant of LayersSaved: an entity gets the layer that the extraction read.
MutLayersSaved(g, d) == (g.longEntities \ d.entities) \cup d.long

\* A node that was promoted since the extraction read it stays promoted.
LayersSaved(g, d) == g.longEntities \cup d.long

\* One chain of UNWINDs: a stage with no rows drops the stages after it.  A
\* node that exists keeps its access count and profile and is never demoted.
SaveGraph(g, m, d) ==
  LET written == IF d.stated = {} THEN {} ELSE d.entities
      fresh == written \ g.nodes
  IN [g EXCEPT
       !.dialogues = @ \cup {m},
       !.statements = @ \cup d.stated,
       !.nodes = @ \cup written,
       !.mentions = @ \cup d.mentions,
       !.relations = IF d.mentions = {} THEN @ ELSE @ \cup d.relations,
       !.longEntities = LayersSaved(g, d),
       !.mentionCount = [e \in Entities |->
          IF @[e] > d.mentionCount[e] THEN @[e] ELSE d.mentionCount[e]],
       !.accessCount = [e \in Entities |->
          IF e \in fresh THEN d.accessCount[e] ELSE @[e]],
       !.facts = [e \in Entities |-> IF e \in fresh THEN d.facts[e] ELSE @[e]],
       !.events = @ \cup d.events,
       !.involves = @ \cup d.involves]

-----------------------------------------------------------------------------
(* Reading, promotion and insights.                                        *)

BumpEntityAccess(g, ids) ==
  [g EXCEPT !.accessCount = [e \in Entities |->
     IF e \in ids \cap g.nodes THEN @[e] + 1 ELSE @[e]]]

\* Entities that are looked up, important, or old and mentioned often enough,
\* and with them every statement that mentions them.
PromoteShortToLong(g, old) ==
  LET due == {e \in g.nodes \ g.longEntities :
                \/ g.accessCount[e] >= MinAccess
                \/ e \in Important
                \/ g.mentionCount[e] >= MinMention /\ e \in old}
  IN [g EXCEPT !.longEntities = @ \cup due,
               !.longStatements = @ \cup {x[1] : x \in {y \in g.mentions : y[2] \in due}}]

TopLongTermEntities(g) == g.nodes \cap g.longEntities
EntityStatements(g, e) == {m \in g.statements : <<m, e>> \in g.mentions}

WriteEntityProfile(g, e, facts) ==
  IF e \in g.nodes THEN [g EXCEPT !.facts[e] = facts] ELSE g

\* The insight's sources are replaced by those of the given entities that still
\* exist, and its count by the number that was given.
UpsertInsight(g, t, ids, count) ==
  [g EXCEPT !.insights = @ \cup {t},
            !.sourceCount[t] = count,
            !.derived = {x \in @ : x[1] # t} \cup {<<t, e>> : e \in ids \cap g.nodes}]

DeleteInsight(g, t) ==
  [g EXCEPT !.insights = @ \ {t}, !.derived = {x \in @ : x[1] # t},
            !.sourceCount[t] = 0]

\* The four-layer trace of a memory, by the names of the entities it mentions;
\* nothing when the dialogue is not there.
MemoryTrace(g, m) ==
  IF m \notin g.dialogues THEN {}
  ELSE {[statements |-> g.statements \cap {m},
         entities |-> {NameOf[x[2]] : x \in {y \in g.mentions : y[1] = m}},
         participants |-> {NameOf[x[2]] : x \in {y \in g.involves : y[1] = m}}]}

-----------------------------------------------------------------------------
(* Removing entities.                                                      *)

\* The graph without the nodes in gone and the edges at them.
Detached(g, gone) ==
  [g EXCEPT
    !.nodes = @ \ gone,
    !.mentions = {x \in @ : x[2] \notin gone},
    !.relations = {x \in @ : x[1] \notin gone /\ x[2] \notin gone},
    !.involves = {x \in @ : x[2] \notin gone},
    !.longEntities = @ \ gone,
    !.mentionCount = [e \in Entities |-> IF e \in gone THEN 0 ELSE @[e]],
    !.accessCount = [e \in Entities |-> IF e \in gone THEN 0 ELSE @[e]],
    !.facts = [e \in Entities |-> IF e \in gone THEN {} ELSE @[e]],
    !.derived = {x \in @ : x[2] \notin gone},
    !.community = [e \in Entities |-> IF e \in gone THEN NoCommunity ELSE @[e]],
    !.inCommunity = {x \in @ : x[1] \notin gone}]

DeleteEntity(g, e) == Detached(g, {e})

DuplicateEntities(g) ==
  {n \in Names : Cardinality({e \in g.nodes : NameOf[e] = n}) > 1}
OrphanStatements(g) == {m \in g.statements : ~\E e \in g.nodes : <<m, e>> \in g.mentions}

\* Which node of each name stays: one of the long-term ones if there are any
\* (then the oldest, which is any of them).
Keepers(g) ==
  {k \in [g.nodes -> g.nodes] :
     /\ \A a, b \in g.nodes : NameOf[a] = NameOf[b] => k[a] = k[b]
     /\ \A a \in g.nodes :
          /\ NameOf[k[a]] = NameOf[a]
          /\ a \in g.longEntities => k[a] \in g.longEntities}

\* Mutant of MergeDuplicateEntities: duplicates go with all their edges.
MutMergeDuplicateEntities(g, k) == Detached(g, {e \in g.nodes : k[e] # e})

\* Mentions, events, relations to other entities, communities and counts move to
\* the keeper; relations inside a group and the sources of insights do not.
MergeDuplicateEntities(g, k) ==
  LET gone == {e \in g.nodes : k[e] # e}
      group(e) == {x \in g.nodes : k[x] = e}
      kept == g.nodes \ gone
      merged == {e \in kept : group(e) # {e}}
      theirs(e) == {x[2] : x \in {y \in g.inCommunity : y[1] \in gone /\ k[y[1]] = e}}
  IN [Detached(g, gone) EXCEPT
       !.mentions = {<<x[1], k[x[2]]>> : x \in g.mentions},
       !.involves = {<<x[1], k[x[2]]>> : x \in g.involves},
       !.relations = {x \in g.relations : x[1] = x[2] /\ x[1] \in kept}
          \cup {<<k[x[1]], k[x[2]], x[3]>> :
                  x \in {y \in g.relations : k[y[1]] # k[y[2]]}},
       !.longEntities = g.longEntities \cap kept,
       !.mentionCount = [e \in Entities |-> IF e \in merged
          THEN MapThenSumSet(LAMBDA x : g.mentionCount[x], group(e)) ELSE @[e]],
       !.accessCount = [e \in Entities |-> IF e \in merged
          THEN MapThenSumSet(LAMBDA x : g.accessCount[x], group(e)) ELSE @[e]],
       !.facts = [e \in Entities |-> IF e \in merged
          THEN UNION {g.facts[x] : x \in group(e)} ELSE @[e]],
       !.community = [e \in Entities |->
          IF e \in merged /\ @[e] = NoCommunity /\ theirs(e) # {}
          THEN CHOOSE c \in theirs(e) : TRUE ELSE @[e]],
       !.inCommunity = @ \cup {<<k[x[1]], x[2]>> : x \in g.inCommunity}]

-----------------------------------------------------------------------------
(* Communities.                                                            *)

DialogueEntityIds(g, m) == {x[2] : x \in {y \in g.mentions : y[1] = m}}

\* The neighbours that may vote for an entity's community; those whose relation has
\* expired do not.
CommunityVoteNeighbors(g, e) ==
  {x \in g.nodes : \E r \in g.relations : {r[1], r[2]} = {e, x}}

CommunityMembers(g, c) == {e \in g.nodes : g.community[e] = c}

\* MERGE: a community that exists is left as it is.
UpsertCommunity(g, c) ==
  [g EXCEPT !.communities = @ \cup {c},
            !.memberCount[c] = IF c \in g.communities THEN @ ELSE 0]

EdgesOf(g, e) == {x \in g.inCommunity : x[1] = e}

\* Mutant of AssignEntityCommunity: the edge to the community it leaves stays.
MutAssignEntityCommunity(g, old, e, c) ==
  IF e \notin g.nodes \/ c \notin g.communities THEN g
  ELSE [g EXCEPT !.community[e] = c, !.inCommunity = @ \cup {<<e, c>>}]

\* Matches the entity and the community: does nothing when one is gone.  The query
\* looks for the edges to delete before it locks anything; old is what it found.
AssignEntityCommunity(g, old, e, c) ==
  IF e \notin g.nodes \/ c \notin g.communities THEN g
  ELSE [g EXCEPT !.community[e] = c, !.inCommunity = (@ \ old) \cup {<<e, c>>}]

\* Mutant of RefreshCommunityMemberCount: MATCH, where OPTIONAL MATCH gives a row
\* for a community without members.
MutRefreshCommunityMemberCount(g, c) ==
  IF c \notin g.communities \/ CommunityMembers(g, c) = {} THEN g
  ELSE [g EXCEPT !.memberCount[c] = Cardinality(CommunityMembers(g, c))]

RefreshCommunityMemberCount(g, c) ==
  IF c \notin g.communities THEN g
  ELSE [g EXCEPT !.memberCount[c] = Cardinality(CommunityMembers(g, c))]

\* Decides by the stored count, not by the members.
PruneEmptyCommunities(g) ==
  LET gone == {c \in g.communities : g.memberCount[c] = 0}
  IN [g EXCEPT !.communities = @ \ gone,
               !.inCommunity = {x \in @ : x[2] \notin gone}]
=============================================================================
