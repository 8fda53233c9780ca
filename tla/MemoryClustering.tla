-------------------------- MODULE MemoryClustering --------------------------
(***************************************************************************)
(* Clustering the entities of a memory graph into communities, by jobs     *)
(* that overlap with one another and with the other users of the graph.    *)
(* A job reads labels and neighbours once and then writes, one transaction *)
(* per entity or community, what it decided then.  An assignment matches   *)
(* the entity's edges before it locks anything, so that others may write   *)
(* in the middle of it.  How the votes are weighed is left open: an entity *)
(* may end with any label of the entities it is connected to, and any two  *)
(* communities may be similar.                                             *)
(***************************************************************************)
EXTENDS MemoryGraph, SequencesExt

CONSTANTS
  Clusterers,     \* workers that run clustering jobs
  Known,          \* the graphs that the first job may find
  Learned,        \* Learned[m] is what an extraction of memory m adds
  MaxClusterings, MaxTurns  \* bounds: clustering jobs; jobs and changes by others

\* What a graph has to be for its entities to be clustered.
Clusterable(g) ==
  /\ {"statements", "nodes", "mentions", "inCommunity", "communities", "community",
      "memberCount"} \subseteq DOMAIN g
  /\ g.nodes \subseteq Entities
  /\ \A x \in g.mentions : x[2] \in g.nodes
  /\ g.communities \subseteq Communities
  /\ g.inCommunity \subseteq g.nodes \X Communities
  /\ g.community \in [Entities -> Communities \cup {NoCommunity}]
  /\ g.memberCount = [c \in Communities |-> g.memberCount[c]]

\* The first job finds every entity in its own community, if in any.
ASSUME KnownAssumption ==
  \A g \in Known : Clusterable(g) /\ \A x \in g.inCommunity : x[2] = g.community[x[1]]
ASSUME ClusteringAssumption ==
  /\ IsFiniteSet(Entities) /\ MaxRenames \in Nat \ {0}
  /\ NoCommunity \notin Communities /\ "other" \notin Clusterers
  /\ \A m \in Memories :
       /\ Learned[m].entities \subseteq Entities
       /\ Learned[m].stated = {} => Learned[m].mentions = {}
       /\ \A x \in Learned[m].mentions : x[2] \in Learned[m].entities

VARIABLES
  net,        \* the graph
  step,       \* what each job does next
  todo,       \* what is left of that step
  target,     \* the community the job decided on for each of its entities
  members, similar, pairs, into,  \* for merging: members and similarity as read,
              \* the pairs still to compare, and where each dissolved one went
  current,    \* the entity that joins, or the pair that is merged
  matched,    \* the entity, community and edges that an assignment has matched
  disturbed,  \* jobs during which somebody else wrote (history)
  late,       \* jobs whose entity got another edge after they had matched (history)
  doubled,    \* entities that late jobs assigned or duplicates were merged into
              \* since an assignment that was not late (history)
  clusterings, changes  \* bounds: jobs started, changes made by others

mergeVars == <<members, similar, pairs, into>>
matchVars == <<matched, late>>
clusteringVars ==
  <<net, step, todo, target, mergeVars, current, matchVars, disturbed, doubled,
    clusterings, changes>>

NoTarget == [e \in Entities |-> NoCommunity]
Targets(k) == {target[k][e] : e \in Entities} \ {NoCommunity}
Assigned(k) == {e \in Entities : target[k][e] # NoCommunity}

ClusteringInit ==
  /\ net \in Known
  /\ step = [k \in Clusterers |-> "idle"]
  /\ todo = [k \in Clusterers |-> {}]
  /\ target = [k \in Clusterers |-> NoTarget]
  /\ members = [k \in Clusterers |-> [c \in Communities |-> {}]]
  /\ similar = [k \in Clusterers |-> {}]
  /\ pairs = [k \in Clusterers |-> {}]
  /\ into = [k \in Clusterers |-> [c \in Communities |-> c]]
  /\ current = [k \in Clusterers |-> << >>]
  /\ matched = [k \in Clusterers |-> {}]
  /\ disturbed = {} /\ late = {} /\ doubled = {}
  /\ clusterings = 0 /\ changes = 0

\* The edges that an assignment by k replaces, even by the same.
Replaced(k) ==
  IF k \in Clusterers THEN UNION {m.edges : m \in {x \in matched[k] : x.there}} ELSE {}

\* What is left in g of a match, if only the edges in kept have stayed.
StillMatched(m, g, kept) ==
  [m EXCEPT !.edges = @ \cap kept,
            !.there = @ /\ m.entity \in g.nodes /\ m.community \in g.communities]

\* g is the graph after a write by k, or by somebody who is not a job.
Writes(k, g) ==
  LET others == {j \in Clusterers \ {k} : step[j] # "idle"}
      kept == (net.inCommunity \ Replaced(k)) \cap g.inCommunity
      new == {x[1] : x \in g.inCommunity \ kept}
  IN /\ net' = g
     /\ disturbed' = IF g = net /\ Replaced(k) = {} THEN disturbed ELSE disturbed \cup others
     /\ matched' = [j \in Clusterers |->
          IF j = k THEN {} ELSE {StillMatched(m, g, kept) : m \in matched[j]}]
     /\ late' = (late \cup {j \in others : \E m \in matched[j] : m.entity \in new}) \ {k}

-----------------------------------------------------------------------------
(* Deciding.                                                               *)

\* The entities whose labels may reach an entity: labels change while a round of
\* votes goes on, so that one round may carry a label along a whole path.
Heard(g) ==
  LET h[i \in 0..Cardinality(Entities)] == [e \in Entities |->
        IF i = 0 THEN {e}
        ELSE h[i - 1][e] \cup UNION {h[i - 1][x] : x \in CommunityVoteNeighbors(g, e)}]
  IN h[Cardinality(Entities)]

Label(g, e) == IF g.community[e] = NoCommunity THEN e ELSE g.community[e]

\* Every label becomes a community id of its own: that of a community too.
StartsFull(k) ==
  /\ step[k] = "idle" /\ clusterings < MaxClusterings /\ clusterings + changes < MaxTurns
  /\ net.nodes # {}
  /\ \A e \in net.nodes : CommunityIdForLabel(Label(net, e)) \in Communities
  /\ \E voted \in [net.nodes -> net.nodes] :
       /\ \A e \in net.nodes : voted[e] \in Heard(net)[e]
       /\ target' = [target EXCEPT ![k] = [e \in Entities |->
            IF e \in net.nodes THEN CommunityIdForLabel(Label(net, voted[e]))
            ELSE NoCommunity]]
  /\ step' = [step EXCEPT ![k] = "upsert"]
  /\ todo' = [todo EXCEPT ![k] = {target'[k][e] : e \in net.nodes}]
  /\ disturbed' = disturbed \ {k}
  /\ clusterings' = clusterings + 1
  /\ UNCHANGED <<net, mergeVars, current, matchVars, doubled, changes>>

\* After an extraction, once there are communities: its entities join one of a
\* neighbour, or start their own (all the relations may have expired).
StartsIncremental(k, m) ==
  LET found == DialogueEntityIds(net, m)
      near(e) == {net.community[x] : x \in CommunityVoteNeighbors(net, e)} \ {NoCommunity}
      own(e) == near(e) \cup {CommunityIdForLabel(e)}
  IN /\ step[k] = "idle" /\ clusterings < MaxClusterings /\ clusterings + changes < MaxTurns
     /\ net.communities # {} /\ found # {}
     /\ \E join \in [found -> UNION {own(e) : e \in found}] :
          /\ \A e \in found : join[e] \in own(e)
          /\ target' = [target EXCEPT ![k] = [e \in Entities |->
               IF e \in found THEN join[e] ELSE NoCommunity]]
     /\ step' = [step EXCEPT ![k] = "join"]
     /\ todo' = [todo EXCEPT ![k] = found]
     /\ disturbed' = disturbed \ {k}
     /\ clusterings' = clusterings + 1
     /\ UNCHANGED <<net, mergeVars, current, matchVars, doubled, changes>>

-----------------------------------------------------------------------------
(* Writing.                                                                *)

Advances(k, from, to, rest) ==
  /\ step[k] = from
  /\ todo[k] = {}
  /\ step' = [step EXCEPT ![k] = to]
  /\ todo' = [todo EXCEPT ![k] = rest]

\* One transaction of a loop over todo.
Takes(k, from, x, g) ==
  /\ step[k] = from /\ x \in todo[k]
  /\ todo' = [todo EXCEPT ![k] = @ \ {x}]
  /\ Writes(k, g)
  /\ UNCHANGED <<step, target, mergeVars, current, doubled, clusterings, changes>>

Upserts(k, c) == Takes(k, "upsert", c, UpsertCommunity(net, c))
Refreshes(k, c) == Takes(k, "refresh", c, RefreshCommunityMemberCount(net, c))

\* An assignment matches first what it is going to write, without a lock.
Matches(k, e, c) ==
  /\ matched[k] = {}
  /\ matched' = [matched EXCEPT ![k] =
       {[entity |-> e, community |-> c, edges |-> EdgesOf(net, e),
         there |-> e \in net.nodes /\ c \in net.communities]}]
  /\ UNCHANGED <<net, step, todo, target, mergeVars, current, disturbed, late, doubled,
                 clusterings, changes>>

Assigns(k, e) == step[k] = "assign" /\ e \in todo[k] /\ Matches(k, e, target[k][e])

\* It then writes, if the entity and the community are still the ones it matched.
AssignsMatched(k) ==
  \E m \in matched[k] :
    /\ step' = [step EXCEPT ![k] = IF @ = "joining" THEN "joined" ELSE @]
    /\ todo' = [todo EXCEPT ![k] = @ \ {m.entity}]
    /\ Writes(k, IF m.there THEN AssignEntityCommunity(net, m.edges, m.entity, m.community)
                 ELSE net)
    /\ doubled' = CASE ~m.there -> doubled
                     [] m.there /\ k \in late -> doubled \cup {m.entity}
                     [] m.there /\ k \notin late -> doubled \ {m.entity}
    /\ UNCHANGED <<target, mergeVars, current, clusterings, changes>>

GoesOn(k) ==
  /\ \/ Advances(k, "upsert", "assign", Assigned(k))
     \/ Advances(k, "assign", "refresh", Targets(k))
  /\ UNCHANGED <<net, target, mergeVars, current, matchVars, disturbed, doubled, clusterings, changes>>

\* An entity joins in three transactions: its community is made, it is put
\* there, and that community is counted; the one it leaves is not.
Joins(k, e) ==
  /\ step[k] = "join" /\ e \in todo[k]
  /\ todo' = [todo EXCEPT ![k] = @ \ {e}]
  /\ current' = [current EXCEPT ![k] = <<e>>]
  /\ step' = [step EXCEPT ![k] = "joining"]
  /\ Writes(k, UpsertCommunity(net, target[k][e]))
  /\ UNCHANGED <<target, mergeVars, doubled, clusterings, changes>>

JoinsCommunity(k) ==
  step[k] = "joining" /\ Matches(k, current[k][1], target[k][current[k][1]])

CountsJoined(k) ==
  /\ step[k] = "joined"
  /\ step' = [step EXCEPT ![k] = IF todo[k] = {} THEN "done" ELSE "join"]
  /\ current' = [current EXCEPT ![k] = << >>]
  /\ Writes(k, RefreshCommunityMemberCount(net, target[k][current[k][1]]))
  /\ UNCHANGED <<todo, target, mergeVars, doubled, clusterings, changes>>

-----------------------------------------------------------------------------
(* Merging similar communities.                                            *)

\* Every pair (left, right) of a list of the communities, left before right, and
\* the one that comes first.
Pairs(s) ==
  {[at |-> p, left |-> s[p[1]], right |-> s[p[2]]] :
     p \in {q \in (DOMAIN s) \X (DOMAIN s) : q[1] < q[2]}}
Before(p, q) == p.at[1] < q.at[1] \/ (p.at[1] = q.at[1] /\ p.at[2] < q.at[2])
First(P) == {p \in P : \A q \in P \ {p} : Before(p, q)}

\* Members and their average embeddings are read once, before any merge.
ReadsMembers(k) ==
  /\ Advances(k, "refresh", "merge", {})
  /\ members' = [members EXCEPT ![k] = [c \in Communities |->
       IF c \in Targets(k) THEN CommunityMembers(net, c) ELSE {}]]
  /\ similar' \in {[similar EXCEPT ![k] = S] : S \in SUBSET kSubset(2, Targets(k))}
  /\ \E s \in SetToSeqs(Targets(k)) : pairs' = [pairs EXCEPT ![k] = Pairs(s)]
  /\ into' = [into EXCEPT ![k] = [c \in Communities |-> c]]
  /\ UNCHANGED <<net, target, current, matchVars, disturbed, doubled, clusterings, changes>>

\* Where a community went: the one on its way that was not dissolved itself.
Root(k, c) ==
  CHOOSE r \in Targets(k) :
    /\ into[k][r] = r
    /\ \A S \in SUBSET Targets(k) : c \in S /\ (\A x \in S : into[k][x] \in S) => r \in S

\* The sizes add up as communities are merged; the member lists stay as read.
Size(k, c) == Cardinality(UNION {members[k][x] : x \in {y \in Targets(k) : Root(k, y) = c}})

\* The next pair: nothing for one community or two that are not similar; else
\* the members that the smaller one had when they were read move to the other.
ComparesPair(k) ==
  \E p \in First(pairs[k]) :
    LET l == Root(k, p.left)
        r == Root(k, p.right)
        keep == IF Size(k, l) >= Size(k, r) THEN l ELSE r
        dissolve == IF keep = l THEN r ELSE l
    IN /\ step[k] = "merge" /\ todo[k] = {}
       /\ pairs' = [pairs EXCEPT ![k] = @ \ {p}]
       /\ IF l = r \/ {l, r} \notin similar[k]
          THEN UNCHANGED <<into, step, todo, current>>
          ELSE /\ into' = [into EXCEPT ![k][dissolve] = keep]
               /\ current' = [current EXCEPT ![k] = <<keep, dissolve>>]
               /\ step' = [step EXCEPT ![k] = "moving"]
               /\ todo' = [todo EXCEPT ![k] = members[k][dissolve]]
       /\ UNCHANGED <<net, target, members, similar, matchVars, disturbed, doubled, clusterings,
                      changes>>

MovesMember(k, e) == step[k] = "moving" /\ e \in todo[k] /\ Matches(k, e, current[k][1])

\* The community that grew is counted, and then the one that was dissolved.
CountsKept(k) ==
  /\ Advances(k, "moving", "moved", {})
  /\ Writes(k, RefreshCommunityMemberCount(net, current[k][1]))
  /\ UNCHANGED <<target, mergeVars, current, doubled, clusterings, changes>>

CountsDissolved(k) ==
  /\ Advances(k, "moved", "merge", {})
  /\ current' = [current EXCEPT ![k] = << >>]
  /\ Writes(k, RefreshCommunityMemberCount(net, current[k][2]))
  /\ UNCHANGED <<target, mergeVars, doubled, clusterings, changes>>

\* Names and summaries are not modelled; the communities counted empty go.
Prunes(k) ==
  /\ step[k] = "merge" /\ pairs[k] = {}
  /\ step' = [step EXCEPT ![k] = "settled"]
  /\ Writes(k, PruneEmptyCommunities(net))
  /\ UNCHANGED <<todo, target, mergeVars, current, doubled, clusterings, changes>>

Finishes(k) ==
  /\ step[k] # "idle"   \* done or settled, or the worker died
  /\ step' = [step EXCEPT ![k] = "idle"]
  /\ todo' = [todo EXCEPT ![k] = {}]
  /\ target' = [target EXCEPT ![k] = NoTarget]
  /\ members' = [members EXCEPT ![k] = [c \in Communities |-> {}]]
  /\ similar' = [similar EXCEPT ![k] = {}]
  /\ pairs' = [pairs EXCEPT ![k] = {}]
  /\ into' = [into EXCEPT ![k] = [c \in Communities |-> c]]
  /\ current' = [current EXCEPT ![k] = << >>]
  /\ matched' = [matched EXCEPT ![k] = {}]
  /\ late' = late \ {k}
  /\ UNCHANGED <<net, disturbed, doubled, clusterings, changes>>

-----------------------------------------------------------------------------
(* The other users of the graph.                                           *)

Changes(g) ==
  /\ clusterings + changes < MaxTurns
  /\ changes' = changes + 1
  /\ Writes("other", g)
  /\ UNCHANGED <<step, todo, target, mergeVars, current, clusterings>>

Learns(m) ==
  /\ Changes(SaveGraph(net, m, Learned[m]))
  /\ UNCHANGED doubled

Forgets(e) ==
  /\ e \in net.nodes
  /\ Changes(DeleteEntity(net, e))
  /\ doubled' = doubled \ {e}

MergesNodes ==
  \E k \in Keepers(net) :
    /\ Changes(MergeDuplicateEntities(net, k))
    /\ doubled' = (doubled \cup {k[e] : e \in {x \in net.nodes : k[x] # x}})
                    \cap {k[e] : e \in net.nodes}

Clusters(k) ==
  \/ StartsFull(k) \/ \E m \in Memories : StartsIncremental(k, m)
  \/ \E c \in Communities : Upserts(k, c) \/ Refreshes(k, c)
  \/ \E e \in Entities : Assigns(k, e) \/ Joins(k, e) \/ MovesMember(k, e)
  \/ AssignsMatched(k) \/ GoesOn(k) \/ JoinsCommunity(k) \/ CountsJoined(k) \/ ReadsMembers(k)
  \/ ComparesPair(k) \/ CountsKept(k) \/ CountsDissolved(k) \/ Prunes(k) \/ Finishes(k)

ClusteringNext ==
  \/ \E k \in Clusterers : Clusters(k)
  \/ \E m \in Memories : Learns(m)
  \/ \E e \in Entities : Forgets(e)
  \/ MergesNodes

ClusteringSpec == ClusteringInit /\ [][ClusteringNext]_clusteringVars

-----------------------------------------------------------------------------
(* Properties.                                                             *)

\* However jobs overlap, an entity is in no community but the one it names.  Two
\* things can put it into several, until it is next assigned: merging duplicates,
\* and an assignment that matched the edges to delete before another one gave the
\* entity an edge (assign_entity_community).
OneCommunityPerEntity ==
  \A e \in net.nodes \ doubled : \A x \in EdgesOf(net, e) : x[2] = net.community[e]

\* A clustering that nobody disturbed leaves every entity it decided on in one
\* community, by property and by edge alike.  After a full one every community with
\* members is counted right, and one that was dissolved is gone, unless it had itself
\* kept another's members: those are not moved a second time, because the member
\* lists are those of before the merges (_full_cluster, _merge_communities).
UndisturbedClusteringSettles ==
  \A k \in Clusterers : step[k] \in {"done", "settled"} /\ k \notin disturbed =>
    /\ \A e \in Assigned(k) :
         /\ net.community[e] \in net.communities
         /\ {x[2] : x \in {y \in net.inCommunity : y[1] = e}} = {net.community[e]}
    /\ step[k] = "settled" =>
         /\ \A c \in {net.community[e] : e \in Assigned(k)} :
              net.memberCount[c] = Cardinality(CommunityMembers(net, c))
         /\ \A c \in Targets(k) :
              into[k][c] # c /\ (\A x \in Targets(k) \ {c} : into[k][x] # c)
                => c \notin net.communities
=============================================================================
