------------------------------ MODULE MCServices ------------------------------
(***************************************************************************)
(* The parts of the system beside the agent: long-term memory, its         *)
(* clustering and its views, configuration, sessions, tool clients,        *)
(* accounts, the clients of a process and the files of a session.  They    *)
(* share no state here, so a behaviour moves one of them and leaves the    *)
(* others where they began: one run then checks every part by itself.      *)
(***************************************************************************)
EXTENDS MemoryJobs, MemoryClustering, MemoryViews, AppConfig, SessionStore, ToolClients, Accounts,
        ProcessClients, SandboxFiles

CONSTANTS m1, e1, e2, e3, ann, bob, i1, i2, k1, k2, Actors

VARIABLE part

AllParts == {"memory", "clustering", "views", "config", "sessions", "tools", "accounts", "processes",
             "files"}

Init ==
  /\ part \in AllParts
  /\ MemoryInit /\ ClusteringInit /\ ViewsInit /\ ConfigInit /\ SessionsInit /\ ToolsInit /\ AccountsInit
  /\ ProcessInit /\ FilesInit
  /\ part # "clustering" => net = CHOOSE g \in Known : TRUE
  /\ part # "config" => keyed

\* Only part p takes steps.
Only(p) ==
  /\ part = p /\ UNCHANGED part
  /\ p # "memory" => UNCHANGED memoryVars
  /\ p # "clustering" => UNCHANGED clusteringVars
  /\ p # "views" => UNCHANGED viewVars
  /\ p # "config" => UNCHANGED configVars
  /\ p # "sessions" => UNCHANGED sessionVars
  /\ p # "tools" => UNCHANGED toolVars
  /\ p # "accounts" => UNCHANGED accountVars
  /\ p # "processes" => UNCHANGED processVars
  /\ p # "files" => UNCHANGED fileVars

Next ==
  \/ Only("memory") /\ MemoryNext
  \/ Only("clustering") /\ ClusteringNext
  \/ Only("views") /\ ViewsNext
  \/ Only("config") /\ ConfigNext
  \/ Only("sessions") /\ SessionsNext
  \/ Only("tools") /\ ToolsNext
  \/ Only("accounts") /\ AccountsNext
  \/ Only("processes") /\ ProcessNext
  \/ Only("files") /\ FilesNext

Spec == Init /\ [][Next]_<<part, memoryVars, clusteringVars, viewVars, configVars,
                           sessionVars, toolVars, accountVars, processVars, fileVars>>

-----------------------------------------------------------------------------
(* Values of the constants.                                                *)

\* Two nodes were once made of one name.
MCNameOf == (e1 :> ann) @@ (e2 :> ann) @@ (e3 :> bob)
MCStableId == (ann :> e1) @@ (bob :> e3)
MCSimilar == {<<ann, bob>>}

\* What the model may answer for a text: nothing, or bob, who may be taken for ann.
Extraction(stated, names, triplets, events) ==
  [stated |-> stated, names |-> names, triplets |-> triplets, events |-> events]
MCExtractions ==
  {Extraction(FALSE, {}, {}, {}), Extraction(TRUE, {ann, bob}, {<<ann, bob>>}, {{bob}})}

\* Graphs to cluster, one for the first time, and what a re-extraction adds.
GraphOf(nodes, edges) ==
  [EmptyGraph EXCEPT !.dialogues = {m1}, !.statements = {m1}, !.nodes = nodes,
     !.mentions = {m1} \X nodes, !.relations = {<<x[1], x[2], m1>> : x \in edges},
     !.mentionCount = [e \in Entities |-> 1]]
Clustered(g, c) ==
  [g EXCEPT !.communities = {c}, !.inCommunity = g.nodes \X {c},
     !.community = [e \in Entities |-> IF e \in g.nodes THEN c ELSE NoCommunity],
     !.memberCount = [x \in Communities |-> IF x = c THEN Cardinality(g.nodes) ELSE 0]]
MCKnown ==
  {GraphOf({e1, e2, e3}, {<<e1, e3>>, <<e2, e3>>}),
   Clustered(GraphOf({e1, e3}, {<<e1, e3>>}), CommunityIdForLabel(e1))}
MCLearned ==
  m1 :> [NoDraft EXCEPT !.stated = {m1}, !.entities = {e1, e3}, !.mentions = {m1} \X {e1, e3},
                        !.relations = {<<e1, e3, m1>>}, !.mentionCount = [e \in Entities |-> 2]]

\* A graph with a community, an event and an insight to look at.
MCTypeOf == (ann :> "person") @@ (bob :> "place")
MCWorlds ==
  {[Clustered(GraphOf({e1, e2, e3}, {<<e1, e2>>, <<e1, e3>>, <<e3, e2>>}), CommunityIdForLabel(e1))
      EXCEPT !.events = {m1}, !.involves = {<<m1, e1>>}]}

\* The configuration file that the first startup finds.
MCOldFile == [CreateDefaultAppConfig EXCEPT !["llm_config"].key = Plain("k")]

\* Two identities with one name, that is the administrator's too.
MCUserName == [i \in Identities |-> "admin"]
MCFallbacks == [i \in Identities |-> <<IF i = i1 THEN "first" ELSE "second", "admin_2">>]

Symmetry == Permutations(Actors) \cup Permutations(Contents)

\* A graph that two clustering jobs work on has at most two entities.
ClusteringsFit ==
  clusterings < 2 \/ \A k \in Clusterers : Cardinality(net.nodes \cup Assigned(k)) < 3
=============================================================================
