------------------------------ MODULE RunnerProofs ------------------------------
(***************************************************************************)
(* What holds of what a task runner holds: of its clients for any servers, *)
(* any number of runs, and a shutdown at any moment; of its sandbox for    *)
(* any number of containers, that may end by themselves, and of the files  *)
(* it copies, wherever a copy is cut short.  And of what a process holds,  *)
(* for any number of jobs and any failures.                                *)
(***************************************************************************)
EXTENDS ToolClients, SandboxFiles, ProcessClients, FiniteSetTheorems, SequenceTheorems, TLAPS

McpManagers == [clients : SUBSET McpServers, tools : SUBSET McpServers]
A2aManagers == [client : {"open", "closed"}, cards : SUBSET A2aServers]

\* No manager is NoManager.
LEMMA ManagersExist == NoManager \notin McpManagers /\ NoManager \notin A2aManagers
  BY NoManagerAssumption DEF NoManagerAssumption, McpManagers, A2aManagers

-----------------------------------------------------------------------------
(* The http client.                                                        *)

A2aTyped ==
  a2aTool \in [initialized : BOOLEAN, manager : {NoManager} \cup A2aManagers]

\* A run that has yet to open its own client finds none open.
ClosedBefore ==
  stage \in {"idle", "sandbox", "mcp", "mcp ready"} /\ a2aTool.manager # NoManager =>
    a2aTool.manager.client = "closed"

A2aInv ==
  /\ A2aTyped
  /\ ClosedBefore
  /\ stage = "a2a" /\ destroying = "no" => a2aTool.manager # NoManager

\* Cleaning up leaves a tool whose client, if it had one, is closed.
LEMMA CleanedUp ==
  ASSUME NEW t \in [initialized : BOOLEAN, manager : {NoManager} \cup A2aManagers],
         NEW u \in A2aManagerCleanups(t)
  PROVE  /\ u \in [initialized : BOOLEAN, manager : {NoManager} \cup A2aManagers]
         /\ u.manager # NoManager => u.manager.client = "closed"
  <1>1. CASE t.manager = NoManager
    BY <1>1 DEF A2aManagerCleanups
  <1>2. CASE t.manager # NoManager
    <2>1. PICK c \in {{}, t.manager.cards} :
            u = [t EXCEPT !.manager = [client |-> "closed", cards |-> c]]
      BY <1>2 DEF A2aManagerCleanups
    <2>2. t.manager \in A2aManagers
      BY <1>2
    <2>3. c \in SUBSET A2aServers
      BY <2>1, <2>2 DEF A2aManagers
    <2>4. [client |-> "closed", cards |-> c] \in A2aManagers
      BY <2>3 DEF A2aManagers
    <2> QED
      BY <2>1, <2>4
  <1> QED
    BY <1>1, <1>2

\* Every step keeps the invariant of the http client.
LEMMA A2aStep ==
  ASSUME A2aInv, [ToolsNext]_toolVars
  PROVE  A2aInv'
  <1> USE DEF A2aInv, A2aTyped, ClosedBefore
  <1>1. CASE StartsRun
    BY <1>1 DEF StartsRun, RunsAt
  <1>2. CASE InitializesMcp
    BY <1>2 DEF InitializesMcp, RunsAt
  <1>3. CASE OffersMcpTools
    BY <1>3 DEF OffersMcpTools, RunsAt
  <1>4. CASE InitializesA2a
    <2>1. CASE stage' = "flow" /\ UNCHANGED a2aTool
      BY <1>4, <2>1 DEF InitializesA2a
    <2>2. CASE /\ stage' = "a2a"
               /\ a2aTool' = [a2aTool EXCEPT !.manager = [client |-> "open", cards |-> {}]]
      <3> DEFINE m == [client |-> "open", cards |-> {}]
      <3>1. m \in A2aManagers
        BY DEF A2aManagers
      <3> HIDE DEF m
      <3>2. a2aTool' = [a2aTool EXCEPT !.manager = m]
        BY <2>2 DEF m
      <3>3. a2aTool'.manager = m /\ A2aTyped'
        BY <3>1, <3>2
      <3> QED
        BY <2>2, <3>1, <3>3, ManagersExist
    <2> QED
      BY <1>4, <2>1, <2>2 DEF InitializesA2a
  <1>5. CASE A2aReady
    BY <1>5 DEF A2aReady, RunsAt
  <1>6. CASE RunEnds
    BY <1>6 DEF RunEnds
  <1>7. ASSUME NEW s \in McpServers, ConnectsMcpServer(s)
        PROVE  A2aInv'
    BY <1>7 DEF ConnectsMcpServer, RunsAt
  <1>8. ASSUME NEW s \in A2aServers, GetsAgentCard(s)
        PROVE  A2aInv'
    <2>1. stage = "a2a" /\ stage' = "a2a"
      BY <1>8 DEF GetsAgentCard, RunsAt
    <2>2. CASE UNCHANGED a2aTool
      BY <1>8, <2>2 DEF GetsAgentCard, RunsAt
    <2>3. CASE a2aTool' = [a2aTool EXCEPT !.manager.cards = @ \cup {s}]
      <3> DEFINE m == [a2aTool.manager EXCEPT !.cards = @ \cup {s}]
      <3>1. a2aTool.manager \in A2aManagers
        BY <1>8, <2>1 DEF GetsAgentCard, RunsAt
      <3>2. m \in A2aManagers
        BY <3>1 DEF A2aManagers
      <3>3. a2aTool' = [a2aTool EXCEPT !.manager = m]
        BY <2>3
      <3> HIDE DEF m
      <3>4. a2aTool'.manager = m /\ A2aTyped'
        BY <3>2, <3>3
      <3> QED
        BY <2>1, <3>2, <3>4, ManagersExist
    <2> QED
      BY <1>8, <2>2, <2>3 DEF GetsAgentCard
  <1>9. CASE CleansMcp
    BY <1>9 DEF CleansMcp
  <1>10. CASE CleansA2a
    BY <1>10, CleanedUp DEF CleansA2a
  <1>11. CASE DestroysRunner
    BY <1>11 DEF DestroysRunner
  <1>12. CASE DestroyCleansMcp
    BY <1>12 DEF DestroyCleansMcp
  <1>13. CASE DestroyCleansA2a
    BY <1>13, CleanedUp DEF DestroyCleansA2a
  <1>14. CASE UNCHANGED toolVars
    BY <1>14 DEF toolVars
  <1> QED
    BY <1>1, <1>2, <1>3, <1>4, <1>5, <1>6, <1>7, <1>8, <1>9, <1>10, <1>11, <1>12, <1>13, <1>14
    DEF ToolsNext

\* No http client is left open between the runs, however they end and whenever
\* the runner is destroyed.
THEOREM ClientOnlyInRun == ToolsSpec => []A2aClientOnlyInRun
  <1>1. ToolsInit => A2aInv
    BY DEF ToolsInit, A2aInv, A2aTyped, ClosedBefore
  <1>2. A2aInv /\ [ToolsNext]_toolVars => A2aInv'
    BY A2aStep
  <1>3. A2aInv => A2aClientOnlyInRun
    BY DEF A2aInv, ClosedBefore, A2aClientOnlyInRun
  <1> QED
    BY <1>1, <1>2, <1>3, PTL DEF ToolsSpec

-----------------------------------------------------------------------------
(* The tools of the MCP servers.                                           *)

McpTyped ==
  mcpTool \in [initialized : BOOLEAN, manager : {NoManager} \cup McpManagers,
               offered : SUBSET McpServers]

\* A tool that says it is initialised has a manager connected to all it offers.
Connected ==
  mcpTool.initialized =>
    mcpTool.manager # NoManager /\ mcpTool.offered \subseteq mcpTool.manager.clients

McpInv ==
  /\ McpTyped
  /\ Connected
  /\ mcpTool.manager # NoManager => mcpTool.manager.tools \subseteq mcpTool.manager.clients
  /\ destroying = "no" =>
       /\ stage = "mcp" => mcpTool.manager # NoManager
       /\ stage \in {"mcp ready", "a2a", "flow"} => mcpTool.initialized

\* Cleaning up leaves a tool that says it is not initialised, or had no manager.
LEMMA McpCleanedUp ==
  ASSUME McpInv, mcpTool' = McpToolCleanup(mcpTool)
  PROVE  /\ McpTyped' /\ Connected'
         /\ mcpTool'.manager # NoManager =>
              mcpTool'.manager.tools \subseteq mcpTool'.manager.clients
  BY DEF McpInv, McpTyped, Connected, McpToolCleanup

\* A server adds itself to the clients of the manager, and its tools to the tools.
LEMMA McpConnects ==
  ASSUME NEW m \in McpManagers, NEW s \in McpServers, NEW listed \in SUBSET {s},
         m.tools \subseteq m.clients
  PROVE  LET n == [m EXCEPT !.clients = @ \cup {s}, !.tools = @ \cup listed]
         IN n \in McpManagers /\ n.tools \subseteq n.clients
            /\ m.clients \subseteq n.clients
  BY DEF McpManagers

\* Every step keeps the invariant of the tools.
LEMMA McpStep ==
  ASSUME McpInv, [ToolsNext]_toolVars
  PROVE  McpInv'
  <1> USE DEF McpInv, McpTyped, Connected
  <1>1. CASE StartsRun
    BY <1>1 DEF StartsRun, RunsAt
  <1>2. CASE InitializesMcp
    <2>1. stage = "sandbox" /\ destroying = "no" /\ UNCHANGED destroying
      BY <1>2 DEF InitializesMcp, RunsAt
    <2>2. CASE mcpTool.initialized
      BY <1>2, <2>1, <2>2 DEF InitializesMcp
    <2>3. CASE ~mcpTool.initialized
      <3> DEFINE m == [clients |-> {}, tools |-> {}]
      <3>1. m \in McpManagers /\ m.tools \subseteq m.clients
        BY DEF McpManagers
      <3>2. stage' = "mcp" /\ mcpTool' = [mcpTool EXCEPT !.manager = m]
        BY <1>2, <2>3 DEF InitializesMcp
      <3> HIDE DEF m
      <3>3. mcpTool'.manager = m /\ McpTyped' /\ mcpTool'.initialized = mcpTool.initialized
        BY <3>1, <3>2
      <3> QED
        BY <2>3, <3>1, <3>2, <3>3, ManagersExist
    <2> QED
      BY <2>2, <2>3
  <1>3. CASE OffersMcpTools
    <2>1. stage = "mcp" /\ destroying = "no" /\ UNCHANGED destroying /\ stage' = "mcp ready"
      BY <1>3 DEF OffersMcpTools, RunsAt
    <2>2. mcpTool' = [mcpTool EXCEPT !.initialized = TRUE, !.offered = mcpTool.manager.tools]
      BY <1>3 DEF OffersMcpTools
    <2>3. mcpTool.manager \in McpManagers
      BY <2>1
    <2>4. mcpTool.manager.tools \in SUBSET McpServers
      BY <2>3 DEF McpManagers
    <2>5. /\ mcpTool'.initialized = TRUE /\ mcpTool'.manager = mcpTool.manager
          /\ mcpTool'.offered = mcpTool.manager.tools /\ McpTyped'
      BY <2>2, <2>3, <2>4
    <2> QED
      BY <2>1, <2>3, <2>5
  <1>4. CASE InitializesA2a
    BY <1>4 DEF InitializesA2a, RunsAt
  <1>5. CASE A2aReady
    BY <1>5 DEF A2aReady, RunsAt
  <1>6. CASE RunEnds
    BY <1>6 DEF RunEnds
  <1>7. ASSUME NEW s \in McpServers, ConnectsMcpServer(s)
        PROVE  McpInv'
    <2>1. stage = "mcp" /\ destroying = "no" /\ UNCHANGED <<destroying, stage>>
      BY <1>7 DEF ConnectsMcpServer, RunsAt
    <2>2. CASE UNCHANGED mcpTool
      BY <2>1, <2>2
    <2>3. CASE \E listed \in SUBSET {s} :
                 mcpTool' = [mcpTool EXCEPT !.manager.clients = @ \cup {s},
                                            !.manager.tools = @ \cup listed]
      <3>1. PICK listed \in SUBSET {s} :
              mcpTool' = [mcpTool EXCEPT !.manager.clients = @ \cup {s},
                                         !.manager.tools = @ \cup listed]
        BY <2>3
      <3> DEFINE m == [mcpTool.manager EXCEPT !.clients = @ \cup {s}, !.tools = @ \cup listed]
      <3>2. mcpTool.manager \in McpManagers /\ mcpTool.manager.tools \subseteq mcpTool.manager.clients
        BY <2>1
      <3>3. /\ m \in McpManagers /\ m.tools \subseteq m.clients
            /\ mcpTool.manager.clients \subseteq m.clients
        BY <3>2, McpConnects
      <3>4. mcpTool' = [mcpTool EXCEPT !.manager = m]
        BY <3>1
      <3> HIDE DEF m
      <3>5. /\ mcpTool'.manager = m /\ McpTyped' /\ mcpTool'.initialized = mcpTool.initialized
            /\ mcpTool'.offered = mcpTool.offered
        BY <3>3, <3>4
      <3> QED
        BY <2>1, <3>2, <3>3, <3>5, ManagersExist
    <2> QED
      BY <1>7, <2>2, <2>3 DEF ConnectsMcpServer
  <1>8. ASSUME NEW s \in A2aServers, GetsAgentCard(s)
        PROVE  McpInv'
    BY <1>8 DEF GetsAgentCard, RunsAt
  <1>9. CASE CleansMcp
    BY <1>9, McpCleanedUp DEF CleansMcp
  <1>10. CASE CleansA2a
    BY <1>10 DEF CleansA2a
  <1>11. CASE DestroysRunner
    BY <1>11 DEF DestroysRunner
  <1>12. CASE DestroyCleansMcp
    BY <1>12, McpCleanedUp DEF DestroyCleansMcp
  <1>13. CASE DestroyCleansA2a
    BY <1>13 DEF DestroyCleansA2a
  <1>14. CASE UNCHANGED toolVars
    BY <1>14 DEF toolVars
  <1> QED
    BY <1>1, <1>2, <1>3, <1>4, <1>5, <1>6, <1>7, <1>8, <1>9, <1>10, <1>11, <1>12, <1>13, <1>14
    DEF ToolsNext

\* The model is offered no tool of a server that its run is not connected to,
\* however the runs before it ended.
THEOREM OfferedAreConnected == ToolsSpec => []OfferedToolsAreConnected
  <1>1. ToolsInit => McpInv
    BY DEF ToolsInit, McpInv, McpTyped, Connected
  <1>2. McpInv /\ [ToolsNext]_toolVars => McpInv'
    BY McpStep
  <1>3. McpInv => OfferedToolsAreConnected
    BY DEF McpInv, Connected, OfferedToolsAreConnected
  <1> QED
    BY <1>1, <1>2, <1>3, PTL DEF ToolsSpec
-----------------------------------------------------------------------------
(* The sandbox.                                                            *)

RunnerShaped ==
  runner = [at |-> runner.at, box |-> runner.box, path |-> runner.path, id |-> runner.id,
            data |-> runner.data]

\* The sandbox of a runner that is under way is the session's, and one that is not
\* there has none.
BoxInv ==
  /\ RunnerShaped
  /\ born \in Nat /\ running \subseteq Boxes
  /\ RunningSandboxesAreKnown
  /\ runner.at \notin {"none", "creating"} => runner.box = sandboxId
  /\ runner.at = "none" => runner.box = NoBox

\* No runner, and one at work with the same sandbox.
LEMMA RunnerValues ==
  /\ NoRunner.at = "none" /\ NoRunner.box = NoBox
  /\ NoRunner = [at |-> NoRunner.at, box |-> NoRunner.box, path |-> NoRunner.path,
                 id |-> NoRunner.id, data |-> NoRunner.data]
  /\ Working.at = "working" /\ Working.box = runner.box
  /\ Working = [at |-> Working.at, box |-> Working.box, path |-> Working.path,
                id |-> Working.id, data |-> Working.data]
  /\ NoRunner.path = UploadPath /\ Working.path = UploadPath
  <1>1. NoRunner = [at |-> "none", box |-> NoBox, path |-> UploadPath, id |-> NoFile,
                    data |-> Absent]
    BY DEF NoRunner
  <1>2. Working = [at |-> "working", box |-> runner.box, path |-> UploadPath, id |-> NoFile,
                   data |-> Absent]
    <2> DEFINE r == [NoRunner EXCEPT !.at = "working"]
    <2>1. r = [at |-> "working", box |-> NoBox, path |-> UploadPath, id |-> NoFile,
               data |-> Absent]
      BY DEF NoRunner
    <2>2. Working = [r EXCEPT !.box = runner.box]
      BY DEF Working
    <2> HIDE DEF r
    <2> QED
      BY <2>1, <2>2
  <1> QED
    BY <1>1, <1>2

\* A runner that goes on with the session's sandbox keeps the invariant while
\* containers and row stay, and so does one that ends.
LEMMA RunnerGoesOn ==
  ASSUME BoxInv, UNCHANGED <<born, sandboxId, forgotten>>, running' \subseteq running,
         runner.at \notin {"none", "creating"},
         \/ runner' = NoRunner
         \/ runner' = Working
         \/ runner' = runner
         \/ RunnerShaped' /\ runner'.box = runner.box /\ runner'.at \notin {"none", "creating"}
  PROVE  BoxInv'
  <1>1. RunnerShaped'
    BY RunnerValues DEF BoxInv, RunnerShaped
  <1>2. runner'.at = "none" => runner'.box = NoBox
    BY RunnerValues DEF BoxInv
  <1>3. runner'.at \notin {"none", "creating"} => runner'.box = sandboxId'
    BY RunnerValues DEF BoxInv
  <1>4. runner.box = sandboxId
    BY DEF BoxInv
  <1>5. RunningSandboxesAreKnown' /\ born' \in Nat /\ running' \subseteq Boxes
    BY <1>4 DEF BoxInv, RunningSandboxesAreKnown
  <1> QED
    BY <1>1, <1>2, <1>3, <1>5 DEF BoxInv

\* A container that starts has a number of its own.
LEMMA ContainerStarts ==
  ASSUME BoxInv, StartsContainer
  PROVE  /\ born' \in Nat /\ born' \in Boxes
         /\ running' = running \cup {born'} /\ running' \subseteq Boxes
  BY SandboxAssumption DEF SandboxAssumption, BoxInv, StartsContainer, Boxes

\* Every step keeps the invariant of the sandbox.
LEMMA BoxStep ==
  ASSUME BoxInv, [FilesNext]_fileVars
  PROVE  BoxInv'
  <1>1. CASE CreateFails
    <2>1. /\ runner.at = "none" /\ UNCHANGED <<runner, sandboxId>>
          /\ StartsContainer /\ forgotten' = forgotten \cup {born'}
      BY <1>1 DEF CreateFails
    <2> QED
      BY <2>1, ContainerStarts DEF BoxInv, RunnerShaped, RunningSandboxesAreKnown
  <1>2. CASE ObtainsSandbox
    <2>1. runner.at = "none" /\ UNCHANGED <<sandboxId, forgotten>>
      BY <1>2 DEF ObtainsSandbox
    <2>2. running \subseteq {sandboxId} \cup forgotten
      BY <2>1, SandboxAssumption DEF SandboxAssumption, BoxInv, RunningSandboxesAreKnown
    <2>3. CASE UNCHANGED <<running, born>>
               /\ \E b : runner' = [runner EXCEPT !.at = "creating", !.box = b]
      <3>1. RunnerShaped' /\ runner'.at = "creating"
        BY <2>3 DEF BoxInv, RunnerShaped
      <3> QED
        BY <2>1, <2>2, <2>3, <3>1 DEF BoxInv, RunningSandboxesAreKnown
    <2>4. CASE StartsContainer /\ runner' = [runner EXCEPT !.at = "creating", !.box = born']
      <3>1. RunnerShaped' /\ runner'.at = "creating" /\ runner'.box = born'
        BY <2>4 DEF BoxInv, RunnerShaped
      <3> QED
        BY <2>1, <2>2, <2>4, <3>1, ContainerStarts DEF BoxInv, RunningSandboxesAreKnown
    <2> QED
      BY <1>2, <2>3, <2>4 DEF ObtainsSandbox
  <1>3. CASE SavesSandboxId
    <2>1. /\ sandboxId' = runner.box /\ UNCHANGED <<running, born>>
          /\ forgotten' = forgotten \cup ((running \cap {sandboxId}) \ {runner.box})
          /\ runner' = [runner EXCEPT !.at = "created"]
      BY <1>3 DEF SavesSandboxId, IdToSave
    <2>2. RunnerShaped' /\ runner'.at = "created" /\ runner'.box = runner.box
      BY <2>1 DEF BoxInv, RunnerShaped
    <2> QED
      BY <2>1, <2>2 DEF BoxInv, RunningSandboxesAreKnown
  <1>4. CASE CreationCut
    <2>1. /\ forgotten' = forgotten \cup ({runner.box} \ {sandboxId})
          /\ runner' = NoRunner /\ UNCHANGED <<running, born, sandboxId>>
      BY <1>4 DEF CreationCut
    <2> QED
      BY <2>1, RunnerValues DEF BoxInv, RunnerShaped, RunningSandboxesAreKnown
  <1>5. ASSUME NEW b \in Boxes, ContainerStops(b)
        PROVE  BoxInv'
    BY <1>5 DEF ContainerStops, BoxInv, RunnerShaped, RunningSandboxesAreKnown
  <1>6. CASE EnsuresSandbox
    BY <1>6, RunnerGoesOn DEF EnsuresSandbox, boxVars
  <1>7. CASE DestroysSandbox
    BY <1>7, RunnerGoesOn DEF DestroysSandbox
  <1>8. CASE AddsAttachment \/ AddsCopy \/ CopyFails \/ RunLeaves
    BY <1>8, RunnerGoesOn DEF AddsAttachment, AddsCopy, CopyFails, RunLeaves, boxVars
  <1>9. ASSUME NEW c \in Contents, UserUploads(c)
        PROVE  BoxInv'
    BY <1>9 DEF UserUploads, boxVars, BoxInv, RunnerShaped, RunningSandboxesAreKnown
  <1>10. ASSUME NEW f \in FileIds, DownloadsAttachment(f)
         PROVE  BoxInv'
    <2>1. PICK d : runner' = [runner EXCEPT !.at = "fetched", !.id = f, !.data = d]
      BY <1>10 DEF DownloadsAttachment
    <2>2. RunnerShaped' /\ runner'.box = runner.box /\ runner'.at = "fetched"
      BY <2>1 DEF BoxInv, RunnerShaped
    <2> QED
      BY <1>10, <2>2, RunnerGoesOn DEF DownloadsAttachment, boxVars
  <1>11. ASSUME NEW p \in Paths, TouchesFile(p)
         PROVE  BoxInv'
    <2>1. runner.at = "working" /\ UNCHANGED <<running, born, sandboxId, forgotten>>
      BY <1>11 DEF TouchesFile
    <2>2. PICK i : runner' = [runner EXCEPT !.at = "found", !.path = p, !.id = i]
      BY <1>11 DEF TouchesFile
    <2>3. RunnerShaped' /\ runner'.box = runner.box /\ runner'.at = "found"
      BY <2>2 DEF BoxInv, RunnerShaped
    <2> QED
      BY <2>1, <2>3, RunnerGoesOn
  <1>12. ASSUME NEW p \in Paths, NEW c \in Contents, RunsShell(p, c)
         PROVE  BoxInv'
    BY <1>12, RunnerGoesOn DEF RunsShell
  <1>13. CASE DownloadsFile
    <2>1. PICK d : runner' = [runner EXCEPT !.at = "loaded", !.data = d]
      BY <1>13 DEF DownloadsFile
    <2>2. RunnerShaped' /\ runner'.box = runner.box /\ runner'.at = "loaded"
      BY <2>1 DEF BoxInv, RunnerShaped
    <2> QED
      BY <1>13, <2>2, RunnerGoesOn DEF DownloadsFile, boxVars
  <1>14. CASE RemovesOldCopy
    <2>1. runner' = [runner EXCEPT !.at = "removed"]
      BY <1>14 DEF RemovesOldCopy
    <2>2. RunnerShaped' /\ runner'.box = runner.box /\ runner'.at = "removed"
      BY <2>1 DEF BoxInv, RunnerShaped
    <2> QED
      BY <1>14, <2>2, RunnerGoesOn DEF RemovesOldCopy, boxVars
  <1>15. CASE UploadsCopy
    <2>1. runner.at = "removed" /\ UNCHANGED <<running, born, sandboxId, forgotten>>
      BY <1>15 DEF UploadsCopy, boxVars
    <2>2. \/ \E i : runner' = [runner EXCEPT !.at = "stored", !.id = i]
          \/ runner' = [runner EXCEPT !.at = "working"]
      BY <1>15 DEF UploadsCopy
    <2>3. RunnerShaped' /\ runner'.box = runner.box /\ runner'.at \in {"stored", "working"}
      BY <2>2 DEF BoxInv, RunnerShaped
    <2> QED
      BY <2>1, <2>3, RunnerGoesOn
  <1>16. CASE UploadsAttachment \/ SavesAttachment
    <2>1. PICK at \in {"written", "copied"} : runner' = [runner EXCEPT !.at = at]
      BY <1>16 DEF UploadsAttachment, SavesAttachment
    <2>2. RunnerShaped' /\ runner'.box = runner.box /\ runner'.at \in {"written", "copied"}
      BY <2>1 DEF BoxInv, RunnerShaped
    <2>3. UNCHANGED <<running, born, sandboxId, forgotten>> /\ runner.at \in {"fetched", "written"}
      BY <1>16 DEF UploadsAttachment, SavesAttachment, boxVars
    <2> QED
      BY <2>2, <2>3, RunnerGoesOn
  <1>17. CASE UNCHANGED fileVars
    BY <1>17 DEF fileVars, BoxInv, RunnerShaped, RunningSandboxesAreKnown
  <1> QED
    BY <1>1, <1>2, <1>3, <1>4, <1>5, <1>6, <1>7, <1>8, <1>9, <1>10, <1>11, <1>12, <1>13, <1>14,
       <1>15, <1>16, <1>17 DEF FilesNext

\* No container runs that neither the session nor the runner names, however the
\* containers come and go, but those whose creation was cut short or that Docker
\* did not answer for.
THEOREM SandboxesAreKnown == FilesSpec => []RunningSandboxesAreKnown
  <1>1. FilesInit => BoxInv
    BY RunnerValues DEF FilesInit, BoxInv, RunnerShaped, RunningSandboxesAreKnown
  <1>2. BoxInv /\ [FilesNext]_fileVars => BoxInv'
    BY BoxStep
  <1>3. BoxInv => RunningSandboxesAreKnown
    BY DEF BoxInv
  <1> QED
    BY <1>1, <1>2, <1>3, PTL DEF FilesSpec
-----------------------------------------------------------------------------
(* The files of the session.                                               *)

FilesTyped ==
  /\ objects = [f \in FileIds |-> objects[f]] /\ synced = [p \in Paths |-> synced[p]]
  /\ uploads \in 0..MaxFiles /\ touches \in Nat
  /\ files \subseteq [id : FileIds, path : Paths, at : Nat]
  /\ fileRows \subseteq 1..uploads

\* A file that is listed can be downloaded; a path that is no attachment's is listed once;
\* what was copied last is listed under its path, and the same file under no other.
ListStands ==
  /\ \A f \in fileRows : objects[f] # Absent
  /\ \A e \in files : e.id \in fileRows
  /\ \A p \in Paths \ {UploadPath} :
       /\ \A d, e \in files : d.path = p /\ e.path = p => d = e
       /\ synced[p] # Absent =>
            \E e \in files : /\ e.path = p /\ objects[e.id] = synced[p]
                             /\ \A d \in files : d.id = e.id => d.path = p

\* The old copy that a runner has found is the one that is listed.
OldCopyKnown(r) ==
  /\ r.id = NoFile \/ \E e \in files : e.id = r.id /\ e.path = r.path
  /\ r.path # UploadPath => \A e \in files : e.path = r.path => e.id = r.id

\* Where a copy of the runner is: it has found the old one, has removed it, has stored
\* the new one; an attachment that it copies is no longer followed.
CopyStands(r) ==
  /\ r.path \in Paths
  /\ r.at \in {"found", "loaded"} => OldCopyKnown(r)
  /\ r.at \in {"removed", "stored"} /\ r.path # UploadPath => \A e \in files : e.path # r.path
  /\ r.at \in {"loaded", "removed", "stored"} => r.data # Absent
  /\ r.at = "stored" =>
       r.id \in fileRows /\ objects[r.id] = r.data /\ \A e \in files : e.id # r.id
  /\ r.at \in {"fetched", "written", "copied"} =>
       /\ r.id \in fileRows
       /\ \A e \in files : e.id = r.id /\ e.path # UploadPath => synced[e.path] = Absent

\* Files are listed in the order of the touches after which they were added.
CopySteps == {"found", "loaded", "removed", "stored", "fetched", "written", "copied"}
Copying == runner.at \in CopySteps
ListInOrder ==
  /\ \A d, e \in files : d.at = e.at => d = e
  /\ \A e \in files : e.at <= touches /\ (Copying => e.at < touches)

FilesInv == RunnerShaped /\ FilesTyped /\ ListStands /\ CopyStands(runner) /\ ListInOrder

\* Only the runner goes on.
LEMMA CopyGoesOn ==
  ASSUME FilesInv, UNCHANGED listVars, RunnerShaped', CopyStands(runner)', Copying' => Copying
  PROVE  FilesInv'
  BY DEF FilesInv, FilesTyped, ListStands, ListInOrder, listVars

\* A runner without a copy under way has nothing to keep.
LEMMA NoCopyStands ==
  ASSUME FilesInv, RunnerShaped', runner'.path \in Paths,
         runner'.at \notin CopySteps
  PROVE  CopyStands(runner)' /\ ~Copying'
  BY DEF CopyStands, Copying, CopySteps

\* Steps of a runner that are about no copy.
LEMMA RunnerLeavesFiles ==
  ASSUME FilesInv, UNCHANGED listVars,
         \/ runner' = NoRunner \/ runner' = Working \/ runner' = runner
         \/ \E b, at : runner' = [runner EXCEPT !.at = at, !.box = b] /\ at \in {"creating", "created"}
  PROVE  FilesInv'
  <1>1. CASE runner' = runner
    BY <1>1 DEF FilesInv, FilesTyped, ListStands, CopyStands, OldCopyKnown, ListInOrder, Copying, CopySteps,
                listVars, RunnerShaped
  <1>2. CASE runner' = NoRunner \/ runner' = Working
    BY <1>2, RunnerValues, CopyGoesOn, NoCopyStands, SandboxAssumption
    DEF SandboxAssumption, RunnerShaped, CopySteps
  <1>3. ASSUME NEW b, NEW at \in {"creating", "created"},
               runner' = [runner EXCEPT !.at = at, !.box = b]
        PROVE  FilesInv'
    <2>1. RunnerShaped' /\ runner'.path \in Paths /\ runner'.at = at
      BY <1>3 DEF FilesInv, RunnerShaped, CopyStands
    <2> QED
      BY <2>1, CopyGoesOn, NoCopyStands DEF CopySteps
  <1> QED
    BY <1>1, <1>2, <1>3

\* An upload, whole or cut short, changes nothing of the files that have rows.
LEMMA UploadSpares ==
  ASSUME FilesInv, NEW c, c # Absent, NEW o \in UploadOutcomes, UploadFile(c, o)
  PROVE  /\ uploads' = uploads + 1 /\ uploads' \in 0..MaxFiles /\ uploads' \notin fileRows
         /\ objects' = [f \in FileIds |-> objects'[f]]
         /\ fileRows \subseteq fileRows' /\ fileRows' \subseteq 1..uploads'
         /\ \A f \in fileRows : objects'[f] = objects[f]
         /\ \A f \in fileRows' : objects'[f] # Absent
         /\ o.saved => uploads' \in fileRows' /\ objects'[uploads'] = c
  <1>1. uploads' = uploads + 1 /\ uploads' \in 1..MaxFiles
    BY SandboxAssumption DEF SandboxAssumption, UploadFile, FilesInv, FilesTyped
  <1>2. uploads' \notin fileRows /\ fileRows \subseteq FileIds
    BY <1>1, SandboxAssumption DEF SandboxAssumption, FilesInv, FilesTyped, FileIds
  <1>3. o.saved => o.put
    BY DEF UploadOutcomes
  <1>4. objects' = [f \in FileIds |-> IF f = uploads' /\ o.put THEN c ELSE objects[f]]
    BY <1>1 DEF UploadFile, FilesInv, FilesTyped
  <1>5. fileRows' = IF o.saved THEN fileRows \cup {uploads'} ELSE fileRows
    BY DEF UploadFile
  <1>6. \A f \in fileRows : objects[f] # Absent
    BY DEF FilesInv, ListStands
  <1>7. fileRows' \subseteq 1..uploads'
    BY <1>1, <1>5 DEF FilesInv, FilesTyped
  <1>8. uploads' \in FileIds
    BY <1>1 DEF FileIds
  <1> QED
    BY <1>1, <1>2, <1>3, <1>4, <1>5, <1>6, <1>7, <1>8, SandboxAssumption DEF SandboxAssumption

\* An upload of the user's: the list and the copy under way are not touched by it.
LEMMA UserUploadStep ==
  ASSUME FilesInv, NEW c \in Contents, UserUploads(c)
  PROVE  FilesInv'
  <1>1. PICK o \in UploadOutcomes : UploadFile(c, o)
    BY DEF UserUploads
  <1>2. c # Absent /\ UNCHANGED <<runner, files, touches, synced>>
    BY SandboxAssumption DEF SandboxAssumption, UserUploads
  <1>3. /\ fileRows \subseteq fileRows' /\ fileRows' \subseteq 1..uploads' /\ uploads' \in 0..MaxFiles
        /\ objects' = [f \in FileIds |-> objects'[f]]
        /\ \A f \in fileRows : objects'[f] = objects[f]
        /\ \A f \in fileRows' : objects'[f] # Absent
    BY <1>1, <1>2, UploadSpares
  <1>4. FilesTyped'
    BY <1>2, <1>3 DEF FilesInv, FilesTyped
  <1>5. ListStands'
    BY <1>2, <1>3 DEF FilesInv, ListStands
  <1>6. CopyStands(runner)'
    BY <1>2, <1>3 DEF FilesInv, CopyStands, OldCopyKnown
  <1> QED
    BY <1>2, <1>4, <1>5, <1>6 DEF FilesInv, RunnerShaped, ListInOrder, Copying, CopySteps

\* An attachment is downloaded for the sandbox: what is listed of it is no longer followed.
LEMMA AttachmentDownloadStep ==
  ASSUME FilesInv, NEW f \in FileIds, DownloadsAttachment(f)
  PROVE  FilesInv'
  <1>1. /\ runner.at = "working" /\ f \in fileRows
        /\ \E d : runner' = [runner EXCEPT !.at = "fetched", !.id = f, !.data = d]
        /\ synced' = [p \in Paths |-> IF \E e \in files : e.id = f /\ e.path = p THEN Absent ELSE synced[p]]
        /\ touches' = touches + 1 /\ UNCHANGED <<files, objects, fileRows, uploads>>
    BY DEF DownloadsAttachment, Touches
  <1>2. RunnerShaped' /\ runner'.at = "fetched" /\ runner'.id = f /\ runner'.path = runner.path
    BY <1>1 DEF FilesInv, RunnerShaped
  <1>3. FilesTyped'
    BY <1>1 DEF FilesInv, FilesTyped
  <1>4. ListStands'
    BY <1>1 DEF FilesInv, ListStands
  <1>5. CopyStands(runner)'
    <2>1. \A e \in files : e.path \in Paths
      BY DEF FilesInv, FilesTyped
    <2> QED
      BY <1>1, <1>2, <2>1 DEF FilesInv, CopyStands
  <1>6. ListInOrder'
    BY <1>1 DEF FilesInv, FilesTyped, ListInOrder, Copying, CopySteps
  <1> QED
    BY <1>2, <1>3, <1>4, <1>5, <1>6 DEF FilesInv

\* The attachment is written into the sandbox and its row, which is there, saved again.
LEMMA AttachmentCopyStep ==
  ASSUME FilesInv, UploadsAttachment \/ SavesAttachment
  PROVE  FilesInv'
  <1>1. PICK at \in {"written", "copied"} : runner' = [runner EXCEPT !.at = at]
    BY DEF UploadsAttachment, SavesAttachment
  <1>2. runner.at \in {"fetched", "written"} /\ runner.id \in fileRows
    BY DEF UploadsAttachment, SavesAttachment, FilesInv, CopyStands
  <1>3. UNCHANGED listVars
    BY <1>2 DEF UploadsAttachment, SavesAttachment, listVars
  <1>4. /\ RunnerShaped' /\ runner'.at \in {"written", "copied"}
        /\ runner'.path = runner.path /\ runner'.id = runner.id
    BY <1>1 DEF FilesInv, RunnerShaped
  <1>5. CopyStands(runner)'
    BY <1>2, <1>3, <1>4 DEF FilesInv, CopyStands, listVars
  <1> QED
    BY <1>2, <1>3, <1>4, <1>5, CopyGoesOn DEF Copying, CopySteps

\* A copied attachment is listed under the path of uploads.
LEMMA AttachmentListStep ==
  ASSUME FilesInv, AddsAttachment
  PROVE  FilesInv'
  <1>1. PICK x : x = [id |-> runner.id, path |-> UploadPath, at |-> touches]
    OBVIOUS
  <1>2. /\ runner.at = "copied" /\ files' = files \cup {x} /\ runner' = Working
        /\ UNCHANGED <<objects, fileRows, uploads, touches, synced>>
    BY <1>1 DEF AddsAttachment, ListFile
  <1>3. /\ runner.id \in fileRows
        /\ \A e \in files : e.id = runner.id /\ e.path # UploadPath => synced[e.path] = Absent
    BY <1>2 DEF FilesInv, CopyStands
  <1>4. RunnerShaped' /\ CopyStands(runner)' /\ ~Copying'
    BY <1>2, RunnerValues, NoCopyStands, SandboxAssumption DEF SandboxAssumption, RunnerShaped, CopySteps
  <1>5. x.id = runner.id /\ x.path = UploadPath /\ x.at = touches
    BY <1>1
  <1>6. FilesTyped'
    <2>1. runner.id \in FileIds
      BY <1>3, SandboxAssumption DEF SandboxAssumption, FilesInv, FilesTyped, FileIds
    <2>2. x \in [id : FileIds, path : Paths, at : Nat]
      BY <1>1, <2>1, SandboxAssumption DEF SandboxAssumption, FilesInv, FilesTyped
    <2> QED
      BY <1>2, <2>2 DEF FilesInv, FilesTyped
  <1>7. ListStands'
    <2>1. ASSUME NEW p \in Paths \ {UploadPath}, synced[p] # Absent
          PROVE  \E e \in files' : /\ e.path = p /\ objects[e.id] = synced[p]
                                   /\ \A d \in files' : d.id = e.id => d.path = p
      <3>1. PICK e \in files : /\ e.path = p /\ objects[e.id] = synced[p]
                               /\ \A d \in files : d.id = e.id => d.path = p
        BY <2>1 DEF FilesInv, ListStands
      <3>2. e.id # x.id
        BY <1>3, <1>5, <2>1, <3>1
      <3> QED
        BY <1>2, <3>1, <3>2
    <2> QED
      BY <1>2, <1>3, <1>5, <2>1 DEF FilesInv, ListStands
  <1>8. ListInOrder'
    BY <1>2, <1>4, <1>5 DEF FilesInv, FilesTyped, ListInOrder, Copying, CopySteps
  <1> QED
    BY <1>4, <1>6, <1>7, <1>8 DEF FilesInv

\* A path that is touched: what is found is listed under it, and nothing else is.
LEMMA TouchStep ==
  ASSUME FilesInv, NEW p \in Paths, TouchesFile(p)
  PROVE  FilesInv'
  <1>1. PICK i \in FileByPath(files, p) : runner' = [runner EXCEPT !.at = "found", !.path = p, !.id = i]
    BY DEF TouchesFile
  <1>2. /\ runner.at = "working" /\ touches' = touches + 1
        /\ UNCHANGED <<files, objects, fileRows, uploads, synced>>
    BY DEF TouchesFile, Touches
  <1>3. RunnerShaped' /\ runner'.at = "found" /\ runner'.path = p /\ runner'.id = i
    BY <1>1 DEF FilesInv, RunnerShaped
  <1>4. i = NoFile \/ \E e \in files : e.id = i /\ e.path = p
    BY DEF FileByPath
  <1>5. ASSUME p # UploadPath, NEW e \in files, e.path = p
        PROVE  e.id = i
    <2>1. PICK d \in files : d.path = p /\ d.id = i
      BY <1>5 DEF FileByPath
    <2> QED
      BY <1>5, <2>1 DEF FilesInv, ListStands
  <1>6. CopyStands(runner)'
    BY <1>2, <1>3, <1>4, <1>5 DEF CopyStands, OldCopyKnown
  <1>7. FilesTyped' /\ ListStands' /\ ListInOrder'
    BY <1>2 DEF FilesInv, FilesTyped, ListStands, ListInOrder, Copying, CopySteps
  <1> QED
    BY <1>3, <1>6, <1>7 DEF FilesInv

\* The shell changes a file in the sandbox, which the session need not know.
LEMMA ShellStep ==
  ASSUME FilesInv, NEW p \in Paths, NEW c \in Contents, RunsShell(p, c)
  PROVE  FilesInv'
  <1>1. /\ runner.at = "working" /\ touches' = touches + 1
        /\ UNCHANGED <<runner, files, objects, fileRows, uploads, synced>>
    BY DEF RunsShell, Touches
  <1>2. FilesTyped' /\ ListStands' /\ ListInOrder'
    BY <1>1 DEF FilesInv, FilesTyped, ListStands, ListInOrder, Copying, CopySteps
  <1> QED
    BY <1>1, <1>2 DEF FilesInv, RunnerShaped, CopyStands

\* The runner reads the file from the sandbox.
LEMMA DownloadStep ==
  ASSUME FilesInv, DownloadsFile
  PROVE  FilesInv'
  <1>1. PICK x : x # Absent /\ runner' = [runner EXCEPT !.at = "loaded", !.data = x]
    BY DEF DownloadsFile
  <1>2. runner.at = "found" /\ UNCHANGED listVars
    BY DEF DownloadsFile
  <1>3. /\ RunnerShaped' /\ runner'.at = "loaded" /\ runner'.data # Absent
        /\ runner'.path = runner.path /\ runner'.id = runner.id
    BY <1>1 DEF FilesInv, RunnerShaped
  <1>4. CopyStands(runner)'
    BY <1>2, <1>3 DEF FilesInv, CopyStands, OldCopyKnown, listVars
  <1> QED
    BY <1>2, <1>3, <1>4, CopyGoesOn DEF Copying, CopySteps

\* The old copy goes: it was listed under this path, so it was no other path's last one.
LEMMA RemoveStep ==
  ASSUME FilesInv, RemovesOldCopy
  PROVE  FilesInv'
  <1>1. PICK i : i = runner.id
    OBVIOUS
  <1>2. PICK q : q = runner.path
    OBVIOUS
  <1>3. /\ runner.at = "loaded" /\ runner' = [runner EXCEPT !.at = "removed"]
        /\ files' = IF i = NoFile THEN files ELSE {e \in files : e.id # i}
        /\ synced' = [synced EXCEPT ![q] = Absent]
        /\ UNCHANGED <<objects, fileRows, uploads, touches>>
    BY <1>1, <1>2 DEF RemovesOldCopy, RemoveFile
  <1>4. RunnerShaped' /\ runner'.at = "removed" /\ runner'.path = q /\ runner'.data = runner.data
    BY <1>2, <1>3 DEF FilesInv, RunnerShaped
  <1>5. /\ q \in Paths /\ runner.data # Absent
        /\ i = NoFile \/ \E e \in files : e.id = i /\ e.path = q
        /\ q # UploadPath => \A e \in files : e.path = q => e.id = i
    BY <1>1, <1>2, <1>3 DEF FilesInv, CopyStands, OldCopyKnown
  <1>6. files' \subseteq files /\ \A e \in files : e \notin files' => e.id = i /\ i # NoFile
    BY <1>3
  <1>7. q # UploadPath => \A e \in files' : e.path # q
    <2>1. \A e \in files : e.id # NoFile
      BY SandboxAssumption DEF SandboxAssumption, FilesInv, FilesTyped
    <2> QED
      BY <1>3, <1>5, <2>1
  <1>8. CopyStands(runner)'
    BY <1>4, <1>5, <1>7 DEF CopyStands
  <1>9. FilesTyped'
    BY <1>3, <1>6 DEF FilesInv, FilesTyped
  <1>10. ListStands'
    <2>1. ASSUME NEW p \in Paths \ {UploadPath}, synced'[p] # Absent
          PROVE  \E e \in files' : /\ e.path = p /\ objects[e.id] = synced'[p]
                                   /\ \A d \in files' : d.id = e.id => d.path = p
      <3>1. p # q /\ synced'[p] = synced[p]
        BY <1>3, <2>1 DEF FilesInv, FilesTyped
      <3>2. PICK e \in files : /\ e.path = p /\ objects[e.id] = synced[p]
                               /\ \A d \in files : d.id = e.id => d.path = p
        BY <2>1, <3>1 DEF FilesInv, ListStands
      <3>3. e \in files'
        BY <1>5, <1>6, <3>1, <3>2
      <3> QED
        BY <1>6, <3>1, <3>2, <3>3
    <2> QED
      BY <1>3, <1>6, <2>1 DEF FilesInv, ListStands
  <1>11. ListInOrder'
    BY <1>3, <1>4, <1>6 DEF FilesInv, ListInOrder, Copying, CopySteps
  <1> QED
    BY <1>4, <1>8, <1>9, <1>10, <1>11 DEF FilesInv

\* The new copy is stored, with a row of its own, or not.
LEMMA StoreStep ==
  ASSUME FilesInv, UploadsCopy
  PROVE  FilesInv'
  <1>1. PICK o \in UploadOutcomes :
          /\ UploadFile(runner.data, o)
          /\ runner' = IF Returns(o) THEN [runner EXCEPT !.at = "stored", !.id = uploads']
                       ELSE [runner EXCEPT !.at = "working"]
    BY DEF UploadsCopy
  <1>2. runner.at = "removed" /\ UNCHANGED <<files, touches, synced>>
    BY DEF UploadsCopy
  <1>3. /\ runner.path \in Paths /\ runner.data # Absent
        /\ runner.path # UploadPath => \A e \in files : e.path # runner.path
    BY <1>2 DEF FilesInv, CopyStands
  <1>4. /\ uploads' \in 0..MaxFiles /\ uploads' \notin fileRows
        /\ objects' = [f \in FileIds |-> objects'[f]]
        /\ fileRows \subseteq fileRows' /\ fileRows' \subseteq 1..uploads'
        /\ \A f \in fileRows : objects'[f] = objects[f]
        /\ \A f \in fileRows' : objects'[f] # Absent
        /\ o.saved => uploads' \in fileRows' /\ objects'[uploads'] = runner.data
    BY <1>1, <1>3, UploadSpares
  <1>5. /\ RunnerShaped' /\ runner'.path = runner.path /\ runner'.data = runner.data
        /\ \/ runner'.at = "working"
           \/ runner'.at = "stored" /\ runner'.id = uploads' /\ o.saved
    BY <1>1 DEF FilesInv, RunnerShaped, Returns
  <1>6. FilesTyped'
    BY <1>2, <1>4 DEF FilesInv, FilesTyped
  <1>7. ListStands'
    BY <1>2, <1>4 DEF FilesInv, ListStands
  <1>8. CopyStands(runner)'
    <2>1. \A e \in files : e.id # uploads'
      BY <1>4 DEF FilesInv, ListStands
    <2> QED
      BY <1>2, <1>3, <1>4, <1>5, <2>1 DEF CopyStands
  <1>9. ListInOrder'
    BY <1>2, <1>5 DEF FilesInv, ListInOrder, Copying, CopySteps
  <1> QED
    BY <1>5, <1>6, <1>7, <1>8, <1>9 DEF FilesInv

\* The new copy is listed: under a path where nothing is, a file that is nowhere.
LEMMA CopyListStep ==
  ASSUME FilesInv, AddsCopy
  PROVE  FilesInv'
  <1>1. PICK x : x = [id |-> runner.id, path |-> runner.path, at |-> touches]
    OBVIOUS
  <1>2. PICK r : r = runner
    OBVIOUS
  <1>3. /\ r.at = "stored" /\ files' = files \cup {x} /\ runner' = Working
        /\ synced' = [synced EXCEPT ![r.path] = r.data]
        /\ UNCHANGED <<objects, fileRows, uploads, touches>>
    BY <1>1, <1>2 DEF AddsCopy, ListFile
  <1>4. /\ r.id \in fileRows /\ objects[r.id] = r.data /\ r.path \in Paths
        /\ \A e \in files : e.id # r.id
        /\ r.path # UploadPath => \A e \in files : e.path # r.path
    BY <1>2, <1>3 DEF FilesInv, CopyStands
  <1>5. RunnerShaped' /\ CopyStands(runner)' /\ ~Copying'
    BY <1>3, RunnerValues, NoCopyStands, SandboxAssumption DEF SandboxAssumption, RunnerShaped, CopySteps
  <1>6. x.id = r.id /\ x.path = r.path /\ x.at = touches
    BY <1>1, <1>2
  <1>7. FilesTyped'
    <2>1. r.id \in FileIds
      BY <1>4, SandboxAssumption DEF SandboxAssumption, FilesInv, FilesTyped, FileIds
    <2>2. x \in [id : FileIds, path : Paths, at : Nat]
      BY <1>1, <1>2, <1>4, <2>1 DEF FilesInv, FilesTyped
    <2> QED
      BY <1>3, <2>2 DEF FilesInv, FilesTyped
  <1>8. ListStands'
    <2>1. ASSUME NEW p \in Paths \ {UploadPath}, synced'[p] # Absent
          PROVE  \E e \in files' : /\ e.path = p /\ objects[e.id] = synced'[p]
                                   /\ \A d \in files' : d.id = e.id => d.path = p
      <3>1. CASE p = r.path
        <4>1. synced'[p] = r.data
          BY <1>3, <3>1 DEF FilesInv, FilesTyped
        <4> QED
          BY <1>3, <1>4, <1>6, <3>1, <4>1
      <3>2. CASE p # r.path
        <4>1. synced'[p] = synced[p]
          BY <1>3, <3>2 DEF FilesInv, FilesTyped
        <4>2. PICK e \in files : /\ e.path = p /\ objects[e.id] = synced[p]
                                 /\ \A d \in files : d.id = e.id => d.path = p
          BY <2>1, <4>1 DEF FilesInv, ListStands
        <4> QED
          BY <1>3, <1>4, <1>6, <4>1, <4>2
      <3> QED
        BY <3>1, <3>2
    <2>2. ASSUME NEW p \in Paths \ {UploadPath}, NEW d \in files', NEW e \in files',
                 d.path = p, e.path = p
          PROVE  d = e
      BY <1>3, <1>4, <1>6, <2>2 DEF FilesInv, ListStands
    <2> QED
      BY <1>3, <1>4, <1>6, <2>1, <2>2 DEF FilesInv, ListStands
  <1>9. ListInOrder'
    BY <1>2, <1>3, <1>5, <1>6 DEF FilesInv, FilesTyped, ListInOrder, Copying, CopySteps
  <1> QED
    BY <1>5, <1>7, <1>8, <1>9 DEF FilesInv

\* Every step keeps the invariant of the session's files.
LEMMA FilesStep ==
  ASSUME FilesInv, [FilesNext]_fileVars
  PROVE  FilesInv'
  <1>1. CASE CreateFails \/ CreationCut \/ EnsuresSandbox \/ DestroysSandbox \/ CopyFails \/ RunLeaves
    BY <1>1, RunnerLeavesFiles DEF CreateFails, CreationCut, EnsuresSandbox, DestroysSandbox, CopyFails,
                                   RunLeaves
  <1>2. ASSUME NEW b \in Boxes, ContainerStops(b)
        PROVE  FilesInv'
    BY <1>2, RunnerLeavesFiles DEF ContainerStops
  <1>3. CASE ObtainsSandbox
    <2>1. \E b : runner' = [runner EXCEPT !.at = "creating", !.box = b]
      BY <1>3 DEF ObtainsSandbox
    <2> QED
      BY <1>3, <2>1, RunnerLeavesFiles DEF ObtainsSandbox
  <1>4. CASE SavesSandboxId
    <2>1. runner' = [runner EXCEPT !.at = "created"]
      BY <1>4 DEF SavesSandboxId
    <2>2. runner' = [runner EXCEPT !.at = "created", !.box = runner.box]
      BY <2>1 DEF FilesInv, RunnerShaped
    <2> QED
      BY <1>4, <2>2, RunnerLeavesFiles DEF SavesSandboxId
  <1>5. CASE UNCHANGED fileVars
    BY <1>5, RunnerLeavesFiles DEF fileVars, listVars
  <1> QED
    BY <1>1, <1>2, <1>3, <1>4, <1>5, UserUploadStep, AttachmentDownloadStep, AttachmentCopyStep,
       AttachmentListStep, TouchStep, ShellStep, DownloadStep, RemoveStep, StoreStep, CopyListStep DEF FilesNext

\* Whatever fails, ends or is cancelled: what a session lists can be downloaded, a path that
\* is no attachment's is listed once at most, and with the last copy that came to its end.
THEOREM FilesAreCurrent == FilesSpec => []ListedFilesAreCurrent
  <1>1. FilesInit => FilesInv
    <2> SUFFICES ASSUME FilesInit PROVE FilesInv
      OBVIOUS
    <2>1. RunnerShaped /\ CopyStands(runner)
      BY RunnerValues, SandboxAssumption DEF SandboxAssumption, FilesInit, RunnerShaped, CopyStands
    <2>2. FilesTyped /\ ListStands /\ ListInOrder
      BY SandboxAssumption DEF SandboxAssumption, FilesInit, FilesTyped, ListStands, ListInOrder
    <2> QED
      BY <2>1, <2>2 DEF FilesInv
  <1>2. FilesInv /\ [FilesNext]_fileVars => FilesInv'
    BY FilesStep
  <1>3. FilesInv => ListedFilesAreCurrent
    <2> SUFFICES ASSUME FilesInv PROVE ListedFilesAreCurrent
      OBVIOUS
    <2>1. ASSUME NEW p \in Paths \ {UploadPath}
          PROVE  Cardinality({e \in files : e.path = p}) <= 1
      <3>1. PICK L : L = {e \in files : e.path = p}
        OBVIOUS
      <3>2. L = {} \/ \E e : L = {e}
        BY <3>1 DEF FilesInv, ListStands
      <3>3. Cardinality(L) \in {0, 1}
        BY <3>2, FS_EmptySet, FS_Singleton
      <3> QED
        BY <3>1, <3>3
    <2> QED
      BY <2>1 DEF FilesInv, ListStands, ListedFilesAreCurrent
  <1> QED
    BY <1>1, <1>2, <1>3, PTL DEF FilesSpec
-----------------------------------------------------------------------------
(* The clients of a process.                                               *)

Stores == {"redis", "postgres", "cos", "elasticsearch", "neo4j"}
Kinds == WorkerJobs \cup {"web"}

\* A list of stores without repetitions.
Listing(s) == s \in Seq(Stores) /\ \A i, j \in 1..Len(s) : s[i] = s[j] => i = j

Clean == foreign = {} /\ unchecked = {}

ProcessTyped ==
  /\ job = [kind |-> job.kind, at |-> job.at, todo |-> job.todo, whole |-> job.whole]
  /\ job.at \in {"idle", "opening", "redis", "preparing", "working", "closing", "gone"}
  /\ job.kind \in Kinds \/ (job.kind = "none" /\ job.at = "idle")
  /\ Listing(job.todo)
  /\ faults \in BOOLEAN /\ job.whole \in BOOLEAN

\* What is open at each point of a job, if nothing failed, and what is not, whatever did.
ProcessInv ==
  /\ ProcessTyped
  /\ job.at = "opening" =>
       /\ job.todo # << >>
       /\ ~faults => Clean /\ open = ToSet(Opens(job.kind)) \ ToSet(job.todo)
       /\ ToSet(job.todo) \subseteq ToSet(Opens(job.kind))
  /\ job.at = "redis" => job.kind = "extract"
  /\ job.at \in {"redis", "preparing"} /\ ~faults => Clean /\ open = ToSet(Opens(job.kind))
  /\ job.at = "working" =>
       /\ ToSet(Opens(job.kind)) \subseteq ToSet(job.todo)
       /\ ToSet(job.todo) \subseteq ToSet(Opens(job.kind)) \cup {"redis"}
       /\ ~faults => Clean /\ open = ToSet(job.todo)
  /\ job.at = "closing" =>
       /\ job.todo # << >>
       /\ open \cap (ToSet(Opens(job.kind)) \ ToSet(job.todo)) = {}
       /\ ~faults => Clean /\ open = ToSet(job.todo)
  /\ job.at \in {"idle", "gone"} =>
       /\ ~faults => Clean /\ open = {}
       /\ job.whole /\ job.kind # "none" => open \cap ToSet(Opens(job.kind)) = {}

\* The stores of the lists that the code writes out.
LEMMA WrittenOut ==
  /\ ToSet(<<"redis", "postgres", "cos", "elasticsearch", "neo4j">>) = Stores
  /\ ToSet(<<"postgres", "neo4j">>) = {"postgres", "neo4j"}
  /\ ToSet(<<"neo4j", "postgres">>) = {"postgres", "neo4j"}
  /\ ToSet(<<"redis", "neo4j", "postgres">>) = {"redis", "postgres", "neo4j"}
  /\ ToSet(<<"postgres", "cos", "elasticsearch">>) = {"postgres", "cos", "elasticsearch"}
  /\ ToSet(<<"elasticsearch", "postgres", "cos">>) = {"postgres", "cos", "elasticsearch"}
  /\ ToSet(<<"postgres">>) = {"postgres"}
  /\ ToSet(<< >>) = {}
  /\ Reverse(<<"postgres", "neo4j">>) = <<"neo4j", "postgres">>
  <1>1. Reverse(<<"postgres", "neo4j">>) = <<"neo4j", "postgres">>
    BY DEF Reverse
  <1>2. ToSet(<<"redis", "postgres", "cos", "elasticsearch", "neo4j">>) = Stores
    BY DEF ToSet, Stores
  <1>3. ToSet(<<"redis", "neo4j", "postgres">>) = {"redis", "postgres", "neo4j"}
    BY DEF ToSet
  <1>4. ToSet(<<"postgres", "cos", "elasticsearch">>) = {"postgres", "cos", "elasticsearch"}
    BY DEF ToSet
  <1>5. ToSet(<<"elasticsearch", "postgres", "cos">>) = {"postgres", "cos", "elasticsearch"}
    BY DEF ToSet
  <1>6. /\ ToSet(<<"postgres", "neo4j">>) = {"postgres", "neo4j"}
        /\ ToSet(<<"neo4j", "postgres">>) = {"postgres", "neo4j"}
        /\ ToSet(<<"postgres">>) = {"postgres"} /\ ToSet(<< >>) = {}
    BY DEF ToSet
  <1> QED
    BY <1>1, <1>2, <1>3, <1>4, <1>5, <1>6

\* None of them names a store twice.
LEMMA WrittenLists ==
  /\ Listing(<<"redis", "postgres", "cos", "elasticsearch", "neo4j">>)
  /\ Listing(<<"postgres", "neo4j">>)
  /\ Listing(<<"neo4j", "postgres">>)
  /\ Listing(<<"redis", "neo4j", "postgres">>)
  /\ Listing(<<"postgres", "cos", "elasticsearch">>)
  /\ Listing(<<"elasticsearch", "postgres", "cos">>)
  /\ Listing(<<"postgres">>)
  /\ Listing(<< >>)
  <1> USE DEF Listing, Stores
  <1>1. Listing(<<"redis", "postgres", "cos", "elasticsearch", "neo4j">>)
    OBVIOUS
  <1>2. Listing(<<"redis", "neo4j", "postgres">>)
    OBVIOUS
  <1>3. Listing(<<"postgres", "cos", "elasticsearch">>)
    OBVIOUS
  <1>4. Listing(<<"elasticsearch", "postgres", "cos">>)
    OBVIOUS
  <1>5. Listing(<<"postgres", "neo4j">>) /\ Listing(<<"neo4j", "postgres">>)
    OBVIOUS
  <1>6. Listing(<<"postgres">>) /\ Listing(<< >>)
    OBVIOUS
  <1> HIDE DEF Listing
  <1> QED
    BY <1>1, <1>2, <1>3, <1>4, <1>5, <1>6

\* What a job opens is what it closes, but for Redis.
LEMMA ClosesItsOwn ==
  ASSUME NEW kind \in Kinds
  PROVE  /\ Listing(Opens(kind)) /\ (kind = "consolidate" <=> Opens(kind) = << >>)
         /\ \A r \in BOOLEAN : Listing(ClosingOrder(kind, r))
         /\ ToSet(ClosingOrder(kind, FALSE)) = ToSet(Opens(kind))
         /\ kind = "extract" =>
              ToSet(ClosingOrder(kind, TRUE)) = ToSet(Opens(kind)) \cup {"redis"}
  <1> DEFINE o == Opens(kind)
             c(r) == ClosingOrder(kind, r)
  <1>1. CASE kind = "web"
    <2>1. /\ o = <<"redis", "postgres", "cos", "elasticsearch", "neo4j">>
          /\ \A r \in BOOLEAN : c(r) = o
      BY <1>1 DEF Opens, ClosingOrder
    <2> QED
      BY <1>1, <2>1, WrittenOut, WrittenLists DEF Stores
  <1>2. CASE kind \in {"cluster", "reflect"}
    <2>1. /\ o = <<"postgres", "neo4j">>
          /\ \A r \in BOOLEAN : c(r) = Reverse(o)
      BY <1>2 DEF Opens, ClosingOrder
    <2> QED
      BY <1>2, <2>1, WrittenOut, WrittenLists
  <1>3. CASE kind = "extract"
    <2>1. /\ o = <<"postgres", "neo4j">>
          /\ c(TRUE) = <<"redis", "neo4j", "postgres">> /\ c(FALSE) = <<"neo4j", "postgres">>
      BY <1>3 DEF Opens, ClosingOrder, ClosesAfterExtraction
    <2> QED
      BY <1>3, <2>1, WrittenOut, WrittenLists
  <1>4. CASE kind = "parse"
    <2>1. /\ o = <<"postgres", "cos", "elasticsearch">>
          /\ \A r \in BOOLEAN : c(r) = <<"elasticsearch", "postgres", "cos">>
      BY <1>4 DEF Opens, ClosingOrder
    <2> QED
      BY <1>4, <2>1, WrittenOut, WrittenLists
  <1>5. CASE kind = "scheduled"
    <2>1. o = <<"postgres">> /\ \A r \in BOOLEAN : c(r) = o
      BY <1>5 DEF Opens, ClosingOrder
    <2> QED
      BY <1>5, <2>1, WrittenOut, WrittenLists
  <1>6. CASE kind = "consolidate"
    <2>1. o = << >> /\ \A r \in BOOLEAN : c(r) = o
      BY <1>6 DEF Opens, ClosingOrder
    <2> QED
      BY <1>6, <2>1, WrittenLists
  <1> QED
    BY <1>1, <1>2, <1>3, <1>4, <1>5, <1>6 DEF Kinds, WorkerJobs

\* The first of a list, and the rest.
LEMMA FirstAndRest ==
  ASSUME NEW s, Listing(s), s # << >>
  PROVE  /\ Head(s) \in Stores /\ Listing(Tail(s)) /\ (Tail(s) = << >> <=> ~(Len(s) > 1))
         /\ ToSet(s) = {Head(s)} \cup ToSet(Tail(s)) /\ Head(s) \notin ToSet(Tail(s))
  <1>1. /\ s \in Seq(Stores) /\ Len(s) \in Nat /\ Len(s) > 0 /\ Head(s) = s[1]
        /\ Tail(s) \in Seq(Stores) /\ Len(Tail(s)) = Len(s) - 1
        /\ \A i \in 1..Len(Tail(s)) : Tail(s)[i] = s[i + 1]
        /\ \A i, j \in 1..Len(s) : s[i] = s[j] => i = j
    BY DEF Listing
  <1>2. DOMAIN s = 1..Len(s) /\ DOMAIN Tail(s) = 1..(Len(s) - 1)
    BY <1>1
  <1>3. \A i \in 1..Len(s) : i = 1 \/ (i - 1 \in 1..(Len(s) - 1) /\ s[i] = Tail(s)[i - 1])
    BY <1>1
  <1>4. ToSet(s) = {Head(s)} \cup ToSet(Tail(s))
    <2>1. ToSet(s) = {s[i] : i \in 1..Len(s)}
      BY <1>2 DEF ToSet
    <2>2. ToSet(Tail(s)) = {Tail(s)[i] : i \in 1..(Len(s) - 1)}
      BY <1>2 DEF ToSet
    <2>3. ASSUME NEW i \in 1..Len(s) PROVE s[i] \in {Head(s)} \cup ToSet(Tail(s))
      BY <1>1, <1>3, <2>2
    <2>4. ASSUME NEW i \in 1..(Len(s) - 1) PROVE Tail(s)[i] \in ToSet(s)
      <3>1. i + 1 \in 1..Len(s) /\ Tail(s)[i] = s[i + 1]
        BY <1>1
      <3> QED
        BY <2>1, <3>1
    <2>5. Head(s) \in ToSet(s)
      <3>1. 1 \in 1..Len(s) /\ Head(s) = s[1]
        BY <1>1
      <3> QED
        BY <2>1, <3>1
    <2> QED
      BY <2>1, <2>2, <2>3, <2>4, <2>5
  <1>5. Head(s) \notin ToSet(Tail(s))
    BY <1>1, <1>2 DEF ToSet
  <1>6. Listing(Tail(s))
    BY <1>1, <1>2 DEF Listing
  <1>7. Tail(s) = << >> <=> ~(Len(s) > 1)
    <2>1. Tail(s) = << >> <=> Len(Tail(s)) = 0
      BY <1>1, EmptySeq
    <2> QED
      BY <1>1, <2>1
  <1> QED
    BY <1>1, <1>4, <1>5, <1>6, <1>7

\* What opening and closing a store do.
LEMMA OpensOne ==
  ASSUME NEW s, NEW ok \in BOOLEAN, InitialisesStore(s, ok)
  PROVE  ok => open' = open \cup {s} /\ unchecked' = unchecked
  BY DEF InitialisesStore, RedisInit, PostgresInit, Neo4jInit, CosInit, ElasticsearchInit, Initialises

\* One store of a process is closed, or fails to close.
LEMMA ClosesOne ==
  ASSUME NEW s, NEW ok \in BOOLEAN, ShutsDownStore(s, ok)
  PROVE  /\ open' \subseteq open /\ (ok => open' = open \ {s})
         /\ unchecked' \subseteq unchecked
  BY DEF ShutsDownStore, RedisShutdown, PostgresShutdown, Neo4jShutdown, CosShutdown,
         ElasticsearchShutdown, ShutsDown

\* The fields of a job.
LEMMA JobFields ==
  ASSUME NEW j, NEW kind, NEW at, NEW todo, NEW whole,
         j = [kind |-> kind, at |-> at, todo |-> todo, whole |-> whole]
  PROVE  /\ j.kind = kind /\ j.at = at /\ j.todo = todo /\ j.whole = whole
         /\ j = [kind |-> j.kind, at |-> j.at, todo |-> j.todo, whole |-> j.whole]
  OBVIOUS

\* A job that is over leaves what is open to no loop.
LEMMA JobOver ==
  ASSUME ProcessTyped, job.kind \in Kinds, NEW whole \in BOOLEAN, LoopEnds(whole),
         faults' \in BOOLEAN, open' = {} \/ faults',
         ~faults' => unchecked' = {},
         whole => open' \cap ToSet(Opens(job.kind)) = {}
  PROVE  ProcessInv'
  <1>1. /\ job'.kind = job.kind /\ job'.at \in {"idle", "gone"} /\ job'.todo = << >>
        /\ job'.whole = whole
        /\ job' = [kind |-> job'.kind, at |-> job'.at, todo |-> job'.todo, whole |-> job'.whole]
    BY DEF ProcessTyped, LoopEnds
  <1>2. foreign' = open'
    BY DEF LoopEnds
  <1>3. ProcessTyped'
    BY <1>1, WrittenLists DEF ProcessTyped
  <1> QED
    BY <1>1, <1>2, <1>3 DEF ProcessInv, Clean

\* What a job looks like that goes on.
LEMMA JobGoesOn ==
  ASSUME ProcessTyped, NEW at \in {"opening", "redis", "preparing", "working", "closing"},
         NEW todo, Listing(todo), job.kind \in Kinds, faults' \in BOOLEAN,
         job' = [job EXCEPT !.at = at, !.todo = todo]
  PROVE  ProcessTyped' /\ job'.kind = job.kind /\ job'.at = at /\ job'.todo = todo
  <1>1. /\ job'.kind = job.kind /\ job'.at = at /\ job'.todo = todo /\ job'.whole = job.whole
        /\ job' = [kind |-> job'.kind, at |-> job'.at, todo |-> job'.todo, whole |-> job'.whole]
    BY DEF ProcessTyped
  <1> QED
    BY <1>1 DEF ProcessTyped

\* Opening the next store.
LEMMA OpensStep ==
  ASSUME ProcessInv, NEW ok \in BOOLEAN, OpensNext(ok)
  PROVE  ProcessInv'
  <1> DEFINE left == Tail(job.todo)
             next == AfterOpening(job.kind)
             s == Head(job.todo)
  <1>1. /\ ProcessTyped /\ job.at = "opening" /\ job.kind \in Kinds /\ Listing(job.todo)
        /\ job.todo # << >> /\ faults \in BOOLEAN /\ faults' = (faults \/ ~ok) /\ faults' \in BOOLEAN
        /\ ~faults => Clean /\ open = ToSet(Opens(job.kind)) \ ToSet(job.todo)
        /\ ToSet(job.todo) \subseteq ToSet(Opens(job.kind))
        /\ InitialisesStore(s, ok)
    BY DEF ProcessInv, ProcessTyped, OpensNext
  <1>2. /\ Listing(left) /\ s \notin ToSet(left) /\ ToSet(job.todo) = {s} \cup ToSet(left)
    BY <1>1, FirstAndRest
  <1>3. CASE ~ok
    <2>1. LoopEnds(FALSE)
      BY <1>3 DEF OpensNext
    <2> QED
      BY <1>1, <1>3, <2>1, JobOver
  <1>4. CASE ok
    <2>1. open' = open \cup {s} /\ UNCHANGED <<unchecked, foreign>>
      BY <1>1, <1>4, OpensOne DEF OpensNext
    <2>2. ~faults' => /\ foreign' = {} /\ unchecked' = {}
                      /\ open' = ToSet(Opens(job.kind)) \ ToSet(left)
      BY <1>1, <1>2, <1>4, <2>1 DEF Clean
    <2>3. CASE left # << >>
      <3>1. job' = [job EXCEPT !.todo = left]
        BY <1>4, <2>3 DEF OpensNext
      <3>2. job' = [job EXCEPT !.at = "opening", !.todo = left]
        BY <1>1, <3>1 DEF ProcessTyped
      <3>3. ProcessTyped' /\ job'.kind = job.kind /\ job'.at = "opening" /\ job'.todo = left
        BY <1>1, <1>2, <3>2, JobGoesOn
      <3> QED
        BY <1>1, <1>2, <2>2, <2>3, <3>3 DEF ProcessInv, Clean
    <2>4. CASE left = << >> /\ next = "working"
      <3>1. job' = [job EXCEPT !.at = "working", !.todo = ClosingOrder(job.kind, FALSE)]
        BY <1>4, <2>4 DEF OpensNext, Works
      <3>2. /\ Listing(ClosingOrder(job.kind, FALSE))
            /\ ToSet(ClosingOrder(job.kind, FALSE)) = ToSet(Opens(job.kind))
        BY <1>1, ClosesItsOwn
      <3>3. /\ ProcessTyped' /\ job'.kind = job.kind /\ job'.at = "working"
            /\ job'.todo = ClosingOrder(job.kind, FALSE)
        BY <1>1, <3>1, <3>2, JobGoesOn
      <3>4. ToSet(left) = {}
        BY <2>4, WrittenOut
      <3> QED
        BY <2>2, <3>2, <3>3, <3>4 DEF ProcessInv, Clean
    <2>5. CASE left = << >> /\ next # "working"
      <3>1. /\ job' = [job EXCEPT !.at = next, !.todo = left]
            /\ next \in {"redis", "preparing"} /\ (next = "redis" => job.kind = "extract")
        BY <1>4, <2>5 DEF OpensNext, AfterOpening
      <3>2. ProcessTyped' /\ job'.kind = job.kind /\ job'.at = next /\ job'.todo = left
        BY <1>1, <1>2, <3>1, JobGoesOn
      <3>3. ToSet(left) = {}
        BY <2>5, WrittenOut
      <3> QED
        BY <2>2, <3>1, <3>2, <3>3 DEF ProcessInv, Clean
    <2> QED
      BY <2>3, <2>4, <2>5
  <1> QED
    BY <1>3, <1>4

\* Closing the next store.
LEMMA ClosesStep ==
  ASSUME ProcessInv, NEW ok \in BOOLEAN, ClosesNext(ok)
  PROVE  ProcessInv'
  <1> DEFINE left == Tail(job.todo)
             s == Head(job.todo)
  <1>1. /\ ProcessTyped /\ job.at = "closing" /\ job.kind \in Kinds /\ Listing(job.todo)
        /\ job.todo # << >> /\ faults \in BOOLEAN /\ faults' = (faults \/ ~ok) /\ faults' \in BOOLEAN
        /\ open \cap (ToSet(Opens(job.kind)) \ ToSet(job.todo)) = {}
        /\ ~faults => Clean /\ open = ToSet(job.todo)
        /\ ShutsDownStore(s, ok)
    BY DEF ProcessInv, ProcessTyped, ClosesNext
  <1>2. /\ Listing(left) /\ s \notin ToSet(left) /\ ToSet(job.todo) = {s} \cup ToSet(left)
        /\ left = << >> <=> ~(Len(job.todo) > 1)
    BY <1>1, FirstAndRest
  <1>3. /\ open' \subseteq open /\ (ok => open' = open \ {s}) /\ unchecked' \subseteq unchecked
    BY <1>1, ClosesOne
  <1>4. CASE ok /\ Len(job.todo) > 1
    <2>1. job' = [job EXCEPT !.todo = left] /\ foreign' = foreign \cap open'
      BY <1>4 DEF ClosesNext
    <2>2. job' = [job EXCEPT !.at = "closing", !.todo = left]
      BY <1>1, <2>1 DEF ProcessTyped
    <2>3. ProcessTyped' /\ job'.kind = job.kind /\ job'.at = "closing" /\ job'.todo = left
      BY <1>1, <1>2, <2>2, JobGoesOn
    <2>4. left # << >>
      BY <1>2, <1>4
    <2>5. open' = open \ {s}
      BY <1>3, <1>4
    <2>6. open' \cap (ToSet(Opens(job.kind)) \ ToSet(left)) = {}
      BY <1>1, <1>2, <2>5
    <2>7. ~faults' => foreign' = {} /\ unchecked' = {} /\ open' = ToSet(left)
      BY <1>1, <1>2, <1>3, <2>1, <2>5 DEF Clean
    <2> QED
      BY <2>3, <2>4, <2>6, <2>7 DEF ProcessInv, Clean
  <1>5. CASE ~(ok /\ Len(job.todo) > 1)
    <2>1. LoopEnds(ok)
      BY <1>5 DEF ClosesNext
    <2>2. ok => ToSet(left) = {}
      BY <1>2, <1>5, WrittenOut
    <2>3. ok => open' \cap ToSet(Opens(job.kind)) = {}
      BY <1>1, <1>2, <1>3, <2>2
    <2>4. open' = {} \/ faults'
      BY <1>1, <1>2, <1>3, <2>2
    <2>5. ~faults' => unchecked' = {}
      BY <1>1, <1>3 DEF Clean
    <2> QED
      BY <1>1, <2>1, <2>3, <2>4, <2>5, JobOver
  <1> QED
    BY <1>4, <1>5

\* Every step keeps the invariant of the process.
LEMMA ProcessStep ==
  ASSUME ProcessInv, [ProcessNext]_processVars
  PROVE  ProcessInv'
  <1>1. ASSUME NEW kind \in Kinds, TakesJob(kind)
        PROVE  ProcessInv'
    <2>1. /\ ProcessTyped /\ job.at = "idle" /\ UNCHANGED <<open, unchecked, foreign, faults>>
          /\ ~faults => Clean /\ open = {}
      BY <1>1 DEF TakesJob, ProcessInv
    <2>2. /\ Listing(Opens(kind)) /\ (kind = "consolidate" <=> Opens(kind) = << >>)
          /\ Listing(ClosingOrder(kind, FALSE))
          /\ ToSet(ClosingOrder(kind, FALSE)) = ToSet(Opens(kind))
      BY ClosesItsOwn
    <2>3. CASE kind = "consolidate"
      <3>1. job' = [kind |-> kind, at |-> "working", todo |-> ClosingOrder(kind, FALSE), whole |-> TRUE]
        <4>1. PICK u : u = Unoccupied /\ u = [kind |-> "none", at |-> "idle", todo |-> << >>, whole |-> TRUE]
          BY DEF Unoccupied
        <4>2. PICK r : r = [u EXCEPT !.kind = kind]
          OBVIOUS
        <4>3. job' = [r EXCEPT !.at = "working", !.todo = ClosingOrder(r.kind, FALSE)]
          BY <1>1, <2>3, <4>1, <4>2 DEF TakesJob, Works
        <4>4. /\ u.whole = TRUE
              /\ u = [kind |-> u.kind, at |-> u.at, todo |-> u.todo, whole |-> u.whole]
          BY <4>1, JobFields
        <4>5. /\ r.kind = kind /\ r.whole = TRUE
              /\ r = [kind |-> r.kind, at |-> r.at, todo |-> r.todo, whole |-> r.whole]
          BY <4>2, <4>4
        <4> QED
          BY <4>3, <4>5
      <3>2. ToSet(Opens(kind)) = {}
        BY <2>2, <2>3, WrittenOut
      <3> QED
        BY <2>1, <2>2, <3>1, <3>2 DEF ProcessInv, ProcessTyped, Clean
    <2>4. CASE kind # "consolidate"
      <3>1. job' = [kind |-> kind, at |-> "opening", todo |-> Opens(kind), whole |-> TRUE]
        BY <1>1, <2>4 DEF TakesJob, Unoccupied
      <3> QED
        BY <2>1, <2>2, <2>4, <3>1 DEF ProcessInv, ProcessTyped, Clean
    <2> QED
      BY <2>3, <2>4
  <1>2. ASSUME NEW ok \in BOOLEAN, OpensRedisToo(ok)
        PROVE  ProcessInv'
    <2>1. /\ ProcessTyped /\ job.at = "redis" /\ job.kind = "extract" /\ job.kind \in Kinds
          /\ faults \in BOOLEAN /\ faults' = (faults \/ ~ok) /\ faults' \in BOOLEAN
          /\ UNCHANGED foreign
          /\ InitialisesStore("redis", ok)
          /\ job' = [job EXCEPT !.at = "working", !.todo = ClosingOrder(job.kind, ok)]
          /\ ~faults => Clean /\ open = ToSet(Opens(job.kind))
      BY <1>2 DEF ProcessInv, ProcessTyped, OpensRedisToo
    <2>2. /\ Listing(ClosingOrder(job.kind, ok))
          /\ ToSet(ClosingOrder(job.kind, ok))
               = IF ok THEN ToSet(Opens(job.kind)) \cup {"redis"} ELSE ToSet(Opens(job.kind))
      BY <2>1, ClosesItsOwn
    <2>3. /\ ProcessTyped' /\ job'.kind = job.kind /\ job'.at = "working"
          /\ job'.todo = ClosingOrder(job.kind, ok)
      BY <2>1, <2>2, JobGoesOn
    <2>4. ok => open' = open \cup {"redis"} /\ unchecked' = unchecked
      BY <2>1, OpensOne
    <2> QED
      BY <2>1, <2>2, <2>3, <2>4 DEF ProcessInv, Clean
  <1>3. ASSUME NEW ok \in BOOLEAN, Prepares(ok)
        PROVE  ProcessInv'
    <2>1. /\ ProcessTyped /\ job.at = "preparing" /\ job.kind \in Kinds
          /\ faults \in BOOLEAN /\ faults' = (faults \/ ~ok) /\ faults' \in BOOLEAN
          /\ UNCHANGED <<open, unchecked>>
          /\ ~faults => Clean /\ open = ToSet(Opens(job.kind))
      BY <1>3 DEF ProcessInv, ProcessTyped, Prepares
    <2>2. CASE ok
      <3>1. /\ job' = [job EXCEPT !.at = "working", !.todo = ClosingOrder(job.kind, FALSE)]
            /\ UNCHANGED foreign
        BY <1>3, <2>2 DEF Prepares, Works
      <3>2. /\ Listing(ClosingOrder(job.kind, FALSE))
            /\ ToSet(ClosingOrder(job.kind, FALSE)) = ToSet(Opens(job.kind))
        BY <2>1, ClosesItsOwn
      <3>3. /\ ProcessTyped' /\ job'.kind = job.kind /\ job'.at = "working"
            /\ job'.todo = ClosingOrder(job.kind, FALSE)
        BY <2>1, <3>1, <3>2, JobGoesOn
      <3> QED
        BY <2>1, <2>2, <3>1, <3>2, <3>3 DEF ProcessInv, Clean
    <2>3. CASE ~ok
      <3>1. LoopEnds(FALSE)
        BY <1>3, <2>3 DEF Prepares
      <3> QED
        BY <2>1, <2>3, <3>1, JobOver
    <2> QED
      BY <2>2, <2>3
  <1>4. CASE LeavesWork
    <2>1. /\ ProcessTyped /\ job.at = "working" /\ job.kind \in Kinds /\ Listing(job.todo)
          /\ UNCHANGED <<open, unchecked, faults>> /\ faults \in BOOLEAN
          /\ ToSet(Opens(job.kind)) \subseteq ToSet(job.todo)
          /\ ~faults => Clean /\ open = ToSet(job.todo)
      BY <1>4 DEF ProcessInv, ProcessTyped, LeavesWork
    <2>2. CASE job.todo # << >>
      <3>1. job' = [job EXCEPT !.at = "closing"] /\ UNCHANGED foreign
        BY <1>4, <2>2 DEF LeavesWork
      <3>2. job' = [job EXCEPT !.at = "closing", !.todo = job.todo]
        BY <2>1, <3>1 DEF ProcessTyped
      <3>3. ProcessTyped' /\ job'.kind = job.kind /\ job'.at = "closing" /\ job'.todo = job.todo
        BY <2>1, <3>2, JobGoesOn
      <3> QED
        BY <2>1, <2>2, <3>1, <3>3 DEF ProcessInv, Clean
    <2>3. CASE job.todo = << >>
      <3>1. LoopEnds(TRUE) /\ ToSet(job.todo) = {}
        BY <1>4, <2>3, WrittenOut DEF LeavesWork
      <3> QED
        BY <2>1, <3>1, JobOver DEF Clean
    <2> QED
      BY <2>2, <2>3
  <1>5. CASE ReplacesProcess
    <2>1. job' = [kind |-> "none", at |-> "idle", todo |-> << >>, whole |-> TRUE]
      BY <1>5 DEF ReplacesProcess, Unoccupied
    <2>2. /\ job'.kind = "none" /\ job'.at = "idle" /\ job'.todo = << >> /\ job'.whole = TRUE
          /\ job' = [kind |-> job'.kind, at |-> job'.at, todo |-> job'.todo, whole |-> job'.whole]
      BY <2>1, JobFields
    <2>3. ProcessTyped'
      BY <1>5, <2>2, WrittenLists DEF ReplacesProcess, ProcessTyped
    <2> QED
      BY <1>5, <2>1, <2>3 DEF ReplacesProcess, ProcessInv, Clean
  <1>6. CASE UNCHANGED processVars
    BY <1>6 DEF processVars, ProcessInv, ProcessTyped, Clean
  <1> QED
    BY <1>1, <1>2, <1>3, <1>4, <1>5, <1>6, OpensStep, ClosesStep DEF ProcessNext, Kinds

\* A job works with the clients it opened and leaves none open, for any number of
\* jobs and any failures of the openings and closings before it.
THEOREM JobsCloseTheirs == ProcessSpec => []JobsCloseWhatTheyOpen
  <1>1. ProcessInit => ProcessInv
    <2> SUFFICES ASSUME ProcessInit PROVE ProcessInv
      OBVIOUS
    <2>1. job = [kind |-> "none", at |-> "idle", todo |-> << >>, whole |-> TRUE]
      BY DEF ProcessInit, Unoccupied
    <2>2. /\ job.kind = "none" /\ job.at = "idle" /\ job.todo = << >> /\ job.whole = TRUE
          /\ job = [kind |-> job.kind, at |-> job.at, todo |-> job.todo, whole |-> job.whole]
      BY <2>1, JobFields
    <2>3. ProcessTyped
      BY <2>2, WrittenLists DEF ProcessInit, ProcessTyped
    <2> QED
      BY <2>1, <2>3 DEF ProcessInit, ProcessInv, Clean
  <1>2. ProcessInv /\ [ProcessNext]_processVars => ProcessInv'
    BY ProcessStep
  <1>3. ProcessInv => JobsCloseWhatTheyOpen
    BY DEF ProcessInv, Clean, JobsCloseWhatTheyOpen
  <1> QED
    BY <1>1, <1>2, <1>3, PTL DEF ProcessSpec
=============================================================================
