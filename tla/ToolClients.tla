------------------------------ MODULE ToolClients ------------------------------
(***************************************************************************)
(* The connections of one task runner to MCP servers and A2A agents: made  *)
(* when a run begins, dropped when it ends however it ends, and made again *)
(* when the same runner runs a second time.  Shutdown drops them too, from *)
(* another asyncio task.                                                   *)
(***************************************************************************)
EXTENDS Naturals, FiniteSets

CONSTANTS
  McpServers, A2aServers, \* what the user's configuration lists
  NoManager,
  MaxRuns                 \* bound: runs of the runner

\* What stands for no manager is not one.
ASSUME NoManagerAssumption ==
  /\ NoManager \notin [clients : SUBSET McpServers, tools : SUBSET McpServers]
  /\ NoManager \notin [client : {"open", "closed"}, cards : SUBSET A2aServers]

VARIABLES
  stage,      \* how far the run is
  untried,       \* servers the initialisation has still to try
  mcpTool,    \* MCPTool and its MCPClientManager
  a2aTool,    \* A2ATool and its A2AClientManager
  transports, \* MCP servers with a transport that was entered and never left
  destroying, \* how far destroy() of the runner is
  runs

toolVars == <<stage, untried, mcpTool, a2aTool, transports, destroying, runs>>

ToolsInit ==
  /\ stage = "idle"
  /\ untried = {}
  /\ mcpTool = [initialized |-> FALSE, manager |-> NoManager, offered |-> {}]
  /\ a2aTool = [initialized |-> FALSE, manager |-> NoManager]
  /\ transports = {}
  /\ destroying = "no"
  /\ runs = 0

-----------------------------------------------------------------------------
(* A run.                                                                  *)

\* A cancelled run takes no further step but to its finally.
RunsAt(s) == stage = s /\ destroying = "no"

StartsRun ==
  /\ RunsAt("idle") /\ runs < MaxRuns
  /\ stage' = "sandbox"
  /\ runs' = runs + 1
  /\ UNCHANGED <<untried, mcpTool, a2aTool, transports, destroying>>

\* The manager is there before it has connected to anything.
InitializesMcp ==
  /\ RunsAt("sandbox")
  /\ IF mcpTool.initialized
     THEN stage' = "mcp ready" /\ UNCHANGED <<untried, mcpTool>>
     ELSE /\ stage' = "mcp" /\ untried' = McpServers
          /\ mcpTool' = [mcpTool EXCEPT !.manager = [clients |-> {}, tools |-> {}]]
  /\ UNCHANGED <<a2aTool, transports, destroying, runs>>

\* One server: connected, with or without its tools, or skipped; disabled ones too.
ConnectsMcpServer(s) ==
  /\ RunsAt("mcp") /\ s \in untried
  /\ untried' = untried \ {s}
  /\ \/ /\ \E listed \in SUBSET {s} :
             mcpTool' = [mcpTool EXCEPT !.manager.clients = @ \cup {s},
                                        !.manager.tools = @ \cup listed]
        /\ transports' = transports \cup {s}
     \/ /\ UNCHANGED mcpTool
        /\ \E entered \in SUBSET {s} : transports' = transports \cup entered
  /\ UNCHANGED <<stage, a2aTool, destroying, runs>>

OffersMcpTools ==
  /\ RunsAt("mcp") /\ untried = {}
  /\ stage' = "mcp ready"
  /\ mcpTool' = [mcpTool EXCEPT !.initialized = TRUE, !.offered = mcpTool.manager.tools]
  /\ UNCHANGED <<untried, a2aTool, transports, destroying, runs>>

InitializesA2a ==
  /\ RunsAt("mcp ready")
  /\ IF a2aTool.initialized
     THEN stage' = "flow" /\ UNCHANGED <<untried, a2aTool>>
     ELSE /\ stage' = "a2a" /\ untried' = A2aServers
          /\ a2aTool' = [a2aTool EXCEPT !.manager = [client |-> "open", cards |-> {}]]
  /\ UNCHANGED <<mcpTool, transports, destroying, runs>>

GetsAgentCard(s) ==
  /\ RunsAt("a2a") /\ s \in untried
  /\ untried' = untried \ {s}
  /\ \/ a2aTool' = [a2aTool EXCEPT !.manager.cards = @ \cup {s}]
     \/ UNCHANGED a2aTool
  /\ UNCHANGED <<stage, mcpTool, transports, destroying, runs>>

A2aReady ==
  /\ RunsAt("a2a") /\ untried = {}
  /\ stage' = "flow"
  /\ a2aTool' = [a2aTool EXCEPT !.initialized = TRUE]
  /\ UNCHANGED <<untried, mcpTool, transports, destroying, runs>>

\* The messages are answered, or the run is cancelled, or something failed.
RunEnds ==
  /\ stage \in {"sandbox", "mcp", "mcp ready", "a2a", "flow"}
  /\ stage' = "cleaning mcp" /\ untried' = {}
  /\ UNCHANGED <<mcpTool, a2aTool, transports, destroying, runs>>

-----------------------------------------------------------------------------
(* _cleanup_tools().                                                       *)

\* Mutant of McpToolCleanup: the tool goes on saying that it is initialised.
MutMcpToolCleanup(t) == [t EXCEPT !.manager = NoManager]

\* The MCP manager never says that it is initialised, so it closes nothing.
McpToolCleanup(t) ==
  IF t.manager = NoManager THEN t
  ELSE [t EXCEPT !.manager = NoManager, !.initialized = FALSE]

\* Mutant of A2aManagerCleanups: only a tool that finished initialising is closed.
MutA2aManagerCleanups(t) ==
  IF t.manager = NoManager \/ ~t.initialized THEN {t}
  ELSE {[t EXCEPT !.manager = [client |-> "closed", cards |-> {}]]}

\* The client closes; a cancellation while it does keeps the cards.  The tool
\* itself goes on saying that it is initialised.
A2aManagerCleanups(t) ==
  IF t.manager = NoManager THEN {t}
  ELSE {[t EXCEPT !.manager = [client |-> "closed", cards |-> c]] :
          c \in {{}, t.manager.cards}}

CleansMcp ==
  /\ stage = "cleaning mcp"
  /\ mcpTool' = McpToolCleanup(mcpTool)
  /\ stage' = "cleaning a2a"
  /\ UNCHANGED <<untried, a2aTool, transports, destroying, runs>>

CleansA2a ==
  /\ stage = "cleaning a2a"
  /\ a2aTool' \in A2aManagerCleanups(a2aTool)
  /\ stage' = "idle"
  /\ UNCHANGED <<untried, mcpTool, transports, destroying, runs>>

\* Shutdown: the execution is cancelled, and while it handles that destroy()
\* removes the sandbox and cleans up as well.
DestroysRunner ==
  /\ destroying = "no"
  /\ destroying' = "mcp"
  /\ UNCHANGED <<stage, untried, mcpTool, a2aTool, transports, runs>>

DestroyCleansMcp ==
  /\ destroying = "mcp"
  /\ mcpTool' = McpToolCleanup(mcpTool)
  /\ destroying' = "a2a"
  /\ UNCHANGED <<stage, untried, a2aTool, transports, runs>>

DestroyCleansA2a ==
  /\ destroying = "a2a"
  /\ a2aTool' \in A2aManagerCleanups(a2aTool)
  /\ destroying' = "done"
  /\ UNCHANGED <<stage, untried, mcpTool, transports, runs>>

ToolsNext ==
  \/ StartsRun \/ InitializesMcp \/ OffersMcpTools \/ InitializesA2a \/ A2aReady \/ RunEnds
  \/ \E s \in McpServers : ConnectsMcpServer(s)
  \/ \E s \in A2aServers : GetsAgentCard(s)
  \/ CleansMcp \/ CleansA2a
  \/ DestroysRunner \/ DestroyCleansMcp \/ DestroyCleansA2a

ToolsSpec == ToolsInit /\ [][ToolsNext]_toolVars

-----------------------------------------------------------------------------
(* Properties.                                                             *)

\* Between runs no http client is open, whether the run before ended, failed or
\* was cancelled, in its initialisation too, and whether or not destroy() came
\* first (invoke's finally, _cleanup_tools, A2AClientManager.cleanup).
A2aClientOnlyInRun ==
  stage = "idle" /\ a2aTool.manager # NoManager => a2aTool.manager.client = "closed"

\* In every run, the second too, the model is offered only tools of MCP servers
\* that this run is connected to (MCPTool.initialize, get_tools, cleanup).
OfferedToolsAreConnected ==
  stage = "flow" /\ destroying = "no" =>
    mcpTool.manager # NoManager /\ mcpTool.offered \subseteq mcpTool.manager.clients
=============================================================================
