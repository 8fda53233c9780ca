------------------------------ MODULE AppConfig ------------------------------
(***************************************************************************)
(* The configuration of one user: five columns of one row.  A request      *)
(* loads all of it (and makes the row when there is none), changes one     *)
(* part and saves all of it.  save() reads the row a second time, and only *)
(* the columns that differ from what it then sees are written when the     *)
(* transaction commits: an update made between the two reads is undone,    *)
(* one made after the second is undone in some columns.  Secrets are       *)
(* sealed on the way to the row, under a key a process may run without.    *)
(***************************************************************************)
EXTENDS Integers, FiniteSets

CONSTANTS
  Requests,   \* requests, and the startup, that use the row at the same time
  Models, DefaultModel, \* what a part without structure may be set to, and is at first
  Secrets,    \* api keys and server environments
  Servers,    \* names of MCP servers
  Urls,       \* addresses of A2A servers
  AgentIds,        \* ids of A2A servers
  Blank,      \* no api key
  NoRow, OldFile,  \* no configuration; the one in the old file, or NoRow
  MaxEdits    \* bound: requests

\* A secret as it is stored: the text, and how often it was sealed.
Plain(x) == [text |-> x, seals |-> 0]
Sealed(s) == s.seals > 0
NoServer == [on |-> FALSE, env |-> Plain(Blank), there |-> FALSE]
Parts == {"llm_config", "notebook_config", "agent_config", "mcp_config", "a2a_config"}
KeyedParts == {"llm_config", "notebook_config"}

\* What the columns of a configuration hold.
SecretValues == [text : Secrets \cup {Blank}, seals : {0, 1}]
ModelChoices == Models \cup {DefaultModel}
KeyedColumns == [model : ModelChoices, key : SecretValues]
McpColumns == [Servers -> [on : BOOLEAN, env : SecretValues, there : BOOLEAN]]
A2aColumns == SUBSET [id : AgentIds, base_url : Urls, on : BOOLEAN]
IsAppConfig(c) ==
  /\ c = [p \in Parts |-> c[p]]
  /\ \A p \in KeyedParts : c[p] \in KeyedColumns
  /\ c["agent_config"] \in ModelChoices
  /\ c["mcp_config"] \in McpColumns /\ c["a2a_config"] \in A2aColumns

ASSUME ConfigAssumption ==
  /\ Blank \notin Secrets
  /\ NoRow \notin [Parts -> KeyedColumns \cup ModelChoices \cup McpColumns \cup A2aColumns]
  /\ OldFile # NoRow => IsAppConfig(OldFile)

CreateDefaultAppConfig ==
  [p \in Parts |->
     CASE p \in KeyedParts -> [model |-> DefaultModel, key |-> Plain(Blank)]
       [] p = "agent_config" -> DefaultModel
       [] p = "mcp_config" -> [s \in Servers |-> NoServer]
       [] p = "a2a_config" -> {}]

VARIABLES
  row,       \* the stored configuration, or NoRow
  keyed,     \* whether the processes have an encryption key
  request,   \* what each request has read and will write
  wanted,    \* each part as the last update of it left it (history)
  overtaken, \* requests during which another one committed (history)
  contested, \* parts last updated while another request was under way (history)
  edits

configVars == <<row, keyed, request, wanted, overtaken, contested, edits>>

Done == [step |-> "idle", part |-> "none", config |-> NoRow, seen |-> NoRow]
Open == {r \in Requests : request[r].step # "idle"}

ConfigInit ==
  /\ row = NoRow
  /\ keyed \in BOOLEAN
  /\ request = [r \in Requests |-> Done]
  /\ wanted = NoRow
  /\ overtaken = {} /\ contested = {}
  /\ edits = 0

-----------------------------------------------------------------------------
(* Sealing.                                                                *)

\* Mutant of DecryptText: without the key a secret is read as none.
MutDecryptText(s) ==
  IF ~Sealed(s) THEN s ELSE IF keyed THEN [s EXCEPT !.seals = @ - 1] ELSE Plain(Blank)

EncryptText(s) ==
  IF s.text = Blank \/ Sealed(s) \/ ~keyed THEN s ELSE [s EXCEPT !.seals = @ + 1]
DecryptText(s) == IF Sealed(s) /\ keyed THEN [s EXCEPT !.seals = @ - 1] ELSE s

\* The secrets of a part, changed by op.
Mapped(c, op(_)) ==
  [p \in Parts |->
     CASE p \in KeyedParts -> [c[p] EXCEPT !.key = op(@)]
       [] p = "mcp_config" -> [s \in Servers |-> [c[p][s] EXCEPT !.env = op(@)]]
       [] OTHER -> c[p]]
EncryptAppConfig(c) == Mapped(c, EncryptText)
DecryptAppConfig(c) == Mapped(c, DecryptText)

\* A server's environment is an object: sealed text in its place is no AppConfig.
Loadable(c) == \A s \in Servers : ~Sealed(DecryptAppConfig(c)["mcp_config"][s].env)

\* Sealing never gives the same text twice: such a column always differs.
Resealed(c, p) ==
  \/ p \in KeyedParts /\ Sealed(c[p].key)
  \/ p = "mcp_config" /\ \E s \in Servers : Sealed(c[p][s].env)

-----------------------------------------------------------------------------
(* A request.                                                              *)

\* get_or_create_default: without a row the request will insert one.
Loads(r) ==
  /\ request[r].step = "idle" /\ edits < MaxEdits
  /\ row # NoRow => Loadable(row)
  /\ request' = [request EXCEPT ![r] =
       [step |-> "loaded", part |-> "none", seen |-> row,
        config |-> IF row = NoRow THEN CreateDefaultAppConfig ELSE DecryptAppConfig(row)]]
  /\ overtaken' = overtaken \ {r}
  /\ edits' = edits + 1
  /\ UNCHANGED <<row, keyed, wanted, contested>>

Loaded(r) == request[r].step = "loaded"

\* The part is replaced and save() reads the row again, its own one if it made it.
Edits(r, p, value) ==
  LET c == [request[r].config EXCEPT ![p] = value]
      mine == request[r].seen = NoRow
  IN /\ Loaded(r)
     /\ request' = [request EXCEPT ![r] =
          [step |-> "saved", part |-> p, config |-> EncryptAppConfig(c),
           seen |-> IF mine THEN NoRow ELSE row]]
     /\ UNCHANGED <<row, keyed, wanted, overtaken, contested, edits>>

\* An empty api key keeps the one that was loaded.
UpdatesKeyedPart(r, p) ==
  Loaded(r) /\ \E m \in Models : \E k \in Secrets \cup {Blank} :
    Edits(r, p, [model |-> m,
      key |-> IF k = Blank THEN request[r].config[p].key ELSE Plain(k)])

UpdatesAgentConfig(r) == Loaded(r) /\ \E m \in Models : Edits(r, "agent_config", m)

ServersOf(r) == request[r].config["mcp_config"]
TypedServers == [on : BOOLEAN, env : {Plain(x) : x \in Secrets \cup {Blank}}, there : {TRUE}]
\* Any number of servers, each enabled or not, beside those that are there.
UpdatesAndCreatesMcpServers(r) ==
  Loaded(r) /\ \E S \in SUBSET Servers : \E new \in [S -> TypedServers] :
    Edits(r, "mcp_config", [s \in Servers |-> IF s \in S THEN new[s] ELSE ServersOf(r)[s]])
DeletesMcpServer(r, s) ==
  /\ Loaded(r) /\ ServersOf(r)[s].there
  /\ Edits(r, "mcp_config", [ServersOf(r) EXCEPT ![s] = NoServer])
SetsMcpServerEnabled(r, s, on) ==
  /\ Loaded(r) /\ ServersOf(r)[s].there
  /\ Edits(r, "mcp_config", [ServersOf(r) EXCEPT ![s].on = on])

ListedAgents(r) == request[r].config["a2a_config"]
\* A new server gets an id of its own; an address that is known is refused.
CreatesA2aServer(r) ==
  Loaded(r) /\ \E u \in Urls : \E i \in AgentIds :
    /\ \A a \in ListedAgents(r) : a.base_url # u
    /\ \A a \in ListedAgents(r) : a.id # i
    /\ Edits(r, "a2a_config", ListedAgents(r) \cup {[id |-> i, base_url |-> u, on |-> TRUE]})

SetsA2aServerEnabled(r, i, on) ==
  Loaded(r) /\ \E a \in ListedAgents(r) :
    a.id = i /\ Edits(r, "a2a_config", (ListedAgents(r) \ {a}) \cup {[a EXCEPT !.on = on]})
DeletesA2aServer(r, i) ==
  Loaded(r) /\ \E a \in ListedAgents(r) : a.id = i /\ Edits(r, "a2a_config", ListedAgents(r) \ {a})

Closes(r) == request' = [request EXCEPT ![r] = Done]

\* A read, an update that is refused, an error, a client that went away.
RollsBack(r) ==
  /\ request[r].step # "idle"
  /\ Closes(r)
  /\ UNCHANGED <<row, keyed, wanted, overtaken, contested, edits>>

\* The parts that a request means to set: all, when it is the old file.
Meant(t) == IF t.part = "all" THEN Parts ELSE {t.part}

\* The columns that changed are written; a row that is there already refuses
\* to be inserted.  A request that only reads commits the default it made.
CommitsConfig(r) ==
  LET t == request[r]
      dirty == {p \in Parts : t.config[p] # t.seen[p] \/ Resealed(t.config, p)}
      others == Open \ {r}
  IN /\ t.step = "saved" \/ (t.step = "loaded" /\ t.seen = NoRow)
     /\ Closes(r)
     /\ \/ /\ t.seen = NoRow /\ row = NoRow
           /\ row' = t.config
           /\ wanted' = DecryptAppConfig(t.config)
           /\ contested' = {}
        \/ /\ t.seen = NoRow /\ row # NoRow
           /\ UNCHANGED <<row, wanted, contested>>
        \/ /\ t.seen # NoRow
           /\ row' = [p \in Parts |-> IF p \in dirty THEN t.config[p] ELSE row[p]]
           /\ wanted' = [p \in Parts |-> IF p \in Meant(t) THEN DecryptAppConfig(t.config)[p]
                                         ELSE wanted[p]]
           /\ contested' = IF others = {} /\ r \notin overtaken
                           THEN contested \ Meant(t) ELSE contested \cup Meant(t)
     /\ overtaken' = overtaken \cup others
     /\ UNCHANGED <<keyed, edits>>

\* The startup gives the administrator the old file, if nothing is there.
Bootstraps(r) ==
  /\ request[r].step = "idle" /\ edits < MaxEdits /\ row = NoRow
  /\ request' = [request EXCEPT ![r] = [step |-> "checked", part |-> "all", seen |-> NoRow,
       config |-> IF OldFile = NoRow THEN CreateDefaultAppConfig ELSE OldFile]]
  /\ overtaken' = overtaken \ {r}
  /\ edits' = edits + 1
  /\ UNCHANGED <<row, keyed, wanted, contested>>

\* It looks a second time in the transaction that will save the file.
BootstrapLooksAgain(r) ==
  /\ request[r].step = "checked"
  /\ request' = [request EXCEPT ![r] = IF row = NoRow THEN [@ EXCEPT !.step = "looked"] ELSE Done]
  /\ UNCHANGED <<row, keyed, wanted, overtaken, contested, edits>>

\* save() reads the row a third time: the file goes over one that is there by now.
BootstrapSaves(r) ==
  /\ request[r].step = "looked"
  /\ request' = [request EXCEPT ![r] = [step |-> "saved", part |-> "all", seen |-> row,
       config |-> EncryptAppConfig(request[r].config)]]
  /\ UNCHANGED <<row, keyed, wanted, overtaken, contested, edits>>

\* The processes are restarted, with or without the key.
Restarts ==
  /\ request' = [r \in Requests |-> Done]
  /\ keyed' \in BOOLEAN
  /\ UNCHANGED <<row, wanted, overtaken, contested, edits>>

ConfigNext ==
  \/ \E r \in Requests :
       \/ Loads(r) \/ CommitsConfig(r) \/ RollsBack(r)
       \/ Bootstraps(r) \/ BootstrapLooksAgain(r) \/ BootstrapSaves(r)
       \/ \E p \in KeyedParts : UpdatesKeyedPart(r, p)
       \/ UpdatesAgentConfig(r) \/ UpdatesAndCreatesMcpServers(r) \/ CreatesA2aServer(r)
       \/ \E s \in Servers : DeletesMcpServer(r, s)
       \/ \E i \in AgentIds : DeletesA2aServer(r, i)
       \/ \E on \in BOOLEAN :
            \/ \E s \in Servers : SetsMcpServerEnabled(r, s, on)
            \/ \E i \in AgentIds : SetsA2aServerEnabled(r, i, on)
  \/ Restarts

ConfigSpec == ConfigInit /\ [][ConfigNext]_configVars

-----------------------------------------------------------------------------
(* Properties.                                                             *)

\* The secrets as the user typed them.
AsTyped(s) == Plain(s.text)
Unsealed(c) == Mapped(c, AsTyped)

\* With the key, a part that was last updated while nobody else had the row open
\* is read as that update made it, with the secret that was typed: across updates
\* of other parts, keys left empty, and restarts with and without the key, when
\* sealed text is passed on as it is (update_*_config, save, _encrypt_text).  The
\* old file that the startup saves over a row made meanwhile contests every part
\* that it sets, which is all of them (bootstrap_admin_app_config).
UncontestedEditsStand ==
  row # NoRow /\ keyed =>
    \A p \in Parts \ contested : DecryptAppConfig(row)[p] = Unsealed(wanted)[p]
=============================================================================
