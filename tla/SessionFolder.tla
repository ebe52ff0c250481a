--------------------------- MODULE SessionFolder ---------------------------
(***************************************************************************)
(* The folder of one session and its row: scaffolding (session-manager.ts, *)
(* session-scaffolder.ts), the MCP servers the container is started with   *)
(* (container-runner.ts) and the mode, which is kept in the row and in     *)
(* CLAUDE.md.  The folder is mounted read-write in the container, so the   *)
(* agent edits the file too, also between two steps of the host.           *)
(***************************************************************************)
EXTENDS ProjectDetector, McpPassthrough, SessionModes

CONSTANTS
  Requests,    \* the [dir, servers] a client may create a session with
  Listings,    \* the directories the detection is compared on
  AgentTexts,  \* what the agent may add to CLAUDE.md
  MaxTokens,   \* bound: tokens of CLAUDE.md before an edit
  MaxDamage    \* bound: edits and failures that damage CLAUDE.md

VARIABLES
  phase,    \* "none", "broken": scaffold threw; "created", "running"
  request,  \* what it was created with
  mode,     \* the row's mode; Null while there is no row
  claude,   \* CLAUDE.md
  mcpJson,  \* .mcp.json
  env,      \* SWAPCLAW_MCP_SERVERS in the container
  pending,  \* what updateMode is about to write, or Missing
  texts,    \* history: text outside the mode section that must still be there
  damage,   \* history: edits that removed something or wrote a marker, and
            \* writes of which a beginning was stored
  behind    \* history: CLAUDE.md was not given the row's mode (yet)

vars == <<phase, request, mode, claude, mcpJson, env, pending, texts, damage, behind>>

Template == "template"
Context == "## Project Context"
HostTexts == {Template, Context}
Tokens == HostTexts \cup AgentTexts \cup Markers \cup ValidModes
TokensOf(f) == {f[i] : i \in DOMAIN f}

\* Servers are what the protocol allows; what the agent adds is text or a
\* marker; a file can be told from no file.
ASSUME FolderAssumption ==
  /\ \A r \in Requests :
       /\ r.servers \in Seq(McpServer)
       /\ LET configs == FromAcpMcpServers(r.servers)
          IN  configs # <<>> =>
                /\ WriteMcpConfigFile(configs) # Missing
                /\ ReadMcpConfigs(WriteMcpConfigFile(configs)) # Missing
  /\ MaxTokens \in Nat /\ MaxDamage \in Nat
  /\ AgentTexts \cap (Markers \cup ValidModes) = {}
  /\ Missing \notin Seq(Tokens)

\* The variables keep their types, and a file is only rewritten to the mode
\* that the row already has (setMode: the row comes first).
TypeOK ==
  /\ phase \in {"none", "broken", "created", "running"}
  /\ mode \in ValidModes \cup {Null}
  /\ claude = Missing \/ claude \in Seq(Tokens)
  /\ pending = Missing \/ (pending \in Seq(Tokens) /\ mode \in TokensOf(pending))
  /\ texts \subseteq Tokens \ Markers
  /\ damage \in 0..MaxDamage
  /\ behind \in BOOLEAN

Init ==
  /\ phase = "none"
  /\ request = Null
  /\ mode = Null
  /\ claude = Missing
  /\ mcpJson = Missing
  /\ env = Missing
  /\ pending = Missing
  /\ texts = {}
  /\ damage = 0
  /\ behind = FALSE

-----------------------------------------------------------------------------
(* create() and start() *)

Scaffolded(dir) ==
  IF DetectProjectType(dir) = Null THEN <<Template>> ELSE <<Template, Context>>

\* The column's default, of which the scaffold knows nothing.
CreateRow == mode' = "code" /\ behind' = TRUE

\* The row, then the folder, in one synchronous stretch.
Create(r) ==
  /\ phase = "none"
  /\ phase' = "created"
  /\ request' = r
  /\ claude' = Scaffolded(r.dir)
  /\ mcpJson' = WriteMcpConfigFile(FromAcpMcpServers(r.servers))
  /\ texts' = TokensOf(claude')
  /\ CreateRow
  /\ UNCHANGED <<env, pending, damage>>

\* scaffold throws at mkdir, at the copy, at the append or at .mcp.json: the
\* row stays, with what has been written so far.
CreateThrows(r) ==
  /\ phase = "none"
  /\ phase' = "broken"
  /\ request' = r
  /\ claude' \in {Missing, <<Template>>, Scaffolded(r.dir)}
  /\ texts' = IF claude' = Missing THEN {} ELSE TokensOf(claude')
  /\ CreateRow
  /\ UNCHANGED <<mcpJson, env, pending, damage>>

\* The container is started in the same stretch; its agent comes alive.
StartContainer ==
  /\ phase = "created"
  /\ phase' = "running"
  /\ env' = BuildMcpEnvVars(ReadMcpConfigs(mcpJson))
  /\ UNCHANGED <<request, mode, claude, mcpJson, pending, texts, damage, behind>>

-----------------------------------------------------------------------------
(* setMode() *)

HostIdle == pending = Missing /\ phase \in {"running", "broken"}

\* Plausible bug: the file is rewritten before the row is.
SetMode_FileFirst(m) ==
  /\ HostIdle
  /\ claude # Missing /\ Len(claude) <= MaxTokens
  /\ pending' = ApplyModeToClaude(claude, m)
  /\ behind' = TRUE
  /\ UNCHANGED <<phase, request, mode, claude, mcpJson, env, texts, damage>>

\* What the file is to become; without a file nothing is written.
UpdateMode(m) == IF claude = Missing THEN Missing ELSE ApplyModeToClaude(claude, m)

\* The row; then the file is read.  Any session that has a row will do, and
\* an invalid mode changes nothing.
SetMode(m) ==
  /\ HostIdle
  /\ claude # Missing => Len(claude) <= MaxTokens
  /\ mode' = m
  /\ pending' = UpdateMode(m)
  /\ behind' = TRUE
  /\ UNCHANGED <<phase, request, claude, mcpJson, env, texts, damage>>

WriteClaude ==
  /\ pending # Missing
  /\ claude' = pending
  /\ pending' = Missing
  /\ behind' = FALSE
  /\ UNCHANGED <<phase, request, mode, mcpJson, env, texts, damage>>

Damage == damage < MaxDamage /\ damage' = damage + 1

\* The write throws, or the process ends before it or during it: the file is
\* as it was, or emptied and refilled in part.
WriteFails ==
  /\ pending # Missing
  /\ pending' = Missing
  /\ \/ UNCHANGED <<claude, damage>>
     \/ /\ \E n \in 0..Len(pending) - 1 : claude' = SubSeq(pending, 1, n)
        /\ Damage
  /\ UNCHANGED <<phase, request, mode, mcpJson, env, texts, behind>>

-----------------------------------------------------------------------------
(* The agent *)

Inserted(f, t, i) == SubSeq(f, 1, i - 1) \o <<t>> \o SubSeq(f, i, Len(f))

\* A token put at i stands between the two markers of a section.
Inside(f, i) == \E p \in Sections(f) : p[1] < i /\ i <= p[2]

\* Anywhere in the file.  Text put into the mode section goes with it, and text
\* put anywhere while the host is between reading and writing is not kept.
AgentInserts(t, i) ==
  /\ phase = "running" /\ claude # Missing
  /\ i <= Len(claude) + 1
  /\ Len(claude) < MaxTokens /\ t \notin TokensOf(claude) \ Markers
  /\ claude' = Inserted(claude, t, i)
  /\ texts' = IF pending = Missing /\ t \notin Markers /\ ~Inside(claude, i)
              THEN texts \cup {t} ELSE texts
  /\ IF t \in Markers THEN Damage ELSE UNCHANGED damage
  /\ UNCHANGED <<phase, request, mode, mcpJson, env, pending, behind>>

AgentRemoves(i) ==
  /\ phase = "running"
  /\ claude # Missing /\ i \in DOMAIN claude
  /\ claude' = SubSeq(claude, 1, i - 1) \o SubSeq(claude, i + 1, Len(claude))
  /\ Damage
  /\ UNCHANGED <<phase, request, mode, mcpJson, env, pending, texts, behind>>

AgentDeletes ==
  /\ phase = "running" /\ claude # Missing
  /\ claude' = Missing
  /\ Damage
  /\ UNCHANGED <<phase, request, mode, mcpJson, env, pending, texts, behind>>

-----------------------------------------------------------------------------
Next ==
  \/ \E r \in Requests : Create(r) \/ CreateThrows(r)
  \/ StartContainer
  \/ \E m \in ValidModes : SetMode(m)
  \/ WriteClaude \/ WriteFails
  \/ \E t \in AgentTexts \cup Markers, i \in 1..MaxTokens : AgentInserts(t, i)
  \/ \E i \in 1..MaxTokens + 3 : AgentRemoves(i)
  \/ AgentDeletes

Spec == Init /\ [][Next]_vars

-----------------------------------------------------------------------------
Occurrences(t) == {i \in DOMAIN claude : claude[i] = t}

\* Once a mode was set, CLAUDE.md has one mode section, which holds the row's
\* mode and no other, however often it was set and whatever text the agent put
\* around the section or into it, unless a write is missing or the agent
\* damaged the file (setMode).
ModeAgrees ==
  phase # "none" /\ damage = 0 /\ ~behind =>
    \E a, k, b \in DOMAIN claude :
      /\ a < k /\ k < b
      /\ Occurrences(Start) = {a} /\ Occurrences(mode) = {k} /\ Occurrences(End) = {b}
      /\ \A m \in ValidModes \ {mode} : Occurrences(m) = {}

\* Nobody's text outside the mode section is lost to a change of mode, but for
\* what the agent adds between the host's read and its write (updateMode).
TextKept ==
  damage = 0 =>
    \A t \in texts : claude # Missing /\ t \in TokensOf(claude)

\* Even when the agent or a torn write has damaged the markers, a change of
\* mode swallows text only from the first section, between the file's first
\* start marker and the first end marker after it: not from any later section,
\* open or closed (applyModeToClaude).
OnlyFirstSectionReplaced ==
  [][pending = Missing /\ pending' # Missing =>
       \A i \in DOMAIN claude :
         claude[i] \in HostTexts \cup AgentTexts /\ claude[i] \notin TokensOf(pending') =>
           \E a, b \in DOMAIN claude :
             /\ a < i /\ i < b /\ claude[a] = Start /\ claude[b] = End
             /\ Start \notin {claude[k] : k \in 1..a - 1}
             /\ End \notin {claude[k] : k \in a + 1..b - 1}]_vars

\* The container gets every stdio server the client named, the last one of a
\* name with the last value of each of its variables, and nothing else.
McpDelivered ==
  phase = "running" =>
    LET servers == request.servers
        stdio == {i \in DOMAIN servers : servers[i].type = "stdio"}
        last == {i \in stdio : \A j \in stdio : servers[j].name = servers[i].name => j <= i}
        Has(s, v) == \E k \in DOMAIN s.env :
                       /\ s.env[k] = v
                       /\ \A l \in k + 1..Len(s.env) : s.env[l].name # v.name
    IN  IF stdio = {} THEN env = Missing
        ELSE /\ \A i \in last : \E c \in env :
                  /\ c.name = servers[i].name /\ c.command = servers[i].command
                  /\ {[name |-> n, value |-> c.env[n]] : n \in DOMAIN c.env}
                       = {v \in {servers[i].env[k] : k \in DOMAIN servers[i].env} : Has(servers[i], v)}
             /\ \A c, d \in env : c.name = d.name => c = d
             /\ {c.name : c \in env} = {servers[i].name : i \in last}

\* More evidence in a directory never loses what was detected: it stays a
\* project, and within an ecosystem no signal disappears (detectProjectType).
DetectionMonotone ==
  phase = "created" =>
    LET d == request.dir
        before == DetectProjectType(d)
    IN  \A e \in Listings :
          /\ d.files \subseteq e.files /\ d.deps \subseteq e.deps
          /\ d.readable = e.readable /\ d.manager \in {"", e.manager}
          /\ before # Null
          => LET after == DetectProjectType(e)
             IN  /\ after # Null
                 /\ "package.json" \in d.files \/ before.language = after.language =>
                      /\ before.framework # Null => after.framework # Null
                      /\ before.testRunner # Null => after.testRunner # Null
                      /\ before.packageManager # Null => after.packageManager # Null
=============================================================================
