--------------------------- MODULE McpPassthrough ---------------------------
(***************************************************************************)
(* The way of MCP server configurations from the client's session/new into *)
(* the environment of the container (mcp-passthrough.ts).  A command       *)
(* stands for a command with its arguments; env is a sequence of           *)
(* variables, [name, value].                                               *)
(***************************************************************************)
EXTENDS Integers, Sequences

CONSTANTS
  Strings,  \* names, commands and values
  Missing   \* no file, no variable

EnvVariable == [name : Strings, value : Strings]
McpServer ==
  [name : Strings, type : {"stdio", "http", "sse"}, command : Strings, env : Seq(EnvVariable)]

\* A record is filled in the order of the sequence: the last entry wins.
LastNamed(seq, n) ==
  seq[CHOOSE i \in DOMAIN seq :
        seq[i].name = n /\ \A j \in DOMAIN seq : seq[j].name = n => j <= i]

NamesOf(seq) == {seq[i].name : i \in DOMAIN seq}

ToConfig(server) ==
  [name |-> server.name, command |-> server.command,
   env |-> [n \in NamesOf(server.env) |-> LastNamed(server.env, n).value]]

\* Plausible bug: servers of other transports are passed on.
FromAcpMcpServers_All(servers) == [i \in DOMAIN servers |-> ToConfig(servers[i])]

\* configs[i] is what the loop has pushed after i servers.
FromAcpMcpServers(servers) ==
  LET configs[i \in 0..Len(servers)] ==
        IF i = 0 THEN <<>>
        ELSE IF servers[i].type = "stdio" THEN Append(configs[i - 1], ToConfig(servers[i]))
        ELSE configs[i - 1]
  IN  configs[Len(servers)]

\* .mcp.json: an object keyed by name; not written when there is nothing.
WriteMcpConfigFile(configs) ==
  IF configs = <<>> THEN Missing
  ELSE [n \in NamesOf(configs) |->
          [command |-> LastNamed(configs, n).command, env |-> LastNamed(configs, n).env]]

ReadMcpConfigs(file) ==
  IF file = Missing THEN {}
  ELSE {[name |-> n, command |-> file[n].command, env |-> file[n].env] : n \in DOMAIN file}

\* SWAPCLAW_MCP_SERVERS.
BuildMcpEnvVars(configs) == IF configs = {} THEN Missing ELSE configs
=============================================================================
