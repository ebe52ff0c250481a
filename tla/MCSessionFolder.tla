-------------------------- MODULE MCSessionFolder --------------------------
(* Creations differ either in the project directory or in the MCP servers. *)
EXTENDS SessionFolder

Directory(files, deps, manager) ==
  [files |-> files, deps |-> deps, manager |-> manager, readable |-> TRUE]

Empty == Directory({}, {}, "")
Broken == [Directory({"package.json", "Cargo.toml"}, {}, "") EXCEPT !.readable = FALSE]

MCListings ==
  {Directory(f, d, m) :
     f \in SUBSET {"package.json", "tsconfig.json", "yarn.lock", "Cargo.toml", "pom.xml"},
     d \in SUBSET {"next", "react", "jest"},
     m \in {"", "pnpm", "other"}}

Server(name, type, command, values) ==
  [name |-> name, type |-> type, command |-> command,
   env |-> [i \in DOMAIN values |-> [name |-> "A", value |-> values[i]]]]

Servers ==
  {Server("s", "stdio", "a", <<"1">>), Server("s", "stdio", "b", <<"1", "2">>),
   Server("s", "http", "c", <<>>), Server("t", "stdio", "a", <<>>)}

MCRequests ==
  {[dir |-> d, servers |-> <<>>] :
     d \in {Empty, Broken,
            Directory({"Cargo.toml"}, {}, ""), Directory({"pom.xml"}, {}, ""),
            Directory({"package.json", "yarn.lock"}, {"react", "jest"}, "")}}
  \cup {[dir |-> Empty, servers |-> <<a>>] : a \in Servers}
  \cup {[dir |-> Empty, servers |-> <<a, b>>] : a, b \in Servers}
=============================================================================
