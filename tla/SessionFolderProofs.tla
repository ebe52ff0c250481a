------------------------ MODULE SessionFolderProofs ------------------------
(***************************************************************************)
(* What holds of a session's folder for every set of requests, directories *)
(* and texts of the agent: the mode section, the text around it, the       *)
(* detection of projects, and the MCP servers the container is given.      *)
(***************************************************************************)
EXTENDS SessionFolder, SequenceTheorems, WellFoundedInduction, TLAPS

-----------------------------------------------------------------------------
(* The least element of a set of numbers, and of a set of pairs *)

LEMMA LeastPair ==
  ASSUME NEW T, T \subseteq Nat \X Nat, T # {}
  PROVE  \E p \in T : \A q \in T : p[1] < q[1] \/ (p[1] = q[1] /\ p[2] <= q[2])
<1> DEFINE R == OpToRel(<, Nat)
           L == LexPairOrdering(R, R, Nat, Nat)
<1>1. IsWellFoundedOn(L, Nat \X Nat)
  BY NatLessThanWellFounded, WFLexPairOrdering
<1>2. PICK p \in T : \A q \in T : ~ (<<q, p>> \in L)
  <2> HIDE DEF L
  <2>1. QED
    BY <1>1, WFMin
<1>3. ASSUME NEW q \in T PROVE p[1] < q[1] \/ (p[1] = q[1] /\ p[2] <= q[2])
  <2>1. PICK a, b, c, d \in Nat : p = <<a, b>> /\ q = <<c, d>>
    OBVIOUS
  <2>2. ~(c < a) /\ ~(c = a /\ d < b)
    BY <1>2, <2>1 DEF LexPairOrdering, OpToRel
  <2>3. QED
    BY <2>1, <2>2
<1>4. QED
  BY <1>3

LEMMA LeastNumber ==
  ASSUME NEW T, T \subseteq Nat, T # {}
  PROVE  \E i \in T : \A j \in T : i <= j
<1>1. PICK i \in T : \A j \in T : ~ (<<j, i>> \in OpToRel(<, Nat))
  BY NatLessThanWellFounded, WFMin
<1>2. ASSUME NEW j \in T PROVE i <= j
  <2>1. <<j, i>> \in Nat \X Nat
    OBVIOUS
  <2>2. ~(j < i)
    BY <1>1, <2>1 DEF OpToRel
  <2>3. QED
    BY <2>2
<1>3. QED
  BY <1>2

-----------------------------------------------------------------------------
(* Detection *)

\* The rows of a table that apply to a set of names.
Matches(table, names) == {i \in DOMAIN table : table[i].any \cap names # {}}

LEMMA FirstMatchFacts ==
  ASSUME NEW table, DOMAIN table \subseteq Nat, NEW names
  PROVE  /\ Matches(table, names) = {} => FirstMatch(table, names) = Null
         /\ Matches(table, names) # {} =>
              \E i \in Matches(table, names) :
                /\ FirstMatch(table, names) = table[i].says
                /\ \A j \in Matches(table, names) : i <= j
<1> DEFINE rows == Matches(table, names)
           k == CHOOSE i \in rows : \A j \in rows : i <= j
<1>1. FirstMatch(table, names) = IF rows = {} THEN Null ELSE table[k].says
  BY DEF FirstMatch, Matches
<1>2. rows \subseteq Nat
  BY DEF Matches
<1>3. rows # {} => \E i \in rows : \A j \in rows : i <= j
  <2> HIDE DEF rows
  <2>1. QED
    BY <1>2, LeastNumber
<1>4. rows # {} => k \in rows /\ \A j \in rows : k <= j
  <2> HIDE DEF rows
  <2>1. QED
    BY <1>3
<1> HIDE DEF rows, k
<1>5. QED
  BY <1>1, <1>4 DEF rows

\* With more names, a row of the table that says something may only be
\* replaced by an earlier one.
LEMMA FirstMatchGrows ==
  ASSUME NEW table, DOMAIN table \subseteq Nat, NEW names, NEW more, names \subseteq more,
         FirstMatch(table, names) # Null
  PROVE  \E i, j \in DOMAIN table :
           /\ j <= i
           /\ FirstMatch(table, names) = table[i].says
           /\ FirstMatch(table, more) = table[j].says
<1>1. PICK i \in Matches(table, names) : FirstMatch(table, names) = table[i].says
  BY FirstMatchFacts
<1>2. i \in Matches(table, more)
  BY <1>1 DEF Matches
<1>3. PICK j \in Matches(table, more) :
        /\ FirstMatch(table, more) = table[j].says
        /\ \A l \in Matches(table, more) : j <= l
  BY <1>2, FirstMatchFacts
<1>4. QED
  BY <1>1, <1>2, <1>3 DEF Matches

\* Tables whose rows say a tool.
NamesTools(table) == DOMAIN table \subseteq Nat /\ \A i \in DOMAIN table : table[i].says \in Tools

LEMMA ToolsGrow ==
  ASSUME NEW table, NamesTools(table), NEW names, NEW more, names \subseteq more,
         FirstMatch(table, names) # Null
  PROVE  FirstMatch(table, more) # Null
BY FirstMatchGrows, NullAssumption DEF NamesTools

LEMMA FirstMatchType ==
  ASSUME NEW table, NamesTools(table), NEW names
  PROVE  FirstMatch(table, names) \in Tools \cup {Null}
BY FirstMatchFacts DEF NamesTools, Matches

LEMMA NamedByTools ==
  ASSUME NEW names \in Seq(Tools)
  PROVE  NamesTools(NamedBy(names)) /\ NamedBy(names) \in Seq({NamedBy(names)[i] : i \in DOMAIN names})
<1> DEFINE t == NamedBy(names)
<1>1. \A i \in DOMAIN names : t[i].says = names[i] /\ names[i] \in Tools
  BY DEF NamedBy, Row
<1>2. DOMAIN t = 1..Len(names) /\ Len(names) \in Nat /\ DOMAIN names = 1..Len(names)
  BY DEF NamedBy
<1>3. t \in [1..Len(names) -> {t[i] : i \in DOMAIN names}]
  BY <1>2 DEF NamedBy
<1> HIDE DEF t
<1>4. t \in Seq({t[i] : i \in DOMAIN names})
  BY <1>2, <1>3
<1>5. NamesTools(t)
  BY <1>1, <1>2 DEF NamesTools
<1>6. QED
  BY <1>4, <1>5 DEF t

LEMMA ConcatTools ==
  ASSUME NEW S, NEW a \in Seq(S), NamesTools(a), NEW T, NEW b \in Seq(T), NamesTools(b)
  PROVE  NamesTools(a \o b) /\ a \o b \in Seq(S \cup T)
<1>1. a \in Seq(S \cup T) /\ b \in Seq(S \cup T)
  OBVIOUS
<1>2. /\ a \o b \in Seq(S \cup T) /\ Len(a \o b) = Len(a) + Len(b)
      /\ \A i \in 1..Len(a) + Len(b) : (a \o b)[i] = IF i <= Len(a) THEN a[i] ELSE b[i - Len(a)]
  BY <1>1, ConcatProperties
<1>3. \A i \in DOMAIN (a \o b) : (a \o b)[i].says \in Tools
  <2> SUFFICES ASSUME NEW i \in DOMAIN (a \o b) PROVE (a \o b)[i].says \in Tools
    OBVIOUS
  <2>1. i \in 1..Len(a) + Len(b) /\ Len(a) \in Nat /\ Len(b) \in Nat
    BY <1>2
  <2>2. CASE i <= Len(a)
    <3>1. i \in DOMAIN a /\ (a \o b)[i] = a[i]
      BY <1>2, <2>1, <2>2
    <3>2. QED
      BY <3>1 DEF NamesTools
  <2>3. CASE i > Len(a)
    <3>1. i - Len(a) \in DOMAIN b /\ (a \o b)[i] = b[i - Len(a)]
      BY <1>2, <2>1, <2>3
    <3>2. QED
      BY <3>1 DEF NamesTools
  <2>4. QED
    BY <2>1, <2>2, <2>3
<1>4. QED
  BY <1>2, <1>3 DEF NamesTools

\* The table of frameworks.
LEMMA FrameworkTable ==
  \E table : NamesTools(table) /\ \A deps : DetectFramework(deps) = FirstMatch(table, deps)
<1> DEFINE a == NamedBy(<<"next", "nuxt">>)
           b == <<Row({"@angular/core"}, "angular"), Row({"svelte", "@sveltejs/kit"}, "svelte")>>
           c == NamedBy(<<"vue", "react", "express", "fastify", "hono", "koa">>)
           S == {a[i] : i \in DOMAIN <<"next", "nuxt">>}
           T == {Row({"@angular/core"}, "angular"), Row({"svelte", "@sveltejs/kit"}, "svelte")}
           U == {c[i] : i \in DOMAIN <<"vue", "react", "express", "fastify", "hono", "koa">>}
<1>1. NamesTools(a) /\ a \in Seq(S)
  <2>1. <<"next", "nuxt">> \in Seq(Tools)
    BY DEF Tools
  <2>2. QED
    BY <2>1, NamedByTools
<1>2. NamesTools(b) /\ b \in Seq(T)
  <2>1. DOMAIN b = 1..2 /\ b[1].says = "angular" /\ b[2].says = "svelte"
    BY DEF Row
  <2>2. b \in Seq(T)
    OBVIOUS
  <2>3. "angular" \in Tools /\ "svelte" \in Tools
    BY DEF Tools
  <2> HIDE DEF b, T
  <2>4. \A i \in DOMAIN b : i \in Nat /\ (i = 1 \/ i = 2)
    BY <2>1
  <2>5. QED
    BY <2>1, <2>2, <2>3, <2>4 DEF NamesTools
<1>3. NamesTools(c) /\ c \in Seq(U)
  <2>1. <<"vue", "react", "express", "fastify", "hono", "koa">> \in Seq(Tools)
    BY DEF Tools
  <2>2. QED
    BY <2>1, NamedByTools
<1>4. \A deps : DetectFramework(deps) = FirstMatch(a \o b \o c, deps)
  BY DEF DetectFramework
<1> HIDE DEF a, b, c, S, T, U
<1>5. NamesTools(a \o b \o c)
  <2>1. NamesTools(a \o b) /\ a \o b \in Seq(S \cup T)
    BY <1>1, <1>2, ConcatTools
  <2>2. QED
    BY <1>3, <2>1, ConcatTools
<1>6. QED
  BY <1>4, <1>5

LEMMA TestRunnerTable ==
  \E table : NamesTools(table) /\ \A deps : DetectTestRunner(deps) = FirstMatch(table, deps)
<1> DEFINE a == NamedBy(<<"vitest", "jest", "mocha", "ava", "tap">>)
<1>1. <<"vitest", "jest", "mocha", "ava", "tap">> \in Seq(Tools)
  BY DEF Tools
<1>2. NamesTools(a)
  BY <1>1, NamedByTools
<1>3. \A deps : DetectTestRunner(deps) = FirstMatch(a, deps)
  BY DEF DetectTestRunner
<1> HIDE DEF a
<1>4. QED
  BY <1>2, <1>3

LEMMA LockFilesTable == NamesTools(LockFiles)
<1>1. /\ DOMAIN LockFiles = 1..4
      /\ LockFiles[1].says = "bun" /\ LockFiles[2].says = "pnpm"
      /\ LockFiles[3].says = "yarn" /\ LockFiles[4].says = "npm"
  BY DEF LockFiles, Row
<1>2. {"bun", "pnpm", "yarn", "npm"} \subseteq Tools
  BY DEF Tools
<1>3. \A i \in DOMAIN LockFiles : i \in Nat /\ (i = 1 \/ i = 2 \/ i = 3 \/ i = 4)
  BY <1>1
<1>4. QED
  BY <1>1, <1>2, <1>3 DEF NamesTools

LEMMA PackageManagerGrows ==
  ASSUME NEW d, NEW e, d.files \subseteq e.files, d.manager \in {"", e.manager},
         DetectPackageManager(d) # Null
  PROVE  DetectPackageManager(e) # Null
<1>1. CASE e.manager \in {"pnpm", "yarn", "npm", "bun"}
  BY <1>1, NullAssumption DEF DetectPackageManager, Tools
<1>2. CASE e.manager \notin {"pnpm", "yarn", "npm", "bun"}
  <2>1. d.manager \notin {"pnpm", "yarn", "npm", "bun"}
    BY <1>2
  <2>2. QED
    BY <1>2, <2>1, LockFilesTable, ToolsGrow DEF DetectPackageManager
<1>3. QED
  BY <1>1, <1>2

\* What a directory with a package.json says.
LEMMA NodeGrows ==
  ASSUME NEW d, NEW e, d.files \subseteq e.files, d.deps \subseteq e.deps,
         d.readable = e.readable, d.manager \in {"", e.manager}
  PROVE  /\ DetectNode(d).framework # Null => DetectNode(e).framework # Null
         /\ DetectNode(d).testRunner # Null => DetectNode(e).testRunner # Null
         /\ DetectNode(d).packageManager # Null => DetectNode(e).packageManager # Null
<1>1. DetectPackageManager(d) # Null => DetectPackageManager(e) # Null
  BY PackageManagerGrows
<1>2. DetectFramework(d.deps) # Null => DetectFramework(e.deps) # Null
  BY FrameworkTable, ToolsGrow
<1>3. DetectTestRunner(d.deps) # Null => DetectTestRunner(e.deps) # Null
  BY TestRunnerTable, ToolsGrow
<1>4. CASE d.readable
  <2>1. e.readable
    BY <1>4
  <2>2. /\ DetectNode(d).framework = DetectFramework(d.deps)
        /\ DetectNode(d).testRunner = DetectTestRunner(d.deps)
        /\ DetectNode(d).packageManager = DetectPackageManager(d)
    BY <1>4 DEF DetectNode, Signals
  <2>3. /\ DetectNode(e).framework = DetectFramework(e.deps)
        /\ DetectNode(e).testRunner = DetectTestRunner(e.deps)
        /\ DetectNode(e).packageManager = DetectPackageManager(e)
    BY <2>1 DEF DetectNode, Signals
  <2>4. QED
    BY <1>1, <1>2, <1>3, <2>2, <2>3
<1>5. CASE ~d.readable
  BY <1>5 DEF DetectNode, Signals
<1>6. QED
  BY <1>4, <1>5

LEMMA NodeType ==
  ASSUME NEW d
  PROVE  DetectNode(d) \in ProjectSignals /\ DetectNode(d).language \in {"javascript", "typescript"}
<1>1. DetectFramework(d.deps) \in Tools \cup {Null} /\ DetectTestRunner(d.deps) \in Tools \cup {Null}
  BY FrameworkTable, TestRunnerTable, FirstMatchType
<1>2. DetectPackageManager(d) \in Tools \cup {Null}
  BY LockFilesTable, FirstMatchType DEF DetectPackageManager, Tools
<1>3. QED
  BY <1>1, <1>2 DEF DetectNode, Signals, ProjectSignals, Languages

\* The rows of the other ecosystems.
Says(i) == OtherProjects[i].says

LEMMA OtherDomain == DOMAIN OtherProjects = 1..5 /\ DOMAIN OtherProjects \subseteq Nat
BY DEF OtherProjects

\* Two rows of one language differ only in the tool that manages packages.
LEMMA OtherRows ==
  ASSUME NEW i \in 1..5
  PROVE  /\ Says(i) \in ProjectSignals
         /\ Says(i).language \notin {"javascript", "typescript"}
         /\ \A j \in 1..5 :
              Says(i).language = Says(j).language =>
                /\ Says(i).framework = Says(j).framework
                /\ Says(i).testRunner = Says(j).testRunner
                /\ Says(i).packageManager # Null => Says(j).packageManager # Null
<1>1. /\ "rust" \in Languages /\ "go" \in Languages /\ "python" \in Languages /\ "java" \in Languages
      /\ "cargo test" \in Tools /\ "go test" \in Tools /\ "maven" \in Tools /\ "gradle" \in Tools
  BY DEF Languages, Tools
<1>2. Says(1) = Signals("rust", Null, "cargo test", Null)
  BY DEF Says, OtherProjects, Row
<1>3. Says(2) = Signals("go", Null, "go test", Null)
  BY DEF Says, OtherProjects, Row
<1>4. Says(3) = Signals("python", Null, Null, Null)
  BY DEF Says, OtherProjects, Row
<1>5. Says(4) = Signals("java", Null, Null, "maven")
  BY DEF Says, OtherProjects, Row
<1>6. Says(5) = Signals("java", Null, Null, "gradle")
  BY DEF Says, OtherProjects, Row
<1>7. "maven" # Null /\ "gradle" # Null
  BY <1>1, NullAssumption
<1>8. /\ Says(1) \in ProjectSignals /\ Says(1).language = "rust"
      /\ Says(1).framework = Null /\ Says(1).testRunner = "cargo test"
      /\ Says(1).packageManager = Null
  <2>1. Signals("rust", Null, "cargo test", Null) \in ProjectSignals
    BY DEF Signals, ProjectSignals, Languages, Tools
  <2>2. /\ Signals("rust", Null, "cargo test", Null).language = "rust"
        /\ Signals("rust", Null, "cargo test", Null).framework = Null
        /\ Signals("rust", Null, "cargo test", Null).testRunner = "cargo test"
        /\ Signals("rust", Null, "cargo test", Null).packageManager = Null
    BY DEF Signals
  <2>3. QED
    BY <1>2, <2>1, <2>2
<1>9. /\ Says(2) \in ProjectSignals /\ Says(2).language = "go"
      /\ Says(2).framework = Null /\ Says(2).testRunner = "go test"
      /\ Says(2).packageManager = Null
  <2>1. Signals("go", Null, "go test", Null) \in ProjectSignals
    BY DEF Signals, ProjectSignals, Languages, Tools
  <2>2. /\ Signals("go", Null, "go test", Null).language = "go"
        /\ Signals("go", Null, "go test", Null).framework = Null
        /\ Signals("go", Null, "go test", Null).testRunner = "go test"
        /\ Signals("go", Null, "go test", Null).packageManager = Null
    BY DEF Signals
  <2>3. QED
    BY <1>3, <2>1, <2>2
<1>10. /\ Says(3) \in ProjectSignals /\ Says(3).language = "python"
      /\ Says(3).framework = Null /\ Says(3).testRunner = Null
      /\ Says(3).packageManager = Null
  <2>1. Signals("python", Null, Null, Null) \in ProjectSignals
    BY DEF Signals, ProjectSignals, Languages, Tools
  <2>2. /\ Signals("python", Null, Null, Null).language = "python"
        /\ Signals("python", Null, Null, Null).framework = Null
        /\ Signals("python", Null, Null, Null).testRunner = Null
        /\ Signals("python", Null, Null, Null).packageManager = Null
    BY DEF Signals
  <2>3. QED
    BY <1>4, <2>1, <2>2
<1>11. /\ Says(4) \in ProjectSignals /\ Says(4).language = "java"
      /\ Says(4).framework = Null /\ Says(4).testRunner = Null
      /\ Says(4).packageManager = "maven"
  <2>1. Signals("java", Null, Null, "maven") \in ProjectSignals
    BY DEF Signals, ProjectSignals, Languages, Tools
  <2>2. /\ Signals("java", Null, Null, "maven").language = "java"
        /\ Signals("java", Null, Null, "maven").framework = Null
        /\ Signals("java", Null, Null, "maven").testRunner = Null
        /\ Signals("java", Null, Null, "maven").packageManager = "maven"
    BY DEF Signals
  <2>3. QED
    BY <1>5, <2>1, <2>2
<1>12. /\ Says(5) \in ProjectSignals /\ Says(5).language = "java"
      /\ Says(5).framework = Null /\ Says(5).testRunner = Null
      /\ Says(5).packageManager = "gradle"
  <2>1. Signals("java", Null, Null, "gradle") \in ProjectSignals
    BY DEF Signals, ProjectSignals, Languages, Tools
  <2>2. /\ Signals("java", Null, Null, "gradle").language = "java"
        /\ Signals("java", Null, Null, "gradle").framework = Null
        /\ Signals("java", Null, Null, "gradle").testRunner = Null
        /\ Signals("java", Null, Null, "gradle").packageManager = "gradle"
    BY DEF Signals
  <2>3. QED
    BY <1>6, <2>1, <2>2
<1>13. i = 1 \/ i = 2 \/ i = 3 \/ i = 4 \/ i = 5
  OBVIOUS
<1>14. Says(i) \in ProjectSignals /\ Says(i).language \notin {"javascript", "typescript"}
  BY <1>8, <1>9, <1>10, <1>11, <1>12, <1>13
<1>15. ASSUME NEW j \in 1..5, Says(i).language = Says(j).language
       PROVE  /\ Says(i).framework = Says(j).framework
              /\ Says(i).testRunner = Says(j).testRunner
              /\ Says(i).packageManager # Null => Says(j).packageManager # Null
  <2>1. j = 1 \/ j = 2 \/ j = 3 \/ j = 4 \/ j = 5
    OBVIOUS
  <2>2. QED
    BY <1>7, <1>8, <1>9, <1>10, <1>11, <1>12, <1>13, <1>15, <2>1
<1>16. QED
  BY <1>14, <1>15

LEMMA OtherGrow ==
  ASSUME NEW names, NEW more, names \subseteq more, FirstMatch(OtherProjects, names) # Null
  PROVE  \E i, j \in DOMAIN OtherProjects :
           /\ FirstMatch(OtherProjects, names) = OtherProjects[i].says
           /\ FirstMatch(OtherProjects, more) = OtherProjects[j].says
<1>1. PICK i \in Matches(OtherProjects, names) :
        FirstMatch(OtherProjects, names) = OtherProjects[i].says
  BY OtherDomain, FirstMatchFacts
<1>2. i \in Matches(OtherProjects, more)
  BY <1>1 DEF Matches
<1>3. PICK j \in Matches(OtherProjects, more) :
        FirstMatch(OtherProjects, more) = OtherProjects[j].says
  BY <1>2, OtherDomain, FirstMatchFacts
<1>4. QED
  BY <1>1, <1>3 DEF Matches

LEMMA ProjectGrows ==
  ASSUME NEW d, NEW e, d.files \subseteq e.files, d.deps \subseteq e.deps,
         d.readable = e.readable, d.manager \in {"", e.manager},
         DetectProjectType(d) # Null
  PROVE  /\ DetectProjectType(e) # Null
         /\ \/ "package.json" \in d.files
            \/ DetectProjectType(d).language = DetectProjectType(e).language
            => /\ DetectProjectType(d).framework # Null => DetectProjectType(e).framework # Null
               /\ DetectProjectType(d).testRunner # Null => DetectProjectType(e).testRunner # Null
               /\ DetectProjectType(d).packageManager # Null =>
                    DetectProjectType(e).packageManager # Null
<1>1. CASE "package.json" \in d.files
  <2>1. DetectProjectType(d) = DetectNode(d) /\ DetectProjectType(e) = DetectNode(e)
    BY <1>1 DEF DetectProjectType
  <2>2. DetectNode(e) # Null
    BY NodeType, NullAssumption
  <2>3. QED
    BY <2>1, <2>2, NodeGrows
<1>2. CASE "package.json" \notin d.files /\ "package.json" \in e.files
  <2>1. DetectProjectType(d) = FirstMatch(OtherProjects, d.files)
    BY <1>2 DEF DetectProjectType
  <2>2. DetectProjectType(e) = DetectNode(e)
    BY <1>2 DEF DetectProjectType
  <2>3. PICK i \in 1..5 : DetectProjectType(d) = Says(i)
    <3>1. PICK i \in Matches(OtherProjects, d.files) :
            FirstMatch(OtherProjects, d.files) = OtherProjects[i].says
      BY <2>1, OtherDomain, FirstMatchFacts
    <3>2. i \in 1..5
      BY OtherDomain DEF Matches
    <3>3. QED
      BY <2>1, <3>1, <3>2 DEF Says
  <2>4. DetectProjectType(d).language # DetectProjectType(e).language
    BY <2>2, <2>3, OtherRows, NodeType
  <2>5. QED
    BY <1>2, <2>2, <2>4, NodeType, NullAssumption
<1>3. CASE "package.json" \notin e.files
  <2>1. /\ DetectProjectType(d) = FirstMatch(OtherProjects, d.files)
        /\ DetectProjectType(e) = FirstMatch(OtherProjects, e.files)
    BY <1>3 DEF DetectProjectType
  <2>2. PICK i, j \in 1..5 : DetectProjectType(d) = Says(i) /\ DetectProjectType(e) = Says(j)
    <3>1. PICK i, j \in DOMAIN OtherProjects :
            /\ FirstMatch(OtherProjects, d.files) = OtherProjects[i].says
            /\ FirstMatch(OtherProjects, e.files) = OtherProjects[j].says
      BY <2>1, OtherGrow
    <3>2. QED
      BY <2>1, <3>1, OtherDomain DEF Says
  <2>3. DetectProjectType(e) # Null
    BY <2>2, OtherRows, NullAssumption
  <2>4. "package.json" \notin d.files
    BY <1>3
  <2>5. QED
    BY <2>2, <2>3, <2>4, OtherRows
<1>4. QED
  BY <1>1, <1>2, <1>3

\* More evidence never loses what was detected, whatever the directories are.
THEOREM DetectionGrows == Spec => []DetectionMonotone
<1>1. DetectionMonotone
  <2> SUFFICES ASSUME NEW e \in Listings,
                      request.dir.files \subseteq e.files /\ request.dir.deps \subseteq e.deps,
                      request.dir.readable = e.readable,
                      request.dir.manager \in {"", e.manager},
                      DetectProjectType(request.dir) # Null
               PROVE  LET d == request.dir
                          before == DetectProjectType(d)
                          after == DetectProjectType(e)
                      IN  /\ after # Null
                          /\ "package.json" \in d.files \/ before.language = after.language =>
                               /\ before.framework # Null => after.framework # Null
                               /\ before.testRunner # Null => after.testRunner # Null
                               /\ before.packageManager # Null => after.packageManager # Null
    BY DEF DetectionMonotone
  <2> DEFINE d == request.dir
  <2>1. /\ d.files \subseteq e.files /\ d.deps \subseteq e.deps /\ d.readable = e.readable
        /\ d.manager \in {"", e.manager} /\ DetectProjectType(d) # Null
    OBVIOUS
  <2> HIDE DEF d
  <2>2. QED
    BY <2>1, ProjectGrows DEF d
<1>2. QED
  BY <1>1, PTL

-----------------------------------------------------------------------------
(* applyModeToClaude *)

LEMMA BlockFacts ==
  ASSUME NEW m \in ValidModes
  PROVE  /\ ModeBlock(m) \in Seq(Tokens) /\ Len(ModeBlock(m)) = 3
         /\ ModeBlock(m)[1] = Start /\ ModeBlock(m)[2] = m /\ ModeBlock(m)[3] = End
<1>1. Start \in Tokens /\ m \in Tokens /\ End \in Tokens
  BY DEF Tokens, Markers
<1>2. QED
  BY <1>1 DEF ModeBlock

\* A section replaced: what is before and after it stays.
LEMMA ReplaceFacts ==
  ASSUME NEW f \in Seq(Tokens), NEW p \in Sections(f), NEW m \in ValidModes
  PROVE  LET g == Replace(f, p, ModeBlock(m))
         IN  /\ g \in Seq(Tokens) /\ Len(g) = Len(f) - p[2] + p[1] + 2
             /\ \A i \in 1..p[1] - 1 : g[i] = f[i]
             /\ g[p[1]] = Start /\ g[p[1] + 1] = m /\ g[p[1] + 2] = End
             /\ \A i \in p[2] + 1..Len(f) : g[i - p[2] + p[1] + 2] = f[i]
<1> DEFINE a == p[1]
           b == p[2]
           n == Len(f)
           head == SubSeq(f, 1, a - 1)
           tail == SubSeq(f, b + 1, n)
           block == ModeBlock(m)
           hb == head \o block
           g == hb \o tail
<1>1. n \in Nat /\ a \in 1..n /\ b \in 1..n /\ a < b
  BY DEF Sections
<1>2. \A i \in 1..n : f[i] \in Tokens
  OBVIOUS
<1>3. Replace(f, p, block) = g
  BY DEF Replace
<1> HIDE DEF a, b, n
<1>4. /\ head \in Seq(Tokens) /\ Len(head) = a - 1
      /\ \A i \in 1..a - 1 : head[i] = f[i]
  <2>1. \A i \in 1..a - 1 : f[i] \in Tokens
    BY <1>1, <1>2
  <2>2. QED
    BY <1>1, <2>1, SubSeqProperties
<1>5. /\ tail \in Seq(Tokens) /\ Len(tail) = n - b
      /\ \A i \in 1..n - b : tail[i] = f[b + i]
  <2>1. \A i \in b + 1..n : f[i] \in Tokens
    BY <1>1, <1>2
  <2>2. QED
    BY <1>1, <2>1, SubSeqProperties
<1>6. /\ block \in Seq(Tokens) /\ Len(block) = 3
      /\ block[1] = Start /\ block[2] = m /\ block[3] = End
  BY BlockFacts
<1> HIDE DEF head, tail, block
<1>7. /\ hb \in Seq(Tokens) /\ Len(hb) = a + 2
      /\ \A i \in 1..a + 2 : hb[i] = IF i <= a - 1 THEN head[i] ELSE block[i - (a - 1)]
  <2>1. /\ hb \in Seq(Tokens) /\ Len(hb) = Len(head) + Len(block)
        /\ \A i \in 1..Len(head) + Len(block) :
             hb[i] = IF i <= Len(head) THEN head[i] ELSE block[i - Len(head)]
    BY <1>4, <1>6, ConcatProperties
  <2>2. Len(head) + Len(block) = a + 2
    BY <1>1, <1>4, <1>6
  <2> HIDE DEF hb
  <2>3. QED
    BY <1>4, <2>1, <2>2
<1> HIDE DEF hb
<1>8. /\ g \in Seq(Tokens) /\ Len(g) = a + 2 + (n - b)
      /\ \A i \in 1..a + 2 + (n - b) : g[i] = IF i <= a + 2 THEN hb[i] ELSE tail[i - (a + 2)]
  <2>1. /\ g \in Seq(Tokens) /\ Len(g) = Len(hb) + Len(tail)
        /\ \A i \in 1..Len(hb) + Len(tail) :
             g[i] = IF i <= Len(hb) THEN hb[i] ELSE tail[i - Len(hb)]
    BY <1>5, <1>7, ConcatProperties
  <2> HIDE DEF g
  <2>2. QED
    BY <1>5, <1>7, <2>1
<1> HIDE DEF g
<1>9. \A i \in 1..a - 1 : g[i] = f[i]
  BY <1>1, <1>4, <1>7, <1>8
<1>10. g[a] = Start /\ g[a + 1] = m /\ g[a + 2] = End
  <2>1. /\ a \in 1..a + 2 + (n - b) /\ a + 1 \in 1..a + 2 + (n - b)
        /\ a + 2 \in 1..a + 2 + (n - b)
    BY <1>1
  <2>2. /\ g[a] = hb[a] /\ g[a + 1] = hb[a + 1]
        /\ g[a + 2] = hb[a + 2]
    BY <1>1, <1>8, <2>1
  <2>3. /\ hb[a] = block[1] /\ hb[a + 1] = block[2]
        /\ hb[a + 2] = block[3]
    BY <1>1, <1>7
  <2>4. QED
    BY <1>6, <2>2, <2>3
<1>11. ASSUME NEW i \in b + 1..n PROVE g[i - b + a + 2] = f[i]
  <2> DEFINE k == i - b + a + 2
  <2>1. k \in 1..a + 2 + (n - b) /\ ~(k <= a + 2) /\ k - (a + 2) = i - b
    BY <1>1
  <2> HIDE DEF k
  <2>2. g[k] = tail[i - b]
    BY <1>8, <2>1
  <2>3. i - b \in 1..n - b /\ b + (i - b) = i
    BY <1>1
  <2>4. QED
    BY <1>5, <2>2, <2>3 DEF k
<1>12. g \in Seq(Tokens) /\ Len(g) = n - b + a + 2
  BY <1>1, <1>8
<1>13. Replace(f, p, ModeBlock(m)) = g
  BY <1>3 DEF block
<1>14. QED
  BY <1>9, <1>10, <1>11, <1>12, <1>13 DEF a, b, n

\* A section appended.
LEMMA AppendBlockFacts ==
  ASSUME NEW f \in Seq(Tokens), NEW m \in ValidModes
  PROVE  LET g == f \o ModeBlock(m)
             n == Len(f)
         IN  /\ g \in Seq(Tokens) /\ Len(g) = n + 3
             /\ \A i \in 1..n : g[i] = f[i]
             /\ g[n + 1] = Start /\ g[n + 2] = m /\ g[n + 3] = End
<1> DEFINE g == f \o ModeBlock(m)
           n == Len(f)
<1>1. n \in Nat
  OBVIOUS
<1>2. /\ g \in Seq(Tokens) /\ Len(g) = n + 3
      /\ \A i \in 1..n + 3 : g[i] = IF i <= n THEN f[i] ELSE ModeBlock(m)[i - n]
  BY BlockFacts, ConcatProperties
<1> HIDE DEF g, n
<1>3. /\ g[n + 1] = ModeBlock(m)[1] /\ g[n + 2] = ModeBlock(m)[2] /\ g[n + 3] = ModeBlock(m)[3]
  BY <1>1, <1>2
<1>4. \A i \in 1..n : g[i] = f[i]
  BY <1>1, <1>2
<1>5. QED
  BY <1>2, <1>3, <1>4, BlockFacts DEF g, n

\* The first section, if there is one, is replaced.
LEMMA ApplyFacts ==
  ASSUME NEW f \in Seq(Tokens), NEW m \in ValidModes
  PROVE  /\ Sections(f) = {} => ApplyModeToClaude(f, m) = f \o ModeBlock(m)
         /\ Sections(f) # {} =>
              \E p \in Sections(f) :
                /\ ApplyModeToClaude(f, m) = Replace(f, p, ModeBlock(m))
                /\ \A q \in Sections(f) : p[1] < q[1] \/ (p[1] = q[1] /\ p[2] <= q[2])
<1> DEFINE T == Sections(f)
           First(p) == \A q \in T : p[1] < q[1] \/ (p[1] = q[1] /\ p[2] <= q[2])
           c == CHOOSE p \in T : First(p)
<1>1. T \subseteq Nat \X Nat
  <2>1. DOMAIN f \subseteq Nat
    OBVIOUS
  <2>2. QED
    BY <2>1 DEF Sections
<1>2. ApplyModeToClaude(f, m) =
        IF T = {} THEN f \o ModeBlock(m) ELSE Replace(f, c, ModeBlock(m))
  BY DEF ApplyModeToClaude
<1> HIDE DEF T
<1>3. T # {} => c \in T /\ First(c)
  <2>1. T # {} => \E p \in T : First(p)
    BY <1>1, LeastPair
  <2> HIDE DEF First
  <2>2. QED
    BY <2>1
<1> HIDE DEF c
<1>4. QED
  BY <1>2, <1>3 DEF T

LEMMA ApplyType ==
  ASSUME NEW f \in Seq(Tokens), NEW m \in ValidModes
  PROVE  ApplyModeToClaude(f, m) \in Seq(Tokens) /\ m \in TokensOf(ApplyModeToClaude(f, m))
<1> DEFINE g == ApplyModeToClaude(f, m)
<1>1. \E k \in Nat \ {0} : g \in Seq(Tokens) /\ k <= Len(g) /\ g[k] = m
  <2>1. CASE Sections(f) = {}
    <3>0. g = f \o ModeBlock(m)
      BY <2>1, ApplyFacts
    <3> HIDE DEF g
    <3>1. /\ g \in Seq(Tokens) /\ Len(g) = Len(f) + 3 /\ g[Len(f) + 2] = m
      BY <3>0, AppendBlockFacts
    <3>2. Len(f) + 2 \in Nat \ {0} /\ Len(f) + 2 <= Len(g)
      BY <3>1
    <3>3. QED
      BY <3>1, <3>2
  <2>2. CASE Sections(f) # {}
    <3>1. PICK p \in Sections(f) : g = Replace(f, p, ModeBlock(m))
      BY <2>2, ApplyFacts
    <3> HIDE DEF g
    <3>2. g \in Seq(Tokens) /\ Len(g) = Len(f) - p[2] + p[1] + 2 /\ g[p[1] + 1] = m
      BY <3>1, ReplaceFacts
    <3>3. p[1] \in 1..Len(f) /\ p[2] \in 1..Len(f)
      BY DEF Sections
    <3>4. p[1] + 1 \in Nat \ {0} /\ p[1] + 1 <= Len(g)
      BY <3>2, <3>3
    <3>5. QED
      BY <3>2, <3>4
  <2>3. QED
    BY <2>1, <2>2
<1> HIDE DEF g
<1>2. QED
  BY <1>1 DEF TokensOf, g

\* A start marker with a later end marker, the first of each.
SectionAt(f, a, b) ==
  /\ a \in 1..Len(f) /\ b \in 1..Len(f) /\ a < b
  /\ f[a] = Start /\ f[b] = End
  /\ \A i \in 1..a - 1 : f[i] # Start
  /\ \A i \in a + 1..b - 1 : f[i] # End

\* g is f with the section of mode m in place of what is from a to b.
Replaced(f, g, m, a, b) ==
  /\ g \in Seq(Tokens) /\ Len(g) = Len(f) - b + a + 2
  /\ \A i \in 1..a - 1 : g[i] = f[i]
  /\ g[a] = Start /\ g[a + 1] = m /\ g[a + 2] = End
  /\ \A i \in b + 1..Len(f) : g[i - b + a + 2] = f[i]

LEMMA FirstSection ==
  ASSUME NEW f \in Seq(Tokens), NEW m \in ValidModes, NEW a, NEW b, SectionAt(f, a, b)
  PROVE  Replaced(f, ApplyModeToClaude(f, m), m, a, b)
<1> DEFINE g == ApplyModeToClaude(f, m)
<1>1. /\ a \in 1..Len(f) /\ b \in 1..Len(f) /\ a < b
      /\ f[a] = Start /\ f[b] = End
      /\ \A i \in 1..a - 1 : f[i] # Start
      /\ \A i \in a + 1..b - 1 : f[i] # End
  BY DEF SectionAt
<1>2. <<a, b>> \in Sections(f)
  BY <1>1 DEF Sections
<1>3. PICK p \in Sections(f) :
        /\ g = Replace(f, p, ModeBlock(m))
        /\ \A q \in Sections(f) : p[1] < q[1] \/ (p[1] = q[1] /\ p[2] <= q[2])
  BY <1>2, ApplyFacts
<1>4. /\ p[1] \in 1..Len(f) /\ p[2] \in 1..Len(f) /\ p[1] < p[2]
      /\ f[p[1]] = Start /\ f[p[2]] = End
  BY DEF Sections
<1>5. p[1] < a \/ (p[1] = a /\ p[2] <= b)
  BY <1>2, <1>3
<1>6. p[1] = a
  BY <1>1, <1>4, <1>5
<1>7. p[2] = b
  BY <1>1, <1>4, <1>5, <1>6
<1> HIDE DEF g
<1>8. /\ g \in Seq(Tokens) /\ Len(g) = Len(f) - p[2] + p[1] + 2
      /\ \A i \in 1..p[1] - 1 : g[i] = f[i]
      /\ g[p[1]] = Start /\ g[p[1] + 1] = m /\ g[p[1] + 2] = End
      /\ \A i \in p[2] + 1..Len(f) : g[i - p[2] + p[1] + 2] = f[i]
  BY <1>3, ReplaceFacts
<1>9. Replaced(f, g, m, a, b)
  BY <1>6, <1>7, <1>8 DEF Replaced
<1>10. QED
  BY <1>9 DEF g

LEMMA SectionBounds ==
  ASSUME NEW f \in Seq(Tokens), Sections(f) # {}
  PROVE  \E a, b \in 1..Len(f) : SectionAt(f, a, b)
<1>1. \E m \in ValidModes : TRUE
  BY DEF ValidModes
<1>2. PICK p \in Sections(f) :
        \A q \in Sections(f) : p[1] < q[1] \/ (p[1] = q[1] /\ p[2] <= q[2])
  BY <1>1, ApplyFacts
<1>3. PICK a \in 1..Len(f), b \in 1..Len(f) :
        p = <<a, b>> /\ f[a] = Start /\ f[b] = End /\ a < b
  BY DEF Sections
<1>4. ASSUME NEW i \in 1..a - 1 PROVE f[i] # Start
  <2>1. i \in 1..Len(f) /\ i < a /\ i < b
    BY <1>3
  <2>2. f[i] = Start => <<i, b>> \in Sections(f)
    BY <1>3, <2>1 DEF Sections
  <2>3. QED
    BY <1>2, <1>3, <2>1, <2>2
<1>5. ASSUME NEW i \in a + 1..b - 1 PROVE f[i] # End
  <2>1. i \in 1..Len(f) /\ a < i /\ i < b
    BY <1>3
  <2>2. f[i] = End => <<a, i>> \in Sections(f)
    BY <1>3, <2>1 DEF Sections
  <2>3. QED
    BY <1>2, <1>3, <2>1, <2>2
<1>6. SectionAt(f, a, b)
  BY <1>3, <1>4, <1>5 DEF SectionAt
<1>7. QED
  BY <1>6

\* Only the inside of the first section is swallowed.
LEMMA SwallowsFirst ==
  ASSUME NEW f \in Seq(Tokens), NEW m \in ValidModes, NEW i \in DOMAIN f,
         f[i] \notin Markers, f[i] \notin TokensOf(ApplyModeToClaude(f, m))
  PROVE  \E a, b \in 1..Len(f) : SectionAt(f, a, b) /\ a < i /\ i < b
<1> DEFINE g == ApplyModeToClaude(f, m)
<1>1. DOMAIN f = 1..Len(f) /\ Len(f) \in Nat
  OBVIOUS
<1>2. Sections(f) # {}
  <2> SUFFICES ASSUME Sections(f) = {} PROVE FALSE
    OBVIOUS
  <2>1. g = f \o ModeBlock(m)
    BY ApplyFacts
  <2> HIDE DEF g
  <2>2. g \in Seq(Tokens) /\ Len(g) = Len(f) + 3 /\ g[i] = f[i]
    BY <1>1, <2>1, AppendBlockFacts
  <2>3. i \in DOMAIN g
    BY <1>1, <2>2
  <2>4. QED
    BY <2>2, <2>3 DEF TokensOf, g
<1>3. PICK a \in 1..Len(f), b \in 1..Len(f) : SectionAt(f, a, b)
  BY <1>2, SectionBounds
<1>4. a < b /\ f[a] = Start /\ f[b] = End
  BY <1>3 DEF SectionAt
<1>5. Replaced(f, g, m, a, b)
  BY <1>3, FirstSection
<1> HIDE DEF g
<1>6. /\ g \in Seq(Tokens) /\ Len(g) = Len(f) - b + a + 2
      /\ \A k \in 1..a - 1 : g[k] = f[k]
      /\ \A k \in b + 1..Len(f) : g[k - b + a + 2] = f[k]
  BY <1>5 DEF Replaced
<1>7. f[i] \notin {g[k] : k \in 1..Len(g)}
  BY <1>6 DEF TokensOf, g
<1>8. ~(i < a)
  BY <1>1, <1>4, <1>6, <1>7
<1>9. ~(i > b)
  <2> SUFFICES ASSUME i > b PROVE FALSE
    OBVIOUS
  <2>1. i - b + a + 2 \in 1..Len(g) /\ i \in b + 1..Len(f)
    BY <1>1, <1>4, <1>6
  <2>2. QED
    BY <1>6, <1>7, <2>1
<1>10. i # a /\ i # b
  BY <1>4 DEF Markers
<1>11. a < i /\ i < b
  BY <1>1, <1>8, <1>9, <1>10
<1>12. QED
  BY <1>3, <1>11

-----------------------------------------------------------------------------
(* Files that nobody has damaged *)

Special == Markers \cup ValidModes

\* The section of mode m is from a to b, and no other token is a marker or a
\* mode.
Sectioned(f, m, a, k, b) ==
  /\ a \in 1..Len(f) /\ k \in 1..Len(f) /\ b \in 1..Len(f) /\ a < k /\ k < b
  /\ f[a] = Start /\ f[k] = m /\ f[b] = End
  /\ \A j \in 1..Len(f) : f[j] \in Special => j \in {a, k, b}

HasSection(f, m) == \E a, k, b \in 1..Len(f) : Sectioned(f, m, a, k, b)

Plain(f) == \A j \in 1..Len(f) : f[j] \notin Special

Tidy(f) == Plain(f) \/ \E m \in ValidModes : HasSection(f, m)

\* Text at a place that no section covers.
Covered(f, j) == \E p \in Sections(f) : p[1] <= j /\ j <= p[2]

Outside(f, t) == \E j \in 1..Len(f) : f[j] = t /\ ~Covered(f, j)

LEMMA OutsideIsIn ==
  ASSUME NEW f \in Seq(Tokens), NEW t, Outside(f, t)
  PROVE  t \in TokensOf(f)
BY DEF Outside, TokensOf

LEMMA SpecialFacts ==
  /\ Start # End /\ Start \in Special /\ End \in Special
  /\ \A m \in ValidModes : m # Start /\ m # End /\ m \in Special
BY DEF ValidModes, Start, End, Special, Markers

LEMMA PlainHasNone ==
  ASSUME NEW f \in Seq(Tokens), Plain(f)
  PROVE  Sections(f) = {}
BY SpecialFacts DEF Sections, Plain

LEMMA OnlySection ==
  ASSUME NEW f \in Seq(Tokens), NEW m \in ValidModes, NEW a, NEW k, NEW b, Sectioned(f, m, a, k, b)
  PROVE  SectionAt(f, a, b) /\ \A p \in Sections(f) : p[1] = a /\ p[2] = b
<1>1. /\ a \in 1..Len(f) /\ k \in 1..Len(f) /\ b \in 1..Len(f) /\ a < k /\ k < b
      /\ f[a] = Start /\ f[k] = m /\ f[b] = End
      /\ \A j \in 1..Len(f) : f[j] \in Special => j \in {a, k, b}
  BY DEF Sectioned
<1>2. \A j \in 1..Len(f) : (f[j] = Start => j = a) /\ (f[j] = End => j = b)
  BY <1>1, SpecialFacts
<1>3. SectionAt(f, a, b)
  <2>1. \A j \in 1..a - 1 : f[j] # Start
    BY <1>1, <1>2
  <2>2. \A j \in a + 1..b - 1 : f[j] # End
    BY <1>1, <1>2
  <2>3. QED
    BY <1>1, <2>1, <2>2 DEF SectionAt
<1>4. ASSUME NEW p \in Sections(f) PROVE p[1] = a /\ p[2] = b
  <2>1. p[1] \in 1..Len(f) /\ p[2] \in 1..Len(f) /\ f[p[1]] = Start /\ f[p[2]] = End
    BY DEF Sections
  <2>2. QED
    BY <1>2, <2>1
<1>5. QED
  BY <1>3, <1>4

\* A change of mode leaves one section, of that mode, and the text outside.
LEMMA ApplyPlain ==
  ASSUME NEW f \in Seq(Tokens), Plain(f), NEW m \in ValidModes
  PROVE  LET g == ApplyModeToClaude(f, m)
         IN  HasSection(g, m) /\ \A t : t \notin Special /\ Outside(f, t) => Outside(g, t)
<1> DEFINE g == ApplyModeToClaude(f, m)
<1>1. PICK n \in Nat : n = Len(f)
  OBVIOUS
<1>2. g = f \o ModeBlock(m)
  BY PlainHasNone, ApplyFacts
<1>3. PICK a \in Nat, k \in Nat, b \in Nat : a = n + 1 /\ k = n + 2 /\ b = n + 3
  OBVIOUS
<1> HIDE DEF g
<1>4. /\ g \in Seq(Tokens) /\ Len(g) = b
      /\ \A i \in 1..n : g[i] = f[i]
      /\ g[a] = Start /\ g[k] = m /\ g[b] = End
  BY <1>1, <1>2, <1>3, AppendBlockFacts
<1>5. \A j \in 1..Len(g) : j \in 1..n \/ j \in {a, k, b}
  BY <1>1, <1>3, <1>4
<1>6. \A j \in 1..Len(g) : g[j] \in Special => j \in {a, k, b}
  BY <1>1, <1>4, <1>5 DEF Plain
<1>7. a \in 1..Len(g) /\ k \in 1..Len(g) /\ b \in 1..Len(g) /\ a < k /\ k < b
  BY <1>3, <1>4
<1>8. Sectioned(g, m, a, k, b)
  BY <1>4, <1>6, <1>7 DEF Sectioned
<1>9. \A p \in Sections(g) : p[1] = a /\ p[2] = b
  BY <1>4, <1>8, OnlySection
<1>10. ASSUME NEW t, t \notin Special, Outside(f, t) PROVE Outside(g, t)
  <2>1. PICK j \in 1..n : f[j] = t
    BY <1>1, <1>10 DEF Outside
  <2>2. j \in 1..Len(g) /\ g[j] = t /\ j < a
    BY <1>3, <1>4, <2>1
  <2>3. ~Covered(g, j)
    BY <1>3, <1>9, <2>2 DEF Covered
  <2>4. QED
    BY <2>2, <2>3 DEF Outside
<1>11. HasSection(g, m)
  BY <1>7, <1>8 DEF HasSection
<1>12. QED
  BY <1>10, <1>11 DEF g

LEMMA ApplySectioned ==
  ASSUME NEW f \in Seq(Tokens), NEW x \in ValidModes, NEW a, NEW k, NEW b,
         Sectioned(f, x, a, k, b), NEW m \in ValidModes
  PROVE  LET g == ApplyModeToClaude(f, m)
         IN  HasSection(g, m) /\ \A t : t \notin Special /\ Outside(f, t) => Outside(g, t)
<1> DEFINE g == ApplyModeToClaude(f, m)
<1>1. PICK n \in Nat : n = Len(f)
  OBVIOUS
<1>2. /\ a \in 1..n /\ k \in 1..n /\ b \in 1..n /\ a < k /\ k < b
      /\ f[a] = Start /\ f[k] = x /\ f[b] = End
      /\ \A j \in 1..n : f[j] \in Special => j \in {a, k, b}
  BY <1>1 DEF Sectioned
<1>3. SectionAt(f, a, b) /\ <<a, b>> \in Sections(f)
  BY <1>1, <1>2, OnlySection DEF Sections
<1>4. Replaced(f, g, m, a, b)
  BY <1>3, FirstSection
<1> HIDE DEF g
<1>5. /\ g \in Seq(Tokens) /\ Len(g) = n - b + a + 2
      /\ \A i \in 1..a - 1 : g[i] = f[i]
      /\ g[a] = Start /\ g[a + 1] = m /\ g[a + 2] = End
      /\ \A i \in b + 1..n : g[i - b + a + 2] = f[i]
  BY <1>1, <1>4 DEF Replaced
<1>6. PICK c \in Nat, e \in Nat : c = a + 1 /\ e = a + 2
  BY <1>2
<1>7. /\ a \in 1..Len(g) /\ c \in 1..Len(g) /\ e \in 1..Len(g) /\ a < c /\ c < e
      /\ g[a] = Start /\ g[c] = m /\ g[e] = End
  BY <1>2, <1>5, <1>6
<1>8. ASSUME NEW j \in 1..Len(g), j \notin {a, c, e} PROVE g[j] \notin Special
  <2>1. CASE j < a
    <3>1. j \in 1..a - 1 /\ j \in 1..n /\ j \notin {a, k, b}
      BY <1>2, <1>8, <2>1
    <3>2. QED
      BY <1>2, <1>5, <3>1
  <2>2. CASE j > e
    <3>1. PICK i \in b + 1..n : j = i - b + a + 2
      <4>1. j + b - a - 2 \in b + 1..n
        BY <1>2, <1>5, <1>6, <1>8, <2>2
      <4>2. j = (j + b - a - 2) - b + a + 2
        BY <1>2
      <4>3. QED
        BY <4>1, <4>2
    <3>2. i \in 1..n /\ i \notin {a, k, b}
      BY <1>2, <3>1
    <3>3. QED
      BY <1>2, <1>5, <3>1, <3>2
  <2>3. QED
    BY <1>2, <1>6, <1>8, <2>1, <2>2
<1>9. Sectioned(g, m, a, c, e)
  BY <1>7, <1>8 DEF Sectioned
<1>10. \A p \in Sections(g) : p[1] = a /\ p[2] = e
  BY <1>5, <1>9, OnlySection
<1>11. ASSUME NEW t, t \notin Special, Outside(f, t) PROVE Outside(g, t)
  <2>1. PICK j \in 1..n : f[j] = t /\ ~Covered(f, j)
    BY <1>1, <1>11 DEF Outside
  <2>2. j < a \/ j > b
    <3>1. ~(a <= j /\ j <= b)
      BY <1>3, <2>1 DEF Covered
    <3>2. QED
      BY <1>2, <3>1
  <2>3. \E l \in 1..Len(g) : g[l] = t /\ (l < a \/ l > e)
    <3>1. CASE j < a
      <4>1. j \in 1..a - 1 /\ j \in 1..Len(g)
        BY <1>2, <1>5, <3>1
      <4>2. QED
        BY <1>5, <2>1, <3>1, <4>1
    <3>2. CASE j > b
      <4>1. PICK l \in Nat : l = j - b + a + 2
        BY <1>2, <3>2
      <4>2. j \in b + 1..n /\ l \in 1..Len(g) /\ l > e
        BY <1>2, <1>5, <1>6, <3>2, <4>1
      <4>3. QED
        BY <1>5, <2>1, <4>1, <4>2
    <3>3. QED
      BY <2>2, <3>1, <3>2
  <2>4. PICK l \in 1..Len(g) : g[l] = t /\ (l < a \/ l > e)
    BY <2>3
  <2>5. ~Covered(g, l)
    BY <1>2, <1>6, <1>10, <2>4 DEF Covered
  <2>6. QED
    BY <2>4, <2>5 DEF Outside
<1>12. HasSection(g, m)
  BY <1>7, <1>9 DEF HasSection
<1>13. QED
  BY <1>11, <1>12 DEF g

LEMMA ApplyTidy ==
  ASSUME NEW f \in Seq(Tokens), Tidy(f), NEW m \in ValidModes
  PROVE  LET g == ApplyModeToClaude(f, m)
         IN  HasSection(g, m) /\ \A t : t \notin Special /\ Outside(f, t) => Outside(g, t)
<1>1. CASE Plain(f)
  BY <1>1, ApplyPlain
<1>2. CASE \E x \in ValidModes : HasSection(f, x)
  <2>1. PICK x \in ValidModes, a \in 1..Len(f), k \in 1..Len(f), b \in 1..Len(f) :
          Sectioned(f, x, a, k, b)
    BY <1>2 DEF HasSection
  <2>2. QED
    BY <2>1, ApplySectioned
<1>3. QED
  BY <1>1, <1>2 DEF Tidy

-----------------------------------------------------------------------------
(* A token put into a file *)

\* g is f with t at i; what was at i or after it is one place further.
InsertedAt(f, g, t, i) ==
  /\ i \in 1..Len(f) + 1
  /\ g \in Seq(Tokens) /\ Len(g) = Len(f) + 1
  /\ \A j \in 1..i - 1 : g[j] = f[j]
  /\ g[i] = t
  /\ \A j \in i..Len(f) : g[j + 1] = f[j]

Moved(i, j) == IF j < i THEN j ELSE j + 1

LEMMA InsertFacts ==
  ASSUME NEW f \in Seq(Tokens), NEW t \in Tokens, NEW i \in 1..Len(f) + 1
  PROVE  InsertedAt(f, Inserted(f, t, i), t, i)
<1> DEFINE head == SubSeq(f, 1, i - 1)
           tail == SubSeq(f, i, Len(f))
           one == <<t>>
           ht == head \o one
           g == ht \o tail
<1>1. PICK n \in Nat : n = Len(f)
  OBVIOUS
<1>2. i \in 1..n + 1 /\ \A j \in 1..n : f[j] \in Tokens
  BY <1>1
<1>3. /\ head \in Seq(Tokens) /\ Len(head) = i - 1
      /\ \A j \in 1..i - 1 : head[j] = f[j]
  <2>1. \A j \in 1..i - 1 : f[j] \in Tokens
    BY <1>2
  <2>2. QED
    BY <1>2, <2>1, SubSeqProperties
<1>4. /\ tail \in Seq(Tokens) /\ Len(tail) = n + 1 - i
      /\ \A j \in 1..n + 1 - i : tail[j] = f[i + j - 1]
  <2>1. \A j \in i..n : f[j] \in Tokens
    BY <1>2
  <2>2. /\ tail \in Seq(Tokens)
        /\ Len(tail) = IF i <= n THEN n - i + 1 ELSE 0
        /\ \A j \in 1..n - i + 1 : tail[j] = f[i + j - 1]
    BY <1>1, <1>2, <2>1, SubSeqProperties
  <2> HIDE DEF tail
  <2>3. n - i + 1 = n + 1 - i
    BY <1>2
  <2>4. QED
    BY <1>2, <2>2, <2>3
<1>5. one \in Seq(Tokens) /\ Len(one) = 1 /\ one[1] = t
  OBVIOUS
<1> HIDE DEF head, tail, one
<1>6. /\ ht \in Seq(Tokens) /\ Len(ht) = i
      /\ \A j \in 1..i : ht[j] = IF j <= i - 1 THEN head[j] ELSE one[j - (i - 1)]
  <2>1. /\ ht \in Seq(Tokens) /\ Len(ht) = Len(head) + Len(one)
        /\ \A j \in 1..Len(head) + Len(one) :
             ht[j] = IF j <= Len(head) THEN head[j] ELSE one[j - Len(head)]
    BY <1>3, <1>5, ConcatProperties
  <2> HIDE DEF ht
  <2>2. Len(head) + Len(one) = i
    BY <1>2, <1>3, <1>5
  <2>3. QED
    BY <1>3, <2>1, <2>2
<1> HIDE DEF ht
<1>7. /\ g \in Seq(Tokens) /\ Len(g) = n + 1
      /\ \A j \in 1..n + 1 : g[j] = IF j <= i THEN ht[j] ELSE tail[j - i]
  <2>1. /\ g \in Seq(Tokens) /\ Len(g) = Len(ht) + Len(tail)
        /\ \A j \in 1..Len(ht) + Len(tail) :
             g[j] = IF j <= Len(ht) THEN ht[j] ELSE tail[j - Len(ht)]
    BY <1>4, <1>6, ConcatProperties
  <2> HIDE DEF g
  <2>2. Len(ht) + Len(tail) = n + 1
    BY <1>2, <1>4, <1>6
  <2>3. QED
    BY <1>6, <2>1, <2>2
<1>8. Inserted(f, t, i) = g
  BY DEF Inserted, g, ht, head, tail, one
<1> HIDE DEF g
<1>9. \A j \in 1..i - 1 : g[j] = f[j]
  BY <1>2, <1>3, <1>6, <1>7
<1>10. g[i] = t
  <2>1. i \in 1..i /\ i \in 1..n + 1 /\ ~(i <= i - 1) /\ i - (i - 1) = 1
    BY <1>2
  <2>2. QED
    BY <1>5, <1>6, <1>7, <2>1
<1>11. ASSUME NEW j \in i..n PROVE g[j + 1] = f[j]
  <2>1. /\ j + 1 \in 1..n + 1 /\ ~(j + 1 <= i) /\ j + 1 - i \in 1..n + 1 - i
        /\ i + (j + 1 - i) - 1 = j
    BY <1>2
  <2>2. g[j + 1] = tail[j + 1 - i]
    BY <1>7, <2>1
  <2>3. QED
    BY <1>4, <2>1, <2>2
<1>12. QED
  BY <1>1, <1>2, <1>7, <1>8, <1>9, <1>10, <1>11 DEF InsertedAt

LEMMA MovedFacts ==
  ASSUME NEW f \in Seq(Tokens), NEW g, NEW t, NEW i, InsertedAt(f, g, t, i)
  PROVE  /\ \A j \in 1..Len(f) :
              Moved(i, j) \in 1..Len(g) /\ Moved(i, j) # i /\ g[Moved(i, j)] = f[j]
         /\ \A j, l \in 1..Len(f) : j < l => Moved(i, j) < Moved(i, l)
         /\ \A l \in 1..Len(g) : l # i => \E j \in 1..Len(f) : l = Moved(i, j)
<1>1. PICK n \in Nat : n = Len(f)
  OBVIOUS
<1>2. /\ i \in 1..n + 1 /\ Len(g) = n + 1
      /\ \A j \in 1..i - 1 : g[j] = f[j]
      /\ \A j \in i..n : g[j + 1] = f[j]
  BY <1>1 DEF InsertedAt
<1>3. ASSUME NEW j \in 1..n
      PROVE  Moved(i, j) \in 1..n + 1 /\ Moved(i, j) # i /\ g[Moved(i, j)] = f[j]
  <2>1. CASE j < i
    BY <1>2, <2>1 DEF Moved
  <2>2. CASE ~(j < i)
    <3>1. j \in i..n /\ Moved(i, j) = j + 1
      BY <1>2, <2>2 DEF Moved
    <3>2. j + 1 \in 1..n + 1 /\ j + 1 # i
      BY <1>2, <3>1
    <3>3. QED
      BY <1>2, <3>1, <3>2
  <2>3. QED
    BY <2>1, <2>2
<1>4. \A j, l \in 1..n : j < l => Moved(i, j) < Moved(i, l)
  BY <1>2 DEF Moved
<1>5. ASSUME NEW l \in 1..n + 1, l # i PROVE \E j \in 1..n : l = Moved(i, j)
  <2>1. CASE l < i
    <3>1. l \in 1..n /\ l = Moved(i, l)
      BY <1>2, <2>1 DEF Moved
    <3>2. QED
      BY <3>1
  <2>2. CASE l > i
    <3>1. l - 1 \in 1..n /\ l = Moved(i, l - 1)
      BY <1>2, <2>2 DEF Moved
    <3>2. QED
      BY <3>1
  <2>3. QED
    BY <1>2, <1>5, <2>1, <2>2
<1>6. QED
  BY <1>1, <1>2, <1>3, <1>4, <1>5

\* Text, wherever it is put, neither makes nor breaks a section.
LEMMA InsertTidy ==
  ASSUME NEW f \in Seq(Tokens), NEW g, NEW t, NEW i, InsertedAt(f, g, t, i), t \notin Special
  PROVE  /\ Tidy(f) => Tidy(g)
         /\ \A m : HasSection(f, m) => HasSection(g, m)
<1>1. /\ \A j \in 1..Len(f) :
           Moved(i, j) \in 1..Len(g) /\ Moved(i, j) # i /\ g[Moved(i, j)] = f[j]
      /\ \A j, l \in 1..Len(f) : j < l => Moved(i, j) < Moved(i, l)
      /\ \A l \in 1..Len(g) : l # i => \E j \in 1..Len(f) : l = Moved(i, j)
  BY MovedFacts
<1>2. ASSUME NEW l \in 1..Len(g), g[l] \in Special
      PROVE  \E j \in 1..Len(f) : l = Moved(i, j) /\ f[j] \in Special
  <2>1. l # i
    BY <1>2 DEF InsertedAt
  <2>2. QED
    BY <1>1, <1>2, <2>1
<1>3. Plain(f) => Plain(g)
  BY <1>2 DEF Plain
<1>4. ASSUME NEW m, HasSection(f, m) PROVE HasSection(g, m)
  <2>1. PICK a \in 1..Len(f), k \in 1..Len(f), b \in 1..Len(f) : Sectioned(f, m, a, k, b)
    BY <1>4 DEF HasSection
  <2>2. PICK c \in 1..Len(g), d \in 1..Len(g), e \in 1..Len(g) :
          c = Moved(i, a) /\ d = Moved(i, k) /\ e = Moved(i, b)
    BY <1>1
  <2>3. c < d /\ d < e /\ g[c] = Start /\ g[d] = m /\ g[e] = End
    BY <1>1, <2>1, <2>2 DEF Sectioned
  <2>4. ASSUME NEW l \in 1..Len(g), g[l] \in Special PROVE l \in {c, d, e}
    <3>1. PICK j \in 1..Len(f) : l = Moved(i, j) /\ f[j] \in Special
      BY <1>2, <2>4
    <3>2. j \in {a, k, b}
      BY <2>1, <3>1 DEF Sectioned
    <3>3. QED
      BY <2>2, <3>1, <3>2
  <2>5. Sectioned(g, m, c, d, e)
    BY <2>3, <2>4 DEF Sectioned
  <2>6. QED
    BY <2>5 DEF HasSection
<1>5. QED
  BY <1>3, <1>4 DEF Tidy

\* The sections of the new file are those of the old one, moved.
LEMMA InsertSections ==
  ASSUME NEW f \in Seq(Tokens), NEW g, NEW t, NEW i, InsertedAt(f, g, t, i), t \notin Special,
         NEW p \in Sections(g)
  PROVE  \E x, y \in 1..Len(f) :
           <<x, y>> \in Sections(f) /\ p[1] = Moved(i, x) /\ p[2] = Moved(i, y)
<1>1. /\ \A j \in 1..Len(f) : g[Moved(i, j)] = f[j]
      /\ \A j, l \in 1..Len(f) : j < l => Moved(i, j) < Moved(i, l)
      /\ \A l \in 1..Len(g) : l # i => \E j \in 1..Len(f) : l = Moved(i, j)
  BY MovedFacts
<1>2. g \in Seq(Tokens) /\ g[i] = t /\ Len(f) \in Nat /\ i \in Nat
  BY DEF InsertedAt
<1>3. p[1] \in 1..Len(g) /\ p[2] \in 1..Len(g) /\ p[1] < p[2] /\ g[p[1]] = Start /\ g[p[2]] = End
  BY <1>2 DEF Sections
<1>4. p[1] # i /\ p[2] # i
  BY <1>2, <1>3, SpecialFacts
<1>5. PICK x \in 1..Len(f), y \in 1..Len(f) : p[1] = Moved(i, x) /\ p[2] = Moved(i, y)
  BY <1>1, <1>3, <1>4
<1>6. f[x] = Start /\ f[y] = End
  BY <1>1, <1>3, <1>5
<1>7. x < y
  <2>1. ~(y < x) /\ x # y
    BY <1>1, <1>3, <1>5
  <2>2. QED
    BY <2>1
<1>8. <<x, y>> \in Sections(f)
  BY <1>6, <1>7 DEF Sections
<1>9. QED
  BY <1>5, <1>8

LEMMA InsertOutside ==
  ASSUME NEW f \in Seq(Tokens), NEW g, NEW t, NEW i, InsertedAt(f, g, t, i), t \notin Special
  PROVE  /\ \A u : Outside(f, u) => Outside(g, u)
         /\ ~Inside(f, i) => Outside(g, t)
<1>1. /\ \A j \in 1..Len(f) : Moved(i, j) \in 1..Len(g) /\ g[Moved(i, j)] = f[j]
      /\ \A j, l \in 1..Len(f) : j < l => Moved(i, j) < Moved(i, l)
  BY MovedFacts
<1>2. /\ g \in Seq(Tokens) /\ g[i] = t /\ i \in 1..Len(f) + 1 /\ Len(g) = Len(f) + 1
      /\ Len(f) \in Nat /\ i \in 1..Len(g)
  BY DEF InsertedAt
<1>3. ASSUME NEW u, Outside(f, u) PROVE Outside(g, u)
  <2>1. PICK j \in 1..Len(f) : f[j] = u /\ ~Covered(f, j)
    BY <1>3 DEF Outside
  <2>2. PICK l \in 1..Len(g) : l = Moved(i, j) /\ g[l] = u
    BY <1>1, <2>1
  <2>3. ASSUME NEW p \in Sections(g) PROVE ~(p[1] <= l /\ l <= p[2])
    <3>1. PICK x \in 1..Len(f), y \in 1..Len(f) :
            <<x, y>> \in Sections(f) /\ p[1] = Moved(i, x) /\ p[2] = Moved(i, y)
      BY InsertSections
    <3>2. ~(x <= j /\ j <= y)
      BY <2>1, <3>1 DEF Covered
    <3>3. j < x \/ y < j
      BY <3>2
    <3>4. Moved(i, x) \in Int /\ Moved(i, y) \in Int
      BY <1>1
    <3>5. l < p[1] \/ p[2] < l
      BY <1>1, <2>2, <3>1, <3>3
    <3>6. QED
      BY <3>1, <3>4, <3>5
  <2>4. QED
    BY <2>2, <2>3 DEF Covered, Outside
<1>4. ASSUME ~Inside(f, i) PROVE Outside(g, t)
  <2>1. ASSUME NEW p \in Sections(g) PROVE ~(p[1] <= i /\ i <= p[2])
    <3>1. PICK x \in 1..Len(f), y \in 1..Len(f) :
            <<x, y>> \in Sections(f) /\ p[1] = Moved(i, x) /\ p[2] = Moved(i, y)
      BY InsertSections
    <3>2. ~(x < i /\ i <= y)
      BY <1>4, <3>1 DEF Inside
    <3>3. CASE ~(x < i)
      <4>1. p[1] = x + 1 /\ i < x + 1
        BY <1>2, <3>1, <3>3 DEF Moved
      <4>2. QED
        BY <1>2, <4>1
    <3>4. CASE ~(i <= y)
      <4>1. p[2] = y /\ y < i
        BY <1>2, <3>1, <3>4 DEF Moved
      <4>2. QED
        BY <1>2, <4>1
    <3>5. QED
      BY <3>2, <3>3, <3>4
  <2>2. QED
    BY <1>2, <2>1 DEF Covered, Outside
<1>5. QED
  BY <1>3, <1>4

-----------------------------------------------------------------------------
(* The invariant of the folder *)

\* Every text that must be there is there, and not in a section.
AllOutside(f) == \A t \in texts : Outside(f, t)

\* A file that nobody has damaged: one section at most and all texts, outside
\* it; the row's mode when no write is due.
ClaudeSound ==
  IF claude = Missing
  THEN /\ phase \in {"none", "broken"} /\ texts = {} /\ pending = Missing
       /\ phase = "none" \/ behind
  ELSE /\ Tidy(claude) /\ AllOutside(claude)
       /\ ~behind => HasSection(claude, mode)

PendingSound ==
  pending # Missing => HasSection(pending, mode) /\ AllOutside(pending)

FolderInv ==
  /\ TypeOK
  /\ texts \cap Special = {}
  /\ phase = "none" => claude = Missing /\ pending = Missing
  /\ phase # "none" => mode \in ValidModes
  /\ damage = 0 => ClaudeSound /\ PendingSound

LEMMA ScaffoldedFacts ==
  ASSUME NEW dir
  PROVE  /\ Scaffolded(dir) \in Seq(Tokens) /\ Tidy(Scaffolded(dir))
         /\ TokensOf(Scaffolded(dir)) \subseteq HostTexts
         /\ \A t \in TokensOf(Scaffolded(dir)) : Outside(Scaffolded(dir), t)
         /\ <<Template>> \in Seq(Tokens) /\ Tidy(<<Template>>)
         /\ TokensOf(<<Template>>) \subseteq HostTexts
         /\ \A t \in TokensOf(<<Template>>) : Outside(<<Template>>, t)
         /\ Scaffolded(dir) # Missing /\ <<Template>> # Missing
<1>1. /\ Template \in Tokens /\ Context \in Tokens
      /\ Template \notin Special /\ Context \notin Special
      /\ Template \in HostTexts /\ Context \in HostTexts
  BY DEF Template, Context, HostTexts, Tokens, Special, Markers, ValidModes, Start, End
<1>2. /\ <<Template>> \in Seq(Tokens) /\ Plain(<<Template>>)
      /\ TokensOf(<<Template>>) \subseteq HostTexts
  BY <1>1 DEF Plain, TokensOf
<1>3. /\ <<Template, Context>> \in Seq(Tokens) /\ Plain(<<Template, Context>>)
      /\ TokensOf(<<Template, Context>>) \subseteq HostTexts
  BY <1>1 DEF Plain, TokensOf
<1>4. ASSUME NEW f \in Seq(Tokens), Plain(f), NEW t \in TokensOf(f) PROVE Outside(f, t)
  <2>1. PICK j \in 1..Len(f) : f[j] = t
    BY DEF TokensOf
  <2>2. ~Covered(f, j)
    BY <1>4, PlainHasNone DEF Covered
  <2>3. QED
    BY <2>1, <2>2 DEF Outside
<1>5. /\ \A t \in TokensOf(<<Template>>) : Outside(<<Template>>, t)
      /\ \A t \in TokensOf(<<Template, Context>>) : Outside(<<Template, Context>>, t)
  BY <1>2, <1>3, <1>4
<1>6. QED
  BY <1>2, <1>3, <1>5, FolderAssumption DEF Scaffolded, Tidy

LEMMA HostTextsFacts == HostTexts \subseteq Tokens /\ HostTexts \cap Special = {}
BY DEF Template, Context, HostTexts, Tokens, Special, Markers, ValidModes, Start, End

LEMMA FolderInit == Init => FolderInv
<1> SUFFICES ASSUME Init PROVE FolderInv
  OBVIOUS
<1>1. TypeOK
  <2>1. damage \in 0..MaxDamage
    BY FolderAssumption DEF Init
  <2>2. phase \in {"none", "broken", "created", "running"} /\ behind \in BOOLEAN
    BY DEF Init
  <2>3. claude = Missing /\ pending = Missing /\ texts = {} /\ mode = Null
    BY DEF Init
  <2>4. QED
    BY <2>1, <2>2, <2>3, Zenon DEF TypeOK
<1>2. ClaudeSound /\ PendingSound
  BY DEF Init, ClaudeSound, PendingSound
<1>3. QED
  BY <1>1, <1>2 DEF Init, FolderInv

\* A step that adds to the damage has only the types to keep.
LEMMA DamageKeeps ==
  ASSUME FolderInv, Damage,
         claude' = Missing \/ claude' \in Seq(Tokens),
         pending' = Missing \/ (pending' \in Seq(Tokens) /\ mode' \in TokensOf(pending')),
         phase # "none", UNCHANGED <<phase, mode>>,
         texts' = texts, behind' \in BOOLEAN
  PROVE  FolderInv'
<1>1. damage' \in 0..MaxDamage /\ damage' # 0
  BY FolderAssumption DEF FolderInv, TypeOK, Damage
<1>2. TypeOK'
  BY <1>1 DEF FolderInv, TypeOK
<1>3. QED
  BY <1>1, <1>2 DEF FolderInv

LEMMA CreateKeeps ==
  ASSUME FolderInv, NEW r, Create(r) \/ CreateThrows(r)
  PROVE  FolderInv'
<1>1. /\ phase = "none" /\ phase' \in {"created", "broken"} /\ pending = Missing
      /\ pending' = Missing /\ mode' = "code" /\ behind' = TRUE /\ damage' = damage
  BY DEF FolderInv, Create, CreateThrows, CreateRow
<1>2. \/ phase' = "broken" /\ claude' = Missing /\ texts' = {}
      \/ claude' # Missing /\ texts' = TokensOf(claude') /\ claude' \in Seq(Tokens)
         /\ Tidy(claude') /\ texts' \subseteq HostTexts /\ AllOutside(claude)'
  <2>1. CASE Create(r)
    BY <2>1, ScaffoldedFacts DEF Create, AllOutside
  <2>2. CASE CreateThrows(r)
    BY <2>2, ScaffoldedFacts DEF CreateThrows, AllOutside
  <2>3. QED
    BY <2>1, <2>2
<1>3. texts' \subseteq Tokens \ Markers /\ texts' \cap Special = {}
  BY <1>2, HostTextsFacts DEF Special
<1>4. TypeOK'
  BY <1>1, <1>2, <1>3 DEF FolderInv, TypeOK, ValidModes
<1>5. ClaudeSound' /\ PendingSound'
  BY <1>1, <1>2 DEF ClaudeSound, PendingSound
<1>6. QED
  BY <1>1, <1>3, <1>4, <1>5 DEF FolderInv, ValidModes

LEMMA StartKeeps ==
  ASSUME FolderInv, StartContainer
  PROVE  FolderInv'
<1>1. /\ phase = "created" /\ phase' = "running"
      /\ UNCHANGED <<mode, claude, pending, texts, damage, behind>>
  BY DEF StartContainer
<1>2. TypeOK'
  BY <1>1 DEF FolderInv, TypeOK
<1>3. damage = 0 => ClaudeSound' /\ PendingSound'
  BY <1>1 DEF FolderInv, ClaudeSound, PendingSound, AllOutside
<1>4. QED
  BY <1>1, <1>2, <1>3 DEF FolderInv

LEMMA SetModeKeeps ==
  ASSUME FolderInv, NEW m \in ValidModes, SetMode(m)
  PROVE  FolderInv'
<1>1. /\ pending = Missing /\ phase \in {"running", "broken"} /\ mode' = m /\ behind' = TRUE
      /\ pending' = UpdateMode(m)
      /\ UNCHANGED <<phase, claude, texts, damage>>
  BY DEF SetMode, HostIdle
<1>2. CASE claude = Missing
  <2>1. pending' = Missing
    BY <1>1, <1>2 DEF UpdateMode
  <2>2. TypeOK'
    BY <1>1, <2>1 DEF FolderInv, TypeOK
  <2>3. damage = 0 => ClaudeSound' /\ PendingSound'
    BY <1>1, <1>2, <2>1 DEF FolderInv, ClaudeSound, PendingSound
  <2>4. QED
    BY <1>1, <2>2, <2>3 DEF FolderInv
<1>3. CASE claude # Missing
  <2>1. claude \in Seq(Tokens) /\ pending' = ApplyModeToClaude(claude, m)
    BY <1>1, <1>3 DEF UpdateMode, FolderInv, TypeOK
  <2>2. pending' \in Seq(Tokens) /\ m \in TokensOf(pending')
    BY <2>1, ApplyType
  <2>3. TypeOK'
    BY <1>1, <2>2 DEF FolderInv, TypeOK
  <2>4. ASSUME damage = 0 PROVE ClaudeSound' /\ PendingSound'
    <3>1. Tidy(claude) /\ AllOutside(claude) /\ texts \cap Special = {}
      BY <1>3, <2>4 DEF FolderInv, ClaudeSound
    <3>2. /\ HasSection(pending', m)
          /\ \A t : t \notin Special /\ Outside(claude, t) => Outside(pending', t)
      BY <2>1, <3>1, ApplyTidy
    <3>3. AllOutside(claude)' /\ AllOutside(pending)'
      BY <1>1, <3>1, <3>2 DEF AllOutside
    <3>4. QED
      BY <1>1, <1>3, <3>1, <3>2, <3>3 DEF ClaudeSound, PendingSound
  <2>5. QED
    BY <1>1, <2>3, <2>4 DEF FolderInv
<1>4. QED
  BY <1>2, <1>3

LEMMA WriteKeeps ==
  ASSUME FolderInv, WriteClaude
  PROVE  FolderInv'
<1>1. /\ pending # Missing /\ claude' = pending /\ pending' = Missing /\ behind' = FALSE
      /\ UNCHANGED <<phase, mode, texts, damage>>
  BY DEF WriteClaude
<1>2. TypeOK' /\ phase # "none"
  BY <1>1 DEF FolderInv, TypeOK
<1>3. ASSUME damage = 0 PROVE ClaudeSound' /\ PendingSound'
  <2>1. HasSection(claude', mode') /\ AllOutside(claude)' /\ claude' # Missing
    BY <1>1, <1>3 DEF FolderInv, PendingSound, AllOutside
  <2>2. mode' \in ValidModes
    BY <1>1 DEF FolderInv
  <2>3. QED
    BY <1>1, <2>1, <2>2 DEF ClaudeSound, PendingSound, Tidy
<1>4. QED
  BY <1>1, <1>2, <1>3 DEF FolderInv

\* Parts of a file are files.
LEMMA PartsType ==
  ASSUME NEW f \in Seq(Tokens)
  PROVE  /\ \A n \in 0..Len(f) : SubSeq(f, 1, n) \in Seq(Tokens)
         /\ \A i \in DOMAIN f : SubSeq(f, 1, i - 1) \o SubSeq(f, i + 1, Len(f)) \in Seq(Tokens)
<1>1. \A k \in 1..Len(f) : f[k] \in Tokens
  OBVIOUS
<1>2. ASSUME NEW n \in 0..Len(f) PROVE SubSeq(f, 1, n) \in Seq(Tokens)
  <2>1. \A k \in 1..n : f[k] \in Tokens
    BY <1>1
  <2>2. QED
    BY <2>1, SubSeqProperties
<1>3. ASSUME NEW i \in DOMAIN f
      PROVE  SubSeq(f, 1, i - 1) \o SubSeq(f, i + 1, Len(f)) \in Seq(Tokens)
  <2>1. i \in 1..Len(f) /\ i - 1 \in 0..Len(f) /\ Len(f) \in Nat /\ i + 1 \in Int
    OBVIOUS
  <2>2. SubSeq(f, 1, i - 1) \in Seq(Tokens)
    BY <1>2, <2>1
  <2>3. \A k \in i + 1..Len(f) : f[k] \in Tokens
    BY <1>1, <2>1
  <2>4. SubSeq(f, i + 1, Len(f)) \in Seq(Tokens)
    BY <2>1, <2>3, SubSeqProperties
  <2>5. QED
    BY <2>2, <2>4
<1>4. QED
  BY <1>2, <1>3

LEMMA FailKeeps ==
  ASSUME FolderInv, WriteFails
  PROVE  FolderInv'
<1>1. /\ pending # Missing /\ pending' = Missing /\ pending \in Seq(Tokens)
      /\ UNCHANGED <<phase, mode, texts, behind>> /\ phase # "none"
  BY DEF WriteFails, FolderInv, TypeOK
<1>2. CASE UNCHANGED <<claude, damage>>
  <2>1. TypeOK'
    BY <1>1, <1>2 DEF FolderInv, TypeOK
  <2>2. damage = 0 => ClaudeSound' /\ PendingSound'
    BY <1>1, <1>2 DEF FolderInv, ClaudeSound, PendingSound, AllOutside
  <2>3. QED
    BY <1>1, <1>2, <2>1, <2>2 DEF FolderInv
<1>3. CASE /\ \E n \in 0..Len(pending) - 1 : claude' = SubSeq(pending, 1, n)
           /\ Damage
  <2>1. PICK n \in 0..Len(pending) - 1 : claude' = SubSeq(pending, 1, n)
    BY <1>3
  <2>2. n \in 0..Len(pending)
    BY <1>1
  <2>3. claude' \in Seq(Tokens)
    BY <1>1, <2>1, <2>2, PartsType
  <2>4. behind' \in BOOLEAN
    BY <1>1 DEF FolderInv, TypeOK
  <2>5. QED
    BY <1>1, <1>3, <2>3, <2>4, DamageKeeps
<1>4. QED
  BY <1>2, <1>3 DEF WriteFails

LEMMA InsertKeeps ==
  ASSUME FolderInv, NEW t \in AgentTexts \cup Markers, NEW i \in 1..MaxTokens, AgentInserts(t, i)
  PROVE  FolderInv'
<1>1. /\ phase = "running" /\ claude # Missing /\ claude \in Seq(Tokens)
      /\ i \in 1..Len(claude) + 1
      /\ claude' = Inserted(claude, t, i)
      /\ UNCHANGED <<phase, mode, pending, behind>>
  BY FolderAssumption DEF AgentInserts, FolderInv, TypeOK
<1>2. t \in Tokens
  BY DEF Tokens
<1>3. InsertedAt(claude, claude', t, i) /\ claude' \in Seq(Tokens)
  <2>1. InsertedAt(claude, Inserted(claude, t, i), t, i)
    BY <1>1, <1>2, InsertFacts
  <2>2. QED
    BY <1>1, <2>1 DEF InsertedAt
<1>4. CASE t \in Markers
  <2>1. Damage /\ texts' = texts
    BY <1>4 DEF AgentInserts
  <2>2. /\ pending' = Missing \/ (pending' \in Seq(Tokens) /\ mode' \in TokensOf(pending'))
        /\ behind' \in BOOLEAN
    BY <1>1 DEF FolderInv, TypeOK, TokensOf
  <2>3. QED
    BY <1>1, <1>3, <2>1, <2>2, DamageKeeps
<1>5. CASE t \notin Markers
  <2>1. /\ damage' = damage
        /\ texts' = texts
           \/ (pending = Missing /\ ~Inside(claude, i) /\ texts' = texts \cup {t})
    BY <1>5 DEF AgentInserts
  <2>2. t \notin Special /\ t \in AgentTexts
    BY <1>5, FolderAssumption DEF Special
  <2>3. TypeOK'
    BY <1>1, <1>2, <1>3, <1>5, <2>1 DEF FolderInv, TypeOK, TokensOf
  <2>4. texts' \cap Special = {}
    BY <2>1, <2>2 DEF FolderInv
  <2>5. ASSUME damage = 0 PROVE ClaudeSound' /\ PendingSound'
    <3>1. claude' # Missing
      BY <1>3, FolderAssumption
    <3>2. /\ Tidy(claude) /\ AllOutside(claude)
          /\ ~behind => HasSection(claude, mode)
      BY <1>1, <2>5 DEF FolderInv, ClaudeSound
    <3>3. Tidy(claude') /\ (~behind => HasSection(claude', mode))
      BY <1>1, <1>3, <2>2, <3>2, InsertTidy
    <3>4. AllOutside(claude)'
      <4>1. /\ \A u : Outside(claude, u) => Outside(claude', u)
            /\ ~Inside(claude, i) => Outside(claude', t)
        BY <1>1, <1>3, <2>2, InsertOutside
      <4>2. QED
        BY <2>1, <3>2, <4>1 DEF AllOutside
    <3>5. ClaudeSound'
      BY <1>1, <3>1, <3>3, <3>4 DEF ClaudeSound
    <3>6. PendingSound'
      BY <1>1, <2>1, <2>5 DEF FolderInv, PendingSound, AllOutside
    <3>7. QED
      BY <3>5, <3>6
  <2>6. QED
    BY <1>1, <2>1, <2>3, <2>4, <2>5 DEF FolderInv
<1>6. QED
  BY <1>4, <1>5

LEMMA RemoveKeeps ==
  ASSUME FolderInv, (\E i \in 1..MaxTokens + 3 : AgentRemoves(i)) \/ AgentDeletes
  PROVE  FolderInv'
<1>1. /\ phase = "running" /\ claude # Missing /\ claude \in Seq(Tokens) /\ Damage
      /\ UNCHANGED <<phase, mode, pending, texts, behind>>
  BY DEF AgentRemoves, AgentDeletes, FolderInv, TypeOK
<1>2. claude' = Missing \/ claude' \in Seq(Tokens)
  <2>1. CASE AgentDeletes
    BY <2>1 DEF AgentDeletes
  <2>2. CASE \E i \in 1..MaxTokens + 3 : AgentRemoves(i)
    <3>1. PICK i \in DOMAIN claude :
            claude' = SubSeq(claude, 1, i - 1) \o SubSeq(claude, i + 1, Len(claude))
      BY <2>2 DEF AgentRemoves
    <3>2. QED
      BY <1>1, <3>1, PartsType
  <2>3. QED
    BY <2>1, <2>2
<1>3. /\ pending' = Missing \/ (pending' \in Seq(Tokens) /\ mode' \in TokensOf(pending'))
      /\ behind' \in BOOLEAN
  BY <1>1 DEF FolderInv, TypeOK, TokensOf
<1>4. QED
  BY <1>1, <1>2, <1>3, DamageKeeps

LEMMA FolderStutter == FolderInv /\ UNCHANGED vars => FolderInv'
<1> SUFFICES ASSUME FolderInv, UNCHANGED vars PROVE FolderInv'
  OBVIOUS
<1>1. TypeOK' /\ (ClaudeSound' <=> ClaudeSound) /\ (PendingSound' <=> PendingSound)
  BY DEF FolderInv, TypeOK, TokensOf, ClaudeSound, PendingSound, AllOutside, vars
<1>2. QED
  BY <1>1 DEF FolderInv, vars

LEMMA FolderNext == FolderInv /\ [Next]_vars => FolderInv'
<1> SUFFICES ASSUME FolderInv, [Next]_vars PROVE FolderInv'
  OBVIOUS
<1>1. CASE \E r \in Requests : Create(r) \/ CreateThrows(r)
  BY <1>1, CreateKeeps
<1>2. CASE StartContainer
  BY <1>2, StartKeeps
<1>3. CASE \E m \in ValidModes : SetMode(m)
  BY <1>3, SetModeKeeps
<1>4. CASE WriteClaude
  BY <1>4, WriteKeeps
<1>5. CASE WriteFails
  BY <1>5, FailKeeps
<1>6. CASE \E t \in AgentTexts \cup Markers, i \in 1..MaxTokens : AgentInserts(t, i)
  BY <1>6, InsertKeeps
<1>7. CASE (\E i \in 1..MaxTokens + 3 : AgentRemoves(i)) \/ AgentDeletes
  BY <1>7, RemoveKeeps
<1>8. CASE UNCHANGED vars
  BY <1>8, FolderStutter
<1>9. QED
  BY <1>1, <1>2, <1>3, <1>4, <1>5, <1>6, <1>7, <1>8 DEF Next

LEMMA Folder == Spec => []FolderInv
BY FolderInit, FolderNext, PTL DEF Spec

-----------------------------------------------------------------------------
\* The variables keep their types: a write that is due is a file with the
\* row's mode (setMode, updateMode).
THEOREM FolderTypes == Spec => []TypeOK
<1>1. FolderInv => TypeOK
  BY DEF FolderInv
<1>2. QED
  BY <1>1, Folder, PTL

\* However often the mode is set and wherever the agent puts its text, a file
\* that nobody damaged has one section, which holds the row's mode and no other.
THEOREM ModesAgree == Spec => []ModeAgrees
<1>1. FolderInv => ModeAgrees
  <2> SUFFICES ASSUME FolderInv, phase # "none", damage = 0, ~behind
               PROVE  \E a, k, b \in DOMAIN claude :
                        /\ a < k /\ k < b
                        /\ Occurrences(Start) = {a} /\ Occurrences(mode) = {k}
                        /\ Occurrences(End) = {b}
                        /\ \A m \in ValidModes \ {mode} : Occurrences(m) = {}
    BY DEF ModeAgrees
  <2>1. claude \in Seq(Tokens) /\ HasSection(claude, mode) /\ mode \in ValidModes
    BY DEF FolderInv, TypeOK, ClaudeSound
  <2>2. PICK a \in 1..Len(claude), k \in 1..Len(claude), b \in 1..Len(claude) :
          Sectioned(claude, mode, a, k, b)
    BY <2>1 DEF HasSection
  <2>3. /\ DOMAIN claude = 1..Len(claude) /\ a < k /\ k < b
        /\ claude[a] = Start /\ claude[k] = mode /\ claude[b] = End
        /\ \A j \in 1..Len(claude) : claude[j] \in Special => j \in {a, k, b}
    BY <2>1, <2>2 DEF Sectioned
  <2>4. Occurrences(Start) = {a} /\ Occurrences(mode) = {k} /\ Occurrences(End) = {b}
    BY <2>1, <2>3, SpecialFacts DEF Occurrences
  <2>5. \A m \in ValidModes \ {mode} : Occurrences(m) = {}
    BY <2>1, <2>3, SpecialFacts DEF Occurrences
  <2>6. QED
    BY <2>3, <2>4, <2>5
<1>2. QED
  BY <1>1, Folder, PTL

\* For files of any length: no change of mode loses a text that was there,
\* outside the section, when the file was read.
THEOREM TextsKept == Spec => []TextKept
<1>1. FolderInv => TextKept
  <2> SUFFICES ASSUME FolderInv, damage = 0, NEW t \in texts
               PROVE  claude # Missing /\ t \in TokensOf(claude)
    BY DEF TextKept
  <2>1. claude # Missing /\ Outside(claude, t)
    BY DEF FolderInv, ClaudeSound, AllOutside
  <2>2. QED
    BY <2>1, OutsideIsIn DEF FolderInv, TypeOK
<1>2. QED
  BY <1>1, Folder, PTL

\* Whatever has been done to the file, a change of mode swallows no text but
\* that between the first start marker and the first end marker after it.
THEOREM FirstSectionReplaced == Spec => OnlyFirstSectionReplaced
<1>1. ASSUME FolderInv, [Next]_vars, pending = Missing, pending' # Missing,
             NEW i \in DOMAIN claude, claude[i] \in HostTexts \cup AgentTexts,
             claude[i] \notin TokensOf(pending')
      PROVE  \E a, b \in DOMAIN claude :
               /\ a < i /\ i < b /\ claude[a] = Start /\ claude[b] = End
               /\ Start \notin {claude[k] : k \in 1..a - 1}
               /\ End \notin {claude[k] : k \in a + 1..b - 1}
  <2>1. \E m \in ValidModes : SetMode(m)
    BY <1>1 DEF Next, vars, Create, CreateThrows, StartContainer, WriteClaude, WriteFails,
                AgentInserts, AgentRemoves, AgentDeletes
  <2>2. PICK m \in ValidModes : pending' = UpdateMode(m)
    BY <2>1 DEF SetMode
  <2>3. claude \in Seq(Tokens) /\ pending' = ApplyModeToClaude(claude, m)
    BY <1>1, <2>2 DEF UpdateMode, FolderInv, TypeOK
  <2>4. claude[i] \notin Markers
    BY <1>1, HostTextsFacts, FolderAssumption DEF Special
  <2>5. PICK a \in 1..Len(claude), b \in 1..Len(claude) : SectionAt(claude, a, b) /\ a < i /\ i < b
    BY <1>1, <2>3, <2>4, SwallowsFirst
  <2>6. DOMAIN claude = 1..Len(claude)
    BY <2>3
  <2>7. QED
    BY <2>5, <2>6 DEF SectionAt
<1>2. FolderInv /\ [Next]_vars =>
        [pending = Missing /\ pending' # Missing =>
           \A i \in DOMAIN claude :
             claude[i] \in HostTexts \cup AgentTexts /\ claude[i] \notin TokensOf(pending') =>
               \E a, b \in DOMAIN claude :
                 /\ a < i /\ i < b /\ claude[a] = Start /\ claude[b] = End
                 /\ Start \notin {claude[k] : k \in 1..a - 1}
                 /\ End \notin {claude[k] : k \in a + 1..b - 1}]_vars
  BY <1>1
<1>3. QED
  BY <1>2, Folder, PTL DEF Spec, OnlyFirstSectionReplaced

-----------------------------------------------------------------------------
(* Changing the mode twice *)

\* Two texts agree element by element.
LEMMA SameText ==
  ASSUME NEW f \in Seq(Tokens), NEW g \in Seq(Tokens), Len(f) = Len(g),
         \A i \in 1..Len(f) : f[i] = g[i]
  PROVE  f = g
BY SeqEqual

\* However often the mode changes, the file is what the last change alone would
\* have made of it: sections do not pile up and no text moves, provided that the
\* file has a section or no start marker that could begin one
\* (applyModeToClaude).
THEOREM LastModeWins ==
  ASSUME NEW f \in Seq(Tokens), NEW m \in ValidModes, NEW x \in ValidModes,
         Sections(f) # {} \/ Start \notin TokensOf(f)
  PROVE  ApplyModeToClaude(ApplyModeToClaude(f, m), x) = ApplyModeToClaude(f, x)
<1> DEFINE g == ApplyModeToClaude(f, m)
           h == ApplyModeToClaude(f, x)
           gh == ApplyModeToClaude(g, x)
<1>1. m # Start /\ m # End /\ Start # End
  BY DEF ValidModes, Start, End
<1>2. PICK n \in Nat : n = Len(f) /\ DOMAIN f = 1..n
  OBVIOUS
<1>3. CASE Sections(f) # {}
  <2>1. PICK a \in 1..n, b \in 1..n : SectionAt(f, a, b)
    BY <1>2, <1>3, SectionBounds
  <2>2. Replaced(f, g, m, a, b) /\ Replaced(f, h, x, a, b)
    BY <2>1, FirstSection
  <2>3. /\ g \in Seq(Tokens) /\ Len(g) = n - b + a + 2
        /\ \A i \in 1..a - 1 : g[i] = f[i]
        /\ g[a] = Start /\ g[a + 1] = m /\ g[a + 2] = End
        /\ \A i \in b + 1..n : g[i - b + a + 2] = f[i]
    BY <1>2, <2>2 DEF Replaced
  <2> HIDE DEF g, h
  <2>4. /\ h \in Seq(Tokens) /\ Len(h) = n - b + a + 2
        /\ \A i \in 1..a - 1 : h[i] = f[i]
        /\ h[a] = Start /\ h[a + 1] = x /\ h[a + 2] = End
        /\ \A i \in b + 1..n : h[i - b + a + 2] = f[i]
    BY <1>2, <2>2 DEF Replaced
  <2>5. SectionAt(g, a, a + 2)
    <3>1. a < b /\ \A i \in 1..a - 1 : f[i] # Start
      BY <2>1 DEF SectionAt
    <3>2. a \in 1..Len(g) /\ a + 2 \in 1..Len(g) /\ a < a + 2
      BY <2>3, <3>1
    <3>3. ASSUME NEW i \in a + 1..a + 2 - 1 PROVE g[i] # End
      <4>1. i = a + 1
        OBVIOUS
      <4>2. QED
        BY <1>1, <2>3, <4>1
    <3>4. QED
      BY <2>3, <3>1, <3>2, <3>3 DEF SectionAt
  <2>6. Replaced(g, gh, x, a, a + 2)
    BY <2>3, <2>5, FirstSection
  <2> HIDE DEF gh
  <2>7. /\ gh \in Seq(Tokens) /\ Len(gh) = Len(g)
        /\ \A i \in 1..a - 1 : gh[i] = g[i]
        /\ gh[a] = Start /\ gh[a + 1] = x /\ gh[a + 2] = End
        /\ \A i \in a + 3..Len(g) : gh[i] = g[i]
    <3>1. /\ gh \in Seq(Tokens) /\ Len(gh) = Len(g) - (a + 2) + a + 2
          /\ \A i \in 1..a - 1 : gh[i] = g[i]
          /\ gh[a] = Start /\ gh[a + 1] = x /\ gh[a + 2] = End
          /\ \A i \in a + 2 + 1..Len(g) : gh[i - (a + 2) + a + 2] = g[i]
      BY <2>6 DEF Replaced
    <3>2. ASSUME NEW i \in a + 3..Len(g) PROVE gh[i] = g[i]
      <4>1. i \in a + 2 + 1..Len(g) /\ i - (a + 2) + a + 2 = i
        OBVIOUS
      <4>2. QED
        BY <3>1, <4>1
    <3>3. Len(gh) = Len(g)
      BY <2>3, <3>1
    <3>4. QED
      BY <3>1, <3>2, <3>3
  <2>8. Len(gh) = Len(h)
    BY <2>3, <2>4, <2>7
  <2>9. ASSUME NEW i \in 1..Len(h) PROVE gh[i] = h[i]
    <3>1. CASE i < a
      <4>1. i \in 1..a - 1
        BY <2>4, <2>9, <3>1
      <4>2. QED
        BY <2>3, <2>4, <2>7, <4>1
    <3>2. CASE i \in a..a + 2
      <4>1. i = a \/ i = a + 1 \/ i = a + 2
        BY <3>2
      <4>2. QED
        BY <2>4, <2>7, <4>1
    <3>3. CASE i > a + 2
      <4>1. PICK j \in b + 1..n : i = j - b + a + 2
        <5>1. i + b - a - 2 \in b + 1..n
          BY <2>4, <2>9, <3>3
        <5>2. i = (i + b - a - 2) - b + a + 2
          BY <2>4, <2>9
        <5>3. QED
          BY <5>1, <5>2
      <4>2. h[i] = f[j] /\ g[i] = f[j]
        BY <2>3, <2>4, <4>1
      <4>3. i \in a + 3..Len(g)
        BY <2>3, <2>4, <2>9, <3>3
      <4>4. QED
        BY <2>7, <4>2, <4>3
    <3>4. QED
      BY <2>4, <2>9, <3>1, <3>2, <3>3
  <2>10. gh = h
    BY <2>4, <2>7, <2>8, <2>9, SameText
  <2>11. QED
    BY <2>10 DEF gh, g, h
<1>4. CASE Sections(f) = {}
  <2>1. \A i \in 1..n : f[i] # Start
    BY <1>2, <1>4 DEF TokensOf
  <2>2. g = f \o ModeBlock(m) /\ h = f \o ModeBlock(x)
    BY <1>4, ApplyFacts
  <2> HIDE DEF g, h
  <2>3. /\ g \in Seq(Tokens) /\ Len(g) = n + 3
        /\ \A i \in 1..n : g[i] = f[i]
        /\ g[n + 1] = Start /\ g[n + 2] = m /\ g[n + 3] = End
    BY <1>2, <2>2, AppendBlockFacts
  <2>4. /\ h \in Seq(Tokens) /\ Len(h) = n + 3
        /\ \A i \in 1..n : h[i] = f[i]
        /\ h[n + 1] = Start /\ h[n + 2] = x /\ h[n + 3] = End
    BY <1>2, <2>2, AppendBlockFacts
  <2>5. PICK a \in Nat, e \in Nat : a = n + 1 /\ e = n + 3
    OBVIOUS
  <2>6. /\ g[a] = Start /\ g[a + 1] = m /\ g[e] = End
        /\ h[a] = Start /\ h[a + 1] = x /\ h[a + 2] = End
    <3>1. a + 1 = n + 2 /\ a + 2 = n + 3
      BY <2>5
    <3>2. QED
      BY <2>3, <2>4, <2>5, <3>1
  <2>7. /\ gh \in Seq(Tokens) /\ Len(gh) = Len(g) - e + a + 2
        /\ \A i \in 1..a - 1 : gh[i] = g[i]
        /\ gh[a] = Start /\ gh[a + 1] = x /\ gh[a + 2] = End
    <3>1. a \in 1..Len(g) /\ e \in 1..Len(g) /\ a < e
      BY <2>3, <2>5
    <3>2. ASSUME NEW i \in 1..a - 1 PROVE g[i] # Start
      <4>1. i \in 1..n
        BY <2>5
      <4>2. QED
        BY <2>1, <2>3, <4>1
    <3>3. ASSUME NEW i \in a + 1..e - 1 PROVE g[i] # End
      <4>1. i = a + 1
        BY <2>5
      <4>2. QED
        BY <1>1, <2>6, <4>1
    <3>4. SectionAt(g, a, e)
      BY <2>6, <3>1, <3>2, <3>3 DEF SectionAt
    <3>5. Replaced(g, gh, x, a, e)
      BY <2>3, <3>4, FirstSection
    <3> HIDE DEF gh
    <3>6. QED
      BY <3>5 DEF Replaced
  <2> HIDE DEF gh
  <2>8. Len(gh) = Len(h)
    BY <2>3, <2>4, <2>5, <2>7
  <2>9. ASSUME NEW i \in 1..Len(h) PROVE gh[i] = h[i]
    <3>1. CASE i < a
      <4>1. i \in 1..a - 1 /\ i \in 1..n
        BY <2>4, <2>5, <2>9, <3>1
      <4>2. QED
        BY <2>3, <2>4, <2>7, <4>1
    <3>2. CASE i >= a
      <4>1. i = a \/ i = a + 1 \/ i = a + 2
        BY <2>4, <2>5, <2>9, <3>2
      <4>2. QED
        BY <2>6, <2>7, <4>1
    <3>3. QED
      BY <2>5, <2>9, <3>1, <3>2
  <2>10. gh = h
    BY <2>4, <2>7, <2>8, <2>9, SameText
  <2>11. QED
    BY <2>10 DEF gh, g, h
<1>5. QED
  BY <1>3, <1>4

-----------------------------------------------------------------------------
(* The loop over the MCP servers *)

Pushed(servers, i, before) ==
  IF servers[i].type = "stdio" THEN Append(before, ToConfig(servers[i])) ELSE before

IsLoop(g, servers, n) ==
  g = [i \in 0..n |-> IF i = 0 THEN <<>> ELSE Pushed(servers, i, g[i - 1])]

\* The equations of the loop have a solution.
LEMMA LoopExists ==
  ASSUME NEW servers, NEW n \in Nat
  PROVE  \E g : IsLoop(g, servers, n)
<1> DEFINE Bad == {k \in Nat : ~ \E g : IsLoop(g, servers, k)}
<1> SUFFICES ASSUME Bad # {} PROVE FALSE
  OBVIOUS
<1>1. PICK k \in Bad : \A j \in Bad : k <= j
  <2>1. Bad \subseteq Nat
    OBVIOUS
  <2> HIDE DEF Bad
  <2>2. QED
    BY <2>1, LeastNumber
<1>2. CASE k = 0
  <2> DEFINE h == [i \in 0..0 |-> <<>>]
  <2>1. IsLoop(h, servers, 0)
    BY DEF IsLoop
  <2>2. QED
    BY <1>2, <2>1
<1>3. CASE k # 0
  <2>1. k - 1 \in Nat /\ k \in Nat /\ k - 1 \notin Bad
    BY <1>1, <1>3
  <2>2. PICK g : IsLoop(g, servers, k - 1)
    BY <2>1
  <2> DEFINE h == [i \in 0..k |-> IF i = k THEN Pushed(servers, k, g[k - 1]) ELSE g[i]]
  <2>3. \A i \in 0..k - 1 : g[i] = IF i = 0 THEN <<>> ELSE Pushed(servers, i, g[i - 1])
    BY <2>2 DEF IsLoop
  <2>4. \A i \in 0..k : h[i] = IF i = 0 THEN <<>> ELSE Pushed(servers, i, h[i - 1])
    <3> SUFFICES ASSUME NEW i \in 0..k
                 PROVE  h[i] = IF i = 0 THEN <<>> ELSE Pushed(servers, i, h[i - 1])
      OBVIOUS
    <3>1. CASE i = k
      BY <1>3, <2>1, <3>1
    <3>2. CASE i # k
      <4>1. i \in 0..k - 1 /\ h[i] = g[i]
        BY <2>1, <3>2
      <4>2. i # 0 => h[i - 1] = g[i - 1]
        BY <2>1, <3>2
      <4>3. QED
        BY <2>3, <4>1, <4>2
    <3>3. QED
      BY <3>1, <3>2
  <2>5. IsLoop(h, servers, k)
    <3>1. h = [i \in 0..k |-> h[i]]
      OBVIOUS
    <3> HIDE DEF h
    <3>2. QED
      BY <2>4, <3>1 DEF IsLoop
  <2>6. QED
    BY <1>1, <2>5
<1>4. QED
  BY <1>2, <1>3

LEMMA FromAcpIsLoop ==
  ASSUME NEW servers \in Seq(McpServer)
  PROVE  \E g : IsLoop(g, servers, Len(servers)) /\ FromAcpMcpServers(servers) = g[Len(servers)]
<1> DEFINE g == CHOOSE g : IsLoop(g, servers, Len(servers))
<1>1. IsLoop(g, servers, Len(servers))
  BY LoopExists
<1>2. FromAcpMcpServers(servers) = g[Len(servers)]
  BY DEF FromAcpMcpServers, IsLoop, Pushed
<1>3. QED
  BY <1>1, <1>2

\* The stdio servers among the first n.
Stdio(servers, n) == {j \in 1..n : servers[j].type = "stdio"}

\* configs are those of the stdio servers among the first n, in their order.
InOrder(configs, servers, n) ==
  \E m \in Nat : \E h \in [1..m -> Stdio(servers, n)] :
    /\ configs = [k \in 1..m |-> ToConfig(servers[h[k]])]
    /\ \A k, l \in 1..m : k < l => h[k] < h[l]
    /\ \A j \in Stdio(servers, n) : \E k \in 1..m : h[k] = j

LEMMA LoopStep ==
  ASSUME NEW servers \in Seq(McpServer), NEW i \in 1..Len(servers),
         NEW before, InOrder(before, servers, i - 1)
  PROVE  InOrder(Pushed(servers, i, before), servers, i)
<1>1. PICK m \in Nat : \E h \in [1..m -> Stdio(servers, i - 1)] :
        /\ before = [k \in 1..m |-> ToConfig(servers[h[k]])]
        /\ \A k, l \in 1..m : k < l => h[k] < h[l]
        /\ \A j \in Stdio(servers, i - 1) : \E k \in 1..m : h[k] = j
  BY DEF InOrder
<1>2. PICK h \in [1..m -> Stdio(servers, i - 1)] :
        /\ before = [k \in 1..m |-> ToConfig(servers[h[k]])]
        /\ \A k, l \in 1..m : k < l => h[k] < h[l]
        /\ \A j \in Stdio(servers, i - 1) : \E k \in 1..m : h[k] = j
  BY <1>1
<1>3. \A j : j \in Stdio(servers, i) <=>
               j \in Stdio(servers, i - 1) \/ (j = i /\ servers[i].type = "stdio")
  BY DEF Stdio
<1>4. CASE servers[i].type # "stdio"
  <2>1. Stdio(servers, i) = Stdio(servers, i - 1) /\ Pushed(servers, i, before) = before
    BY <1>3, <1>4 DEF Pushed
  <2>2. /\ h \in [1..m -> Stdio(servers, i)]
        /\ \A j \in Stdio(servers, i) : \E k \in 1..m : h[k] = j
    BY <1>2, <2>1
  <2>3. InOrder(before, servers, i)
    BY <1>2, <2>2 DEF InOrder
  <2>4. QED
    BY <2>1, <2>3
<1>5. CASE servers[i].type = "stdio"
  <2> DEFINE f == [k \in 1..m + 1 |-> IF k = m + 1 THEN i ELSE h[k]]
             x == ToConfig(servers[i])
  <2>1. f \in [1..m + 1 -> Stdio(servers, i)]
    BY <1>2, <1>3, <1>5
  <2>2. \A k, l \in 1..m + 1 : k < l => f[k] < f[l]
    <3>1. \A k \in 1..m : h[k] \in Int /\ h[k] < i
      BY <1>2 DEF Stdio
    <3>2. QED
      BY <1>2, <3>1
  <2>3. \A j \in Stdio(servers, i) : \E k \in 1..m + 1 : f[k] = j
    <3>1. f[m + 1] = i /\ m + 1 \in 1..m + 1
      OBVIOUS
    <3>2. \A k \in 1..m : f[k] = h[k] /\ k \in 1..m + 1
      OBVIOUS
    <3> HIDE DEF f
    <3>3. QED
      BY <1>2, <1>3, <3>1, <3>2
  <2>4. Pushed(servers, i, before) = [k \in 1..m + 1 |-> ToConfig(servers[f[k]])]
    <3> DEFINE S == {before[k] : k \in 1..m} \cup {x}
    <3>1. before \in Seq(S) /\ Len(before) = m /\ x \in S
      <4>1. before \in [1..m -> S]
        BY <1>2
      <4> HIDE DEF S
      <4>2. before \in Seq(S)
        BY <4>1
      <4>3. QED
        BY <4>1, <4>2 DEF S
    <3>2. Pushed(servers, i, before) = Append(before, x)
      BY <1>5 DEF Pushed
    <3>3. \A k \in 1..m : before[k] = ToConfig(servers[f[k]])
      BY <1>2
    <3>4. x = ToConfig(servers[f[m + 1]])
      OBVIOUS
    <3> HIDE DEF S, x, f
    <3>5. /\ Append(before, x) \in Seq(S) /\ Len(Append(before, x)) = m + 1
          /\ \A k \in 1..m : Append(before, x)[k] = before[k]
          /\ Append(before, x)[m + 1] = x
      BY <3>1
    <3>6. Append(before, x) = [k \in 1..m + 1 |-> Append(before, x)[k]]
      <4>1. PICK s : s = Append(before, x)
        OBVIOUS
      <4>2. s \in Seq(S) /\ Len(s) = m + 1
        BY <3>5, <4>1
      <4>3. s \in [1..m + 1 -> S]
        BY <4>2
      <4>4. s = [k \in 1..m + 1 |-> s[k]]
        BY <4>3
      <4>5. QED
        BY <4>1, <4>4
    <3>7. \A k \in 1..m + 1 : Append(before, x)[k] = ToConfig(servers[f[k]])
      BY <3>3, <3>4, <3>5
    <3>8. QED
      BY <3>2, <3>6, <3>7
  <2> HIDE DEF f
  <2>5. m + 1 \in Nat
    OBVIOUS
  <2>6. QED
    BY <2>1, <2>2, <2>3, <2>4, <2>5 DEF InOrder
<1>6. QED
  BY <1>4, <1>5

\* fromAcpMcpServers keeps the stdio servers, in their order.
LEMMA FromAcpInOrder ==
  ASSUME NEW servers \in Seq(McpServer)
  PROVE  InOrder(FromAcpMcpServers(servers), servers, Len(servers))
<1> DEFINE n == Len(servers)
<1>1. PICK g : IsLoop(g, servers, n) /\ FromAcpMcpServers(servers) = g[n]
  BY FromAcpIsLoop
<1>2. \A i \in 0..n : g[i] = IF i = 0 THEN <<>> ELSE Pushed(servers, i, g[i - 1])
  BY <1>1 DEF IsLoop
<1> DEFINE Bad == {i \in 0..n : ~InOrder(g[i], servers, i)}
<1>3. ASSUME Bad # {} PROVE FALSE
  <2>1. Bad \subseteq Nat
    OBVIOUS
  <2>2. PICK i \in Bad : \A j \in Bad : i <= j
    <3> HIDE DEF Bad
    <3>1. QED
      BY <1>3, <2>1, LeastNumber
  <2>3. n \in Nat /\ i \in 0..n /\ ~InOrder(g[i], servers, i)
    BY <2>2
  <2>4. CASE i = 0
    <3>1. g[0] = <<>> /\ Stdio(servers, 0) = {}
      BY <1>2, <2>3, <2>4 DEF Stdio
    <3>2. InOrder(<<>>, servers, 0)
      <4> DEFINE h == [k \in 1..0 |-> 0]
      <4>1. h \in [1..0 -> Stdio(servers, 0)] /\ <<>> = [k \in 1..0 |-> ToConfig(servers[h[k]])]
        OBVIOUS
      <4>2. QED
        BY <3>1, <4>1 DEF InOrder
    <3>3. QED
      BY <2>3, <2>4, <3>1, <3>2
  <2>5. CASE i # 0
    <3>1. i \in 1..n /\ i - 1 \in 0..n /\ ~(i <= i - 1)
      BY <2>3, <2>5
    <3>2. InOrder(g[i - 1], servers, i - 1)
      BY <2>2, <3>1
    <3>3. InOrder(Pushed(servers, i, g[i - 1]), servers, i)
      BY <3>1, <3>2, LoopStep
    <3>4. QED
      BY <1>2, <2>3, <2>5, <3>3
  <2>6. QED
    BY <2>4, <2>5
<1>4. n \in 0..n
  OBVIOUS
<1>5. QED
  BY <1>1, <1>3, <1>4

LEMMA GreatestNumber ==
  ASSUME NEW n \in Nat, NEW T, T \subseteq 1..n, T # {}
  PROVE  \E i \in T : \A j \in T : j <= i
<1> DEFINE U == {n - i : i \in T}
<1>1. U \subseteq Nat /\ U # {}
  <2>1. \A i \in T : n - i \in Nat
    OBVIOUS
  <2>2. QED
    BY <2>1
<1>2. PICK u \in U : \A v \in U : u <= v
  <2> HIDE DEF U
  <2>1. QED
    BY <1>1, LeastNumber
<1>3. PICK i \in T : u = n - i
  BY <1>2
<1>4. ASSUME NEW j \in T PROVE j <= i
  <2>1. n - i <= n - j
    BY <1>2, <1>3
  <2>2. i \in 1..n /\ j \in 1..n
    OBVIOUS
  <2>3. QED
    BY <2>1, <2>2
<1>5. QED
  BY <1>4

LEMMA LastNamedFacts ==
  ASSUME NEW seq, NEW n \in Nat, DOMAIN seq = 1..n, NEW w \in NamesOf(seq)
  PROVE  \E i \in 1..n : /\ LastNamed(seq, w) = seq[i] /\ seq[i].name = w
                         /\ \A j \in 1..n : seq[j].name = w => j <= i
<1> DEFINE T == {i \in 1..n : seq[i].name = w}
           k == CHOOSE i \in DOMAIN seq :
                  seq[i].name = w /\ \A j \in DOMAIN seq : seq[j].name = w => j <= i
<1>1. T \subseteq 1..n /\ T # {}
  BY DEF NamesOf
<1>2. PICK i \in T : \A j \in T : j <= i
  <2> HIDE DEF T
  <2>1. QED
    BY <1>1, GreatestNumber
<1>3. k \in DOMAIN seq /\ seq[k].name = w /\ \A j \in DOMAIN seq : seq[j].name = w => j <= k
  BY <1>2
<1>4. LastNamed(seq, w) = seq[k]
  BY DEF LastNamed
<1> HIDE DEF k
<1>5. QED
  BY <1>3, <1>4

\* The variable v is one of the server's, and the last of its name.
Has(server, v) ==
  \E k \in DOMAIN server.env :
    server.env[k] = v /\ \A l \in k + 1..Len(server.env) : server.env[l].name # v.name

\* The environment of a configuration has the last value of each variable.
LEMMA ToConfigFacts ==
  ASSUME NEW server \in McpServer, NEW c, c = ToConfig(server)
  PROVE  /\ c.name = server.name /\ c.command = server.command
         /\ {[name |-> w, value |-> c.env[w]] : w \in DOMAIN c.env}
              = {v \in {server.env[k] : k \in DOMAIN server.env} : Has(server, v)}
<1> DEFINE e == server.env
           Left == {[name |-> w, value |-> c.env[w]] : w \in DOMAIN c.env}
           Right == {v \in {e[k] : k \in DOMAIN e} : Has(server, v)}
<1>1. e \in Seq(EnvVariable)
  BY DEF McpServer
<1>2. PICK n \in Nat : n = Len(e)
  BY <1>1
<1>3. /\ DOMAIN e = 1..n
      /\ \A k \in 1..n : e[k] = [name |-> e[k].name, value |-> e[k].value]
  <2>1. \A k \in 1..n : e[k] \in EnvVariable
    BY <1>1, <1>2
  <2>2. QED
    BY <1>1, <1>2, <2>1 DEF EnvVariable
<1>4. /\ c.name = server.name /\ c.command = server.command
      /\ c.env = [w \in NamesOf(e) |-> LastNamed(e, w).value]
  BY DEF ToConfig
<1>5. \A v : Has(server, v) <=>
              \E k \in DOMAIN e : e[k] = v /\ \A l \in k + 1..Len(e) : e[l].name # v.name
  BY DEF Has
<1>6. \A v : v \in Left <=> \E w \in NamesOf(e) : v = [name |-> w, value |-> LastNamed(e, w).value]
  BY <1>4
<1>7. \A v : v \in Right <=> Has(server, v)
  BY <1>5
<1> HIDE DEF e, Left, Right
<1>8. ASSUME NEW v \in Left PROVE v \in Right
  <2>1. PICK w \in NamesOf(e) : v = [name |-> w, value |-> LastNamed(e, w).value]
    BY <1>6
  <2>2. PICK i \in 1..n : /\ LastNamed(e, w) = e[i] /\ e[i].name = w
                          /\ \A j \in 1..n : e[j].name = w => j <= i
    BY <1>3, LastNamedFacts
  <2>3. v = e[i]
    BY <1>3, <2>1, <2>2
  <2>4. \A l \in i + 1..n : e[l].name # w
    BY <2>2
  <2>5. v.name = w
    BY <2>1
  <2>6. QED
    BY <1>2, <1>3, <1>5, <1>7, <2>3, <2>4, <2>5
<1>9. ASSUME NEW v \in Right PROVE v \in Left
  <2>1. PICK k \in 1..n : e[k] = v /\ \A l \in k + 1..n : e[l].name # v.name
    BY <1>2, <1>3, <1>5, <1>7
  <2>2. v.name \in NamesOf(e)
    BY <1>3, <2>1 DEF NamesOf
  <2>3. PICK i \in 1..n : /\ LastNamed(e, v.name) = e[i] /\ e[i].name = v.name
                          /\ \A j \in 1..n : e[j].name = v.name => j <= i
    BY <1>3, <2>2, LastNamedFacts
  <2>4. k <= i /\ ~(i \in k + 1..n)
    BY <2>1, <2>3
  <2>5. i = k
    BY <2>1, <2>3, <2>4
  <2>6. v = [name |-> v.name, value |-> LastNamed(e, v.name).value]
    BY <1>3, <2>1, <2>3, <2>5
  <2>7. QED
    BY <1>6, <2>2, <2>6
<1>10. QED
  BY <1>4, <1>8, <1>9 DEF Left, Right, e

\* The stdio servers that are the last of their name.
LastStdio(servers) ==
  {i \in Stdio(servers, Len(servers)) :
     \A j \in Stdio(servers, Len(servers)) : servers[j].name = servers[i].name => j <= i}

\* The file holds the configuration of the last server of each name.
LEMMA FileHoldsLast ==
  ASSUME NEW servers \in Seq(McpServer), NEW c, c = FromAcpMcpServers(servers)
  PROVE  /\ c = <<>> <=> Stdio(servers, Len(servers)) = {}
         /\ c # <<>> /\ WriteMcpConfigFile(c) # Missing =>
              ReadMcpConfigs(WriteMcpConfigFile(c)) = {ToConfig(servers[i]) : i \in LastStdio(servers)}
<1>1. PICK n \in Nat : n = Len(servers)
  OBVIOUS
<1>2. InOrder(c, servers, n)
  BY <1>1, FromAcpInOrder
<1>3. PICK m \in Nat : \E h \in [1..m -> Stdio(servers, n)] :
        /\ c = [k \in 1..m |-> ToConfig(servers[h[k]])]
        /\ \A k, l \in 1..m : k < l => h[k] < h[l]
        /\ \A j \in Stdio(servers, n) : \E k \in 1..m : h[k] = j
  BY <1>2 DEF InOrder
<1>4. PICK h \in [1..m -> Stdio(servers, n)] :
        /\ c = [k \in 1..m |-> ToConfig(servers[h[k]])]
        /\ \A k, l \in 1..m : k < l => h[k] < h[l]
        /\ \A j \in Stdio(servers, n) : \E k \in 1..m : h[k] = j
  BY <1>3
<1>5. DOMAIN c = 1..m /\ \A k \in 1..m : c[k] = ToConfig(servers[h[k]])
  BY <1>4
<1>6. \A k \in 1..m : h[k] \in Stdio(servers, n) /\ h[k] \in Int
  BY <1>4 DEF Stdio
<1>7. \A j \in 1..n : LET t == ToConfig(servers[j])
                      IN  /\ t = [name |-> t.name, command |-> t.command, env |-> t.env]
                          /\ t.name = servers[j].name
  BY DEF ToConfig
<1>8. c = <<>> <=> Stdio(servers, n) = {}
  <2>1. c = <<>> <=> m = 0
    BY <1>4, <1>5
  <2>2. m = 0 <=> Stdio(servers, n) = {}
    BY <1>4, <1>6
  <2>3. QED
    BY <2>1, <2>2
\* The last configuration of a name is that of the last server of the name.
<1>9. ASSUME NEW k \in 1..m, \A l \in 1..m : c[l].name = c[k].name => l <= k
      PROVE  h[k] \in LastStdio(servers)
  <2> SUFFICES ASSUME NEW j \in Stdio(servers, n), servers[j].name = servers[h[k]].name
               PROVE  j <= h[k]
    BY <1>1, <1>6 DEF LastStdio
  <2>1. PICK l \in 1..m : h[l] = j
    BY <1>4
  <2>2. j \in 1..n /\ h[k] \in 1..n
    BY <1>6 DEF Stdio
  <2>3. c[l].name = c[k].name
    BY <1>5, <1>7, <2>1, <2>2
  <2>4. l <= k
    BY <1>9, <2>3
  <2>5. QED
    BY <1>4, <1>6, <2>1, <2>4
<1>10. ASSUME NEW k \in 1..m, h[k] \in LastStdio(servers)
       PROVE  \A l \in 1..m : c[l].name = c[k].name => l <= k
  <2> SUFFICES ASSUME NEW l \in 1..m, c[l].name = c[k].name PROVE l <= k
    OBVIOUS
  <2>1. h[l] \in 1..n /\ h[k] \in 1..n /\ h[l] \in Stdio(servers, n)
    BY <1>6 DEF Stdio
  <2>2. servers[h[l]].name = servers[h[k]].name
    BY <1>5, <1>7, <2>1
  <2>3. h[l] <= h[k]
    BY <1>1, <1>10, <2>1, <2>2 DEF LastStdio
  <2>4. QED
    BY <1>4, <1>6, <2>3
<1>11. \A w \in NamesOf(c) : \E k \in 1..m :
         /\ LastNamed(c, w) = c[k] /\ c[k].name = w
         /\ \A l \in 1..m : c[l].name = w => l <= k
  BY <1>5, LastNamedFacts
<1> DEFINE file == WriteMcpConfigFile(c)
<1>12. ASSUME c # <<>>, file # Missing
       PROVE  ReadMcpConfigs(file) = {ToConfig(servers[i]) : i \in LastStdio(servers)}
  <2>1. file = [w \in NamesOf(c) |->
                  [command |-> LastNamed(c, w).command, env |-> LastNamed(c, w).env]]
    BY <1>12 DEF WriteMcpConfigFile
  <2>2. ReadMcpConfigs(file)
          = {[name |-> w, command |-> file[w].command, env |-> file[w].env] : w \in DOMAIN file}
    BY <1>12 DEF ReadMcpConfigs
  <2>3. DOMAIN file = NamesOf(c) /\ \A w \in NamesOf(c) :
          file[w].command = LastNamed(c, w).command /\ file[w].env = LastNamed(c, w).env
    BY <2>1
  <2> HIDE DEF file
  <2>4. \A x : x \in ReadMcpConfigs(file) <=>
          \E w \in NamesOf(c) :
            x = [name |-> w, command |-> LastNamed(c, w).command, env |-> LastNamed(c, w).env]
    BY <2>2, <2>3
  <2>5. ASSUME NEW w \in NamesOf(c)
        PROVE  \E i \in LastStdio(servers) :
                 /\ servers[i].name = w
                 /\ ToConfig(servers[i])
                      = [name |-> w, command |-> LastNamed(c, w).command, env |-> LastNamed(c, w).env]
    <3>1. PICK k \in 1..m : /\ LastNamed(c, w) = c[k] /\ c[k].name = w
                            /\ \A l \in 1..m : c[l].name = w => l <= k
      BY <1>11
    <3>2. h[k] \in LastStdio(servers) /\ h[k] \in 1..n
      BY <1>6, <1>9, <3>1 DEF Stdio
    <3>3. c[k] = ToConfig(servers[h[k]])
      BY <1>5
    <3>4. QED
      BY <1>7, <3>1, <3>2, <3>3
  <2>6. ASSUME NEW i \in LastStdio(servers)
        PROVE  \E w \in NamesOf(c) :
                 ToConfig(servers[i])
                   = [name |-> w, command |-> LastNamed(c, w).command, env |-> LastNamed(c, w).env]
    <3>1. i \in Stdio(servers, n) /\ i \in 1..n
      BY <1>1 DEF LastStdio, Stdio
    <3>2. PICK k \in 1..m : h[k] = i
      BY <1>4, <3>1
    <3>3. PICK w : w = c[k].name
      OBVIOUS
    <3>4. w \in NamesOf(c)
      BY <1>5, <3>3 DEF NamesOf
    <3>5. PICK l \in 1..m : /\ LastNamed(c, w) = c[l] /\ c[l].name = w
                            /\ \A j \in 1..m : c[j].name = w => j <= l
      BY <1>11, <3>4
    <3>6. k <= l /\ l <= k
      BY <1>10, <3>2, <3>3, <3>5
    <3>7. l = k
      BY <3>6
    <3>8. c[k] = ToConfig(servers[i])
      BY <1>5, <3>2
    <3>9. QED
      BY <1>7, <3>1, <3>3, <3>4, <3>5, <3>7, <3>8
  <2>7. ReadMcpConfigs(file) \subseteq {ToConfig(servers[i]) : i \in LastStdio(servers)}
    <3> SUFFICES ASSUME NEW x \in ReadMcpConfigs(file)
                 PROVE  \E i \in LastStdio(servers) : x = ToConfig(servers[i])
      OBVIOUS
    <3>1. PICK w \in NamesOf(c) :
            x = [name |-> w, command |-> LastNamed(c, w).command, env |-> LastNamed(c, w).env]
      BY <2>4
    <3>2. QED
      BY <2>5, <3>1
  <2>8. ASSUME NEW i \in LastStdio(servers) PROVE ToConfig(servers[i]) \in ReadMcpConfigs(file)
    BY <2>4, <2>6
  <2>9. QED
    BY <2>7, <2>8
<1>13. QED
  BY <1>1, <1>8, <1>12 DEF file

\* What the container is given for a list of servers.
Delivered(servers, given) ==
  LET stdio == Stdio(servers, Len(servers))
      last == LastStdio(servers)
  IN  IF stdio = {} THEN given = Missing
      ELSE /\ \A i \in last : \E c \in given :
                /\ c.name = servers[i].name /\ c.command = servers[i].command
                /\ {[name |-> w, value |-> c.env[w]] : w \in DOMAIN c.env}
                     = {v \in {servers[i].env[k] : k \in DOMAIN servers[i].env} : Has(servers[i], v)}
           /\ \A c, d \in given : c.name = d.name => c = d
           /\ {c.name : c \in given} = {servers[i].name : i \in last}

LEMMA ServersDelivered ==
  ASSUME NEW r \in Requests, NEW file, NEW given,
         file = WriteMcpConfigFile(FromAcpMcpServers(r.servers)),
         given = BuildMcpEnvVars(ReadMcpConfigs(file))
  PROVE  Delivered(r.servers, given)
<1> DEFINE servers == r.servers
           c == FromAcpMcpServers(servers)
           last == LastStdio(servers)
<1>1. /\ servers \in Seq(McpServer)
      /\ c # <<>> => file # Missing /\ ReadMcpConfigs(file) # Missing
  BY FolderAssumption
<1>2. /\ c = <<>> <=> Stdio(servers, Len(servers)) = {}
      /\ c # <<>> => ReadMcpConfigs(file) = {ToConfig(servers[i]) : i \in last}
  <2>1. c = FromAcpMcpServers(servers) /\ file = WriteMcpConfigFile(c) /\ last = LastStdio(servers)
    OBVIOUS
  <2> HIDE DEF c, servers, last
  <2>2. QED
    BY <1>1, <2>1, FileHoldsLast
<1>3. \A i \in last : i \in DOMAIN servers /\ servers[i] \in McpServer
  BY <1>1 DEF LastStdio, Stdio
<1>4. CASE c = <<>>
  <2>1. file = Missing
    BY <1>4 DEF WriteMcpConfigFile
  <2>2. given = Missing
    BY <2>1 DEF ReadMcpConfigs, BuildMcpEnvVars
  <2>3. QED
    BY <1>2, <1>4, <2>2 DEF Delivered
<1>5. CASE c # <<>>
  <2>1. last # {}
    <3>1. PICK n \in Nat : n = Len(servers)
      BY <1>1
    <3>2. Stdio(servers, n) # {} /\ Stdio(servers, n) \subseteq 1..n
      BY <1>2, <1>5, <3>1 DEF Stdio
    <3>3. PICK i \in Stdio(servers, n) : \A j \in Stdio(servers, n) : j <= i
      BY <3>2, GreatestNumber
    <3>4. QED
      BY <3>1, <3>3 DEF LastStdio
  <2>2. given = {ToConfig(servers[i]) : i \in last}
    BY <1>2, <1>5, <2>1 DEF BuildMcpEnvVars
  <2> HIDE DEF c, servers, last
  <2>3. ASSUME NEW i \in last
        PROVE  \E d \in given :
                 /\ d.name = servers[i].name /\ d.command = servers[i].command
                 /\ {[name |-> w, value |-> d.env[w]] : w \in DOMAIN d.env}
                      = {v \in {servers[i].env[k] : k \in DOMAIN servers[i].env} : Has(servers[i], v)}
    <3>1. PICK d : d = ToConfig(servers[i])
      OBVIOUS
    <3>2. d \in given
      BY <2>2, <3>1
    <3>3. QED
      BY <1>3, <3>1, <3>2, ToConfigFacts
  <2>4. \A i \in last : ToConfig(servers[i]).name = servers[i].name
    BY DEF ToConfig
  <2>5. \A i, j \in last : servers[i].name = servers[j].name => i = j
    BY DEF last, LastStdio, Stdio
  <2>6. \A d, e \in given : d.name = e.name => d = e
    BY <2>2, <2>4, <2>5
  <2>7. {d.name : d \in given} = {servers[i].name : i \in last}
    BY <2>2, <2>4
  <2>8. Stdio(servers, Len(servers)) # {}
    BY <1>2, <1>5
  <2>9. Delivered(servers, given)
    BY <2>3, <2>6, <2>7, <2>8 DEF Delivered, last
  <2>10. QED
    BY <2>9 DEF servers
<1>6. QED
  BY <1>4, <1>5

\* The file has the request's servers until the container is started, and the
\* container those of the file: nothing writes .mcp.json in between.
McpInv ==
  /\ phase \in {"created", "running"} =>
       request \in Requests /\ mcpJson = WriteMcpConfigFile(FromAcpMcpServers(request.servers))
  /\ phase = "running" => env = BuildMcpEnvVars(ReadMcpConfigs(mcpJson))

\* The container gets exactly the stdio servers of the request, the last one of
\* a name with the last value of each variable, for lists of any length
\* (fromAcpMcpServers, writeMcpConfigFile, readMcpConfigs, buildMcpEnvVars).
THEOREM ServersReachContainer == Spec => []McpDelivered
<1>1. Init => McpInv
  BY DEF Init, McpInv
<1>2. McpInv /\ [Next]_vars => McpInv'
  <2> SUFFICES ASSUME McpInv, [Next]_vars PROVE McpInv'
    OBVIOUS
  <2> USE DEF McpInv
  <2>1. ASSUME NEW r \in Requests, Create(r) \/ CreateThrows(r) PROVE McpInv'
    BY <2>1 DEF Create, CreateThrows
  <2>2. CASE StartContainer
    BY <2>2 DEF StartContainer
  <2>3. ASSUME UNCHANGED <<phase, request, mcpJson, env>> PROVE McpInv'
    BY <2>3
  <2>4. QED
    BY <2>1, <2>2, <2>3 DEF Next, vars, SetMode, WriteClaude, WriteFails, AgentInserts,
                            AgentRemoves, AgentDeletes
<1>3. McpInv => McpDelivered
  <2> SUFFICES ASSUME McpInv, phase = "running" PROVE McpDelivered
    BY DEF McpDelivered
  <2>1. Delivered(request.servers, env)
    BY ServersDelivered DEF McpInv
  <2>2. request.servers \in Seq(McpServer)
    BY FolderAssumption DEF McpInv
  <2>3. {i \in DOMAIN request.servers : request.servers[i].type = "stdio"}
          = Stdio(request.servers, Len(request.servers))
    BY <2>2 DEF Stdio
  <2>4. QED
    BY <2>1, <2>3 DEF McpDelivered, Delivered, LastStdio, Has
<1>4. QED
  BY <1>1, <1>2, <1>3, PTL DEF Spec
=============================================================================
