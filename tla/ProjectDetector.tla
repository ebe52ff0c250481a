-------------------------- MODULE ProjectDetector --------------------------
(***************************************************************************)
(* What the root directory of a project says about it                      *)
(* (project-detector.ts).  A directory is the set of its files and, if it  *)
(* has a package.json, what that file holds: the names of all dependencies *)
(* and the name in its packageManager field.                               *)
(***************************************************************************)
EXTENDS Integers, Sequences

CONSTANT Null  \* no such signal

Languages == {"javascript", "typescript", "rust", "go", "python", "java"}
Tools ==
  {"next", "nuxt", "angular", "svelte", "vue", "react", "express", "fastify", "hono", "koa",
   "vitest", "jest", "mocha", "ava", "tap", "cargo test", "go test",
   "pnpm", "yarn", "npm", "bun", "maven", "gradle"}

ProjectSignals ==
  [language : Languages, framework : Tools \cup {Null},
   testRunner : Tools \cup {Null}, packageManager : Tools \cup {Null}]

ASSUME NullAssumption == Null \notin Tools \cup ProjectSignals

\* The answer of the first row one of whose names is there.
FirstMatch(table, names) ==
  LET rows == {i \in DOMAIN table : table[i].any \cap names # {}}
  IN  IF rows = {} THEN Null
      ELSE table[CHOOSE i \in rows : \A j \in rows : i <= j].says

Row(any, says) == [any |-> any, says |-> says]
NamedBy(names) == [i \in DOMAIN names |-> Row({names[i]}, names[i])]

DetectFramework(deps) ==
  FirstMatch(NamedBy(<<"next", "nuxt">>)
               \o <<Row({"@angular/core"}, "angular"), Row({"svelte", "@sveltejs/kit"}, "svelte")>>
               \o NamedBy(<<"vue", "react", "express", "fastify", "hono", "koa">>), deps)

DetectTestRunner(deps) ==
  FirstMatch(NamedBy(<<"vitest", "jest", "mocha", "ava", "tap">>), deps)

LockFiles ==
  <<Row({"bun.lockb", "bun.lock"}, "bun"), Row({"pnpm-lock.yaml"}, "pnpm"),
    Row({"yarn.lock"}, "yarn"), Row({"package-lock.json"}, "npm")>>

\* Plausible bug: a field that names another tool hides the lock files.
DetectPackageManager_FieldOnly(dir) ==
  IF dir.manager \in {"pnpm", "yarn", "npm", "bun"} THEN dir.manager
  ELSE IF dir.manager # "" THEN Null
  ELSE FirstMatch(LockFiles, dir.files)

\* The field, if it names a known tool (it is "" when there is none).
DetectPackageManager(dir) ==
  IF dir.manager \in {"pnpm", "yarn", "npm", "bun"} THEN dir.manager
  ELSE FirstMatch(LockFiles, dir.files)

Signals(language, framework, testRunner, packageManager) ==
  [language |-> language, framework |-> framework,
   testRunner |-> testRunner, packageManager |-> packageManager]

DetectNode(dir) ==
  IF ~dir.readable THEN Signals("javascript", Null, Null, Null)
  ELSE Signals(IF "typescript" \in dir.deps \/ "tsconfig.json" \in dir.files
               THEN "typescript" ELSE "javascript",
               DetectFramework(dir.deps), DetectTestRunner(dir.deps), DetectPackageManager(dir))

OtherProjects ==
  <<Row({"Cargo.toml"}, Signals("rust", Null, "cargo test", Null)),
    Row({"go.mod"}, Signals("go", Null, "go test", Null)),
    Row({"pyproject.toml", "requirements.txt"}, Signals("python", Null, Null, Null)),
    Row({"pom.xml"}, Signals("java", Null, Null, "maven")),
    Row({"build.gradle", "build.gradle.kts"}, Signals("java", Null, Null, "gradle"))>>

DetectProjectType(dir) ==
  IF "package.json" \in dir.files THEN DetectNode(dir)
  ELSE FirstMatch(OtherProjects, dir.files)
=============================================================================
