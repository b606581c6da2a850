---------------------------- MODULE ProjectPlans ----------------------------
(***************************************************************************)
(* Projects as the tree holds them: what Scan reads out of it, what        *)
(* PlanCreate and PlanDelete would write to it, what the receive funnel    *)
(* refuses of it and what a workspace of it materializes.                  *)
(*                                                                         *)
(* Data.  A tree gives every directory a manifest (or none), its files and *)
(* its OWNERS file.  A file is a name and who wrote it, the plan or a      *)
(* hand.  Of a manifest the model keeps the name, the capabilities, the    *)
(* owners and the three edge lists, as sets.                               *)
(***************************************************************************)
EXTENDS Naturals, Sequences, SequencesExt, FiniteSets, TLC

CONSTANTS DirOrder,    \* the directories in the order of Scan's walk
          Above        \* the directories above each, itself included

Root == ""
Dirs == Range(DirOrder)

Under(d, root) == root \in Above[d]

NoManifest == [name |-> "", caps |-> {}, owners |-> {}, deps |-> {}, tests |-> {}, consumes |-> {}]
NewManifest(name, caps, owners) ==
    [NoManifest EXCEPT !.name = name, !.caps = caps, !.owners = owners]
NoDir == [manifest |-> NoManifest, files |-> {}, ownersFile |-> {}]

File(name, by) == [name |-> name, by |-> by]
HasFile(node, name) == \E f \in node.files : f.name = name
Overlay(files, new) ==
    new \cup {f \in files : \A g \in new : g.name # f.name}

-----------------------------------------------------------------------------
(* The index.                                                               *)
ProjectDirs(tree) == {d \in Dirs : tree[d].manifest.name # ""}
Named(tree, name) == {d \in ProjectDirs(tree) : tree[d].manifest.name = name}
NamesIn(tree) == {tree[d].manifest.name : d \in ProjectDirs(tree)}
LastOf(dirs) == CHOOSE d \in dirs : \A e \in dirs :
    \E i, j \in 1 .. Len(DirOrder) : DirOrder[i] = e /\ DirOrder[j] = d /\ i <= j

\* The owners of the manifest, or of the nearest OWNERS file that names any.
ResolveOwners(tree, dir) ==
    LET holders == {d \in Dirs : Under(dir, d) /\ tree[d].ownersFile # {}}
    IN  CASE tree[dir].manifest.owners # {} -> tree[dir].manifest.owners
          [] holders # {} -> tree[CHOOSE d \in holders : \A e \in holders : Under(d, e)].ownersFile
          [] OTHER -> {}

LoadProject(tree, dir) ==
    LET mf == tree[dir].manifest
    IN  [name |-> mf.name, path |-> dir, deps |-> mf.deps, tests |-> mf.tests,
         consumes |-> mf.consumes, owners |-> ResolveOwners(tree, dir), caps |-> mf.caps,
         surfaces |-> (IF "rpc" \in mf.caps THEN {<<dir, "proto">>} ELSE {})
                      \cup (IF "http" \in mf.caps THEN {<<dir, "">>} ELSE {}),
         openAPIPresent |-> "http" \in mf.caps /\ HasFile(tree[dir], "openapi.yaml")]

Scan(tree) == {LoadProject(tree, d) : d \in ProjectDirs(tree)}

\* A push may not touch a manifest that promises an OpenAPI document that the
\* tree does not hold.
CheckOpenAPI(tree, touched) ==
    {p.name : p \in {q \in Scan(tree) :
        "http" \in q.caps /\ ~q.openAPIPresent /\ q.path \in touched}}

-----------------------------------------------------------------------------
(* Creating. An intent leaves a field out with "" and its capabilities with *)
(* Default.                                                                 *)
Default == {"default"}
BuiltinLangs == {"go", "python", "ts"}
Capabilities == {"rpc", "http", "deploy", "data_store", "build", "release"}
TemplateTypes == {"library", "service", "app", "job", "other"}

\* Every template defaults to the build capability; Get finds <type>-<lang>.
TemplateOf(i) ==
    CASE i.noTemplate -> [lang |-> "", source |-> FALSE]
      [] i.template # "" -> [lang |-> i.template, source |-> TRUE]
      [] OTHER -> [lang |-> IF i.language = "" THEN "go" ELSE i.language,
                   source |-> i.type # "other"]

Validate(i) ==
    {e \in {"name", "type", "capabilities", "language", "template", "engine", "api"} :
        CASE e = "name" -> i.name = ""
          [] e = "type" -> i.type \notin TemplateTypes
          [] e = "capabilities" -> i.caps # Default /\ ~(i.caps \subseteq Capabilities)
          [] e = "language" -> i.language # "" /\ ~i.noTemplate /\ i.language \notin BuiltinLangs
          [] e = "template" -> \/ i.noTemplate /\ i.template # ""
                               \/ /\ i.template # ""
                                  /\ \/ i.template \notin BuiltinLangs
                                     \/ i.language \notin {"", i.template}
          [] e = "engine" -> \/ i.engine \notin {"", "bazel", "vite", "none"}
                             \/ i.engine \in {"vite", "none"} /\ i.caps # Default /\ "build" \in i.caps
          [] e = "api" -> \/ i.api \notin {"", "grpc", "rest", "none"}
                          \/ i.type = "service" /\ i.api = ""
                          \/ i.api \in {"grpc", "rest"} /\ i.type \notin {"service", "app"}}

EngineOf(i) ==
    CASE i.engine # "" -> i.engine
      [] i.caps # Default /\ "build" \in i.caps -> "bazel"
      [] TemplateOf(i).lang = "ts" /\ ~i.noTemplate -> "vite"
      [] OTHER -> "bazel"

\* mutant: a vite project keeps the template's build capability
KeepsBuild(i) ==
    LET base == IF i.caps = Default THEN {"build"} ELSE i.caps
    IN  (IF i.engine = "bazel" THEN base \cup {"build"} ELSE base)
        \cup (IF i.api = "grpc" THEN {"rpc"} ELSE {}) \cup (IF i.api = "rest" THEN {"http"} ELSE {})

PlannedCapabilities(i) ==
    LET base == IF i.caps = Default THEN {"build"} ELSE i.caps
        built == IF EngineOf(i) # "bazel" THEN base \ {"build"}
                 ELSE IF i.engine = "bazel" THEN base \cup {"build"} ELSE base
    IN  built \cup (IF i.api = "grpc" THEN {"rpc"} ELSE {})
              \cup (IF i.api = "rest" THEN {"http"} ELSE {})

TemplateFiles(i) == {"README.md"} \cup (IF TemplateOf(i).source THEN {"main"} ELSE {})
BuildCapabilityFiles == {"BUILD.bazel"}
ViteScaffoldFiles == {"package.json", "vite.config.ts"}
ApiScaffoldFiles(i) ==
    CASE i.api = "grpc" -> {"proto"}
      [] i.api = "rest" -> {"openapi.yaml"}
      [] OTHER -> {}

PlanCreate(i) ==
    [kind |-> "create", name |-> i.name, path |-> i.path,
     manifest |-> NewManifest(i.name, PlannedCapabilities(i), i.owners),
     files |-> {File(n, "plan") : n \in
        TemplateFiles(i) \cup ApiScaffoldFiles(i)
        \cup (IF "build" \in PlannedCapabilities(i) THEN BuildCapabilityFiles ELSE {})
        \cup (IF EngineOf(i) = "vite" THEN ViteScaffoldFiles ELSE {})}]

\* mutant: only the directory is looked at
PathTaken(i, tree) == i.path \in ProjectDirs(tree)

NameOrPathTaken(i, tree) == i.name \in NamesIn(tree) \/ i.path \in ProjectDirs(tree)

Apply(plan, tree) ==
    [tree EXCEPT ![plan.path].manifest = plan.manifest,
                 ![plan.path].files = Overlay(@, plan.files)]

-----------------------------------------------------------------------------
(* Deleting.                                                                *)
\* mutant: the name is dropped from the build dependencies alone
StripsOne(mf, name) == [mf EXCEPT !.deps = @ \ {name}]

\* the lists under dependencies: and consumes:, not the one of the tests
StripEdge(mf, name) == [mf EXCEPT !.deps = @ \ {name}, !.consumes = @ \ {name}]

\* mutant: every directory but the root
ListsAll(tree, root) == [d \in Dirs \ {Root} |-> tree[d]]

ListSubtree(tree, root) == [d \in {e \in Dirs : Under(e, root)} |-> tree[d]]

\* The subtree of the last project of that name, and the manifests to write.
PlanDelete(name, tree) ==
    LET target == LastOf(Named(tree, name))
        others == {d \in ProjectDirs(tree) \ Named(tree, name) :
                      StripEdge(tree[d].manifest, name) # tree[d].manifest}
    IN  [kind |-> "delete", name |-> name, path |-> target,
         gone |-> ListSubtree(tree, target),
         strips |-> [d \in others |-> StripEdge(tree[d].manifest, name)]]

DeleteRefused(name, tree) ==
    Named(tree, name) = {} \/ \E d \in Named(tree, name) : d = Root

\* the overlay on whatever tip it is applied to
ApplyDelete(plan, tree) ==
    [d \in Dirs |->
        LET node == tree[d]
            left == IF d \in DOMAIN plan.gone
                    THEN [manifest |-> IF plan.gone[d].manifest.name # "" THEN NoManifest
                                       ELSE node.manifest,
                          files |-> {f \in node.files : ~HasFile(plan.gone[d], f.name)},
                          ownersFile |-> IF plan.gone[d].ownersFile # {} THEN {}
                                         ELSE node.ownersFile]
                    ELSE node
        IN  IF d \in DOMAIN plan.strips THEN [left EXCEPT !.manifest = plan.strips[d]] ELSE left]

-----------------------------------------------------------------------------
(* The read cone of a workspace.                                            *)
\* mutant: what only the checks need is not materialized
ShippedEdges(p) == p.deps

BuildEdges(p) == p.deps \cup p.tests

\* The names reached, by the breadth-first walk of the queue.
Reached(index, affinity) ==
    LET names == {p.name : p \in index}
        level[n \in 0 .. Cardinality(names)] ==
            IF n = 0 THEN affinity
            ELSE level[n - 1] \cup UNION {BuildEdges(p) : p \in {q \in index : q.name \in level[n - 1]}}
    IN  level[Cardinality(names)]

ConeClosure(affinity, allowlist, index) ==
    LET reached == {p \in index : p.name \in Reached(index, affinity)}
        provided == {p \in index : \E q \in reached : p.name \in q.consumes}
    IN  {<<d, "">> : d \in allowlist}
        \cup {<<p.path, "">> : p \in {q \in reached : q.path # Root}}
        \cup {s \in UNION {p.surfaces : p \in provided} : s # <<Root, "">>}
=============================================================================
