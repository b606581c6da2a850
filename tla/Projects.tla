------------------------------ MODULE Projects ------------------------------
(***************************************************************************)
(* Creating and deleting projects while trunk moves.  A request plans at   *)
(* one trunk tip and commits on the tip it finds then; what it leaves is   *)
(* an open Change, which lands by a three-way merge whenever it lands.     *)
(* Other Changes land in between, and the author of a local `project       *)
(* create` may have work in the tree.                                      *)
(***************************************************************************)
EXTENDS ProjectPlans

CONSTANT Scenes       \* the cases: a tree, the requests, the other Changes

VARIABLES scene,
          tip,         \* the tree of trunk
          jobs,        \* the requests in flight
          drafts,      \* the open Changes they left
          landings,    \* other people's Changes that have landed
          excuses      \* history: what happened that the code lets happen

projectVars == <<scene, tip, jobs, drafts, landings, excuses>>

NoPlan == [kind |-> "none"]

ProjectInit ==
    /\ scene \in Scenes
    /\ tip = scene.tree
    /\ jobs = [j \in DOMAIN scene.asks |-> [at |-> "plan", plan |-> NoPlan, seen |-> scene.tree]]
    /\ drafts = {} /\ landings = {} /\ excuses = {}

-----------------------------------------------------------------------------
\* previewProjectCore, previewDeleteProjectCore: refused, or planned.
PreviewRefused(ask) ==
    IF ask.kind = "create" THEN Validate(ask.intent) # {} \/ NameOrPathTaken(ask.intent, tip)
    ELSE ask.agent \/ DeleteRefused(ask.name, tip)

PreviewCore(j) ==
    /\ jobs[j].at = "plan"
    /\ LET ask == scene.asks[j]
       IN  IF PreviewRefused(ask) THEN jobs' = [jobs EXCEPT ![j].at = "done"]
           ELSE jobs' = [jobs EXCEPT ![j] =
                    [at |-> "apply", seen |-> tip,
                     plan |-> IF ask.kind = "create" THEN PlanCreate(ask.intent)
                              ELSE PlanDelete(ask.name, tip)]]
    /\ UNCHANGED <<scene, tip, drafts, landings, excuses>>

\* createProjectCore, deleteProjectCore: the base is resolved only now.
Draft(j, head) ==
    drafts' = drafts \cup {[plan |-> jobs[j].plan, seen |-> jobs[j].seen, base |-> tip, head |-> head]}

CreateProjectCore(j) ==
    /\ jobs[j].at = "apply" /\ jobs[j].plan.kind = "create"
    /\ Draft(j, Apply(jobs[j].plan, tip))
    /\ jobs' = [jobs EXCEPT ![j].at = "done"]
    /\ UNCHANGED <<scene, tip, landings, excuses>>

DeleteProjectCore(j) ==
    /\ jobs[j].at = "apply" /\ jobs[j].plan.kind = "delete"
    /\ Draft(j, ApplyDelete(jobs[j].plan, tip))
    /\ jobs' = [jobs EXCEPT ![j].at = "done"]
    /\ UNCHANGED <<scene, tip, landings, excuses>>

-----------------------------------------------------------------------------
(* git's three-way merge of a Change's tree onto trunk, file by file and,   *)
(* within a manifest that both sides keep, list by list.                    *)
Clashing(b, h, t) == h # b /\ t # b /\ h # t
Pick(b, h, t) == IF h = b THEN t ELSE h

FilesNamed(node, n) == {f \in node.files : f.name = n}
FileNames(b, h, t) == {f.name : f \in b.files \cup h.files \cup t.files}

ManifestsClash(b, h, t) ==
    /\ Clashing(b, h, t)
    /\ \/ "" \in {b.name, h.name, t.name}
       \/ \E k \in DOMAIN b : Clashing(b[k], h[k], t[k])

Conflicts(d, b, h, t) ==
    \/ ManifestsClash(b[d].manifest, h[d].manifest, t[d].manifest)
    \/ Clashing(b[d].ownersFile, h[d].ownersFile, t[d].ownersFile)
    \/ \E n \in FileNames(b[d], h[d], t[d]) :
           Clashing(FilesNamed(b[d], n), FilesNamed(h[d], n), FilesNamed(t[d], n))

Merged(d, b, h, t) ==
    [manifest |-> IF Clashing(b[d].manifest, h[d].manifest, t[d].manifest)
                  THEN [k \in DOMAIN NoManifest |->
                            Pick(b[d].manifest[k], h[d].manifest[k], t[d].manifest[k])]
                  ELSE Pick(b[d].manifest, h[d].manifest, t[d].manifest),
     files |-> UNION {Pick(FilesNamed(b[d], n), FilesNamed(h[d], n), FilesNamed(t[d], n)) :
                          n \in FileNames(b[d], h[d], t[d])},
     ownersFile |-> Pick(b[d].ownersFile, h[d].ownersFile, t[d].ownersFile)]

\* edges to a name: <<project's directory, list>>
EdgesTo(name, tree) ==
    {<<d, k>> \in ProjectDirs(tree) \X {"deps", "tests", "consumes"} : name \in tree[d].manifest[k]}

Nested(plan) ==
    {plan.gone[d].manifest.name : d \in {e \in DOMAIN plan.gone :
        e # plan.path /\ plan.gone[e].manifest.name # ""}}

\* what the landing of a draft may do beside what its plan is for
ExcusesOf(d) ==
    (IF d.seen # d.base THEN {<<"planned on an older tip", d.plan.name>>} ELSE {})
    \cup (IF d.plan.kind = "create"
          THEN (IF d.plan.name \in NamesIn(tip) \ NamesIn(d.seen) THEN {<<"twin", d.plan.name>>} ELSE {})
               \cup {<<"written over", f.name>> : f \in {g \in tip[d.plan.path].files :
                        g.by # "plan" /\ \E w \in d.plan.files : w.name = g.name}}
          ELSE {<<"nested", n>> : n \in Nested(d.plan)}
               \cup {<<"deleted", dir>> : dir \in {e \in Dirs : Under(e, d.plan.path)}}
               \cup (IF \E e \in EdgesTo(d.plan.name, tip) : e[2] = "tests"
                     THEN {<<"needed by tests", d.plan.name>>} ELSE {})
               \cup (IF EdgesTo(d.plan.name, tip) \subseteq EdgesTo(d.plan.name, d.seen)
                     THEN {} ELSE {<<"edge since the plan", d.plan.name>>}))

LandDraft(d) ==
    /\ \A dir \in Dirs : ~Conflicts(dir, d.base, d.head, tip)
    /\ tip' = [dir \in Dirs |-> Merged(dir, d.base, d.head, tip)]
    /\ drafts' = drafts \ {d}
    /\ excuses' = excuses \cup ExcusesOf(d)
    /\ UNCHANGED <<scene, jobs, landings>>

(* Other Changes: an edge to a project of the tip, or a file of one.        *)
EditApplies(e) == e.kind = "edge" => e.dir \in ProjectDirs(tip) /\ e.to \in NamesIn(tip)
WithEdit(e, tree) ==
    IF e.kind = "edge" THEN [tree EXCEPT ![e.dir].manifest[e.list] = @ \cup {e.to}]
    ELSE [tree EXCEPT ![e.dir].files = Overlay(@, {File(e.file, "hand")})]

PushLands(e) ==
    /\ e \notin landings /\ EditApplies(e)
    /\ CheckOpenAPI(WithEdit(e, tip), {e.dir}) = {}
    /\ tip' = WithEdit(e, tip) /\ landings' = landings \cup {e}
    /\ UNCHANGED <<scene, jobs, drafts, excuses>>

ProjectNext ==
    \/ \E j \in DOMAIN jobs : PreviewCore(j) \/ CreateProjectCore(j) \/ DeleteProjectCore(j)
    \/ \E d \in drafts : LandDraft(d)
    \/ \E e \in scene.edits : PushLands(e)

-----------------------------------------------------------------------------
Excused(why, what) == <<why, what>> \in excuses

(* "No dangling edge survives" (delete.go:14, deleteproject.go:5): an edge  *)
(* of trunk's manifests leads to a project of trunk, whatever lands when.   *)
(* What is left: edges of tests, which StripEdge does not know; edges to    *)
(* projects inside the deleted one; and edges that landed after the plan.   *)
NoDanglingEdges ==
    \A d \in ProjectDirs(tip) : \A n \in tip[d].manifest.deps \cup tip[d].manifest.tests
                                        \cup tip[d].manifest.consumes :
        \/ n \in NamesIn(tip)
        \/ \E w \in {"needed by tests", "nested", "edge since the plan"} : Excused(w, n)

(* What others landed stays: a project request that lands takes back no     *)
(* edge and no file of anyone else, except with the project it deletes or,  *)
(* when trunk moved between its plan and its commit, with the manifests it  *)
(* rewrites from the older tip; and a create writes over files that were    *)
(* in its directory before (createproject.go, deleteproject.go).            *)
Holds(e, tree) ==
    IF e.kind = "edge" THEN e.to \in tree[e.dir].manifest[e.list]
    ELSE File(e.file, "hand") \in tree[e.dir].files
LandingsKept ==
    \A e \in landings :
        \/ Holds(e, tip)
        \/ Excused("deleted", e.dir)
        \/ e.kind = "edge" /\ e.to \notin NamesIn(tip)
        \/ \E x \in excuses : x[1] = "planned on an older tip"
        \/ e.kind = "file" /\ Excused("written over", e.file)

(* A name stands for one project: two projects share one only if the        *)
(* second was planned before the first had landed, in another directory -   *)
(* which no merge conflict stops (createproject.go:30-32).                  *)
NamesUnique ==
    \A n \in NamesIn(tip) : Cardinality(Named(tip, n)) > 1 => Excused("twin", n)

(* What a create commits is what the tools downstream accept: a project     *)
(* with the build capability has the BUILD file it promises and no other    *)
(* has, a vite project has its package.json, and the funnel would not       *)
(* refuse the manifest - unless the intent itself names http or rpc without *)
(* asking for the API (plan.go, build.go, contract/check.go).               *)
CreatedIsAccepted ==
    \A d \in {e \in drafts : e.plan.kind = "create"} :
        LET node == d.head[d.plan.path]
            ask  == CHOOSE i \in {scene.asks[j].intent : j \in
                        {k \in DOMAIN scene.asks : scene.asks[k].kind = "create"}} :
                            i.name = d.plan.name /\ i.path = d.plan.path
        IN  /\ File("BUILD.bazel", "plan") \in node.files <=> "build" \in node.manifest.caps
            /\ File("package.json", "plan") \in node.files <=> EngineOf(ask) = "vite"
            /\ "build" \in node.manifest.caps => EngineOf(ask) = "bazel"
            /\ "rpc" \in node.manifest.caps =>
                   HasFile(node, "proto") \/ (ask.caps # Default /\ "rpc" \in ask.caps)
            /\ CheckOpenAPI(d.head, {d.plan.path}) = {} \/ (ask.caps # Default /\ "http" \in ask.caps)

(* A workspace of any project can build what its checks build: the cone is  *)
(* closed under the edges of everything in it (workspace.go:160-238).       *)
ConeBuilds ==
    LET index == Scan(tip)
    IN  \A p \in index :
            LET cone == ConeClosure({p.name}, {p.path}, index)
                inCone == {q \in index : q.name = p.name \/
                              \E r \in index : <<r.path, "">> \in cone /\ r.path # Root
                                    /\ q.name = r.name /\ r.name \in Reached(index, {p.name})}
            IN  \A q \in inCone : \A r \in index :
                    /\ r.name \in q.deps \cup q.tests => r.path = Root \/ <<r.path, "">> \in cone
                    /\ r.name \in q.consumes => r.surfaces \ {<<Root, "">>} \subseteq cone

(* The index trunk carries stays sound over creates, deletes and whatever      *)
(* lands beside them, the named excuses apart.                                 *)
ProjectsSound == /\ NoDanglingEdges /\ LandingsKept /\ NamesUnique
                 /\ CreatedIsAccepted /\ ConeBuilds
=============================================================================
