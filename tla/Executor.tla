------------------------------ MODULE Executor ------------------------------
(***************************************************************************)
(* runko-ci in a CI job: the audit of the manifests against the build      *)
(* files (deps), the check matrix (checks), the images and the binaries to *)
(* build resolved from the checkout, each check run through test-impacted, *)
(* and what the merge gate and the deploy record make of the same head.    *)
(*                                                                         *)
(* Data.  A project has one library and one test target.  A build file     *)
(* uses another project's library for its own library or for its test, and *)
(* a manifest declares the project as a dependency, a test dependency or a *)
(* consumed contract, or not at all.  A command is the set of projects     *)
(* whose tests it runs.  The build tools are external: what they answer is *)
(* right, or an error.                                                     *)
(***************************************************************************)
EXTENDS Dispatch

CONSTANTS Members,      \* the projects of the tree
          CIJobs        \* the jobs: a tree, a change and the flags of runko-ci

ASSUME ExecutorAssumption ==
    \A j \in CIJobs :
        /\ j.uses \in [lib : SUBSET (Members \X Members), test : SUBSET (Members \X Members)]
        /\ \A kind \in {"dep", "test", "consumes"} :
               j.declares[kind] \subseteq Members \X Members
        /\ j.touched \cup j.moved \cup j.absent \cup DOMAIN j.owns \subseteq Members
        /\ j.escalates \in {"none", "refinable", "blunt"}
        /\ {j.engine, j.postLand, j.orphans} \subseteq BOOLEAN
        /\ \A p \in Members : \A c \in j.checks[p] :
               c.when \in {"affected", "direct", "post_land"} /\ c.command \subseteq Members

VARIABLES job,          \* the job that runs
          step,         \* the verb of runko-ci that is next
          audit,        \* what deps said: "none", "clean" or "undeclared"
          answer,       \* affectedRefined: [everything, projects, direct]
          matrix,       \* the checks to run, {} before and after a refusal
          passedTests,  \* the tests that ran and passed
          reported,     \* the names reported as passed
          built,        \* the images built, with their configuration
          published,    \* the binaries released
          gaps          \* what the job could not see, by name

executorVars ==
    <<job, step, audit, answer, matrix, passedTests, reported, built, published, gaps>>

-----------------------------------------------------------------------------
(* The tree.                                                                *)

\* Everyone who reaches one of s along the edges.
UpTo(s, edges) ==
    {p \in Members : \A t \in SUBSET Members :
        s \subseteq t /\ (\A e \in edges : e[2] \in t => e[1] \in t) => p \in t}

\* What changes as far as the build graph sees: the libraries built from what
\* changed (a refinable path, go.mod say, moves some), the tests of those and the
\* tests that use one of them.
GraphLibs == UpTo(job.touched \cup {p \in job.moved : job.escalates = "refinable"}, job.uses.lib)
GraphTests == GraphLibs \cup {e[1] : e \in {u \in job.uses.test : u[2] \in GraphLibs}}

\* The tests that can break: all, after a change that the graph does not see.
ChangedTests == IF job.escalates = "blunt" THEN Members ELSE GraphTests

Declared(e) == \E kind \in {"dep", "test", "consumes"} : e \in job.declares[kind]

\* A library edge that affected computation does not follow, although the audit
\* is content with it.
Faint(e) == Declared(e) /\ e \notin job.declares.dep
FaintEdges == {e \in job.uses.lib : Faint(e)}
              \cup {e \in job.uses.test : Faint(e) /\ e \notin job.declares.test}

-----------------------------------------------------------------------------
(* deps.                                                                    *)

\* scanTree and addUnmaterialized: what is on disk, and from HEAD what the index
\* knows and the disk lacks, except what git does not give.
Scanned(unread) == (Members \ job.absent) \cup (job.absent \ unread)

\* Mutant: what is not on disk is not looked at.
OnDiskOnly(unread) ==
    {e \in job.uses.lib \cup job.uses.test : e[1] \notin job.absent /\ ~Declared(e)}

\* CheckBuildLabels: the edges no manifest declares directly.  The owner of a
\* file or label whose manifest was not seen is not known.
CheckBuildLabels(unread) ==
    {e \in job.uses.lib \cup job.uses.test :
        {e[1], e[2]} \subseteq Scanned(unread) /\ ~Declared(e)}

Deps(unread) ==
    /\ step = "deps" /\ unread \subseteq job.absent
    /\ step' = "checks"
    /\ audit' = IF CheckBuildLabels(unread) = {} THEN "clean" ELSE "undeclared"
    /\ gaps' = gaps \cup {g \in {"unread"} : unread # {}}
    /\ UNCHANGED <<job, answer, matrix, passedTests, reported, built, published>>

-----------------------------------------------------------------------------
(* The affected projects, and what snapshot diffs make of them.             *)

Closed(seeds) == LET walked == UpTo(seeds, job.declares.dep)
                 IN  walked \cup {e[1] : e \in {d \in job.declares.test : d[2] \in walked}}
ContractClients == {e[1] : e \in {c \in job.declares.consumes : c[2] \in job.contract}}

\* computeFloor; the daemon's computeAffected is the same.
Floor == [everything |-> job.escalates # "none",
          projects |-> Closed(job.touched \cup ContractClients), direct |-> job.touched]

\* Mutant: the targets nobody owns are dropped.
AnyTargets(ok) == ok

\* RefineSnapshot: an error, or a target outside every project, is run_everything.
RefineSnapshot(ok) == ok /\ ~job.orphans

\* deescalate: the floor with refinable paths handled, and the projects of the
\* impacted targets; a refinable path that nobody owns still escalates.
Narrowed(impacted) == LET seeds == job.touched \cup impacted
                      IN  [everything |-> FALSE, projects |-> Closed(seeds), direct |-> seeds]
AffectedRefined(ok) ==
    IF job.engine /\ job.escalates = "refinable" /\ RefineSnapshot(ok) /\ job.rooted
    THEN Narrowed(GraphTests) ELSE Floor

-----------------------------------------------------------------------------
(* checks.                                                                  *)

\* ChecksFor and PostLandChecks.
ChecksFor(p, isDirect) ==
    {c \in job.checks[p] : c.when # "post_land" /\ (c.when = "direct" => isDirect)}
PostLandChecks(p) == {c \in job.checks[p] : c.when = "post_land"}

\* Mutant: under run_everything only the projects that changed are direct.
ScopedAsIs(a) ==
    UNION {ChecksFor(p, p \in a.direct) : p \in IF a.everything THEN Members ELSE a.projects}

\* Under run_everything every project counts as direct.
ScopedChecks(a) ==
    IF a.everything THEN UNION {ChecksFor(p, TRUE) : p \in Members}
    ELSE UNION {ChecksFor(p, p \in a.direct) : p \in a.projects}

\* requiredCheckNames, by the daemon and on the floor.
RequiredNames ==
    {c.name : c \in IF Floor.everything THEN UNION {ChecksFor(p, TRUE) : p \in Members}
                    ELSE UNION {ChecksFor(p, p \in Floor.direct) : p \in Floor.projects}}

CheckRunOf(c) == [name |-> c.name, command |-> c.command]

\* Mutant: the first declaration of a name is run for all.
FirstWins(runs) ==
    {r \in runs : r = CHOOSE s \in runs : s.name = r.name}

\* One run per name; a name with two commands is refused (ambiguous_check).
Deduplicated(runs) ==
    IF \E r, s \in runs : r.name = s.name /\ r # s THEN {} ELSE runs

CheckMatrix(ok) ==
    /\ step = "checks" /\ step' = "images"
    /\ answer' = AffectedRefined(ok)
    /\ matrix' = Deduplicated({CheckRunOf(c) : c \in
                    ScopedChecks(answer') \cup
                    (IF job.postLand THEN UNION {PostLandChecks(p) : p \in Members} ELSE {})})
    /\ UNCHANGED <<job, audit, passedTests, reported, built, published, gaps>>

-----------------------------------------------------------------------------
(* images.                                                                  *)

\* Mutant: the answer a diff has narrowed.
EngineAnswer == answer

\* Images passes no engine.
ImagesAnswer == Floor

\* ImagesForAffected: the images some project owns, of whose owners and riders
\* one is affected.
ImagesForAffected(a) ==
    {i \in {job.owns[p].name : p \in DOMAIN job.owns} :
        a.everything \/ \E p \in a.projects :
            (p \in DOMAIN job.owns /\ job.owns[p].name = i) \/ <<p, i>> \in job.rides}

\* ImageBuildsForAffected: an image owned with two configurations is refused.
ImageBuilds(a) ==
    LET builds == {job.owns[p] : p \in {q \in DOMAIN job.owns :
                                            job.owns[q].name \in ImagesForAffected(a)}}
    IN  IF \E b, c \in builds : b.name = c.name /\ b # c THEN {} ELSE builds

BuildImages ==
    /\ step = "images" /\ step' = "binaries"
    /\ built' = ImageBuilds(ImagesAnswer)
    /\ UNCHANGED <<job, audit, answer, matrix, passedTests, reported, published, gaps>>

\* Mutant: the whole tag's binaries only if all of its projects changed.
WholeTagsOnly(a) ==
    {b \in job.ships : a.everything \/ \A c \in job.ships : c.tag = b.tag => c.of \in a.projects}

\* BinaryReleasesForAffected: the binaries of the affected projects, by tag; two
\* paths for a binary of one tag are refused (ambiguous_binary).
BinaryReleases(a) ==
    LET ships == {b \in job.ships : a.everything \/ b.of \in a.projects}
    IN  IF \E b, c \in ships : b.tag = c.tag /\ b.name = c.name /\ b.path # c.path
        THEN {} ELSE ships

PublishBinaries ==
    /\ step = "binaries" /\ step' = "run"
    /\ published' = BinaryReleases(Floor)
    /\ UNCHANGED <<job, audit, answer, matrix, passedTests, reported, built, gaps>>

-----------------------------------------------------------------------------
(* test-impacted, inside a check's command.                                 *)

\* The targets SnapshotDiff prints for a command's universe.
DiffTargets(command) == command \cap GraphTests

\* Mutant: the diff is believed whatever escalated.
AnyDiff(vouched) == vouched /\ job.based

\* impactedTargets: without a base, the determinator, the revisions, a floor that
\* the graph can see or the diff, the whole universe.
Scoped(vouched) == vouched /\ job.based /\ job.escalates # "blunt"
ImpactedTargets(command, vouched) ==
    IF Scoped(vouched) THEN DiffTargets(command) ELSE command

\* TestImpacted and runBazelTest: when scoped, no target is a success without a
\* run, and so are targets of which none is a test; a whole universe without a
\* test fails, and so do tests that fail.
TestImpacted(r, vouched, green) ==
    /\ step = "run" /\ r \in matrix
    /\ matrix' = matrix \ {r}
    /\ LET ran == ImpactedTargets(r.command, vouched)
       IN  IF green THEN /\ Scoped(vouched) \/ ran # {}
                         /\ passedTests' = passedTests \cup ran
                         /\ reported' = reported \cup {r.name}
           ELSE /\ ~Scoped(vouched) \/ ran # {}
                /\ UNCHANGED <<passedTests, reported>>
    /\ UNCHANGED <<job, step, audit, answer, built, published, gaps>>

-----------------------------------------------------------------------------
ExecutorInit ==
    /\ job \in CIJobs /\ step = "deps" /\ audit = "none"
    /\ answer = [everything |-> FALSE, projects |-> {}, direct |-> {}]
    /\ matrix = {} /\ passedTests = {} /\ reported = {} /\ built = {}
    /\ published = {} /\ gaps = {}

ExecutorNext ==
    \/ \E unread \in SUBSET Members : Deps(unread)
    \/ \E ok \in BOOLEAN : CheckMatrix(ok)
    \/ BuildImages \/ PublishBinaries
    \/ \E r \in matrix, vouched, green \in BOOLEAN : TestImpacted(r, vouched, green)

ExecutorSpec == ExecutorInit /\ [][ExecutorNext]_executorVars

\* What is dispatched is what a job executes; neither reads the other's state.
CISpec == DispatchSpec /\ ExecutorSpec

-----------------------------------------------------------------------------
(* Properties.                                                              *)

\* The gate's blocking checks of the head are all reported.
GatePasses == RequiredNames \subseteq reported

\* A declared check that owes p's test to this change.
Owes(p) == \E c \in job.checks[p] :
    p \in c.command /\ (c.when = "affected" \/ (c.when = "direct" /\ p \in job.touched))

\* ImpactedTested - behind a gate that passes and an audit that found nothing,
\* every test the change can break ran and passed, if its project declares a
\* check for it: through the audit, the floor, the diff, the matrix and
\* test-impacted, whatever of them fails.  Not so when the audit could not read
\* a file, or when an edge is declared in a way the audit accepts and the floor
\* does not follow: a library used as test_dependencies or consumes.
ImpactedTested ==
    GatePasses /\ audit = "clean" /\ gaps = {} /\ FaintEdges = {} =>
        \A p \in ChangedTests : Owes(p) => p \in passedTests

\* MatrixFeedsGate - "what this command returns and what the gate demands can
\* never disagree": without an engine and before the land, a matrix that is not
\* refused has exactly the names the gate requires.
MatrixFeedsGate ==
    step = "images" /\ matrix # {} /\ ~job.postLand /\ ~(job.engine /\ ~answer.everything) =>
        {r.name : r \in matrix} = RequiredNames

\* NarrowedIsEnough - a diff that replaces an escalation leaves out no project
\* with a changed test, and stands for no target that nobody owns.
NarrowedIsEnough ==
    step # "checks" /\ job.escalates = "refinable" /\ ~answer.everything /\ audit # "none" =>
        ChangedTests \subseteq answer.projects /\ ~job.orphans

\* ImagesMatchRecord - the images built are the ones the deploy record of the
\* land waits for, or none where two owners disagree: a record never waits for
\* an image that CI did not build because a diff had narrowed the job.
ImagesMatchRecord ==
    step = "run" /\ (\A p, q \in DOMAIN job.owns :
                        job.owns[p].name = job.owns[q].name => job.owns[p] = job.owns[q]) =>
        {b.name : b \in built} = ImagesForAffected(Floor)

\* NoStaleBinary - a binary whose code the change can alter is released anew,
\* unless two projects ship it from different paths or an edge is not declared
\* so that the floor follows it.
NoStaleBinary ==
    /\ step = "run" /\ audit = "clean" /\ gaps = {} /\ FaintEdges = {}
    /\ \A b, c \in job.ships : b.tag = c.tag /\ b.name = c.name => b.path = c.path
    => \A b \in job.ships : b.of \in GraphLibs => b \in published

\* ExecutorSound - what runko-ci runs, skips and builds is what the gate and the
\* deploy record count on.
ExecutorSound ==
    /\ ImpactedTested /\ MatrixFeedsGate /\ NarrowedIsEnough
    /\ ImagesMatchRecord /\ NoStaleBinary

\* CISound - CI is asked once for every event it must hear of, with a token that
\* works, and what it then runs, skips and builds is what the gate and the deploy
\* record count on.
CISound == DispatchSound /\ ExecutorSound
=============================================================================
