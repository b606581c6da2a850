----------------------------- MODULE MCServices -----------------------------
(***************************************************************************)
(* The services around the Change server, each an instance of its own: a   *)
(* behaviour is one of the service focus names, while the others stay in   *)
(* their initial state.                                                    *)
(***************************************************************************)
EXTENDS Rollout, InviteMail, Watchdog, ChangeRefs, OrgHub, Workspaces, Releases,
        Affected, Worktrees, MergeGate, TLC

VARIABLE focus

MCCommits == {"k1", "k2", "k3"}
MCAffects == [c \in MCCommits |-> CASE c = "k1" -> {"web", "api"}
                               [] c = "k2" -> {"web"} [] c = "k3" -> {}]
MCEvents == {"change.landed", "deploy.images_ready"} \X MCCommits
MCDispatched == {"change.landed"} \X MCCommits

\* Deployments: one land with failures, two lands without, dead targets.
MCWirings ==
    {[url |-> u, github |-> "up", failures |-> 2, lands |-> 1] : u \in {"up", "dead"}}
    \cup {[url |-> "up", github |-> "up", failures |-> 0, lands |-> 2]}
    \cup {[url |-> u, github |-> g, failures |-> 1, lands |-> 1] :
             u \in {"none", "up"}, g \in {"none", "unwired", "dead"}}

\* Changes: two required checks; two pushes; more trouble for a single check.
MCPlans == {[checks |-> {"a", "b"}, heads |-> 1, upsets |-> 0],
            [checks |-> {"a"}, heads |-> 2, upsets |-> 0],
            [checks |-> {"a"}, heads |-> 1, upsets |-> 2]}

\* What is asked of the org hub: three requests, and who makes them.
Agenda(kinds, names) ==
    [c \in {"r1", "r2", "r3"} |->
        LET n == CASE c = "r1" -> 1 [] c = "r2" -> 2 [] c = "r3" -> 3
        IN  [kind |-> kinds[n], who |-> names[n]]]

MCAgendas ==
    {Agenda(<<"signup", "create", "join">>, <<"p1", "p2", "p1">>),
     Agenda(<<"signup", "signup", "bootstrap">>, <<"p1", "p2", "p1">>),
     Agenda(<<"operator", "bootstrap", "join">>, <<"anon", "p1", "p2">>),
     Agenda(<<"create", "archive", "unarchive">>, <<"p1", "anon", "anon">>),
     Agenda(<<"signup", "put", "connect">>, <<"p1", "p1", "p1">>)}

\* Workspaces: two pushes, a watcher, a second life under the same name.
SpacePlan(agent, watched, births, shipped, upset) ==
    [agent |-> agent, watched |-> watched, creates |-> births,
     pushes |-> shipped, faults |-> upset]

MCSpacePlans == {SpacePlan(TRUE, FALSE, 1, 2, 0), SpacePlan(TRUE, TRUE, 1, 1, 1),
                 SpacePlan(FALSE, FALSE, 2, 1, 1)}

\* A monorepo: root, a, b inside a, c; c is a client of b.
MCProjects == {"root", "a", "b", "c"}
MCPathOf == [root |-> << >>, a |-> <<"a">>, b |-> <<"a", "b">>, c |-> <<"c">>]
MCChangedPaths == {<<"go.mod">>, <<"Makefile">>, <<"a", "doc">>, <<"a", "b", "api">>}
MCRootInvalidation ==
    <<[except |-> TRUE, refinable |-> FALSE, paths |-> {<<"a", "b", "api">>}],
      [except |-> FALSE, refinable |-> TRUE, paths |-> {<<"go.mod">>}],
      [except |-> FALSE, refinable |-> FALSE, paths |-> {<<"Makefile">>, <<"a", "b", "api">>}]>>
MCProse == <<[except |-> FALSE, paths |-> {<<"a", "doc">>}]>>
MCContractPaths == [p \in MCProjects |-> IF p = "b" THEN {<<"a", "b">>} ELSE {}]
MCConsumes == [p \in MCProjects |-> IF p = "c" THEN {"b"} ELSE {}]

\* Every choice of edges among four pairs (the last needs the root project).
MCPairs == {<<"a", "b">>, <<"b", "a">>, <<"a", "c">>, <<"root", "a">>}
MCTrees ==
    {[rooted |-> r, dep |-> {e \in MCPairs : k[e] = "dep"},
      test |-> {e \in MCPairs : k[e] = "test"}] :
        r \in BOOLEAN, k \in [MCPairs -> {"none", "dep", "test"}]}

\* A governed tree, one with app as a zone, one with all but app as a zone, and
\* one where the directory new, empty in the others, has files.
MCAround == "app/x" :> <<"app", "root">> @@ "lib/y" :> <<"lib", "root">>
            @@ "app/new/z" :> <<"new", "app", "root">>
Declared(by, auto, checks) ==
    [dir |-> "project", owners |-> by, near |-> {}, auto |-> auto, checks |-> checks]
Bare(dir, near) == [dir |-> dir, owners |-> {}, near |-> near, auto |-> "undeclared",
                    checks |-> {}]
GateTree(rootAuto, appAuto, new) ==
    [root |-> Declared({}, rootAuto, {}), app |-> Declared({"ann"}, appAuto, {}),
     lib |-> [Declared({}, "undeclared", {"ci"}) EXCEPT !.near = {"team"}],
     new |-> Bare(new, {})]
Governed == GateTree("undeclared", "undeclared", "empty")
AppZone == GateTree("undeclared", "yes", "empty")
RootZone == GateTree("yes", "no", "empty")
Occupied == GateTree("undeclared", "undeclared", "files")
MCLane == [files |-> {"app/x"}, checks |-> {"smoke"}]

\* Deltas: files, a finding, one that declares its own zone, and new projects.
GateDelta(files, manifests, finding) ==
    [files |-> files, manifests |-> manifests, flagged |-> finding]
Plain(files, finding) == GateDelta(files, [s \in {} |-> Governed[s]], finding)
OwnZone == GateDelta({"lib/y"}, "lib" :> Declared({}, "yes", {"ci"}), FALSE)
NewProject(by) ==
    GateDelta({"app/new/z"}, "new" :> Declared(by, "undeclared", {"smoke"}), FALSE)

GatePlan(tier, deltas, trees, pushers, landers, extras) ==
    [tier |-> tier, deltas |-> deltas, trees |-> trees, pushers |-> pushers,
     landers |-> landers, versions |-> IF "once" \in extras THEN 1 ELSE 2,
     reports |-> extras \cap GatedChecks,
     policy |-> [create |-> "refused" \notin extras, owners |-> "owners" \in extras],
     faults |-> "faults" \in extras, vetoes |-> "veto" \in extras,
     resolve |-> "resolve" \in extras, describe |-> "describe" \in extras]

MCGatePlans ==
    {GatePlan("conflict-only",
              <<Plain({"app/x", "lib/y"}, FALSE), Plain({"lib/y"}, FALSE)>>,
              <<AppZone>>, {"bot"}, {"human"}, {"ci"}),
     GatePlan("conflict-only", <<Plain({"app/x"}, TRUE)>>, <<AppZone, RootZone>>,
              {"bot"}, {"human"}, {}),
     GatePlan("conflict-only", <<Plain({"app/x"}, TRUE)>>, <<Governed>>, {"bot"},
              {"lane", "force"}, {"smoke", "once"}),
     GatePlan("conflict-only", <<OwnZone>>, <<Governed>>, {"bot", "ann"},
              {"human"}, {"ci", "faults"}),
     GatePlan("always", <<Plain({"app/x"}, TRUE)>>, <<AppZone>>, {"bot"}, {"human"},
              {"veto"}),
     GatePlan("always", <<Plain({"lib/y"}, FALSE)>>, <<Governed>>, {"bot"}, {"human"},
              {"resolve", "describe", "ci"}),
     GatePlan("conflict-only", <<NewProject({})>>, <<Governed, Occupied>>, {"bot"},
              {"human"}, {"smoke"}),
     GatePlan("conflict-only", <<NewProject({"bot"})>>, <<Governed>>, {"bot"}, {"human"},
              {"smoke", "once"}),
     GatePlan("conflict-only", <<NewProject({})>>, <<Governed>>, {"bot"}, {"human"},
              {"smoke", "refused"}),
     GatePlan("conflict-only", <<OwnZone, NewProject({"ann"})>>, <<Occupied>>, {"bot"},
              {"human"}, {"ci", "smoke", "owners"})}

Services == {"rollout", "invites", "watchdog", "refs", "hub", "space", "releases",
             "affected", "worktrees", "gate"}

\* All services but focus keep one initial state.
ServicesInit ==
    /\ focus \in Services
    /\ focus # "rollout" => wiring = CHOOSE w \in Wirings : TRUE
    /\ focus # "watchdog" => ci = CHOOSE p \in CIPlans : TRUE
    /\ focus # "space" => use = CHOOSE p \in SpacePlans : ~p.watched
    /\ focus # "hub" => agenda = CHOOSE a \in Agendas : TRUE
    /\ focus # "affected" => changed = {} /\ tree = CHOOSE t \in Trees : TRUE
    /\ focus # "gate" => plan = CHOOSE p \in GatePlans : TRUE
    /\ RolloutInit /\ InviteInit /\ WatchdogInit /\ Init
    /\ HubInit /\ SpaceInit /\ ReleaseInit /\ AffectedInit /\ WorktreeInit
    /\ GateInit

ServicesNext ==
    /\ UNCHANGED focus
    /\ focus # "rollout" => UNCHANGED allVars
    /\ focus # "invites" => UNCHANGED inviteVars
    /\ focus # "watchdog" => UNCHANGED watchdogVars
    /\ focus # "refs" => UNCHANGED vars
    /\ focus # "hub" => UNCHANGED hubVars
    /\ focus # "space" => UNCHANGED spaceVars
    /\ focus # "releases" => UNCHANGED releaseVars
    /\ focus # "affected" => UNCHANGED affectedVars
    /\ focus # "worktrees" => UNCHANGED worktreeVars
    /\ focus # "gate" => UNCHANGED gateVars
    /\ \/ focus = "rollout" /\ RolloutNext
       \/ focus = "invites" /\ InviteNext
       \/ focus = "watchdog" /\ WatchdogNext
       \/ focus = "refs" /\ Next
       \/ focus = "hub" /\ HubNext
       \/ focus = "space" /\ SpaceNext
       \/ focus = "releases" /\ ReleaseNext
       \/ focus = "affected" /\ AffectedNext
       \/ focus = "worktrees" /\ WorktreeNext
       \/ focus = "gate" /\ GateNext

servicesVars == <<allVars, inviteVars, watchdogVars, vars, hubVars, spaceVars,
                  releaseVars, affectedVars, worktreeVars, gateVars, focus>>

\* The daemon's goroutines run, its requests and GitHub's builds go on.
RolloutFair ==
    /\ WF_allVars(focus = "rollout" /\ WorkerStep)
    /\ WF_allVars(focus = "rollout" /\ TimePasses)
    /\ \A c \in Commits :
          /\ WF_allVars(focus = "rollout" /\ LandTail(c))
          /\ WF_allVars(focus = "rollout" /\ StartBuild(c))
          /\ \A i \in Images : WF_allVars(focus = "rollout" /\ ReportStep(c, i))

\* The mailer polls forever.
InviteFair == /\ WF_inviteVars(focus = "invites" /\ MailerStep)
              /\ WF_inviteVars(focus = "invites" /\ InviteTick)

\* The watchdog sweeps forever and GitHub's jobs end.
WatchdogFair ==
    /\ WF_watchdogVars(focus = "watchdog" /\ SweepStep)
    /\ \A h \in CIHeads, k \in CIChecks :
          WF_watchdogVars(focus = "watchdog" /\ JobEnds(h, k))

\* Requests that started go on, and the watcher stays.
SpaceFair ==
    /\ WF_spaceVars(focus = "space" /\ WatchStep)
    /\ \A p \in PushSlots : WF_spaceVars(focus = "space" /\ PushSlotStep(p))
    /\ \A l \in Lines : WF_spaceVars(focus = "space" /\ EnderStep(l))

\* Requests that started go on, and the mirror's loop runs forever.
RefsFair == /\ \A p \in Pushers : WF_vars(focus = "refs" /\ PushStep(p))
            /\ WF_vars(focus = "refs" /\ SyncList)
            /\ WF_vars(focus = "refs" /\ SyncStep)

ServicesSpec ==
    /\ ServicesInit /\ [][ServicesNext]_servicesVars
    /\ RolloutFair /\ InviteFair /\ WatchdogFair /\ SpaceFair /\ RefsFair
=============================================================================
