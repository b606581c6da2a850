------------------------------ MODULE MCSides -------------------------------
(* The constants of the sides of MCLines: the calls, requests, trees,       *)
(* conversations, machines, deliveries and jobs each is checked with.       *)
EXTENDS Stores, FrontDoors, Projects, Review, Materialize, SelfUpdate, AgentFiles,
        Activity, Dispatch, Executor, TLC

-----------------------------------------------------------------------------
(* The calls that two clients make of the stores, family by family.         *)

Pushes(k, h, author, origin) ==
    [op |-> "push", key |-> k, head |-> h, author |-> author, origin |-> origin]

On(op, key) == [op |-> op, key |-> key]
With(call, name, value) == [f \in DOMAIN call \cup {name} |-> IF f = name THEN value ELSE call[f]]

\* Two keys that have rows: the order of the landed listing.
RowOps ==
    {Pushes("a", 2, "bob", "mirror"), On("describe", "a"), On("abandon", "a"),
     With(On("arm", "a"), "on", TRUE), With(On("arm", "a"), "on", FALSE),
     With(On("land", "a"), "by", "ann"), With(On("land", "b"), "by", "bob")}

NewRowOps ==
    {Pushes("a", 1, "bob", "mirror"), Pushes("a", 2, "ann", ""), On("describe", "a"),
     On("abandon", "a"), With(On("arm", "a"), "on", TRUE), With(On("land", "a"), "by", "ann")}

Resolves(on) == With(With(On("resolve", "a"), "id", 1), "on", on)
Approves(by, head) == With(With(On("approve", "a"), "by", by), "head", head)

ReviewOps ==
    {Approves("ann", 1), Approves("bob", 2), Resolves(TRUE), Resolves(FALSE)}
    \cup {With(On("comment", k), "agent", k = "a") : k \in {"a", "b"}}
    \cup {With(On("ask", "a"), "by", by) : by \in {"ann", "bob"}}

Reports(head, verdict, url) ==
    [op |-> "report", head |-> head, verdict |-> verdict, url |-> url]

RunOps ==
    {Reports(1, "passed", ""), Reports(1, "failed", "log"), Reports(2, "failed", "")}
    \cup {[op |-> o] : o \in {"rerun", "copy", "amend"}}

LedgerOps ==
    {[op |-> "open"], [op |-> "prune"]}
    \cup {[op |-> "release", version |-> v] : v \in 1 .. 2}
    \cup {[op |-> "image", image |-> i] : i \in Images}

QueueOps ==
    {[op |-> "enqueue"]} \cup {[op |-> "result", id |-> 1, sent |-> b] : b \in BOOLEAN}

SpaceOps == {[op |-> o] : o \in {"create", "rebase", "close", "delete"}}

TimelineOps ==
    {[op |-> "wipe"], [op |-> "forget"]}
    \cup {[op |-> "event", tag |-> t] : t \in 1 .. 2}
    \cup {[op |-> "activity", batch |-> b] : b \in {<<1, 2>>, <<3>>}}

OrgOps ==
    {[op |-> "ensure"], [op |-> "leave"], [op |-> "account", hash |-> "x"],
     [op |-> "settings", value |-> "s"]}
    \cup {[op |-> "join", role |-> r] : r \in {"admin", "member"}}
    \cup {[op |-> "policy", value |-> v] : v \in {"strict", ""}}
    \cup {[op |-> "archive", on |-> b] : b \in BOOLEAN}

AgentOps ==
    {[op |-> "revoke"], [op |-> "age"]} \cup {[op |-> "mint", task |-> t] : t \in {"t", "u"}}

CursorOps == {[op |-> "freeze"]} \cup {[op |-> "cursor", sha |-> n] : n \in 1 .. 2}

MCStoreOps ==
    ("rows" :> RowOps) @@ ("new rows" :> NewRowOps) @@ ("reviews" :> ReviewOps)
    @@ ("runs" :> RunOps) @@ ("ledger" :> LedgerOps) @@ ("deliveries" :> QueueOps)
    @@ ("invites" :> QueueOps) @@ ("workspaces" :> SpaceOps)
    @@ ("timelines" :> TimelineOps) @@ ("orgs" :> OrgOps) @@ ("agents" :> AgentOps)
    @@ ("cursors" :> CursorOps)

\* More for the families with few calls, and for the longest call.
MCBudget ==
    [f \in DOMAIN MCStoreOps |->
        IF f \in {"ledger", "deliveries", "invites", "workspaces", "agents", "cursors"}
        THEN 5 ELSE 4]

-----------------------------------------------------------------------------
(* The requests that the doors are checked with: every operation of every   *)
(* door, with every credential, in a handful of situations.                 *)

Credential(scheme, of) == [scheme |-> scheme, of |-> of]
MCCredentials ==
    {Credential("none", "nobody"), Credential("bearer", "bad"), Credential("basic", "operator token")}
    \cup {Credential("bearer", of) : of \in {"deploy", "lane", "operator", "agent"}}
    \cup {Credential("basic", of) :
              of \in {"deploy", "lane", "operator", "agent", "account", "foreign", "bad"}}

MCAsks ==
    [door : {"rest"}, op : DOMAIN RestHandlers, cred : MCCredentials]
    \cup [door : {"rpc"}, op : DOMAIN RpcHandlers, cred : MCCredentials]
    \cup [door : {"git"}, op : {"Push"}, cred : MCCredentials]

Quiet == [org |-> "mounted", agent |-> "live", role |-> "member", public |-> TRUE, up |-> TRUE,
          row |-> "open", decision |-> "landed", space |-> TRUE]
MCWorlds ==
    {Quiet, [Quiet EXCEPT !.row = "none", !.space = FALSE, !.role = "admin"],
     [Quiet EXCEPT !.row = "abandoned", !.public = FALSE],
     [Quiet EXCEPT !.row = "landed", !.role = "none", !.agent = "ended"],
     [Quiet EXCEPT !.decision = "revalidate", !.up = FALSE]}
    \cup {[Quiet EXCEPT !.decision = d] : d \in {"conflicts", "race"}}
    \cup {[Quiet EXCEPT !.org = o] : o \in {"archived", "absent"}}

-----------------------------------------------------------------------------
(* Small trees, the requests about them and what else lands.                *)

MCDirOrder == <<"", "a", "a/x", "b", "c">>
MCAbove == [d \in Range(MCDirOrder) |->
    IF d = "" THEN {""} ELSE IF d = "a/x" THEN {"", "a", "a/x"} ELSE {"", d}]

Intent0 == [name |-> "p", path |-> "c", type |-> "library", caps |-> Default, language |-> "",
            noTemplate |-> FALSE, template |-> "", engine |-> "", api |-> "", owners |-> {}]
Creates(name, path) ==
    [kind |-> "create", intent |-> [Intent0 EXCEPT !.name = name, !.path = path]]
Deletes(name) == [kind |-> "delete", name |-> name, agent |-> FALSE]
Edge(dir, list, to) == [kind |-> "edge", dir |-> dir, list |-> list, to |-> to]
Writes(dir, file) == [kind |-> "file", dir |-> dir, file |-> file]

Project(name, caps) ==
    [NoDir EXCEPT !.manifest = NewManifest(name, caps, {}), !.files = {File("README.md", "hand")}]
Tree0 ==
    [d \in Range(MCDirOrder) |->
        CASE d = "" -> [Project("repo", {}) EXCEPT !.ownersFile = {"ann"}]
          [] d = "a" -> Project("a", {"rpc"})
          [] d = "b" -> [Project("b", {}) EXCEPT !.manifest.deps = {"a"}]
          [] OTHER -> NoDir]
WithX == [Tree0 EXCEPT !["a/x"] = Project("x", {"http"}),
                       !["b"].manifest.tests = {"x"}, !["b"].manifest.deps = {"a", "repo"},
                       ![""].manifest.consumes = {"a"}]
WithNotes == [Tree0 EXCEPT !["c"].files = {File("README.md", "hand")}, !["b"].manifest.tests = {"a"}]

Scene(tree, asks, edits) == [tree |-> tree, asks |-> asks, edits |-> edits]
RequestScenes ==
    {Scene(Tree0, <<Deletes("a")>>, {Edge("b", "consumes", "a"), Edge("b", "deps", "repo"),
                                     Writes("a", "new"), Writes("a", "README.md"),
                                     Writes("b", "new")}),
     Scene(WithX, <<Deletes("a"), Deletes("b")>>, {Edge("", "tests", "b"), Writes("a/x", "new")}),
     Scene(WithX, <<Deletes("x"), [Deletes("b") EXCEPT !.agent = TRUE], Deletes("repo")>>,
           {Edge("", "deps", "x"), Writes("a/x", "openapi.yaml"), Edge("b", "deps", "x")}),
     Scene(WithNotes, <<Creates("p", "c"), Creates("p", "a/x")>>, {Edge("b", "deps", "p")}),
     Scene(WithNotes, <<Creates("p", "c"), Creates("q", "c")>>, {Writes("c", "main")}),
     Scene(WithNotes, <<Deletes("a"), Creates("a", "c")>>, {Edge("b", "consumes", "repo")}),
     Scene(WithNotes, <<Creates("a", "c"), Creates("p", "a")>>, {})}

Forms ==
    {[Intent0 EXCEPT !.type = t, !.caps = cs, !.language = l, !.noTemplate = n,
                     !.template = id, !.engine = en, !.api = ap] :
        t \in {"library", "service", "app"}, cs \in {Default, {}, {"build"}, {"http"}, {"rpc", "build"}},
        l \in {"", "ts", "cobol"}, n \in BOOLEAN, id \in {"", "ts", "go"},
        en \in {"", "bazel", "vite", "none"}, ap \in {"", "grpc", "rest", "none"}}
FormScenes ==
    {Scene(Tree0, <<[kind |-> "create", intent |-> i]>>, {}) :
        i \in {f \in Forms : f.template = "" \/ (f.language = "" /\ ~f.noTemplate)}}

\* a repository with nothing in it and nothing asked of it
Empty == Scene([d \in Range(MCDirOrder) |-> NoDir], << >>, {})

MCScenes == RequestScenes \cup FormScenes \cup {Empty}

-----------------------------------------------------------------------------
(* A Change of val's, or nobody's, with one or two owners and two or three  *)
(* calls on it.                                                             *)

Comment(who, parent) ==
    [kind |-> "comment", who |-> who, parent |-> parent, anchor |-> "line", of |-> <<>>]
Settle(who, how) == [kind |-> "resolve", who |-> who, parent |-> 1, anchor |-> how, of |-> <<>>]
Ask(who, of) == [kind |-> "request", who |-> who, parent |-> 0, anchor |-> "change",
                 of |-> <<"name", of>>]
Approve(who, of) == [kind |-> "approve", who |-> who, parent |-> 0, anchor |-> "change", of |-> of]
Talk(author, owners, calls) ==
    [author |-> author, owners |-> owners, agents |-> {"bot"}, amenders |-> {author},
     calls |-> calls]

Ann == <<"user", "ann">>
Silence == Talk("val", {}, << >>)
MCTalks ==
    {Silence,
     Talk("val", {Ann}, <<Comment("ann", 0), Comment("val", 1), Comment("bot", 2)>>),
     [Talk("val", {Ann}, <<Comment("ann", 0), Approve("ann", Ann), Settle("val", "line")>>)
        EXCEPT !.amenders = {"val", "ann"}],
     Talk("val", {<<"user", "val">>, <<"group", "eng">>},
          <<Ask("val", "bob"), Comment("bob", 0), Approve("bob", <<"group", "eng">>)>>),
     Talk("ann", {<<"name", "ann">>, <<"name", "bob">>}, <<Comment("bob", 0), Ask("ann", "ann")>>),
     Talk("bot", {<<"name", "bot">>}, <<Comment("bot", 0), Ask("bot", "ann")>>),
     Talk("val", {Ann}, <<Comment("bot", 0), Settle("ann", "line"), Settle("bob", "reopen")>>),
     Talk("val", {Ann}, <<[Ask("val", "eng") EXCEPT !.of = <<"group", "eng">>], Comment("ann", 0)>>),
     Talk("", {Ann}, <<Comment("ann", 0), Comment("", 0), Ask("", "bob")>>)}

-----------------------------------------------------------------------------
(* A machine with one checkout or none, and the commands run on it.         *)

Cmd(verb, ws, as, dir, jj) == [verb |-> verb, ws |-> ws, as |-> as, dir |-> dir, jj |-> jj]
Sweep == Cmd("gc", "u", Login, None, FALSE)

Bound(ws, owner, plane) ==
    [Nothing EXCEPT !.ws = ws, !.branch = ws, !.owner = owner, !.plane = plane]

Machine(planes, owner, dir, commands) ==
    [planes |-> planes, commands |-> commands, touches |-> {}, stops |-> 0,
     disk |-> [p \in Spots |-> IF p = dir THEN Bound("u", owner, planes["u"]) ELSE Nothing],
     registry |-> [p \in {dir} \cap Spots |-> [ws |-> "u", store |-> TRUE]],
     filed |-> IF dir \in Spots /\ owner # Login THEN {<<planes["u"], owner>>} ELSE {},
     remote |-> [status |-> [w \in Tasks |-> IF w = "u" /\ dir \in Spots THEN "active" ELSE None],
                 snap |-> [w \in Tasks |-> NoSnap]]]
WithStop(m) == [m EXCEPT !.stops = @ + 1]
WithEdits(edits, m) == [m EXCEPT !.touches = edits]

OneOrg == [w \in Tasks |-> "o1"]
TwoOrgs == [w \in Tasks |-> IF w = "u" THEN "o1" ELSE "o2"]
NewV(as, dir) == Cmd("create", "v", as, dir, FALSE)
Use == Cmd("use", "u", Login, None, FALSE)

Attach(as, dir, jj) == Cmd("attach", "u", as, dir, jj)

Bare == Machine(OneOrg, Login, None, << >>)
MCMachines ==
    {Bare,
     WithStop(Machine(OneOrg, "x", None, <<Cmd("create", "u", "x", "p", FALSE), NewV("x", "q")>>)),
     WithEdits({"n"}, Machine(OneOrg, "x", "p", <<NewV("x", "q"), Sweep>>)),
     WithEdits({"t", "n"}, Machine(OneOrg, "x", "p", <<NewV(Login, "p")>>)),
     WithEdits({"t"}, WithStop(Machine(OneOrg, "x", "p", <<NewV(Login, "q")>>))),
     Machine(OneOrg, "x", "p", <<NewV("x", "q"), Attach("x", "p", FALSE)>>),
     WithEdits({"t"}, WithStop(Machine(OneOrg, Login, "p", <<Attach(Login, "p", FALSE), Sweep>>))),
     WithEdits({"t"}, WithStop(WithStop(Machine(OneOrg, Login, "p",
                                                <<Attach(Login, "p", FALSE)>>)))),
     WithEdits({"t", "n"}, Machine(OneOrg, "x", "p", <<Attach("x", "q", TRUE), Sweep>>)),
     WithStop(Machine(TwoOrgs, "x", "p", <<Cmd("create", "v", "x", "q", TRUE),
                                           Cmd("login", "u", "y", None, FALSE)>>)),
     Machine(OneOrg, "x", "p", <<Use, NewV("x", "p")>>),
     WithStop(Machine(OneOrg, "x", "p", <<Use, Sweep>>))}

-----------------------------------------------------------------------------
(* The files a developer's machine keeps for runko.                         *)

Host(windows, check, installed) ==
    [windows |-> windows, check |-> check, installed |-> installed, release |-> "b1"]
MCHosts == {Host(w, FALSE, b) : w \in BOOLEAN, b \in Builds}
           \cup {Host(FALSE, TRUE, "b2")}

Ground(installs, tree, cone) ==
    [verbs |-> installs, tree |-> tree, cone |-> cone, bound |-> TRUE, own |-> {},
     settings |-> NoSettings, gitignore |-> {}, negated |-> {},
     exclude |-> [f \in LocalFiles |-> "none"], stumbles |-> 1]
TwoHooks == Ground(<<"hooks", "hooks">>, {}, {})
AttachOnce(tree, cone) == Ground(<<"attach">>, tree, cone)
Again(tree) == Ground(<<"attach", "attach">>, tree, {"dir"})
MCSkillOrder == <<"s1", "s2">>
MCGrounds ==
    {TwoHooks, [TwoHooks EXCEPT !.settings = Valid({}, "by hand")],
     [TwoHooks EXCEPT !.settings = Broken],
     [TwoHooks EXCEPT !.bound = FALSE], [TwoHooks EXCEPT !.gitignore = {Settings}],
     [TwoHooks EXCEPT !.negated = {Settings}], [TwoHooks EXCEPT !.tree = {Settings}],
     [TwoHooks EXCEPT !.exclude[Settings] = "mention"],
     Again({}), Again({"s2"}), [Again({}) EXCEPT !.own = {"s1"}],
     [Again({}) EXCEPT !.negated = {"s1"}],
     [Again({}) EXCEPT !.exclude["s2"] = "mention"]}
    \cup {AttachOnce(tree, cone) : tree \in SUBSET {"s1", "s2"},
                                   cone \in {{}, {"dir"}, {"dir", "agent dir"}}}

Report(by, batch, tool) == [by |-> by, batch |-> batch, tool |-> tool, bound |-> TRUE]
Day(calls, pushes, events, ends, scanner, faults) ==
    [reports |-> calls, pushes |-> pushes, events |-> events, ends |-> ends, scanner |-> scanner,
     faults |-> faults]
Mixed == Report("owner", <<"plain", "secret">>, "Bash")
MCDays ==
    {Day(<<Mixed, Report("operator", <<"plain">>, "Read")>>, 0, 0, TRUE, scanner, 1) :
         scanner \in {"none", "works", "broken"}}
    \cup {Day(<<Report("stranger", <<"plain">>, "Edit"), Report("owner", << >>, "Grep")>>, 1, 1,
              TRUE, "works", 0),
          Day(<<[Mixed EXCEPT !.bound = FALSE], Report("owner", <<"plain">>, "Task")>>, 2, 2,
              FALSE, "works", 1),
          Day(<< >>, 3, 4, FALSE, "none", 0), Day(<< >>, 2, 2, TRUE, "none", 1)}

-----------------------------------------------------------------------------
(* Two events and the trouble around them, or two connects.                 *)

Delivery(id, type, org) == [id |-> id, type |-> type, org |-> org]
Route(mail, viaApp, attempts, mishaps) ==
    [mail |-> mail, app |-> viaApp, attempts |-> attempts, mishaps |-> mishaps,
     connects |-> [c \in {} |-> TRUE]]
Wired(links, mishaps) ==
    [Route([e \in {} |-> {}], FALSE, 0, mishaps) EXCEPT !.connects = links]

NoRoute == Wired([c \in {} |-> TRUE], 0)
Push(id) == Delivery(id, "updated", "own")
MCRoutes ==
    {NoRoute,
     Route("a" :> Push(1) @@ "b" :> Delivery(2, "rerun", "own"), FALSE, 2, 1),
     Route("a" :> Delivery(1, "rerun", "own") @@ "b" :> Delivery(1, "rerun", "own"), FALSE, 2, 1),
     Route("a" :> Push(1), FALSE, 3, 2),
     Route("a" :> Push(1), TRUE, 2, 2),
     Route("a" :> Push(1) @@ "b" :> Delivery(2, "updated", "other"), TRUE, 1, 1),
     Route("a" :> Push(1) @@ "b" :> Push(2), TRUE, 1, 0),
     Wired("c" :> TRUE @@ "d" :> TRUE, 1), Wired("c" :> TRUE @@ "d" :> FALSE, 1)}

-----------------------------------------------------------------------------
(* A library, an application that uses it and a site beside them, with the  *)
(* edges used and declared in every way, and the flags of a job.            *)

MCMembers == {"lib", "app", "web"}

OnLib == <<"app", "lib">>
OnApp == <<"web", "app">>
Edges == {OnLib, OnApp}

Declaration(name, of, when) == [name |-> name, command |-> of, when |-> when]
NoUses == [lib |-> {}, test |-> {}]
NoDeclares == [dep |-> {}, test |-> {}, consumes |-> {}]
OwnChecks == [p \in MCMembers |-> {Declaration(p, {p}, "affected")}]
Binary(of, path) == [tag |-> "v", name |-> "bin", of |-> of, path |-> path]
Image(config) == [name |-> "i", config |-> config]

PlainJob ==
    [uses |-> NoUses, declares |-> NoDeclares, touched |-> {"lib"}, moved |-> {},
     contract |-> {}, escalates |-> "none", checks |-> OwnChecks, absent |-> {},
     engine |-> FALSE, postLand |-> FALSE, rooted |-> TRUE, orphans |-> FALSE,
     based |-> TRUE, owns |-> << >>, rides |-> {},
     ships |-> {Binary("app", "cmd"), Binary("lib", "cmd")}]

\* The ways the edges are used and declared.
EdgeJobs ==
    {[PlainJob EXCEPT !.uses = [lib |-> l, test |-> t],
                  !.declares = [dep |-> d, test |-> dt, consumes |-> Edges \ (d \cup dt)],
                  !.absent = a, !.contract = {p \in {"lib"} : a = {}}] :
        l \in SUBSET Edges, t \in SUBSET Edges, d \in SUBSET Edges, dt \in SUBSET Edges,
        a \in {{}, {"app"}}}
    \cup {[PlainJob EXCEPT !.uses.lib = Edges, !.declares.dep = d, !.absent = a] :
             d \in SUBSET Edges, a \in SUBSET {"app", "web"}}

\* The ways a change escalates and a diff narrows it again.
DiffJobs ==
    {[PlainJob EXCEPT !.uses.lib = Edges, !.declares.dep = Edges, !.touched = t, !.moved = m,
                  !.escalates = e, !.engine = g, !.rooted = r, !.orphans = o, !.based = b,
                  !.owns = [p \in {"app", "web"} |-> Image("one")], !.rides = {<<"lib", "i">>}] :
        t \in {{}, {"web"}}, m \in {{}, {"app"}, {"lib"}},
        e \in {"none", "refinable", "blunt"}, g \in BOOLEAN, r \in BOOLEAN, o \in BOOLEAN,
        b \in BOOLEAN}

\* Checks of every class, under shared names and with other commands.
ClassJobs ==
    {[PlainJob EXCEPT !.uses.lib = {OnLib}, !.declares.dep = {OnLib}, !.escalates = e,
                  !.engine = g, !.postLand = post, !.moved = {"web"},
                  !.owns = [p \in {"app", "lib"} |-> Image(p)],
                  !.ships = {Binary("app", "app"), Binary("web", "web")},
                  !.checks = [p \in MCMembers |->
                                 IF p = "lib" THEN {Declaration("test", {"lib"}, "direct")}
                                 ELSE {Declaration(n, c, w),
                                       Declaration("live", {}, "post_land")}]] :
        e \in {"none", "refinable"}, g \in BOOLEAN, post \in BOOLEAN,
        n \in {"test", "race"}, c \in {{"lib"}, {"app", "web"}, {}}, w \in {"affected", "direct"}}

MCCIJobs == {PlainJob} \cup EdgeJobs \cup DiffJobs \cup ClassJobs

=============================================================================
