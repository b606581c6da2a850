----------------------------- MODULE FrontDoors -----------------------------
(* The doors of the daemon: the REST routes, the Connect procedures and git *)
(* over HTTP. One request goes through the hub's routing, the check of its  *)
(* credential, the look at the Change it names, the naming of its caller    *)
(* (the credential is resolved again, once per question the handler asks)   *)
(* and the decision core that both transports share, while members come and *)
(* go, agents end, settings change and the directory fails.                 *)
EXTENDS Naturals

CONSTANTS Asks,     \* the requests, as [door, op, cred]
          Worlds,       \* what the daemon knows when a request comes in
          MaxTurns      \* how often that changes while a request runs

ASSUME DoorAssumption == \A r \in Asks : r.door \in {"rest", "rpc", "git"}

VARIABLES world, ask, turns
doorVars == <<world, ask, turns>>

Nobody == "nobody"      \* a nil *Principal, which the deploy token is too
Stranger == [ok |-> FALSE, denied |-> FALSE, who |-> Nobody, lane |-> FALSE, admin |-> FALSE]
As(who) == [Stranger EXCEPT !.ok = TRUE, !.who = who]
Lane == [Stranger EXCEPT !.ok = TRUE, !.lane = TRUE]
OrgDenied == [Stranger EXCEPT !.denied = TRUE]

-----------------------------------------------------------------------------
(* Credentials, [scheme, of]: no header at all, a token or password of a    *)
(* known caller, or one of nobody's.                                        *)
AgentByToken(w) == IF w.agent = "live" THEN As("agent") ELSE Stranger
AgentByBasic(w) == IF w.agent = "live" THEN As("agent") ELSE Stranger

CallerForBearer(of, w) ==
    CASE of = "deploy" -> As(Nobody)
      [] of = "lane" -> Lane
      [] of = "operator" -> As("operator")
      [] of = "agent" -> AgentByToken(w)
      [] OTHER -> Stranger

\* an account that another org of the hub knows under this password
CrossOrgAccount(gated, w) ==
    IF ~w.up THEN Stranger ELSE IF gated THEN OrgDenied ELSE As("foreign")

CallerForBasic(of, gated, w) ==
    CASE of = "operator" -> As("operator")
      [] of = "lane" -> Lane
      [] of = "deploy" -> As(Nobody)
      [] of = "agent" -> AgentByBasic(w)
      [] of = "account" ->
            IF ~w.up THEN Stranger
            ELSE IF ~gated THEN As("account")
            ELSE IF w.role = "none" THEN OrgDenied
            ELSE [As("account") EXCEPT !.admin = w.role = "admin"]
      [] of = "foreign" -> CrossOrgAccount(gated, w)
      [] OTHER -> Stranger

CallerForAuthHeader(cred, gated, w) ==
    CASE cred.scheme = "bearer" -> CallerForBearer(cred.of, w)
      [] cred.scheme = "basic" -> CallerForBasic(cred.of, gated, w)
      [] OTHER -> Stranger

PublicReadEnabled(w) == w.up /\ w.public

-----------------------------------------------------------------------------
(* What each handler does before its core: whether it looks the Change up,  *)
(* and which of the caller's principal and lane it asks for.                *)
Guard(looks, asks) == [looks |-> looks, asks |-> asks]
Told == Guard(TRUE, {})
Blind == Guard(FALSE, {})
Signed == {"principal"}
Both == {"principal", "lane"}

RestReads == [GetChange |-> Told, GetAffected |-> Told]
RestRequirements == [GetMergeRequirements |-> Guard(TRUE, {"lane"})]
RestListing == [ListChanges |-> Blind]
RestSteps == [Abandon |-> Guard(FALSE, Signed), Sync |-> Guard(TRUE, Signed),
              Rerun |-> Guard(TRUE, Both)]
RestApprove == [Approve |-> Guard(TRUE, Signed)]
RestLand == [Land |-> Guard(TRUE, Both)]
RestReview == [ListComments |-> Told, Comment |-> Guard(TRUE, Signed),
               Resolve |-> Guard(TRUE, Signed), RequestReview |-> Guard(TRUE, Signed)]
RestProjects == [ListProjects |-> Blind, AffectedByPaths |-> Blind]
RestSearch == [SearchCode |-> Blind]
RestReleases == [CreateRelease |-> Guard(FALSE, Both), ListReleases |-> Blind]
RestWorkspaces == [CreateWorkspace |-> Blind, ListWorkspaces |-> Blind,
                   GetWorkspace |-> Blind, UpdateWorkspaceBase |-> Blind]
RestDeletes == [DeleteWorkspace |-> Guard(FALSE, Signed)]
RestDeleteProject == [DeleteProject |-> Guard(FALSE, Signed)]
RestAutomerge == [SetAutomerge |-> Guard(FALSE, Signed)]
RestLandStack == [LandStack |-> Guard(TRUE, Both)]

RpcReads == [GetChange |-> Told, ListChanges |-> Blind, GetChangeStack |-> Told,
             GetChangeDiff |-> Told, GetAffected |-> Told, AffectedByPaths |-> Blind,
             GetMergeRequirements |-> Guard(TRUE, {"lane"})]
RpcSteps == [Approve |-> Guard(TRUE, Signed), Land |-> Guard(TRUE, Both),
             LandStack |-> Guard(TRUE, Both), Sync |-> Guard(TRUE, Signed),
             Abandon |-> Guard(FALSE, Signed), SetAutomerge |-> Guard(FALSE, Signed)]
RpcReview == [ListComments |-> Told, Comment |-> Guard(TRUE, Signed),
              Resolve |-> Guard(TRUE, Signed), RequestReview |-> Guard(TRUE, Signed),
              Rerun |-> Guard(TRUE, Both)]
RpcProjectReads == [ListProjects |-> Blind, GetProject |-> Blind, WhoOwns |-> Blind]
RpcProjects == [PreviewCreate |-> Blind, ListReleases |-> Blind,
                CreateRelease |-> Guard(FALSE, Both),
                CreateProject |-> Guard(FALSE, Signed),
                DeleteProject |-> Guard(FALSE, Signed)]
RpcWorkspaces == [CreateWorkspace |-> Blind, ListWorkspaces |-> Blind,
                  GetWorkspace |-> Blind, UpdateWorkspaceBase |-> Blind,
                  DeleteWorkspace |-> Guard(FALSE, Signed)]
RpcSearch == [SearchCode |-> Blind, GetTree |-> Blind]
RpcFiles == [GetBlob |-> Blind, BlameFile |-> Blind]

\* one table of several that have no operation in common
Routed(tables) ==
    [op \in UNION {DOMAIN t : t \in tables} |-> (CHOOSE t \in tables : op \in DOMAIN t)[op]]

RestTables ==
    {RestReads, RestRequirements, RestListing, RestSteps, RestApprove, RestLand, RestReview,
     RestProjects, RestSearch, RestReleases, RestWorkspaces, RestDeletes, RestDeleteProject,
     RestAutomerge, RestLandStack}
RpcTables ==
    {RpcReads, RpcSteps, RpcReview, RpcProjectReads, RpcProjects, RpcWorkspaces, RpcSearch,
     RpcFiles}
RestHandlers == Routed(RestTables)
RpcHandlers == Routed(RpcTables)
HandlerOf(door, op) ==
    CASE door = "rest" -> RestHandlers[op]
      [] door = "rpc" -> RpcHandlers[op]
      [] OTHER -> Guard(FALSE, Both)      \* a push, through the hook's callback

\* the routes wrapped in requireReadAuth, and the procedures of the allowlist
PublicRoutes ==
    {"GetChange", "ListChanges", "GetAffected", "GetMergeRequirements", "ListComments",
     "SearchCode", "ListProjects", "ListReleases", "AffectedByPaths"}
PublicReadProcedures ==
    {"GetChange", "ListChanges", "GetChangeStack", "GetChangeDiff", "GetAffected",
     "AffectedByPaths", "GetMergeRequirements", "ListProjects", "GetProject", "WhoOwns",
     "ListReleases", "GetTree", "GetBlob", "BlameFile", "SearchCode"}

-----------------------------------------------------------------------------
(* The steps before the core: "go" or the answer that ends the request.     *)
RouteOrg(w) ==
    CASE w.org = "archived" -> "gone"
      [] w.org = "absent" -> "missing"
      [] OTHER -> "go"

RequireAuth(cred, w) ==
    LET c == CallerForAuthHeader(cred, TRUE, w)
    IN  IF c.denied THEN "denied" ELSE IF ~c.ok THEN "unauthenticated" ELSE "go"

RequireReadAuth(cred, w) ==
    IF cred.scheme = "none" /\ PublicReadEnabled(w) THEN "go" ELSE RequireAuth(cred, w)

\* mutant: every procedure is open to readers without a credential
LetsAnyoneRead(op, cred, w) ==
    LET c == CallerForAuthHeader(cred, TRUE, w)
    IN  IF c.denied THEN "denied"
        ELSE IF c.ok \/ (cred.scheme = "none" /\ PublicReadEnabled(w)) THEN "go"
        ELSE "unauthenticated"

RpcMiddleware(op, cred, w) ==
    LET c == CallerForAuthHeader(cred, TRUE, w)
    IN  CASE c.denied -> "denied"
          [] c.ok -> "go"
          [] cred.scheme = "none" /\ op \in PublicReadProcedures /\ PublicReadEnabled(w) -> "go"
          [] OTHER -> "unauthenticated"

\* with a config principal's token as password any user name will do
GitCaller(cred, w) ==
    LET c == CallerForBasic(cred.of, TRUE, w)
    IN  IF ~c.ok /\ ~c.denied /\ cred.of = "operator token" THEN As("operator") ELSE c

RequireGitAuth(cred, w) ==
    IF cred.scheme # "basic" THEN "unauthenticated"
    ELSE LET c == GitCaller(cred, w)
         IN  IF c.denied THEN "denied" ELSE IF ~c.ok THEN "unauthenticated" ELSE "go"

Gate(r, w) ==
    IF r.door = "git" THEN RequireGitAuth(r.cred, w)
    ELSE IF r.door = "rpc" THEN RpcMiddleware(r.op, r.cred, w)
    ELSE IF r.op \in PublicRoutes THEN RequireReadAuth(r.cred, w)
    ELSE RequireAuth(r.cred, w)

Admit(r, w) == IF RouteOrg(w) # "go" THEN RouteOrg(w) ELSE Gate(r, w)

\* whom the door takes the request to be from when it lets it in
Admitted(r, w) ==
    IF r.door = "git" THEN GitCaller(r.cred, w) ELSE CallerForAuthHeader(r.cred, TRUE, w)

Look(r, w) == IF HandlerOf(r.door, r.op).looks /\ w.row = "none" THEN "missing" ELSE "go"

\* mutant: names of agents are not looked up
ForgetsAgents(who, w) ==
    IF who = "operator" \/ (who = "account" /\ w.up) THEN As(who) ELSE As(Nobody)

\* the hook sends the name back: accounts are found by name alone, agents
\* only while they live
PrincipalByName(who, w) ==
    CASE who = "operator" -> As("operator")
      [] who = "account" /\ w.up -> As("account")
      [] who = "agent" /\ w.agent = "live" -> As("agent")
      [] OTHER -> As(Nobody)

PrincipalFor(r, name, w) ==
    IF r.door = "git" THEN PrincipalByName(name, w)
    ELSE IF "principal" \in HandlerOf(r.door, r.op).asks
         THEN CallerForAuthHeader(r.cred, TRUE, w)
         ELSE As(Nobody)

-----------------------------------------------------------------------------
(* The cores, by what they refuse; what else they do is told elsewhere.     *)
RequireOpenChange(row) == IF row = "open" THEN "ok" ELSE "conflict"

Core(op, c, row, w) ==
    CASE op = "Approve" ->
            IF row # "open" THEN "conflict" ELSE IF c.who = "agent" THEN "denied" ELSE "ok"
      [] op \in {"Comment", "Resolve", "RequestReview", "Rerun", "Sync"} -> RequireOpenChange(row)
      [] op = "Land" ->
            IF row = "landed" THEN "landed" ELSE IF row = "abandoned" THEN "conflict" ELSE w.decision
      [] op = "LandStack" -> IF row = "abandoned" THEN "conflict" ELSE "ok"
      [] op \in {"Abandon", "SetAutomerge"} ->
            IF w.row = "none" THEN "missing"
            ELSE IF op = "Abandon" THEN IF w.row = "landed" THEN "conflict" ELSE "ok"
            ELSE RequireOpenChange(w.row)
      [] op = "DeleteProject" -> IF c.who = "agent" THEN "denied" ELSE "ok"
      [] op = "DeleteWorkspace" ->      \* the account's, in these runs
            IF ~w.space THEN "missing"
            ELSE IF c.who \notin {Nobody, "account"} /\ ~c.admin THEN "denied" ELSE "ok"
      [] op = "CreateWorkspace" -> IF w.space THEN "exists" ELSE "ok"
      [] op \in {"GetWorkspace", "UpdateWorkspaceBase"} -> IF w.space THEN "ok" ELSE "missing"
      [] OTHER -> "ok"

\* HTTP statuses and Connect codes, by what the client can tell from them: a
\* land that does not happen is a 409 there and a field of the answer here
Status(answer) ==
    CASE answer = "exists" -> "conflict"
      [] answer \in {"revalidate", "conflicts", "race"} -> "not landed"
      [] OTHER -> answer
ConnectErr(answer) ==
    CASE answer = "exists" -> "already exists"
      [] answer = "conflict" -> "failed precondition"
      [] answer \in {"revalidate", "conflicts", "race"} -> "not landed"
      [] OTHER -> answer
Meaning(code) ==
    IF code \in {"already exists", "failed precondition"} THEN "conflict" ELSE code

AnswerAt(door, a) == IF door = "rpc" THEN ConnectErr(a) ELSE Status(a)

-----------------------------------------------------------------------------
Arriving(r) == [door |-> r.door, op |-> r.op, cred |-> r.cred, at |-> "route", row |-> "none",
                name |-> Nobody, who |-> Nobody, answer |-> "none", act |-> "none"]
Arrivals == {Arriving(r) : r \in Asks}

DoorInit == world \in Worlds /\ turns = 0 /\ ask \in Arrivals

Ends(a) == ask' = [ask EXCEPT !.at = "done", !.answer = a]
Passes(step, a) == IF a = "go" THEN ask' = step ELSE Ends(AnswerAt(ask.door, a))

\* routing and the check of the credential
Enter == /\ ask.at = "route"
         /\ Passes([ask EXCEPT !.at = "look", !.name = Admitted(ask, world).who,
                               !.who = Admitted(ask, world).who], Admit(ask, world))
         /\ UNCHANGED <<world, turns>>

\* GET of the Change row that the core is handed
LookUp == /\ ask.at = "look"
          /\ Passes([ask EXCEPT !.at = "core", !.row = world.row], Look(ask, world))
          /\ UNCHANGED <<world, turns>>

\* the caller is named and the core decides
Decide == /\ ask.at = "core"
          /\ LET c == PrincipalFor(ask, ask.name, world)
                 a == Core(ask.op, c, ask.row, world)
             IN  ask' = [ask EXCEPT !.at = "done", !.answer = AnswerAt(ask.door, a),
                                    !.act = IF a \in {"ok", "landed"} THEN c.who ELSE "none"]
          /\ UNCHANGED <<world, turns>>

Turn(w) == /\ ask.at # "done" /\ turns < MaxTurns /\ w # world
           /\ world' = w /\ turns' = turns + 1 /\ UNCHANGED ask

RevokeAgent == Turn([world EXCEPT !.agent = "ended"])
RemoveMember == Turn([world EXCEPT !.role = "none"])
ClosePublicRead == Turn([world EXCEPT !.public = FALSE])
ArchiveOrg == Turn([world EXCEPT !.org = "archived"])
Directory == Turn([world EXCEPT !.up = ~@])
ChangeEnds == world.row = "open" /\ \E s \in {"landed", "abandoned"} : Turn([world EXCEPT !.row = s])

DoorNext == \/ Enter \/ LookUp \/ Decide \/ RevokeAgent \/ RemoveMember
            \/ ClosePublicRead \/ ArchiveOrg \/ Directory \/ ChangeEnds

DoorSpec == DoorInit /\ [][DoorNext]_doorVars

-----------------------------------------------------------------------------
(* What a request gets that runs in one go.                                 *)
AtOnce(r, w) ==
    LET c == PrincipalFor(r, Admitted(r, w).who, w)
        a == IF Admit(r, w) # "go" THEN Admit(r, w)
             ELSE IF Look(r, w) # "go" THEN Look(r, w)
             ELSE Core(r.op, c, w.row, w)
    IN  AnswerAt(r.door, a)

TwinDoor(r) == [r EXCEPT !.door = IF r.door = "rest" THEN "rpc" ELSE "rest"]
HasTwin(r) == r.door # "git" /\ r.op \in DOMAIN RestHandlers \cap DOMAIN RpcHandlers

\* anonymous readers see a Change's comments through REST only
OneDoorOnly(r) == r.op = "ListComments" /\ r.cred.scheme = "none"

(* "Two transports, one set of semantics": what the REST route of an        *)
(* operation answers while nothing changes is what its Connect procedure    *)
(* answers to the same caller, whatever the credential, the Change's state, *)
(* the membership and the settings are (rpc.go, api.go, auth.go).           *)
DoorsAgree ==
    ask.at = "done" /\ turns = 0 /\ HasTwin(ask) /\ ~OneDoorOnly(ask)
        => Meaning(ask.answer) = Meaning(AtOnce(TwinDoor(ask), world))

(* An act is recorded under the name that the request was let in under:     *)
(* only if the caller's standing changes while the request runs - an agent  *)
(* ended, a membership withdrawn, the directory out of reach - does the     *)
(* second look at the credential find nobody, and then the act is recorded  *)
(* as the deploy token's (principal.go, api.go's requireGitAuth).           *)
ActsAsAdmitted ==
    ask.act # "none" /\ "principal" \in HandlerOf(ask.door, ask.op).asks =>
        ask.act = ask.who \/ (turns > 0 /\ ask.act = Nobody)

(* One set of semantics behind both doors, and every act under the name that   *)
(* was let in (rpc.go, api.go, auth.go).                                       *)
DoorsSound == DoorsAgree /\ ActsAsAdmitted
=============================================================================
