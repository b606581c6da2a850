------------------------------- MODULE OrgHub --------------------------------
(***************************************************************************)
(* One org of the hub from its creation on: the sign-ups and creations     *)
(* that assemble it, side by side, the joins, the operator's archiving,    *)
(* the settings and the GitHub wiring, and boot, which mounts what the     *)
(* directory knows.                                                        *)
(*                                                                         *)
(* Data.  Calls are the requests of a behaviour, each of a kind and with a *)
(* caller; one that failed may be sent again.  An assembly, the server and *)
(* the mirror worker createOrg builds, is known by its call.  Names and    *)
(* passwords that are refused change nothing and are left out, and so is   *)
(* RemoveOrgMember.  The directory is PostgresStore, which survives.       *)
(***************************************************************************)
EXTENDS Naturals, Sequences, SequencesExt

CONSTANTS People, Anonymous,     \* callers; the deploy token
          Calls, Boot, NoCall,   \* requests; the assembly of LoadExisting
          Agendas,               \* what the calls of a behaviour are
          MaxHubTrunk,           \* bound: commits of trunk
          MaxHubFaults           \* bound: failed store or git calls, restarts

Kinds == {"signup", "join", "create", "operator", "bootstrap", "archive",
          "unarchive", "put", "connect"}

ASSUME HubAssumption ==
    /\ Anonymous \notin People /\ {Boot, NoCall} \cap Calls = {} /\ Boot # NoCall
    /\ Agendas \subseteq [Calls -> [kind : Kinds, who : People \cup {Anonymous}]]
    /\ \A a \in Agendas : \A c \in Calls :
          a[c].kind \in {"signup", "join", "create", "bootstrap"} => a[c].who \in People
    /\ MaxHubTrunk \in Nat /\ MaxHubFaults \in Nat

VARIABLES agenda,     \* the calls of this behaviour
          calls,      \* how far each is
          org,        \* the directory row and its settings
          accounts,   \* the accounts of the org
          roles,      \* org_members
          branch,     \* trunk of the org's repository
          mount,      \* OrgHub.orgs: the assembly that serves the org
          closed,     \* OrgHub.archived
          mirrors,    \* orgMirrorWorkers, the workers that run, their remotes
          hubFaults,
          raced,      \* history: two assemblies overlapped
          crossed,    \* history: two settings or two archive calls overlapped
          mishaps     \* history: "cut", a creation was cut off behind its
                      \* retry's back; "blind", a failed look was taken for an
                      \* empty answer

hubVars == <<agenda, calls, org, accounts, roles, branch, mount, closed, mirrors,
             hubFaults, raced, crossed, mishaps>>

----------------------------------------------------------------------------
NoSettings == [desc |-> NoCall, repo |-> NoCall]

Idle == [pc |-> "idle", saw |-> NoSettings, via |-> NoCall]

Kind(c) == agenda[c].kind
Who(c) == agenda[c].who
Is(c, pc) == calls[c].pc = pc
To(c, pc) == calls' = [calls EXCEPT ![c].pc = pc]
Finish(c, how) == calls' = [calls EXCEPT ![c] = [Idle EXCEPT !.pc = how]]

CallOver(c) == calls[c].pc \in {"idle", "done", "refused"}

Mounted == mount # NoCall

Admins == {p \in accounts : roles[p] = "admin"}

\* The calls inside createOrg past its first look, or that seed a trunk.
Assembling == {c \in Calls : calls[c].pc \in
                 {"look", "seed", "ensure", "serve", "member", "workers", "mount"}}

Inside(kinds) == {c \in Calls : Kind(c) \in kinds /\ ~CallOver(c)}

\* handleSignup's look at the org: a creation wants a free name, a join a
\* routable org.  The others begin with one of their own.
SignupBegin(c) ==
    /\ Is(c, "idle") /\ Kind(c) \in {"signup", "join"}
    /\ IF Mounted = (Kind(c) = "join") THEN To(c, "row") ELSE Finish(c, "refused")
    /\ UNCHANGED <<agenda, org, accounts, roles, branch, mount, closed, mirrors,
                   hubFaults, raced, crossed, mishaps>>

\* EnsureOrg before the account, whose row refers to it.
SignupRow(c) ==
    /\ Is(c, "row")
    /\ org' = [org EXCEPT !.row = TRUE]
    /\ To(c, "account")
    /\ UNCHANGED <<agenda, accounts, roles, branch, mount, closed, mirrors,
                   hubFaults, raced, crossed, mishaps>>

\* signupOrRecoverCore: the account is made, or is there from a call before.
SignupAccount(c) ==
    /\ Is(c, "account")
    /\ accounts' = accounts \cup {Who(c)}
    /\ To(c, IF Kind(c) = "signup" THEN "enter" ELSE "role")
    /\ UNCHANGED <<agenda, org, roles, branch, mount, closed, mirrors, hubFaults,
                   raced, crossed, mishaps>>

\* Mutant: every join writes its role.
KeepsRoleNever(role) == FALSE

\* "A recovered re-join must never demote".
KeepsRole(role) == role # "none"

JoinLook(c) ==
    /\ Is(c, "role")
    /\ IF KeepsRole(roles[Who(c)]) THEN Finish(c, "done") ELSE To(c, "join")
    /\ UNCHANGED <<agenda, org, accounts, roles, branch, mount, closed, mirrors,
                   hubFaults, raced, crossed, mishaps>>

JoinWrite(c) ==
    /\ Is(c, "join")
    /\ roles' = [roles EXCEPT ![Who(c)] = "member"]
    /\ Finish(c, "done")
    /\ UNCHANGED <<agenda, org, accounts, branch, mount, closed, mirrors,
                   hubFaults, raced, crossed, mishaps>>

----------------------------------------------------------------------------
\* createOrg: an org that is mounted exists.  Without a creator there is
\* nobody to seed OWNERS with.
CreateBegin(c) ==
    /\ \/ Is(c, "enter")
       \/ Is(c, "idle") /\ Kind(c) \in {"create", "operator"}
    /\ IF Mounted THEN Finish(c, "refused") /\ UNCHANGED raced
       ELSE /\ To(c, IF Who(c) = Anonymous THEN "ensure" ELSE "look")
            /\ raced' = (raced \/ Assembling # {})
    /\ UNCHANGED <<agenda, org, accounts, roles, branch, mount, closed, mirrors,
                   hubFaults, crossed, mishaps>>

\* bootstrapOrgCore seeds an unborn trunk.  (A born one gets a Change.)
BootstrapBegin(c) ==
    /\ Is(c, "idle") /\ Kind(c) = "bootstrap"
    /\ IF ~Mounted \/ closed THEN Finish(c, "refused") /\ UNCHANGED raced
       ELSE IF branch # << >> THEN Finish(c, "done") /\ UNCHANGED raced
       ELSE To(c, "look") /\ raced' = (raced \/ Assembling # {})
    /\ UNCHANGED <<agenda, org, accounts, roles, branch, mount, closed, mirrors,
                   hubFaults, crossed, mishaps>>

AfterSeed(c) == IF Kind(c) = "bootstrap" THEN "done" ELSE "ensure"

\* Mutant: the genesis is always written.
SeedsAlways(tip) == TRUE

\* "A born trunk is left strictly alone".
Seeds(tip) == tip = << >>

\* seedGenesisCommit: ResolveRef ...
SeedLook(c) ==
    /\ Is(c, "look")
    /\ To(c, IF Seeds(branch) THEN "seed" ELSE AfterSeed(c))
    /\ UNCHANGED <<agenda, org, accounts, roles, branch, mount, closed, mirrors,
                   hubFaults, raced, crossed, mishaps>>

\* ... and UpdateRef with no expected value.
SeedWrite(c) ==
    /\ Is(c, "seed")
    /\ branch' = <<Who(c)>>
    /\ To(c, AfterSeed(c))
    /\ UNCHANGED <<agenda, org, accounts, roles, mount, closed, mirrors,
                   hubFaults, raced, crossed, mishaps>>

EnsureOrg(c) ==
    /\ Is(c, "ensure")
    /\ org' = [org EXCEPT !.row = TRUE]
    /\ To(c, "serve")
    /\ UNCHANGED <<agenda, accounts, roles, branch, mount, closed, mirrors,
                   hubFaults, raced, crossed, mishaps>>

\* NewOrgServer: its mirror worker is armed with the stored wiring and filed
\* under the org's name.
NewOrgServer(c) ==
    /\ Is(c, "serve")
    /\ mirrors' = [mirrors EXCEPT !.filed = c, !.remote[c] = org.repo]
    /\ To(c, "member")
    /\ UNCHANGED <<agenda, org, accounts, roles, branch, mount, closed, hubFaults,
                   raced, crossed, mishaps>>

UpsertAdmin(c) ==
    /\ Is(c, "member")
    /\ roles' = IF Who(c) = Anonymous THEN roles
                ELSE [roles EXCEPT ![Who(c)] = "admin"]
    /\ To(c, "workers")
    /\ UNCHANGED <<agenda, org, accounts, branch, mount, closed, mirrors,
                   hubFaults, raced, crossed, mishaps>>

\* StartOrgWorkers runs the mirror worker that is filed under the name.
StartOrgWorkers(c) ==
    /\ Is(c, "workers")
    /\ mirrors' = [mirrors EXCEPT !.running = @ \cup {mirrors.filed}]
    /\ To(c, "mount")
    /\ UNCHANGED <<agenda, org, accounts, roles, branch, mount, closed, hubFaults,
                   raced, crossed, mishaps>>

\* The second look, under the lock, and the mount.
MountOrg(c) ==
    /\ Is(c, "mount")
    /\ IF Mounted THEN Finish(c, "refused") /\ UNCHANGED mount
       ELSE /\ mount' = c
            /\ IF Kind(c) = "create" THEN To(c, "clone") ELSE Finish(c, "done")
    /\ UNCHANGED <<agenda, org, accounts, roles, branch, closed, mirrors,
                   hubFaults, raced, crossed, mishaps>>

\* handleCreateOrg copies the creator's account into the new org.
CloneAccount(c) ==
    /\ Is(c, "clone")
    /\ accounts' = accounts \cup {Who(c)}
    /\ Finish(c, "done")
    /\ UNCHANGED <<agenda, org, roles, branch, mount, closed, mirrors, hubFaults,
                   raced, crossed, mishaps>>

----------------------------------------------------------------------------
\* The hub's settings and archive endpoints and the org's own connect: known
\* orgs only, and routeOrg lets nobody through to an archived one.
ManageBegin(c) ==
    /\ Is(c, "idle") /\ Kind(c) \in {"archive", "unarchive", "put", "connect"}
    /\ IF ~Mounted \/ (closed /\ Kind(c) = "connect")
       THEN Finish(c, "refused") /\ UNCHANGED crossed
       ELSE LET archives == Kind(c) \in {"archive", "unarchive"}
            IN  /\ calls' = [calls EXCEPT ![c] = [Idle EXCEPT
                      !.pc = IF archives THEN "directory" ELSE "read", !.via = mount]]
                /\ crossed' = (crossed \/ Inside(IF archives
                                  THEN {"archive", "unarchive"}
                                  ELSE {"put", "connect"}) # {})
    /\ UNCHANGED <<agenda, org, accounts, roles, branch, mount, closed, mirrors,
                   hubFaults, raced, mishaps>>

\* archiveHandler: SetOrgArchived ...
ArchiveRow(c) ==
    /\ Is(c, "directory")
    /\ org' = [org EXCEPT !.archived = (Kind(c) = "archive")]
    /\ To(c, "map")
    /\ UNCHANGED <<agenda, accounts, roles, branch, mount, closed, mirrors,
                   hubFaults, raced, crossed, mishaps>>

\* ... and the hub's own map.
ArchiveMap(c) ==
    /\ Is(c, "map")
    /\ closed' = (Kind(c) = "archive")
    /\ Finish(c, "done")
    /\ UNCHANGED <<agenda, org, accounts, roles, branch, mount, mirrors,
                   hubFaults, raced, crossed, mishaps>>

GetOrgSettings(c) ==
    /\ Is(c, "read")
    /\ calls' = [calls EXCEPT ![c].pc = "write",
                    ![c].saw = [desc |-> org.desc, repo |-> org.repo]]
    /\ UNCHANGED <<agenda, org, accounts, roles, branch, mount, closed, mirrors,
                   hubFaults, raced, crossed, mishaps>>

\* Mutant: the form's settings replace all.
PutReplaces(c) == [desc |-> c, repo |-> NoCall]

\* handlePutOrgSettings carries the wiring forward.
PutSettings(c) == [desc |-> c, repo |-> calls[c].saw.repo]

\* UpdateOrgSettings: all of them, from either handler.
UpdateOrgSettings(c) ==
    /\ Is(c, "write")
    /\ LET new == IF Kind(c) = "put" THEN PutSettings(c)
                  ELSE [desc |-> calls[c].saw.desc, repo |-> c]
       IN  org' = [org EXCEPT !.desc = new.desc, !.repo = new.repo]
    /\ IF Kind(c) = "put" THEN Finish(c, "done") ELSE To(c, "arm")
    /\ UNCHANGED <<agenda, accounts, roles, branch, mount, closed, mirrors,
                   hubFaults, raced, crossed, mishaps>>

\* SetRemote, on the worker of the server that took the call.
ArmMirror(c) ==
    /\ Is(c, "arm")
    /\ mirrors' = [mirrors EXCEPT !.remote[calls[c].via] = c]
    /\ Finish(c, "done")
    /\ UNCHANGED <<agenda, org, accounts, roles, branch, mount, closed, hubFaults,
                   raced, crossed, mishaps>>

----------------------------------------------------------------------------
\* A Change lands.
LandOnBranch ==
    /\ Mounted /\ ~closed /\ branch # << >> /\ Len(branch) < MaxHubTrunk
    /\ branch' = Append(branch, "land")
    /\ UNCHANGED <<agenda, calls, org, accounts, roles, mount, closed, mirrors,
                   hubFaults, raced, crossed, mishaps>>

HubFault == hubFaults < MaxHubFaults /\ hubFaults' = hubFaults + 1

\* A call of the store or of git fails: 500, and the caller tries again.
CallFails(c) ==
    /\ ~CallOver(c)
    /\ calls[c].pc \notin {"enter", "role", "workers", "mount", "map", "arm"}
    /\ ~(Is(c, "read") /\ Kind(c) = "put")
    /\ HubFault
    /\ calls' = [calls EXCEPT ![c] = Idle]
    /\ mishaps' = mishaps \cup (IF Is(c, "clone") THEN {"cut"} ELSE {})
    /\ UNCHANGED <<agenda, org, accounts, roles, branch, mount, closed, mirrors,
                   raced, crossed>>

\* Two looks take an error for an empty answer and go on: the role of one who
\* joins again, and the wiring a save carries forward.
LookFails(c) ==
    /\ Is(c, "role") \/ (Is(c, "read") /\ Kind(c) = "put")
    /\ HubFault
    /\ To(c, IF Is(c, "role") THEN "join" ELSE "write")
    /\ mishaps' = mishaps \cup {"blind"}
    /\ UNCHANGED <<agenda, org, accounts, roles, branch, mount, closed, mirrors,
                   raced, crossed>>

\* Mutant: boot forgets what is archived.
ArchivedAtBootNever == FALSE

ArchivedAtBoot == org.row /\ org.archived

\* The daemon restarts: LoadExisting assembles every org of the directory;
\* restoreGithubWiring leaves the mirror unarmed if it cannot read the wiring.
HubRestart ==
    /\ HubFault
    /\ calls' = [c \in Calls |-> IF CallOver(c) THEN calls[c] ELSE Idle]
    /\ mount' = IF org.row THEN Boot ELSE NoCall
    /\ closed' = ArchivedAtBoot
    /\ \E repo \in {org.repo, NoCall} :
          /\ mirrors' = [filed |-> IF org.row THEN Boot ELSE NoCall,
                         running |-> IF org.row THEN {Boot} ELSE {},
                         remote |-> [a \in Calls \cup {Boot} |->
                                       IF a = Boot THEN repo ELSE NoCall]]
          /\ mishaps' = mishaps
                \cup (IF org.row /\ Admins = {} THEN {"cut"} ELSE {})
                \cup (IF repo # org.repo THEN {"blind"} ELSE {})
    /\ UNCHANGED <<agenda, org, accounts, roles, branch, raced, crossed>>

HubInit ==
    /\ agenda \in Agendas /\ calls = [c \in Calls |-> Idle]
    /\ org = [row |-> FALSE, archived |-> FALSE, desc |-> NoCall, repo |-> NoCall]
    /\ accounts = {} /\ roles = [p \in People |-> "none"] /\ branch = << >>
    /\ mount = NoCall /\ closed = FALSE /\ hubFaults = 0
    /\ mirrors = [filed |-> NoCall, running |-> {},
                  remote |-> [a \in Calls \cup {Boot} |-> NoCall]]
    /\ raced = FALSE /\ crossed = FALSE /\ mishaps = {}

HubNext ==
    \/ \E c \in Calls :
          \/ SignupBegin(c) \/ SignupRow(c) \/ SignupAccount(c)
          \/ JoinLook(c) \/ JoinWrite(c)
          \/ CreateBegin(c) \/ BootstrapBegin(c) \/ SeedLook(c) \/ SeedWrite(c)
          \/ EnsureOrg(c) \/ NewOrgServer(c) \/ UpsertAdmin(c)
          \/ StartOrgWorkers(c) \/ MountOrg(c) \/ CloneAccount(c)
          \/ ManageBegin(c) \/ ArchiveRow(c) \/ ArchiveMap(c)
          \/ GetOrgSettings(c) \/ UpdateOrgSettings(c) \/ ArmMirror(c)
          \/ CallFails(c) \/ LookFails(c)
    \/ LandOnBranch \/ HubRestart

HubSpec == HubInit /\ [][HubNext]_hubVars

----------------------------------------------------------------------------
(* Properties.                                                             *)

\* OrgHasAdmin - an org that is served has an admin who can sign in, unless
\* the deploy token made it, a restart found its creation unfinished, copying
\* the account failed (the retries the comments promise then find the org
\* mounted and are refused) or a failed look at their role let the admin's own
\* re-join demote them (handleSignup, handleCreateOrg, LoadExisting).
\* While a creation waits to copy the account, it is about to.
OrgHasAdmin ==
    (Mounted /\ \A c \in Calls : Kind(c) # "operator" /\ ~Is(c, "clone")) =>
        mishaps # {} \/ Admins # {}

\* TrunkKept - "A born trunk is left strictly alone": trunk never loses a
\* commit to a genesis, whatever is retried, bootstrapped and restarted, as
\* long as no two creations of the org overlap (seedGenesisCommit).
TrunkKept == [][IsPrefix(branch, branch') \/ raced]_hubVars

\* ArchiveAgrees - an org the directory has archived is closed and no other
\* is, across restarts, once the calls are over, unless two of them crossed
\* (archiveHandler, LoadExisting).
ArchiveAgrees ==
    (Mounted /\ Inside({"archive", "unarchive"}) = {}) =>
        closed = org.archived \/ crossed

\* WiringAgrees - the repository the settings name is the one a running
\* mirror worker of the serving assembly pushes to, across saved settings,
\* connects and restarts, unless creations or settings calls overlapped or the
\* stored wiring could not be read
\* (handlePutOrgSettings, handleGithubConnect, restoreGithubWiring).
WiringAgrees ==
    (Mounted /\ Inside({"put", "connect"}) = {}) =>
        \/ mount \in mirrors.running /\ mirrors.remote[mount] = org.repo
        \/ raced \/ crossed \/ "blind" \in mishaps

\* HubSound - what is served agrees with the directory: an org has an admin, is
\* closed when archived, and mirrors to the repository its settings name, the
\* named mishaps and crossings apart (orghub.go).
HubSound == OrgHasAdmin /\ ArchiveAgrees /\ WiringAgrees
=============================================================================
