----------------------------- MODULE MergeGate ------------------------------
(***************************************************************************)
(* What a Change needs before it lands: the merge requirements computed    *)
(* from the head's tree and from trunk's manifests, the agent-policy check *)
(* the receive funnel mints for an agent's push, and the reviews and       *)
(* acknowledgements that satisfy them, while pushes, syncs and other lands *)
(* move the head and trunk under the gate's reads.                         *)
(*                                                                         *)
(* Data.  One Change.  A tree says of every directory that is or may       *)
(* become a project what it holds, its manifest, and the owners of the     *)
(* nearest OWNERS file (else the org's default).  A delta is the files it  *)
(* touches, what it writes of that, and whether it breaks a content rule   *)
(* of the agent policy (denylist, size).  The affected projects are the    *)
(* owners of the files; module Affected has the closure.  Changes sit on   *)
(* trunk and replay without conflict; ChangeServer has the rest of a land. *)
(***************************************************************************)
EXTENDS Naturals, Sequences

CONSTANTS Subtrees,        \* the directories that are projects or may be
          Around,          \* those around each file, innermost first
          Humans, Agents,  \* the principals
          OwnerRefs,       \* what manifests name as owners
          GatedChecks,     \* the check names of manifests, org and lane
          GlobalChecks,    \* the checks the daemon requires of every Change
          Lane,            \* the bot lane: [files, checks]
          GatePlans        \* the cases: settings, the agents' policy, deltas,
                           \* trunk's trees, pushers, landers, reports, and how
                           \* many versions

AgentPolicyCheckName == "agent-policy"
CheckNames == GatedChecks \cup {AgentPolicyCheckName}

\* A directory: empty, with files, or a project, which alone declares anything.
Manifest ==
    {m \in [dir : {"empty", "files", "project"}, owners : SUBSET OwnerRefs,
            near : SUBSET OwnerRefs, auto : {"undeclared", "yes", "no"},
            checks : SUBSET GatedChecks] :
        m.dir # "project" =>
            m.owners = {} /\ m.auto = "undeclared" /\ m.checks = {}}

TrunkTree == [Subtrees -> Manifest]
IsWritten(m) == DOMAIN m \subseteq Subtrees /\ \A s \in DOMAIN m : m[s] \in Manifest
IsDelta(d) == /\ d.files \subseteq DOMAIN Around /\ IsWritten(d.manifests)
              /\ d.flagged \in BOOLEAN

ASSUME MergeGateAssumption ==
    /\ AgentPolicyCheckName \notin GatedChecks
    /\ GlobalChecks \subseteq GatedChecks /\ Humans \cap Agents = {}
    /\ \A f \in DOMAIN Around : Around[f] \in Seq(Subtrees) \ {<< >>}
    /\ \A p \in GatePlans :
          /\ p.trees \in Seq(TrunkTree) \ {<< >>} /\ p.pushers \subseteq Humans \cup Agents
          /\ DOMAIN p.deltas \subseteq Nat
          /\ \A d \in DOMAIN p.deltas : IsDelta(p.deltas[d])
          /\ p.policy \in [create : BOOLEAN, owners : BOOLEAN]

VARIABLES plan,       \* the case
          tips,       \* the trees of trunk, oldest first
          heads,      \* the versions: [onto, delta, author]
          standing,   \* the row: [state, head, described]
          granted,    \* the version each owner ref is approved at
          verdicts,   \* check_runs: per version and name
          veto,       \* the org's disable_auto_approve
          threads,    \* review threads: "none", "open" or "resolved"
          pusher, reviewer, lander,   \* the requests in flight
          landing     \* the land, once it happened

\* History only: what humans judged, and the versions whose finding was shed.
VARIABLES judged, shed

gateSettings == <<plan, veto, threads>>
gateRows == <<heads, standing>>
gateResults == <<granted, verdicts>>
gateHistory == <<judged, shed>>
gateVars == <<gateSettings, tips, gateRows, gateResults, pusher, reviewer,
              lander, landing, gateHistory>>

----------------------------------------------------------------------------
NoPushing == [step |-> "idle"]
NoReview == [step |-> "idle"]
NoLand == [step |-> "idle"]
NotLanded == [head |-> 0]

HeadSHA == standing.head
Version(n) == heads[n]
DeltaOf(n) == plan.deltas[Version(n).delta]
Files(n) == DeltaOf(n).files
Encloses(s, f) == \E i \in DOMAIN Around[f] : Around[f][i] = s

\* The tree of a version: what the delta writes over its base.
Overwrite(d, base) ==
    [s \in Subtrees |->
        IF s \in DOMAIN d.manifests THEN d.manifests[s]
        ELSE IF base[s].dir = "empty" /\ \E f \in d.files : Encloses(s, f)
             THEN [base[s] EXCEPT !.dir = "files"] ELSE base[s]]

BaseOf(n) == tips[Version(n).onto]
TreeAt(n) == Overwrite(DeltaOf(n), BaseOf(n))

IsAgent(who) == who \in Agents

\* owningProject: the longest prefix, if any project has the file.
OwningProject(tree, f) ==
    {Around[f][i] : i \in {i \in DOMAIN Around[f] :
        /\ tree[Around[f][i]].dir = "project"
        /\ \A j \in 1 .. i - 1 : tree[Around[f][j]].dir # "project"}}

\* resolveOwners: the manifest's owners win over the nearest OWNERS file's.
ResolvedOwners(m) == IF m.owners # {} THEN m.owners ELSE m.near

OwnersOf(tree, f) ==
    UNION {ResolvedOwners(tree[s]) : s \in OwningProject(tree, f)}

\* AutoApproved: the innermost project that declares decides.
AutoApproved(zones, f) ==
    \E i \in DOMAIN Around[f] :
        /\ zones[Around[f][i]].auto = "yes"
        /\ \A j \in 1 .. i - 1 : zones[Around[f][j]].auto = "undeclared"

AutoApprovedAll(zones, n) ==
    Files(n) # {} /\ \A f \in Files(n) : AutoApproved(zones, f)

\* autoApproveZones' nil: no project declares anything.
NoZones ==
    [s \in Subtrees |-> [dir |-> "empty", owners |-> {}, near |-> {},
                         auto |-> "undeclared", checks |-> {}]]

\* autoApproveZones: trunk's, unless the org vetoes or cannot be asked.
AutoApproveZones(readable) ==
    IF veto \/ ~readable THEN NoZones ELSE tips[Len(tips)]

RequiredCheckNames(n) ==
    GlobalChecks
    \cup UNION {TreeAt(n)[s].checks :
                   s \in UNION {OwningProject(TreeAt(n), f) : f \in Files(n)}}

RequiredOwners(n) == UNION {OwnersOf(TreeAt(n), f) : f \in Files(n)}

\* An owner whose every contributing file is in a zone.
AutoOnly(o, n, zones) ==
    \A f \in Files(n) : o \in OwnersOf(TreeAt(n), f) => AutoApproved(zones, f)

\* Mutant: an approval of any head counts.
OutstandingOfAnyHead(n, zones) ==
    {o \in RequiredOwners(n) :
        /\ granted[o] = 0
        /\ ~(o = Version(n).author /\ ~IsAgent(o))
        /\ ~AutoOnly(o, n, zones)}

\* ownerRequirements: the owners still outstanding.  An approval counts for the
\* head it was granted for; a human author needs no approval of his own.
OutstandingOwners(n, zones) ==
    {o \in RequiredOwners(n) :
        /\ granted[o] # n
        /\ ~(o = Version(n).author /\ ~IsAgent(o))
        /\ ~AutoOnly(o, n, zones)}

\* ComputeMergeRequirements' checks, and the reserved one once it was minted.
RequiredChecks(n, runs, fullyAuto, lane) ==
    RequiredCheckNames(n)
    \cup (IF runs[AgentPolicyCheckName] # "none" /\ ~fullyAuto
          THEN {AgentPolicyCheckName} ELSE {})
    \cup (IF lane THEN Lane.checks ELSE {})

\* Mergeable, from what mergeRequirements has read by now.
Mergeable(l) ==
    LET n == l.row.head
        lane == l.as = "lane"
        fullyAuto == ~lane /\ AutoApprovedAll(l.zones, n)
        required == RequiredChecks(n, l.runs, fullyAuto, lane)
    IN  /\ \A k \in required : l.runs[k] = "passed"
        /\ lane \/ OutstandingOwners(n, l.zones) = {}
        /\ lane \/ fullyAuto \/ required # {} \/ RequiredOwners(n) # {}
        /\ \/ lane \/ ~plan.describe \/ l.row.described
           \/ ~IsAgent(Version(n).author)
        /\ lane \/ ~plan.resolve \/ threads # "open"

----------------------------------------------------------------------------
(* Push and sync: the row, the carry-forward, the agent-policy check.      *)

\* classifyOwnershipTouch: a new manifest creates a project where the base has
\* nothing, and modifies owners where it has files, like any other write of a
\* manifest or of an OWNERS file.
Creates(base, d) == {s \in DOMAIN d.manifests : base[s].dir = "empty"}

\* Mutant: only a manifest that the base has is one.
ModifiesManifests(base, d) ==
    \E s \in DOMAIN d.manifests : \/ base[s].dir = "project"
                                  \/ d.manifests[s].near # base[s].near

ModifiesOwners(base, d) ==
    \E s \in DOMAIN d.manifests : \/ base[s].dir # "empty"
                                  \/ d.manifests[s].near # base[s].near

\* EvaluatePolicy's ackable violations: sizes and denylist, owners, creations,
\* and an agent that names itself an owner of what it creates.
EvaluatePolicy(base, d, who) ==
    \/ d.flagged
    \/ ModifiesOwners(base, d) /\ ~plan.policy.owners
    \/ Creates(base, d) # {} /\ ~plan.policy.create
    \/ \E s \in Creates(base, d) : who \in d.manifests[s].owners

\* enforcePerChangeCaps: only an agent's push is measured, against its parent.
FindingsOf(v) ==
    IsAgent(v.author) /\ EvaluatePolicy(tips[v.onto], plan.deltas[v.delta], v.author)
Findings(n) == FindingsOf(Version(n))

\* CreateOrUpdateChange; the request keeps the row it read before.
WriteHead(n, kind) ==
    /\ standing' = [standing EXCEPT !.head = n, !.state = "open"]
    /\ pusher' = [step |-> "carry", kind |-> kind, head |-> n, old |-> standing]

OnTip(d, who) == [onto |-> Len(tips), delta |-> d, author |-> who]

NewVersion(d, who) ==
    /\ Len(heads) < plan.versions
    /\ heads' = Append(heads, OnTip(d, who))
    /\ verdicts' = Append(verdicts, [k \in CheckNames |-> "none"])

\* The funnel accepts a push: a new version or the head once more.
Push(who) ==
    /\ pusher.step = "idle" /\ standing.state # "landed"
    /\ \/ /\ \E d \in DOMAIN plan.deltas : NewVersion(d, who)
          /\ WriteHead(Len(heads) + 1, "push")
       \/ /\ HeadSHA # 0 /\ Version(HeadSHA).author = who
          /\ WriteHead(HeadSHA, "push")
          /\ UNCHANGED <<heads, verdicts>>
    /\ UNCHANGED <<gateSettings, gateHistory, tips, granted, reviewer, lander,
                   landing>>

\* Same delta on a new base.
TrivialRebaseOf(old, n) ==
    /\ old.state = "open" /\ old.head \notin {0, n}
    /\ Version(old.head).delta = Version(n).delta

\* syncChangeCore: the open head onto trunk's tip, under its author's name.
\* It mints nothing: a finding not yet acknowledged does not follow, and one
\* that the new base makes is not seen.
Sync ==
    /\ pusher.step = "idle" /\ standing.state = "open"
    /\ Version(HeadSHA).onto # Len(tips)
    /\ NewVersion(Version(HeadSHA).delta, Version(HeadSHA).author)
    /\ WriteHead(Len(heads) + 1, "sync")
    /\ shed' = IF /\ FindingsOf(OnTip(Version(HeadSHA).delta,
                                        Version(HeadSHA).author))
                  /\ verdicts[HeadSHA][AgentPolicyCheckName] # "passed"
               THEN shed \cup {Len(heads) + 1} ELSE shed
    /\ UNCHANGED <<gateSettings, tips, granted, reviewer, lander, landing,
                   judged>>

\* CopyPassingCheckRuns.
CarriedVerdicts(old, n) ==
    [k \in CheckNames |->
        IF verdicts[n][k] = "none" /\ verdicts[old][k] = "passed"
        THEN "passed" ELSE verdicts[n][k]]

\* carryForwardTrivialRebase, and whether it covers the new head.  A write that
\* the store refuses is logged only.
Carry ==
    /\ pusher.step = "carry"
    /\ \E kept \in IF plan.faults THEN SUBSET OwnerRefs ELSE {OwnerRefs},
          copied \in IF plan.faults THEN BOOLEAN ELSE {TRUE} :
       LET n == pusher.head
           old == pusher.old
           trivial == TrivialRebaseOf(old, n)
           copies == trivial /\ plan.tier = "conflict-only" /\ copied
           after == IF copies THEN CarriedVerdicts(old.head, n) ELSE verdicts[n]
           covered == /\ copies
                      /\ \A k \in RequiredCheckNames(n) : after[k] = "passed"
       IN  /\ granted' = IF trivial
                         THEN [o \in OwnerRefs |->
                                  IF o \in kept /\ granted[o] = old.head
                                  THEN n ELSE granted[o]]
                         ELSE granted
           /\ verdicts' = [verdicts EXCEPT ![n] = after]
           /\ pusher' = IF pusher.kind = "push" /\ Findings(n)
                        THEN [step |-> "mint", head |-> n, covered |-> covered]
                        ELSE NoPushing
    /\ UNCHANGED <<gateSettings, gateRows, gateHistory, tips, reviewer,
                   lander, landing>>

\* Mutant: a covered head needs no new finding.
CarriedAnything(n, covered) == covered

\* The carried acknowledgement that is not minted over.
CarriedAck(n, covered) ==
    covered /\ verdicts[n][AgentPolicyCheckName] = "passed"

\* A member with findings owes the check, unless the store refuses the write,
\* which is logged only; an acknowledgement that cannot be read is minted over.
Mint ==
    /\ pusher.step = "mint" /\ pusher' = NoPushing
    /\ LET n == pusher.head IN
          \/ /\ verdicts' =
                   IF CarriedAck(n, pusher.covered) THEN verdicts
                   ELSE [verdicts EXCEPT ![n][AgentPolicyCheckName] = "failed"]
             /\ UNCHANGED shed
          \/ /\ plan.faults /\ UNCHANGED shed
             /\ verdicts' = [verdicts EXCEPT ![n][AgentPolicyCheckName] = "failed"]
          \/ /\ plan.faults /\ shed' = shed \cup {n}
             /\ UNCHANGED verdicts
    /\ UNCHANGED <<gateSettings, gateRows, tips, granted, reviewer, lander,
                   landing, judged>>

----------------------------------------------------------------------------
(* Reviews, reports, settings.                                             *)

\* approveChangeCore up to its write: a human, not the author, an open row.
ApproveRead(h, o) ==
    /\ reviewer.step = "idle" /\ standing.state = "open"
    /\ Version(HeadSHA).author # h /\ o \in RequiredOwners(HeadSHA)
    /\ reviewer' = [step |-> "approve", head |-> HeadSHA, owner |-> o]
    /\ judged' = judged \cup {<<Version(HeadSHA).delta, "approval">>}
    /\ UNCHANGED <<gateSettings, gateRows, gateResults, tips, pusher, lander,
                   landing, shed>>

\* ackPolicyCore up to its write: a run that no one acknowledged yet.
AckRead ==
    /\ reviewer.step = "idle" /\ standing.state = "open"
    /\ verdicts[HeadSHA][AgentPolicyCheckName] = "failed"
    /\ reviewer' = [step |-> "ack", head |-> HeadSHA]
    /\ judged' = judged \cup {<<Version(HeadSHA).delta, "findings">>}
    /\ UNCHANGED <<gateSettings, gateRows, gateResults, tips, pusher, lander,
                   landing, shed>>

\* RecordApproval or UpsertCheckRun, for the head of the snapshot.
ReviewWrite ==
    /\ reviewer' = NoReview
    /\ \/ /\ reviewer.step = "approve"
          /\ granted' = [granted EXCEPT ![reviewer.owner] = reviewer.head]
          /\ UNCHANGED verdicts
       \/ /\ reviewer.step = "ack"
          /\ verdicts' = [verdicts EXCEPT
                            ![reviewer.head][AgentPolicyCheckName] = "passed"]
          /\ UNCHANGED granted
    /\ UNCHANGED <<gateSettings, gateRows, gateHistory, tips, pusher, lander,
                   landing>>

\* handlePostCheck: never the reserved name.  A report of a failure gates as
\* no report does and is left out.
PostCheck(k) ==
    /\ standing.state = "open" /\ k \in plan.reports
    /\ verdicts[HeadSHA][k] # "passed"
    /\ verdicts' = [verdicts EXCEPT ![HeadSHA][k] = "passed"]
    /\ UNCHANGED <<gateSettings, gateRows, gateHistory, tips, granted, pusher,
                   reviewer, lander, landing>>

\* describe; a comment and its resolution; the org's veto.
Describe ==
    /\ plan.describe /\ standing.state = "open" /\ ~standing.described
    /\ standing' = [standing EXCEPT !.described = TRUE]
    /\ UNCHANGED <<gateSettings, gateResults, gateHistory, tips, heads,
                   pusher, reviewer, lander, landing>>

Converse ==
    /\ plan.resolve /\ standing.state = "open" /\ threads # "resolved"
    /\ threads' = IF threads = "none" THEN "open" ELSE "resolved"
    /\ UNCHANGED <<gateRows, gateResults, gateHistory, plan, tips, veto,
                   pusher, reviewer, lander, landing>>

DisableAutoApprove ==
    /\ plan.vetoes /\ ~veto /\ veto' = TRUE
    /\ UNCHANGED <<gateRows, gateResults, gateHistory, plan, tips, threads,
                   pusher, reviewer, lander, landing>>

\* Another Change lands and trunk's manifests are others.
TrunkMoves ==
    /\ Len(tips) < Len(plan.trees) /\ standing.state = "open"
    /\ tips' = Append(tips, plan.trees[Len(tips) + 1])
    /\ UNCHANGED <<gateSettings, gateRows, gateResults, gateHistory, pusher,
                   reviewer, lander, landing>>

----------------------------------------------------------------------------
(* Land: landChangeCore's reads, one after the other.                      *)

\* pathsOutsideAllowlist is empty.
LaneCovers(n) == Files(n) \subseteq Lane.files

\* The row, and for a lane its allowlist.
LandRead(as) ==
    /\ lander.step = "idle" /\ standing.state = "open" /\ as \in plan.landers
    /\ as = "lane" => LaneCovers(HeadSHA)
    /\ lander' = [step |-> "runs", as |-> as, row |-> standing]
    /\ UNCHANGED <<gateSettings, gateRows, gateResults, gateHistory, tips,
                   pusher, reviewer, landing>>

\* ListCheckRuns.  A push that has written its row and not yet minted the
\* check leaves a head without its finding.
GateRuns ==
    /\ lander.step = "runs"
    /\ LET n == lander.row.head IN
          /\ lander' = [step |-> "zones", as |-> lander.as, row |-> lander.row,
                        runs |-> verdicts[n]]
          /\ shed' = IF /\ pusher.step # "idle" /\ pusher.head = n /\ Findings(n)
                        /\ verdicts[n][AgentPolicyCheckName] = "none"
                     THEN shed \cup {n} ELSE shed
    /\ UNCHANGED <<gateSettings, gateRows, gateResults, tips, pusher,
                   reviewer, landing, judged>>

\* The org's settings (which may be unreadable) and trunk's manifests.
GateZones ==
    /\ lander.step = "zones"
    /\ \E readable \in IF plan.faults THEN BOOLEAN ELSE {TRUE} :
          lander' = [step |-> "owners", as |-> lander.as, row |-> lander.row,
                     runs |-> lander.runs, tip |-> Len(tips), vetoed |-> veto,
                     zones |-> AutoApproveZones(readable)]
    /\ UNCHANGED <<gateSettings, gateRows, gateResults, gateHistory, tips,
                   pusher, reviewer, landing>>

\* The approvals and the threads; then the land, if the gate lets it pass.
GateOwners ==
    /\ lander.step = "owners"
    /\ lander' = IF Mergeable(lander) \/ lander.as = "force"
                 THEN [step |-> "land", as |-> lander.as, tip |-> lander.tip,
                       head |-> lander.row.head, vetoed |-> lander.vetoed,
                       forced |-> ~Mergeable(lander)]
                 ELSE NoLand
    /\ UNCHANGED <<gateSettings, gateRows, gateResults, gateHistory, tips,
                   pusher, reviewer, landing>>

\* attemptLand and MarkChangeLanded: the head the gate was computed for.
Land ==
    /\ lander.step = "land" /\ lander' = NoLand
    /\ landing' = [head |-> lander.head, tip |-> lander.tip, as |-> lander.as,
                   vetoed |-> lander.vetoed, forced |-> lander.forced]
    /\ standing' = [standing EXCEPT !.state = "landed"]
    /\ tips' = Append(tips, Overwrite(DeltaOf(lander.head), tips[Len(tips)]))
    /\ UNCHANGED <<gateSettings, gateResults, gateHistory, heads, pusher,
                   reviewer>>

----------------------------------------------------------------------------
GateInit ==
    /\ plan \in GatePlans
    /\ tips = <<plan.trees[1]>>
    /\ heads = << >> /\ verdicts = << >>
    /\ standing = [state |-> "none", head |-> 0, described |-> FALSE]
    /\ granted = [o \in OwnerRefs |-> 0]
    /\ veto = FALSE /\ threads = "none"
    /\ pusher = NoPushing /\ reviewer = NoReview /\ lander = NoLand
    /\ landing = NotLanded /\ judged = {} /\ shed = {}

GateNext ==
    \/ \E who \in plan.pushers : Push(who)
    \/ Sync \/ Carry \/ Mint
    \/ \E h \in Humans, o \in OwnerRefs : ApproveRead(h, o)
    \/ AckRead \/ ReviewWrite
    \/ \E k \in GatedChecks : PostCheck(k)
    \/ Describe \/ Converse \/ DisableAutoApprove \/ TrunkMoves
    \/ \E as \in {"human", "lane", "force"} : LandRead(as)
    \/ GateRuns \/ GateZones \/ GateOwners \/ Land

GateSpec == GateInit /\ [][GateNext]_gateVars

----------------------------------------------------------------------------
Unforced == landing.head # 0 /\ ~landing.forced

\* What trunk let pass without review when the gate read it.
InZone(f) == ~landing.vetoed /\ AutoApproved(tips[landing.tip], f)

\* A finding of the agent policy gates every land: the findings of what landed
\* were acknowledged, or trunk declared all of it a zone; unless the check was
\* shed: by a sync before the acknowledgement or onto a trunk that makes it a
\* finding, by a failed write, or by a gate that read the runs inside the push.
FindingsAcknowledged ==
    Unforced /\ Findings(landing.head) =>
        \/ <<Version(landing.head).delta, "findings">> \in judged
        \/ landing.head \in shed
        \/ landing.as # "lane" /\ \A f \in Files(landing.head) : InZone(f)

\* What the policy lets an agent write unasked around a file: owners, where the
\* org allows it, and a project of nobody's or of somebody else's in a
\* directory that held nothing, which leaves the owners around it behind.
Entrusted(n, f) ==
    \E s \in DOMAIN DeltaOf(n).manifests :
        /\ Encloses(s, f)
        /\ \/ plan.policy.owners
           \/ /\ plan.policy.create /\ BaseOf(n)[s].dir = "empty"
              /\ Version(n).author \notin DeltaOf(n).manifests[s].owners

\* A change cannot declare its way past its own gate: when an agent's change
\* lands outside a lane, touching a file that has owners on the trunk it was
\* based on, that trunk did not declare a zone and the policy did not entrust to
\* it, a human judged that delta.
HumanInLoop ==
    Unforced /\ landing.as # "lane" /\ IsAgent(Version(landing.head).author) =>
        \A f \in Files(landing.head) :
            \/ OwnersOf(BaseOf(landing.head), f) = {}
            \/ InZone(f) \/ Entrusted(landing.head, f)
            \/ \E how \in {"approval", "findings"} :
                   <<Version(landing.head).delta, how>> \in judged
            \/ landing.head \in shed

\* GateHolds - the two promises of the gate to the humans around an agent: a
\* finding is acknowledged before it lands, and an agent's delta on owned files is
\* judged by one of them (mergeRequirements).
GateHolds == FindingsAcknowledged /\ HumanInLoop
=============================================================================
