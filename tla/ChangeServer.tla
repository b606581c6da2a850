---------------------------- MODULE ChangeServer ----------------------------
(***************************************************************************)
(* The Change lifecycle of runkod under concurrent requests: the rows of   *)
(* the changes table, the git refs the daemon moves, and the requests that *)
(* move them - push, sync, approve, report a check, rerun a check, abandon *)
(* and land.  Every request runs in a goroutine of its own with no lock    *)
(* across its steps: a handler reads the row once (GetChange) and works    *)
(* from that snapshot until it writes, so a handler is a record that       *)
(* carries the snapshot from step to step.                                 *)
(*                                                                         *)
(* Data.  A commit pushed for a Change is a number, its version; version n *)
(* of Change c is commits[c][n], which says on which trunk commit it sits  *)
(* and which delta (diff and message) it carries.  A trunk commit is its   *)
(* position on trunk, 0 standing for the unborn trunk's empty base.        *)
(* Changes here sit on trunk directly (base_sha is a trunk commit), so     *)
(* refuseUnlandedParent always lets them pass.  Pushes carry no findings   *)
(* of the agent policy.  What a land sets off in other components (its     *)
(* event, deploy record, workspace close, automerge, mirror) changes none  *)
(* of this state; the module Rollout has change.landed.                    *)
(***************************************************************************)
EXTENDS Naturals, Sequences, FiniteSets

CONSTANTS Changes,             \* the Change-Ids
          NoChange,            \* not a Change-Id
          Handlers,            \* the requests the daemon serves at one time
          Owners,              \* owner refs every Change requires
          Checks,              \* check names every Change requires
          Touches,             \* the affected projects of each Change
          Scope,               \* the org's revalidation tier
          MaxLandRaceRetries,  \* attemptLand's retry bound
          AtomicStore,         \* TRUE: MemStore, FALSE: PostgresStore
          PromptCI,            \* TRUE: CI reports only on the current head
          MaxFailures,         \* bound: failed calls, requests that end midway
          Requests,            \* the kinds of request the clients send
          MaxHeads, MaxTrunk   \* bounds: versions of a Change, trunk length

RequestKinds == {"land", "force", "push", "sync", "approve", "report",
                 "rerun", "abandon"}

Scopes == {"conflict-only", "affected-intersection", "always", "never"}

ASSUME ChangesAssumption == NoChange \notin Changes
ASSUME BoundsAssumption ==
    /\ MaxHeads \in Nat \ {0} /\ MaxTrunk \in Nat
    /\ MaxLandRaceRetries \in Nat \ {0} /\ MaxFailures \in Nat
ASSUME PolicyAssumption ==
    /\ Scope \in Scopes /\ Requests \subseteq RequestKinds
    /\ DOMAIN Touches = Changes
    /\ {AtomicStore, PromptCI} \subseteq BOOLEAN
    /\ Owners \cap Checks = {} /\ "" \notin Owners \cup Checks

VARIABLES row,        \* the changes table: one row per Change-Id
          commits,    \* git: the versions pushed for each Change
          ref,        \* git: refs/changes/<id>/head, as a version (0: absent)
          trunk,      \* git: the commits of refs/heads/<trunk>, oldest first
          approvals,  \* approvals table: the version each owner approved
          runs,       \* check_runs table: a verdict per version and check
          outbox,     \* the webhook events enqueued so far
          hs,         \* the requests in flight
          failures    \* how many calls failed

\* History only: what owners were shown, what CI really tested, and the events
\* that a failure kept out of the outbox, in a log at best.
VARIABLES reviewed, tested, dropped

git == <<commits, ref, trunk>>
db == <<row, approvals, runs, outbox>>
evidence == <<reviewed, tested>>
history == <<reviewed, tested, dropped, failures>>
vars == <<row, commits, ref, trunk, approvals, runs, outbox, hs, failures,
          reviewed, tested, dropped>>

----------------------------------------------------------------------------
States == {"none", "open", "abandoned", "landed"}
Versions == 0 .. MaxHeads
Verdicts == {"none", "queued", "failed", "passed"}

Row == [state : States, head : Versions, landedSHA : Nat, forced : BOOLEAN]

NoRow == [state |-> "none", head |-> 0, landedSHA |-> 0, forced |-> FALSE]

Commit == [base : Nat, delta : 1 .. MaxHeads]

TrunkCommit == [change : Changes \cup {NoChange}, head : Versions,
                onto : Nat, forced : BOOLEAN]

Event == [type : {"change.updated", "change.check_rerun"},
          change : Changes, head : Nat, check : Checks \cup {""}]

Updated(c, n) == [type |-> "change.updated", change |-> c, head |-> n, check |-> ""]
\* (the head that a rerun names is left out)
Rerun(c, k) == [type |-> "change.check_rerun", change |-> c, head |-> 0, check |-> k]

PCs == {"idle", "gate", "attempt", "advance", "record", "pushref",
        "pushread", "pushrow", "syncref", "syncrow", "carry", "announce",
        "approve", "report", "rerun", "notify", "abandon"}

Handler == [pc : PCs, change : Changes \cup {NoChange}, snap : Row,
            head : Versions, who : Owners \cup Checks \cup {""},
            verdict : Verdicts, force : BOOLEAN, mergeable : BOOLEAN,
            tip : Nat, tries : Nat]

Idle == [pc |-> "idle", change |-> NoChange, snap |-> NoRow, head |-> 0,
         who |-> "", verdict |-> "none", force |-> FALSE,
         mergeable |-> FALSE, tip |-> 0, tries |-> 0]

\* The delta and the base of version n of Change c.
Delta(c, n) == commits[c][n].delta
Base(c, n) == commits[c][n].base

\* A handler takes up a request, with what it read if it uses that again, moves
\* on, or answers.
Takes(c, pc) == [Idle EXCEPT !.pc = pc, !.change = c]
Begin(c, pc) == [Takes(c, pc) EXCEPT !.snap = row[c]]
Goto(h, pc) == hs' = [hs EXCEPT ![h].pc = pc]
Answer(h) == hs' = [hs EXCEPT ![h] = Idle]
At(h, pc) == hs[h].pc = pc
Serves(h, kind) == At(h, "idle") /\ kind \in Requests

CallFails == failures < MaxFailures /\ failures' = failures + 1
Drops(events) == CallFails /\ dropped' = dropped \cup events
Works == UNCHANGED <<failures, dropped>>

\* A failed EnqueueWebhook is logged, and the request goes on without it.
Enqueue(e) ==
    \/ outbox' = outbox \cup {e} /\ Works
    \/ UNCHANGED outbox /\ Drops({e})

----------------------------------------------------------------------------
(* Push: the receive funnel (ProcessBatch: evaluate, then commit).         *)

\* Mutants: the upsert opens the row whatever its state; only reopens.
CreateOrUpdateAlwaysOpens(c, n) ==
    row' = [row EXCEPT ![c].head = n, ![c].state = "open"]
CreateOrUpdateOnlyReopens(c, n) ==
    row' = [row EXCEPT ![c].head = n,
                       ![c].state = IF @ = "abandoned" THEN "open" ELSE @]

\* CreateOrUpdateChange: the head moves whatever the state; a push reopens
\* an abandoned Change and leaves a landed one landed.
CreateOrUpdate(c, n) ==
    row' = [row EXCEPT ![c].head = n,
                       ![c].state = IF @ = "landed" THEN @ ELSE "open"]

\* Mutant: the guard is missing.
PushableAlways(c) == TRUE

\* evaluate's last guard: landed is terminal.
Pushable(c) == row[c].state # "landed"

\* evaluate: the pushed tip is a version the client has or a new one, which
\* sits on a trunk commit and carries a new delta or that of an older version
\* (a rebase).
Evaluate(h, c) ==
    /\ Serves(h, "push") /\ Pushable(c)
    /\ \/ /\ Len(commits[c]) < MaxHeads
          /\ \E b \in 0 .. Len(trunk), d \in 1 .. Len(commits[c]) + 1 :
                /\ (b = 0) = (trunk = << >>)
                /\ commits' = [commits EXCEPT
                      ![c] = Append(@, [base |-> b, delta |-> d])]
          /\ hs' = [hs EXCEPT ![h] = [Takes(c, "pushref") EXCEPT
                                        !.head = Len(commits[c]) + 1]]
       \/ /\ \E n \in 1 .. Len(commits[c]) :
                hs' = [hs EXCEPT
                         ![h] = [Takes(c, "pushref") EXCEPT !.head = n]]
          /\ UNCHANGED commits
    /\ UNCHANGED <<ref, trunk, db, history>>

\* commit: update-ref refs/changes/<id>/head, with no expected value ...
PushRef(h) ==
    /\ At(h, "pushref")
    /\ ref' = [ref EXCEPT ![hs[h].change] = hs[h].head]
    /\ Goto(h, "pushread")
    /\ UNCHANGED <<commits, trunk, db, history>>

\* ... then the pre-push row is read, a failed read counting as no row ...
PushRead(h) ==
    /\ At(h, "pushread")
    /\ \E old \in {row[hs[h].change], NoRow} :
          /\ hs' = [hs EXCEPT ![h].snap = old, ![h].pc = "pushrow"]
          /\ IF old = row[hs[h].change] THEN Works ELSE Drops({})
    /\ UNCHANGED <<git, db, evidence>>

\* ... and the row is written.
PushRow(h) ==
    /\ At(h, "pushrow")
    /\ CreateOrUpdate(hs[h].change, hs[h].head)
    /\ Goto(h, "carry")
    /\ UNCHANGED <<git, approvals, runs, outbox, history>>

\* Mutant: the deltas are not compared.
TrivialRebaseOfAny(c, old, n) ==
    /\ old.state = "open" /\ old.head \notin {0, n}
    /\ Base(c, old.head) # 0 /\ Base(c, n) # 0

\* trivialRebaseOf: the replayed delta of the old open head is the new head's.
TrivialRebaseOf(c, old, n) ==
    /\ old.state = "open" /\ old.head \notin {0, n}
    /\ Base(c, old.head) # 0 /\ Base(c, n) # 0
    /\ Delta(c, old.head) = Delta(c, n)

\* carryForwardTrivialRebase, approvals: those of the old head move on.
CarriedApprovals(c, old, n) ==
    [o \in Owners |-> IF approvals[c][o] = old.head /\ TrivialRebaseOf(c, old, n)
                      THEN n ELSE approvals[c][o]]

\* Mutant: passing runs follow every push.
CarriedRunsAlways(c, old, n) ==
    [k \in Checks |->
        IF /\ old.head # 0 /\ runs[c][n][k] = "none"
           /\ runs[c][old.head][k] = "passed"
        THEN "passed" ELSE runs[c][n][k]]

\* CopyPassingCheckRuns: under conflict-only a passing run is copied unless
\* the new head already has a run of that name.
CarriedRuns(c, old, n) ==
    [k \in Checks |->
        IF /\ TrivialRebaseOf(c, old, n) /\ Scope = "conflict-only"
           /\ runs[c][n][k] = "none" /\ runs[c][old.head][k] = "passed"
        THEN "passed" ELSE runs[c][n][k]]

\* Mutant: carrying something counts as carrying everything.
CoveredByAnything(c, old, n) == TrivialRebaseOf(c, old, n)

\* covered: no CI run is needed for the new head.
Covered(c, old, n) ==
    /\ TrivialRebaseOf(c, old, n) /\ Scope = "conflict-only"
    /\ \A k \in Checks : CarriedRuns(c, old, n)[k] = "passed"

\* carryForwardTrivialRebase, what it writes: a RecordApproval or the copy of
\* the runs that fails is logged.
CarryOver(c, old, n, kept, copied) ==
    /\ approvals' = [approvals EXCEPT ![c] =
          [o \in Owners |-> IF o \in kept THEN CarriedApprovals(c, old, n)[o]
                            ELSE approvals[c][o]]]
    /\ runs' = IF copied THEN [runs EXCEPT ![c][n] = CarriedRuns(c, old, n)]
               ELSE runs

\* The tail of commit and of syncChangeCore's write loop: results are carried and
\* the head announced unless it is covered.  Where the runs cannot be copied or
\* listed it is not covered; where the projects cannot be scanned it is not
\* announced, and where the diff is lost it may count as covered.
Carry(h) ==
    /\ At(h, "carry")
    /\ LET c == hs[h].change
           n == hs[h].head
           old == hs[h].snap
       IN  \E kept \in SUBSET Owners, copied \in BOOLEAN :
              /\ CarryOver(c, old, n, kept, copied)
              /\ \/ /\ kept = Owners /\ copied /\ Works
                    /\ IF Covered(c, old, n) THEN Answer(h)
                       ELSE Goto(h, "announce")
                 \/ Drops({}) /\ Goto(h, "announce")
                 \/ Drops({Updated(c, n)}) /\ Answer(h)
    /\ UNCHANGED <<row, outbox, git, evidence>>

\* enqueueChangeUpdated
Announce(h) ==
    /\ At(h, "announce")
    /\ Enqueue(Updated(hs[h].change, hs[h].head)) /\ Answer(h)
    /\ UNCHANGED <<row, approvals, runs, git, evidence>>

----------------------------------------------------------------------------
(* Sync: syncChangeCore for a Change that is its whole stack.              *)

\* Compute phase: the open head is rebased onto the trunk tip; unborn trunk,
\* an empty base, a head already on the tip and a conflict change nothing.
SyncCompute(h, c) ==
    /\ Serves(h, "sync") /\ row[c].state = "open"
    /\ Base(c, row[c].head) \notin {0, Len(trunk)}
    /\ Len(commits[c]) < MaxHeads
    /\ commits' = [commits EXCEPT
          ![c] = Append(@, [base |-> Len(trunk),
                            delta |-> Delta(c, row[c].head)])]
    /\ hs' = [hs EXCEPT ![h] = [Begin(c, "syncref") EXCEPT
                                  !.head = Len(commits[c]) + 1]]
    /\ UNCHANGED <<ref, trunk, db, history>>

\* Write phase: compare-and-swap of the stable ref (sync_race on failure) ...
SyncRef(h) ==
    /\ At(h, "syncref")
    /\ IF ref[hs[h].change] = hs[h].snap.head
       THEN /\ ref' = [ref EXCEPT ![hs[h].change] = hs[h].head]
            /\ Goto(h, "syncrow")
       ELSE Answer(h) /\ UNCHANGED ref
    /\ UNCHANGED <<commits, trunk, db, history>>

\* ... then the row, as a push would write it.
SyncRow(h) ==
    /\ At(h, "syncrow")
    /\ CreateOrUpdate(hs[h].change, hs[h].head)
    /\ Goto(h, "carry")
    /\ UNCHANGED <<git, approvals, runs, outbox, history>>

----------------------------------------------------------------------------
(* Review, checks, abandon.                                                *)

\* approveChangeCore reads an open row: the owner judges that head ...
ApproveRequest(h, c, o) ==
    /\ Serves(h, "approve") /\ row[c].state = "open"
    /\ hs' = [hs EXCEPT ![h] = [Begin(c, "approve") EXCEPT !.who = o]]
    /\ reviewed' = reviewed \cup {<<c, Delta(c, row[c].head), o>>}
    /\ UNCHANGED <<git, db, tested, dropped, failures>>

\* ... and the approval is recorded for the head of the snapshot.
ApproveRecord(h) ==
    /\ At(h, "approve")
    /\ approvals' = [approvals EXCEPT
                       ![hs[h].change][hs[h].who] = hs[h].snap.head]
    /\ Answer(h)
    /\ UNCHANGED <<row, runs, outbox, git, history>>

\* handlePostCheck: a report names the Change, never the version CI tested;
\* the verdict v of the tested version t goes to the head of the snapshot.
ReportRequest(h, c, k) ==
    /\ Serves(h, "report") /\ row[c].state # "none"
    /\ \E v \in {"failed", "passed"}, t \in 1 .. Len(commits[c]) :
          /\ PromptCI => t = row[c].head
          /\ hs' = [hs EXCEPT ![h] = [Begin(c, "report") EXCEPT
                                        !.who = k, !.verdict = v]]
          /\ tested' = IF v = "passed"
                       THEN tested \cup {<<c, Delta(c, t), k>>} ELSE tested
    /\ UNCHANGED <<git, db, reviewed, dropped, failures>>

ReportRecord(h) ==
    /\ At(h, "report")
    /\ runs' = [runs EXCEPT
          ![hs[h].change][hs[h].snap.head][hs[h].who] = hs[h].verdict]
    /\ Answer(h)
    /\ UNCHANGED <<row, approvals, outbox, git, history>>

\* rerunCheckCore reads an open row ...
RerunRequest(h, c, k) ==
    /\ Serves(h, "rerun") /\ row[c].state = "open"
    /\ hs' = [hs EXCEPT ![h] = [Takes(c, "rerun") EXCEPT !.who = k]]
    /\ UNCHANGED <<git, db, history>>

\* ... the store resets the run, at the row's head by now ...
RerunReset(h) ==
    /\ At(h, "rerun")
    /\ LET c == hs[h].change IN
          runs' = [runs EXCEPT ![c][row[c].head][hs[h].who] = "queued"]
    /\ Goto(h, "notify")
    /\ UNCHANGED <<row, approvals, outbox, git, history>>

\* ... and only then CI is asked.
RerunNotify(h) ==
    /\ At(h, "notify")
    /\ Enqueue(Rerun(hs[h].change, hs[h].who)) /\ Answer(h)
    /\ UNCHANGED <<row, approvals, runs, git, evidence>>

\* abandonChangeCore reads the row ...
AbandonRequest(h, c) ==
    /\ Serves(h, "abandon") /\ row[c].state # "none"
    /\ hs' = [hs EXCEPT ![h] = Begin(c, "abandon")]
    /\ UNCHANGED <<git, db, history>>

\* ... and MarkChangeAbandoned decides: under its lock in MemStore, on a row
\* read earlier in PostgresStore, whose UPDATE has no state condition.
MarkAbandoned(h) ==
    /\ At(h, "abandon")
    /\ LET c == hs[h].change
           seen == IF AtomicStore THEN row[c] ELSE hs[h].snap
       IN  row' = IF seen.state = "open"
                  THEN [row EXCEPT ![c].state = "abandoned"] ELSE row
    /\ Answer(h)
    /\ UNCHANGED <<approvals, runs, outbox, git, history>>

----------------------------------------------------------------------------
(* Land: landChangeCore, attemptLand, land.Land.                           *)

Landing == {"gate", "attempt", "advance", "record"}

\* mergeRequirements at version n: every owner approved that version, every
\* required check passed on it, and some policy resolves at all.
Mergeable(c, n) ==
    /\ \A o \in Owners : approvals[c][o] = n
    /\ \A k \in Checks : runs[c][n][k] = "passed"
    /\ Owners \cup Checks # {}

\* Mutant: the newest trunk commit is left out.
TrunkDeltaBelowTip(b, t) ==
    UNION {Touches[trunk[i].change] : i \in b + 1 .. t - 1}

\* The projects of the trunk commits after position b, up to position t.
TrunkDelta(b, t) == UNION {Touches[trunk[i].change] : i \in b + 1 .. t}

\* NeedsRevalidation; a forced land uses the tier "never".
NeedsRevalidation(scope, c, b, t) ==
    \/ scope = "always"
    \/ /\ scope = "affected-intersection"
       /\ Touches[c] \cap TrunkDelta(b, t) # {}

\* handleLandChange reads the row; landed and abandoned rows answer at once.
LandRequest(h, c, force) ==
    /\ Serves(h, IF force THEN "force" ELSE "land")
    /\ row[c].state = "open"
    /\ Len(trunk) + Cardinality({g \in Handlers : hs[g].pc \in Landing})
         < MaxTrunk
    /\ hs' = [hs EXCEPT ![h] = [Begin(c, "gate") EXCEPT !.force = force]]
    /\ UNCHANGED <<git, db, history>>

\* The merge gate, at the head of the snapshot.
LandGate(h) ==
    /\ At(h, "gate")
    /\ LET m == Mergeable(hs[h].change, hs[h].snap.head) IN
          IF m \/ hs[h].force
          THEN hs' = [hs EXCEPT ![h].pc = "attempt", ![h].mergeable = m]
          ELSE Answer(h)
    /\ UNCHANGED <<git, db, history>>

\* One attempt of land.Land up to its ref update: resolve the tip; on the
\* tip itself the commit is re-stamped, below it the tier may demand a rerun
\* and the rebase may conflict (a root commit has no merge base and fails).
LandAttempt(h) ==
    /\ At(h, "attempt")
    /\ LET c == hs[h].change
           b == Base(c, hs[h].snap.head)
           t == Len(trunk)
           scope == IF hs[h].force THEN "never" ELSE Scope
       IN  \/ /\ b = t \/ (b # 0 /\ ~NeedsRevalidation(scope, c, b, t))
              /\ hs' = [hs EXCEPT ![h].pc = "advance", ![h].tip = t]
           \/ b # t /\ Answer(h)
    /\ UNCHANGED <<git, db, history>>

\* landed_forced: a force that bypassed nothing is an ordinary land.
Forced(h) == hs[h].force /\ ~hs[h].mergeable

\* Mutant: the ref update names no expected value.
TipUnmovedUnchecked(h) == TRUE

\* The expected value of land.Land's update-ref of trunk.
TipUnmoved(h) == Len(trunk) = hs[h].tip

\* Mutant: a retry repeats the ref update and nothing else.
RetrySameTip(h) == Goto(h, "advance")

\* attemptLand's bounded loop: a lost race starts over from a fresh tip.
Retry(h) ==
    IF hs[h].tries + 1 < MaxLandRaceRetries
    THEN hs' = [hs EXCEPT ![h].pc = "attempt", ![h].tries = @ + 1]
    ELSE Answer(h)

\* The compare-and-swap on trunk.
LandAdvance(h) ==
    /\ At(h, "advance")
    /\ IF TipUnmoved(h)
       THEN /\ trunk' = Append(trunk,
                  [change |-> hs[h].change, head |-> hs[h].snap.head,
                   onto |-> hs[h].tip, forced |-> Forced(h)])
            /\ Goto(h, "record")
       ELSE Retry(h) /\ UNCHANGED trunk
    /\ UNCHANGED <<commits, ref, db, history>>

\* Mutant: trunk is resolved again after the ref update.
LandedSHAResolved(h) == Len(trunk)

\* The commit the outcome of land.Land names.
LandedSHA(h) == hs[h].tip + 1

\* MarkChangeLanded, whatever the row's state by now.
MarkLanded(h) ==
    /\ At(h, "record")
    /\ row' = [row EXCEPT ![hs[h].change].state = "landed",
                          ![hs[h].change].landedSHA = LandedSHA(h),
                          ![hs[h].change].forced = Forced(h)]
    /\ Answer(h)
    /\ UNCHANGED <<approvals, runs, outbox, git, history>>

----------------------------------------------------------------------------
\* What a request still has to tell: of a head it wrote, of a run it reset.
Owed(h) ==
    LET c == hs[h].change
    IN  CASE hs[h].pc \in {"carry", "announce"} -> {Updated(c, hs[h].head)}
          [] hs[h].pc = "notify" -> {Rerun(c, hs[h].who)}
          [] OTHER -> {}

\* A store or git call of a request fails (its context is cancelled when the
\* client goes away) or the daemon restarts: the request ends where it is.
Abort(h) ==
    /\ ~At(h, "idle")
    /\ Drops(Owed(h)) /\ Answer(h)
    /\ UNCHANGED <<git, db, evidence>>

\* The repository is empty, or starts with a commit that is no Change.
Init ==
    /\ row = [c \in Changes |-> NoRow]
    /\ commits = [c \in Changes |-> << >>]
    /\ ref = [c \in Changes |-> 0]
    /\ trunk \in {<< >>, <<[change |-> NoChange, head |-> 0, onto |-> 0,
                            forced |-> FALSE]>>}
    /\ approvals = [c \in Changes |-> [o \in Owners |-> 0]]
    /\ runs = [c \in Changes |-> [n \in Versions |-> [k \in Checks |-> "none"]]]
    /\ outbox = {}
    /\ hs = [h \in Handlers |-> Idle]
    /\ reviewed = {} /\ tested = {} /\ dropped = {} /\ failures = 0

Step(h) ==
    \/ PushRef(h) \/ PushRead(h) \/ PushRow(h) \/ Carry(h) \/ Announce(h)
    \/ SyncRef(h) \/ SyncRow(h)
    \/ ApproveRecord(h) \/ ReportRecord(h) \/ RerunReset(h) \/ RerunNotify(h)
    \/ MarkAbandoned(h)
    \/ LandGate(h) \/ LandAttempt(h) \/ LandAdvance(h) \/ MarkLanded(h)

Request(h, c) ==
    \/ Evaluate(h, c) \/ SyncCompute(h, c)
    \/ \E o \in Owners : ApproveRequest(h, c, o)
    \/ \E k \in Checks : ReportRequest(h, c, k) \/ RerunRequest(h, c, k)
    \/ AbandonRequest(h, c)
    \/ \E force \in BOOLEAN : LandRequest(h, c, force)

Next ==
    \/ \E h \in Handlers : Step(h) \/ Abort(h)
    \/ \E h \in Handlers, c \in Changes : Request(h, c)

Spec == Init /\ [][Next]_vars

\* A goroutine that can run does run.
FairSpec == Spec /\ \A h \in Handlers : WF_vars(Step(h))
----------------------------------------------------------------------------
(* Properties.                                                             *)

\* TypeOK - every variable has its type, and a row exists exactly when it has
\* a head, which is a version git holds (CreateOrUpdateChange's first insert).
TypeOK ==
    /\ row \in [Changes -> Row]
    /\ \A c \in Changes : /\ row[c].state = "none" <=> row[c].head = 0
                          /\ row[c].head <= Len(commits[c])
                          /\ Len(commits[c]) <= MaxHeads
    /\ commits \in [Changes -> Seq(Commit)]
    /\ ref \in [Changes -> Versions]
    /\ trunk \in Seq(TrunkCommit)
    /\ approvals \in [Changes -> [Owners -> Versions]]
    /\ runs \in [Changes -> [Versions -> [Checks -> Verdicts]]]
    /\ outbox \subseteq Event
    /\ hs \in [Handlers -> Handler] /\ failures \in 0 .. MaxFailures

\* LinearTrunk - no land is lost: every trunk commit was computed by merging
\* onto exactly the commit it follows, whatever the landers' interleaving
\* (land.Land's compare-and-swap and attemptLand's fresh tip per attempt).
LinearTrunk == \A i \in 1 .. Len(trunk) : trunk[i].onto = i - 1

\* LandedIsOnTrunk - a row that says landed names a trunk commit of its own
\* Change, and landed_forced says how that very commit got there.
LandedIsOnTrunk ==
    \A c \in Changes : row[c].state = "landed" =>
        /\ row[c].landedSHA \in 1 .. Len(trunk)
        /\ trunk[row[c].landedSHA].change = c
        /\ trunk[row[c].landedSHA].forced = row[c].forced

\* The trunk commits that came through the merge gate.
Gated == {i \in 1 .. Len(trunk) : /\ trunk[i].change # NoChange
                                  /\ ~trunk[i].forced}

\* ReviewedLands - no content reaches trunk unforced that some required owner
\* was not shown: amends, concurrent approvals and carry-forward included.
ReviewedLands ==
    \A i \in Gated, o \in Owners :
        <<trunk[i].change, Delta(trunk[i].change, trunk[i].head), o>>
            \in reviewed

\* TestedLands - no content reaches trunk unforced on which some required
\* check never passed (reports about the current head only, PromptCI).
TestedLands ==
    \A i \in Gated, k \in Checks :
        <<trunk[i].change, Delta(trunk[i].change, trunk[i].head), k>> \in tested

\* DisjointLands - under affected-intersection nothing lands unforced past a
\* trunk delta that touches its projects, also when the delta arrives between
\* two attempts of the same request (NeedsRevalidation per attempt).
DisjointLands ==
    Scope = "affected-intersection" =>
        \A i \in Gated : LET c == trunk[i].change IN
            \A j \in Base(c, trunk[i].head) + 1 .. i - 1 :
                Touches[c] \cap Touches[trunk[j].change] = {}

\* LandedTerminal - no step of any request takes a landed row out of landed
\* (docs/change-lifecycle.md; MarkChangeAbandoned's and the upsert's guards).
LandedTerminal ==
    [][\A c \in Changes : row[c].state = "landed" => row'[c].state = "landed"]_row

\* A push or sync of c is between its first write and its last.
Writing(c) == \E h \in Handlers :
                 /\ hs[h].change = c
                 /\ hs[h].pc \in {"pushref", "pushread", "pushrow", "syncref",
                                  "syncrow", "carry", "announce"}

\* A rerun of check k of c is between its reset and its event.
Asking(c, k) == \E h \in Handlers : /\ hs[h].change = c /\ hs[h].who = k
                                    /\ hs[h].pc = "notify"

\* NoSilentHead - a required check that has no run on the head of an open
\* Change was asked for, and so was the rerun of one that waits: the suppressed
\* change.updated of a covered head never leaves a head that waits for a CI
\* nobody told about it.  What the code itself lets happen apart: it resets the
\* run before it asks, and an event that is not enqueued, a failed scan or diff of
\* the head or a request that ends in between leaves no more than a line in a log
\* (actions.go:758, prereceive.go:1009, sync.go:165-175).
NoSilentHead ==
    \A c \in Changes, k \in Checks :
        (row[c].state = "open" /\ ~Writing(c)) =>
            /\ runs[c][row[c].head][k] = "none" =>
                  Updated(c, row[c].head) \in outbox \cup dropped
            /\ runs[c][row[c].head][k] = "queued" =>
                  Asking(c, k) \/ Rerun(c, k) \in outbox \cup dropped

\* RequestsAnswered - every request ends: the race retries of a land are
\* bounded and each of them looks at a fresh tip.
RequestsAnswered == \A h \in Handlers : (hs[h].pc # "idle") ~> (hs[h].pc = "idle")

\* Lifecycle - served one request at a time, the daemon implements the
\* documented state machine of the Change row (docs/change-lifecycle.md).
L == INSTANCE ChangeLifecycle WITH
        state <- [c \in Changes |-> row[c].state],
        head <- [c \in Changes |-> row[c].head],
        landedSHA <- [c \in Changes |-> row[c].landedSHA]

Lifecycle == L!Spec

\* LandedRowFrozen - "landed is terminal: a push carrying an already-landed
\* Change-Id must not zombie the landed row" (evaluate's guard).
LandedRowFrozen ==
    [][\A c \in Changes :
         row[c].state = "landed" => row'[c].head = row[c].head]_row
============================================================================
