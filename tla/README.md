# Runko in TLA+

Runko is a monorepo server: a daemon, `runkod`, owns a bare git repository, accepts
pushes through a pre-receive funnel, keeps a row per *Change* (the unit of review) in
a store, gates landing on owners and checks, rebases and advances trunk itself, and
tells CI, mirrors and mailers what happened. A command line tool, `runko`, authors
stacks of Changes in git and jj checkouts; `runko-ci` decides what a CI job runs. This
directory holds TLA+ models of the parts where steps of several actors meet or where an
algorithm decides what lands and runs, the TLC runs that check them, and TLAPS proofs of
the properties that matter most.

## The system

| Component | State | Operations | Meets |
|---|---|---|---|
| Change rows (`runkod/store.go`, `pgstore.go`) | `changes`, `approvals`, `check_runs`; MemStore under a mutex, PostgresStore in SQL | create or update, abandon, land, approve, record and reset checks | every request handler |
| The two stores (`pgstore.go`, `internal/dbgen`) | all tables | each call as PostgresStore's statements, beside MemStore's one step | every caller, failures half-way |
| Receive funnel (`prereceive.go`, `platform/receive`) | stable refs `refs/changes/<id>/head` | evaluate (no writes), commit (ref, row, carry-forward, check, event) per pushed Change | rows, git quarantine, outbox |
| Carry-forward (`trivialrebase.go`), stack sync (`sync.go`) | approvals and passing runs of the old head | recognise a trivial rebase, move results, suppress `change.updated`; rebase a stack, swap refs | push, land, gate |
| Merge gate (`platform/checks`, `api.go`, `botlane.go`) | runs, approvals, zones, threads, settings | requirements, agent policy and its acknowledgement, bot lane | push, sync, trunk's manifests |
| Land (`actions.go`, `land.go`, `platform/land`) | trunk ref | gate, revalidation tier, rebase, compare-and-swap, bounded retry, record | everything above |
| Stacks (`landstack.go`, `history.go`), automerge (`automerge.go`) | base and head of Changes; armed Changes, memo of attempts | refuse an unlanded parent, land a stack; arm, sweep, land when mergeable | push, sync, land, checks |
| Review (`review.go`, `cli/runko/comments.go`) | comments, review requests, approvals | comment, resolve, request, approve; the attention set | amends, the Change's end, outbox |
| Outbox (`outbox.go`, `platform/checks/delivery.go`) | attempts, next attempt, dead letters | enqueue, deliver to URL and GitHub, back off, give up | CI |
| Dispatch (`runko-bridge`, `runkogithubapp`, `githubsecrets.go`) | seen deliveries, the App's token and installation, CI's two values | webhook to `repository_dispatch`, mint, provision | outbox, GitHub |
| Deploy records (`deployimages.go`, `platform/deploy`) | a record and its images per landed commit | open, report an image, complete once | land, CI, outbox |
| Watchdog (`watchdog`) | its books of rescues | sweep, report a lost run's result, ask for a rerun | checks, GitHub |
| CI executor (`cli/runko-ci`, `platform/affected`) | none: one job's answers | audit of edges, affected set, check matrix, images, binaries, impacted tests | gate, deploy records |
| Mirror (`mirror.go`, `platform/mirror`) | cursors, the worker's remote | leased sync of trunk, forced sync of change refs with self-heal, unfreeze, connect | land, push, other writers |
| Workspaces, event bus (`workspace.go`, `eventbus.go`, `activity.go`) | workspaces, timeline, activity feed | create, push, snapshot, close, delete, report, watch | push, land, harnesses |
| Releases (`release.go`, `tags.go`) | tags and their rows | choose a version, tag, record | raw tag pushes |
| Projects (`createproject.go`, `deleteproject.go`, `platform/project`) | manifests in trees | plan, commit as a Change | other lands, authors |
| Invites (`invite.go`, `invitefeed.go`, `mailer`) | invite rows, limiter | submit, list due, mail, ack | visitors, the mail server |
| Org hub, doors (`orghub.go`, `auth.go`, `rpc.go`, `api.go`) | orgs, members, settings, agents | sign-up, join, archive, connect; authenticate, look up, decide, answer | every request |
| Authoring (`cli/runko`) | a checkout: branch, working tree, jj operations | create, amend, push, sync, snapshot, land | funnel, the author's edits |
| A machine (`cli/runko`) | registry of checkouts, credentials, executable, agents' settings and skills | create, attach, gc, self-update, install hooks | each other, stops |

What is hard here is always the same thing. A handler runs in a goroutine of its own,
reads a row once and works from that snapshot; no lock spans its steps; git refs, rows,
GitHub and files are separate stores; any step may fail and nothing is rolled back. So:
lands that race lands, pushes, approvals, abandons and syncs; results that arrive about
an older head; a request that ends between the trunk update and the row update; a mirror
sync that overlaps lands, an admin and other writers; refs written while their objects
are in quarantine; acks that arrive after the next attempt; a sweep that works from a
listing; a plan made at one tip and committed at another; two commands that save one
file. `PROJECT.json` lists these as hazards, each at its line.

What makes the parts correct is stated module by module below; in one sentence each:
nothing lands that owners did not see or checks did not pass, and no land is lost; a
landed row stays landed; parents land before their children; no head waits for a CI nobody
told; findings are acknowledged and a human stays in the loop; an event marked delivered
was delivered and what must be announced is announced once; the mirror never destroys
another's commit; nobody's work or identity is lost in a checkout; the caller that acts is
the caller that was admitted; and the two stores and the two transports agree.

## Modules

The server:

* **ChangeServer** - the Change lifecycle under concurrent requests. `row`, `approvals`,
  `runs`, `outbox` are the store; `commits`, `ref`, `trunk` are git; `hs` holds the
  requests in flight, each a record with a program counter and the snapshot its handler
  read. One action per step between two accesses to shared state: a push is `Evaluate`,
  `PushRef`, `PushRead`, `PushRow`, `Carry`, `Announce`; a rerun `RerunReset`, then
  `RerunNotify`; a land `LandRequest`, `LandGate`, `LandAttempt`, `LandAdvance`,
  `MarkLanded`; and so on. Calls whose failure the code only logs may fail, and `Abort` ends a
  request anywhere. `change.landed` and what follows it are in Rollout.
  A commit is a number with a base and a delta (diff and message), because that is what
  trivial-rebase recognition and rebasing tell apart; a conflict is a choice. `reviewed`
  and `tested` are history: what owners were shown, what CI ran; so is
  `dropped`, the events that a failure kept out of the outbox.
* **ChangeLifecycle** - the abstract row: the documented state machine
  (`docs/change-lifecycle.md`). ChangeServer with one handler refines it (`Lifecycle`).
* **MergeGate** - `mergeRequirements` over the head's manifests and trunk's, the
  agent policy's rules on owners (modified, created, granted to oneself) and the check a push
  mints for their findings, acknowledgements, approvals, zones, the org's veto,
  threads and the bot lane, while pushes, syncs and lands move head and trunk between the
  gate's reads. `GateHolds` == `FindingsAcknowledged` /\ `HumanInLoop`.
* **StackLanding** - stacks of Changes: pushes of series, the recorded base, stack sync,
  land-stack and the automerge worker with its memo; `ParentsLandFirst`, `ReadyLands`.
* **ChangeRefs** - stable refs while objects are in quarantine: pushes that die, the
  mirror's self-heal of the change namespace, the boot-time prune.
* **MirrorTrunk** - `syncTrunk` step by step for the timer and the ticker, `syncMu`,
  unfreeze and connect, which take no lock, foreign writers, lands, failures, restarts.
* **Review** - comments in threads, resolutions, review requests and approvals from the
  verb to the row and the webhook, and the attention set. `ReviewHonest` ==
  `SomebodyIsAsked` /\ `AnswersThisHead` /\ `AllCommentsShown` /\ `AnnouncedIsStored`.
* **Stores**, **StoreCalls**, **StoreChanges**, **StoreLedgers**, **StoreDirectory** -
  PostgresStore's calls statement by statement for two clients; beside every behaviour
  runs MemStore, which makes each call in one step. `StoresAgree` ==
  `ChangesActAtomically` /\ `LedgersActAtomically` /\ `DirectoryActsAtomically`: some
  order of the finished calls explains answers and rows, or a named divergence happened.
* **FrontDoors** - one request through routing, credential, look-up, naming of the caller
  and the core, by REST, RPC or git, while the world changes once in between.
  `DoorsSound` == `DoorsAgree` /\ `ActsAsAdmitted`.
* **ProjectPlans**, **Projects** - what the index reads out of a tree and PlanCreate and
  PlanDelete write to it; requests that plan at one tip and commit at another, beside
  other Changes that land. **LocalCreate** - the local create in a git or jj checkout.
  `CreatesSound` == `NoDanglingEdges` /\ `LandingsKept` /\ `NamesUnique` /\
  `CreatedIsAccepted` /\ `ConeBuilds` /\ `PinsCleared` /\ `CreatesKept` /\ `UnsavedKept`,
  and of the checkouts of a machine `MachineKept` (Materialize, below).

Services, each an instance of its own in **MCServices** (a behaviour is about the one
`focus` names):

* **Backoff**, **Outbox**, **Rollout** - the backoff both queues share; outbox rows and
  their two targets (`DeliveredEverywhere`; `OutboxDrains` == `EventsSettle` /\
  `DeadURLNoStall`); the tail of a land, deploy records and reports side by side
  (`ImagesReadyOnce`, `RolloutOrCause`).
* **InviteMail** - intake with rate limit and cap, the feed, the mailer's poll, lost and
  late acks. `InvitesKept` == `SentWasMailed` /\ `BacklogBounded` /\ `RateBounded`;
  `InvitesSettle`.
* **Watchdog** - `Sweep` beside pushes, jobs, runners' reports and reruns.
  `WatchdogHonest` == `NoFalseGreen` /\ `RescuesAccounted`; `ChecksSettle`.
* **OrgHub** - one org's sign-up, join, create, bootstrap, archive, settings, connect and
  boot. `HubSound` == `OrgHasAdmin` /\ `ArchiveAgrees` /\ `WiringAgrees`; `TrunkKept`.
* **Workspaces** - workspaces, their pushes and snapshots, the timeline and its watcher.
  `SpaceKept` == `OneStack` /\ `OpenHasWorkspace` /\ `SingleUseCloses` /\
  `DeleteIsComplete`; `WatcherCatchesUp`.
* **Releases** - `ReleasesSound` == `ReleaseMatchesTag` /\ `ChangelogsCover` /\
  `NextVersionFree`. **Affected** - Compute and the closure beside a reference definition:
  `AffectedExact` == `ClosureExact` /\ `NothingDropped`. **Worktrees** - gc beside people:
  `NothingWasted`.

Around the server, each a `side` of **MCLines** (which also takes ChangeServer one request
at a time):

* **Authoring** - a stack of two commits written in a git or jj checkout, pushed, synced,
  snapshot and landed. `AuthoringKept` == `IdentityKept` /\ `WorkKept` /\
  `ConflictsStayHome`.
* **Materialize** - workspace create, attach and gc over the machine's registry and its
  credentials. `MachineKept` == `AuthorsAsBound` /\ `RegistryAgrees` /\ `StartsClean` /\
  `EditsSurvive`, a part of `CreatesSound`.
* **SelfUpdate** (`UpdatesSound` == `BinaryKept` /\ `InstalledAsPublished` /\
  `NoDownloadLeft`); **AgentFiles**, the hooks' settings and the skills
  (`AgentFilesSound`); **Activity**, the feed and the advice to stream (`FeedSound`).
  `HomeSound` is their conjunction; Activity extends the other two, and `HomeSpec` runs the
  three beside each other.
* **Dispatch** - bridge, App client and provisioning (`DispatchSound`); **Executor** -
  runko-ci's answers beside the gate's and the deploy record's (`ExecutorSound`).
  `CISound` is their conjunction; Executor extends Dispatch, and `CISpec` runs the two beside
  each other.

MC modules give the constants: MCRaces (ChangeServer), MCStacks, MCServices, and MCLines
with MCSides. Proof modules: ChangeServerProofs, StackProofs (StackLanding, Authoring),
GitHubProofs (MirrorTrunk, Dispatch, Executor), QueueProofs (Outbox, Rollout, InviteMail),
CIProofs (Watchdog, Affected), HubProofs (OrgHub, FrontDoors), WorkspaceProofs (Workspaces,
Releases, Worktrees) and PeopleProofs (MergeGate, Review, SelfUpdate, AgentFiles, Activity).

## Runs

| Run | Shows |
|---|---|
| `review_races` | two requests on one Change, two failed calls or requests cut short: types, `LinearTrunk`, `ReviewedLands`, `LandedTerminal` |
| `check_races` | with a required check and one failure: `TestedLands`, `NoSilentHead` |
| `landers` | three Changes, two landers, affected-intersection: `DisjointLands`, `LandedIsOnTrunk`, `RequestsAnswered` |
| `stacks` | two Changes, two handlers or one and the worker: `ParentsLandFirst`, `ReadyLands` |
| `mirror` | two syncs, two remotes, foreign writers, two upsets of any kind: types and mutex, `NeverOverwritten`, `FreezeHasCause`, `MirrorFollows` |
| `services` | the ten services of MCServices, one at a time, each under its faults |
| `around` | the sides of MCLines, one at a time, and the refinement `Lifecycle` |
| `late_commit_push` | *violation*: a push evaluated before a land and committed after it moves the head of a landed row |
| `postgres_abandon` | *violation*: PostgresStore's abandon overwrites a landed state |
| `self_freeze` | *violation*: a push to the mirror that fails on the way freezes the cursor |
| `heal_race` | *violation*: the self-heal deletes the ref of a push still in quarantine |
| `stale_parent` | *violation*: a parent lands from a snapshot while it is pushed again; its row is landed with the new head, and a child on that head lands although the parent's content is not on trunk |

`services` and `around` are unions of independent instances: a behaviour picks one and
leaves the variables of the others as they start, so one run checks them all at the cost of
their sum. Deadlock is not checked where a bounded client may have nothing left to ask.

### Bounds

Races between handlers need two of them; a third adds only repetitions of a pair, for
handlers interact through shared state alone. `MaxHeads = 2` gives an amend or a rebase;
`MaxTrunk = 3` gives an initial commit, a rival's land and one's own;
`MaxLandRaceRetries = 2` gives one retry. `MaxFailures` counts failed calls and requests
that end midway: two in `review_races`, one in `check_races` and in `around`; none in
`landers`, where three Changes already race and where the proofs have failures, nor in the two
violations about ChangeServer, which need none. In `landers` every Change has one version and
three of them race. For the mirror, two tips of trunk give a land during a sync and two
upsets a failure followed by an unfreeze, or a connect in the middle of a failure.

Stacks: two Changes, in mixes of two to five heads, two handlers or a handler and the
worker. Services: three delivery attempts, backoff 1..2, three lands and two images; three
invites, cap 1, two hits in a window of 2, so a third visitor and an expiring hit happen;
two checks, two heads or two upsets, grace 1 (the watchdog); two pushes of two Changes
(ChangeRefs); three hub calls in five agendas with two faults; two versions and two
releases; four projects with every choice of edges among four pairs; two versions of one
Change in the gate's plans, each about one way past the gate, among them a project made in an
empty directory of an owned one. Authoring: two commits, eight
checkouts, two edits, one move of trunk. Stores: two clients, four or five calls and
failures, two keys, two images. Doors: every operation with 14 credentials in 9 situations,
one change of the world during a request. Projects: five directories, seven scenes and some
1 900 intents; local create: two runs, eight kinds of checkout, one failure. Machine: two
directories, two workspaces, two commands, edits and stops in eleven scenes. Review: nine
conversations of up to three calls, two amends, one failing write. Dispatch: two events or
two connects, three attempts, a seen set of one (the code's bound with the same eviction),
token life 3 with margin 1. Executor: three projects, two edges used and declared in every
way. Update: two runs, two builds, either installed,
released in any order; one stop. Agent files: two installers, 25 checkouts, one
stop. Feed: two reports, three pushes, and 2 for the 25 rows the advice reads. In each the
smallest instance in which two steps of one actor enclose one of another; the proofs have
none of these bounds.

### Fairness

`RequestsAnswered` assumes weak fairness of each handler's steps: a goroutine that can run
does run, and git and store calls return. `ReadyLands` adds the automerge ticker and the
worker's steps. `MirrorFollows` and `MirrorNotPoisoned` assume the same of a sync that
started and of the reconcile ticker. `OutboxDrains` and `RolloutOrCause` assume the delivery
worker's loop, the clock, the tail of a land, and that builds end and report;
`InvitesSettle` the mailer's poll and its clock; `ChecksSettle` the watchdog's ticker and
that a job on GitHub ends; `WatcherCatchesUp` the watcher and the pushes and ends in flight.
MCServices states it for the service a behaviour is about. Nothing is assumed of clients,
admins, foreign writers, lands or failures.

### Conditional properties

Where the code leaves a race open the property names it, and says what holds otherwise. The
names are history variables of the model, set by the very step that opens the window: `raced`
(two writers of an unborn trunk), `crossed` (two hub calls), `blind` (a failed read of the
settings), `mishaps` (a sign-up cut short); `dropped` (an event that could not be stored or
worked out, or whose request ended before it); `shed` (a finding whose check was never minted,
or not carried by a sync, or that a sync made one by putting the delta on another trunk); a
workspace's clashes; `blame` (what a rollout was lost to); `orphaned` and `meddled` (a tag
without its row, a raw tag); `forgets` (the watchdog's books lost by a restart, a failed read, a
human's rerun, a late "running" report, or a rescue applied whose answer never came); `revived`
(an invite row a late ack reopened); `strayed` (Authoring: a rename by jj, a rollback of later
edits, a conflict the author was told of, could not be told of because its command was killed,
or was not told of because the listing failed); `parted` (what PostgresStore does that MemStore
does not); `turns`, `excuses`, `mishapped`, `strays`, `oddities`, `lapses`, `gaps`, `missteps`,
`blunders`, `blips` in the other modules (Materialize's `strays` have the checkout half
reclaimed, its credential gone and its files still there; `parted` has MemStore's count of
successes). In MergeGate `Entrusted` names what the org's policy lets an agent's delta do
unjudged: a project where none was, any owners if the org allows it. Each comes with a mutant
that breaks the property outside its named cases.

### Assumptions that matter

`PromptCI` (in `check_races`, and a hypothesis of the proof of `TestedLands`) says CI
reports on the head the row has; a report names the Change, not the commit, so a report
about an older head counts for the new one. `AtomicStore` is MemStore; `LandedTerminal`
needs it, and `postgres_abandon` shows why. What is outside the repository (GitHub, git's
merge, mail, the build tools, the author) is modelled by what the code relies on, and its
definitions are marked external in `PROJECT.json`.

## Proofs

All are for arbitrary constants: Changes, handlers, owners, checks, trees, remotes, syncs,
images, visitors, bounds. The inductive invariants were checked with TLC before they were proved.

*ChangeServer* (ChangeServerProofs).

* `TypeCorrect`: `TypeOK`, which also says that a row exists exactly
  when it has a head that git holds. The inductive invariant adds what a request in
  flight carries (`Flight`): its snapshot is of a row with a head, its head is a version
  of its Change, its owner or check is one.
* `OwnersSeeWhatLands`, `ChecksPassWhatLands`. `ReviewedLands` is not
  inductive: trunk's content comes from a snapshot gated earlier. `Evidence` says that an
  approval, a passing run, a pending record of either, and a gated land in flight are each
  backed by something an owner was shown or CI ran, for the delta of the version in
  question; carry-forward preserves it because a trivial rebase has the same delta, and
  deltas of versions never change.
* `NoLandIsLost`, `LandedRowsNameTheirCommit`, `LandedIsTerminal`: `Recorded` says every
  trunk commit sits on the one before it, and that a land between its compare-and-swap
  and its record names a trunk commit of its own Change, as landed rows do.
* `NoHeadIsSilent`, with any number of failed calls and requests cut short. The invariant
  `Told` follows the duty to tell CI from the row through the request that still owes it:
  every head of an open row was announced, or is covered, or has a request in flight that will
  do one of the two, or a failure kept exactly its event (`dropped`). A rerun resets the run
  first and asks for CI afterwards, so a run that waits was asked for or has its rerun between
  the two (`Asking`), or that event was dropped.
* `LandsAreDisjoint`, when nobody forces a land. A land that has passed
  the gate and not yet swapped knows every project that trunk touched since the tip it was
  revalidated at; a lost race sends it back to look at what was added.
* `ImplementsLifecycle`, for one handler: each action maps to a step of
  ChangeLifecycle or to a stutter, by a case per action, from an invariant that ties the
  snapshot of the only request in flight to the row it will write. With two handlers it is
  false, and `late_commit_push` is the counterexample.

*MergeGate* (PeopleProofs).

* `GateKeepsHumans`: `GateHolds`. The gate decides from four reads, none of which is current
  by the time of the land, so the invariant ties each to what cannot be taken back: an
  approval or acknowledgement to a judgement of that delta (`ReviewsAreJudged`), a finding
  without its check to a judgement, a shedding or the push still on its way
  (`FindingsOwed`), the runs and the zones read to those (`RunsRead`, `ZonesRead`). Versions,
  tips and judgements only grow (`StepGrows`), which keeps what was said of them. The
  decision itself is two lemmas. `GateAsksAHuman`: an agent's delta is a finding, or it writes
  a manifest around the file that the policy entrusts to agents, or it writes none there, and
  then the file's owners are those of the trunk it was based on (`OwnersLeft`) and have
  approved. No project declared a zone exempts nothing (`NoZonesExemptNothing`), so unreadable
  settings are safe.

*Review* (PeopleProofs).

* `ReviewIsHonest`: `ReviewHonest`. Who was asked leaves the attention set only by a comment
  on the present head or an approval; a comment carries the head its handler read, so it is
  about the head its author saw or known for what it is (`Stamped`). Replies are answers to
  roots, also those of calls that have the row loaded and not yet written (`Threaded`), which
  is why the listing of roots and replies shows all; what waits to be announced is stored
  (`Stored`).

*StackLanding* (StackProofs).

* `ParentsAreFirst`: `ParentsLandFirst`, for any finite set of Changes, any stack pushed at
  first and any number of requests. The order of trunk is decided long before a land, by the
  base a push computed along a line of commits or a sync gave to what it rebased, by the
  listing a land-stack or a sweep works down, and by the gate it passed some steps before.
  The invariant `StackIInv` therefore says what git, the rows and every member of every
  list hold: commits point back and never change (`GitFits`), a head is a pending commit of
  its own Change and a landed row names a trunk commit of it (`RowsFit`), a member read from
  a row still names a commit of its Change, and one past the gate has some version of the
  Change of its base on trunk (`FlightFits`). The step that uses it is `LandAttempt`; what
  keeps it is that nothing on trunk is taken back (`Kept`).
* `Line`, `Foot`, `SeriesOf`, `Ancestry`, `Rebased` and Authoring's `Below` are recursive
  functions, and what they return needs induction. It is done without the library's induction
  theorems, which take an operator: `NatSetInduction` states induction for a *set* of numbers
  and follows from the well-foundedness of strict inclusion on finite sets; `StrongInduction`
  and `Recursion` (a function defined from smaller arguments exists) follow from it.

*Authoring* (StackProofs).

* `AuthoringIsKept`: `AuthoringKept`. Create and amend stage the checkout at one step and commit
  at a later one; what they will leave out was edited in between (`Collecting`). A rebase that
  fails returns to what was noted before it, so the note must carry the same identities, no
  conflict but an explained one and, unless somebody edited since, the same work (`Noting`). A
  git rebase whose abort failed is `open` until the author ends it; what was edited meanwhile is
  known (`open.late`). A conflict that ships is `Explained`: reported, or its command was killed
  before it could, or the listing of conflicts failed. A push gathers the commits below it
  (`BelowIsStack`) and sends them in one go, so none is a conflict unless a command has ended on
  one (`AtHome`).

*MirrorTrunk* (GitHubProofs).

* `MirrorTypeCorrect`, `ForeignCommitsAreSafe`. The lease alone does
  not protect others' commits, for a sync leases on what it has just seen. `Adopted` says
  that cursor and syncs expect only commits that are ours or were adopted by an admin, and
  that a sync about to push saw what it expected.
* `FreezesHaveACause`: a sync freezes only with a cause recorded. The invariant says that
  without one the cursor, the mirror and the sync that holds `syncMu` agree on our own last
  push.

*Dispatch, Executor* (GitHubProofs).

* `CIIsSound`: `CISound`, from `DispatchIsSound` and `ExecutorIsSound`. That a dispatch is not
  repeated is a property of three places together: GitHub's list, the bridge's set of seen
  ids and the posts in flight. `Once` says, for every id, that one post at most carries it and,
  when GitHub has it, that the post only brings the answer, and that it is remembered or the
  answer is on its way - or else the id has one of the named excuses. `Handing` carries the
  margin of a token from the moment it is handed out; `Connecting` says that one connect at
  a time owns the variable. For the executor, `AfterDeps`, `AfterChecks` and `AfterImages` say
  what each verb has made. That the floor holds all that the build graph sees is
  `FloorHoldsGraph`: closures (intersections of closed sets) grow with their seeds and edges
  (`UpToGrows`), and an audit that found nothing makes each used edge a followed one.

*Outbox and Rollout* (QueueProofs).

* `DeliveredReachedAll`: the worker's pass carries which targets took the event so far, and
  a row is marked delivered only when both it was for are among them.
* `RolloutsTriggerOnce`: of the reports of one record side by side the database lets one
  see the last image in and flip the status; the invariant counts who may still flip it.

*Watchdog, Affected* (CIProofs).

* `WatchdogIsHonest`: `Green` (what a sweep has read is of a real run, and a pass filed is
  of a run that passed) and `Kept` (the books, the sweep's copy of them and the reruns asked
  for agree, up to what was forgotten). Two ways to forget were missing from the statement
  until the proof failed for want of them (see Divergences). A rerun the daemon applied whose
  answer is lost is one more: nothing entered the book, and the next sweep asks again.
* `AffectedIsExact`: `AffectedExact`, against a reference that says nothing of walks: what
  every closed set holding the seeds holds. `Walking` says that what was walked is propagated
  and that who has left the worklist has all their dependents in; at the end what was walked
  is therefore closed itself (`EndOfWalk`). `Answering` says what each phase has made of the
  floor. That the deepest project above a path is a project, which `CHOOSE` gives only if there is
  a deepest one, is an induction over the lengths of paths (`Greatest`, `OwnerIndexed`).

*InviteMail* (QueueProofs).

* `InvitesAreKept`: `MailHonest` (an ack that says sent, in time or late, is about a mail that
  went out), `Room` (the rows queued, with the intakes that counted before them and the rows
  revived, fit the cap) and `HitsCount` (the hits the limiter keeps are exactly the ones
  admitted since the daemon started that are young enough; a restart empties it). `Room` is an
  argument about cardinalities and uses FiniteSetTheorems.

*OrgHub* (HubProofs).

* `HubIsSound`: `HubSound`. An org has its admin before it is served, in the call that is
  about to mount it, and keeps one (`CreatorEnters`, `AdminStands`). Archive map, assembly and
  saved wiring are in step with the directory but for the moment between the two writes of
  the one call that makes them (`ArchiveInStep`, `OneAssembly`, `OneSave`, `MirrorArmed`); that
  there is one such call is what `raced` and `crossed` are about, so the invariant counts the
  calls inside each of those stretches.
* `TrunkIsKept`: `TrunkKept`, an action property: as long as no two creations of the org
  overlap (`raced`), a genesis is written only over an unborn trunk, over lands, boots, retries and
  failures, because then one assembly at a time is between its look and its seed. Creations
  that overlap do lose commits, and nothing is claimed of them.

*FrontDoors* (HubProofs).

* `DoorsAreSound`: `DoorsSound`. While nothing changes a request is where one that runs in
  one go is (`InOneGo`), so the two doors agree if their tables do: the guards of an operation's
  two handlers let the same callers in (`SameGate`), and the answers mean the same
  (`TwinsAgree`). When the world changes, a second look at a credential names whom the first
  named or nobody (`NamedAlike`, from `NameOrNobody`).

*Workspaces, Releases, Worktrees* (WorkspaceProofs).

* `WorkspaceIsKept`: `SpaceKept`. A push is validated against the stack and the state of its
  workspace some steps before it commits. Two lines pushed at one time, and pushes in flight
  when a workspace ends, are the named cases; outside them all that
  is in flight is one line's (`OneLine`), nothing is pushed to
  what ends (`NothingDangles`), and an agent's workspace with nothing open is closed already
  or has a tail under way that will close it (`TailUnderWay`): that is the part no state
  shows by itself. Where it may fail, `SingleUseCloses` now asks for the very cause.
* `ReleasesAreSound`: `ReleasesSound`. The tag a call has written is its own until its row is
  in (`TagHeld`), its changelog begins at a release that is listed (`LogFits`), every tag has a
  row, a call or a named cause (`TagExplained`), and while nobody names a version the rows
  are numbered one by one (`Numbered`).
* `NothingIsWasted`: `NothingWasted`. What gc has made sure of at each of its looks, whatever
  came before them, holds as long as nothing moved since (`Verified`): the tree and the line of
  the checkout are those of a snapshot the server has. What moves between the judgement and the
  removal is lost, and the property says so.

*SelfUpdate, AgentFiles, Activity* (PeopleProofs).

* `HomeIsSound`: `HomeSound`, from `UpdatesAreSound`, `AgentFilesAreSound` and `FeedIsSound`,
  for any hosts, checkouts and days, checkouts that start without a hook of runko's.
  Builds have no order and releases come in any, so nothing is said of newer or older: what
  has the command's name is whole, and is the build the machine began with or one whose
  checksums a run read off the shelf and found on what it downloaded (`UpdateInv`, per run
  `UpdateRun`). A file of runko's that a snapshot would take is half written or excused
  (`Local`); at most one installer is between its read of the settings and its write, and it
  has read every key, unless a race or a stop is on record (`KeysRead`). A row of the feed
  is of this life of its workspace or late (`RowIsOwn`); a watcher has read the feed or a
  poke is on its way (`Watched`); a push that was advised in this life is in the timeline or
  on its way to it (`AdviceSeen`); each unless a named mishap happened.

What a proof assumes is in the statement of the theorem (one handler, no
forced land, `PromptCI`, `AtomicStore`) and each is satisfied by a run that checks the same
property; the assumptions on constants are those TLC evaluates in the runs.

Only model-checked: liveness (`RequestsAnswered`, `ReadyLands`, `MirrorFollows`,
`MirrorNotPoisoned`, `OutboxDrains`, `RolloutOrCause`, `InvitesSettle`, `ChecksSettle`,
`WatcherCatchesUp`), which is out of the prover's reach, and the comparisons with recursive
reference definitions: `StoresAgree` folds the finished calls, `CreatesSound` folds trees.
`MachineKept` is checked for the command lists of the run and does not hold of every list: two
commands in one directory with a removal by hand between them can break it.

## Divergences between code and documents

Five are runs (above) and are listed as findings. The models also follow the code in these
places, where a comment, a document or a message says otherwise; the properties name them.

* *Merge gate.* A stack sync mints no agent-policy check, though the comment at
  `prereceive.go:1024` speaks for every path. The check is minted after the row is visible, and
  a failed write of it is only logged. Nor does a sync judge a delta again that has become a
  finding because trunk filled the directory it makes a project of. An acknowledgement is
  carried only when the head is covered. With unreadable settings the veto counts as on.
* *Change server.* A forced land of what was mergeable is recorded as unforced although it
  skipped revalidation. A rerun resets the run before it asks for CI, and an event that fails
  there or at a push or sync is only logged (`actions.go:758`, `prereceive.go:1009`): the head
  waits for a human. A sync that cannot diff its head may take it for covered (`sync.go:163`).
* *Authoring.* `docs/cli-contract.md:131` says conflict markers never reach the pushed
  commit, and `sync.go:55-57` that a conflict is reported: the failure of the listing is
  ignored (`sync.go:58`) and the same push or land ships the conflict with nobody told; so does a
  later push of one a killed command left. A failed `git rebase --abort` leaves the rebase open
  (`sync.go:90-100`); the model has the author end it by hand before anything else is
  committed. A jj describe and a re-snapshot replace the Change-Id; `jj op restore`
  takes back edits made after the operation it returns to.
* *Machine.* Recycling a checkout carries tracked edits into the next workspace; any failed
  fetch counts as "never snapshotted"; gc removes what it judged earlier after looking only
  whether it is there, and releases a checkout's credential before it removes the directory
  (`workspacegc.go:220-228`), which a stop or a failure leaves half reclaimed; the registry is
  saved without a lock.
* *Review.* The owner `user:<author>` is not satisfied by the author (`api.go:1346`), yet the
  attention set skips the author: nobody is asked. A comment is stamped with the head its
  handler read. A requested reviewer who approved stays in the set. Resolving is never announced.
* *Stores.* PostgresStore copies a stale pass over (`CopyPassingCheckRunsToHead`), abandons
  over a land, reruns on an older head, inserts twins, counts attempts before they are made,
  stores batches in part. MemStore counts a success as an attempt (`store.go:1431`),
  PostgresStore does not (`webhooks.sql:16`). `EnsureOrg` answers a race with an error.
* *Doors.* Anonymous readers of a public org see comments by REST only; REST's list without a
  state lists all Changes, RPC's the open ones.
* *Projects.* "No dangling edge survives" (`delete.go:14`) does not hold of test dependencies, of
  projects nested in the deleted one, nor of edges that land after the plan; "two racing creates
  resolve at land time" (`createproject.go:31`) does not hold of two names or two paths; a
  plain-git local create resets over work begun after its look.
* *Dispatch.* Two reruns of one check within a second share a delivery id, and the bridge
  drops the second. A connect that ends half-way leaves values of two connects.
* *Executor.* The audit accepts a library edge declared only as a test dependency or a
  consumed contract, which the affected computation does not follow; a tracked file git
  cannot show is skipped; a narrowed matrix has fewer names than the gate requires.
* *Invites* (found by the proof). An ack, in time or late, about a row another ack settled
  reopens it. The rate limiter's hits are in memory (`invite.go:191`): a restart admits a visitor
  more often than the limit, so the limit is stated between two starts.
* *Watchdog* (found by the proof). "Exactly ONE rescue rerun per (change, head, name)"
  (`watchdog.go:35`): a late "running" report sends a finished check back to pending after
  the books dropped it, and a push during a sweep files results of the new head under the
  old one; a second rescue is then possible. So it is when the daemon applied the rerun and
  the answer was lost (`watchdog.go:183-187`).
* *Self-update.* A build from source, newer or not, is replaced (`update.go:6-8`), and a release
  published late may be an older build: the update may go back. "The swap is atomic" is not so
  on Windows, where a stop between two renames leaves no executable and an overlapping update
  removes the one put aside.
* *Agent files.* A skill written and not excluded when the installer stopped counts as present
  ever after; any mention of its path in `info/exclude` counts as excluded; settings are
  written by truncation, without a lock.
* *Activity.* The advice "only the first change push ever nudges" (`prereceive.go:932`) looks at
  25 rows, which later rows can fill; a batch stored in part pokes nobody; a row may be stored
  after its workspace was closed.

## Plan

1. *Done*: the server (ChangeServer, MergeGate, StackLanding, ChangeRefs, MirrorTrunk), the
   services, what is around it (stores, doors, projects, review, dispatch, executor, the
   command line tools on a machine).
2. *Done*: theorems about ChangeServer, MergeGate, StackLanding, MirrorTrunk, Outbox, Rollout,
   Watchdog, Affected, InviteMail, OrgHub, FrontDoors, Review, Workspaces, Releases, Worktrees,
   Authoring, Dispatch, Executor, SelfUpdate, AgentFiles, Activity.
3. Left: the parts of `CreatesSound` that need no fold over a tree, and `MachineKept` for every
   list of commands, with its excuses named.

## Not modelled

The receive policy's rules other than those on owners and created projects, the secret scan,
glob matching and check-set patterns, calendar versions and staleness blockers are pure
functions of pushed content or text; a model keeps their verdict. Search, the zoekt indexer, the
web and admin front ends and status readouts only read. AddOrgMember and agent policy rows are
single writes. Boot other than the prune, the MCP tools and the remaining verbs of the command
line tools send one request each; the models let a client send any request at any time.
Generated code (protobuf and Connect stubs, scanning of rows, queries nobody calls) has no
behaviour of its own; with presentation and flag parsing it is a quarter of the repository's
lines.
