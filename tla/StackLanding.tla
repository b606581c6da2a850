---------------------------- MODULE StackLanding ----------------------------
(***************************************************************************)
(* Stacked Changes: series pushes, the order in which a stack lands,       *)
(* land-stack, stack sync and the automerge worker.                        *)
(*                                                                         *)
(* A commit is a number, commits[n] its Change, its first parent and its   *)
(* delta (a rebase keeps it); trunk is the list of landed commits, each    *)
(* re-minted from a head; it starts with a commit of no Change.  A Change  *)
(* sits on another one when its base is a commit of that Change (base_sha  *)
(* = head_sha of the parent).  Everything the merge gate asks besides the  *)
(* base (owners, checks) is one bit per head, green.  The stable ref and   *)
(* the head of the row are one variable here; ChangeServer keeps them      *)
(* apart.  A request (or the worker) works down a list of members, one     *)
(* after the other, with other requests in between.                        *)
(***************************************************************************)
EXTENDS Naturals, Sequences, FiniteSets

CONSTANTS Changes, NoChange,
          Stack,         \* the Changes pushed at first, trunk-most first
          Handlers,      \* the requests the daemon serves at one time
          Worker,        \* the AutomergeWorker's goroutine
          Mixes          \* the kinds of request that clients mix, the handlers
                         \* that serve them, and a bound on the commits that
                         \* pushes and syncs make

ASSUME StackAssumption ==
    /\ NoChange \notin Changes /\ Worker \notin Handlers
    /\ IsFiniteSet(Changes) /\ Stack \in Seq(Changes)
    /\ \A m \in Mixes :
          /\ m.kinds \subseteq {"push", "sync", "land", "force", "stack",
                               "abandon", "sweep"}
          /\ m.heads \in Nat /\ m.handlers \subseteq Handlers

VARIABLES commits,   \* git: every commit
          trunk,     \* git: first-parent history of trunk, oldest first
          row,       \* the changes table
          green,     \* the heads whose owners and checks are satisfied
          memo,      \* AutomergeWorker.attempted
          hs,        \* the requests in flight, and the worker
          mix        \* the requests of this behaviour

vars == <<commits, trunk, row, green, memo, hs, mix>>
git == <<commits, trunk>>
Actors == Handlers \cup {Worker}
Shas == 0 .. Len(commits)

Row == [state : {"none", "open", "abandoned", "landed"}, head : Shas,
        base : Shas, landed : Shas, armed : BOOLEAN]
NoRow == [state |-> "none", head |-> 0, base |-> 0, landed |-> 0,
          armed |-> FALSE]

\* What a request holds of the Change it works on: the head and base it read,
\* and, for a write, the head it expects to replace.
Member == [change : Changes, head : Shas, base : Shas, old : Shas]

Actor == [pc : {"idle", "next", "gate", "attempt", "record", "write"},
          kind : {"none", "land", "stack", "sweep", "push", "sync"},
          todo : Seq(Member), force : BOOLEAN, tip : Shas]
Idle == [pc |-> "idle", kind |-> "none", todo |-> << >>, force |-> FALSE,
         tip |-> 0]

----------------------------------------------------------------------------
(* Git.                                                                    *)

OnTrunk(n) == \E i \in 1 .. Len(trunk) : trunk[i].sha = n
Tip == trunk[Len(trunk)].sha

\* rev-list --first-parent n ^trunk: nearest first.
Line(n) ==
    LET f[k \in Shas] == IF k = 0 \/ OnTrunk(k) THEN << >>
                         ELSE <<k>> \o f[commits[k].parent]
    IN  f[n]

\* merge-base n trunk: where the line of n leaves trunk.
Foot(n) ==
    LET f[k \in Shas] == IF k = 0 \/ OnTrunk(k) THEN k
                         ELSE f[commits[k].parent]
    IN  f[n]

ChangeOf(n) == commits[n].change

\* Trunk commits are not counted: a Change lands a bounded number of times.
Room(k) == Len(commits) - Len(trunk) + k <= mix.heads

----------------------------------------------------------------------------
(* Stacks, as the rows record them.                                        *)

Open == {c \in Changes : row[c].state = "open"}

\* changeWithHead, and the parent lookups by head.
WithHead(n) == {d \in Changes : row[d].state # "none" /\ row[d].head = n}
OpenParents(c) == {d \in Open \ {c} : row[d].head = row[c].base}

\* stackForChange and landStackCore: down to the trunk-most open ancestor.
Ancestry(c) ==
    LET f[k \in 0 .. Cardinality(Changes)] ==
            IF k = 0 THEN <<c>>
            ELSE LET s == f[k - 1]
                     up == OpenParents(Head(s)) \ {s[i] : i \in 1 .. Len(s)}
                 IN  IF up = {} THEN s ELSE <<CHOOSE d \in up : TRUE>> \o s
    IN  f[Cardinality(Changes)]

\* stackForChange: the root of c's stack and everything above it.
StackOf(c) == {d \in Open \cup {c} : Head(Ancestry(d)) = Head(Ancestry(c))}

\* The orders in which S may be listed, and those in which a walk of a stack
\* may list it: every parent before its children.
Listings(S) ==
    {s \in [1 .. Cardinality(S) -> S] :
        \A i, j \in 1 .. Cardinality(S) : i < j => s[i] # s[j]}
Walks(S) ==
    {s \in Listings(S) :
        \A i, j \in 1 .. Len(s) : i < j => s[j] \notin OpenParents(s[i])}

MemberOf(c) == [change |-> c, head |-> row[c].head, base |-> row[c].base,
                old |-> 0]

Begun(kind, pc, todo, force) ==
    [pc |-> pc, kind |-> kind, todo |-> todo, force |-> force,
     tip |-> IF kind = "sweep" THEN Tip ELSE 0]
Start(h, kind, pc, todo) == hs' = [hs EXCEPT ![h] = Begun(kind, pc, todo, FALSE)]
Goto(h, pc) == hs' = [hs EXCEPT ![h].pc = pc]
At(h, pc) == hs[h].pc = pc
Serves(h, kind) == /\ At(h, "idle") /\ kind \in mix.kinds
                   /\ h \in mix.handlers \cup {Worker}
Cur(h) == Head(hs[h].todo)

\* The request is done with its current member: a sweep and a land-stack go on
\* with the next one, a single land answers.
Following(h) == hs' = [hs EXCEPT ![h].pc = "next", ![h].todo = Tail(@)]
\* A member could not be landed: land and land-stack stop, a sweep goes on.
Stop(h) == IF hs[h].kind = "sweep" THEN Following(h)
           ELSE hs' = [hs EXCEPT ![h] = Idle]

----------------------------------------------------------------------------
(* Push: one tip carries a whole series.                                   *)

\* Mutant: the prior head of the Change, the value of the ref it is pushed to.
BaseOfPrior(n) == row[ChangeOf(n)].head

\* computeBaseSHA, nearestPendingChangeBase: the nearest commit below n that
\* belongs to another Change the store knows, else the merge base with trunk.
BaseOf(n) ==
    LET below == Line(commits[n].parent)
        others == {i \in 1 .. Len(below) : ChangeOf(below[i]) # ChangeOf(n)}
    IN  IF others = {} THEN Foot(n)
        ELSE below[CHOOSE i \in others : \A j \in others : i <= j]

\* seriesMembers: bottom-up, the topmost commit of every Change on the line
\* that is not landed, and the tip.
SeriesOf(n) ==
    LET line == {Line(n)[i] : i \in 1 .. Len(Line(n))}
        members == {k \in line :
            /\ k = n \/ row[ChangeOf(k)].state # "landed"
            /\ \A j \in line : ChangeOf(j) = ChangeOf(k) => j <= k}
        f[k \in Shas] == IF k = 0 THEN << >>
                         ELSE f[k - 1] \o (IF k \in members THEN <<k>> ELSE << >>)
    IN  f[n]

\* A client commits for Change c on a commit it has and pushes the tip, or
\* pushes a tip again that it has (evaluate refuses a landed tip).
Push(h, c) ==
    /\ Serves(h, "push") /\ row[c].state # "landed"
    /\ Room(1)
    /\ \E p \in ({Tip} \cup {row[d].head : d \in Changes}) \ {0} :
          commits' = Append(commits, [change |-> c, parent |-> p,
                                      delta |-> Len(commits) + 1])
    /\ Start(h, "push", "next", <<[change |-> c, head |-> Len(commits) + 1,
                                   base |-> 0, old |-> 0]>>)
    /\ UNCHANGED <<trunk, row, green, memo, mix>>

Repush(h, n) ==
    /\ Serves(h, "push") /\ ~OnTrunk(n)
    /\ row[ChangeOf(n)].state # "landed"
    /\ \E k \in {SeriesOf(n)[i] : i \in 1 .. Len(SeriesOf(n))} :
          row[ChangeOf(k)].head # k \/ row[ChangeOf(k)].state # "open"
    /\ Start(h, "push", "next", <<[change |-> ChangeOf(n), head |-> n,
                                   base |-> 0, old |-> 0]>>)
    /\ UNCHANGED <<git, row, green, memo, mix>>

\* commit begins: the members of the series.
PushSeries(h) ==
    /\ At(h, "next") /\ hs[h].kind = "push"
    /\ LET s == SeriesOf(Cur(h).head) IN
          hs' = [hs EXCEPT ![h].pc = "write", ![h].todo =
                   [i \in 1 .. Len(s) |->
                      [change |-> ChangeOf(s[i]), head |-> s[i],
                       base |-> 0, old |-> 0]]]
    /\ UNCHANGED <<git, row, green, memo, mix>>

\* CreateOrUpdateChange, and carry-forward: the satisfied gates of an open
\* head follow it when the new one is a trivial rebase.
Upsert(m) ==
    /\ row' = [row EXCEPT ![m.change].head = m.head, ![m.change].base = m.base,
                          ![m.change].state = IF @ = "landed" THEN @ ELSE "open"]
    /\ \/ UNCHANGED green
       \/ /\ row[m.change].state = "open" /\ row[m.change].head \in green
          /\ green' = green \cup {m.head}

\* One member is written; a sync gives up when the head is not the one it
\* rebased (sync_race), a push looks at nothing.
WriteMember(h) ==
    /\ At(h, "write")
    /\ LET m == Cur(h) IN
          \/ /\ \/ /\ hs[h].kind = "push"
                   /\ Upsert([m EXCEPT !.base = BaseOf(m.head)])
                \/ hs[h].kind = "sync" /\ row[m.change].head = m.old /\ Upsert(m)
             /\ IF Len(hs[h].todo) = 1 THEN hs' = [hs EXCEPT ![h] = Idle]
                ELSE hs' = [hs EXCEPT ![h].todo = Tail(@)]
          \/ /\ hs[h].kind = "sync" /\ row[m.change].head # m.old
             /\ hs' = [hs EXCEPT ![h] = Idle]
             /\ UNCHANGED <<row, green>>
    /\ UNCHANGED <<git, memo, mix>>

----------------------------------------------------------------------------
(* Stack sync: rebase every open member of the stack, then write.          *)

\* The new commits of a walk s: each member goes onto its parent's new head,
\* or onto the tip when its parent is not in the stack; a member that is
\* where it belongs stays.
Rebased(s) ==
    LET f[i \in 0 .. Len(s)] ==
          IF i = 0 THEN [made |-> commits, new |-> [k \in Shas |-> 0],
                         todo |-> << >>]
          ELSE LET r == f[i - 1]
                   m == MemberOf(s[i])
                   onto == IF r.new[m.base] # 0 THEN r.new[m.base] ELSE Tip
                   n == Len(r.made) + 1
               IN  IF m.base = onto
                   THEN [r EXCEPT !.new[m.head] = m.head]
                   ELSE [made |-> Append(r.made, [change |-> s[i],
                                parent |-> onto, delta |-> commits[m.head].delta]),
                         new |-> [r.new EXCEPT ![m.head] = n],
                         todo |-> Append(r.todo, [m EXCEPT
                                    !.head = n, !.base = onto, !.old = m.head])]
    IN  f[Len(s)]

\* syncChangeCore up to its write phase (a conflict ends it with no write).
SyncCompute(h, c) ==
    /\ Serves(h, "sync") /\ row[c].state = "open"
    /\ Room(Cardinality(StackOf(c)))
    /\ \E s \in Walks(StackOf(c)) :
          LET r == Rebased(s) IN
          /\ r.todo # << >>
          /\ commits' = r.made
          /\ Start(h, "sync", "write", r.todo)
    /\ UNCHANGED <<trunk, row, green, memo, mix>>

----------------------------------------------------------------------------
(* Review, abandon, arming.                                                *)

\* Owners approve and checks pass at the current head.
ReportGates(c) ==
    /\ row[c].state = "open"
    /\ green' = green \cup {row[c].head}
    /\ UNCHANGED <<git, row, memo, hs, mix>>

Abandon(c) ==
    /\ "abandon" \in mix.kinds /\ row[c].state = "open"
    /\ row' = [row EXCEPT ![c].state = "abandoned"]
    /\ UNCHANGED <<git, green, memo, hs, mix>>

\* setAutomergeCore: only open Changes are armed, any is disarmed.
SetAutomerge(c) ==
    /\ "sweep" \in mix.kinds
    /\ row[c].state = "open" \/ row[c].armed
    /\ row' = [row EXCEPT ![c].armed = ~@]
    /\ UNCHANGED <<git, green, memo, hs, mix>>

----------------------------------------------------------------------------
(* Landing: one Change, a stack, or what a sweep finds.                    *)

\* Mutant: a landed parent is taken for granted.
BaseGateOpen(b) == TRUE

\* mergeRequirements' base gate: baseOnTrunk, or parentLandedOnTrunk.
BaseGate(b) ==
    \/ OnTrunk(b)
    \/ \E d \in WithHead(b) : row[d].state = "landed" /\ OnTrunk(row[d].landed)

Mergeable(m) == m.head \in green /\ BaseGate(m.base)

\* refuseUnlandedParent: an open Change still has this base as its head.
UnlandedParent(m) == ~OnTrunk(m.base) /\ \E d \in Open : row[d].head = m.base

LandRequest(h, c, force) ==
    /\ Serves(h, IF force THEN "force" ELSE "land") /\ row[c].state = "open"
    /\ hs' = [hs EXCEPT ![h] = Begun("land", "gate", <<MemberOf(c)>>, force)]
    /\ UNCHANGED <<git, row, green, memo, mix>>

\* landStackCore: the open ancestors of c, bottom-up, and c.
LandStack(h, c) ==
    /\ Serves(h, "stack") /\ row[c].state = "open"
    /\ LET s == Ancestry(c) IN
          Start(h, "stack", "next", [i \in 1 .. Len(s) |-> MemberOf(s[i])])
    /\ UNCHANGED <<git, row, green, memo, mix>>

\* SweepOnce lists the armed open Changes, then resolves the tip.
SweepBegin ==
    /\ Serves(Worker, "sweep")
    /\ LET armed == {c \in Open : row[c].armed} IN
          /\ armed # {}
          /\ \E s \in Listings(armed) :
                Start(Worker, "sweep", "next",
                      [i \in 1 .. Len(s) |-> MemberOf(s[i])])
    /\ UNCHANGED <<git, row, green, memo, mix>>

\* Mutant: the memo forgets which trunk it was about.
MemoKeyOfHead(m, t) == <<m.change, m.head, 1>>

\* attemptKey: Change, head, and the tip the sweep began with.
MemoKey(m, t) == <<m.change, m.head, t>>

\* A land-stack reads its next member again and skips it when landed; a sweep
\* skips what it tried before and what is not mergeable.
TakeNext(h) ==
    /\ At(h, "next") /\ hs[h].kind \in {"stack", "sweep"}
    /\ \/ hs[h].todo = << >> /\ hs' = [hs EXCEPT ![h] = Idle]
       \/ /\ hs[h].todo # << >> /\ hs[h].kind = "stack"
          /\ LET c == Cur(h).change IN
                \/ row[c].state = "landed" /\ Following(h)
                \/ row[c].state = "abandoned" /\ Stop(h)
                \/ /\ row[c].state = "open"
                   /\ hs' = [hs EXCEPT ![h].pc = "gate", ![h].todo[1] = MemberOf(c)]
       \/ /\ hs[h].todo # << >> /\ hs[h].kind = "sweep"
          /\ IF MemoKey(Cur(h), hs[h].tip) \in memo \/ ~Mergeable(Cur(h))
             THEN Following(h) ELSE Goto(h, "gate")
    /\ UNCHANGED <<git, row, green, memo, mix>>

\* landChangeCore's gates, on the row that was read.
LandGate(h) ==
    /\ At(h, "gate")
    /\ IF ~UnlandedParent(Cur(h)) /\ (Mergeable(Cur(h)) \/ hs[h].force)
       THEN hs' = [hs EXCEPT ![h].pc = "attempt",
                             ![h].force = @ /\ ~Mergeable(Cur(h))]
       ELSE Stop(h)
    /\ UNCHANGED <<git, row, green, memo, mix>>

\* attemptLand: base..head is rebased onto the tip and trunk advances
\* (ChangeServer takes the compare-and-swap and its retries apart).  A base
\* that is the tip merges; any other may conflict or want revalidation, which
\* a sweep remembers.
LandAttempt(h) ==
    /\ At(h, "attempt")
    /\ LET m == Cur(h) IN
          \/ /\ commits' = Append(commits, [change |-> m.change,
                   parent |-> Tip, delta |-> commits[m.head].delta])
             /\ trunk' = Append(trunk,
                   [sha |-> Len(commits) + 1, head |-> m.head,
                    base |-> m.base, forced |-> hs[h].force])
             /\ hs' = [hs EXCEPT ![h].pc = "record",
                                 ![h].todo[1].old = Len(commits) + 1]
             /\ UNCHANGED memo
          \/ /\ m.base # Tip
             /\ memo' = IF hs[h].kind = "sweep"
                        THEN memo \cup {MemoKey(m, hs[h].tip)} ELSE memo
             /\ Stop(h)
             /\ UNCHANGED git
    /\ UNCHANGED <<row, green, mix>>

\* MarkChangeLanded.
MarkLanded(h) ==
    /\ At(h, "record")
    /\ row' = [row EXCEPT ![Cur(h).change].state = "landed",
                          ![Cur(h).change].landed = Cur(h).old]
    /\ IF hs[h].kind = "land" THEN hs' = [hs EXCEPT ![h] = Idle]
       ELSE Following(h)
    /\ UNCHANGED <<git, green, memo, mix>>

----------------------------------------------------------------------------
\* A stack has been pushed, trunk-most first, and trunk has moved since.
Init ==
    /\ commits = <<[change |-> NoChange, parent |-> 0, delta |-> 1],
                   [change |-> NoChange, parent |-> 1, delta |-> 2]>>
                 \o [i \in 1 .. Len(Stack) |->
                        [change |-> Stack[i], delta |-> i + 2,
                         parent |-> IF i = 1 THEN 1 ELSE i + 1]]
    /\ trunk = [i \in 1 .. 2 |-> [sha |-> i, head |-> 0, base |-> 0,
                                  forced |-> FALSE]]
    /\ row = [c \in Changes |->
                IF \E i \in 1 .. Len(Stack) : Stack[i] = c
                THEN LET i == CHOOSE i \in 1 .. Len(Stack) : Stack[i] = c IN
                     [NoRow EXCEPT !.state = "open", !.head = i + 2,
                                   !.base = IF i = 1 THEN 1 ELSE i + 1]
                ELSE NoRow]
    /\ green = {} /\ memo = {}
    /\ hs = [h \in Actors |-> Idle]
    /\ mix \in Mixes

Step(h) ==
    \/ PushSeries(h) \/ WriteMember(h)
    \/ TakeNext(h) \/ LandGate(h) \/ LandAttempt(h) \/ MarkLanded(h)

Request(h, c) ==
    \/ Push(h, c) \/ SyncCompute(h, c) \/ LandStack(h, c)
    \/ \E force \in BOOLEAN : LandRequest(h, c, force)

Next ==
    \/ \E h \in Actors : Step(h)
    \/ \E h \in Handlers, c \in Changes : Request(h, c)
    \/ \E h \in Handlers, n \in 2 .. Len(commits) : Repush(h, n)
    \/ \E c \in Changes : ReportGates(c) \/ Abandon(c) \/ SetAutomerge(c)
    \/ SweepBegin

Spec == Init /\ [][Next]_vars

\* Goroutines run, and the worker's ticker starts one sweep after another.
FairSpec == /\ Spec
            /\ \A h \in Actors : WF_vars(Step(h))
            /\ WF_vars(SweepBegin)
----------------------------------------------------------------------------
(* Properties.                                                             *)

\* The first-parent ancestors of n.
Ancestors(n) ==
    LET f[k \in Shas] == IF k = 0 THEN {}
                         ELSE {commits[k].parent} \cup f[commits[k].parent]
    IN  f[n]

\* StackTypeOK - types; a row exists exactly when it has a head, a commit of
\* its own Change; its base is an ancestor of that head and never an unlanded
\* commit of the Change itself, however the Change was grown, amended,
\* re-pushed within another's series or synced (computeBaseSHA: what base..head diffs).
StackTypeOK ==
    /\ commits \in Seq([change : Changes \cup {NoChange}, parent : Shas,
                        delta : Shas])
    /\ trunk \in Seq([sha : Shas, head : Shas, base : Shas, forced : BOOLEAN])
    /\ row \in [Changes -> Row]
    /\ green \subseteq Shas
    /\ memo \subseteq Changes \X Shas \X Shas
    /\ hs \in [Actors -> Actor]
    /\ \A c \in Changes :
          /\ row[c].state = "none" <=> row[c].head = 0
          /\ row[c].head # 0 => /\ ChangeOf(row[c].head) = c
                                /\ row[c].base \in Ancestors(row[c].head) \ {0}
                                /\ OnTrunk(row[c].base) \/ ChangeOf(row[c].base) # c

\* The unforced lands of heads that sat on another Change's commit.
StackedLands == {i \in 1 .. Len(trunk) : /\ trunk[i].head # 0
                                         /\ ~trunk[i].forced
                                         /\ ~OnTrunk(trunk[i].base)}

\* ParentsLandFirst - a Change never lands unforced before the Change it is
\* stacked on: whatever pushes, amends, abandons, syncs, land-stacks and sweeps
\* are in flight, some version of the parent is on trunk before it
\* (refuseUnlandedParent and the base gate of mergeRequirements).
ParentsLandFirst ==
    \A i \in StackedLands :
        \E j \in 1 .. i - 1 : ChangeOf(trunk[j].sha) = ChangeOf(trunk[i].base)

Ready(c) == row[c].state = "open" /\ row[c].armed /\ Mergeable(MemberOf(c))
Stuck(c) == <<c, row[c].head, Tip>> \in memo

\* ReadyLands - an armed Change does not stay ready for ever: it lands, stops
\* being ready, or was tried at this very head on this very trunk and needs its
\* author.  In particular a trunk that moved makes the worker try again.
ReadyLands == \A c \in Changes : []<>(~Ready(c) \/ Stuck(c))

\* ParentContentLanded - "the parent's content IS on trunk" when a child of a
\* landed parent lands (parentLandedOnTrunk).
ParentContentLanded ==
    \A i \in StackedLands :
        \E j \in 1 .. i - 1 :
            commits[trunk[j].sha].delta = commits[trunk[i].base].delta
============================================================================
