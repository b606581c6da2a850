----------------------------- MODULE Workspaces ------------------------------
(***************************************************************************)
(* One workspace: pushes that are born in it, snapshots of it, the single  *)
(* use of an agent's, its deletion, its timeline and the stream that shows *)
(* the timeline to a watcher.                                              *)
(*                                                                         *)
(* Data.  A line is a stack of its own, fresh from trunk; its Changes are  *)
(* one.  Owners, paths and the content of snapshots are left out, and so   *)
(* are the refusals that depend on them.  Of the timeline the model knows   *)
(* whether rows are stored and whether the watcher has fetched the last.   *)
(***************************************************************************)
EXTENDS Naturals, FiniteSets, Sequences

CONSTANTS Lines, Snapshot,    \* what is pushed
          PushSlots,          \* the pushes served at one time
          SpacePlans          \* the cases: whether the owner is an agent under the
                              \* single-use policy, whether somebody watches, and
                              \* bounds on creations, pushes and faults (failed
                              \* calls, restarts)

ASSUME WorkspaceAssumption ==
    /\ Snapshot \notin Lines
    /\ SpacePlans \subseteq [agent : BOOLEAN, watched : BOOLEAN, creates : Nat,
                             pushes : Nat, faults : Nat]

VARIABLES space,       \* the status of the registry row, or "none"
          use,         \* the plan of this behaviour
          snapshot,    \* refs/workspaces/<id>/head exists
          lines,       \* the Changes born in the workspace
          slots,       \* the pushes in flight
          enders,      \* the tail of landing or abandoning each line
          deletion,    \* deleteWorkspaceCore
          timeline,    \* workspace_events
          feed,        \* the BusSubscription of the watcher
          watcher,     \* WatchWorkspace and its client
          spaceFaults, created, begun,
          clashes      \* history: which races there were

spaceVars == <<space, use, snapshot, lines, slots, enders, deletion, timeline,
               feed, watcher, spaceFaults, created, begun, clashes>>
boundVars == <<spaceFaults, created>>

----------------------------------------------------------------------------
NoSlot == [pc |-> "idle", what |-> Snapshot]
NoFeed == [ready |-> FALSE, has |-> FALSE]

Clash(kind, now) == clashes' = IF now THEN clashes \cup {kind} ELSE clashes

Busy == {p \in PushSlots : slots[p].pc # "idle"}

SpaceFault == spaceFaults < use.faults /\ spaceFaults' = spaceFaults + 1

\* EventBus.Publish: the newest event and a signal, if there is a subscription.
Publish == feed' = IF watcher = "off" THEN feed ELSE [ready |-> TRUE, has |-> TRUE]

EventPart(n) ==
    IF n = 1 THEN /\ timeline' = [stored |-> TRUE, unseen |-> TRUE]
                  /\ UNCHANGED feed
    ELSE Publish /\ UNCHANGED timeline

\* Mutant: the poke before the row.
PokeThenRow(n) == EventPart(3 - n)

\* recordWorkspaceEvent, in two steps: the row, then the poke.
RecordEvent(n) == EventPart(n)

----------------------------------------------------------------------------
\* createWorkspaceCore: a name that is free.
CreateWorkspace ==
    /\ space = "none" /\ created < use.creates
    /\ space' = "active" /\ created' = created + 1
    /\ lines' = [l \in Lines |-> IF lines[l] = "over" THEN "past" ELSE lines[l]]
    /\ UNCHANGED <<use, snapshot, slots, enders, deletion, timeline, feed,
                   watcher, spaceFaults, begun, clashes>>

\* Enders and deletions between their look and their write.
Ending == \/ deletion # "idle" \/ \E l \in Lines : enders[l] = "close"

\* resolveOrigin and evaluateSnapshot: an active workspace only.
PushBegin(p, what) ==
    /\ slots[p].pc = "idle" /\ begun < use.pushes
    /\ what \in Lines => lines[what] \in {"none", "open"}
    /\ space = "active"
    /\ begun' = begun + 1
    /\ slots' = [slots EXCEPT ![p] = [what |-> what,
                    pc |-> IF what = Snapshot THEN "event" ELSE "stack"]]
    /\ clashes' = clashes
          \cup (IF Ending THEN {"gone"} ELSE {})
          \cup (IF {slots[q].what : q \in Busy} \ {what, Snapshot} # {}
                   /\ what # Snapshot THEN {"stacks"} ELSE {})
    /\ UNCHANGED <<space, use, snapshot, lines, enders, deletion, timeline,
                   feed, watcher, boundVars>>

OpenLines == {l \in Lines : lines[l] = "open"}

\* Mutant: whatever is open, the branch takes another line.
BlockingNever(l) == {}

Blocking(l) == OpenLines \ {l}

\* enforceOneStackPerBranch.
PushStack(p) ==
    /\ slots[p].pc = "stack"
    /\ slots' = [slots EXCEPT ![p] = IF Blocking(@.what) # {} THEN NoSlot
                                     ELSE [@ EXCEPT !.pc = "commit"]]
    /\ UNCHANGED <<space, use, snapshot, lines, enders, deletion, timeline,
                   feed, watcher, boundVars, begun, clashes>>

\* commit: the Change row, with its origin.  (What a push does to a Change
\* that was landed or abandoned meanwhile is ChangeServer's; here it stays.)
PushCommit(p) ==
    /\ slots[p].pc = "commit"
    /\ lines' = [lines EXCEPT ![slots[p].what] = IF @ = "none" THEN "open" ELSE @]
    /\ slots' = [slots EXCEPT ![p].pc = "event"]
    /\ UNCHANGED <<space, use, snapshot, enders, deletion, timeline, feed,
                   watcher, boundVars, begun, clashes>>

PushEvent(p) ==
    /\ \/ slots[p].pc = "event" /\ RecordEvent(1) /\ slots' = [slots EXCEPT ![p].pc = "poke"]
       \/ /\ slots[p].pc = "poke" /\ RecordEvent(2)
          /\ slots' = [slots EXCEPT ![p] = IF @.what = Snapshot
                          THEN [@ EXCEPT !.pc = "ref"] ELSE NoSlot]
    /\ UNCHANGED <<space, use, snapshot, lines, enders, deletion, watcher,
                   boundVars, begun, clashes>>

\* receive-pack moves the snapshot ref after the hook.
PushSnapshotRef(p) ==
    /\ slots[p].pc = "ref"
    /\ snapshot' = TRUE
    /\ slots' = [slots EXCEPT ![p] = NoSlot]
    /\ UNCHANGED <<space, use, lines, enders, deletion, timeline, feed, watcher,
                   boundVars, begun, clashes>>

PushSlotStep(p) == PushStack(p) \/ PushCommit(p) \/ PushEvent(p) \/ PushSnapshotRef(p)

----------------------------------------------------------------------------
\* A line lands or is abandoned, and its event is recorded.
Conclude(l) ==
    /\ lines[l] = "open"
    /\ lines' = [lines EXCEPT ![l] = "over"]
    /\ enders' = [enders EXCEPT ![l] = "event"]
    /\ UNCHANGED <<space, use, snapshot, slots, deletion, timeline, feed,
                   watcher, boundVars, begun, clashes>>

EnderEvent(l) ==
    /\ \E s \in {<<"event", 1, "poke">>, <<"poke", 2, "look">>,
                 <<"closed", 1, "closed poke">>, <<"closed poke", 2, "idle">>} :
          /\ enders[l] = s[1] /\ RecordEvent(s[2])
          /\ enders' = [enders EXCEPT ![l] = s[3]]
    /\ UNCHANGED <<space, use, snapshot, lines, slots, deletion, watcher,
                   boundVars, begun, clashes>>

\* maybeCloseAgentWorkspace: nothing for a human's workspace, or one that is
\* closed or gone ...
EnderLook(l) ==
    /\ enders[l] = "look"
    /\ enders' = [enders EXCEPT ![l] = IF use.agent /\ space = "active" THEN "list"
                                       ELSE "idle"]
    /\ UNCHANGED <<space, use, snapshot, lines, slots, deletion, timeline, feed,
                   watcher, boundVars, begun, clashes>>

\* Mutant: a line that is being concluded counts as open.
InFlightLines == {l \in Lines : lines[l] = "open" \/ enders[l] # "idle"}

\* ... or one that still has open Changes ...
BornHere == OpenLines

EnderList(l) ==
    /\ enders[l] = "list"
    /\ enders' = [enders EXCEPT ![l] = IF BornHere # {} THEN "idle" ELSE "close"]
    /\ Clash("gone", BornHere = {} /\ Busy # {})
    /\ UNCHANGED <<space, use, snapshot, lines, slots, deletion, timeline, feed,
                   watcher, boundVars, begun>>

\* ... and SetWorkspaceStatus, which fails without a row.
EnderClose(l) ==
    /\ enders[l] = "close"
    /\ IF space = "none" THEN UNCHANGED space ELSE space' = "closed"
    /\ enders' = [enders EXCEPT ![l] = IF space = "none" THEN "idle" ELSE "closed"]
    /\ UNCHANGED <<use, snapshot, lines, slots, deletion, timeline, feed,
                   watcher, boundVars, begun, clashes>>

\* A store call of the tail fails: it is logged and the tail ends.
EnderFails(l) ==
    /\ enders[l] \in {"look", "list", "close"} /\ SpaceFault
    /\ enders' = [enders EXCEPT ![l] = "idle"]
    /\ Clash("cut", TRUE)
    /\ UNCHANGED <<space, use, snapshot, lines, slots, deletion, timeline, feed,
                   watcher, created, begun>>

EnderStep(l) == EnderEvent(l) \/ EnderLook(l) \/ EnderList(l) \/ EnderClose(l)

----------------------------------------------------------------------------
\* Mutant: open Changes do not stand in the way.
DeleteBlockedNever == FALSE

DeleteBlocked == OpenLines # {}

\* deleteWorkspaceCore: a registered workspace without open Changes.
DeleteBegin ==
    /\ deletion = "idle" /\ space # "none" /\ ~DeleteBlocked
    /\ deletion' = "1"
    /\ Clash("gone", Busy # {})
    /\ UNCHANGED <<space, use, snapshot, lines, slots, enders, timeline, feed,
                   watcher, boundVars, begun>>

\* Mutant: the row before the refs.
RowBeforeRefs == <<"row", "refs", "events">>

\* "snapshot refs first, registry row last", and then the feeds.
DeleteOrder == <<"refs", "row", "events">>

DeleteStep ==
    /\ \E n \in 1 .. 3 :
          /\ deletion = <<"1", "2", "3">>[n]
          /\ deletion' = IF n = 3 THEN "idle" ELSE <<"2", "3">>[n]
          /\ CASE DeleteOrder[n] = "refs" ->
                    snapshot' = FALSE /\ UNCHANGED <<space, timeline>>
               [] DeleteOrder[n] = "row" ->
                    space' = "none" /\ UNCHANGED <<snapshot, timeline>>
               [] DeleteOrder[n] = "events" ->
                    timeline' = [timeline EXCEPT !.stored = FALSE]
                    /\ UNCHANGED <<space, snapshot>>
    /\ UNCHANGED <<use, lines, slots, enders, feed, watcher, boundVars, begun,
                   clashes>>

\* One of the three fails: 500, and the owner may try again.
DeleteFails ==
    /\ deletion # "idle" /\ SpaceFault
    /\ deletion' = "idle"
    /\ UNCHANGED <<space, use, snapshot, lines, slots, enders, timeline, feed,
                   watcher, created, begun, clashes>>

----------------------------------------------------------------------------
\* WatchWorkspace: a registered workspace, the subscription, the first frame.
WatchBegin ==
    /\ watcher = "off" /\ use.watched /\ space # "none"
    /\ watcher' = "fetch" /\ feed' = NoFeed
    /\ UNCHANGED <<space, use, snapshot, lines, slots, enders, deletion,
                   timeline, boundVars, begun, clashes>>

\* The client fetches the timeline on every frame.
WatchFetch ==
    /\ watcher = "fetch"
    /\ watcher' = "wait" /\ timeline' = [timeline EXCEPT !.unseen = FALSE]
    /\ UNCHANGED <<space, use, snapshot, lines, slots, enders, deletion, feed,
                   boundVars, begun, clashes>>

\* Ready ...
WatchReady ==
    /\ watcher = "wait" /\ feed.ready
    /\ feed' = [feed EXCEPT !.ready = FALSE]
    /\ watcher' = "take"
    /\ UNCHANGED <<space, use, snapshot, lines, slots, enders, deletion,
                   timeline, boundVars, begun, clashes>>

\* ... and Take, which may find nothing.
WatchTake ==
    /\ watcher = "take"
    /\ feed' = [feed EXCEPT !.has = FALSE]
    /\ watcher' = IF feed.has THEN "fetch" ELSE "wait"
    /\ UNCHANGED <<space, use, snapshot, lines, slots, enders, deletion,
                   timeline, boundVars, begun, clashes>>

WatchStep == WatchBegin \/ WatchFetch \/ WatchReady \/ WatchTake

\* The daemon restarts: what was in flight is gone; the stream ends, and its
\* client connects again.
SpaceRestart ==
    /\ SpaceFault
    /\ slots' = [p \in PushSlots |-> NoSlot]
    /\ enders' = [l \in Lines |-> "idle"]
    /\ deletion' = "idle" /\ watcher' = "off"
    /\ feed' = NoFeed
    /\ Clash("cut", \E l \in Lines : enders[l] # "idle")
    /\ UNCHANGED <<space, use, snapshot, lines, timeline, created, begun>>

SpaceInit ==
    /\ space = "none" /\ use \in SpacePlans /\ snapshot = FALSE
    /\ lines = [l \in Lines |-> "none"] /\ slots = [p \in PushSlots |-> NoSlot]
    /\ enders = [l \in Lines |-> "idle"] /\ deletion = "idle"
    /\ timeline = [stored |-> FALSE, unseen |-> FALSE]
    /\ feed = NoFeed /\ watcher = "off"
    /\ spaceFaults = 0 /\ created = 0 /\ begun = 0 /\ clashes = {}

SpaceNext ==
    \/ CreateWorkspace
    \/ \E p \in PushSlots : \/ PushSlotStep(p)
                            \/ \E what \in Lines \cup {Snapshot} : PushBegin(p, what)
    \/ \E l \in Lines : Conclude(l) \/ EnderStep(l) \/ EnderFails(l)
    \/ DeleteBegin \/ DeleteStep \/ DeleteFails
    \/ WatchStep \/ SpaceRestart

SpaceSpec == SpaceInit /\ [][SpaceNext]_spaceVars

----------------------------------------------------------------------------
(* Properties.                                                             *)

\* OneStack - "one workspace branch, one stack as an INVARIANT": a branch
\* carries one open line, however pushes, lands and deletions alternate,
\* unless two pushes of different lines were served at one time
\* (enforceOneStackPerBranch).
OneStack == Cardinality(OpenLines) <= 1 \/ "stacks" \in clashes

\* OpenHasWorkspace - "A workspace with OPEN changes cannot be deleted: their
\* provenance would dangle", nor is it closed: an open Change can be pushed to
\* again, unless a push was in flight when the workspace was looked at
\* (deleteWorkspaceCore, maybeCloseAgentWorkspace, resolveOrigin).
OpenHasWorkspace == (OpenLines # {} => space = "active") \/ "gone" \in clashes

\* SingleUseCloses - an agent's workspace is closed once its last open Change
\* has concluded, also when the last two conclude side by side and each lists
\* the open ones for itself, and whatever is being pushed
\* (maybeCloseAgentWorkspace); only a tail that was cut off may leave it active.
SingleUseCloses ==
    (/\ use.agent /\ space = "active" /\ OpenLines = {}
     /\ \E l \in Lines : lines[l] = "over"
     /\ \A l \in Lines : enders[l] = "idle")
        => "cut" \in clashes

\* DeleteIsComplete - "a partial failure leaves the row present, so retrying
\* the delete resumes": a workspace that is gone has left no snapshot ref for
\* the next one of its name, unless a push was in flight (deleteWorkspaceCore).
DeleteIsComplete == (space = "none" => ~snapshot) \/ "gone" \in clashes

\* WatcherCatchesUp - "at least one ready signal after the last publish": when
\* no more events come, the watcher of a workspace has fetched the last of
\* them, though pokes are dropped and coalesced (EventBus, WatchWorkspace).
WatcherCatchesUp ==
    []<>(space = "none" \/ ~use.watched \/ ~timeline.unseen)

\* SpaceKept - the row, the snapshot ref and the open Changes of a workspace agree
\* over pushes, ends, deletions and a second life of its name, the named clashes
\* apart (agentpolicy.go, createWorkspaceCore, deleteWorkspaceCore).
SpaceKept == OneStack /\ OpenHasWorkspace /\ SingleUseCloses /\ DeleteIsComplete
=============================================================================
