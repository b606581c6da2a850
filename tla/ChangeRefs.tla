----------------------------- MODULE ChangeRefs -----------------------------
(***************************************************************************)
(* The stable refs of Changes, refs/changes/<id>/head, while their objects *)
(* come and go.  The pre-receive hook makes the daemon write the ref when  *)
(* the pushed objects are still in git's quarantine; only after the hook   *)
(* does git move them to the store, and a push that dies in between leaves *)
(* a ref to nothing.  Such refs are deleted by the mirror before it pushes *)
(* the namespace, and when the daemon boots.                               *)
(*                                                                         *)
(* Data.  Version n of a Change is the number n, 0 is no version.          *)
(***************************************************************************)
EXTENDS Naturals, FiniteSets

CONSTANTS Changes,       \* the Change-Ids
          NoChange,      \* not a Change-Id
          Pushers,       \* the pushes git serves at one time
          Mirrored,      \* TRUE: the daemon has a mirror
          MaxHeads,      \* bound: versions of a Change
          MaxFaults      \* bound: pushes that die, restarts

ASSUME RefsAssumption ==
    /\ NoChange \notin Changes /\ Mirrored \in BOOLEAN
    /\ MaxHeads \in Nat \ {0} /\ MaxFaults \in Nat

VARIABLES ref,         \* refs/changes/<id>/head
          row,         \* the head of the Change row
          store,       \* the versions in the object store
          pushed,      \* the versions clients have pushed so far
          pushes,      \* the pushes in flight
          sync,        \* syncNamespace: its step and the refs still to look at
          copy,        \* the refs of the mirror
          faults       \* the failures so far

vars == <<ref, row, store, pushed, pushes, sync, copy, faults>>

----------------------------------------------------------------------------
NoPush == [pc |-> "idle", change |-> NoChange, head |-> 0]

NoSync == [pc |-> "idle", todo |-> {}, at |-> <<NoChange, 0>>]

\* The object store does not have the version.
Missing(c, n) == n \notin store[c]

InFlight == {p \in Pushers : pushes[p].pc # "idle"}

Dangling == {c \in Changes : ref[c] # 0 /\ Missing(c, ref[c])}

\* receive-pack has the objects in quarantine, finds every ref of the
\* repository connected and runs the hook; evaluate accepts.
PushStart(p, c) ==
    /\ pushes[p].pc = "idle" /\ pushed[c] < MaxHeads
    /\ Dangling = {}
    /\ pushed' = [pushed EXCEPT ![c] = @ + 1]
    /\ pushes' = [pushes EXCEPT ![p] = [pc |-> "ref", change |-> c,
                                        head |-> pushed[c] + 1]]
    /\ UNCHANGED <<ref, row, store, sync, copy, faults>>

\* commit: update-ref of the stable ref, which sees the quarantine ...
PushRef(p) ==
    /\ pushes[p].pc = "ref"
    /\ ref' = [ref EXCEPT ![pushes[p].change] = pushes[p].head]
    /\ pushes' = [pushes EXCEPT ![p].pc = "row"]
    /\ UNCHANGED <<row, store, pushed, sync, copy, faults>>

\* ... and the Change row.
PushRow(p) ==
    /\ pushes[p].pc = "row"
    /\ row' = [row EXCEPT ![pushes[p].change] = pushes[p].head]
    /\ pushes' = [pushes EXCEPT ![p].pc = "migrate"]
    /\ UNCHANGED <<ref, store, pushed, sync, copy, faults>>

\* receive-pack moves the quarantine into the store.
Migrate(p) ==
    /\ pushes[p].pc = "migrate"
    /\ store' = [store EXCEPT ![pushes[p].change] = @ \cup {pushes[p].head}]
    /\ pushes' = [pushes EXCEPT ![p] = NoPush]
    /\ UNCHANGED <<ref, row, pushed, sync, copy, faults>>

\* The push dies: its quarantine goes, what the daemon wrote stays.
PushDies(p) ==
    /\ pushes[p].pc # "idle"
    /\ faults < MaxFaults /\ faults' = faults + 1
    /\ pushes' = [pushes EXCEPT ![p] = NoPush]
    /\ UNCHANGED <<ref, row, store, pushed, sync, copy>>

PushStep(p) == PushRef(p) \/ PushRow(p) \/ Migrate(p)

----------------------------------------------------------------------------
\* syncNamespace: for-each-ref ...
SyncList ==
    /\ Mirrored /\ sync.pc = "idle"
    /\ sync' = [NoSync EXCEPT !.pc = "check",
                   !.todo = {<<c, ref[c]>> : c \in {d \in Changes : ref[d] # 0}}]
    /\ UNCHANGED <<ref, row, store, pushed, pushes, copy, faults>>

\* ... cat-file -e of each object, which does not see quarantines ...
SyncCheck ==
    /\ sync.pc = "check"
    /\ IF sync.todo = {} THEN sync' = [sync EXCEPT !.pc = "push"]
       ELSE \E r \in sync.todo :
               sync' = IF Missing(r[1], r[2])
                       THEN [pc |-> "delete", todo |-> sync.todo \ {r}, at |-> r]
                       ELSE [sync EXCEPT !.todo = @ \ {r}]
    /\ UNCHANGED <<ref, row, store, pushed, pushes, copy, faults>>

\* Mutant: the dangling ref stays.
DeleteNothing(c) == UNCHANGED ref

\* update-ref -d, with no expected value.
DeleteRef(c) == ref' = [ref EXCEPT ![c] = 0]

SyncDelete ==
    /\ sync.pc = "delete"
    /\ DeleteRef(sync.at[1])
    /\ sync' = [sync EXCEPT !.pc = "check", !.at = <<NoChange, 0>>]
    /\ UNCHANGED <<row, store, pushed, pushes, copy, faults>>

\* git push of the namespace: one ref to a missing object fails all of it.
SyncPush ==
    /\ sync.pc = "push"
    /\ copy' = IF Dangling # {} THEN copy
               ELSE [c \in Changes |-> IF ref[c] # 0 THEN ref[c] ELSE copy[c]]
    /\ sync' = NoSync
    /\ UNCHANGED <<ref, row, store, pushed, pushes, faults>>

SyncStep == SyncCheck \/ SyncDelete \/ SyncPush

\* PruneDanglingChangeRefs.
PruneDangling ==
    ref' = [c \in Changes |-> IF Missing(c, ref[c]) THEN 0 ELSE ref[c]]

\* The daemon restarts: pushes and syncs in flight are gone, and boot prunes.
RefsRestart ==
    /\ faults < MaxFaults /\ faults' = faults + 1
    /\ PruneDangling
    /\ pushes' = [p \in Pushers |-> NoPush]
    /\ sync' = NoSync
    /\ UNCHANGED <<row, store, pushed, copy>>

Init ==
    /\ ref = [c \in Changes |-> 0] /\ row = [c \in Changes |-> 0]
    /\ store = [c \in Changes |-> {}] /\ pushed = [c \in Changes |-> 0]
    /\ pushes = [p \in Pushers |-> NoPush]
    /\ sync = NoSync /\ copy = [c \in Changes |-> 0] /\ faults = 0

Next ==
    \/ \E p \in Pushers : \/ PushStep(p) \/ PushDies(p)
                          \/ \E c \in Changes : PushStart(p, c)
    \/ SyncList \/ SyncStep \/ RefsRestart

Spec == Init /\ [][Next]_vars

----------------------------------------------------------------------------
(* Properties.                                                             *)

\* The head of c is a commit the repository kept.
KeptHead(c) == row[c] # 0 /\ ~Missing(c, row[c])

Pushing(c) == \E p \in InFlight : pushes[p].change = c

\* AcceptedIsReferenced - "Without this, an accepted Change's commit becomes
\* unreachable": when no push of it is in flight, a Change whose head the
\* repository kept has a ref that keeps it (commit, syncNamespace, boot).
AcceptedIsReferenced ==
    \A c \in Changes : (KeptHead(c) /\ ~Pushing(c)) => ref[c] # 0

\* MirrorNotPoisoned - a push that died does not stop the mirror: in the end
\* every Change ref of the repository is on the mirror, and none dangles.
MirrorNotPoisoned ==
    <>[](Dangling = {} /\ \A c \in Changes : ref[c] # 0 => copy[c] = ref[c])
=============================================================================
