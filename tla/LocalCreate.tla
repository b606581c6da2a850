---------------------------- MODULE LocalCreate -----------------------------
(***************************************************************************)
(* `runko project create` in a checkout: the commit is written as objects  *)
(* only, then made reachable (the branch, or in a detached jj checkout a   *)
(* pin), then the working tree is brought up to it.  Two creates may run   *)
(* in one checkout, the author edits on, and a step may fail or the        *)
(* process end anywhere.                                                   *)
(***************************************************************************)
EXTENDS Naturals, FiniteSets, Sequences, SequencesExt

CONSTANTS Makers,     \* the runs of the command; each makes one commit
          Desks,      \* the checkouts: [jj, detached, sparse]
          MaxSlips    \* failed steps and ended processes

VARIABLES desk,       \* branch and tree: lines of commits, and what is unsaved
          maker,      \* where each run is
          slips,
          mishapped   \* history: what was killed, parked or reset over

makerVars == <<desk, maker, slips, mishapped>>

MakerInit ==
    /\ desk \in {[kind |-> k, branch |-> << >>, tree |-> << >>, pins |-> {}, wide |-> {},
                  wip |-> FALSE, wrote |-> FALSE, early |-> FALSE] : k \in Desks}
    /\ maker = [m \in Makers |-> [at |-> "start", base |-> << >>]]
    /\ slips = 0 /\ mishapped = {}

Made(m) == Append(maker[m].base, m)
MovesTo(m, where) == maker' = [maker EXCEPT ![m].at = where]
NeedsPin == desk.kind.jj /\ desk.kind.detached

\* mutant: the unsaved work of a jj checkout is not looked at
BuildsOnWip(m) == desk.kind.jj \/ ~desk.kind.detached

\* jj refuses unsaved work, git a detached HEAD; jj may not have imported
\* the branch's last move yet.
ResolveBase(m) == IF desk.kind.jj THEN ~desk.wip ELSE ~desk.kind.detached

ResolveBaseOrEmpty(m) ==
    /\ maker[m].at = "start"
    /\ IF ResolveBase(m)
       THEN \E base \in IF desk.kind.jj THEN {desk.tree, desk.branch} ELSE {desk.branch} :
                maker' = [maker EXCEPT ![m] = [at |-> "publish", base |-> base]]
       ELSE MovesTo(m, "refused")
    /\ UNCHANGED <<desk, slips, mishapped>>

\* mutant: the branch is moved without comparing
MovesBranch(m) ==
    /\ maker[m].at = "publish" /\ MovesTo(m, "widen")
    /\ desk' = IF NeedsPin THEN [desk EXCEPT !.pins = @ \cup {m}] ELSE [desk EXCEPT !.branch = Made(m)]
    /\ UNCHANGED <<slips, mishapped>>

\* publishCommitForJJ, or UpdateRef of the branch: compare-and-swap.
PublishCommit(m) ==
    /\ maker[m].at = "publish"
    /\ IF NeedsPin
       THEN desk' = [desk EXCEPT !.pins = @ \cup {m}] /\ MovesTo(m, "widen")
       ELSE IF desk.branch = maker[m].base
            THEN desk' = [desk EXCEPT !.branch = Made(m)] /\ MovesTo(m, "widen")
            ELSE UNCHANGED desk /\ MovesTo(m, "failed")
    /\ UNCHANGED <<slips, mishapped>>

\* mutant: a run that fails leaves its pin behind
LeavesPin(m, where) == UNCHANGED desk /\ MovesTo(m, where)

\* dropJJProjectCreatePin, deferred
EndsWith(m, where) == desk' = [desk EXCEPT !.pins = @ \ {m}] /\ MovesTo(m, where)

WidenCone(m) ==
    /\ maker[m].at = "widen"
    /\ desk' = IF desk.kind.sparse THEN [desk EXCEPT !.wide = @ \cup {m}] ELSE desk
    /\ MovesTo(m, "sync") /\ UNCHANGED <<slips, mishapped>>

\* jj new: what was unsaved stays in the commit that @ was
SyncWorkingTreeJJ(m) ==
    /\ maker[m].at = "sync" /\ desk.kind.jj
    /\ desk' = [desk EXCEPT !.tree = Made(m), !.wip = FALSE, !.pins = @ \ {m}]
    /\ MovesTo(m, "done")
    /\ mishapped' = IF desk.wip THEN mishapped \cup {"parked"} ELSE mishapped
    /\ UNCHANGED slips

\* git reset --hard: branch, index and tree, whatever they were
SyncWorkingTree(m) ==
    /\ maker[m].at = "sync" /\ ~desk.kind.jj
    /\ desk' = [desk EXCEPT !.branch = Made(m), !.tree = Made(m), !.wip = FALSE]
    /\ MovesTo(m, "done")
    /\ mishapped' = mishapped \cup (IF desk.wip THEN {"reset over work"} ELSE {})
                              \cup (IF desk.branch # Made(m) THEN {"reset over a create"} ELSE {})
    /\ UNCHANGED slips

Running(m) == maker[m].at \in {"publish", "widen", "sync"}
StepFails(m) ==
    /\ Running(m) /\ slips < MaxSlips /\ slips' = slips + 1
    /\ EndsWith(m, "failed") /\ UNCHANGED mishapped
ProcessEnds(m) ==
    /\ Running(m) /\ slips < MaxSlips /\ slips' = slips + 1
    /\ MovesTo(m, "killed") /\ mishapped' = mishapped \cup {"killed"} /\ UNCHANGED desk

AllEnded == \A m \in Makers : ~Running(m)
AuthorEdits == /\ ~desk.wrote
               /\ desk' = [desk EXCEPT !.wip = TRUE, !.wrote = TRUE, !.early = AllEnded]
               /\ UNCHANGED <<maker, slips, mishapped>>

MakerNext ==
    \/ \E m \in Makers : \/ ResolveBaseOrEmpty(m) \/ PublishCommit(m) \/ WidenCone(m) \/ SyncWorkingTreeJJ(m)
                         \/ SyncWorkingTree(m) \/ StepFails(m) \/ ProcessEnds(m)
    \/ AuthorEdits

-----------------------------------------------------------------------------
(* A pin never becomes a bookmark of the author's: once no create runs,     *)
(* every heads ref that was put up for one is gone again, unless its        *)
(* process was killed (project.go:123-131).                                 *)
PinsCleared == AllEnded => desk.pins = {} \/ "killed" \in mishapped

(* A create that said it was done is on the branch it was made on, or - in  *)
(* a detached jj checkout - under the working copy, unless the git reset of *)
(* another create went over it; and no commit is built on unsaved work.     *)
Carries(m, line) == m \in ToSet(line)
CreatesKept ==
    \A m \in Makers : maker[m].at = "done" =>
        \/ Carries(m, desk.branch) \/ Carries(m, desk.tree)
        \/ "reset over a create" \in mishapped
        \/ desk.kind.jj /\ \E o \in Makers \ {m} : Carries(o, desk.tree) /\ ~Carries(m, maker[o].base)

(* Work that the author began while no create was running is still unsaved  *)
(* in the working copy after any number of them: jj checkouts refuse to     *)
(* start. Plain git resets over it (project.go:98-106, 235-262).            *)
UnsavedKept == desk.early => desk.wip \/ "reset over work" \in mishapped

(* A local create loses neither a commit nor unsaved work and leaves no pin.   *)
LocalCreatesKept == PinsCleared /\ CreatesKept /\ UnsavedKept
=============================================================================
