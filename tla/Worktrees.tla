------------------------------ MODULE Worktrees ------------------------------
(***************************************************************************)
(* A workspace checked out on this machine and perhaps on another, its     *)
(* snapshot ref on the server, and `runko workspace gc`, which removes the *)
(* checkout when its work is on the server (or hands it to the next        *)
(* workspace, which comes to the same), looking at one thing after another *)
(* while people go on working.                                             *)
(*                                                                         *)
(* Data.  A tree is the set of edits in it; a commit is the tree it holds, *)
(* tagged with a number, and a line is the sequence of the commits since   *)
(* the base revision.  Ignored files are left out.                         *)
(***************************************************************************)
EXTENDS Naturals, Sequences, SequencesExt

CONSTANTS Edits,
          MaxCommits,   \* bound on commits
          MaxSweeps     \* bound on runs of gc

ASSUME WorktreeAssumption == MaxCommits \in Nat /\ MaxSweeps \in Nat

Here == "here"
There == "there"
Sites == {Here, There}

VARIABLES checkout,   \* per machine: is it there, the tree, the line of HEAD
          status,     \* of the workspace: "open", "closed", "deleted"
          snapRef,    \* refs/workspaces/<id>/<branch>: its line, or NoRef
          fresh,      \* edits not made yet
          minted,     \* the number of commits
          gc,         \* WorkspaceGC: where it is and what it saw
          sweeps,
          since,      \* history: what moved under gc since it looked
          wasted      \* history: a reclaim destroyed the only copy of some work

worktreeVars == <<checkout, status, snapRef, fresh, minted, gc, sweeps, since, wasted>>

NoRef == <<[tree |-> {"none"}, n |-> 0]>>
GCIdle == [pc |-> "idle", idle |-> FALSE, line |-> NoRef]

TreeOf(line) == IF line = << >> THEN {} ELSE line[Len(line)].tree

----------------------------------------------------------------------------
\* What changes after gc looked at it is noted.
Noted(kind, after) == since' = IF gc.pc \in after THEN since \cup {kind} ELSE since

TreeSeen == {"head", "reclaim"}
RefSeen == {"pristine", "tree"} \cup TreeSeen

Touch(s, new) ==
    /\ checkout' = [checkout EXCEPT ![s] = new]
    /\ IF s = Here THEN Noted("worked", TreeSeen) ELSE UNCHANGED since

\* The user, or an agent, edits a file, or takes an edit back.
Edit(s, e) ==
    /\ checkout[s].there
    /\ \/ e \in fresh /\ fresh' = fresh \ {e}
       \/ e \in checkout[s].tree /\ UNCHANGED fresh
    /\ Touch(s, [checkout[s] EXCEPT !.tree = IF e \in @ THEN @ \ {e} ELSE @ \cup {e}])
    /\ UNCHANGED <<status, snapRef, minted, gc, sweeps, wasted>>

NewCommit(tree) == [tree |-> tree, n |-> minted + 1]

\* git commit, on top or with --amend.
Commit(s) ==
    LET c == checkout[s] IN
    /\ c.there /\ c.tree # TreeOf(c.line) /\ minted < MaxCommits
    /\ minted' = minted + 1
    /\ \/ Touch(s, [c EXCEPT !.line = Append(@, NewCommit(c.tree))])
       \/ /\ c.line # << >>
          /\ Touch(s, [c EXCEPT !.line = Append(Front(@), NewCommit(c.tree))])
    /\ UNCHANGED <<status, snapRef, fresh, gc, sweeps, wasted>>

\* The push of `workspace watch`: the working tree as a commit on HEAD, which
\* stays where it is.  (`workspace snapshot` is a Commit and this.)  The push is
\* forced; evaluateSnapshot refuses it in a workspace that is not active.
SnapshotPush(s) ==
    LET c == checkout[s]
        line == IF c.tree = TreeOf(c.line) THEN c.line ELSE Append(c.line, NewCommit(c.tree))
    IN  /\ c.there /\ status = "open" /\ line # snapRef
        /\ c.tree # TreeOf(c.line) => minted < MaxCommits
        /\ minted' = IF c.tree = TreeOf(c.line) THEN minted ELSE minted + 1
        /\ snapRef' = line
        /\ Noted("pushed", RefSeen)
        /\ UNCHANGED <<checkout, status, fresh, gc, sweeps, wasted>>

\* WorkspaceAttach on the other machine, from the snapshot or the base.
Attach ==
    /\ ~checkout[There].there /\ status # "deleted"
    /\ LET line == IF snapRef = NoRef THEN << >> ELSE snapRef
       IN  Touch(There, [there |-> TRUE, tree |-> TreeOf(line), line |-> line])
    /\ UNCHANGED <<status, snapRef, fresh, minted, gc, sweeps, wasted>>

\* The task concludes, or the owner deletes the workspace with its refs.
CloseWorkspace ==
    /\ status = "open" /\ status' = "closed"
    /\ UNCHANGED <<checkout, snapRef, fresh, minted, gc, sweeps, since, wasted>>

DeleteWorkspace ==
    /\ status # "deleted" /\ status' = "deleted" /\ snapRef' = NoRef
    /\ Noted("deleted", RefSeen)
    /\ UNCHANGED <<checkout, fresh, minted, gc, sweeps, wasted>>

----------------------------------------------------------------------------
GCTo(pc) == gc' = [gc EXCEPT !.pc = pc]
GCUnchanged == UNCHANGED <<checkout, status, snapRef, fresh, minted, sweeps>>

\* WorkspaceGC, or the sweep of create and attach (never --idle).
GCBegin(idle) ==
    /\ gc.pc = "idle" /\ sweeps < MaxSweeps /\ checkout[Here].there
    /\ sweeps' = sweeps + 1 /\ since' = {}
    /\ gc' = [GCIdle EXCEPT !.pc = "list", !.idle = idle]
    /\ UNCHANGED <<checkout, status, snapRef, fresh, minted, wasted>>

\* serverWorkspaces: a closed workspace, or any that is registered under --idle.
GCList ==
    /\ gc.pc = "list"
    /\ IF status = "closed" \/ (status = "open" /\ gc.idle) THEN GCTo("probe")
       ELSE gc' = GCIdle
    /\ GCUnchanged /\ UNCHANGED <<since, wasted>>

\* ls-remote and fetch, which may fail.
GCProbe ==
    /\ gc.pc = "probe"
    /\ \/ gc' = [gc EXCEPT !.pc = IF snapRef = NoRef THEN "pristine" ELSE "tree",
                           !.line = snapRef]
       \/ gc' = GCIdle
    /\ GCUnchanged /\ UNCHANGED <<since, wasted>>

\* No ref: a clean tree and HEAD at the base revision.
GCPristine ==
    /\ gc.pc = "pristine"
    /\ IF checkout[Here].tree = {} /\ checkout[Here].line = << >>
       THEN GCTo("reclaim") ELSE gc' = GCIdle
    /\ GCUnchanged /\ UNCHANGED <<since, wasted>>

\* Mutant: only what is committed is compared.
TreeSyncedHead == TreeOf(checkout[Here].line) \subseteq TreeOf(gc.line)

\* workingTreeHash against the tree of the snapshot that was fetched.
TreeSynced == checkout[Here].tree = TreeOf(gc.line)

GCTree ==
    /\ gc.pc = "tree"
    /\ IF TreeSynced THEN GCTo("head") ELSE gc' = GCIdle
    /\ GCUnchanged /\ UNCHANGED <<since, wasted>>

\* merge-base --is-ancestor HEAD.
GCHead ==
    /\ gc.pc = "head"
    /\ IF IsPrefix(checkout[Here].line, gc.line) THEN GCTo("reclaim") ELSE gc' = GCIdle
    /\ GCUnchanged /\ UNCHANGED <<since, wasted>>

\* The work of the checkout is on the server, or in the other checkout.
Copied ==
    LET c == checkout[Here] IN
    \/ c.tree = {} /\ c.line = << >>
    \/ snapRef # NoRef /\ c.tree = TreeOf(snapRef) /\ IsPrefix(c.line, snapRef)
    \/ /\ checkout[There].there /\ c.tree = checkout[There].tree
       /\ IsPrefix(c.line, checkout[There].line)

\* reclaimMaterialization, after the verdicts of all rows (WorkspaceGC), or
\* rebindWorktree for the next workspace: checkout -B, branch -D, clean.
GCReclaim ==
    /\ gc.pc = "reclaim"
    /\ checkout' = [checkout EXCEPT ![Here] = [there |-> FALSE, tree |-> {}, line |-> << >>]]
    /\ wasted' = ~Copied
    /\ gc' = GCIdle
    /\ UNCHANGED <<status, snapRef, fresh, minted, sweeps, since>>

----------------------------------------------------------------------------
WorktreeInit ==
    /\ checkout = [s \in Sites |-> [there |-> s = Here, tree |-> {}, line |-> << >>]]
    /\ status = "open" /\ snapRef = NoRef /\ fresh = Edits /\ minted = 0
    /\ gc = GCIdle /\ sweeps = 0 /\ since = {} /\ wasted = FALSE

WorktreeNext ==
    \/ \E s \in Sites : SnapshotPush(s) \/ Commit(s) \/ \E e \in Edits : Edit(s, e)
    \/ Attach \/ CloseWorkspace \/ DeleteWorkspace
    \/ \E idle \in BOOLEAN : GCBegin(idle)
    \/ GCList \/ GCProbe \/ GCPristine \/ GCTree \/ GCHead \/ GCReclaim

WorktreeSpec == WorktreeInit /\ [][WorktreeNext]_worktreeVars

----------------------------------------------------------------------------
(* Properties.                                                             *)

\* NothingWasted - "gc never deletes work it cannot prove is on the server":
\* a reclaim never destroys the only copy of uncommitted or committed work,
\* whatever was snapshotted from either machine, amended, closed or deleted
\* before, unless somebody worked in the checkout, pushed another snapshot over
\* its own or deleted the workspace between gc's look and the removal
\* (evaluateMaterialization, reclaimMaterialization).
NothingWasted == wasted => since # {}
=============================================================================
