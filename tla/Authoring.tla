----------------------------- MODULE Authoring ------------------------------
(***************************************************************************)
(* `runko change create`, `amend`, `push`, `land` and `workspace sync` and *)
(* `snapshot` in one checkout, plain git or colocated jj, while its author *)
(* (or an agent) goes on editing and uses git and jj directly.             *)
(*                                                                         *)
(* Data.  A commit of the checkout is a number that its rewrites keep (a   *)
(* jj change id); 0 is the trunk commit the line sits on.  A description   *)
(* is the sequence of its Change-Id trailers, the first of which counts;   *)
(* content is a set of edits.  Where the author stands is a commit, on,    *)
(* and whether the working copy is that commit itself (jj edit) or sits    *)
(* above it.  The Changes of the line do not land meanwhile; the modules   *)
(* StackLanding and ChangeServer have that.  A git rebase that was left    *)
(* open is finished or aborted by hand before anything else is committed.  *)
(***************************************************************************)
EXTENDS Naturals, Sequences, FiniteSets

CONSTANTS Work,         \* the edits that are made
          Outside,      \* those outside the sparse cone
          Large,        \* those over jj's snapshot cap, build artifacts
          MaxLine,      \* bound on commits
          Checkouts     \* the cases: git or jj; whether a commit-msg hook mints
                        \* Change-Ids; whether the checkout starts on a Change that
                        \* plain git made and pushed; the edits; how often
                        \* trunk moves

ASSUME AuthoringAssumption ==
    /\ Outside \subseteq Work /\ Large \subseteq Work /\ MaxLine \in Nat \ {0}
    /\ Checkouts \subseteq [jj : BOOLEAN, hooked : BOOLEAN, attached : BOOLEAN,
                            edits : SUBSET Work, moves : Nat]

VARIABLES repo,   \* the case
          stack,          \* the commits
          on, inside,     \* where the author stands
          open,           \* git's rebase in progress: the commit it stopped at,
                          \* the one to return to, the edits made since
          unsaved,        \* edits in no commit
          toMake,         \* edits not made yet
          behind, moved,  \* trunk moved since the line was based on it; how often
          cli,            \* the command that runs
          rows,           \* the server's Changes
          pushedAs,       \* history: the Change-Ids each commit was pushed under
          strayed         \* history: what excuses what, see the properties

authorVars == <<repo, stack, on, inside, open, unsaved, toMake, behind, moved, cli,
                rows, pushedAs, strayed>>

setting == <<repo, moved>>
place == <<on, inside, open>>
server == <<rows, pushedAs>>

JJ == repo.jj
AtPrompt == [pc |-> "idle"]
NoRebase == [at |-> 0, tip |-> 0, late |-> {}]
Rebasing == open.at # 0
Messages == {"", "plain", "pasted"}     \* pasted: with another Change's trailer

Derived(n) == <<"jj", n, 0>>            \* format_gerrit_change_id_trailer
Minted(n) == <<"minted", n, Cardinality(pushedAs[n])>>
Pasted == <<"pasted", 0, 0>>

HookIds(n) == IF repo.hooked THEN <<Minted(n)>> ELSE << >>

\* ParseChangeID takes the first trailer.
ParseChangeID(n) == Head(stack[n].ids)
HasChangeId(n) == n # 0 /\ stack[n].ids # << >>

\* The commits from n down to trunk.
Below[n \in 0 .. Len(stack)] == IF n = 0 THEN {} ELSE {n} \cup Below[stack[n].parent]

Committed(parent, ids, work, wip) ==
    [parent |-> parent, ids |-> ids, work |-> work, wip |-> wip,
     conflict |-> FALSE]

AuthorInit ==
    /\ repo \in Checkouts
    /\ LET old == <<"minted", 1, 0>>
           pushed == [id |-> old, conflict |-> FALSE]
       IN  /\ stack = IF repo.attached THEN <<Committed(0, <<old>>, {}, FALSE)>>
                      ELSE << >>
           /\ rows = IF repo.attached THEN {pushed} ELSE {}
           /\ pushedAs = [n \in 1 .. MaxLine |->
                             IF repo.attached /\ n = 1 THEN {old} ELSE {}]
    /\ on = Len(stack) /\ inside = FALSE /\ open = NoRebase /\ unsaved = {} /\ toMake = repo.edits
    /\ behind = FALSE /\ moved = 0 /\ cli = AtPrompt /\ strayed = {}

Excuse(reasons) == strayed' = strayed \cup reasons

\* A command that returns, with an error or without, or that is killed.
Return == cli' = AtPrompt
----------------------------------------------------------------------------
(* The author.  jj records an edit in the commit it stands in as soon as   *)
(* any command runs, unless the edit is one that jj does not see.          *)

Seen(large) == (unsaved \ Outside) \ (IF JJ /\ ~large THEN Large ELSE {})

Edit(e) ==
    /\ toMake' = toMake \ {e}
    /\ IF inside /\ e \notin Outside \cup Large
       THEN /\ stack' = [stack EXCEPT ![on].work = @ \cup {e}]
            /\ UNCHANGED unsaved
       ELSE unsaved' = unsaved \cup {e} /\ UNCHANGED stack
    /\ cli' = IF cli = AtPrompt THEN AtPrompt ELSE [cli EXCEPT !.late = @ \cup {e}]
    /\ open' = IF Rebasing THEN [open EXCEPT !.late = @ \cup {e}] ELSE open
    /\ UNCHANGED <<setting, on, inside, behind, server, strayed>>

TrunkMoves ==
    /\ cli = AtPrompt /\ ~behind /\ behind' = TRUE
    /\ moved < repo.moves /\ moved' = moved + 1
    /\ UNCHANGED <<repo, stack, place, unsaved, toMake, cli, server, strayed>>

\* jj edit: a working copy with nothing in it is dropped.
JJEdit(n) ==
    /\ JJ /\ cli = AtPrompt /\ Seen(FALSE) = {} /\ <<n, TRUE>> # <<on, inside>>
    /\ on' = n /\ inside' = TRUE
    /\ UNCHANGED <<setting, stack, open, unsaved, toMake, behind, cli, server, strayed>>

\* jj new, above where the author stands, also in the middle of the stack.
JJNew ==
    /\ JJ /\ cli = AtPrompt /\ inside /\ inside' = FALSE
    /\ UNCHANGED <<setting, stack, on, open, unsaved, toMake, behind, cli, server, strayed>>

\* jj describe -m, the reword that the refusals of create and amend suggest.
JJDescribe ==
    /\ JJ /\ cli = AtPrompt /\ inside /\ stack[on].ids # <<Derived(on)>>
    /\ stack' = [stack EXCEPT ![on].ids = <<Derived(on)>>]
    /\ Excuse(IF ParseChangeID(on) # Derived(on) THEN {<<"renamed", on>>} ELSE {})
    /\ UNCHANGED <<setting, place, unsaved, toMake, behind, cli, server>>

\* The author resolves a conflict that a sync left in a commit.
Resolve(n) ==
    /\ cli = AtPrompt /\ stack[n].conflict
    /\ stack' = [stack EXCEPT ![n].conflict = FALSE]
    /\ UNCHANGED <<setting, place, unsaved, toMake, behind, cli, server, strayed>>

\* git commit, by hand.
GitCommit ==
    /\ ~JJ /\ cli = AtPrompt /\ ~Rebasing /\ Seen(TRUE) # {} /\ Len(stack) < MaxLine
    /\ stack' = Append(stack,
                       Committed(on, HookIds(Len(stack) + 1), Seen(TRUE), FALSE))
    /\ on' = Len(stack) + 1 /\ unsaved' = unsaved \ Seen(TRUE)
    /\ UNCHANGED <<setting, inside, open, toMake, behind, cli, server, strayed>>

\* git rebase --abort: a hard reset, that takes edits made since the rebase stopped.
Aborted ==
    /\ \E lost \in SUBSET open.late :
          unsaved' = unsaved \ lost /\ Excuse(IF lost = {} THEN {} ELSE {<<"rolled back">>})
    /\ on' = open.tip /\ behind' = TRUE /\ open' = NoRebase /\ UNCHANGED stack

\* git rebase --continue: what was edited since goes into the commit, or stays aside.
Continued ==
    /\ \E folded \in SUBSET (open.late \cap unsaved) :
          /\ stack' = [stack EXCEPT ![open.at].work = @ \cup folded]
          /\ unsaved' = unsaved \ folded
    /\ on' = open.tip /\ open' = NoRebase /\ UNCHANGED <<behind, strayed>>

\* The author ends a rebase that was left open.
FinishRebase ==
    /\ cli = AtPrompt /\ Rebasing /\ (Aborted \/ Continued)
    /\ UNCHANGED <<setting, inside, toMake, cli, server>>
----------------------------------------------------------------------------
(* change create: the guards, then the commit.  git commits what it staged *)
(* at first, jj what it sees at last.                                      *)

\* Mutant: the guard knows the cone and not jj's cap.
LeavesOutOfCone(large) == unsaved \cap Outside # {}

\* outside_sparse_cone, and suspect_artifact unless --allow-large is given.
LeavesOut(large) == unsaved \cap (Outside \cup IF large THEN {} ELSE Large) # {}

Run(verb, msg, large) ==
    cli' = [pc |-> verb, msg |-> msg, large |-> large, staged |-> unsaved,
            late |-> {}, id |-> IF on = 0 THEN << >> ELSE stack[on].ids]

CreateChange(msg, large) ==
    /\ cli = AtPrompt /\ ~Rebasing /\ msg # "" /\ Len(stack) < MaxLine
    /\ ~LeavesOut(large) /\ unsaved # {}
    /\ ~inside                                   \* already_a_change
    /\ Run("create", msg, large)
    /\ UNCHANGED <<setting, stack, place, unsaved, toMake, behind, server, strayed>>

Taken == IF JJ THEN Seen(cli.large) ELSE cli.staged

\* Edits the running command saw and yet left out of the commit it reports.
Omitted == IF unsaved' \ cli.late # {} THEN {<<"omitted">>} ELSE {}

\* jj strips a pasted trailer and derives its own; git keeps a pasted one.
CreateIds(n) == IF JJ THEN <<Derived(n)>>
                ELSE IF cli.msg = "pasted" THEN <<Pasted>> ELSE <<Minted(n)>>

CreateCommit ==
    /\ cli.pc = "create"
    /\ LET n == Len(stack) + 1
       IN  /\ stack' = Append(stack, Committed(on, CreateIds(n), Taken, FALSE))
           /\ on' = n
    /\ inside' = FALSE                           \* jj new
    /\ unsaved' = unsaved \ Taken
    /\ Excuse(Omitted) /\ Return
    /\ UNCHANGED <<setting, open, toMake, behind, server>>
----------------------------------------------------------------------------
(* change amend: the guards, the fold (git commit --amend or jj squash),   *)
(* and in jj the description as a step of its own.                         *)

AmendChange(msg, large) ==
    /\ cli = AtPrompt /\ ~Rebasing
    /\ on # 0 /\ HasChangeId(on)                 \* on trunk: refuseAmendOnTrunk
    /\ ~LeavesOut(large \/ ~JJ)
    /\ ~inside                                   \* already_a_change
    /\ Run("amend", msg, large)
    /\ UNCHANGED <<setting, stack, place, unsaved, toMake, behind, server, strayed>>

\* The trailer template appends on every rewrite of a description.
Stamped(n) == Append(stack[n].ids, Derived(n))

AmendFold ==
    /\ cli.pc = "amend"
    /\ stack' = [stack EXCEPT
                    ![on].work = @ \cup Taken,
                    ![on].wip = @ /\ cli.msg = "",
                    ![on].ids = IF JJ THEN IF Taken # {} THEN Stamped(on) ELSE @
                                ELSE IF cli.msg = "" THEN @ ELSE <<Head(cli.id)>>]
    /\ unsaved' = unsaved \ Taken
    /\ Excuse(Omitted)
    /\ IF JJ THEN cli' = [cli EXCEPT !.pc = "reword"] ELSE Return
    /\ UNCHANGED <<setting, place, toMake, behind, server>>

\* Mutant: a reword lets the template derive the trailer.
RederivedIds == <<IF cli.msg = "" THEN ParseChangeID(on) ELSE Derived(on)>>

\* messageWithPreservedChangeID with a new message, else dedupChangeIDTrailers.
RewordIds == <<IF cli.msg = "" THEN ParseChangeID(on) ELSE Head(cli.id)>>

AmendReword ==
    /\ cli.pc = "reword"
    /\ stack' = [stack EXCEPT ![on].ids = RewordIds]
    /\ Return
    /\ UNCHANGED <<setting, place, unsaved, toMake, behind, server, strayed>>
----------------------------------------------------------------------------
(* workspace snapshot in a git worktree commits on the checked-out line,   *)
(* and amends a snapshot that is at its tip.  (In a jj checkout it touches *)
(* nothing.)                                                               *)

AtSnapshot == on # 0 /\ stack[on].wip

WorkspaceSnapshot ==
    /\ ~JJ /\ cli = AtPrompt /\ ~Rebasing /\ unsaved # {} /\ unsaved \cap Outside = {}
    /\ IF AtSnapshot
       THEN /\ stack' = [stack EXCEPT ![on].work = @ \cup unsaved,
                                      ![on].ids = HookIds(on)]
            /\ Excuse(IF pushedAs[on] # {} THEN {<<"renamed", on>>} ELSE {})
            /\ UNCHANGED on
       ELSE /\ Len(stack) < MaxLine
            /\ stack' = Append(stack,
                               Committed(on, HookIds(Len(stack) + 1), unsaved, TRUE))
            /\ on' = Len(stack) + 1
            /\ UNCHANGED strayed
    /\ unsaved' = {}
    /\ UNCHANGED <<setting, inside, open, toMake, behind, cli, server>>
----------------------------------------------------------------------------
(* Sync, alone, ahead of a push of a stale base, or when a land requires   *)
(* revalidation (LandWithSync).                                            *)

\* Fetch, and in jj note the operation to return to.
Fetch(verb) ==
    /\ cli = AtPrompt
    /\ cli' = [pc |-> "rebase", verb |-> verb, late |-> {}, saved |-> stack,
               kept |-> unsaved]
    /\ UNCHANGED <<setting, stack, place, unsaved, toMake, behind, server, strayed>>

SyncToTrunk == Fetch("sync")
LandWithSync == on # 0 /\ behind /\ Fetch("land")

Send == cli' = [pc |-> "send", late |-> {}]

\* change push; --no-sync, or a base that is not stale, goes straight on.
PushChange(autoSync) ==
    IF autoSync /\ behind THEN Fetch("push")
    ELSE /\ cli = AtPrompt /\ Send
         /\ UNCHANGED <<setting, stack, place, unsaved, toMake, behind, server, strayed>>

\* After a sync that went through, or that a push goes on without.
AfterSync == IF cli.verb = "sync" THEN Return ELSE Send
PushAnyway == IF cli.verb = "push" THEN Send ELSE Return

\* git: the base is the tip, or the rebase goes through, is refused (a dirty
\* tree) or stops at a commit; one that is open already stays where it is.
GitRebase ==
    /\ cli.pc = "rebase" /\ ~JJ
    /\ \/ ~(behind /\ Rebasing) /\ behind' = FALSE /\ AfterSync /\ UNCHANGED place
       \/ unsaved # {} /\ Return /\ UNCHANGED <<place, behind>>
       \/ /\ behind
          /\ IF Rebasing THEN UNCHANGED <<place, behind>>
             ELSE \E n \in Below[on] :
                     /\ open' = [at |-> n, tip |-> on, late |-> {}]
                     /\ on' = stack[n].parent /\ behind' = FALSE /\ UNCHANGED inside
          /\ cli' = [cli EXCEPT !.pc = "stopped"]
    /\ UNCHANGED <<setting, stack, unsaved, toMake, server, strayed>>

\* The abort works, and a push goes on if the conflict could be listed; or it
\* fails, the command returns its error and the rebase is left open.
RebaseAbort ==
    /\ cli.pc = "stopped" /\ ~JJ
    /\ \/ Aborted /\ (PushAnyway \/ Return)
       \/ Return /\ UNCHANGED <<stack, on, open, unsaved, behind, strayed>>
    /\ UNCHANGED <<setting, inside, toMake, server>>

\* jj: the rebase goes through and may record a conflict in a commit.
JJRebase ==
    /\ cli.pc = "rebase" /\ JJ
    /\ \/ UNCHANGED stack
       \/ \E n \in DOMAIN stack :
             behind /\ stack' = [stack EXCEPT ![n].conflict = TRUE]
    /\ behind' = FALSE
    /\ cli' = [cli EXCEPT !.pc = "listed"]
    /\ UNCHANGED <<setting, place, unsaved, toMake, server, strayed>>

Conflicted == \E n \in DOMAIN stack : stack[n].conflict

\* Mutant: the conflict is reported and the rebase stays.
KeepRebase == UNCHANGED <<stack, behind, unsaved, strayed>>

\* jj op restore: the checkout as it was noted, and so without the edits that
\* jj has recorded since.
OpRestore ==
    /\ stack' = cli.saved /\ behind' = TRUE
    /\ unsaved' = cli.kept \cup (unsaved \cap (Outside \cup Large))
    /\ Excuse(IF cli.late # {} THEN {<<"rolled back">>} ELSE {})

\* The list of conflicts: where it fails, its error is dropped and the line counts
\* as clean.  A conflict is rolled back for a push and reported by the others, and
\* by a push that cannot roll it back.
JJListed ==
    /\ cli.pc = "listed"
    /\ \/ /\ AfterSync /\ Excuse(IF Conflicted THEN {<<"unlisted">>} ELSE {})
          /\ UNCHANGED <<stack, behind, unsaved>>
       \/ Conflicted /\ cli.verb = "push" /\ OpRestore /\ PushAnyway
       \/ /\ Conflicted /\ Return /\ Excuse({<<"told">>})
          /\ UNCHANGED <<stack, behind, unsaved>>
    /\ UNCHANGED <<setting, place, toMake, server>>
----------------------------------------------------------------------------
(* The push: of HEAD, or in jj of the working copy if there is something   *)
(* in it and of what it sits on if not.                                    *)

\* An undescribed working copy with edits is a tip without a trailer, and git
\* amends none in while a rebase is open.
CanSend ==
    /\ on # 0 /\ (Rebasing => HasChangeId(on))
    /\ JJ => (inside \/ Seen(FALSE) = {}) /\ HasChangeId(on)

\* EnsureChangeID: git amends a trailer in, jj has one.
EnsureChangeID ==
    IF HasChangeId(on) THEN stack ELSE [stack EXCEPT ![on].ids = <<Minted(on)>>]

\* seriesMembers: a Change is the topmost commit with its trailer.
Series(line) == {n \in Below[on] : line[n].ids # << >>}
Top(line, n) == \A m \in Series(line) : line[m].ids[1] = line[n].ids[1] => m <= n
SeriesRows(line) ==
    {[id |-> line[n].ids[1], conflict |-> line[n].conflict] :
        n \in {k \in Series(line) : Top(line, k)}}

\* enforceOneStackPerBranch: the open Changes ride along, or all is refused.
Accepts(line) == {r.id : r \in rows} \subseteq {r.id : r \in SeriesRows(line)}

\* The push may be refused or fail on the way; a late answer is no matter.
PushSend ==
    /\ cli.pc = "send"
    /\ IF CanSend
       THEN /\ stack' = EnsureChangeID
            /\ \/ /\ Accepts(stack')
                  /\ rows' = SeriesRows(stack')
                  /\ pushedAs' = [n \in DOMAIN pushedAs |->
                                    IF n \in Series(stack')
                                    THEN pushedAs[n] \cup {stack'[n].ids[1]}
                                    ELSE pushedAs[n]]
               \/ UNCHANGED server
       ELSE UNCHANGED <<stack, server>>
    /\ Return
    /\ UNCHANGED <<setting, place, unsaved, toMake, behind, strayed>>

\* change abandon, of a Change of this branch.
AbandonChange(r) ==
    /\ cli = AtPrompt /\ rows' = rows \ {r}
    /\ UNCHANGED <<setting, stack, place, unsaved, toMake, behind, cli, pushedAs,
                   strayed>>

\* A command is killed, or fails, between two of its steps.
Killed ==
    /\ cli # AtPrompt /\ Return
    /\ Excuse(IF Conflicted THEN {<<"killed">>} ELSE {})
    /\ UNCHANGED <<setting, stack, place, unsaved, toMake, behind, server>>
----------------------------------------------------------------------------
AuthorNext ==
    \/ \E e \in toMake : Edit(e)
    \/ TrunkMoves \/ JJNew \/ JJDescribe \/ GitCommit \/ FinishRebase
    \/ \E n \in DOMAIN stack : JJEdit(n) \/ Resolve(n)
    \/ \E msg \in Messages, large \in BOOLEAN :
          CreateChange(msg, large) \/ AmendChange(msg, large)
    \/ CreateCommit \/ AmendFold \/ AmendReword \/ WorkspaceSnapshot
    \/ SyncToTrunk \/ LandWithSync \/ \E auto \in BOOLEAN : PushChange(auto)
    \/ GitRebase \/ RebaseAbort \/ JJRebase \/ JJListed \/ PushSend \/ Killed
    \/ \E r \in rows : AbandonChange(r)

AuthorSpec == AuthorInit /\ [][AuthorNext]_authorVars
----------------------------------------------------------------------------
(* Properties.                                                             *)

\* IdentityKept - "the identity that survives amends and rebases": a commit
\* that was pushed still carries the Change-Id it was pushed under, in git and
\* jj, for ids of either's making, pasted ones, commands cut short and history
\* the trailer template has rewritten; unless the author reworded it with jj
\* describe or a snapshot amended it (createChangeJJ, amendChangeJJ,
\* messageWithPreservedChangeID, EnsureChangeID).
IdentityKept ==
    \A n \in DOMAIN stack :
        pushedAs[n] # {} => \/ HasChangeId(n) /\ ParseChangeID(n) \in pushedAs[n]
                            \/ <<"renamed", n>> \in strayed

\* WorkKept - "work silently left out of a commit is work lost": what was in
\* the checkout when create or amend began is in the commit they report, and no
\* edit leaves the checkout, except those made between a sync's note of the jj
\* operation and the restore of it, or between a rebase that stopped and its
\* abort, the sync's own or the author's (jjOutsideSparseChecked, syncToTrunk).
WorkKept ==
    /\ <<"omitted">> \notin strayed
    /\ \/ repo.edits \ toMake \subseteq
             unsaved \cup UNION {stack[n].work : n \in DOMAIN stack}
       \/ <<"rolled back">> \in strayed

\* ConflictsStayHome - conflict markers do not reach a pushed commit: no Change
\* is pushed with a recorded conflict, unless a command reported the conflict
\* and left it in the checkout, was killed before it could, or could not list
\* the conflicts, which the code takes for there being none, against its own
\* comment and docs/cli-contract.md:131 (syncToTrunk).
Explained == {<<"told">>, <<"killed">>, <<"unlisted">>}
ConflictsStayHome == (\E r \in rows : r.conflict) => strayed \cap Explained # {}

\* AuthoringKept - whatever is cut short, rebased, reworded or synced, a stack in
\* a checkout keeps its identities and its work and ships no conflict, the named
\* strays apart, a failed list of the conflicts among them (change.go, sync.go).
AuthoringKept == IdentityKept /\ WorkKept /\ ConflictsStayHome
=============================================================================
