---------------------------- MODULE MirrorTrunk ----------------------------
(***************************************************************************)
(* The outbound mirror of trunk: syncTrunk of the debounced timer and of   *)
(* the reconcile ticker, which syncMu serialises, the admin's unfreeze and *)
(* github connect, which take no lock, landers that move trunk meanwhile,  *)
(* and others who write the mirror although it is ours.                    *)
(*                                                                         *)
(* Data.  A commit of trunk is its position on it, 0 is no commit; Foreign *)
(* holds the commits only others make.  One mirror_cursors row serves      *)
(* every remote the worker is pointed at, for the row's key is constant.   *)
(***************************************************************************)
EXTENDS Naturals

CONSTANTS Syncers,      \* the timer and the ticker
          Ticker,       \* the one that runs forever
          Remotes,      \* the repositories the worker may be pointed at
          Foreign,      \* commits of others
          MaxTrunk,     \* bound: commits of trunk
          MaxUpsets     \* bound: failing calls, restarts, unfreezes, connects

ASSUME MirrorAssumption ==
    /\ MaxTrunk \in Nat /\ MaxUpsets \in Nat /\ Ticker \in Syncers
    /\ Foreign \subseteq Nat \ (0 .. MaxTrunk) /\ Remotes # {}

VARIABLES trunk,       \* the tip of trunk
          mirror,      \* the tip of the trunk branch of each remote
          remote,      \* MirrorWorker.Remote
          cursor,      \* the mirror_cursors row of trunk
          syncs,       \* the syncs in flight
          unfreeze,    \* an unfreeze in flight
          upsets       \* failures, restarts, unfreezes and connects so far

\* History only: whether the last write of a remote was another's, and which
\* of the others' commits an admin has adopted.
VARIABLES foreign, adopted

vars == <<trunk, mirror, remote, cursor, syncs, unfreeze, upsets, foreign,
          adopted>>

----------------------------------------------------------------------------
Tips == 0 .. MaxTrunk
SHA == Tips \cup Foreign

Cursor == [known : BOOLEAN, sha : SHA, frozen : BOOLEAN]

Sync == [pc : {"idle", "lock", "ls", "push", "freeze", "upsert"},
         remote : Remotes, tip : Tips, expected : SHA, seen : SHA]

At(s, pc) == syncs[s].pc = pc
Goto(s, pc) == syncs' = [syncs EXCEPT ![s].pc = pc]
Ended(sync) == [sync EXCEPT !.pc = "idle", !.tip = 0, !.expected = 0, !.seen = 0]
End(s) == syncs' = [syncs EXCEPT ![s] = Ended(@)]

\* One of the things that do not belong to a sync's quiet life happens.
Upset == upsets < MaxUpsets /\ upsets' = upsets + 1

\* The syncs that hold syncMu.
Holders == {s \in Syncers : syncs[s].pc \notin {"idle", "lock"}}

\* Mutant: no mutex.
SyncMuFreeAlways == TRUE

SyncMuFree == Holders = {}

\* SyncOnce: the remote is read before the lock is taken.
SyncOnce(s) ==
    /\ At(s, "idle")
    /\ syncs' = [syncs EXCEPT ![s].pc = "lock", ![s].remote = remote]
    /\ UNCHANGED <<trunk, mirror, remote, cursor, unfreeze, upsets, foreign,
                   adopted>>

\* Mutant: a cursor is enough.
CurrentWhenKnown == cursor.known

\* The mirror already has the tip, as far as the cursor knows.
Current == cursor.known /\ cursor.sha = trunk

\* syncTrunk: pin the local tip and read the cursor; an unborn trunk, a
\* frozen and a current cursor end the sync.
SyncBegin(s) ==
    /\ At(s, "lock") /\ SyncMuFree
    /\ IF trunk = 0 \/ cursor.frozen \/ Current
       THEN End(s)
       ELSE syncs' = [syncs EXCEPT ![s].pc = "ls", ![s].tip = trunk,
                                   ![s].expected = cursor.sha]
    /\ UNCHANGED <<trunk, mirror, remote, cursor, unfreeze, upsets, foreign,
                   adopted>>

\* Mutant: any tip of the mirror will do.
DivergedNever(s, sha) == FALSE

\* Neither where the cursor left it nor where we would push it.
Diverged(s, sha) == sha \notin {syncs[s].expected, syncs[s].tip}

\* LsRemote and the verdict on it.
SyncLsRemote(s) ==
    /\ At(s, "ls")
    /\ LET sha == mirror[syncs[s].remote] IN
          syncs' = [syncs EXCEPT
             ![s].seen = sha,
             ![s].pc = IF Diverged(s, sha) THEN "freeze"
                       ELSE IF sha = syncs[s].tip THEN "upsert" ELSE "push"]
    /\ UNCHANGED <<trunk, mirror, remote, cursor, unfreeze, upsets, foreign,
                   adopted>>

\* PushWithLease of the pinned tip: git compares and swaps.
LeaseHolds(s) == mirror[syncs[s].remote] = syncs[s].seen

WriteMirror(s) ==
    /\ LeaseHolds(s)
    /\ mirror' = [mirror EXCEPT ![syncs[s].remote] = syncs[s].tip]
    /\ foreign' = [foreign EXCEPT ![syncs[s].remote] = FALSE]

SyncPush(s) ==
    /\ At(s, "push")
    /\ \/ WriteMirror(s) /\ Goto(s, "upsert")
       \/ ~LeaseHolds(s) /\ Goto(s, "freeze") /\ UNCHANGED <<mirror, foreign>>
    /\ UNCHANGED <<trunk, remote, cursor, unfreeze, upsets, adopted>>

\* Any error of the push freezes: also one that never reached the remote and
\* one whose answer was lost on the way back.
SyncPushFails(s) ==
    /\ At(s, "push") /\ Upset
    /\ WriteMirror(s) \/ UNCHANGED <<mirror, foreign>>
    /\ Goto(s, "freeze")
    /\ UNCHANGED <<trunk, remote, cursor, unfreeze, adopted>>

\* Mutant: the tip that was seen before the push is recorded.
SyncUpsertSeen(s) ==
    /\ At(s, "upsert")
    /\ cursor' = [known |-> TRUE, sha |-> syncs[s].seen, frozen |-> FALSE]
    /\ End(s)
    /\ UNCHANGED <<trunk, mirror, remote, unfreeze, upsets, foreign, adopted>>

\* UpsertMirrorCursor: what was pushed, and no longer frozen.
SyncUpsert(s) ==
    /\ At(s, "upsert")
    /\ cursor' = [known |-> TRUE, sha |-> syncs[s].tip, frozen |-> FALSE]
    /\ End(s)
    /\ UNCHANGED <<trunk, mirror, remote, unfreeze, upsets, foreign, adopted>>

\* FreezeMirrorCursor: the SHA of the row stays.
SyncFreeze(s) ==
    /\ At(s, "freeze")
    /\ cursor' = [cursor EXCEPT !.known = TRUE, !.frozen = TRUE]
    /\ End(s)
    /\ UNCHANGED <<trunk, mirror, remote, unfreeze, upsets, foreign, adopted>>

\* ls-remote or a store call of a sync fails: the sync ends.
SyncFails(s) ==
    /\ \E pc \in {"lock", "ls", "freeze", "upsert"} : At(s, pc)
    /\ Upset
    /\ End(s)
    /\ UNCHANGED <<trunk, mirror, remote, cursor, unfreeze, foreign, adopted>>

SyncStep(s) == \/ SyncBegin(s) \/ SyncLsRemote(s) \/ SyncPush(s)
               \/ SyncUpsert(s) \/ SyncFreeze(s)

----------------------------------------------------------------------------
\* handleMirrorUnfreeze: look at the remote ...
UnfreezeLook ==
    /\ unfreeze.pc = "idle" /\ Upset
    /\ unfreeze' = [pc |-> "upsert", seen |-> mirror[remote]]
    /\ UNCHANGED <<trunk, mirror, remote, cursor, syncs, foreign, adopted>>

\* ... and adopt what was seen.
UnfreezeUpsert ==
    /\ unfreeze.pc = "upsert"
    /\ cursor' = [known |-> TRUE, sha |-> unfreeze.seen, frozen |-> FALSE]
    /\ adopted' = adopted \cup {unfreeze.seen}
    /\ unfreeze' = [pc |-> "idle", seen |-> 0]
    /\ UNCHANGED <<trunk, mirror, remote, syncs, upsets, foreign>>

\* handleGithubConnect: SetRemote.
Connect(r) ==
    /\ r # remote /\ remote' = r /\ Upset
    /\ UNCHANGED <<trunk, mirror, cursor, syncs, unfreeze, foreign, adopted>>

\* A land moves trunk, whatever the mirror does.
Land ==
    /\ trunk < MaxTrunk /\ trunk' = trunk + 1
    /\ UNCHANGED <<mirror, remote, cursor, syncs, unfreeze, upsets, foreign,
                   adopted>>

\* Someone else moves the mirror's branch, or resets or deletes it.
ForeignWrite(r) ==
    /\ Foreign # {}
    /\ \E sha \in (Foreign \cup 0 .. trunk) \ {mirror[r]} :
          mirror' = [mirror EXCEPT ![r] = sha]
    /\ foreign' = [foreign EXCEPT ![r] = TRUE]
    /\ UNCHANGED <<trunk, remote, cursor, syncs, unfreeze, upsets, adopted>>

\* The daemon restarts: what was in flight is gone.
Restart ==
    /\ Upset
    /\ syncs' = [s \in Syncers |-> Ended(syncs[s])]
    /\ unfreeze' = [pc |-> "idle", seen |-> 0]
    /\ UNCHANGED <<trunk, mirror, remote, cursor, foreign, adopted>>

Init ==
    /\ trunk \in 0 .. MaxTrunk /\ trunk <= 1
    /\ mirror = [r \in Remotes |-> 0]
    /\ remote \in Remotes
    /\ cursor = [known |-> FALSE, sha |-> 0, frozen |-> FALSE]
    /\ syncs = [s \in Syncers |-> [pc |-> "idle", remote |-> remote, tip |-> 0,
                                   expected |-> 0, seen |-> 0]]
    /\ unfreeze = [pc |-> "idle", seen |-> 0]
    /\ upsets = 0
    /\ foreign = [r \in Remotes |-> FALSE] /\ adopted = {}

Next ==
    \/ \E s \in Syncers : \/ SyncOnce(s) \/ SyncStep(s)
                          \/ SyncPushFails(s) \/ SyncFails(s)
    \/ UnfreezeLook \/ UnfreezeUpsert
    \/ \E r \in Remotes : Connect(r) \/ ForeignWrite(r)
    \/ Land \/ Restart

Spec == Init /\ [][Next]_vars

\* Every sync that started goes on, and the ticker starts one every interval.
FairSpec == /\ Spec /\ WF_vars(SyncOnce(Ticker))
            /\ \A s \in Syncers : WF_vars(SyncStep(s))
----------------------------------------------------------------------------
(* Properties.                                                             *)

\* TypeOK - every variable has its type, and only one sync is past syncMu.
TypeOK ==
    /\ trunk \in Tips /\ mirror \in [Remotes -> SHA] /\ remote \in Remotes
    /\ cursor \in Cursor /\ syncs \in [Syncers -> Sync]
    /\ unfreeze \in [pc : {"idle", "upsert"}, seen : SHA]
    /\ upsets \in 0 .. MaxUpsets
    /\ foreign \in [Remotes -> BOOLEAN] /\ adopted \subseteq SHA
    /\ \A s, t \in Holders : s = t

\* NeverOverwritten - "a foreign write - freeze, never overwrite": no sync
\* replaces a commit of others that no admin adopted, whatever lands, fails,
\* restarts and is unfrozen in between (syncTrunk's comparison and lease).
NeverOverwritten ==
    [][\A r \in Remotes :
         (mirror'[r] # mirror[r] /\ mirror[r] \in Foreign /\ ~foreign'[r]) =>
            mirror[r] \in adopted]_vars

\* FreezeHasCause - however lands and syncs interleave, trunk is frozen only
\* after someone else wrote the mirror, a call failed, an admin unfroze or the
\* worker was pointed elsewhere: our own pushes are never taken for another's
\* (syncMu, the pinned tip).
FreezeHasCause ==
    [][\A s \in Syncers :
         (cursor'.frozen /\ ~cursor.frozen /\ At(s, "freeze")) =>
            foreign[syncs[s].remote] \/ upsets > 0]_vars

\* FreezeIsForeign - "A TokenSource that fails fails the git invocation: the
\* caller's retry loop re-drives it": a push that failed on the way is tried
\* again, and only another's write freezes trunk (syncTrunk's push).
FreezeIsForeign ==
    [][\A s \in Syncers :
         (cursor'.frozen /\ ~cursor.frozen /\ At(s, "freeze")) =>
            foreign[syncs[s].remote]]_vars

Untouched == \A r \in Remotes : ~foreign[r]

\* MirrorFollows - if nobody else writes the mirror, then once lands stop the
\* one remote the worker was ever pointed at has trunk's tip, or the cursor is
\* frozen and says so (the reconcile loop; failed calls, restarts, unfreezes).
MirrorFollows ==
    []Untouched => \A r \in Remotes : [](remote = r) =>
        <>[](trunk = 0 \/ cursor.frozen \/ mirror[r] = trunk)
============================================================================
