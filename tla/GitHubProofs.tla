---------------------------- MODULE GitHubProofs ----------------------------
(***************************************************************************)
(* What is shared with GitHub: the mirror, the dispatch and the CI job.    *)
(*                                                                         *)
(* MirrorTrunk: types and the lease, for any number of syncs, remotes,     *)
(* commits of others, lands and failures.  The lease alone does not        *)
(* protect the others' commits, for a sync leases on what it has just      *)
(* seen: what does is that a sync pushes only over what its cursor         *)
(* expected, and that no commit of others gets into the cursor unless an   *)
(* admin adopts it (Adopted).  And no freeze comes out of nothing: while   *)
(* nothing upsets the syncs, the remote nobody else wrote is where the     *)
(* cursor says, or where the sync past the lock has just put it (Calm).    *)
(*                                                                         *)
(* Dispatch: what was dispatched is remembered or just being answered, one *)
(* post at most carries it, and whoever may send it again has an excuse    *)
(* (Once); a token is handed out with its margin left (Handing); while     *)
(* connects do not overlap one at a time owns the variable (Connecting).   *)
(*                                                                         *)
(* Executor: what each verb of runko-ci hands to the next (AfterDeps,      *)
(* AfterChecks, AfterImages), for any tree, change and flags.              *)
(***************************************************************************)
EXTENDS MirrorTrunk, Executor, FiniteSetTheorems, TLAPS

\* A commit of others that may be overwritten.
Cleared(sha) == sha \in Foreign => sha \in adopted

ClearedSync(s) ==
    /\ Cleared(syncs[s].expected)
    /\ At(s, "push") => syncs[s].seen = syncs[s].expected

Adopted == /\ TypeOK /\ Cleared(cursor.sha)
           /\ \A s \in Syncers : ClearedSync(s)

\* What the sync s knows, while nothing has failed, restarted, been unfrozen or
\* been pointed elsewhere.
CalmSync(s) ==
    /\ syncs[s].remote = remote
    /\ At(s, "ls") \/ At(s, "push") => syncs[s].expected = cursor.sha
    /\ At(s, "freeze") => foreign[remote]
    /\ At(s, "upsert") => foreign[remote] \/ mirror[remote] = syncs[s].tip

Calm ==
    upsets = 0 =>
        /\ unfreeze.pc = "idle"
        /\ \A s \in Syncers : CalmSync(s)
        /\ (~foreign[remote] /\ \A s \in Syncers : ~At(s, "upsert")) =>
              mirror[remote] = cursor.sha

----------------------------------------------------------------------------
(* Types.                                                                  *)

LEMMA TipTypes == 0 \in Tips /\ Tips \subseteq SHA /\ \A t \in Tips : t \notin Foreign
  BY MirrorAssumption DEF Tips, SHA

LEMMA EndedType == ASSUME NEW r \in Sync PROVE Ended(r) \in Sync
  BY TipTypes DEF Ended, Sync

\* What a step of a sync does to the table of syncs.
LEMMA SyncTypes ==
    ASSUME TypeOK, NEW s \in Syncers,
           SyncOnce(s) \/ SyncStep(s) \/ SyncPushFails(s) \/ SyncFails(s)
    PROVE  \E r \in Sync : /\ syncs' = [syncs EXCEPT ![s] = r]
                           /\ r.pc \notin {"idle", "lock"} =>
                                 s \in Holders \/ Holders = {}
  <1>0. syncs \in [Syncers -> Sync] /\ syncs[s] \in Sync
    BY DEF TypeOK
  <1> DEFINE Good == \E r \in Sync :
                        /\ syncs' = [syncs EXCEPT ![s] = r]
                        /\ r.pc \notin {"idle", "lock"} =>
                              s \in Holders \/ Holders = {}
  <1>1. ASSUME End(s) PROVE Good
    <2> DEFINE r == Ended(syncs[s])
    <2>1. r \in Sync
      BY <1>0, EndedType
    <2>2. r.pc = "idle"
      BY <1>0 DEF Ended, Sync
    <2>3. syncs' = [syncs EXCEPT ![s] = r]
      BY <1>1 DEF End
    <2> HIDE DEF r
    <2> QED
      BY <2>1, <2>2, <2>3
  <1>2. ASSUME NEW pc \in {"upsert", "freeze"}, Goto(s, pc), At(s, "push")
        PROVE  Good
    <2> DEFINE r == [syncs[s] EXCEPT !.pc = pc]
    <2>1. r \in Sync
      BY <1>0 DEF Sync
    <2>2. syncs' = [syncs EXCEPT ![s] = r]
      BY <1>0, <1>2 DEF Goto
    <2>3. s \in Holders
      BY <1>2 DEF Holders, At
    <2> HIDE DEF r
    <2> QED
      BY <2>1, <2>2, <2>3
  <1>3. ASSUME SyncOnce(s) PROVE Good
    <2> DEFINE r == [syncs[s] EXCEPT !.pc = "lock", !.remote = remote]
    <2>1. r \in Sync
      BY <1>0 DEF Sync, TypeOK
    <2>2. r.pc = "lock"
      BY <1>0 DEF Sync
    <2>3. syncs' = [syncs EXCEPT ![s] = r]
      BY <1>0, <1>3 DEF SyncOnce
    <2> HIDE DEF r
    <2> QED
      BY <2>1, <2>2, <2>3
  <1>4. ASSUME SyncBegin(s) PROVE Good
    <2>1. ASSUME ~End(s) PROVE Good
      <3> DEFINE r == [syncs[s] EXCEPT !.pc = "ls", !.tip = trunk,
                                       !.expected = cursor.sha]
      <3>0. trunk \in Tips /\ cursor.sha \in SHA
        BY DEF TypeOK, Cursor
      <3>1. r \in Sync
        BY <1>0, <3>0 DEF Sync
      <3>2. syncs' = [syncs EXCEPT ![s] = r]
        BY <1>0, <1>4, <2>1 DEF SyncBegin
      <3>3. Holders = {}
        BY <1>4 DEF SyncBegin, SyncMuFree
      <3> HIDE DEF r
      <3> QED
        BY <3>1, <3>2, <3>3
    <2> QED
      BY <1>1, <2>1
  <1>5. ASSUME SyncLsRemote(s) PROVE Good
    <2> DEFINE sha == mirror[syncs[s].remote]
               pc == IF Diverged(s, sha) THEN "freeze"
                     ELSE IF sha = syncs[s].tip THEN "upsert" ELSE "push"
               r == [syncs[s] EXCEPT !.seen = sha, !.pc = pc]
    <2>0. sha \in SHA /\ pc \in {"freeze", "upsert", "push"}
      BY <1>0 DEF TypeOK, Sync
    <2>1. syncs' = [syncs EXCEPT ![s] = r]
      BY <1>0, <1>5 DEF SyncLsRemote
    <2>2. s \in Holders
      BY <1>5 DEF SyncLsRemote, Holders, At
    <2> HIDE DEF sha, pc
    <2>3. r \in Sync
      BY <1>0, <2>0 DEF Sync
    <2> HIDE DEF r
    <2> QED
      BY <2>1, <2>2, <2>3
  <1> QED
    BY <1>1, <1>2, <1>3, <1>4, <1>5
    DEF SyncStep, SyncPush, SyncPushFails, SyncUpsert, SyncFreeze, SyncFails

LEMMA MutexKept ==
    ASSUME TypeOK, NEW s \in Syncers, NEW r \in Sync,
           syncs' = [syncs EXCEPT ![s] = r],
           r.pc \notin {"idle", "lock"} => s \in Holders \/ Holders = {}
    PROVE  \A t, u \in Holders' : t = u
  <1>1. /\ syncs \in [Syncers -> Sync] /\ Holders \subseteq Syncers
        /\ \A t, u \in Holders : t = u
    BY DEF TypeOK, Holders
  <1>2. ASSUME NEW t \in Holders' PROVE t \in Holders \/ (t = s /\ Holders = {})
    BY <1>1 DEF Holders
  <1> QED
    BY <1>1, <1>2

LEMMA UpsetTypes ==
    ASSUME TypeOK, Upset
    PROVE  upsets' \in 0 .. MaxUpsets
  BY MirrorAssumption DEF TypeOK, Upset

LEMMA SyncTypeOK ==
    ASSUME TypeOK, NEW s \in Syncers,
           SyncOnce(s) \/ SyncStep(s) \/ SyncPushFails(s) \/ SyncFails(s)
    PROVE  TypeOK'
  <1>0. syncs \in [Syncers -> Sync] /\ syncs[s] \in Sync
    BY DEF TypeOK
  <1>1. syncs' \in [Syncers -> Sync] /\ \A t, u \in Holders' : t = u
    BY <1>0, SyncTypes, MutexKept
  <1>2. syncs[s].tip \in SHA /\ syncs[s].remote \in Remotes
    BY <1>0, TipTypes DEF Sync
  <1>3. mirror' \in [Remotes -> SHA] /\ foreign' \in [Remotes -> BOOLEAN]
    BY <1>2 DEF TypeOK, WriteMirror, SyncOnce, SyncStep, SyncBegin, SyncLsRemote,
       SyncPush, SyncUpsert, SyncFreeze, SyncPushFails, SyncFails
  <1>4. cursor' \in Cursor
    <2>1. [known |-> TRUE, sha |-> syncs[s].tip, frozen |-> FALSE] \in Cursor
      BY <1>2 DEF Cursor
    <2>2. [cursor EXCEPT !.known = TRUE, !.frozen = TRUE] \in Cursor
      BY DEF Cursor, TypeOK
    <2>3. cursor \in Cursor
      BY DEF TypeOK
    <2> QED
      BY <2>1, <2>2, <2>3 DEF SyncOnce, SyncStep, SyncBegin, SyncLsRemote,
         SyncPush, SyncUpsert, SyncFreeze, SyncPushFails, SyncFails
  <1>5. upsets' \in 0 .. MaxUpsets
    BY UpsetTypes DEF TypeOK, SyncOnce, SyncStep, SyncBegin, SyncLsRemote,
       SyncPush, SyncUpsert, SyncFreeze, SyncPushFails, SyncFails
  <1>6. trunk' = trunk /\ remote' = remote /\ unfreeze' = unfreeze /\ adopted' = adopted
    BY DEF SyncOnce, SyncStep, SyncBegin, SyncLsRemote, SyncPush, SyncUpsert,
       SyncFreeze, SyncPushFails, SyncFails
  <1> QED
    BY <1>1, <1>3, <1>4, <1>5, <1>6 DEF TypeOK

LEMMA OtherTypeOK ==
    ASSUME TypeOK,
           \/ UnfreezeLook \/ UnfreezeUpsert \/ Land \/ Restart
           \/ \E r \in Remotes : Connect(r) \/ ForeignWrite(r)
    PROVE  TypeOK'
  <1>0. /\ 0 \in SHA /\ Holders \subseteq Syncers
        /\ syncs \in [Syncers -> Sync]
    BY TipTypes DEF TypeOK, Holders
  <1>1. CASE UnfreezeLook
    <2>1. mirror[remote] \in SHA
      BY DEF TypeOK
    <2> QED
      BY <1>1, <2>1, UpsetTypes DEF TypeOK, UnfreezeLook, Holders
  <1>2. CASE UnfreezeUpsert
    <2>1. unfreeze.seen \in SHA
      BY DEF TypeOK
    <2>2. cursor' \in Cursor
      BY <1>2, <2>1 DEF UnfreezeUpsert, Cursor
    <2>3. unfreeze' \in [pc : {"idle", "upsert"}, seen : SHA] /\ adopted' \subseteq SHA
      BY <1>0, <1>2, <2>1 DEF UnfreezeUpsert, TypeOK
    <2> QED
      BY <1>2, <2>2, <2>3 DEF TypeOK, UnfreezeUpsert, Holders
  <1>3. CASE Land
    <2>1. trunk' \in Tips
      BY <1>3, MirrorAssumption DEF Land, TypeOK, Tips
    <2> QED
      BY <1>3, <2>1 DEF TypeOK, Land, Holders
  <1>4. CASE Restart
    <2>1. syncs' \in [Syncers -> Sync]
      BY <1>0, <1>4, EndedType DEF Restart
    <2>2. \A s \in Syncers : syncs'[s].pc = "idle"
      BY Zenon, <1>0, <1>4 DEF Restart, Ended, Sync
    <2>3. Holders' = {}
      BY <2>2 DEF Holders
    <2>4. upsets' \in 0 .. MaxUpsets
      BY <1>4, UpsetTypes DEF Restart
    <2>5. unfreeze' \in [pc : {"idle", "upsert"}, seen : SHA]
      BY <1>0, <1>4 DEF Restart
    <2> QED
      BY <1>4, <2>1, <2>3, <2>4, <2>5 DEF TypeOK, Restart
  <1>5. ASSUME NEW r \in Remotes, Connect(r) PROVE TypeOK'
    BY <1>5, UpsetTypes DEF TypeOK, Connect, Holders
  <1>6. ASSUME NEW r \in Remotes, ForeignWrite(r) PROVE TypeOK'
    <2>1. Foreign \cup 0 .. trunk \subseteq SHA
      BY MirrorAssumption DEF TypeOK, Tips, SHA
    <2>2. mirror' \in [Remotes -> SHA]
      BY <1>6, <2>1 DEF TypeOK, ForeignWrite
    <2>3. foreign' \in [Remotes -> BOOLEAN]
      BY <1>6 DEF TypeOK, ForeignWrite
    <2> QED
      BY <1>6, <2>2, <2>3 DEF TypeOK, ForeignWrite, Holders
  <1> QED
    BY <1>1, <1>2, <1>3, <1>4, <1>5, <1>6

----------------------------------------------------------------------------
(* The commits of others.                                                  *)

LEMMA InitAdopted == ASSUME Init PROVE Adopted
  <1>1. 0 \in Tips /\ 0 \in SHA /\ 0 \notin Foreign
    BY TipTypes
  <1>2. syncs \in [Syncers -> Sync] /\ Holders = {}
    BY <1>1 DEF Init, Sync, Holders
  <1>3. mirror \in [Remotes -> SHA] /\ cursor \in Cursor
    BY <1>1 DEF Init, Cursor
  <1>4. TypeOK
    BY <1>1, <1>2, <1>3, MirrorAssumption DEF Init, TypeOK, Tips
  <1>5. Cleared(cursor.sha) /\ \A s \in Syncers : ClearedSync(s)
    BY <1>1 DEF Init, Cleared, ClearedSync, At
  <1> QED
    BY <1>4, <1>5 DEF Adopted

\* A step of a sync keeps every sync cleared.
LEMMA SyncAdopted ==
    ASSUME Adopted, NEW s \in Syncers,
           SyncOnce(s) \/ SyncStep(s) \/ SyncPushFails(s) \/ SyncFails(s)
    PROVE  Adopted'
  <1>0. /\ TypeOK /\ syncs \in [Syncers -> Sync] /\ syncs[s] \in Sync
        /\ adopted' = adopted /\ TypeOK'
    <2>1. TypeOK
      BY DEF Adopted
    <2>2. adopted' = adopted
      BY DEF SyncOnce, SyncStep, SyncBegin, SyncLsRemote, SyncPush, SyncUpsert,
         SyncFreeze, SyncPushFails, SyncFails
    <2> QED
      BY <2>1, <2>2, SyncTypeOK DEF TypeOK
  <1>1. \A sha : Cleared(sha)' <=> Cleared(sha)
    BY <1>0 DEF Cleared
  <1>2. Cleared(cursor'.sha)
    <2>1. Cleared(syncs[s].tip)
      BY <1>0, TipTypes DEF Cleared, Sync
    <2>2. \/ cursor' = cursor
          \/ cursor'.sha = syncs[s].tip
          \/ cursor' = [cursor EXCEPT !.known = TRUE, !.frozen = TRUE]
      BY DEF SyncOnce, SyncStep, SyncBegin, SyncLsRemote, SyncPush, SyncUpsert,
         SyncFreeze, SyncPushFails, SyncFails
    <2>3. cursor'.sha \in {cursor.sha, syncs[s].tip}
      BY <1>0, <2>2 DEF TypeOK, Cursor
    <2> QED
      BY <2>1, <2>3 DEF Adopted
  <1>3. ClearedSync(s)'
    <2>1. ClearedSync(s) /\ Cleared(cursor.sha) /\ Cleared(0)
      BY TipTypes DEF Adopted, Cleared
    <2>2. ASSUME End(s) PROVE syncs'[s].expected = 0 /\ syncs'[s].pc = "idle"
      BY <1>0, <2>2 DEF End, Ended, Sync
    <2>3. CASE End(s)
      BY <1>1, <2>1, <2>2, <2>3 DEF ClearedSync, At
    <2>4. CASE \E pc \in {"upsert", "freeze"} : Goto(s, pc)
      <3>1. syncs'[s].expected = syncs[s].expected /\ syncs'[s].pc # "push"
        BY <1>0, <2>4 DEF Goto, Sync
      <3> QED
        BY <1>1, <2>1, <3>1 DEF ClearedSync, At
    <2>5. CASE SyncOnce(s)
      <3>1. syncs'[s].expected = syncs[s].expected /\ syncs'[s].pc # "push"
        BY <1>0, <2>5 DEF SyncOnce, Sync
      <3> QED
        BY <1>1, <2>1, <3>1 DEF ClearedSync, At
    <2>6. CASE SyncBegin(s) /\ ~End(s)
      <3>1. syncs'[s].expected = cursor.sha /\ syncs'[s].pc # "push"
        BY <1>0, <2>6 DEF SyncBegin, Sync
      <3> QED
        BY <1>1, <2>1, <3>1 DEF ClearedSync, At
    <2>7. CASE SyncLsRemote(s)
      <3> DEFINE sha == mirror[syncs[s].remote]
      <3>1. /\ syncs'[s].expected = syncs[s].expected
            /\ syncs'[s].seen = sha
            /\ syncs'[s].pc = "push" => ~Diverged(s, sha) /\ sha # syncs[s].tip
        BY <1>0, <2>7 DEF SyncLsRemote, Sync
      <3>2. syncs'[s].pc = "push" => syncs'[s].seen = syncs'[s].expected
        BY <3>1 DEF Diverged
      <3> QED
        BY <1>1, <2>1, <3>1, <3>2 DEF ClearedSync, At
    <2> QED
      BY <2>3, <2>4, <2>5, <2>6, <2>7 DEF SyncStep, SyncPush, SyncPushFails,
         SyncUpsert, SyncFreeze, SyncFails
  <1>4. ASSUME NEW t \in Syncers, t # s PROVE ClearedSync(t)'
    <2>1. syncs'[t] = syncs[t]
      BY <1>0, <1>4, SyncTypes
    <2> QED
      BY <1>1, <2>1 DEF Adopted, ClearedSync, At
  <1> QED
    BY <1>0, <1>1, <1>2, <1>3, <1>4 DEF Adopted

LEMMA NextAdopted == ASSUME Adopted, [Next]_vars PROVE Adopted'
  <1>0. TypeOK /\ syncs \in [Syncers -> Sync]
    BY DEF Adopted, TypeOK
  <1>1. ASSUME NEW s \in Syncers,
               SyncOnce(s) \/ SyncStep(s) \/ SyncPushFails(s) \/ SyncFails(s)
        PROVE  Adopted'
    BY <1>1, SyncAdopted
  <1>2. ASSUME \/ UnfreezeLook \/ Land
               \/ \E r \in Remotes : Connect(r) \/ ForeignWrite(r)
        PROVE  Adopted'
    <2>1. syncs' = syncs /\ cursor' = cursor /\ adopted' = adopted
      BY <1>2 DEF UnfreezeLook, Land, Connect, ForeignWrite
    <2>2. TypeOK'
      BY <1>0, <1>2, OtherTypeOK
    <2> QED
      BY <2>1, <2>2 DEF Adopted, Cleared, ClearedSync, At
  <1>3. CASE UnfreezeUpsert
    <2>1. /\ syncs' = syncs /\ cursor'.sha = unfreeze.seen
          /\ adopted' = adopted \cup {unfreeze.seen}
      BY <1>3 DEF UnfreezeUpsert
    <2>2. TypeOK'
      BY <1>0, <1>3, OtherTypeOK
    <2> QED
      BY <2>1, <2>2 DEF Adopted, Cleared, ClearedSync, At
  <1>4. CASE Restart
    <2>1. /\ cursor' = cursor /\ adopted' = adopted
          /\ \A s \in Syncers : syncs'[s].expected = 0 /\ syncs'[s].pc = "idle"
      BY Zenon, <1>0, <1>4 DEF Restart, Ended, Sync
    <2>2. TypeOK'
      BY <1>0, <1>4, OtherTypeOK
    <2> QED
      BY <2>1, <2>2, TipTypes DEF Adopted, Cleared, ClearedSync, At
  <1>5. CASE UNCHANGED vars
    BY <1>5 DEF vars, Adopted, TypeOK, Holders, Cleared, ClearedSync, At
  <1> QED
    BY <1>1, <1>2, <1>3, <1>4, <1>5 DEF Next

\* The step of a sync that writes the mirror writes over what is cleared.
LEMMA WriteCleared ==
    ASSUME Adopted, NEW s \in Syncers, WriteMirror(s), At(s, "push")
    PROVE  Cleared(mirror[syncs[s].remote])
  BY DEF Adopted, ClearedSync, WriteMirror, LeaseHolds

LEMMA NextNeverOverwrites ==
    ASSUME Adopted, [Next]_vars, NEW r \in Remotes,
           mirror'[r] # mirror[r], mirror[r] \in Foreign, ~foreign'[r]
    PROVE  mirror[r] \in adopted
  <1>0. /\ mirror \in [Remotes -> SHA] /\ foreign \in [Remotes -> BOOLEAN]
        /\ syncs \in [Syncers -> Sync]
    BY DEF Adopted, TypeOK
  <1>1. ASSUME NEW s \in Syncers, WriteMirror(s), At(s, "push")
        PROVE  mirror[r] \in adopted
    <2>1. r = syncs[s].remote
      BY <1>0, <1>1 DEF WriteMirror
    <2> QED
      BY <1>1, <2>1, WriteCleared DEF Cleared
  <1>2. ASSUME NEW q \in Remotes, ForeignWrite(q) PROVE FALSE
    BY <1>0, <1>2 DEF ForeignWrite
  <1>3. \/ mirror' = mirror
        \/ \E s \in Syncers : WriteMirror(s) /\ At(s, "push")
        \/ \E q \in Remotes : ForeignWrite(q)
    BY Zenon DEF Next, vars, SyncOnce, SyncStep, SyncBegin, SyncLsRemote, SyncPush,
       SyncUpsert, SyncFreeze, SyncPushFails, SyncFails, UnfreezeLook,
       UnfreezeUpsert, Connect, Land, Restart
  <1> QED
    BY <1>1, <1>2, <1>3

----------------------------------------------------------------------------
(* The causes of a freeze.                                                 *)

\* The sync past syncMu is alone there.
LEMMA HolderAlone ==
    ASSUME TypeOK, NEW s \in Syncers, syncs[s].pc \notin {"idle", "lock"}
    PROVE  \A t \in Syncers \ {s} : syncs[t].pc \in {"idle", "lock"}
  BY DEF TypeOK, Holders

\* Before its upsert the holder finds the remote where the cursor left it.
LEMMA HolderKnows ==
    ASSUME TypeOK, Calm, upsets = 0, NEW s \in Syncers,
           syncs[s].pc \in {"ls", "push", "freeze"}
    PROVE  foreign[remote] \/ mirror[remote] = cursor.sha
  <1>1. \A t \in Syncers : syncs[t].pc # "upsert"
    BY HolderAlone
  <1> QED
    BY <1>1 DEF Calm, At

\* A step of a sync that upsets nothing keeps Calm.
LEMMA SyncCalm ==
    ASSUME Adopted, Calm, NEW s \in Syncers, upsets = 0, SyncOnce(s) \/ SyncStep(s)
    PROVE  Calm'
  <1>0. /\ TypeOK /\ syncs \in [Syncers -> Sync] /\ syncs[s] \in Sync
        /\ \A t \in Syncers : CalmSync(t)
        /\ unfreeze.pc = "idle" /\ remote \in Remotes
        /\ mirror \in [Remotes -> SHA] /\ foreign \in [Remotes -> BOOLEAN]
        /\ syncs[s].remote = remote
    BY DEF Adopted, Calm, CalmSync, TypeOK
  <1>1. /\ remote' = remote /\ unfreeze' = unfreeze
        /\ \A t \in Syncers \ {s} : syncs'[t] = syncs[t]
    <2>1. remote' = remote /\ unfreeze' = unfreeze
      BY DEF SyncOnce, SyncStep, SyncBegin, SyncLsRemote, SyncPush, SyncUpsert, SyncFreeze
    <2> QED
      BY <1>0, <2>1, SyncTypes
  <1> DEFINE Same == cursor' = cursor /\ mirror' = mirror /\ foreign' = foreign
             Rest == ~foreign'[remote] /\ (\A t \in Syncers : syncs'[t].pc # "upsert") =>
                        mirror'[remote] = cursor'.sha
  <1>2. ASSUME \A t \in Syncers \ {s} : CalmSync(t)', CalmSync(s)', Rest PROVE Calm'
    BY <1>0, <1>1, <1>2 DEF Calm, At
  <1>3. ASSUME Same PROVE \A t \in Syncers \ {s} : CalmSync(t)'
    BY <1>0, <1>1, <1>3 DEF CalmSync, At
  <1>4. ASSUME syncs[s].pc \notin {"idle", "lock"}
        PROVE  \A t \in Syncers \ {s} : CalmSync(t)'
    <2>1. \A t \in Syncers \ {s} : syncs[t].pc \in {"idle", "lock"}
      BY <1>0, <1>4, HolderAlone
    <2> QED
      BY <1>0, <1>1, <2>1 DEF CalmSync, At
  <1>5. ASSUME Same, syncs[s].pc # "upsert" PROVE Rest
    BY <1>1, <1>5 DEF Calm, At
  <1>6. ASSUME End(s) PROVE syncs'[s].pc = "idle" /\ CalmSync(s)'
    <2>1. syncs'[s].pc = "idle" /\ syncs'[s].remote = remote
      BY <1>0, <1>6 DEF End, Ended, Sync
    <2> QED
      BY <1>1, <2>1 DEF CalmSync, At
  <1>7. CASE SyncOnce(s)
    <2>1. Same /\ syncs[s].pc = "idle"
      BY <1>7 DEF SyncOnce, At
    <2>2. syncs'[s].pc = "lock" /\ syncs'[s].remote = remote
      BY <1>0, <1>7 DEF SyncOnce, Sync
    <2>3. CalmSync(s)'
      BY <1>1, <2>2 DEF CalmSync, At
    <2> QED
      BY <1>2, <1>3, <1>5, <2>1, <2>3
  <1>8. CASE SyncBegin(s)
    <2>1. Same /\ syncs[s].pc = "lock"
      BY <1>8 DEF SyncBegin, At
    <2>2. ASSUME ~End(s) PROVE CalmSync(s)'
      <3>1. /\ syncs'[s].pc = "ls" /\ syncs'[s].remote = remote
            /\ syncs'[s].expected = cursor.sha
        BY <1>0, <1>8, <2>2 DEF SyncBegin, Sync
      <3> QED
        BY <1>1, <2>1, <3>1 DEF CalmSync, At
    <2> QED
      BY <1>2, <1>3, <1>5, <1>6, <2>1, <2>2
  <1>9. CASE SyncLsRemote(s)
    <2> DEFINE sha == mirror[syncs[s].remote]
    <2>1. Same /\ syncs[s].pc = "ls"
      BY <1>9 DEF SyncLsRemote, At
    <2>2. /\ syncs'[s].remote = remote /\ syncs'[s].expected = syncs[s].expected
          /\ syncs'[s].tip = syncs[s].tip
          /\ syncs'[s].pc = IF Diverged(s, sha) THEN "freeze"
                            ELSE IF sha = syncs[s].tip THEN "upsert" ELSE "push"
      BY <1>0, <1>9 DEF SyncLsRemote, Sync
    <2>3. syncs[s].expected = cursor.sha
      BY <1>0, <2>1 DEF CalmSync, At
    <2>4. foreign[remote] \/ mirror[remote] = cursor.sha
      BY <1>0, <2>1, HolderKnows
    <2>5. CalmSync(s)'
      BY <1>0, <1>1, <2>1, <2>2, <2>3, <2>4 DEF CalmSync, At, Diverged
    <2> QED
      BY <1>2, <1>3, <1>5, <2>1, <2>5
  <1>10. CASE SyncPush(s) /\ ~LeaseHolds(s)
    <2>1. Same /\ syncs[s].pc = "push" /\ Goto(s, "freeze")
      BY <1>10 DEF SyncPush, WriteMirror, At
    <2>2. syncs'[s].pc = "freeze" /\ syncs'[s].remote = remote
      BY <1>0, <2>1 DEF Goto, Sync
    <2>3. syncs[s].expected = cursor.sha /\ syncs[s].seen = syncs[s].expected
      BY <1>0, <2>1 DEF CalmSync, At, Adopted, ClearedSync
    <2>4. foreign[remote] \/ mirror[remote] = cursor.sha
      BY <1>0, <2>1, HolderKnows
    <2>5. foreign[remote]
      BY <1>0, <1>10, <2>3, <2>4 DEF LeaseHolds
    <2>6. CalmSync(s)'
      BY <1>1, <2>1, <2>2, <2>5 DEF CalmSync, At
    <2> QED
      BY <1>2, <1>3, <1>5, <2>1, <2>6
  <1>11. CASE SyncPush(s) /\ LeaseHolds(s)
    <2>1. syncs[s].pc = "push" /\ WriteMirror(s) /\ Goto(s, "upsert")
      BY <1>11 DEF SyncPush, At
    <2>2. /\ syncs'[s].pc = "upsert" /\ syncs'[s].remote = remote
          /\ syncs'[s].tip = syncs[s].tip
      BY <1>0, <2>1 DEF Goto, Sync
    <2>3. mirror'[remote] = syncs[s].tip
      BY <1>0, <2>1 DEF WriteMirror
    <2>4. CalmSync(s)' /\ Rest
      BY <1>1, <2>2, <2>3 DEF CalmSync, At
    <2> QED
      BY <1>2, <1>4, <2>1, <2>4
  <1>12. CASE SyncUpsert(s)
    <2>1. /\ syncs[s].pc = "upsert" /\ End(s) /\ mirror' = mirror /\ foreign' = foreign
          /\ cursor'.sha = syncs[s].tip
      BY <1>12 DEF SyncUpsert, At
    <2>2. Rest
      BY <1>0, <2>1 DEF CalmSync, At
    <2> QED
      BY <1>2, <1>4, <1>6, <2>1, <2>2
  <1>13. CASE SyncFreeze(s)
    <2>1. syncs[s].pc = "freeze" /\ End(s) /\ mirror' = mirror /\ foreign' = foreign
      BY <1>13 DEF SyncFreeze, At
    <2>2. foreign[remote]
      BY <1>0, <2>1 DEF CalmSync, At
    <2> QED
      BY <1>2, <1>4, <1>6, <2>1, <2>2
  <1> QED
    BY <1>7, <1>8, <1>9, <1>10, <1>11, <1>12, <1>13 DEF SyncStep

LEMMA NextCalm == ASSUME Adopted, Calm, [Next]_vars PROVE Calm'
  <1>0. TypeOK /\ upsets \in Nat
    BY MirrorAssumption DEF Adopted, TypeOK
  <1> SUFFICES ASSUME upsets' = 0 PROVE Calm'
    BY DEF Calm
  <1>1. ~Upset
    BY <1>0 DEF Upset
  <1>2. ASSUME NEW s \in Syncers, SyncOnce(s) \/ SyncStep(s) PROVE Calm'
    <2>1. upsets' = upsets
      BY <1>2 DEF SyncOnce, SyncStep, SyncBegin, SyncLsRemote, SyncPush, SyncUpsert,
         SyncFreeze
    <2> QED
      BY <1>2, <2>1, SyncCalm
  <1>3. CASE Land
    BY <1>3 DEF Land, Calm, CalmSync, At
  <1>4. ASSUME NEW r \in Remotes, ForeignWrite(r) PROVE Calm'
    <2>1. /\ syncs' = syncs /\ cursor' = cursor /\ remote' = remote
          /\ unfreeze' = unfreeze /\ upsets' = upsets
      BY <1>4 DEF ForeignWrite
    <2>2. \/ r = remote /\ foreign'[remote]
          \/ /\ mirror'[remote] = mirror[remote]
             /\ foreign'[remote] = foreign[remote]
      BY <1>0, <1>4 DEF ForeignWrite, TypeOK
    <2> QED
      BY <2>1, <2>2 DEF Calm, CalmSync, At
  <1>5. UnfreezeUpsert => FALSE
    <2>1. UnfreezeUpsert => upsets' = upsets /\ unfreeze.pc = "upsert"
      BY DEF UnfreezeUpsert
    <2> QED
      BY <2>1 DEF Calm
  <1>6. CASE UNCHANGED vars
    BY <1>6 DEF vars, Calm, CalmSync, At
  <1> QED
    BY Zenon, <1>1, <1>2, <1>3, <1>4, <1>5, <1>6
    DEF Next, SyncPushFails, SyncFails, UnfreezeLook, Connect, Restart

LEMMA InitCalm == ASSUME Init PROVE Calm
  BY DEF Init, Calm, CalmSync, At

----------------------------------------------------------------------------
\* Every reachable state of the mirror worker has its types, and syncMu lets
\* one sync past it at a time (SyncOnce's lock).
THEOREM MirrorTypeCorrect == Spec => []TypeOK
  <1>1. Init => Adopted
    BY InitAdopted
  <1>2. Adopted /\ [Next]_vars => Adopted'
    BY NextAdopted
  <1>3. Adopted => TypeOK
    BY DEF Adopted
  <1> QED
    BY <1>1, <1>2, <1>3, PTL DEF Spec

\* No sync overwrites a commit of others that no admin has adopted: the freeze
\* verdict of syncTrunk and the lease of its push, for any number of syncs,
\* remotes, foreign writes, lands, failures, restarts and unfreezes.
THEOREM ForeignCommitsAreSafe == Spec => NeverOverwritten
  <1>1. Init => Adopted
    BY InitAdopted
  <1>2. Adopted /\ [Next]_vars => Adopted'
    BY NextAdopted
  <1>3. Adopted /\ [Next]_vars =>
          [\A r \in Remotes :
             (mirror'[r] # mirror[r] /\ mirror[r] \in Foreign /\ ~foreign'[r]) =>
                mirror[r] \in adopted]_vars
    BY NextNeverOverwrites
  <1> QED
    BY <1>1, <1>2, <1>3, PTL DEF Spec, NeverOverwritten

\* Trunk is never frozen by our own pushes: a sync that freezes the cursor saw a
\* write of others on its remote, unless some call failed, the daemon restarted,
\* an admin unfroze or the worker was pointed elsewhere (syncMu, the pinned tip,
\* the cursor written only after the push).
THEOREM FreezesHaveACause == Spec => FreezeHasCause
  <1> DEFINE Caused == \A s \in Syncers :
                 (cursor'.frozen /\ ~cursor.frozen /\ At(s, "freeze")) =>
                    foreign[syncs[s].remote] \/ upsets > 0
             Inv == Adopted /\ Calm
  <1>1. Init => Inv
    BY InitAdopted, InitCalm
  <1>2. Inv /\ [Next]_vars => Inv'
    BY NextAdopted, NextCalm
  <1>3. Inv => Caused
    <2>1. Inv => upsets \in Nat
      BY MirrorAssumption DEF Adopted, TypeOK
    <2> QED
      BY <2>1 DEF Calm, CalmSync, At
  <1>4. Spec => []Inv
    <2> HIDE DEF Inv
    <2> QED
      BY <1>1, <1>2, PTL DEF Spec
  <1>5. Inv /\ [Next]_vars => [Caused]_vars
    BY <1>3
  <1>6. Spec => [][Caused]_vars
    <2> HIDE DEF Inv, Caused
    <2> QED
      BY <1>4, <1>5, PTL DEF Spec
  <1> QED
    BY <1>6 DEF FreezeHasCause

----------------------------------------------------------------------------
(* The way to GitHub.                                                      *)

Ids == {route.mail[e].id : e \in DOMAIN route.mail}
Handed == [born : Nat, install : Nat]
InFlight == {"token", "lookup", "create", "send", "sent"}
POSTs == [event : DOMAIN route.mail, at : {"in"} \cup InFlight \cup Over,
          gone : BOOLEAN, cached : BOOLEAN, token : Handed, taken : Nat]

Links == [at : {"start", "conflict", "secret", "sealed", "done", "failed"}, key : Nat]
Names == DOMAIN route.connects \cup {""}
GitHubs == [install : Nat, accepted : Seq(Ids), key : Nat, variable : Names, secret : Names]

Addressed ==
    /\ route \in Routes /\ acked \subseteq DOMAIN route.mail
    /\ posts \in Seq(POSTs) /\ seen \in Seq(Ids) /\ tick \in Nat
    /\ app \in [install : Nat, token : Handed, minter : Nat]
    /\ github \in GitHubs /\ connects \in [DOMAIN route.connects -> Links]

Accepted(id) == \E i \in DOMAIN github.accepted : github.accepted[i] = id

\* Why an event may be dispatched twice.
Excused(id) == \E why \in {"restart", "evicted", "lost answer", "overlap"} : Lapsed(why, id)

\* An event somebody was told of has been dispatched.
Vouched ==
    /\ \A e \in acked : ForThisBridge(route.mail[e]) => Accepted(route.mail[e].id)
    /\ \A i \in DOMAIN seen : Accepted(seen[i])
    /\ \A k \in DOMAIN posts : posts[k].at = "sent" => Accepted(MailOf(k).id)

\* Who carries the event id to GitHub, or brings the answer.
Carries(k, id) == posts[k].at \in InFlight /\ MailOf(k).id = id
Brings(k, id) == posts[k].at = "sent" /\ MailOf(k).id = id

\* What keeps a dispatched event from going out again, unless it is excused: one
\* post at most carries it, and it is remembered or just being answered.
Once ==
    \A id \in Ids :
        \/ Excused(id)
        \/ /\ \A i, j \in DOMAIN github.accepted :
                  github.accepted[i] = id /\ github.accepted[j] = id => i = j
           /\ \A j, k \in DOMAIN posts : Carries(j, id) /\ Carries(k, id) => j = k
           /\ Accepted(id) => /\ \A k \in DOMAIN posts : Carries(k, id) => Brings(k, id)
                              /\ Noted(id) \/ \E k \in DOMAIN posts : Brings(k, id)

\* A token is handed out with the margin left.
Handing ==
    /\ \A k \in DOMAIN posts : posts[k].at = "send" /\ route.app =>
           posts[k].taken + RefreshMargin < posts[k].token.born + TokenLife
    /\ TokensHold

\* What may part the two values of a connect.
Muddled == \E c \in DOMAIN connects, why \in {"connects overlap", "half provisioned", "no token"} :
               Lapsed(why, c)
Connecting ==
    ~Muddled =>
        /\ \A c, d \in DOMAIN connects : Begun(c) /\ Begun(d) => c = d
        /\ \A c \in DOMAIN connects :
               connects[c].at \in {"secret", "sealed"} => github.variable = c
        /\ (\A c \in DOMAIN connects : ~Begun(c)) => github.variable = github.secret

DispatchIInv == Addressed /\ Vouched /\ Once /\ Handing /\ Connecting

LEMMA TwoOfMany ==
  ASSUME NEW S, Cardinality(S) > 1
  PROVE  \E i, j \in S : i # j
  <1>1. S # {}
    BY FS_EmptySet
  <1>2. PICK i \in S : TRUE
    BY <1>1
  <1>3. S # {i}
    BY FS_Singleton
  <1> QED
    BY <1>2, <1>3

LEMMA SoundDispatch == Addressed /\ Vouched /\ Once /\ Handing /\ Connecting => DispatchSound
  <1> SUFFICES ASSUME Addressed, Vouched, Once, Handing, Connecting
      PROVE  DispatchSound
    OBVIOUS
  <1>1. AckedWasDispatched
    <2> SUFFICES ASSUME NEW e \in acked, ForThisBridge(route.mail[e])
        PROVE  Times(route.mail[e].id) > 0
      BY DEF AckedWasDispatched
    <2> DEFINE S == {i \in DOMAIN github.accepted : github.accepted[i] = route.mail[e].id}
    <2>1. S # {}
      BY DEF Vouched, Accepted
    <2>2. IsFiniteSet(S)
      <3>1. DOMAIN github.accepted = 1 .. Len(github.accepted) /\ Len(github.accepted) \in Nat
        BY DEF Addressed, GitHubs
      <3>2. IsFiniteSet(1 .. Len(github.accepted))
        BY <3>1, FS_Interval
      <3> QED
        BY <3>1, <3>2, FS_Subset
    <2>3. Cardinality(S) \in Nat /\ Cardinality(S) # 0
      BY <2>1, <2>2, FS_CardinalityType, FS_EmptySet
    <2> QED
      BY <2>3 DEF Times
  <1>2. DispatchedOnce
    <2> SUFFICES ASSUME NEW id, Times(id) > 1
        PROVE  Excused(id)
      BY DEF DispatchedOnce, Excused
    <2> DEFINE S == {i \in DOMAIN github.accepted : github.accepted[i] = id}
    <2>0. Cardinality(S) > 1
      BY DEF Times
    <2> HIDE DEF S
    <2>1. \E i, j \in S : i # j
      BY <2>0, TwoOfMany
    <2> QED
      <3>1. PICK i \in DOMAIN github.accepted : github.accepted[i] = id
        BY <2>1 DEF S
      <3>2. id \in Ids
        BY <3>1 DEF Addressed, GitHubs
      <3> QED
        BY <2>1, <3>2 DEF Once, S
  <1>3. TokensHold
    BY DEF Handing
  <1>4. ProvisionedTogether
    BY DEF Connecting, ProvisionedTogether, Muddled
  <1> QED
    BY <1>1, <1>2, <1>3, <1>4 DEF DispatchSound

LEMMA EntryReplaced ==
  ASSUME NEW T, NEW s \in Seq(T), NEW k \in DOMAIN s, NEW v \in T
  PROVE  [s EXCEPT ![k] = v] \in Seq(T)
  OBVIOUS

LEMMA AddressedAtFirst == DispatchInit => Addressed
  <1> SUFFICES ASSUME DispatchInit
      PROVE  Addressed
    OBVIOUS
  <1>1. app \in [install : Nat, token : Handed, minter : Nat]
    BY DEF DispatchInit, NoToken, NoMinter, Handed
  <1>2. github \in GitHubs
    <2>1. << >> \in Seq(Ids)
      OBVIOUS
    <2> QED
      BY <2>1 DEF DispatchInit, GitHubs, Names
  <1>3. connects \in [DOMAIN route.connects -> Links]
    BY DEF DispatchInit, Links
  <1>4. posts \in Seq(POSTs) /\ seen \in Seq(Ids)
    <2>1. \A T : << >> \in Seq(T)
      OBVIOUS
    <2> QED
      BY <2>1 DEF DispatchInit
  <1> QED
    BY <1>1, <1>2, <1>3, <1>4 DEF Addressed, DispatchInit

LEMMA AddressedStays == Addressed /\ [DispatchNext]_dispatchVars => Addressed'
  <1> SUFFICES ASSUME Addressed, [DispatchNext]_dispatchVars
      PROVE  Addressed'
    OBVIOUS
  <1>0. route' = route /\ Ids' = Ids /\ POSTs' = POSTs /\ Names' = Names /\ GitHubs' = GitHubs
    BY DEF DispatchNext, dispatchVars, Post, HangUp, HandleWebhook, SendDispatch, DispatchLost,
           Dispatched204, BridgeRestart, Token, LookupInstallation, CreateToken, MintFails,
           TimeGoesOn, Reinstalled, PostVariable, PatchVariable, ReadKey, PutSecret,
           ProvisionFails, KeyRotates, ElsewhereUnchanged, Ids, POSTs, Names, GitHubs
  <1>a. /\ posts \in Seq(POSTs) /\ app \in [install : Nat, token : Handed, minter : Nat]
        /\ github \in GitHubs /\ MaxSeen \in Nat
    BY DispatchAssumption DEF Addressed
  <1>1. ASSUME NEW e \in DOMAIN route.mail, Post(e) PROVE Addressed'
    <2>1. [event |-> e, at |-> "in", gone |-> FALSE, cached |-> FALSE, token |-> NoToken,
           taken |-> 0] \in POSTs
      BY DEF POSTs, Handed, NoToken
    <2> QED
      BY <1>0, <1>1, <2>1 DEF Addressed, Post
  <1>2. ASSUME NEW k \in DOMAIN posts, HangUp(k) PROVE Addressed'
    <2>1. posts[k] \in POSTs
      BY DEF Addressed
    <2>2. [posts[k] EXCEPT !.gone = TRUE] \in POSTs
      BY <2>1 DEF POSTs
    <2> QED
      BY <1>0, <1>2, <2>2, EntryReplaced DEF Addressed, HangUp
  <1>3. ASSUME NEW k \in DOMAIN posts, HandleWebhook(k) PROVE Addressed'
    <2>1. posts[k] \in POSTs
      BY DEF Addressed
    <2>2. /\ [posts[k] EXCEPT !.at = "token"] \in POSTs
          /\ [posts[k] EXCEPT !.at = "acked"] \in POSTs
      BY <2>1 DEF POSTs, InFlight, Over
    <2>3. PICK p \in POSTs : posts' = [posts EXCEPT ![k] = p]
      BY <1>3, <2>2 DEF HandleWebhook, PostGoes, Acknowledge
    <2>5. posts' \in Seq(POSTs)
      BY <1>a, <2>3, EntryReplaced
    <2>4. acked' \subseteq DOMAIN route.mail
      BY <1>3, <2>1 DEF Addressed, HandleWebhook, Acknowledge, POSTs
    <2> QED
      BY <1>0, <1>3, <2>4, <2>5 DEF Addressed, HandleWebhook
  <1>4. ASSUME NEW k \in DOMAIN posts, SendDispatch(k) PROVE Addressed'
    <2>1. posts[k] \in POSTs
      BY DEF Addressed
    <2>2. /\ [posts[k] EXCEPT !.at = "sent"] \in POSTs
          /\ [posts[k] EXCEPT !.at = "failed"] \in POSTs
      BY <2>1 DEF POSTs, InFlight, Over
    <2>3. PICK p \in POSTs : posts' = [posts EXCEPT ![k] = p]
      BY <1>4, <2>2 DEF SendDispatch, PostGoes, BadGateway, Answer502
    <2>4. posts' \in Seq(POSTs)
      BY <1>a, <2>3, EntryReplaced
    <2>5. MailOf(k).id \in Ids
      BY <2>1 DEF POSTs, MailOf, Ids
    <2>6. Append(github.accepted, MailOf(k).id) \in Seq(Ids) /\ github \in GitHubs
      BY <2>5 DEF Addressed, GitHubs
    <2>7. github' \in GitHubs
      BY <1>4, <2>6 DEF SendDispatch, GitHubs
    <2> QED
      BY <1>0, <1>4, <2>4, <2>7 DEF Addressed, SendDispatch, BadGateway, Answer502
  <1>5. ASSUME NEW k \in DOMAIN posts, DispatchLost(k) PROVE Addressed'
    <2>1. posts[k] \in POSTs
      BY DEF Addressed
    <2>2. [posts[k] EXCEPT !.at = "failed"] \in POSTs
      BY <2>1 DEF POSTs, InFlight, Over
    <2> QED
      BY <1>0, <1>5, <2>2, EntryReplaced
      DEF Addressed, DispatchLost, PostGoes, BadGateway, Answer502
  <1>6. ASSUME NEW k \in DOMAIN posts, Dispatched204(k) PROVE Addressed'
    <2>1. posts[k] \in POSTs
      BY DEF Addressed
    <2>2. [posts[k] EXCEPT !.at = "acked"] \in POSTs
      BY <2>1 DEF POSTs, InFlight, Over
    <2>3. MailOf(k).id \in Ids
      BY <2>1 DEF POSTs, MailOf, Ids
    <2>4. seen' \in Seq(Ids)
      <3>1. seen \in Seq(Ids) /\ Append(seen, MailOf(k).id) \in Seq(Ids)
        BY <2>3 DEF Addressed
      <3>2. \A s \in Seq(Ids) : Len(s) > 0 => Tail(s) \in Seq(Ids)
        OBVIOUS
      <3>3. \A s \in Seq(Ids) : Len(s) > MaxSeen => Tail(s) \in Seq(Ids)
        BY <1>a, <3>2
      <3>4. seen' = AddedBounded(MailOf(k).id)
        BY <1>6 DEF Dispatched204, Added
      <3> QED
        BY <3>1, <3>3, <3>4 DEF AddedBounded
    <2>5. acked' \subseteq DOMAIN route.mail
      BY <1>6, <2>1 DEF Addressed, Dispatched204, Acknowledge, POSTs
    <2> QED
      BY <1>0, <1>6, <2>2, <2>4, <2>5, EntryReplaced
      DEF Addressed, Dispatched204, PostGoes, Acknowledge
  <1>7. ASSUME BridgeRestart PROVE Addressed'
    <2>1. ASSUME NEW k \in DOMAIN posts PROVE posts'[k] \in POSTs
      <3>1. posts[k] \in POSTs
        BY DEF Addressed
      <3>2. [posts[k] EXCEPT !.at = "failed"] \in POSTs
        BY <3>1 DEF POSTs, InFlight, Over
      <3> QED
        BY <1>7, <3>1, <3>2 DEF BridgeRestart
    <2>2. DOMAIN posts = 1 .. Len(posts) /\ Len(posts) \in Nat
      BY DEF Addressed
    <2>3. posts' = [k \in 1 .. Len(posts) |-> posts'[k]]
      BY <1>7, <2>2 DEF BridgeRestart
    <2>4. posts' \in Seq(POSTs)
      BY <2>1, <2>2, <2>3
    <2>5. app' \in [install : Nat, token : Handed, minter : Nat]
      BY <1>7 DEF BridgeRestart, Handed, NoToken, NoMinter
    <2> QED
      BY <1>0, <1>7, <2>4, <2>5 DEF Addressed, BridgeRestart
  <1>8. ASSUME NEW k \in DOMAIN posts, Token(k) PROVE Addressed'
    <2>1. posts[k] \in POSTs /\ k \in Nat
      BY DEF Addressed
    <2>2. ASSUME ~route.app \/ Fresh(app.token) PROVE Addressed'
      <3>0. app.token \in Handed
        BY DEF Addressed
      <3>1. [posts[k] EXCEPT !.at = "send", !.token = app.token, !.taken = tick] \in POSTs
        BY <2>1, <3>0 DEF Addressed, POSTs, InFlight
      <3> QED
        BY <1>0, <1>8, <2>2, <3>1, EntryReplaced DEF Addressed, Token, Take
    <2>3. ASSUME ~(~route.app \/ Fresh(app.token)) PROVE Addressed'
      <3> DEFINE at == IF app.install = 0 THEN "lookup" ELSE "create"
      <3>1. PICK old \in BOOLEAN : old = (app.install # 0)
        OBVIOUS
      <3>2. [posts[k] EXCEPT !.at = at, !.cached = old] \in POSTs
        BY <2>1 DEF POSTs, InFlight
      <3>3. posts' = [posts EXCEPT ![k] = [posts[k] EXCEPT !.at = at, !.cached = old]]
        BY <1>8, <2>3, <3>1 DEF Token
      <3>4. app' \in [install : Nat, token : Handed, minter : Nat]
        BY <1>8, <2>1, <2>3 DEF Token, Addressed
      <3> HIDE DEF at
      <3> QED
        BY <1>0, <1>8, <3>2, <3>3, <3>4, EntryReplaced DEF Addressed, Token
    <2> QED
      BY <2>2, <2>3
  <1>9. ASSUME NEW k \in DOMAIN posts, LookupInstallation(k) PROVE Addressed'
    <2>1. posts[k] \in POSTs
      BY DEF Addressed
    <2>2. [posts[k] EXCEPT !.at = "create"] \in POSTs
      BY <2>1 DEF POSTs, InFlight
    <2>3. app' \in [install : Nat, token : Handed, minter : Nat]
      BY <1>9, <1>a DEF LookupInstallation, GitHubs
    <2> QED
      BY <1>0, <1>9, <2>2, <2>3, EntryReplaced DEF Addressed, LookupInstallation, PostGoes
  <1>10. ASSUME NEW k \in DOMAIN posts, CreateToken(k) PROVE Addressed'
    <2>1. posts[k] \in POSTs
      BY DEF Addressed
    <2> DEFINE t == [born |-> tick, install |-> app.install]
    <2>2. t \in Handed
      BY DEF Addressed, Handed
    <2>3. /\ [posts[k] EXCEPT !.at = "send", !.token = t, !.taken = tick] \in POSTs
          /\ [posts[k] EXCEPT !.at = "lookup", !.cached = FALSE] \in POSTs
          /\ [posts[k] EXCEPT !.at = "failed"] \in POSTs
      BY <2>1, <2>2 DEF POSTs, InFlight, Over, Addressed
    <2>6. \/ posts' = [posts EXCEPT ![k] = [posts[k] EXCEPT !.at = "send", !.token = t,
                                                            !.taken = tick]]
          \/ posts' = [posts EXCEPT ![k] = [posts[k] EXCEPT !.at = "lookup", !.cached = FALSE]]
          \/ posts' = [posts EXCEPT ![k] = [posts[k] EXCEPT !.at = "failed"]]
      BY <1>10 DEF CreateToken, Take, BadGateway, Answer502, PostGoes
    <2>4. posts' \in Seq(POSTs)
      BY <1>a, <2>3, <2>6, EntryReplaced
    <2>7. \/ app' = [app EXCEPT !.token = t, !.minter = 0]
          \/ app' = [app EXCEPT !.install = 0] \/ app' = [app EXCEPT !.minter = 0]
      BY <1>10 DEF CreateToken, NoMinter
    <2> HIDE DEF t
    <2>8. /\ [app EXCEPT !.token = t, !.minter = 0] \in [install : Nat, token : Handed, minter : Nat]
          /\ [app EXCEPT !.install = 0] \in [install : Nat, token : Handed, minter : Nat]
          /\ [app EXCEPT !.minter = 0] \in [install : Nat, token : Handed, minter : Nat]
      BY <1>a, <2>2
    <2>5. app' \in [install : Nat, token : Handed, minter : Nat]
      BY <2>7, <2>8
    <2> QED
      BY <1>0, <1>10, <2>4, <2>5 DEF Addressed, CreateToken, BadGateway, Answer502
  <1>11. ASSUME NEW k \in DOMAIN posts, MintFails(k) PROVE Addressed'
    <2>1. posts[k] \in POSTs
      BY DEF Addressed
    <2>2. [posts[k] EXCEPT !.at = "failed"] \in POSTs
      BY <2>1 DEF POSTs, InFlight, Over
    <2> QED
      BY <1>0, <1>11, <2>2, EntryReplaced
      DEF Addressed, MintFails, PostGoes, BadGateway, Answer502, NoMinter
  <1>12. CASE TimeGoesOn \/ UNCHANGED dispatchVars
    BY <1>0, <1>12 DEF Addressed, TimeGoesOn, dispatchVars
  <1>13. ASSUME NEW c \in DOMAIN connects, \/ PostVariable(c) \/ PatchVariable(c) \/ ReadKey(c)
                                           \/ PutSecret(c) \/ ProvisionFails(c)
         PROVE Addressed'
    <2>1. c \in Names /\ connects[c] \in Links /\ github \in GitHubs
      BY DEF Addressed, Names
    <2>2. github' \in GitHubs
      BY <1>13, <2>1 DEF PostVariable, PatchVariable, ReadKey, PutSecret, ProvisionFails, GitHubs,
                         PatchedVariable, SetVariable
    <2>3. \E l \in Links : connects' = [connects EXCEPT ![c] = l]
      <3>1. \A at \in {"conflict", "secret", "done", "failed"} :
                [connects[c] EXCEPT !.at = at] \in Links
        BY <2>1 DEF Links
      <3>2. [at |-> "sealed", key |-> github.key] \in Links
        BY <2>1 DEF Links, GitHubs
      <3>3. \/ connects' = [connects EXCEPT ![c] = [at |-> "sealed", key |-> github.key]]
            \/ \E at \in {"conflict", "secret", "done", "failed"} :
                   connects' = [connects EXCEPT ![c] = [connects[c] EXCEPT !.at = at]]
        BY <1>13 DEF PostVariable, PatchVariable, ReadKey, PutSecret, ProvisionFails, ConnectGoes
      <3> QED
        BY <3>1, <3>2, <3>3
    <2>4. connects' \in [DOMAIN route.connects -> Links]
      BY <2>3 DEF Addressed
    <2> QED
      BY <1>0, <1>13, <2>2, <2>4
      DEF Addressed, PostVariable, PatchVariable, ReadKey, PutSecret, ProvisionFails, ElsewhereUnchanged
  <1>14. CASE KeyRotates \/ Reinstalled
    <2>1. github' \in GitHubs
      <3>1. \/ github' = [github EXCEPT !.key = github.key + 1]
            \/ github' = [github EXCEPT !.install = github.install + 1]
        BY <1>14 DEF KeyRotates, Reinstalled
      <3>2. /\ [github EXCEPT !.key = github.key + 1] \in GitHubs
            /\ [github EXCEPT !.install = github.install + 1] \in GitHubs
        <4>1. github.key + 1 \in Nat /\ github.install + 1 \in Nat
          BY <1>a DEF GitHubs
        <4> QED
          BY <1>a, <4>1, Zenon DEF GitHubs
      <3> QED
        BY <3>1, <3>2
    <2> QED
      BY <1>0, <1>14, <2>1 DEF Addressed, KeyRotates, Reinstalled, ElsewhereUnchanged
  <1> QED
    BY <1>1, <1>2, <1>3, <1>4, <1>5, <1>6, <1>7, <1>8, <1>9, <1>10, <1>11, <1>12, <1>13, <1>14
    DEF DispatchNext

\* What no step takes back.
LEMMA Onward ==
  ASSUME Addressed, [DispatchNext]_dispatchVars
  PROVE  /\ route' = route /\ lapses \subseteq lapses' /\ acked \subseteq acked'
         /\ \A k \in DOMAIN posts : /\ k \in DOMAIN posts' /\ posts'[k].event = posts[k].event
                                    /\ MailOf(k)' = MailOf(k)
         /\ \A i \in DOMAIN github.accepted : /\ i \in DOMAIN github'.accepted
                                             /\ github'.accepted[i] = github.accepted[i]
  <1>1. route' = route
    BY DEF DispatchNext, dispatchVars, Post, HangUp, HandleWebhook, SendDispatch, DispatchLost,
           Dispatched204, BridgeRestart, Token, LookupInstallation, CreateToken, MintFails,
           TimeGoesOn, Reinstalled, PostVariable, PatchVariable, ReadKey, PutSecret,
           ProvisionFails, KeyRotates, ElsewhereUnchanged
  <1>2. lapses \subseteq lapses' /\ acked \subseteq acked'
    BY DEF DispatchNext, dispatchVars, Post, HangUp, HandleWebhook, SendDispatch, DispatchLost,
           Dispatched204, BridgeRestart, Token, LookupInstallation, CreateToken, MintFails,
           TimeGoesOn, Reinstalled, PostVariable, PatchVariable, ReadKey, PutSecret,
           ProvisionFails, KeyRotates, ElsewhereUnchanged, Lapse, Acknowledge, BadGateway, Answer502
  <1>3. ASSUME NEW k \in DOMAIN posts
        PROVE  k \in DOMAIN posts' /\ posts'[k].event = posts[k].event
    <2> DEFINE Same == k \in DOMAIN posts' /\ posts'[k].event = posts[k].event
    <2>0. posts \in Seq(POSTs) /\ posts[k] \in POSTs /\ k \in 1 .. Len(posts)
      BY DEF Addressed
    <2>1. ASSUME NEW e, Post(e) PROVE Same
      BY <2>0, <2>1 DEF Post
    <2>2. ASSUME NEW j \in DOMAIN posts, HangUp(j) \/ HandleWebhook(j) \/ SendDispatch(j)
                    \/ DispatchLost(j) \/ Dispatched204(j) \/ LookupInstallation(j) \/ MintFails(j)
          PROVE Same
      <3>1. posts[j] \in POSTs
        BY DEF Addressed
      <3>2. \/ posts' = [posts EXCEPT ![j] = [posts[j] EXCEPT !.gone = TRUE]]
            \/ \E at : posts' = [posts EXCEPT ![j] = [posts[j] EXCEPT !.at = at]]
        BY <2>2 DEF HangUp, HandleWebhook, SendDispatch, DispatchLost, Dispatched204,
                    LookupInstallation, MintFails, PostGoes, Acknowledge, BadGateway, Answer502
      <3> QED
        BY <2>0, <3>1, <3>2 DEF POSTs
    <2>3. ASSUME NEW j \in DOMAIN posts, Token(j) \/ CreateToken(j) PROVE Same
      <3>1. posts[j] \in POSTs
        BY DEF Addressed
      <3>2. posts'[j].event = posts[j].event
        BY <2>3, <3>1 DEF Token, CreateToken, Take, PostGoes, BadGateway, Answer502, POSTs
      <3> QED
        BY <2>0, <2>3, <3>2 DEF Token, CreateToken, Take, PostGoes, BadGateway, Answer502
    <2>4. CASE BridgeRestart
      BY <2>0, <2>4 DEF BridgeRestart, POSTs
    <2>5. CASE \/ TimeGoesOn \/ Reinstalled \/ KeyRotates \/ UNCHANGED dispatchVars
               \/ \E c \in DOMAIN connects : \/ PostVariable(c) \/ PatchVariable(c) \/ ReadKey(c)
                                           \/ PutSecret(c) \/ ProvisionFails(c)
      BY <2>5 DEF dispatchVars, TimeGoesOn, Reinstalled, PostVariable, PatchVariable, ReadKey,
                  PutSecret, ProvisionFails, KeyRotates, ElsewhereUnchanged
    <2> QED
      BY <2>1, <2>2, <2>3, <2>4, <2>5 DEF DispatchNext
  <1>4. \/ github'.accepted = github.accepted
        \/ \E id \in Ids : github'.accepted = Append(github.accepted, id)
    <2>0. github \in GitHubs
      BY DEF Addressed
    <2>1. ASSUME NEW k \in DOMAIN posts, SendDispatch(k)
          PROVE  \/ github'.accepted = github.accepted
                 \/ \E id \in Ids : github'.accepted = Append(github.accepted, id)
      <3>1. posts[k] \in POSTs
        BY DEF Addressed
      <3>2. MailOf(k).id \in Ids
        BY <3>1 DEF POSTs, MailOf, Ids
      <3> QED
        BY <2>0, <2>1, <3>2 DEF SendDispatch, GitHubs
    <2>2. CASE \A k \in DOMAIN posts : ~SendDispatch(k)
      BY <2>0, <2>2 DEF DispatchNext, dispatchVars, Post, HangUp, HandleWebhook, DispatchLost,
           Dispatched204, BridgeRestart, Token, LookupInstallation, CreateToken, MintFails,
           TimeGoesOn, Reinstalled, PostVariable, PatchVariable, ReadKey, PutSecret,
           ProvisionFails, KeyRotates, ElsewhereUnchanged, GitHubs
    <2> QED
      BY <2>1, <2>2
  <1>5. github.accepted \in Seq(Ids)
    BY DEF Addressed, GitHubs
  <1> QED
    BY <1>1, <1>2, <1>3, <1>4, <1>5 DEF MailOf

\* Where the steps of one post leave it; they touch no other.
LEMMA Stages ==
  ASSUME Addressed, NEW j \in DOMAIN posts, NEW k \in DOMAIN posts
  PROVE  LET Goes(from, to) ==
                 /\ DOMAIN posts' = DOMAIN posts /\ (k # j => posts'[k] = posts[k])
                 /\ posts[j].at \in from /\ posts'[j].at \in to
         IN  /\ HangUp(j) => /\ DOMAIN posts' = DOMAIN posts /\ posts'[k].at = posts[k].at
                             /\ (k # j => posts'[k] = posts[k])
             /\ HandleWebhook(j) => Goes({"in"}, {"token", "acked"})
             /\ SendDispatch(j) => Goes({"send"}, {"sent", "failed"})
             /\ DispatchLost(j) => Goes({"sent"}, {"failed"})
             /\ Dispatched204(j) => Goes({"sent"}, {"acked"})
             /\ Token(j) => Goes({"token"}, {"send", "lookup", "create"})
             /\ LookupInstallation(j) => Goes({"lookup"}, {"create"})
             /\ CreateToken(j) => Goes({"create"}, {"send", "lookup", "failed"})
             /\ MintFails(j) => Goes({"lookup", "create"}, {"failed"})
  <1>1. posts[j] \in POSTs /\ posts[k] \in POSTs /\ posts \in Seq(POSTs)
    BY DEF Addressed
  <1>2. ASSUME NEW p, posts' = [posts EXCEPT ![j] = p]
        PROVE  /\ DOMAIN posts' = DOMAIN posts /\ (k # j => posts'[k] = posts[k])
               /\ posts'[j] = p
    BY <1>1, <1>2
  <1>3. \A at : [posts[j] EXCEPT !.at = at].at = at
    BY <1>1 DEF POSTs
  <1>4. ASSUME NEW at, PostGoes(j, at)
        PROVE  /\ DOMAIN posts' = DOMAIN posts /\ (k # j => posts'[k] = posts[k])
               /\ posts'[j].at = at
    BY <1>2, <1>3, <1>4 DEF PostGoes
  <1>5. HangUp(j) => /\ DOMAIN posts' = DOMAIN posts /\ posts'[k].at = posts[k].at
                     /\ (k # j => posts'[k] = posts[k])
    BY <1>1 DEF HangUp, POSTs
  <1>6. ASSUME Token(j)
        PROVE  /\ DOMAIN posts' = DOMAIN posts /\ (k # j => posts'[k] = posts[k])
               /\ posts[j].at = "token" /\ posts'[j].at \in {"send", "lookup", "create"}
    BY <1>1, <1>6 DEF Token, Take, PostAt, POSTs
  <1>7. ASSUME CreateToken(j)
        PROVE  /\ DOMAIN posts' = DOMAIN posts /\ (k # j => posts'[k] = posts[k])
               /\ posts[j].at = "create" /\ posts'[j].at \in {"send", "lookup", "failed"}
    BY <1>1, <1>4, <1>7 DEF CreateToken, Take, PostAt, POSTs, BadGateway, Answer502
  <1> QED
    BY <1>4, <1>5, <1>6, <1>7
    DEF HandleWebhook, SendDispatch, DispatchLost, Dispatched204, LookupInstallation, MintFails,
        Acknowledge, BadGateway, Answer502, PostAt

LEMMA Lasting ==
  ASSUME Addressed, [DispatchNext]_dispatchVars, NEW id
  PROVE  (Accepted(id) => Accepted(id)') /\ (Excused(id) => Excused(id)')
  BY Onward DEF Accepted, Excused, Lapsed

----------------------------------------------------------------------------
LEMMA VouchedStays ==
  ASSUME Addressed, Vouched, [DispatchNext]_dispatchVars
  PROVE  Vouched'
  <1>0. route' = route /\ (\A id : Accepted(id) => Accepted(id)')
    BY Onward, Lasting
  <1>1. ASSUME NEW e \in acked', ForThisBridge(route.mail[e]) PROVE Accepted(route.mail[e].id)'
    <2>1. ASSUME NEW k \in DOMAIN posts, HandleWebhook(k) PROVE Accepted(route.mail[e].id)
      BY <1>1, <2>1 DEF HandleWebhook, Acknowledge, Vouched, Noted, ToSet, MailOf
    <2>2. ASSUME NEW k \in DOMAIN posts, Dispatched204(k) PROVE Accepted(route.mail[e].id)
      BY <1>1, <2>2 DEF Dispatched204, Acknowledge, Vouched, PostAt, MailOf
    <2>3. CASE acked' = acked
      BY <1>0, <1>1, <2>3 DEF Vouched
    <2> QED
      BY <1>0, <2>1, <2>2, <2>3
      DEF DispatchNext, dispatchVars, Post, HangUp, SendDispatch, DispatchLost, BridgeRestart,
          Token, LookupInstallation, CreateToken, MintFails, TimeGoesOn, Reinstalled, PostVariable,
          PatchVariable, ReadKey, PutSecret, ProvisionFails, KeyRotates, ElsewhereUnchanged, BadGateway,
          Answer502
  <1>2. ASSUME NEW i \in DOMAIN seen', NEW id, seen'[i] = id PROVE Accepted(id)'
    <2>1. ASSUME NEW k \in DOMAIN posts, Dispatched204(k) PROVE Accepted(id)
      <3>1. Accepted(MailOf(k).id) /\ seen \in Seq(Ids) /\ MailOf(k).id \in Ids
        <4>1. posts[k] \in POSTs
          BY DEF Addressed
        <4> QED
          BY <2>1, <4>1 DEF Dispatched204, PostAt, Vouched, Addressed, MailOf, Ids, POSTs
      <3> DEFINE longer == IF Noted(MailOf(k).id) THEN seen ELSE Append(seen, MailOf(k).id)
      <3>2. /\ longer \in Seq(Ids)
            /\ \A n \in DOMAIN longer : Accepted(longer[n])
        BY <3>1 DEF Vouched
      <3>3. seen' = IF Len(longer) > MaxSeen THEN Tail(longer) ELSE longer
        BY <2>1 DEF Dispatched204, Added, AddedBounded
      <3>4. MaxSeen \in Nat
        BY DispatchAssumption
      <3> HIDE DEF longer
      <3> QED
        BY <1>2, <3>2, <3>3, <3>4
    <2>2. CASE seen' = seen \/ seen' = << >>
      BY <1>0, <1>2, <2>2 DEF Vouched
    <2> QED
      BY <1>0, <2>1, <2>2
      DEF DispatchNext, dispatchVars, Post, HangUp, HandleWebhook, SendDispatch, DispatchLost,
          BridgeRestart, Token, LookupInstallation, CreateToken, MintFails, TimeGoesOn,
          Reinstalled, PostVariable, PatchVariable, ReadKey, PutSecret, ProvisionFails,
          KeyRotates, ElsewhereUnchanged, BadGateway, Answer502
  <1>3. ASSUME NEW k \in DOMAIN posts', NEW id, posts'[k].at = "sent", (MailOf(k).id)' = id
        PROVE  Accepted(id)'
    <2>0. \A j \in DOMAIN posts : posts[j] \in POSTs
      BY DEF Addressed
    <2>1. ASSUME NEW j \in DOMAIN posts, SendDispatch(j) PROVE Accepted(id)'
      <3> DEFINE Goes == ~posts[j].gone /\ (~route.app \/ Alive(posts[j].token))
      <3>1. CASE k # j \/ ~Goes
        <4>1. k \in DOMAIN posts /\ posts[k].at = "sent"
          <5>1. CASE k # j
            BY <1>3, <2>1, <5>1, Stages
          <5>2. CASE ~Goes
            <6>1. posts' = [posts EXCEPT ![j] = [posts[j] EXCEPT !.at = "failed"]]
              BY <2>1, <5>2 DEF SendDispatch, BadGateway, Answer502, PostGoes
            <6>2. posts'[j].at = "failed" /\ k \in DOMAIN posts
              BY <1>3, <2>0, <6>1 DEF POSTs
            <6> QED
              BY <1>3, <2>1, <6>2, Stages
          <5> QED
            BY <3>1, <5>1, <5>2
        <4> QED
          BY <1>0, <1>3, <4>1, Onward DEF Vouched
      <3>2. CASE k = j /\ Goes
        BY <1>3, <2>0, <2>1, <3>2, Onward DEF SendDispatch, Accepted, Addressed, GitHubs
      <3> QED
        BY <3>1, <3>2
    <2>2. ASSUME k \in DOMAIN posts, posts[k].at = "sent" PROVE Accepted(id)'
      BY <1>0, <1>3, <2>2, Onward DEF Vouched
    <2>3. ASSUME NEW e, Post(e) PROVE k \in DOMAIN posts /\ posts[k].at = "sent"
      BY <1>3, <2>3 DEF Post, Addressed
    <2>4. ASSUME NEW j \in DOMAIN posts,
                 \/ HangUp(j) \/ HandleWebhook(j) \/ DispatchLost(j) \/ Dispatched204(j) \/ Token(j)
                 \/ LookupInstallation(j) \/ CreateToken(j) \/ MintFails(j)
          PROVE k \in DOMAIN posts /\ posts[k].at = "sent"
      <3>1. k \in DOMAIN posts
        BY <1>3, <2>4, Stages
      <3> QED
        BY <1>3, <2>4, <3>1, Stages
    <2>5. CASE BridgeRestart \/ TimeGoesOn \/ Reinstalled \/ KeyRotates \/ UNCHANGED dispatchVars
               \/ \E c \in DOMAIN connects : \/ PostVariable(c) \/ PatchVariable(c) \/ ReadKey(c)
                                           \/ PutSecret(c) \/ ProvisionFails(c)
      BY <1>3, <2>0, <2>2, <2>5
      DEF BridgeRestart, dispatchVars, TimeGoesOn, Reinstalled, PostVariable, PatchVariable, ReadKey,
          PutSecret, ProvisionFails, KeyRotates, ElsewhereUnchanged, POSTs
    <2> QED
      BY <2>1, <2>2, <2>3, <2>4, <2>5 DEF DispatchNext
  <1> QED
    BY <1>0, <1>1, <1>2, <1>3 DEF Vouched

----------------------------------------------------------------------------
\* A step that tells nothing new about the event id.
LEMMA OnceAsBefore ==
  ASSUME Addressed, Once, [DispatchNext]_dispatchVars, NEW id \in Ids, ~Excused(id)',
         \A i \in DOMAIN github'.accepted :
             github'.accepted[i] = id => i \in DOMAIN github.accepted /\ github.accepted[i] = id,
         Noted(id) => Noted(id)',
         \A k \in DOMAIN posts' : Carries(k, id)' => k \in DOMAIN posts /\ Carries(k, id),
         \A k \in DOMAIN posts : Brings(k, id) => Brings(k, id)'
  PROVE  /\ \A i, j \in DOMAIN github'.accepted :
                github'.accepted[i] = id /\ github'.accepted[j] = id => i = j
         /\ \A j, k \in DOMAIN posts' : Carries(j, id)' /\ Carries(k, id)' => j = k
         /\ Accepted(id)' => /\ \A k \in DOMAIN posts' : Carries(k, id)' => Brings(k, id)'
                             /\ Noted(id)' \/ \E k \in DOMAIN posts' : Brings(k, id)'
  <1>1. ~Excused(id) /\ (Accepted(id)' => Accepted(id))
    BY Lasting DEF Accepted
  <1>2. \A k \in DOMAIN posts : k \in DOMAIN posts'
    BY Onward
  <1> QED
    BY <1>1, <1>2 DEF Once

LEMMA OnceStays ==
  ASSUME Addressed, Once, Vouched, [DispatchNext]_dispatchVars
  PROVE  Once'
  <1>0. route' = route /\ Ids' = Ids
    BY Onward DEF Ids
  <1> DEFINE Holds(id) ==
        /\ \A i, j \in DOMAIN github'.accepted :
               github'.accepted[i] = id /\ github'.accepted[j] = id => i = j
        /\ \A j, k \in DOMAIN posts' : Carries(j, id)' /\ Carries(k, id)' => j = k
        /\ Accepted(id)' => /\ \A k \in DOMAIN posts' : Carries(k, id)' => Brings(k, id)'
                            /\ Noted(id)' \/ \E k \in DOMAIN posts' : Brings(k, id)'
  <1> SUFFICES ASSUME NEW id \in Ids, ~Excused(id)'
      PROVE  Holds(id)
    BY <1>0 DEF Once
  <1>1. /\ ~Excused(id)
        /\ \A j, k \in DOMAIN posts : Carries(j, id) /\ Carries(k, id) => j = k
        /\ Accepted(id) => /\ \A k \in DOMAIN posts : Carries(k, id) => Brings(k, id)
                           /\ Noted(id) \/ \E k \in DOMAIN posts : Brings(k, id)
    BY Lasting DEF Once
  <1>2. /\ posts \in Seq(POSTs) /\ (\A k \in DOMAIN posts : posts[k] \in POSTs)
        /\ github \in GitHubs /\ github.accepted \in Seq(Ids)
    BY DEF Addressed, GitHubs
  <1>3. \A k \in DOMAIN posts : k \in DOMAIN posts' /\ MailOf(k)' = MailOf(k)
    BY Onward
  \* One post moves and stays on the way, or stays off it.
  <1>4. ASSUME NEW j \in DOMAIN posts, github'.accepted = github.accepted, seen' = seen,
               DOMAIN posts' = DOMAIN posts,
               \A k \in DOMAIN posts : k # j => posts'[k] = posts[k],
               posts'[j].at \in InFlight => posts[j].at \in InFlight,
               posts[j].at = "sent" => posts'[j].at = "sent" \/ MailOf(j).id # id
        PROVE  Holds(id)
    <2>1. \A k \in DOMAIN posts' : Carries(k, id)' => k \in DOMAIN posts /\ Carries(k, id)
      BY <1>3, <1>4 DEF Carries
    <2>2. \A k \in DOMAIN posts : Brings(k, id) => Brings(k, id)'
      BY <1>3, <1>4 DEF Brings
    <2>3. Noted(id) => Noted(id)'
      BY <1>4 DEF Noted
    <2> QED
      BY <1>4, <2>1, <2>2, <2>3, OnceAsBefore
  <1> HIDE DEF Holds
  <1>5. ASSUME NEW e, Post(e) PROVE Holds(id)
    <2>1. \A k \in DOMAIN posts' : Carries(k, id)' => k \in DOMAIN posts /\ Carries(k, id)
      BY <1>2, <1>3, <1>5 DEF Carries, Post, InFlight
    <2>2. \A k \in DOMAIN posts : Brings(k, id) => Brings(k, id)'
      BY <1>2, <1>3, <1>5 DEF Brings, Post
    <2> QED
      BY <1>5, <2>1, <2>2, OnceAsBefore DEF Post, Noted, Holds
  <1>6. ASSUME NEW j \in DOMAIN posts,
               HangUp(j) \/ Token(j) \/ LookupInstallation(j) \/ CreateToken(j) \/ MintFails(j)
        PROVE Holds(id)
    <2>1. github' = github /\ seen' = seen
      BY <1>6 DEF HangUp, Token, LookupInstallation, CreateToken, MintFails
    <2>2. /\ DOMAIN posts' = DOMAIN posts
          /\ \A k \in DOMAIN posts : k # j => posts'[k] = posts[k]
          /\ posts'[j].at \in InFlight => posts[j].at \in InFlight
          /\ posts[j].at = "sent" => posts'[j].at = "sent"
      BY <1>6, Stages DEF InFlight
    <2> QED
      BY <1>4, <2>1, <2>2
  <1>7. ASSUME NEW j \in DOMAIN posts, HandleWebhook(j) PROVE Holds(id)
    <2>1. github' = github /\ seen' = seen
      BY <1>7 DEF HandleWebhook
    <2>2. /\ DOMAIN posts' = DOMAIN posts /\ posts[j].at = "in"
          /\ \A k \in DOMAIN posts : k # j => posts'[k] = posts[k]
          /\ posts'[j].at \in {"token", "acked"}
      BY <1>7, Stages
    <2>3. CASE MailOf(j).id # id \/ posts'[j].at = "acked"
      <3>1. \A k \in DOMAIN posts' : Carries(k, id)' => k \in DOMAIN posts /\ Carries(k, id)
        BY <1>3, <2>2, <2>3 DEF Carries, InFlight
      <3>2. \A k \in DOMAIN posts : Brings(k, id) => Brings(k, id)'
        BY <1>3, <2>2 DEF Brings
      <3> QED
        BY <2>1, <3>1, <3>2, OnceAsBefore DEF Noted, Holds
    <2>4. CASE MailOf(j).id = id /\ posts'[j].at = "token"
      <3>1. /\ ~Noted(id)
            /\ lapses' = lapses \/ lapses' = lapses \cup {<<"overlap", id>>}
            /\ (\E k \in DOMAIN posts \ {j} : /\ Served(k) /\ posts[k].at # "in"
                                             /\ MailOf(k).id = id) => <<"overlap", id>> \in lapses'
        <4>1. posts'[j].at # "acked"
          BY <2>4
        <4>2. ~(~ForThisBridge(MailOf(j)) \/ Noted(MailOf(j).id))
          <5>1. SUFFICES ASSUME PostGoes(j, "acked") PROVE FALSE
            BY <1>7 DEF HandleWebhook, Acknowledge
          <5> QED
            BY <1>2, <4>1, <5>1 DEF PostGoes, POSTs
        <4> QED
          BY <1>7, <2>4, <4>2 DEF HandleWebhook, Lapse
      <3>2. \A k \in DOMAIN posts : k # j => ~Carries(k, id)
        BY <3>1 DEF Carries, Served, InFlight, Over, Excused, Lapsed
      <3>3. ~Carries(j, id) /\ ~Brings(j, id)
        BY <2>2 DEF Carries, Brings, InFlight
      <3>4. ~Accepted(id)
        BY <1>1, <3>1, <3>2, <3>3 DEF Carries, Brings, InFlight
      <3>5. ~Accepted(id)' /\ \A k \in DOMAIN posts' : Carries(k, id)' => k = j
        BY <1>3, <2>1, <2>2, <3>2, <3>4 DEF Accepted, Carries
      <3> QED
        BY <3>5 DEF Holds, Accepted
    <2> QED
      BY <2>2, <2>3, <2>4
  <1>8. ASSUME NEW j \in DOMAIN posts, SendDispatch(j) PROVE Holds(id)
    <2> DEFINE Goes == ~posts[j].gone /\ (~route.app \/ Alive(posts[j].token))
    <2>1. /\ DOMAIN posts' = DOMAIN posts /\ posts[j].at = "send"
          /\ \A k \in DOMAIN posts : k # j => posts'[k] = posts[k]
          /\ posts'[j].at \in {"sent", "failed"} /\ seen' = seen
      BY <1>8, Stages DEF SendDispatch
    <2>2. CASE ~Goes
      BY <1>4, <1>8, <2>1, <2>2 DEF SendDispatch, InFlight
    <2>3. CASE Goes
      <3> DEFINE own == MailOf(j).id
      <3>1. github'.accepted = Append(github.accepted, own)
        BY <1>2, <1>8, <2>3 DEF SendDispatch, GitHubs
      <3>2. posts'[j].at = "sent"
        BY <1>2, <1>8, <2>3 DEF SendDispatch, PostGoes, POSTs
      <3>3. CASE own # id
        <4>1. \A i \in DOMAIN github'.accepted :
                  github'.accepted[i] = id => i \in DOMAIN github.accepted /\ github.accepted[i] = id
          BY <1>2, <3>1, <3>3
        <4>2. \A k \in DOMAIN posts' : Carries(k, id)' => k \in DOMAIN posts /\ Carries(k, id)
          BY <1>3, <2>1, <3>3 DEF Carries
        <4>3. \A k \in DOMAIN posts : Brings(k, id) => Brings(k, id)'
          BY <1>3, <2>1, <3>3 DEF Brings
        <4> QED
          BY <2>1, <4>1, <4>2, <4>3, OnceAsBefore DEF Noted, Holds
      <3>4. CASE own = id
        <4>1. Carries(j, id) /\ ~Brings(j, id)
          BY <2>1, <3>4 DEF Carries, Brings, InFlight
        <4>2. ~Accepted(id)
          BY <1>1, <4>1
        <4>3. \A i \in DOMAIN github'.accepted :
                  github'.accepted[i] = id => i = Len(github.accepted) + 1
          BY <1>2, <3>1, <4>2 DEF Accepted
        <4>4. \A k \in DOMAIN posts' : Carries(k, id)' => k = j
          BY <1>1, <1>3, <2>1, <4>1 DEF Carries
        <4>5. Brings(j, id)' /\ j \in DOMAIN posts'
          BY <1>3, <3>2, <3>4 DEF Brings
        <4> QED
          BY <4>3, <4>4, <4>5 DEF Holds
      <3> QED
        BY <3>3, <3>4
    <2> QED
      BY <2>2, <2>3
  <1>9. ASSUME NEW j \in DOMAIN posts, DispatchLost(j) PROVE Holds(id)
    <2>1. MailOf(j).id # id
      BY <1>9 DEF DispatchLost, Lapse, Excused, Lapsed
    <2>2. /\ DOMAIN posts' = DOMAIN posts /\ posts'[j].at = "failed"
          /\ \A k \in DOMAIN posts : k # j => posts'[k] = posts[k]
      BY <1>9, Stages
    <2> QED
      BY <1>4, <1>9, <2>1, <2>2 DEF DispatchLost, InFlight
  <1>10. ASSUME NEW j \in DOMAIN posts, Dispatched204(j) PROVE Holds(id)
    <2>1. /\ DOMAIN posts' = DOMAIN posts /\ posts'[j].at = "acked" /\ posts[j].at = "sent"
          /\ \A k \in DOMAIN posts : k # j => posts'[k] = posts[k]
      BY <1>10, Stages
    <2>2. github' = github
      BY <1>10 DEF Dispatched204
    <2>3. Noted(id) => Noted(id)'
      BY <1>10 DEF Dispatched204, Excused, Lapsed, Noted
    <2>4. \A k \in DOMAIN posts' : Carries(k, id)' => k \in DOMAIN posts /\ Carries(k, id) /\ k # j
      BY <1>3, <2>1 DEF Carries, InFlight
    <2>5. CASE MailOf(j).id # id
      <3>1. \A k \in DOMAIN posts : Brings(k, id) => Brings(k, id)'
        BY <1>3, <2>1, <2>5 DEF Brings
      <3> QED
        BY <2>2, <2>3, <2>4, <3>1, OnceAsBefore DEF Holds
    <2>6. CASE MailOf(j).id = id
      <3>1. Noted(id)'
        <4>1. CASE Noted(id)
          BY <2>3, <4>1
        <4>2. CASE ~Noted(id)
          <5>1. seen' = IF Len(Append(seen, id)) > MaxSeen THEN Tail(Append(seen, id))
                        ELSE Append(seen, id)
            BY <1>10, <2>6, <4>2 DEF Dispatched204, Added, AddedBounded
          <5>2. seen \in Seq(Ids) /\ MaxSeen \in Nat /\ MaxSeen > 0
            BY DispatchAssumption DEF Addressed
          <5>3. /\ Len(seen) + 1 \in DOMAIN Append(seen, id)
                /\ Append(seen, id)[Len(seen) + 1] = id
            BY <5>2
          <5>4. Len(seen) + 1 > MaxSeen => /\ Len(seen) \in DOMAIN Tail(Append(seen, id))
                                           /\ Tail(Append(seen, id))[Len(seen)] = id
            BY <5>2
          <5>5. \E n \in DOMAIN seen' : seen'[n] = id
            <6>1. CASE Len(seen) + 1 > MaxSeen
              <7>1. seen' = Tail(Append(seen, id))
                BY <5>1, <5>2, <6>1
              <7> QED
                BY <5>4, <6>1, <7>1
            <6>2. CASE ~(Len(seen) + 1 > MaxSeen)
              <7>1. seen' = Append(seen, id)
                BY <5>1, <5>2, <6>2
              <7> QED
                BY <5>3, <7>1
            <6> QED
              BY <6>1, <6>2
          <5> QED
            BY <5>5 DEF Noted, ToSet
        <4> QED
          BY <4>1, <4>2
      <3>2. Carries(j, id) /\ Brings(j, id)
        BY <2>1, <2>6 DEF Carries, Brings, InFlight
      <3>3. \A k \in DOMAIN posts' : ~Carries(k, id)'
        BY <1>1, <2>4, <3>2
      <3> QED
        BY <1>1, <2>2, <3>1, <3>3, OnceAsBefore DEF Holds, Once
    <2> QED
      BY <2>5, <2>6
  <1>11. CASE BridgeRestart
    <2>1. ~Accepted(id)
      BY <1>11 DEF BridgeRestart, Excused, Lapsed, Accepted, ToSet
    <2>2. ~Accepted(id)'
      BY <1>11, <2>1 DEF BridgeRestart, Accepted
    <2>3. ASSUME NEW k \in DOMAIN posts' PROVE ~Carries(k, id)'
      BY <1>2, <1>11, <2>3 DEF BridgeRestart, Carries, InFlight, Served, POSTs, Over
    <2> QED
      BY <2>2, <2>3 DEF Holds, Accepted
  <1>12. CASE \/ TimeGoesOn \/ Reinstalled \/ KeyRotates \/ UNCHANGED dispatchVars
              \/ \E c \in DOMAIN connects : \/ PostVariable(c) \/ PatchVariable(c) \/ ReadKey(c)
                                          \/ PutSecret(c) \/ ProvisionFails(c)
    <2>1. posts' = posts /\ seen' = seen
      BY <1>12 DEF dispatchVars, TimeGoesOn, Reinstalled, PostVariable, PatchVariable, ReadKey,
                   PutSecret, ProvisionFails, KeyRotates, ElsewhereUnchanged
    <2>2. github'.accepted = github.accepted
      BY <1>2, <1>12 DEF dispatchVars, TimeGoesOn, Reinstalled, PostVariable, PatchVariable, ReadKey,
                   PutSecret, ProvisionFails, KeyRotates, GitHubs
    <2>3. \A k \in DOMAIN posts : Carries(k, id)' = Carries(k, id) /\ Brings(k, id)' = Brings(k, id)
      BY <1>3, <2>1 DEF Carries, Brings
    <2> QED
      BY <2>1, <2>2, <2>3, OnceAsBefore DEF Noted, Holds
  <1> QED
    BY <1>5, <1>6, <1>7, <1>8, <1>9, <1>10, <1>11, <1>12 DEF DispatchNext

----------------------------------------------------------------------------
LEMMA HandingStays ==
  ASSUME Addressed, Handing, [DispatchNext]_dispatchVars
  PROVE  Handing'
  <1>0. route' = route /\ TokenLife \in Nat /\ RefreshMargin \in Nat /\ RefreshMargin < TokenLife
    BY Onward, DispatchAssumption
  <1>1. /\ posts \in Seq(POSTs) /\ (\A k \in DOMAIN posts : posts[k] \in POSTs) /\ tick \in Nat
        /\ app.token \in Handed
    BY DEF Addressed
  <1> DEFINE InTime(k) == posts[k].at = "send" /\ route.app =>
                              posts[k].taken + RefreshMargin < posts[k].token.born + TokenLife
  <1>2. \A k \in DOMAIN posts : InTime(k)
    BY DEF Handing
  <1>3. ASSUME NEW k \in DOMAIN posts' PROVE InTime(k)'
    <2>1. CASE k \in DOMAIN posts /\ posts'[k] = posts[k]
      BY <1>0, <1>2, <2>1
    <2>2. CASE posts'[k].at # "send"
      BY <2>2
    <2>3. ASSUME NEW e, Post(e) PROVE InTime(k)'
      BY <1>1, <2>1, <2>2, <2>3 DEF Post
    <2>4. ASSUME NEW j \in DOMAIN posts, HangUp(j) PROVE InTime(k)'
      <3>1. /\ k \in DOMAIN posts /\ posts'[k].at = posts[k].at /\ posts'[k].taken = posts[k].taken
            /\ posts'[k].token = posts[k].token
        BY <1>1, <2>4 DEF HangUp, POSTs
      <3> QED
        BY <1>0, <1>2, <3>1
    <2>5. ASSUME NEW j \in DOMAIN posts,
                 \/ HandleWebhook(j) \/ SendDispatch(j) \/ DispatchLost(j) \/ Dispatched204(j)
                 \/ LookupInstallation(j) \/ MintFails(j)
          PROVE InTime(k)'
      BY <2>1, <2>2, <2>5, Stages
    <2>6. ASSUME NEW j \in DOMAIN posts, Token(j) PROVE InTime(k)'
      <3>1. CASE k # j
        BY <2>1, <2>6, <3>1, Stages
      <3>2. CASE k = j /\ route.app /\ ~Fresh(app.token)
        <4>1. posts' = [posts EXCEPT ![j].at = IF app.install = 0 THEN "lookup" ELSE "create",
                                     ![j].cached = app.install # 0]
          BY <2>6, <3>2 DEF Token
        <4>2. posts'[j].at = IF app.install = 0 THEN "lookup" ELSE "create"
          BY <1>1, <4>1 DEF POSTs
        <4> QED
          BY <2>2, <3>2, <4>2
      <3>3. CASE k = j /\ ~route.app
        BY <1>0, <3>3
      <3>4. CASE k = j /\ Fresh(app.token)
        <4>1. posts' = [posts EXCEPT ![j] = [posts[j] EXCEPT !.at = "send", !.token = app.token,
                                                             !.taken = tick]]
          BY <2>6, <3>4 DEF Token, Take
        <4>2. posts'[k].token = app.token /\ posts'[k].taken = tick
          BY <1>1, <3>4, <4>1 DEF POSTs
        <4>3. tick + RefreshMargin < app.token.born + TokenLife
          BY <3>4 DEF Fresh, WithMargin
        <4> QED
          BY <4>2, <4>3
      <3> QED
        BY <3>1, <3>2, <3>3, <3>4
    <2>7. ASSUME NEW j \in DOMAIN posts, CreateToken(j) PROVE InTime(k)'
      <3>1. CASE k # j
        BY <2>1, <2>7, <3>1, Stages
      <3>2. CASE k = j /\ app.install # github.install
        BY <1>1, <2>2, <2>7, <3>2 DEF CreateToken, POSTs, BadGateway, Answer502, PostGoes
      <3>3. CASE k = j /\ app.install = github.install
        <4> DEFINE t == [born |-> tick, install |-> app.install]
        <4>1. posts' = [posts EXCEPT ![j] = [posts[j] EXCEPT !.at = "send", !.token = t,
                                                             !.taken = tick]]
          BY <2>7, <3>3 DEF CreateToken, Take
        <4>2. posts'[k].token = t /\ posts'[k].taken = tick
          BY <1>1, <3>3, <4>1 DEF POSTs
        <4> QED
          BY <1>0, <1>1, <4>2
      <3> QED
        BY <3>1, <3>2, <3>3
    <2>8. CASE \/ BridgeRestart \/ TimeGoesOn \/ Reinstalled \/ KeyRotates \/ UNCHANGED dispatchVars
               \/ \E c \in DOMAIN connects : \/ PostVariable(c) \/ PatchVariable(c) \/ ReadKey(c)
                                           \/ PutSecret(c) \/ ProvisionFails(c)
      BY <1>1, <2>1, <2>2, <2>8
      DEF BridgeRestart, dispatchVars, TimeGoesOn, Reinstalled, PostVariable, PatchVariable, ReadKey,
          PutSecret, ProvisionFails, KeyRotates, ElsewhereUnchanged, POSTs
    <2> QED
      BY <2>3, <2>4, <2>5, <2>6, <2>7, <2>8 DEF DispatchNext
  <1>4. <<"refused", "stale">> \notin lapses'
    <2>0. <<"refused", "stale">> \notin lapses
      BY DEF Handing, TokensHold, Lapsed
    <2>1. ASSUME NEW k \in DOMAIN posts, SendDispatch(k), <<"refused", "stale">> \in lapses'
          PROVE FALSE
      <3>1. /\ ~posts[k].gone /\ route.app /\ ~Alive(posts[k].token) /\ Refusal(k) = "stale"
            /\ posts[k].at = "send"
        BY <2>0, <2>1, <1>0 DEF SendDispatch, Lapse, PostAt
      <3>2. posts[k].token.install = github.install /\ ~(tick > posts[k].taken + RefreshMargin)
        BY <3>1 DEF Refusal
      <3>3. posts[k].token \in Handed /\ posts[k].taken \in Nat
        BY <1>1 DEF POSTs
      <3>4. posts[k].taken + RefreshMargin < posts[k].token.born + TokenLife
        BY <1>2, <3>1
      <3> QED
        BY <1>0, <1>1, <3>1, <3>2, <3>3, <3>4 DEF Alive, Handed
    <2>2. \A why, x : why # "refused" => <<why, x>> # <<"refused", "stale">>
      OBVIOUS
    <2>3. CASE \E k \in DOMAIN posts : HandleWebhook(k) \/ DispatchLost(k)
      BY <2>0, <2>2, <2>3 DEF HandleWebhook, DispatchLost, Lapse
    <2>4. CASE BridgeRestart \/ \E k \in DOMAIN posts : Dispatched204(k)
      BY <2>0, <2>2, <2>4 DEF BridgeRestart, Dispatched204
    <2>5. CASE \E c \in DOMAIN connects : \/ PostVariable(c) \/ PatchVariable(c) \/ ReadKey(c)
                                           \/ PutSecret(c) \/ ProvisionFails(c)
      <3>1. PICK c \in DOMAIN connects : \/ PostVariable(c) \/ PatchVariable(c) \/ ReadKey(c)
                                         \/ PutSecret(c) \/ ProvisionFails(c)
        BY <2>5
      <3>2. \/ lapses' = lapses
            \/ \E why \in {"connects overlap", "half provisioned", "no token"} :
                   lapses' = lapses \cup {<<why, c>>}
        BY <3>1 DEF PostVariable, PatchVariable, ReadKey, PutSecret, ProvisionFails, Lapse
      <3> QED
        BY <2>0, <2>2, <3>2
    <2>6. ASSUME NEW k \in DOMAIN posts, \/ HangUp(k) \/ Token(k) \/ MintFails(k)
                                        \/ LookupInstallation(k) \/ CreateToken(k)
          PROVE  <<"refused", "stale">> \notin lapses'
      BY <2>0, <2>6 DEF HangUp, Token, LookupInstallation, CreateToken, MintFails
    <2>7. CASE \/ UNCHANGED dispatchVars \/ TimeGoesOn \/ Reinstalled \/ KeyRotates
               \/ \E e \in DOMAIN route.mail : Post(e)
      BY <2>0, <2>7 DEF dispatchVars, Post, TimeGoesOn, Reinstalled, KeyRotates
    <2> QED
      BY <2>1, <2>3, <2>4, <2>5, <2>6, <2>7 DEF DispatchNext
  <1> QED
    BY <1>3, <1>4 DEF Handing, TokensHold, Lapsed

LEMMA ConnectingStays ==
  ASSUME Addressed, Connecting, [DispatchNext]_dispatchVars
  PROVE  Connecting'
  <1>0. /\ github \in GitHubs /\ connects \in [DOMAIN route.connects -> Links] /\ route \in Routes
        /\ lapses \subseteq lapses' /\ "" \notin DOMAIN connects
    BY Onward, DispatchAssumption DEF Addressed
  <1> DEFINE Whole ==
        /\ \A c, d \in DOMAIN connects : Begun(c) /\ Begun(d) => c = d
        /\ \A c \in DOMAIN connects :
               connects[c].at \in {"secret", "sealed"} => github.variable = c
        /\ (\A c \in DOMAIN connects : ~Begun(c)) => github.variable = github.secret
  <1>1. ASSUME NEW c \in DOMAIN connects, \/ PostVariable(c) \/ PatchVariable(c) \/ ReadKey(c)
                                          \/ PutSecret(c) \/ ProvisionFails(c)
        PROVE  Connecting'
    <2>0. DOMAIN connects' = DOMAIN connects
      BY <1>1 DEF PostVariable, PatchVariable, ReadKey, PutSecret, ProvisionFails, ConnectGoes
    <2> SUFFICES ASSUME ~Muddled'
        PROVE  Whole'
      BY DEF Connecting
    <2>1. Whole
      BY <1>0, <2>0 DEF Connecting, Muddled, Lapsed
    <2>2. /\ connects[c] \in Links
          /\ \A why \in {"connects overlap", "half provisioned", "no token"} :
                 <<why, c>> \notin lapses'
      BY <1>0, <2>0 DEF Muddled, Lapsed
    <2>3. \A d \in DOMAIN connects : d # c => connects'[d] = connects[d] /\ Begun(d)' = Begun(d)
      BY <1>1 DEF PostVariable, PatchVariable, ReadKey, PutSecret, ProvisionFails, ConnectGoes, Begun
    <2>a. \A at : ConnectGoes(c, at) => connects'[c].at = at
      BY <1>0, <2>2 DEF ConnectGoes, Links
    <2>4. CASE PostVariable(c)
      <3>1. \A d \in DOMAIN connects : ~Begun(d)
        BY <2>2, <2>4 DEF PostVariable, Lapse
      <3>2. \/ connects'[c].at = "secret" /\ github'.variable = c
            \/ connects'[c].at = "conflict"
        BY <1>0, <2>4, <2>a DEF PostVariable, GitHubs
      <3>3. Begun(c)'
        BY <3>2 DEF Begun
      <3> QED
        BY <2>0, <2>3, <3>1, <3>2, <3>3 DEF Begun
    <2>5. CASE PatchVariable(c)
      <3>1. connects'[c].at = "secret" /\ github'.variable = c /\ Begun(c)
        BY <1>0, <2>2, <2>5
        DEF PatchVariable, ConnectGoes, Links, GitHubs, PatchedVariable, SetVariable, InConnect, Begun
      <3>2. Begun(c)'
        BY <3>1 DEF Begun
      <3> QED
        BY <2>0, <2>1, <2>3, <3>1, <3>2 DEF Begun
    <2>6. CASE ReadKey(c)
      <3>1. connects'[c].at = "sealed" /\ connects[c].at = "secret" /\ github' = github
        <4>1. connects[c].at = "secret" /\ github' = github /\ c \in DOMAIN connects
          BY <2>6 DEF ReadKey, InConnect
        <4>2. CASE connects' = [connects EXCEPT ![c] = [at |-> "sealed", key |-> github.key]]
          <5>1. connects'[c] = [at |-> "sealed", key |-> github.key]
            BY <4>1, <4>2
          <5> QED
            BY <4>1, <5>1
        <4>3. CASE lapses' = lapses \cup {<<"no token", c>>}
          BY <2>2, <4>3
        <4> QED
          BY <2>6, <4>2, <4>3 DEF ReadKey, Lapse
      <3>2. Begun(c)' /\ Begun(c)
        BY <3>1 DEF Begun
      <3> QED
        BY <2>0, <2>1, <2>3, <3>1, <3>2
    <2>7. CASE PutSecret(c)
      <3>1. /\ connects'[c].at = "done" /\ connects[c].at = "sealed"
            /\ github'.variable = github.variable /\ github'.secret = c
        BY <1>0, <2>2, <2>7, <2>a DEF PutSecret, InConnect, Lapse, GitHubs
      <3>2. ~Begun(c)' /\ Begun(c)
        BY <3>1 DEF Begun
      <3> QED
        BY <2>0, <2>1, <2>3, <3>1, <3>2 DEF Begun
    <2>8. CASE ProvisionFails(c)
      BY <2>2, <2>8 DEF ProvisionFails, Lapse
    <2> QED
      BY <1>1, <2>4, <2>5, <2>6, <2>7, <2>8
  <1>2. ASSUME connects' = connects, github'.variable = github.variable,
               github'.secret = github.secret
        PROVE  Connecting'
    <2>1. Muddled => Muddled'
      BY <1>0, <1>2 DEF Muddled, Lapsed
    <2> QED
      BY <1>2, <2>1 DEF Connecting, Begun
  <1>3. CASE \A c \in DOMAIN connects : ~(\/ PostVariable(c) \/ PatchVariable(c) \/ ReadKey(c)
                                         \/ PutSecret(c) \/ ProvisionFails(c))
    <2>1. connects' = connects
      BY <1>3
      DEF DispatchNext, dispatchVars, Post, HangUp, HandleWebhook, SendDispatch, DispatchLost,
          Dispatched204, BridgeRestart, Token, LookupInstallation, CreateToken, MintFails,
          TimeGoesOn, Reinstalled, KeyRotates
    <2>2. github'.variable = github.variable /\ github'.secret = github.secret
      BY <1>0, <1>3
      DEF DispatchNext, dispatchVars, Post, HangUp, HandleWebhook, SendDispatch, DispatchLost,
          Dispatched204, BridgeRestart, Token, LookupInstallation, CreateToken, MintFails,
          TimeGoesOn, Reinstalled, KeyRotates, GitHubs, BadGateway, Answer502
    <2> QED
      BY <1>2, <2>1, <2>2
  <1> QED
    BY <1>1, <1>3

\* Acknowledged means dispatched, once but for the named excuses, with tokens
\* that hold and values that belong together (handleWebhook, seenSet, Token and
\* mint, provisionCI), for any events, posts, connects and mishaps.
THEOREM DispatchIsSound == DispatchSpec => []DispatchSound
  <1>1. DispatchInit => DispatchIInv
    <2> SUFFICES ASSUME DispatchInit
        PROVE  DispatchIInv
      OBVIOUS
    <2>1. Addressed
      BY AddressedAtFirst
    <2>2. Vouched /\ Once /\ Handing
      <3>1. /\ posts = << >> /\ acked = {} /\ seen = << >> /\ lapses = {}
            /\ github.accepted = << >>
        BY DEF DispatchInit
      <3>2. DOMAIN << >> = {}
        OBVIOUS
      <3> QED
        BY <3>1, <3>2 DEF Vouched, Once, Handing, Accepted, TokensHold, Lapsed
    <2>3. Connecting
      BY DEF DispatchInit, Connecting, Begun
    <2> QED
      BY <2>1, <2>2, <2>3 DEF DispatchIInv
  <1>2. DispatchIInv /\ [DispatchNext]_dispatchVars => DispatchIInv'
    BY AddressedStays, VouchedStays, OnceStays, HandingStays, ConnectingStays DEF DispatchIInv
  <1>3. DispatchIInv => DispatchSound
    BY SoundDispatch DEF DispatchIInv
  <1> QED
    BY <1>1, <1>2, <1>3, PTL DEF DispatchSpec

----------------------------------------------------------------------------
(* The executor's job.                                                     *)

\* The whole matrix of an answer, before a check of it has run.
AllRuns(a) ==
    {CheckRunOf(c) : c \in
        ScopedChecks(a) \cup (IF job.postLand THEN UNION {PostLandChecks(p) : p \in Members} ELSE {})}
FullMatrix(a) == Deduplicated(AllRuns(a))

\* What the verbs behind the present one have made.
AfterDeps ==
    /\ step = "deps" <=> audit = "none"
    /\ (audit = "clean" /\ gaps = {}) =>
           \A e \in job.uses.lib \cup job.uses.test : Declared(e)

Narrows == /\ answer = Narrowed(GraphTests)
           /\ job.escalates = "refinable" /\ job.engine /\ ~job.orphans

AfterChecks ==
    IF step \in {"deps", "checks"} THEN matrix = {} /\ reported = {}
    ELSE /\ answer = Floor \/ Narrows
         /\ matrix \subseteq FullMatrix(answer)
         /\ step = "images" => matrix = FullMatrix(answer)
         /\ \A name \in reported : \E r \in FullMatrix(answer), vouched \in BOOLEAN :
                r.name = name /\ ImpactedTargets(r.command, vouched) \subseteq passedTests

AfterImages ==
    /\ step \in {"binaries", "run"} => built = ImageBuilds(Floor)
    /\ step = "run" => published = BinaryReleases(Floor)

ExecutorIInv ==
    /\ job \in CIJobs /\ step \in {"deps", "checks", "images", "binaries", "run"}
    /\ AfterDeps /\ AfterChecks /\ AfterImages

LEMMA UpToGrows ==
  ASSUME NEW s, NEW t, s \subseteq t, NEW e, NEW f, e \subseteq f
  PROVE  UpTo(s, e) \subseteq UpTo(t, f)
  BY DEF UpTo

LEMMA UpToIsClosed ==
  ASSUME NEW s, NEW es, NEW e \in es, e[1] \in Members, e[2] \in UpTo(s, es)
  PROVE  e[1] \in UpTo(s, es)
  BY DEF UpTo

LEMMA UpToHolds ==
  ASSUME NEW s, s \subseteq Members, NEW es
  PROVE  s \subseteq UpTo(s, es) /\ UpTo(s, es) \subseteq Members
  BY DEF UpTo

\* The types of the job.
Typed ==
    /\ job.uses.lib \cup job.uses.test \cup job.declares.dep \cup job.declares.test
           \cup job.declares.consumes \subseteq Members \X Members
    /\ job.touched \cup job.moved \cup job.absent \cup DOMAIN job.owns \subseteq Members
    /\ job.escalates \in {"none", "refinable", "blunt"}
    /\ \A p \in Members : \A c \in job.checks[p] : c.when \in {"affected", "direct", "post_land"}

LEMMA JobTyped == job \in CIJobs => Typed
  <1> SUFFICES ASSUME job \in CIJobs
      PROVE  Typed
    OBVIOUS
  <1>1. /\ job.uses \in [lib : SUBSET (Members \X Members), test : SUBSET (Members \X Members)]
        /\ \A kind \in {"dep", "test", "consumes"} : job.declares[kind] \subseteq Members \X Members
        /\ job.touched \cup job.moved \cup job.absent \cup DOMAIN job.owns \subseteq Members
        /\ job.escalates \in {"none", "refinable", "blunt"}
        /\ \A p \in Members : \A c \in job.checks[p] : c.when \in {"affected", "direct", "post_land"}
    BY ExecutorAssumption
  <1>2. job.declares.dep = job.declares["dep"] /\ job.declares.test = job.declares["test"]
        /\ job.declares.consumes = job.declares["consumes"]
    OBVIOUS
  <1> QED
    BY <1>1, <1>2 DEF Typed

\* What the build graph sees is in the floor, where each edge used is declared
\* and followed.
LEMMA FloorHoldsGraph ==
  ASSUME Typed, FaintEdges = {}, job.escalates = "none",
         \A e \in job.uses.lib \cup job.uses.test : Declared(e)
  PROVE  GraphLibs \subseteq Floor.projects /\ GraphTests \subseteq Floor.projects
  <1> DEFINE seeds == job.touched \cup ContractClients
             walked == UpTo(seeds, job.declares.dep)
             all == walked \cup {e[1] : e \in {d \in job.declares.test : d[2] \in walked}}
  <1>1. job.uses.lib \subseteq job.declares.dep
    BY DEF FaintEdges, Faint
  <1>2. job.uses.test \subseteq job.declares.dep \cup job.declares.test
    BY DEF FaintEdges, Faint
  <1>3. GraphLibs \subseteq walked
    <2>1. job.touched \cup {p \in job.moved : job.escalates = "refinable"} \subseteq seeds
      OBVIOUS
    <2> QED
      BY <1>1, <2>1, UpToGrows DEF GraphLibs
  <1>4. Floor.projects = all
    BY DEF Floor, Closed
  <1>5. ASSUME NEW e \in job.uses.test, e[2] \in GraphLibs PROVE e[1] \in all
    <2>1. e[2] \in walked /\ e[1] \in Members
      BY <1>3, <1>5 DEF Typed
    <2>2. CASE e \in job.declares.dep
      BY <2>1, <2>2, UpToIsClosed
    <2>3. CASE e \in job.declares.test
      BY <2>1, <2>3
    <2> QED
      BY <1>2, <2>2, <2>3
  <1> HIDE DEF all, walked
  <1>6. walked \subseteq all
    BY DEF all
  <1> QED
    BY <1>3, <1>4, <1>5, <1>6 DEF GraphTests

LEMMA GraphTyped == Typed => GraphLibs \subseteq Members /\ GraphTests \subseteq Members
  <1> SUFFICES ASSUME Typed
      PROVE  GraphLibs \subseteq Members /\ GraphTests \subseteq Members
    OBVIOUS
  <1>1. GraphLibs \subseteq Members
    BY DEF GraphLibs, UpTo
  <1>2. \A e \in job.uses.test : e[1] \in Members
    BY DEF Typed
  <1> QED
    BY <1>1, <1>2 DEF GraphTests

\* A diff keeps every project it impacts, as one that is direct.
LEMMA NarrowedHolds ==
  ASSUME Typed
  PROVE  /\ GraphTests \subseteq Narrowed(GraphTests).projects
         /\ GraphTests \subseteq Narrowed(GraphTests).direct
         /\ ~Narrowed(GraphTests).everything
  <1>1. job.touched \cup GraphTests \subseteq Members
    BY GraphTyped DEF Typed
  <1>2. job.touched \cup GraphTests \subseteq UpTo(job.touched \cup GraphTests, job.declares.dep)
    BY <1>1, UpToHolds
  <1> QED
    BY <1>2 DEF Narrowed, Closed

\* A check that owes a test that can break is demanded, and is run.
LEMMA OwedIsRun ==
  ASSUME ExecutorIInv, Typed, audit = "clean", gaps = {}, FaintEdges = {},
         NEW p \in ChangedTests, NEW c \in job.checks[p],
         c.when = "affected" \/ (c.when = "direct" /\ p \in job.touched)
  PROVE  /\ c.name \in RequiredNames
         /\ answer = Floor \/ Narrows => CheckRunOf(c) \in AllRuns(answer)
  <1>1. \A e \in job.uses.lib \cup job.uses.test : Declared(e)
    BY DEF ExecutorIInv, AfterDeps
  <1>2. p \in Members
    BY GraphTyped DEF ChangedTests
  <1>3. c \in ChecksFor(p, TRUE) /\ c \in ChecksFor(p, p \in job.touched)
    BY DEF ChecksFor
  <1>4. Floor.direct = job.touched /\ Floor.everything = (job.escalates # "none")
    BY DEF Floor
  <1>5. ~Floor.everything => p \in Floor.projects
    BY <1>1, <1>4, FloorHoldsGraph DEF ChangedTests
  <1>6. c \in ScopedChecks(Floor)
    <2>1. CASE Floor.everything
      BY <1>2, <1>3, <2>1 DEF ScopedChecks
    <2>2. CASE ~Floor.everything
      BY <1>3, <1>4, <1>5, <2>2 DEF ScopedChecks
    <2> QED
      BY <2>1, <2>2
  <1>7. c.name \in RequiredNames
    BY <1>6 DEF RequiredNames, ScopedChecks
  <1>8. ASSUME Narrows PROVE c \in ScopedChecks(answer)
    <2>1. p \in GraphTests
      BY <1>8 DEF Narrows, ChangedTests
    <2>2. p \in answer.projects /\ p \in answer.direct /\ ~answer.everything
      BY <1>8, <2>1, NarrowedHolds DEF Narrows
    <2>3. c \in ChecksFor(p, p \in answer.direct)
      BY <1>3, <2>2 DEF ChecksFor
    <2> QED
      BY <2>2, <2>3 DEF ScopedChecks
  <1> QED
    BY <1>6, <1>7, <1>8 DEF AllRuns

LEMMA OneRunPerName ==
  ASSUME NEW a, NEW r \in FullMatrix(a), NEW s \in AllRuns(a), r.name = s.name
  PROVE  r = s
  BY DEF FullMatrix, Deduplicated

LEMMA ImpactedAreTested == ExecutorIInv /\ Typed => ImpactedTested
  <1> SUFFICES ASSUME ExecutorIInv, Typed, GatePasses, audit = "clean", gaps = {}, FaintEdges = {},
                      NEW p \in ChangedTests, Owes(p)
      PROVE  p \in passedTests
    BY DEF ImpactedTested
  <1>1. PICK c \in job.checks[p] :
            p \in c.command /\ (c.when = "affected" \/ (c.when = "direct" /\ p \in job.touched))
    BY DEF Owes
  <1>2. c.name \in reported /\ (answer = Floor \/ Narrows => CheckRunOf(c) \in AllRuns(answer))
    BY <1>1, OwedIsRun DEF GatePasses
  <1>3. PICK r \in FullMatrix(answer), vouched \in BOOLEAN :
            r.name = c.name /\ ImpactedTargets(r.command, vouched) \subseteq passedTests
    BY <1>2 DEF ExecutorIInv, AfterChecks
  <1>4. r = CheckRunOf(c)
    <2>1. CheckRunOf(c) \in AllRuns(answer) /\ CheckRunOf(c).name = c.name
      BY <1>2 DEF ExecutorIInv, AfterChecks, CheckRunOf
    <2> QED
      BY <1>3, <2>1, OneRunPerName
  <1>5. p \in ImpactedTargets(c.command, vouched)
    BY <1>1 DEF ImpactedTargets, Scoped, DiffTargets, ChangedTests
  <1> QED
    BY <1>3, <1>4, <1>5 DEF CheckRunOf

LEMMA RestIsSound ==
  ExecutorIInv /\ Typed =>
      MatrixFeedsGate /\ NarrowedIsEnough /\ ImagesMatchRecord /\ NoStaleBinary
  <1> SUFFICES ASSUME ExecutorIInv, Typed
      PROVE  MatrixFeedsGate /\ NarrowedIsEnough /\ ImagesMatchRecord /\ NoStaleBinary
    OBVIOUS
  <1>1. MatrixFeedsGate
    <2> SUFFICES ASSUME step = "images", matrix # {}, ~job.postLand,
                        ~(job.engine /\ ~answer.everything)
        PROVE  {r.name : r \in matrix} = RequiredNames
      BY DEF MatrixFeedsGate
    <2>1. matrix = AllRuns(answer) /\ (answer = Floor \/ Narrows)
      BY DEF ExecutorIInv, AfterChecks, FullMatrix, Deduplicated
    <2>2. answer = Floor
      BY <2>1, NarrowedHolds DEF Narrows
    <2>3. matrix = {CheckRunOf(c) : c \in ScopedChecks(Floor)}
      BY <2>1, <2>2 DEF AllRuns
    <2>4. {r.name : r \in matrix} = {c.name : c \in ScopedChecks(Floor)}
      <3>1. \A c : CheckRunOf(c).name = c.name
        BY DEF CheckRunOf
      <3> QED
        BY <2>3, <3>1
    <2> QED
      BY <2>4 DEF RequiredNames, ScopedChecks
  <1>2. NarrowedIsEnough
    <2> SUFFICES ASSUME step # "checks", job.escalates = "refinable", ~answer.everything,
                        audit # "none"
        PROVE  ChangedTests \subseteq answer.projects /\ ~job.orphans
      BY DEF NarrowedIsEnough
    <2>1. answer = Floor \/ Narrows
      BY DEF ExecutorIInv, AfterDeps, AfterChecks
    <2>2. Narrows
      <3>1. Floor.everything = (job.escalates # "none")
        BY DEF Floor
      <3> QED
        BY <2>1, <3>1
    <2> QED
      BY <2>2, NarrowedHolds DEF Narrows, ChangedTests
  <1>3. ImagesMatchRecord
    <2> SUFFICES ASSUME step = "run",
                        \A p, q \in DOMAIN job.owns :
                            job.owns[p].name = job.owns[q].name => job.owns[p] = job.owns[q]
        PROVE  {b.name : b \in built} = ImagesForAffected(Floor)
      BY DEF ImagesMatchRecord
    <2>1. built = ImageBuilds(Floor)
      BY DEF ExecutorIInv, AfterImages
    <2>2. built = {job.owns[p] : p \in {q \in DOMAIN job.owns :
                                          job.owns[q].name \in ImagesForAffected(Floor)}}
      BY <2>1 DEF ImageBuilds
    <2>3. ImagesForAffected(Floor) \subseteq {job.owns[p].name : p \in DOMAIN job.owns}
      BY DEF ImagesForAffected
    <2> QED
      BY <2>2, <2>3
  <1>4. NoStaleBinary
    <2> SUFFICES ASSUME step = "run", audit = "clean", gaps = {}, FaintEdges = {},
                        \A b, c \in job.ships : b.tag = c.tag /\ b.name = c.name => b.path = c.path,
                        NEW b \in job.ships, b.of \in GraphLibs
        PROVE  b \in published
      BY DEF NoStaleBinary
    <2>1. published = {d \in job.ships : Floor.everything \/ d.of \in Floor.projects}
      BY DEF ExecutorIInv, AfterImages, BinaryReleases
    <2>2. CASE job.escalates = "none"
      <3>1. GraphLibs \subseteq Floor.projects
        BY <2>2, FloorHoldsGraph DEF ExecutorIInv, AfterDeps
      <3> QED
        BY <2>1, <3>1
    <2>3. CASE job.escalates # "none"
      BY <2>1, <2>3 DEF Floor
    <2> QED
      BY <2>2, <2>3
  <1> QED
    BY <1>1, <1>2, <1>3, <1>4

----------------------------------------------------------------------------
LEMMA ExecutorStays ==
  ASSUME ExecutorIInv, Typed, [ExecutorNext]_executorVars
  PROVE  ExecutorIInv'
  <1>1. /\ job \in CIJobs /\ step \in {"deps", "checks", "images", "binaries", "run"}
        /\ AfterDeps /\ AfterChecks /\ AfterImages
    BY DEF ExecutorIInv
  <1>2. ASSUME job' = job
        PROVE  /\ Floor' = Floor /\ GraphTests' = GraphTests
               /\ \A a : Narrowed(a)' = Narrowed(a) /\ FullMatrix(a)' = FullMatrix(a)
               /\ \A a : ImageBuilds(a)' = ImageBuilds(a) /\ BinaryReleases(a)' = BinaryReleases(a)
               /\ \A a, v : ImpactedTargets(a, v)' = ImpactedTargets(a, v)
               /\ \A e : Declared(e)' = Declared(e)
    <2>1. Floor' = Floor
      BY <1>2 DEF Floor, Closed, ContractClients, UpTo
    <2>2. GraphTests' = GraphTests
      BY <1>2 DEF GraphTests, GraphLibs, UpTo
    <2>3. \A a : Narrowed(a)' = Narrowed(a)
      BY <1>2 DEF Narrowed, Closed, UpTo
    <2>4. \A a : FullMatrix(a)' = FullMatrix(a)
      BY <1>2 DEF FullMatrix, AllRuns, Deduplicated, ScopedChecks, ChecksFor, PostLandChecks,
                  CheckRunOf
    <2>5. \A a : ImageBuilds(a)' = ImageBuilds(a) /\ BinaryReleases(a)' = BinaryReleases(a)
      BY <1>2 DEF ImageBuilds, ImagesForAffected, BinaryReleases
    <2>6. \A a, v : ImpactedTargets(a, v)' = ImpactedTargets(a, v)
      BY <1>2, <2>2 DEF ImpactedTargets, Scoped, DiffTargets
    <2>7. \A e : Declared(e)' = Declared(e)
      BY <1>2 DEF Declared
    <2> QED
      BY <2>1, <2>2, <2>3, <2>4, <2>5, <2>6, <2>7
  <1>3. ASSUME NEW unread \in SUBSET Members, Deps(unread) PROVE ExecutorIInv'
    <2>1. AfterDeps'
      <3>1. audit' \in {"clean", "undeclared"} /\ step' = "checks" /\ job' = job
        BY <1>3 DEF Deps
      <3>2. ASSUME audit' = "clean", gaps' = {}, NEW e \in job.uses.lib \cup job.uses.test
            PROVE  Declared(e)
        <4>1. CheckBuildLabels(unread) = {} /\ unread = {}
          BY <1>3, <3>2 DEF Deps
        <4>2. Scanned(unread) = Members
          BY <4>1 DEF Scanned, Typed
        <4>3. {e[1], e[2]} \subseteq Members
          BY DEF Typed
        <4> QED
          BY <4>1, <4>2, <4>3 DEF CheckBuildLabels
      <3> QED
        BY <1>2, <3>1, <3>2 DEF AfterDeps
    <2> QED
      BY <1>1, <1>3, <2>1 DEF Deps, ExecutorIInv, AfterChecks, AfterImages
  <1>4. ASSUME NEW ok \in BOOLEAN, CheckMatrix(ok) PROVE ExecutorIInv'
    <2>1. /\ step = "checks" /\ step' = "images" /\ job' = job
          /\ UNCHANGED <<audit, gaps, passedTests, reported, built, published>>
      BY <1>4 DEF CheckMatrix
    <2>2. answer' = AffectedRefined(ok) /\ matrix' = FullMatrix(answer')
      BY <1>4 DEF CheckMatrix, FullMatrix, AllRuns
    <2>3. answer' = Floor \/ (/\ answer' = Narrowed(GraphTests) /\ job.engine
                              /\ job.escalates = "refinable" /\ ~job.orphans)
      BY <2>2 DEF AffectedRefined, RefineSnapshot
    <2>4. AfterChecks'
      BY <1>1, <1>2, <2>1, <2>2, <2>3 DEF AfterChecks, Narrows
    <2> QED
      BY <1>1, <1>2, <2>1, <2>4 DEF ExecutorIInv, AfterDeps, AfterImages
  <1>5. CASE BuildImages
    <2>1. /\ step = "images" /\ step' = "binaries" /\ job' = job /\ built' = ImageBuilds(Floor)
          /\ UNCHANGED <<audit, answer, matrix, passedTests, reported, published, gaps>>
      BY <1>5 DEF BuildImages, ImagesAnswer
    <2> QED
      BY <1>1, <1>2, <2>1 DEF ExecutorIInv, AfterDeps, AfterImages, AfterChecks, Narrows
  <1>6. CASE PublishBinaries
    <2>1. /\ step = "binaries" /\ step' = "run" /\ job' = job /\ published' = BinaryReleases(Floor)
          /\ UNCHANGED <<audit, answer, matrix, passedTests, reported, built, gaps>>
      BY <1>6 DEF PublishBinaries
    <2> QED
      BY <1>1, <1>2, <2>1 DEF ExecutorIInv, AfterDeps, AfterImages, AfterChecks, Narrows
  <1>7. ASSUME NEW r \in matrix, NEW vouched \in BOOLEAN, NEW green \in BOOLEAN,
               TestImpacted(r, vouched, green)
        PROVE  ExecutorIInv'
    <2>1. /\ step = "run" /\ UNCHANGED <<job, step, audit, answer, built, published, gaps>>
          /\ matrix' \subseteq matrix
      BY <1>7 DEF TestImpacted
    <2>2. /\ passedTests \subseteq passedTests'
          /\ \A name \in reported' : \/ name \in reported
                                     \/ /\ name = r.name
                                        /\ ImpactedTargets(r.command, vouched) \subseteq passedTests'
      BY <1>7 DEF TestImpacted
    <2>3. AfterChecks'
      <3>1. ASSUME NEW name \in reported'
            PROVE  \E s \in FullMatrix(answer), v \in BOOLEAN :
                       s.name = name /\ ImpactedTargets(s.command, v) \subseteq passedTests'
        BY <1>1, <2>1, <2>2 DEF AfterChecks
      <3> QED
        BY <1>1, <1>2, <2>1, <3>1 DEF AfterChecks, Narrows
    <2> QED
      BY <1>1, <1>2, <2>1, <2>3 DEF ExecutorIInv, AfterDeps, AfterImages
  <1>8. CASE UNCHANGED executorVars
    BY <1>1, <1>2, <1>8 DEF executorVars, ExecutorIInv, AfterDeps, AfterImages, AfterChecks, Narrows
  <1> QED
    BY <1>3, <1>4, <1>5, <1>6, <1>7, <1>8 DEF ExecutorNext

\* What runko-ci runs, skips and builds is what the gate and the deploy record
\* count on (deps, checks, images, binaries, test-impacted), for any tree, change
\* and flags.
THEOREM ExecutorIsSound == ExecutorSpec => []ExecutorSound
  <1>1. ExecutorInit => ExecutorIInv
    BY DEF ExecutorInit, ExecutorIInv, AfterDeps, AfterChecks, AfterImages
  <1>2. ExecutorIInv => Typed
    BY JobTyped DEF ExecutorIInv
  <1>3. ExecutorIInv /\ [ExecutorNext]_executorVars => ExecutorIInv'
    BY <1>2, ExecutorStays
  <1>4. ExecutorIInv => ExecutorSound
    BY <1>2, ImpactedAreTested, RestIsSound DEF ExecutorSound
  <1> QED
    BY <1>1, <1>3, <1>4, PTL DEF ExecutorSpec

\* What is dispatched and what a job makes of it is what the gate and the deploy
\* record count on: CI is asked once for what it must hear of, with a token that
\* works, and runs, skips and builds what they demand (runko-bridge/main.go,
\* runkogithubapp.go, githubsecrets.go, cli/runkoci).
THEOREM CIIsSound == CISpec => []CISound
  <1>1. DispatchSound /\ ExecutorSound => CISound
    BY DEF CISound
  <1> QED
    BY <1>1, DispatchIsSound, ExecutorIsSound, PTL DEF CISpec
=============================================================================
