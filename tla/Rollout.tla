------------------------------- MODULE Rollout -------------------------------
(***************************************************************************)
(* From a land to its rollout.  A land enqueues change.landed and opens    *)
(* the deploy record of its commit; the outbox makes GitHub build the      *)
(* images; runko-ci report-image posts each digest; the report that        *)
(* completes the record enqueues deploy.images_ready, which the outbox     *)
(* delivers to the CD consumer.                                            *)
(*                                                                         *)
(* The handlers run side by side and PostgresStore's RecordDeployImage is  *)
(* four statements.  A digest is left out: a report names its image.       *)
(***************************************************************************)
EXTENDS Outbox, Sequences, Functions

CONSTANTS Commits,       \* the commits that land
          Images,        \* the images that projects declare
          Affects,       \* [Commits -> SUBSET Images]: ImagesForAffected of each
          ReportAttempts \* runko-ci's reportImageAttempts

ASSUME RolloutAssumption ==
    /\ Affects \in [Commits -> SUBSET Images] /\ ReportAttempts \in Nat \ {0}
    /\ Events = {"change.landed", "deploy.images_ready"} \X Commits
    /\ Dispatched = {"change.landed"} \X Commits

VARIABLES lands,     \* how far the tail of each land is
          records,   \* deploy_records and deploy_images
          reports,   \* the report-image calls of each commit's build
          emitted,   \* how often images_ready was enqueued, and for which images
          blame      \* what a commit's rollout was lost to, if anything

rolloutVars == <<lands, records, reports, emitted, blame>>
allVars == <<outboxVars, rolloutVars>>

----------------------------------------------------------------------------
Landed(c) == <<"change.landed", c>>
ImagesReady(c) == <<"deploy.images_ready", c>>

NoRecord == [state |-> "none", reported |-> {}]

NoReport == [pc |-> "off", tries |-> 0]

Blamed(c, why) == blame' = [blame EXCEPT ![c] = @ \cup {why}]

\* landResult: the row is marked landed ...
MarkLanded(c) ==
    /\ lands[c] = "no"
    /\ Cardinality({d \in Commits : lands[d] # "no"}) < wiring.lands
    /\ lands' = [lands EXCEPT ![c] = "enqueue"]
    /\ UNCHANGED <<records, reports, emitted, blame, outboxVars>>

\* ... change.landed is enqueued (best effort: a failure is logged) ...
EnqueueLanded(c) ==
    /\ lands[c] = "enqueue"
    /\ lands' = [lands EXCEPT ![c] = "open"]
    /\ \/ EnqueueWebhook(Landed(c)) /\ UNCHANGED <<failures, blame>>
       \/ Failure /\ Blamed(c, "enqueue") /\ UNCHANGED deliveries
    /\ UNCHANGED <<records, reports, emitted, pass, got, wiring>>

\* PruneStalePendingDeployRecords: the pending ones past deployRecordTTL.
Prune(stale) == [c \in Commits |-> IF c \in stale THEN NoRecord ELSE records[c]]

\* ... and openDeployRecordForLand: nothing for a land that affects no image;
\* otherwise the stale pending records go and the commit's own is opened,
\* unless it is there already.
OpenDeployRecord(c) ==
    /\ lands[c] = "open"
    /\ lands' = [lands EXCEPT ![c] = "done"]
    /\ \/ Affects[c] = {} /\ UNCHANGED <<records, failures, blame>>
       \/ /\ Affects[c] # {} /\ Failure /\ Blamed(c, "open") /\ UNCHANGED records
       \/ /\ Affects[c] # {} /\ UNCHANGED failures
          /\ \E stale \in SUBSET {d \in Commits : records[d].state = "pending"} :
                LET kept == Prune(stale) IN
                /\ records' = IF kept[c].state # "none" THEN kept
                              ELSE [kept EXCEPT ![c].state = "pending"]
                /\ blame' = [d \in Commits |-> IF d \in stale
                                THEN blame[d] \cup {"pruned"} ELSE blame[d]]
    /\ UNCHANGED <<reports, emitted, deliveries, pass, got, wiring>>

\* GitHub runs the dispatched build: it builds the images the landed range
\* affects and reports each.  The workflow's concurrency group drops a second
\* dispatch of the commit.
StartBuild(c) ==
    /\ <<"github", Landed(c)>> \in got
    /\ \E i \in Affects[c] :
          /\ reports[c][i].pc = "off"
          /\ reports' = [reports EXCEPT ![c][i].pc = "get"]
    /\ UNCHANGED <<lands, records, emitted, blame, outboxVars>>

Report(c, i, pc) == reports' = [reports EXCEPT ![c][i].pc = pc]

\* postReport: a 5xx or a lost answer is tried again, up to a limit.
Again(r) == [pc |-> IF r.tries + 1 < ReportAttempts THEN "get" ELSE "failed",
             tries |-> r.tries + 1]

Retry(c, i) == reports' = [reports EXCEPT ![c][i] = Again(@)]

\* What a call that broke off costs the rollout.
Lost(r) == (IF r.pc = "emit" THEN {"after ready"} ELSE {})
           \cup (IF r.tries + 1 < ReportAttempts THEN {} ELSE {"attempts"})

InHandler(r) == r.pc \in {"upsert", "mark", "emit"}

\* RecordDeployImage: no record is a 404, which is final for the caller.
GetRecord(c, i) ==
    /\ reports[c][i].pc = "get"
    /\ IF records[c].state = "none"
       THEN Report(c, i, "failed") /\ Blamed(c, "no record")
       ELSE Report(c, i, "upsert") /\ UNCHANGED blame
    /\ UNCHANGED <<lands, records, emitted, outboxVars>>

\* Mutant: the row is there only after the record was looked at.
UpsertLate(c, i) ==
    /\ reports[c][i].pc = "upsert"
    /\ Report(c, i, "mark")
    /\ UNCHANGED <<lands, records, emitted, blame, outboxVars>>

\* UpsertDeployImage: the row refers to the record, which may be gone by now.
UpsertDeployImage(c, i) ==
    /\ reports[c][i].pc = "upsert"
    /\ IF records[c].state = "none" THEN Retry(c, i) /\ UNCHANGED records
       ELSE /\ records' = [records EXCEPT ![c].reported = @ \cup {i}]
            /\ Report(c, i, "mark")
    /\ UNCHANGED <<lands, emitted, blame, outboxVars>>

Complete(c) == Affects[c] \subseteq records[c].reported

\* Mutant: the record may be ready already.
CompleteAgain(c) == records[c].state # "none" /\ Complete(c)

NowReady(c) == records[c].state = "pending" /\ Complete(c)

\* MarkDeployReadyIfComplete: one UPDATE, on the rows committed so far.
MarkReady(c, i) ==
    /\ reports[c][i].pc = "mark"
    /\ IF NowReady(c)
       THEN /\ records' = [records EXCEPT ![c].state = "ready"]
            /\ Report(c, i, "emit")
       ELSE Report(c, i, "done") /\ UNCHANGED records
    /\ UNCHANGED <<lands, emitted, blame, outboxVars>>

\* The record is read again for the payload and deploy.images_ready enqueued,
\* which may fail unnoticed.
Emit(c, i) ==
    /\ reports[c][i].pc = "emit"
    /\ Report(c, i, "done")
    /\ \/ /\ EnqueueWebhook(ImagesReady(c)) /\ UNCHANGED <<failures, blame>>
          /\ emitted' = [emitted EXCEPT ![c] = Append(@, records[c].reported)]
       \/ Failure /\ Blamed(c, "enqueue") /\ UNCHANGED <<deliveries, emitted>>
    /\ UNCHANGED <<lands, records, pass, got, wiring>>

\* A statement fails: 500, and the caller tries again.
ReportFails(c, i) ==
    /\ InHandler(reports[c][i]) /\ Failure
    /\ Retry(c, i)
    /\ blame' = [blame EXCEPT ![c] = @ \cup Lost(reports[c][i])]
    /\ UNCHANGED <<lands, records, emitted, deliveries, pass, got, wiring>>

\* The daemon restarts: the pass and the requests in flight are gone; the
\* callers of report-image try again.
RolloutRestart ==
    /\ Failure
    /\ pass' = NoPass
    /\ lands' = [c \in Commits |-> IF lands[c] = "no" THEN "no" ELSE "done"]
    /\ reports' = [c \in Commits |-> [i \in Images |->
          IF InHandler(reports[c][i]) THEN Again(reports[c][i])
          ELSE reports[c][i]]]
    /\ blame' = [c \in Commits |-> blame[c]
          \cup (IF lands[c] \in {"enqueue", "open"} THEN {"restart"} ELSE {})
          \cup UNION {Lost(r) : r \in {q \in Range(reports[c]) : InHandler(q)}}]
    /\ UNCHANGED <<records, emitted, deliveries, got, wiring>>

LandTail(c) == EnqueueLanded(c) \/ OpenDeployRecord(c)

ReportStep(c, i) == \/ GetRecord(c, i) \/ UpsertDeployImage(c, i)
                    \/ MarkReady(c, i) \/ Emit(c, i)

\* The goroutine of OutboxWorker.Run, and the clock.
WorkerStep == (RunOnce \/ PassStep) /\ UNCHANGED rolloutVars
TimePasses == Tick /\ UNCHANGED rolloutVars

RolloutInit ==
    /\ OutboxInit
    /\ lands = [c \in Commits |-> "no"]
    /\ records = [c \in Commits |-> NoRecord]
    /\ reports = [c \in Commits |-> [i \in Images |-> NoReport]]
    /\ emitted = [c \in Commits |-> << >>]
    /\ blame = [c \in Commits |-> {}]

RolloutNext ==
    \/ \E c \in Commits :
          \/ MarkLanded(c) \/ LandTail(c) \/ StartBuild(c)
          \/ \E i \in Images : ReportStep(c, i) \/ ReportFails(c, i)
    \/ WorkerStep \/ TimePasses
    \/ (RecordFails /\ UNCHANGED rolloutVars)
    \/ RolloutRestart

\* What the daemon, GitHub and the builds may do.
RolloutSpec == RolloutInit /\ [][RolloutNext]_allVars

----------------------------------------------------------------------------
(* Properties.                                                             *)

\* ImagesReadyOnce - the rollout of a commit is triggered once, with every
\* image its land affects, although the last reports of a build run side by
\* side and are retried (RecordDeployImage, MarkDeployReadyIfComplete).
ImagesReadyOnce ==
    \A c \in Commits : /\ Len(emitted[c]) <= 1
                        /\ \A n \in DOMAIN emitted[c] : Affects[c] \subseteq emitted[c][n]

\* RolloutOrCause - a landed commit that affects images is rolled out, or its
\* rollout was lost to one of the causes in blame, all of them a failure, a
\* report that came before the record or the pruning of old records, or one of
\* its two events was dead-lettered.  Nothing else can lose a rollout.
RolloutOrCause ==
    []<>(\A c \in Commits :
            (lands[c] = "done" /\ Affects[c] # {}
               /\ wiring.url # "none" /\ wiring.github \in {"up", "dead"})
            => \/ <<"url", ImagesReady(c)>> \in got \/ blame[c] # {}
               \/ \E e \in {Landed(c), ImagesReady(c)} :
                     deliveries[e].status = "dead_letter")
=============================================================================
