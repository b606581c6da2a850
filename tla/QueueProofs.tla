----------------------------- MODULE QueueProofs ------------------------------
(*****************************************************************************)
(* What the durable queues promise.  The outbox and the deploy records, for  *)
(* any number of commits, images, targets, failures, retries and restarts:   *)
(* delivered means delivered everywhere, and a roll-out is announced once.   *)
(* The invite desk, for any visitors, peers, addresses, limits and failures: *)
(* sent means mailed, the backlog keeps to its cap and a peer to its rate.   *)
(*****************************************************************************)
EXTENDS Rollout, InviteMail, SequenceTheorems, FiniteSetTheorems, TLAPS

----------------------------------------------------------------------------
(* The outbox: what a pass knows of its event before it records a result.  *)

PassType == [pc : {"idle", "next", "post", "dispatch", "record"},
             todo : SUBSET Events, at : Events \cup {NoEvent}, ok : BOOLEAN,
             age : Nat]

RowShape == {"status", "attempt", "wait"}

Reached(t, e) == <<t, e>> \in got

OutboxTyped ==
    /\ wiring \in Wirings /\ pass \in PassType
    /\ pass.pc \in {"post", "dispatch", "record"} => pass.at \in Events
    /\ DOMAIN deliveries = Events
    /\ \A e \in Events : DOMAIN deliveries[e] = RowShape

\* A pass that goes on without an error has reached the targets behind it.
PassHonest ==
    pass.ok => /\ (pass.pc = "dispatch" /\ wiring.url # "none")
                     => Reached("url", pass.at)
               /\ pass.pc = "record"
                     => \A t \in TargetsOf(pass.at) : Reached(t, pass.at)

Delivering == OutboxTyped /\ PassHonest /\ DeliveredEverywhere

LEMMA InitDelivering == ASSUME RolloutInit PROVE Delivering
  <1>1. NoPass \in PassType /\ NoPass.pc = "idle"
    BY DEF NoPass, PassType
  <1>2. NoDelivery.status = "none" /\ DOMAIN NoDelivery = RowShape
    BY DEF NoDelivery, RowShape
  <1>3. /\ pass = NoPass /\ wiring \in Wirings
        /\ deliveries = [e \in Events |-> NoDelivery]
    BY DEF RolloutInit, OutboxInit
  <1> QED
    BY <1>1, <1>2, <1>3 DEF Delivering, OutboxTyped, PassHonest, DeliveredEverywhere

\* An enqueued event is pending, and nothing else of the outbox moves.
LEMMA EnqueueDelivering ==
  ASSUME Delivering, NEW e \in Events, EnqueueWebhook(e),
         UNCHANGED <<pass, got, wiring>>
  PROVE  Delivering'
  <1>1. LET d == [NoDelivery EXCEPT !.status = "pending"]
        IN  d.status = "pending" /\ DOMAIN d = RowShape
    BY DEF NoDelivery, RowShape
  <1>2. /\ DOMAIN deliveries' = Events
        /\ \A f \in Events : DOMAIN deliveries'[f] = RowShape
        /\ \A f \in Events : deliveries'[f].status = "delivered"
                                => deliveries[f].status = "delivered"
    BY <1>1 DEF EnqueueWebhook, Delivering, OutboxTyped
  <1>3. \A f : TargetsOf(f)' = TargetsOf(f)
    BY DEF TargetsOf
  <1> QED
    BY <1>2, <1>3 DEF Delivering, OutboxTyped, PassHonest, DeliveredEverywhere, Reached

\* The pass is gone, or nothing of the outbox moves but the count of failures.
LEMMA QuietDelivering ==
  ASSUME Delivering, UNCHANGED <<deliveries, got, wiring>>,
         pass' = pass \/ pass' = NoPass
  PROVE  Delivering'
  <1>1. NoPass \in PassType /\ NoPass.pc = "idle"
    BY DEF NoPass, PassType
  <1>2. \A f : TargetsOf(f)' = TargetsOf(f)
    BY DEF TargetsOf
  <1> QED
    BY <1>1, <1>2 DEF Delivering, OutboxTyped, PassHonest, DeliveredEverywhere, Reached

LEMMA WorkerDelivering ==
  ASSUME Delivering, RunOnce \/ PassStep
  PROVE  Delivering'
  <1>0. NoPass \in PassType
    BY DEF NoPass, PassType
  <1>1. UNCHANGED wiring /\ \A f : TargetsOf(f)' = TargetsOf(f)
    BY DEF RunOnce, PassStep, NextDelivery, Post, Dispatch, RecordDeliveryResult, TargetsOf
  <1>2. CASE RunOnce
    <2>1. pass' \in PassType /\ pass'.pc = "next"
      BY <1>0, <1>2 DEF RunOnce, PassType, NoPass, Due
    <2> QED
      BY <1>1, <1>2, <2>1
      DEF RunOnce, Delivering, OutboxTyped, PassHonest, DeliveredEverywhere, Reached
  <1>3. CASE NextDelivery
    <2>1. \/ pass' = NoPass
          \/ pass' \in PassType /\ pass'.pc = "post" /\ pass'.at \in Events
      <3>1. CASE pass.todo # {}
        <4>1. PICK e \in pass.todo :
                 pass' = [pass EXCEPT !.pc = "post", !.at = e, !.todo = pass.todo \ {e},
                                      !.ok = TRUE]
          BY <1>3, <3>1 DEF NextDelivery
        <4>2. e \in Events
          BY DEF PassType, Delivering, OutboxTyped
        <4> QED
          BY <4>1, <4>2 DEF PassType, Delivering, OutboxTyped
      <3> QED
        BY <1>3, <3>1 DEF NextDelivery
    <2>2. UNCHANGED <<deliveries, got>>
      BY <1>3 DEF NextDelivery
    <2>3. CASE pass' = NoPass
      BY <1>1, <2>2, <2>3, QuietDelivering
    <2> QED
      BY <1>1, <2>1, <2>2, <2>3
      DEF Delivering, OutboxTyped, PassHonest, DeliveredEverywhere, Reached
  <1>4. CASE Post
    <2>1. PICK ok \in BOOLEAN :
             /\ pass' = [pass EXCEPT !.ok = ok,
                            !.pc = IF ok THEN "dispatch" ELSE AfterFailedPost]
             /\ CASE wiring.url = "none" -> ok /\ UNCHANGED <<got, failures>>
                  [] wiring.url = "dead" -> ~ok /\ UNCHANGED <<got, failures>>
                  [] wiring.url = "up"   -> Sent("url", pass.at, ok)
      BY <1>4 DEF Post
    <2>2. wiring.url \in {"none", "dead", "up"}
      BY OutboxAssumption DEF Delivering, OutboxTyped
    <2>3. /\ got \subseteq got'
          /\ ok /\ wiring.url # "none" => <<"url", pass.at>> \in got'
      BY <2>1, <2>2 DEF Sent
    <2>4. /\ pass' \in PassType /\ pass'.pc = "dispatch" /\ pass'.ok = ok
          /\ pass'.at = pass.at
      BY <2>1 DEF AfterFailedPost, PassType, Delivering, OutboxTyped
    <2>5. UNCHANGED deliveries /\ pass.at \in Events
      BY <1>4 DEF Post, Delivering, OutboxTyped
    <2> QED
      BY <1>1, <2>3, <2>4, <2>5
      DEF Delivering, OutboxTyped, PassHonest, DeliveredEverywhere, Reached
  <1>5. CASE Dispatch
    <2>1. PICK ok \in BOOLEAN :
             /\ pass' = [pass EXCEPT !.pc = "record", !.ok = RowSucceeds(@, ok)]
             /\ CASE \/ wiring.github \in {"none", "unwired"}
                     \/ pass.at \notin Dispatched -> ok /\ UNCHANGED <<got, failures>>
                  [] OTHER -> IF wiring.github = "dead"
                              THEN ~ok /\ UNCHANGED <<got, failures>>
                              ELSE Sent("github", pass.at, ok)
      BY <1>5 DEF Dispatch
    <2>2. /\ got \subseteq got'
          /\ (ok /\ ~(wiring.github \in {"none", "unwired"} \/ pass.at \notin Dispatched))
                => <<"github", pass.at>> \in got'
      BY <2>1 DEF Sent
    <2>3. /\ pass' \in PassType /\ pass'.pc = "record" /\ pass'.at = pass.at
          /\ pass'.ok => pass.ok /\ ok
      BY <2>1 DEF RowSucceeds, PassType, Delivering, OutboxTyped
    <2>4. UNCHANGED deliveries /\ pass.at \in Events /\ pass.pc = "dispatch"
      BY <1>5 DEF Dispatch, Delivering, OutboxTyped
    <2>5. pass'.ok => \A t \in TargetsOf(pass.at) : <<t, pass.at>> \in got'
      BY <2>2, <2>3, <2>4 DEF Delivering, PassHonest, Reached, TargetsOf
    <2> QED
      BY <1>1, <2>2, <2>3, <2>4, <2>5
      DEF Delivering, OutboxTyped, PassHonest, DeliveredEverywhere, Reached
  <1>6. CASE RecordDeliveryResult
    <2>1. /\ pass.at \in Events /\ UNCHANGED got /\ pass.pc = "record"
          /\ deliveries' = [deliveries EXCEPT ![pass.at] =
                               Recorded(deliveries[pass.at], pass.ok, pass.age)]
      BY <1>6 DEF RecordDeliveryResult, Delivering, OutboxTyped
    <2>2. pass' \in PassType /\ pass'.pc = "next"
      BY <1>6 DEF RecordDeliveryResult, PassType, Delivering, OutboxTyped
    <2>3. LET d == Recorded(deliveries[pass.at], pass.ok, pass.age)
          IN  DOMAIN d = RowShape /\ (d.status = "delivered" => pass.ok)
      BY <2>1 DEF Recorded, Failed, Delivering, OutboxTyped, RowShape
    <2>4. /\ DOMAIN deliveries' = Events
          /\ \A f \in Events : DOMAIN deliveries'[f] = RowShape
          /\ \A f \in Events : deliveries'[f].status = "delivered" =>
                \/ deliveries[f].status = "delivered"
                \/ f = pass.at /\ pass.ok
      BY <2>1, <2>3 DEF Delivering, OutboxTyped
    <2> QED
      BY <1>1, <2>1, <2>2, <2>4
      DEF Delivering, OutboxTyped, PassHonest, DeliveredEverywhere, Reached
  <1> QED
    BY <1>2, <1>3, <1>4, <1>5, <1>6 DEF PassStep

LEMMA TickDelivering == ASSUME Delivering, Tick PROVE Delivering'
  <1>1. \A f : TargetsOf(f)' = TargetsOf(f)
    BY DEF Tick, TargetsOf
  <1>2. /\ DOMAIN deliveries' = Events
        /\ \A f \in Events : /\ DOMAIN deliveries'[f] = RowShape
                             /\ deliveries'[f].status = deliveries[f].status
    BY DEF Tick, Delivering, OutboxTyped, RowShape
  <1>3. /\ pass' \in PassType /\ pass'.pc = pass.pc /\ pass'.ok = pass.ok
        /\ pass'.at = pass.at
    BY DEF Tick, PassType, Delivering, OutboxTyped
  <1> QED
    BY <1>1, <1>2, <1>3
    DEF Tick, Delivering, OutboxTyped, PassHonest, DeliveredEverywhere, Reached

\* What the steps of lands, builds and reports leave of the outbox.
LEMMA RolloutQuiet ==
  ASSUME RolloutNext,
         ~(RunOnce \/ PassStep), ~Tick
  PROVE  \/ \E e \in Events : EnqueueWebhook(e) /\ UNCHANGED <<pass, got, wiring>>
         \/ /\ UNCHANGED <<deliveries, got, wiring>>
            /\ pass' = pass \/ pass' = NoPass
  <1>1. ASSUME NEW c \in Commits
        PROVE  /\ MarkLanded(c) \/ StartBuild(c) => UNCHANGED outboxVars
               /\ OpenDeployRecord(c) => UNCHANGED <<deliveries, pass, got, wiring>>
               /\ EnqueueLanded(c) =>
                    /\ UNCHANGED <<pass, got, wiring>>
                    /\ EnqueueWebhook(Landed(c)) \/ UNCHANGED deliveries
    BY Zenon DEF MarkLanded, StartBuild, OpenDeployRecord, EnqueueLanded
  <1>2. ASSUME NEW c \in Commits, NEW i \in Images
        PROVE  /\ GetRecord(c, i) \/ UpsertDeployImage(c, i) \/ MarkReady(c, i)
                    => UNCHANGED outboxVars
               /\ ReportFails(c, i) => UNCHANGED <<deliveries, pass, got, wiring>>
               /\ Emit(c, i) =>
                    /\ UNCHANGED <<pass, got, wiring>>
                    /\ EnqueueWebhook(ImagesReady(c)) \/ UNCHANGED deliveries
    BY Zenon DEF GetRecord, UpsertDeployImage, MarkReady, ReportFails, Emit
  <1>3. RolloutRestart \/ RecordFails =>
           UNCHANGED <<deliveries, got, wiring>> /\ pass' = NoPass
    BY Zenon DEF RolloutRestart, RecordFails
  <1>4. \A c \in Commits : Landed(c) \in Events /\ ImagesReady(c) \in Events
    BY RolloutAssumption DEF Landed, ImagesReady
  <1> QED
    BY <1>1, <1>2, <1>3, <1>4
    DEF RolloutNext, LandTail, ReportStep, WorkerStep, TimePasses, outboxVars

LEMMA NextDelivering ==
  ASSUME Delivering, [RolloutNext]_allVars
  PROVE  Delivering'
  <1>1. CASE UNCHANGED allVars
    BY <1>1, QuietDelivering DEF allVars, outboxVars
  <1>2. CASE RunOnce \/ PassStep
    BY <1>2, WorkerDelivering
  <1>3. CASE Tick
    BY <1>3, TickDelivering
  <1>4. CASE RolloutNext /\ ~(RunOnce \/ PassStep) /\ ~Tick
    BY <1>4, RolloutQuiet, EnqueueDelivering, QuietDelivering
  <1> QED
    BY <1>1, <1>2, <1>3, <1>4

----------------------------------------------------------------------------
(* The deploy records: one report at most sees its record become ready.    *)

ReportPcs == {"off", "get", "upsert", "mark", "emit", "failed", "done"}

RecordsTyped ==
    /\ records \in [Commits -> [state : {"none", "pending", "ready"},
                                reported : SUBSET Images]]
    /\ reports \in [Commits -> [Images -> [pc : ReportPcs, tries : Nat]]]
    /\ emitted \in [Commits -> Seq(SUBSET Images)]

Emitting(c, i) == reports[c][i].pc = "emit"

\* A record that is ready is complete, and stays so.
ReadyIsComplete == \A c \in Commits : records[c].state = "ready" => Complete(c)

\* Only of a ready record was images_ready enqueued, or is about to be ...
EmitsWhenReady ==
    \A c \in Commits : records[c].state # "ready" =>
       emitted[c] = << >> /\ \A i \in Images : ~Emitting(c, i)

\* ... by one report, and not again.
EmitsAlone ==
    \A c \in Commits, i \in Images : Emitting(c, i) =>
       emitted[c] = << >> /\ \A j \in Images : Emitting(c, j) => i = j

Counted ==
    /\ RecordsTyped /\ ReadyIsComplete /\ EmitsWhenReady /\ EmitsAlone
    /\ ImagesReadyOnce

LEMMA InitCounted == ASSUME RolloutInit PROVE Counted
  <1>1. /\ NoRecord \in [state : {"none", "pending", "ready"}, reported : SUBSET Images]
        /\ NoRecord.state = "none"
    BY DEF NoRecord
  <1>2. NoReport \in [pc : ReportPcs, tries : Nat] /\ NoReport.pc = "off"
    BY DEF NoReport, ReportPcs
  <1>3. << >> \in Seq(SUBSET Images) /\ Len(<< >>) = 0 /\ DOMAIN << >> = {}
    OBVIOUS
  <1>4. /\ records = [c \in Commits |-> NoRecord]
        /\ reports = [c \in Commits |-> [i \in Images |-> NoReport]]
        /\ emitted = [c \in Commits |-> << >>]
    BY DEF RolloutInit
  <1>5. RecordsTyped
    BY <1>1, <1>2, <1>3, <1>4 DEF RecordsTyped
  <1> QED
    BY <1>1, <1>2, <1>3, <1>4, <1>5
    DEF Counted, ReadyIsComplete, EmitsWhenReady, EmitsAlone, Emitting, ImagesReadyOnce

\* A step that makes no record ready and starts no emission keeps the count, when
\* what a ready record holds only grows.
LEMMA CalmCounted ==
  ASSUME Counted, RecordsTyped', UNCHANGED emitted,
         \A c \in Commits : /\ records'[c].state = "ready" <=> records[c].state = "ready"
                            /\ records[c].state = "ready" =>
                                  records[c].reported \subseteq records'[c].reported,
         \A c \in Commits, i \in Images : Emitting(c, i)' => Emitting(c, i)
  PROVE  Counted'
  <1>1. ReadyIsComplete' /\ EmitsWhenReady'
    BY DEF Counted, ReadyIsComplete, EmitsWhenReady, Complete
  <1>2. EmitsAlone' /\ ImagesReadyOnce'
    BY DEF Counted, EmitsAlone, ImagesReadyOnce
  <1> QED
    BY <1>1, <1>2 DEF Counted

ReportType == [pc : ReportPcs, tries : Nat]

\* What the move of one report does to all of them.
LEMMA OneReport ==
  ASSUME RecordsTyped, NEW c \in Commits, NEW i \in Images, NEW pc \in ReportPcs,
         Report(c, i, pc)
  PROVE  /\ reports' \in [Commits -> [Images -> ReportType]]
         /\ reports'[c][i].pc = pc
         /\ \A d \in Commits, j \in Images :
               (d # c \/ j # i) => reports'[d][j] = reports[d][j]
  <1> DEFINE new == [reports[c][i] EXCEPT !.pc = pc]
  <1>1. reports \in [Commits -> [Images -> ReportType]]
    BY DEF RecordsTyped, ReportType
  <1>2. new \in ReportType /\ new.pc = pc
    BY <1>1 DEF ReportType
  <1>3. reports' = [reports EXCEPT ![c] = [reports[c] EXCEPT ![i] = new]]
    BY <1>1 DEF Report
  <1> HIDE DEF new
  <1>4. [reports[c] EXCEPT ![i] = new] \in [Images -> ReportType]
    BY <1>1, <1>2
  <1> QED
    BY <1>1, <1>2, <1>3, <1>4

\* A report that moves on, to anything but the emission.
LEMMA ReportMoves ==
  ASSUME Counted, NEW c \in Commits, NEW i \in Images,
         UNCHANGED <<records, emitted>>,
         \/ \E pc \in ReportPcs \ {"emit"} : Report(c, i, pc)
         \/ Retry(c, i)
  PROVE  Counted'
  <1>1. \A r \in [pc : ReportPcs, tries : Nat] :
           Again(r) \in [pc : ReportPcs, tries : Nat] /\ Again(r).pc # "emit"
    BY RolloutAssumption DEF Again, ReportPcs
  <1>2. RecordsTyped' /\ \A d \in Commits, j \in Images : Emitting(d, j)' => Emitting(d, j)
    <2>1. ASSUME NEW pc \in ReportPcs \ {"emit"}, Report(c, i, pc)
          PROVE  /\ reports' \in [Commits -> [Images -> [pc : ReportPcs, tries : Nat]]]
                 /\ \A d \in Commits, j \in Images :
                       reports'[d][j].pc = "emit" => reports[d][j].pc = "emit"
      <3>1. /\ reports' \in [Commits -> [Images -> ReportType]]
            /\ reports'[c][i].pc = pc
            /\ \A d \in Commits, j \in Images :
                  (d # c \/ j # i) => reports'[d][j] = reports[d][j]
        <4>1. RecordsTyped /\ pc \in ReportPcs /\ Report(c, i, pc)
          BY <2>1 DEF Counted
        <4> QED
          BY <4>1, OneReport, Zenon
      <3> QED
        BY <3>1 DEF ReportType
    <2>2. ASSUME Retry(c, i)
          PROVE  /\ reports' \in [Commits -> [Images -> [pc : ReportPcs, tries : Nat]]]
                 /\ \A d \in Commits, j \in Images :
                       reports'[d][j].pc = "emit" => reports[d][j].pc = "emit"
      BY <1>1, <2>2 DEF Retry, Counted, RecordsTyped
    <2> QED
      BY <2>1, <2>2 DEF Emitting, Counted, RecordsTyped
  <1> QED
    BY <1>2, CalmCounted

LEMMA OpenCounted ==
  ASSUME Counted, NEW c \in Commits, OpenDeployRecord(c)
  PROVE  Counted'
  <1>0. /\ NoRecord \in [state : {"none", "pending", "ready"}, reported : SUBSET Images]
        /\ NoRecord.state = "none"
    BY DEF NoRecord
  <1>1. UNCHANGED <<reports, emitted>>
    BY DEF OpenDeployRecord
  <1>2. CASE UNCHANGED records
    BY <1>1, <1>2, CalmCounted DEF Counted, RecordsTyped, Emitting
  <1>3. CASE \E stale \in SUBSET {d \in Commits : records[d].state = "pending"} :
               records' = IF Prune(stale)[c].state # "none" THEN Prune(stale)
                          ELSE [Prune(stale) EXCEPT ![c].state = "pending"]
    <2>1. PICK stale \in SUBSET {d \in Commits : records[d].state = "pending"} :
               records' = IF Prune(stale)[c].state # "none" THEN Prune(stale)
                          ELSE [Prune(stale) EXCEPT ![c].state = "pending"]
      BY <1>3
    <2>2. /\ Prune(stale) \in [Commits -> [state : {"none", "pending", "ready"},
                                           reported : SUBSET Images]]
          /\ \A d \in Commits : \/ Prune(stale)[d] = records[d]
                                \/ /\ Prune(stale)[d] = NoRecord
                                   /\ records[d].state = "pending"
      BY <1>0 DEF Prune, Counted, RecordsTyped
    <2>3. /\ records' \in [Commits -> [state : {"none", "pending", "ready"},
                                       reported : SUBSET Images]]
          /\ \A d \in Commits : \/ records'[d] = records[d]
                                \/ /\ records[d].state # "ready"
                                   /\ records'[d].state # "ready"
      BY <1>0, <2>1, <2>2
    <2>4. RecordsTyped'
      BY <1>1, <2>3 DEF Counted, RecordsTyped
    <2> QED
      BY <1>1, <2>3, <2>4, CalmCounted DEF Emitting
  <1> QED
    BY <1>2, <1>3 DEF OpenDeployRecord

LEMMA UpsertCounted ==
  ASSUME Counted, NEW c \in Commits, NEW i \in Images, UpsertDeployImage(c, i)
  PROVE  Counted'
  <1>1. CASE records[c].state = "none"
    BY <1>1, ReportMoves DEF UpsertDeployImage
  <1>2. CASE records[c].state # "none"
    <2>1. /\ records' = [records EXCEPT ![c].reported = records[c].reported \cup {i}]
          /\ reports' = [reports EXCEPT ![c][i].pc = "mark"]
          /\ emitted' = emitted
      BY <1>2 DEF UpsertDeployImage, Report
    <2>2. RecordsTyped'
      <3>1. reports' \in [Commits -> [Images -> ReportType]]
        <4>1. RecordsTyped /\ "mark" \in ReportPcs /\ Report(c, i, "mark")
          BY <2>1 DEF Counted, ReportPcs, Report
        <4> QED
          BY <4>1, OneReport
      <3>2. [records[c] EXCEPT !.reported = records[c].reported \cup {i}]
               \in [state : {"none", "pending", "ready"}, reported : SUBSET Images]
        BY DEF Counted, RecordsTyped
      <3>3. records' \in [Commits -> [state : {"none", "pending", "ready"},
                                       reported : SUBSET Images]]
        BY <2>1, <3>2 DEF Counted, RecordsTyped
      <3> QED
        BY <2>1, <3>1, <3>3 DEF Counted, RecordsTyped, ReportType
    <2>3. \A d \in Commits : /\ records'[d].state = records[d].state
                             /\ records[d].reported \subseteq records'[d].reported
      BY <2>1 DEF Counted, RecordsTyped
    <2>4. \A d \in Commits, j \in Images : Emitting(d, j)' => Emitting(d, j)
      BY <2>1 DEF Counted, RecordsTyped, Emitting
    <2> QED
      BY <2>1, <2>2, <2>3, <2>4, CalmCounted
  <1> QED
    BY <1>1, <1>2

\* The one step that starts an emission: the record turns ready with it.
LEMMA MarkCounted ==
  ASSUME Counted, NEW c \in Commits, NEW i \in Images, MarkReady(c, i)
  PROVE  Counted'
  <1>1. CASE ~NowReady(c)
    <2>1. "done" \in ReportPcs \ {"emit"}
      BY DEF ReportPcs
    <2> QED
      BY <1>1, <2>1, ReportMoves DEF MarkReady
  <1>2. CASE NowReady(c)
    <2>1. /\ records' = [records EXCEPT ![c].state = "ready"]
          /\ reports' = [reports EXCEPT ![c][i].pc = "emit"]
          /\ emitted' = emitted /\ records[c].state = "pending" /\ Complete(c)
      BY <1>2 DEF MarkReady, Report, NowReady
    <2>2. RecordsTyped'
      <3>1. reports' \in [Commits -> [Images -> ReportType]]
        <4>1. RecordsTyped /\ "emit" \in ReportPcs /\ Report(c, i, "emit")
          BY <2>1 DEF Counted, ReportPcs, Report
        <4> QED
          BY <4>1, OneReport
      <3>2. [records[c] EXCEPT !.state = "ready"]
               \in [state : {"none", "pending", "ready"}, reported : SUBSET Images]
        BY DEF Counted, RecordsTyped
      <3>3. records' \in [Commits -> [state : {"none", "pending", "ready"},
                                       reported : SUBSET Images]]
        BY <2>1, <3>2 DEF Counted, RecordsTyped
      <3> QED
        BY <2>1, <3>1, <3>3 DEF Counted, RecordsTyped, ReportType
    <2>3. /\ records'[c].state = "ready" /\ records'[c].reported = records[c].reported
          /\ \A d \in Commits : d # c => records'[d] = records[d]
      BY <2>1 DEF Counted, RecordsTyped
    <2>4. \A d \in Commits, j \in Images :
             reports'[d][j].pc = "emit" => (d = c /\ j = i) \/ reports[d][j].pc = "emit"
      BY <2>1 DEF Counted, RecordsTyped
    <2>5. emitted[c] = << >> /\ \A j \in Images : reports[c][j].pc # "emit"
      BY <2>1 DEF Counted, EmitsWhenReady, Emitting
    <2>6. ReadyIsComplete'
      BY <2>1, <2>3 DEF Counted, ReadyIsComplete, Complete
    <2>7. EmitsWhenReady'
      BY <2>1, <2>3, <2>4 DEF Counted, EmitsWhenReady, Emitting
    <2>8. EmitsAlone'
      BY <2>1, <2>4, <2>5 DEF Counted, EmitsAlone, Emitting
    <2> QED
      BY <2>1, <2>2, <2>6, <2>7, <2>8 DEF Counted, ImagesReadyOnce
  <1> QED
    BY <1>1, <1>2

\* The emission: no other is under way, and none was before.
LEMMA EmitCounted ==
  ASSUME Counted, NEW c \in Commits, NEW i \in Images, Emit(c, i)
  PROVE  Counted'
  <1>1. CASE UNCHANGED emitted
    <2>1. "done" \in ReportPcs \ {"emit"}
      BY DEF ReportPcs
    <2> QED
      BY <1>1, <2>1, ReportMoves DEF Emit
  <1>2. CASE emitted' = [emitted EXCEPT ![c] = Append(emitted[c], records[c].reported)]
    <2>1. /\ reports' = [reports EXCEPT ![c][i].pc = "done"] /\ records' = records
          /\ reports[c][i].pc = "emit"
      BY DEF Emit, Report
    <2>2. /\ emitted[c] = << >> /\ records[c].state = "ready" /\ Complete(c)
          /\ \A j \in Images : reports[c][j].pc = "emit" => i = j
      BY <2>1 DEF Counted, EmitsAlone, EmitsWhenReady, ReadyIsComplete, Emitting
    <2>3. records[c].reported \in SUBSET Images
      BY DEF Counted, RecordsTyped
    <2>4. /\ Append(emitted[c], records[c].reported) \in Seq(SUBSET Images)
          /\ Len(Append(emitted[c], records[c].reported)) = 1
          /\ Append(emitted[c], records[c].reported)[1] = records[c].reported
          /\ DOMAIN Append(emitted[c], records[c].reported) = {1}
      BY <2>2, <2>3
    <2>5. RecordsTyped'
      <3>1. reports' \in [Commits -> [Images -> ReportType]]
        <4>1. RecordsTyped /\ "done" \in ReportPcs /\ Report(c, i, "done")
          BY <2>1 DEF Counted, ReportPcs, Report
        <4> QED
          BY <4>1, OneReport
      <3>2. emitted' \in [Commits -> Seq(SUBSET Images)]
        BY <1>2, <2>4 DEF Counted, RecordsTyped
      <3> QED
        BY <2>1, <3>1, <3>2 DEF Counted, RecordsTyped, ReportType
    <2>6. /\ emitted'[c] = Append(emitted[c], records[c].reported)
          /\ \A d \in Commits : d # c => emitted'[d] = emitted[d]
      BY <1>2 DEF Counted, RecordsTyped
    <2>7. \A d \in Commits, j \in Images :
             reports'[d][j].pc = "emit" => reports[d][j].pc = "emit" /\ d # c
      BY <2>1, <2>2 DEF Counted, RecordsTyped
    <2>8. ReadyIsComplete'
      BY <2>1 DEF Counted, ReadyIsComplete, Complete
    <2>9. EmitsWhenReady'
      BY <2>1, <2>2, <2>6, <2>7 DEF Counted, EmitsWhenReady, Emitting
    <2>10. EmitsAlone'
      BY <2>6, <2>7 DEF Counted, EmitsAlone, Emitting
    <2>11. ImagesReadyOnce'
      <3>1. /\ Len(emitted'[c]) <= 1
            /\ \A n \in DOMAIN emitted'[c] : Affects[c] \subseteq emitted'[c][n]
        BY <2>2, <2>4, <2>6 DEF Complete
      <3>2. ASSUME NEW d \in Commits, d # c
            PROVE  /\ Len(emitted'[d]) <= 1
                   /\ \A n \in DOMAIN emitted'[d] : Affects[d] \subseteq emitted'[d][n]
        BY <2>6, <3>2 DEF Counted, ImagesReadyOnce
      <3> QED
        BY <3>1, <3>2 DEF ImagesReadyOnce
    <2> QED
      BY <2>5, <2>8, <2>9, <2>10, <2>11 DEF Counted
  <1> QED
    BY <1>1, <1>2 DEF Emit

LEMMA RestartCounted == ASSUME Counted, RolloutRestart PROVE Counted'
  <1>1. \A r \in [pc : ReportPcs, tries : Nat] :
           Again(r) \in [pc : ReportPcs, tries : Nat] /\ Again(r).pc # "emit"
    BY RolloutAssumption DEF Again, ReportPcs
  <1>2. /\ UNCHANGED <<records, emitted>>
        /\ reports' = [c \in Commits |-> [i \in Images |->
              IF InHandler(reports[c][i]) THEN Again(reports[c][i]) ELSE reports[c][i]]]
    BY DEF RolloutRestart
  <1>3. /\ reports' \in [Commits -> [Images -> [pc : ReportPcs, tries : Nat]]]
        /\ \A c \in Commits, i \in Images :
              reports'[c][i].pc = "emit" => reports[c][i].pc = "emit"
    BY <1>1, <1>2 DEF Counted, RecordsTyped
  <1> QED
    BY <1>2, <1>3, CalmCounted DEF Counted, RecordsTyped, Emitting

LEMMA StartCounted ==
  ASSUME Counted, NEW c \in Commits, StartBuild(c)
  PROVE  Counted'
  <1>1. PICK i \in Affects[c] : Report(c, i, "get")
    BY DEF StartBuild, Report
  <1>2. i \in Images /\ "get" \in ReportPcs \ {"emit"}
    BY RolloutAssumption DEF ReportPcs
  <1> QED
    BY <1>1, <1>2, ReportMoves DEF StartBuild

LEMMA NextCounted ==
  ASSUME Counted, [RolloutNext]_allVars
  PROVE  Counted'
  <1>0. CASE UNCHANGED <<records, reports, emitted>>
    BY <1>0, CalmCounted DEF Counted, RecordsTyped, Emitting
  <1>1. ASSUME NEW c \in Commits, MarkLanded(c) \/ EnqueueLanded(c) PROVE Counted'
    BY <1>0, <1>1 DEF MarkLanded, EnqueueLanded
  <1>2. ASSUME NEW c \in Commits, NEW i \in Images, GetRecord(c, i) PROVE Counted'
    <2>1. "failed" \in ReportPcs \ {"emit"} /\ "upsert" \in ReportPcs \ {"emit"}
      BY DEF ReportPcs
    <2> QED
      BY <1>2, <2>1, ReportMoves DEF GetRecord
  <1>3. ASSUME NEW c \in Commits, NEW i \in Images, ReportFails(c, i) PROVE Counted'
    BY <1>3, ReportMoves DEF ReportFails
  <1>4. ASSUME WorkerStep \/ TimePasses \/ (RecordFails /\ UNCHANGED rolloutVars)
        PROVE  Counted'
    BY <1>0, <1>4 DEF WorkerStep, TimePasses, rolloutVars
  <1>5. CASE UNCHANGED allVars
    BY <1>0, <1>5 DEF allVars, rolloutVars
  <1> QED
    BY <1>1, <1>2, <1>3, <1>4, <1>5, OpenCounted, UpsertCounted, MarkCounted,
       EmitCounted, RestartCounted, StartCounted
    DEF RolloutNext, LandTail, ReportStep

----------------------------------------------------------------------------
\* "The row succeeds only when every configured target did": an event marked
\* delivered has reached the URL and, where it triggers CI, GitHub, for any
\* events, deployments, failures, retries and restarts (OutboxWorker.attempt).
THEOREM DeliveredReachedAll == RolloutSpec => []DeliveredEverywhere
  <1>1. RolloutInit => Delivering
    BY InitDelivering
  <1>2. Delivering /\ [RolloutNext]_allVars => Delivering'
    BY NextDelivering
  <1>3. Delivering => DeliveredEverywhere
    BY DEF Delivering
  <1> QED
    BY <1>1, <1>2, <1>3, PTL DEF RolloutSpec

\* The rollout of a commit is triggered once, with every image its land
\* affects, for any number of images reported side by side, of lost answers,
\* retries, prunings and restarts (RecordDeployImage, MarkDeployReadyIfComplete).
THEOREM RolloutsTriggerOnce == RolloutSpec => []ImagesReadyOnce
  <1>1. RolloutInit => Counted
    BY InitCounted
  <1>2. Counted /\ [RolloutNext]_allVars => Counted'
    BY NextCounted
  <1>3. Counted => ImagesReadyOnce
    BY DEF Counted
  <1> QED
    BY <1>1, <1>2, <1>3, PTL DEF RolloutSpec

----------------------------------------------------------------------------
(* The invite desk.                                                         *)

InviteShape == {"address", "status", "attempt", "wait"}

\* What a table of rows looks like; what a row holds does not matter.
Table(t) ==
    /\ \E S : t \in Seq(S)
    /\ \A n \in DOMAIN t : DOMAIN t[n] = InviteShape

VisitType == [pc : {"idle", "count", "create"}, address : Addresses \cup {NoAddress}]

PollType == [pc : {"idle", "send", "ack"}, todo : SUBSET (DOMAIN invites), at : Nat,
             ok : BOOLEAN, reason : BOOLEAN]

Typed ==
    /\ Table(invites)
    /\ intake \in [Visitors -> VisitType]
    /\ submitted \in 0 .. MaxInvites /\ revived \in Nat
    /\ ages \in [1 .. MaxInvites -> Nat]
    /\ hits \in [Peers -> SUBSET (1 .. MaxInvites)]
    /\ admitted \in [Peers -> SUBSET (1 .. MaxInvites)]
    /\ poll \in PollType /\ (poll.pc = "ack" => poll.at \in DOMAIN invites)
    /\ \A ack \in lateAcks : ack.row \in DOMAIN invites /\ ack.ok \in BOOLEAN

----------------------------------------------------------------------------
(* Tables.                                                                 *)

LEMMA TableFacts ==
  ASSUME NEW t, Table(t)
  PROVE  /\ Len(t) \in Nat /\ DOMAIN t = 1 .. Len(t)
         /\ IsFiniteSet(DOMAIN t) /\ DOMAIN t \subseteq Nat
  <1>1. PICK S : t \in Seq(S)
    BY DEF Table
  <1>2. Len(t) \in Nat /\ DOMAIN t = 1 .. Len(t)
    BY <1>1, LenProperties
  <1>3. IsFiniteSet(1 .. Len(t))
    BY <1>2, FS_Interval
  <1> QED
    BY <1>2, <1>3

\* Rows are rewritten ...
LEMMA Rewritten ==
  ASSUME NEW t, Table(t), NEW u, DOMAIN u = DOMAIN t, u = [n \in DOMAIN t |-> u[n]],
         \A n \in DOMAIN u : DOMAIN u[n] = InviteShape
  PROVE  Table(u)
  <1> DEFINE S == {u[n] : n \in DOMAIN t}
  <1>1. Len(t) \in Nat /\ DOMAIN t = 1 .. Len(t)
    BY TableFacts
  <1>2. u \in [DOMAIN t -> S]
    OBVIOUS
  <1> HIDE DEF S
  <1>3. u \in Seq(S)
    BY <1>1, <1>2, SeqDef
  <1> QED
    BY <1>3 DEF Table

\* ... or one is added.
LEMMA Added ==
  ASSUME NEW t, Table(t), NEW row, DOMAIN row = InviteShape
  PROVE  /\ Table(Append(t, row))
         /\ DOMAIN Append(t, row) = DOMAIN t \cup {Len(t) + 1}
         /\ Append(t, row)[Len(t) + 1] = row
         /\ \A n \in DOMAIN t : Append(t, row)[n] = t[n]
  <1>0. PICK u : u = Append(t, row)
    OBVIOUS
  <1>1. PICK S : t \in Seq(S)
    BY DEF Table
  <1> DEFINE T == S \cup {row}
  <1>2. t \in Seq(T) /\ row \in T
    BY <1>1, SeqMonotonic
  <1> HIDE DEF T
  <1>3. /\ u \in Seq(T) /\ Len(u) = Len(t) + 1
        /\ \A n \in 1 .. Len(t) : u[n] = t[n]
        /\ u[Len(t) + 1] = row
    BY <1>0, <1>2, AppendProperties
  <1>4. Len(t) \in Nat /\ DOMAIN t = 1 .. Len(t)
    BY TableFacts
  <1>5. DOMAIN u = 1 .. Len(u)
    BY <1>3, LenProperties
  <1>6. DOMAIN u = DOMAIN t \cup {Len(t) + 1}
    BY <1>3, <1>4, <1>5
  <1>7. \A n \in DOMAIN u : DOMAIN u[n] = InviteShape
    BY <1>3, <1>4, <1>6 DEF Table
  <1> QED
    BY <1>0, <1>3, <1>4, <1>6, <1>7 DEF Table

\* What an ack does to the table: nothing, or its row is sent, or its row failed.
LEMMA AppliedEffect ==
  ASSUME Typed, NEW ack, ack.row \in DOMAIN invites, ack.ok \in BOOLEAN,
         NEW u, u = Applied(ack)
  PROVE  /\ Table(u) /\ DOMAIN u = DOMAIN invites
         /\ \A n \in DOMAIN invites : n # ack.row => u[n] = invites[n]
         /\ \/ u[ack.row] = invites[ack.row]
            \/ u[ack.row].status = "sent" /\ ack.ok
            \/ u[ack.row].status \in {"failed", "dead_letter"}
  <1>1. Table(invites) /\ DOMAIN invites[ack.row] = InviteShape
    BY DEF Typed, Table
  <1>2. PICK failed : failed = Failed(invites[ack.row], 0)
    OBVIOUS
  <1>3. DOMAIN failed = InviteShape /\ failed.status \in {"failed", "dead_letter"}
    BY <1>1, <1>2 DEF Failed, InviteShape
  <1>4. PICK sent : sent = [invites[ack.row] EXCEPT !.status = "sent"]
    OBVIOUS
  <1>5. DOMAIN sent = InviteShape /\ sent.status = "sent"
    BY <1>1, <1>4 DEF InviteShape
  <1>6. \/ ack.ok /\ u = [invites EXCEPT ![ack.row] = sent]
        \/ u = invites
        \/ u = [invites EXCEPT ![ack.row] = failed]
    BY <1>2, <1>4 DEF Applied, FailsRow
  <1>7. ASSUME NEW row, DOMAIN row = InviteShape, u = [invites EXCEPT ![ack.row] = row]
        PROVE  /\ Table(u) /\ DOMAIN u = DOMAIN invites /\ u[ack.row] = row
               /\ \A n \in DOMAIN invites : n # ack.row => u[n] = invites[n]
    <2>1. /\ DOMAIN u = DOMAIN invites /\ u = [n \in DOMAIN invites |-> u[n]]
          /\ u[ack.row] = row
          /\ \A n \in DOMAIN invites : n # ack.row => u[n] = invites[n]
      BY <1>7
    <2>2. \A n \in DOMAIN u : DOMAIN u[n] = InviteShape
      BY <1>1, <1>7, <2>1 DEF Table
    <2> QED
      BY <1>1, <2>1, <2>2, Rewritten
  <1>8. CASE u = invites
    BY <1>1, <1>8
  <1>9. CASE ack.ok /\ u = [invites EXCEPT ![ack.row] = sent]
    BY <1>5, <1>7, <1>9
  <1>10. CASE u = [invites EXCEPT ![ack.row] = failed]
    BY <1>3, <1>7, <1>10
  <1> QED
    BY <1>6, <1>8, <1>9, <1>10

\* What a tick does to it: nothing but to the waits.
LEMMA InviteTickEffect ==
  ASSUME Typed, InviteTick
  PROVE  /\ Table(invites') /\ DOMAIN invites' = DOMAIN invites
         /\ \A n \in DOMAIN invites : invites'[n].status = invites[n].status
  <1>1. invites' = [n \in DOMAIN invites |->
                      IF invites[n].wait = 0 THEN invites[n]
                      ELSE [invites[n] EXCEPT !.wait = invites[n].wait - 1]]
    BY DEF InviteTick
  <1>2. \A n \in DOMAIN invites : DOMAIN invites[n] = InviteShape
    BY DEF Typed, Table
  <1>3. /\ DOMAIN invites' = DOMAIN invites
        /\ invites' = [n \in DOMAIN invites |-> invites'[n]]
        /\ \A n \in DOMAIN invites :
              /\ DOMAIN invites'[n] = InviteShape
              /\ invites'[n].status = invites[n].status
    BY <1>1, <1>2 DEF InviteShape
  <1>4. Table(invites')
    BY <1>3, Rewritten DEF Typed
  <1> QED
    BY <1>3, <1>4

----------------------------------------------------------------------------
(* Types.                                                                  *)

\* The mailer and the feed.
MailSide == ListDue \/ Send \/ PollEnds \/ Ack \/ LateAck \/ MailerRestart

LEMMA InitTyped == ASSUME InviteInit PROVE Typed
  <1>1. Table(<< >>)
    <2>1. << >> \in Seq({}) /\ DOMAIN << >> = {}
      BY EmptySeq
    <2> QED
      BY <2>1 DEF Table
  <1>2. NoPoll \in PollType /\ NoPoll.pc = "idle"
    BY DEF NoPoll, PollType
  <1>3. RateWindow \in Nat /\ 0 \in Nat /\ 0 \in 0 .. MaxInvites
    BY InviteAssumption
  <1>4. NoVisit \in VisitType
    BY DEF NoVisit, VisitType
  <1> QED
    BY <1>1, <1>2, <1>3, <1>4 DEF InviteInit, Typed

\* The limiter lets a submission in, or does not.
LEMMA SubmitEffect ==
  ASSUME Typed, NEW v \in Visitors, NEW p \in Peers, NEW a \in Addresses, Submit(v, p, a)
  PROVE  /\ submitted' = submitted + 1 /\ submitted' \in 1 .. MaxInvites
         /\ \/ /\ Cardinality(KeptHits(hits[p])) >= RateLimit
               /\ hits' = [hits EXCEPT ![p] = KeptHits(hits[p])]
               /\ UNCHANGED <<intake, ages, admitted>>
            \/ /\ ~(Cardinality(KeptHits(hits[p])) >= RateLimit)
               /\ hits' = [hits EXCEPT ![p] = KeptHits(hits[p]) \cup {submitted + 1}]
               /\ ages' = [ages EXCEPT ![submitted + 1] = 0]
               /\ admitted' = [admitted EXCEPT ![p] = admitted[p] \cup {submitted + 1}]
               /\ intake[v].pc = "idle"
               /\ intake' = [intake EXCEPT ![v] = [pc |-> "count", address |-> a]]
         /\ UNCHANGED <<invites, poll, lateAcks, mailed, revived>>
  BY InviteAssumption DEF Submit, Typed

LEMMA SubmitTyped ==
  ASSUME Typed, NEW v \in Visitors, NEW p \in Peers, NEW a \in Addresses, Submit(v, p, a)
  PROVE  Typed'
  <1>1. /\ submitted' \in 0 .. MaxInvites /\ submitted + 1 \in 1 .. MaxInvites
        /\ UNCHANGED <<invites, poll, lateAcks, revived>>
    BY SubmitEffect, InviteAssumption DEF Typed
  <1>2. hits' \in [Peers -> SUBSET (1 .. MaxInvites)]
    <2>1. KeptHits(hits[p]) \subseteq 1 .. MaxInvites
      BY DEF Typed, KeptHits
    <2> QED
      BY <1>1, <2>1, SubmitEffect DEF Typed
  <1>3. admitted' \in [Peers -> SUBSET (1 .. MaxInvites)]
    BY <1>1, SubmitEffect DEF Typed
  <1>4. ages' \in [1 .. MaxInvites -> Nat]
    BY <1>1, SubmitEffect DEF Typed
  <1>5. intake' \in [Visitors -> VisitType]
    <2>1. PICK visit : visit = [pc |-> "count", address |-> a]
      OBVIOUS
    <2>2. visit \in VisitType
      BY <2>1 DEF VisitType
    <2>3. intake' = intake \/ intake' = [intake EXCEPT ![v] = visit]
      BY <2>1, SubmitEffect
    <2> QED
      BY <2>2, <2>3 DEF Typed
  <1> QED
    BY <1>1, <1>2, <1>3, <1>4, <1>5 DEF Typed, PollType

\* A row comes in: at the end, and live.
LEMMA CreateEffect ==
  ASSUME Typed, NEW v \in Visitors, CreateInviteRequest(v)
  PROVE  /\ Table(invites') /\ DOMAIN invites \subseteq DOMAIN invites'
         /\ \A n \in DOMAIN invites : invites'[n] = invites[n]
         /\ \E new : DOMAIN invites' \subseteq DOMAIN invites \cup {new}
         /\ \A n \in DOMAIN invites' : n \notin DOMAIN invites => invites'[n].status = "pending"
  <1>1. PICK row : row = [address |-> intake[v].address, status |-> "pending",
                          attempt |-> 0, wait |-> 0]
    OBVIOUS
  <1>2. DOMAIN row = InviteShape /\ row.status = "pending"
    BY <1>1 DEF InviteShape
  <1>3. invites' = invites \/ invites' = Append(invites, row)
    BY <1>1 DEF CreateInviteRequest
  <1>4. CASE invites' = invites
    BY <1>4 DEF Typed
  <1>5. CASE invites' = Append(invites, row)
    <2>0. Table(invites)
      BY DEF Typed
    <2>1. /\ Table(invites')
          /\ DOMAIN invites' = DOMAIN invites \cup {Len(invites) + 1}
          /\ invites'[Len(invites) + 1] = row
          /\ \A n \in DOMAIN invites : invites'[n] = invites[n]
      BY <1>2, <1>5, <2>0, Added
    <2> QED
      BY <1>2, <2>1
  <1> QED
    BY <1>3, <1>4, <1>5

\* The ack of a poll, as it is handed on.
ThisAck == [row |-> poll.at, ok |-> poll.ok, reason |-> poll.reason]

LEMMA MailTyped ==
  ASSUME Typed, MailSide
  PROVE  Typed' /\ UNCHANGED <<intake, submitted, hits, ages, admitted>>
  <1>1. UNCHANGED <<intake, submitted, hits, ages, admitted>>
    BY Zenon DEF MailSide, ListDue, Send, PollEnds, Ack, LateAck, MailerRestart, limiterVars
  <1> SUFFICES Typed'
    BY <1>1
  <1>2. NoPoll \in PollType /\ NoPoll.pc = "idle" /\ poll \in PollType
    BY DEF NoPoll, PollType, Typed
  <1>3. ASSUME UNCHANGED <<invites, lateAcks, revived>>, poll' \in PollType,
               poll'.pc = "ack" => poll'.at \in DOMAIN invites
        PROVE  Typed'
    BY <1>1, <1>3 DEF Typed, PollType
  <1>4. CASE ListDue
    <2>1. /\ poll' = [NoPoll EXCEPT !.pc = "send", !.todo = DueInvites]
          /\ UNCHANGED <<invites, lateAcks, revived>> /\ DueInvites \subseteq DOMAIN invites
      BY <1>4 DEF ListDue, DueInvites, LiveRows
    <2>2. poll' \in PollType /\ poll'.pc = "send"
      BY <2>1 DEF NoPoll, PollType
    <2> QED
      BY <1>3, <2>1, <2>2
  <1>5. CASE Send
    <2>1. PICK row \in poll.todo, ok \in BOOLEAN, reason \in BOOLEAN :
             poll' = [pc |-> "ack", todo |-> poll.todo \ {row}, at |-> row,
                      ok |-> ok, reason |-> reason]
      BY <1>5 DEF Send
    <2>2. row \in DOMAIN invites /\ row \in Nat /\ poll.todo \subseteq DOMAIN invites
      BY <1>2, <2>1, TableFacts DEF PollType, Typed
    <2>3. poll' \in PollType /\ poll'.at \in DOMAIN invites
      BY <2>1, <2>2 DEF PollType
    <2> QED
      BY <1>3, <1>5, <2>3 DEF Send
  <1>6. CASE PollEnds \/ MailerRestart
    BY <1>2, <1>3, <1>6 DEF PollEnds, MailerRestart
  <1>7. ASSUME NEW ack, ack.row \in DOMAIN invites, ack.ok \in BOOLEAN, Records(ack)
        PROVE  Table(invites') /\ DOMAIN invites' = DOMAIN invites /\ revived' \in Nat
    <2>1. Table(invites') /\ DOMAIN invites' = DOMAIN invites
      BY <1>7, AppliedEffect DEF Records
    <2>2. revived' \in Nat
      BY <1>7 DEF Records, Typed
    <2> QED
      BY <2>1, <2>2
  <1>8. CASE Ack
    <2>1. /\ ThisAck.row \in DOMAIN invites /\ ThisAck.ok \in BOOLEAN
          /\ poll' = [NoPoll EXCEPT !.pc = "send", !.todo = poll.todo]
          /\ \/ Records(ThisAck) /\ lateAcks' = lateAcks
             \/ /\ UNCHANGED <<invites, revived>>
                /\ lateAcks' = lateAcks \/ lateAcks' = lateAcks \cup {ThisAck}
      BY <1>2, <1>8 DEF Ack, ThisAck, Typed, PollType
    <2>2. /\ Table(invites') /\ DOMAIN invites' = DOMAIN invites /\ revived' \in Nat
          /\ \A ack \in lateAcks' : ack.row \in DOMAIN invites /\ ack.ok \in BOOLEAN
      BY <1>7, <2>1 DEF Typed
    <2>3. poll' \in PollType' /\ poll'.pc = "send"
      BY <1>2, <2>1, <2>2 DEF NoPoll, PollType
    <2> QED
      BY <1>1, <2>2, <2>3 DEF Typed
  <1>9. CASE LateAck
    <2>1. PICK ack \in lateAcks : Records(ack) /\ lateAcks' = lateAcks \ {ack}
      BY <1>9 DEF LateAck
    <2>2. ack.row \in DOMAIN invites /\ ack.ok \in BOOLEAN
      BY <2>1 DEF Typed
    <2>3. Table(invites') /\ DOMAIN invites' = DOMAIN invites /\ revived' \in Nat
      BY <1>7, <2>1, <2>2
    <2>4. poll' = poll
      BY <1>9 DEF LateAck
    <2> QED
      BY <1>1, <2>1, <2>3, <2>4 DEF Typed, PollType
  <1> QED
    BY <1>4, <1>5, <1>6, <1>8, <1>9 DEF MailSide

LEMMA NextTyped == ASSUME Typed, [InviteNext]_inviteVars PROVE Typed'
  <1>1. ASSUME NEW v \in Visitors, CountBacklog(v) PROVE Typed'
    <2>1. /\ intake' = [intake EXCEPT ![v] = IF BacklogFull THEN NoVisit
                                             ELSE [intake[v] EXCEPT !.pc = "create"]]
          /\ UNCHANGED <<invites, submitted, limiterVars, poll, lateAcks, mailed, revived>>
      BY <1>1 DEF CountBacklog
    <2>2. intake' \in [Visitors -> VisitType]
      BY <2>1 DEF Typed, NoVisit, VisitType
    <2> QED
      BY <2>1, <2>2 DEF Typed, PollType, limiterVars
  <1>2. ASSUME NEW v \in Visitors, CreateInviteRequest(v) PROVE Typed'
    <2>1. /\ intake' = [intake EXCEPT ![v] = NoVisit]
          /\ UNCHANGED <<submitted, limiterVars, poll, lateAcks, mailed, revived>>
      BY <1>2 DEF CreateInviteRequest
    <2>2. intake' \in [Visitors -> VisitType]
      BY <2>1 DEF Typed, NoVisit, VisitType
    <2>3. Table(invites') /\ DOMAIN invites \subseteq DOMAIN invites'
      BY <1>2, CreateEffect
    <2>4. poll \in PollType'
      BY <2>3 DEF Typed, PollType
    <2> QED
      BY <2>1, <2>2, <2>3, <2>4 DEF Typed, limiterVars
  <1>3. ASSUME NEW v \in Visitors, NEW p \in Peers, NEW a \in Addresses, Submit(v, p, a)
        PROVE  Typed'
    BY <1>3, SubmitTyped
  <1>4. CASE MailSide
    BY <1>4, MailTyped
  <1>5. CASE InviteTick
    <2>1. /\ ages' = [n \in 1 .. MaxInvites |-> IF ages[n] < RateWindow THEN ages[n] + 1
                                                ELSE ages[n]]
          /\ admitted' = [p \in Peers |-> {n \in admitted[p] : ages'[n] < RateWindow}]
          /\ UNCHANGED <<intake, submitted, hits, poll, lateAcks, mailed, revived>>
      BY <1>5 DEF InviteTick
    <2>2. ages' \in [1 .. MaxInvites -> Nat]
      BY <2>1 DEF Typed
    <2>3. admitted' \in [Peers -> SUBSET (1 .. MaxInvites)]
      BY <2>1 DEF Typed
    <2>4. Table(invites') /\ DOMAIN invites' = DOMAIN invites
      BY <1>5, InviteTickEffect
    <2> QED
      BY <2>1, <2>2, <2>3, <2>4 DEF Typed, PollType
  <1>6. CASE UNCHANGED inviteVars
    BY <1>6 DEF inviteVars, Typed, PollType
  <1>7. CASE RunkodRestart
    <2>1. /\ hits' \in [Peers -> SUBSET (1 .. MaxInvites)]
          /\ admitted' \in [Peers -> SUBSET (1 .. MaxInvites)]
          /\ intake' \in [Visitors -> VisitType]
      BY <1>7 DEF RunkodRestart, NoVisit, VisitType
    <2> QED
      BY <1>7, <2>1 DEF RunkodRestart, Typed, PollType
  <1> QED
    BY <1>1, <1>2, <1>3, <1>4, <1>5, <1>6, <1>7 DEF InviteNext, Visit, MailerStep, MailSide

----------------------------------------------------------------------------
(* Sent means mailed.                                                      *)

\* An ack that says so is about a row whose email went out.
AcksHonest ==
    /\ poll.pc = "ack" /\ poll.ok => poll.at \in mailed
    /\ \A ack \in lateAcks : ack.ok => ack.row \in mailed

MailHonest == AcksHonest /\ SentWasMailed

LEMMA RecordsHonest ==
  ASSUME Typed, SentWasMailed, NEW ack, ack.row \in DOMAIN invites, ack.ok \in BOOLEAN,
         ack.ok => ack.row \in mailed, Records(ack), mailed' = mailed
  PROVE  SentWasMailed'
  <1>1. /\ DOMAIN invites' = DOMAIN invites
        /\ \A n \in DOMAIN invites : n # ack.row => invites'[n] = invites[n]
        /\ \/ invites'[ack.row] = invites[ack.row]
           \/ invites'[ack.row].status = "sent" /\ ack.ok
           \/ invites'[ack.row].status \in {"failed", "dead_letter"}
    BY AppliedEffect DEF Records
  <1> QED
    BY <1>1 DEF SentWasMailed

LEMMA NextHonest ==
  ASSUME Typed, MailHonest, [InviteNext]_inviteVars
  PROVE  MailHonest'
  <1>0. AcksHonest /\ SentWasMailed /\ NoPoll.pc = "idle"
    BY DEF MailHonest, NoPoll
  <1>1. ASSUME UNCHANGED <<invites, poll, lateAcks, mailed>> PROVE MailHonest'
    BY <1>0, <1>1 DEF MailHonest, AcksHonest, SentWasMailed
  <1>2. ASSUME NEW v \in Visitors, CreateInviteRequest(v) PROVE MailHonest'
    <2>1. /\ \A n \in DOMAIN invites : invites'[n] = invites[n]
          /\ \A n \in DOMAIN invites' : n \notin DOMAIN invites => invites'[n].status = "pending"
          /\ UNCHANGED <<poll, lateAcks, mailed>>
      BY <1>2, CreateEffect DEF CreateInviteRequest
    <2> QED
      BY <1>0, <2>1 DEF MailHonest, AcksHonest, SentWasMailed
  <1>3. CASE InviteTick
    <2>1. /\ DOMAIN invites' = DOMAIN invites
          /\ \A n \in DOMAIN invites : invites'[n].status = invites[n].status
          /\ UNCHANGED <<poll, lateAcks, mailed>>
      BY <1>3, InviteTickEffect DEF InviteTick
    <2> QED
      BY <1>0, <2>1 DEF MailHonest, AcksHonest, SentWasMailed
  <1>4. CASE ListDue \/ PollEnds \/ MailerRestart
    <2>1. poll'.pc # "ack" /\ UNCHANGED <<invites, lateAcks, mailed>>
      <3>1. CASE ListDue
        BY <3>1 DEF ListDue, NoPoll
      <3>2. CASE PollEnds \/ MailerRestart
        BY <1>0, <3>2 DEF PollEnds, MailerRestart
      <3> QED
        BY <1>4, <3>1, <3>2
    <2> QED
      BY <1>0, <2>1 DEF MailHonest, AcksHonest, SentWasMailed
  <1>5. CASE Send
    <2>1. /\ mailed \subseteq mailed' /\ (poll'.ok => poll'.at \in mailed')
          /\ UNCHANGED <<invites, lateAcks>>
      BY <1>5 DEF Send
    <2> QED
      BY <1>0, <2>1 DEF MailHonest, AcksHonest, SentWasMailed
  <1>6. CASE Ack
    <2>1. /\ ThisAck.row \in DOMAIN invites /\ ThisAck.ok \in BOOLEAN
          /\ ThisAck.ok => ThisAck.row \in mailed
          /\ poll' = [NoPoll EXCEPT !.pc = "send", !.todo = poll.todo]
          /\ mailed' = mailed
          /\ \/ Records(ThisAck) /\ lateAcks' = lateAcks
             \/ /\ UNCHANGED <<invites, revived>>
                /\ lateAcks' = lateAcks \/ lateAcks' = lateAcks \cup {ThisAck}
      BY <1>0, <1>6 DEF Ack, ThisAck, AcksHonest, Typed, PollType
    <2>2. SentWasMailed'
      BY <1>0, <2>1, RecordsHonest DEF SentWasMailed
    <2>3. AcksHonest'
      BY <1>0, <2>1 DEF NoPoll, AcksHonest
    <2> QED
      BY <2>2, <2>3 DEF MailHonest
  <1>7. CASE LateAck
    <2>1. PICK ack \in lateAcks : Records(ack) /\ lateAcks' = lateAcks \ {ack}
      BY <1>7 DEF LateAck
    <2>2. /\ ack.row \in DOMAIN invites /\ ack.ok \in BOOLEAN
          /\ ack.ok => ack.row \in mailed
          /\ UNCHANGED <<poll, mailed>>
      BY <1>0, <1>7, <2>1 DEF AcksHonest, Typed, LateAck
    <2>3. SentWasMailed'
      BY <1>0, <2>1, <2>2, RecordsHonest
    <2>4. AcksHonest'
      BY <1>0, <2>1, <2>2 DEF AcksHonest
    <2> QED
      BY <2>3, <2>4 DEF MailHonest
  <1>8. ASSUME NEW v \in Visitors, CountBacklog(v) PROVE MailHonest'
    BY <1>1, <1>8 DEF CountBacklog
  <1>9. ASSUME NEW v \in Visitors, NEW p \in Peers, NEW a \in Addresses, Submit(v, p, a)
        PROVE  MailHonest'
    BY <1>1, <1>9 DEF Submit
  <1>10. CASE UNCHANGED inviteVars
    BY <1>1, <1>10 DEF inviteVars
  <1>11. CASE RunkodRestart
    BY <1>0, <1>11 DEF RunkodRestart, MailHonest, AcksHonest, SentWasMailed
  <1> QED
    BY <1>2, <1>3, <1>4, <1>5, <1>6, <1>7, <1>8, <1>9, <1>10, <1>11
    DEF InviteNext, Visit, MailerStep

----------------------------------------------------------------------------
(* The backlog keeps to its cap.                                           *)

\* The intakes that passed the count.
Creating == {v \in Visitors : intake[v].pc = "create"}

\* An intake that passed the count has room, or it passed together with others.
Room == Cardinality(LiveRows) + Cardinality(Creating)
           <= BacklogCap + Cardinality(Visitors) - 1 + revived

LEMMA Finite ==
  ASSUME Typed
  PROVE  /\ IsFiniteSet(LiveRows) /\ Cardinality(LiveRows) \in Nat
         /\ IsFiniteSet(Creating) /\ Cardinality(Creating) \in Nat
         /\ Cardinality(Creating) <= Cardinality(Visitors)
         /\ Cardinality(Visitors) \in Nat /\ Cardinality(Visitors) > 0
         /\ BacklogCap \in Nat /\ revived \in Nat
  <1>1. IsFiniteSet(DOMAIN invites) /\ LiveRows \subseteq DOMAIN invites
    BY TableFacts DEF Typed, LiveRows
  <1>2. IsFiniteSet(LiveRows)
    BY <1>1, FS_Subset
  <1>3. IsFiniteSet(Visitors) /\ Visitors # {} /\ Creating \subseteq Visitors
    BY InviteAssumption DEF Creating
  <1>4. IsFiniteSet(Creating) /\ Cardinality(Creating) <= Cardinality(Visitors)
    BY <1>3, FS_Subset
  <1>5. Cardinality(Visitors) \in Nat /\ Cardinality(Visitors) # 0
    BY <1>3, FS_CardinalityType, FS_EmptySet
  <1>6. Cardinality(LiveRows) \in Nat /\ Cardinality(Creating) \in Nat
    BY <1>2, <1>4, FS_CardinalityType
  <1> QED
    BY <1>2, <1>4, <1>5, <1>6, InviteAssumption DEF Typed

\* The live rows become fewer, or one of them is new.
LEMMA FewerLive ==
  ASSUME Typed, NEW live, live \subseteq LiveRows
  PROVE  Cardinality(live) \in Nat /\ Cardinality(live) <= Cardinality(LiveRows)
  BY Finite, FS_Subset, FS_CardinalityType

LEMMA OneMoreLive ==
  ASSUME Typed, NEW live, NEW new, live \subseteq LiveRows \cup {new}
  PROVE  Cardinality(live) \in Nat /\ Cardinality(live) <= Cardinality(LiveRows) + 1
  <1>1. /\ IsFiniteSet(LiveRows \cup {new})
        /\ Cardinality(LiveRows \cup {new}) <= Cardinality(LiveRows) + 1
        /\ Cardinality(LiveRows \cup {new}) \in Nat
    <2>1. IsFiniteSet(LiveRows) /\ Cardinality(LiveRows) \in Nat
      BY Finite
    <2>2. /\ IsFiniteSet(LiveRows \cup {new})
          /\ Cardinality(LiveRows \cup {new}) = IF new \in LiveRows THEN Cardinality(LiveRows)
                                                ELSE Cardinality(LiveRows) + 1
      BY <2>1, FS_AddElement, Zenon
    <2> QED
      BY <2>1, <2>2
  <1>2. /\ Cardinality(live) <= Cardinality(LiveRows \cup {new}) /\ IsFiniteSet(live)
    BY <1>1, FS_Subset
  <1> QED
    BY <1>1, <1>2, Finite, FS_CardinalityType

\* An ack makes no row live, but for the ones it counts.
LEMMA RecordsRoom ==
  ASSUME Typed, Room, NEW ack, ack.row \in DOMAIN invites, ack.ok \in BOOLEAN,
         Records(ack), intake' = intake
  PROVE  Room'
  <1>1. /\ DOMAIN invites' = DOMAIN invites
        /\ \A n \in DOMAIN invites : n # ack.row => invites'[n] = invites[n]
    BY AppliedEffect DEF Records
  <1>2. Cardinality(Creating') = Cardinality(Creating)
    BY DEF Creating
  <1>3. CASE revived' = revived + 1
    <2>1. LiveRows' \subseteq LiveRows \cup {ack.row}
      BY <1>1 DEF LiveRows, Live
    <2>2. /\ Cardinality(LiveRows') \in Nat
          /\ Cardinality(LiveRows') <= Cardinality(LiveRows) + 1
      BY <2>1, OneMoreLive
    <2> QED
      BY <1>2, <1>3, <2>2, Finite DEF Room
  <1>4. CASE revived' = revived /\ (Live(invites[ack.row]) \/ ~Live(invites'[ack.row]))
    <2>1. LiveRows' \subseteq LiveRows
      BY <1>1, <1>4 DEF LiveRows, Live
    <2>2. Cardinality(LiveRows') \in Nat /\ Cardinality(LiveRows') <= Cardinality(LiveRows)
      BY <2>1, FewerLive
    <2> QED
      BY <1>2, <1>4, <2>2, Finite DEF Room
  <1> QED
    BY <1>3, <1>4 DEF Records

LEMMA NextRoom ==
  ASSUME Typed, Room, [InviteNext]_inviteVars
  PROVE  Room'
  <1>1. ASSUME UNCHANGED <<invites, revived>>, Creating' = Creating PROVE Room'
    <2>1. LiveRows' = LiveRows
      BY <1>1 DEF LiveRows
    <2> QED
      BY <1>1, <2>1 DEF Room
  <1>2. ASSUME NEW v \in Visitors, NEW p \in Peers, NEW a \in Addresses, Submit(v, p, a)
        PROVE  Room'
    <2>1. UNCHANGED <<invites, revived>>
      BY <1>2, SubmitEffect
    <2>2. \/ intake' = intake
          \/ /\ intake[v].pc = "idle"
             /\ intake' = [intake EXCEPT ![v] = [pc |-> "count", address |-> a]]
      BY <1>2, SubmitEffect
    <2>3. Creating' = Creating
      BY <2>2 DEF Creating, Typed
    <2> QED
      BY <1>1, <2>1, <2>3
  <1>3. ASSUME NEW v \in Visitors, CountBacklog(v) PROVE Room'
    <2>1. /\ intake' = [intake EXCEPT ![v] = IF BacklogFull THEN NoVisit
                                             ELSE [intake[v] EXCEPT !.pc = "create"]]
          /\ intake[v].pc = "count" /\ UNCHANGED <<invites, revived>>
      BY <1>3 DEF CountBacklog
    <2>2. CASE BacklogFull
      <3>1. Creating' = Creating
        BY <2>1, <2>2 DEF Creating, Typed, NoVisit
      <3> QED
        BY <1>1, <2>1, <3>1
    <2>3. CASE ~BacklogFull
      <3>1. Cardinality(LiveRows) <= BacklogCap - 1 /\ LiveRows' = LiveRows
        BY <2>1, <2>3, Finite DEF BacklogFull, LiveRows
      <3>2. Creating' \subseteq Visitors /\ IsFiniteSet(Visitors)
        BY InviteAssumption DEF Creating
      <3>3. /\ Cardinality(Creating') <= Cardinality(Visitors)
            /\ Cardinality(Creating') \in Nat
        BY <3>2, FS_Subset, FS_CardinalityType
      <3> QED
        BY <2>1, <3>1, <3>3, Finite DEF Room
    <2> QED
      BY <2>2, <2>3
  <1>4. ASSUME NEW v \in Visitors, CreateInviteRequest(v) PROVE Room'
    <2>1. PICK new : DOMAIN invites' \subseteq DOMAIN invites \cup {new}
      BY <1>4, CreateEffect
    <2>2. \A n \in DOMAIN invites : invites'[n] = invites[n]
      BY <1>4, CreateEffect
    <2>3. LiveRows' \subseteq LiveRows \cup {new}
      BY <2>1, <2>2 DEF LiveRows
    <2>4. /\ intake' = [intake EXCEPT ![v] = NoVisit] /\ intake[v].pc = "create"
          /\ revived' = revived
      BY <1>4 DEF CreateInviteRequest
    <2>5. Creating' = Creating \ {v} /\ v \in Creating
      BY <2>4 DEF Creating, Typed, NoVisit
    <2>6. Cardinality(Creating') = Cardinality(Creating) - 1
      BY <2>5, Finite, FS_RemoveElement
    <2>7. /\ Cardinality(LiveRows') \in Nat
          /\ Cardinality(LiveRows') <= Cardinality(LiveRows) + 1
      BY <2>3, OneMoreLive
    <2> QED
      BY <2>4, <2>6, <2>7, Finite DEF Room
  <1>5. CASE InviteTick
    <2>1. /\ DOMAIN invites' = DOMAIN invites
          /\ \A n \in DOMAIN invites : invites'[n].status = invites[n].status
          /\ UNCHANGED <<intake, revived>>
      BY <1>5, InviteTickEffect DEF InviteTick
    <2>2. LiveRows' = LiveRows /\ Creating' = Creating
      BY <2>1 DEF LiveRows, Live, Creating
    <2> QED
      BY <2>1, <2>2 DEF Room
  <1>6. CASE ListDue \/ Send \/ PollEnds \/ MailerRestart
    <2>1. UNCHANGED <<invites, revived, intake>>
      BY <1>6 DEF ListDue, Send, PollEnds, MailerRestart
    <2> QED
      BY <1>1, <2>1 DEF Creating
  <1>7. CASE Ack
    <2>1. /\ ThisAck.row \in DOMAIN invites /\ ThisAck.ok \in BOOLEAN
          /\ Records(ThisAck) \/ UNCHANGED <<invites, revived>>
          /\ intake' = intake
      BY <1>7 DEF Ack, ThisAck, Typed, PollType
    <2>2. Creating' = Creating
      BY <2>1 DEF Creating
    <2> QED
      BY <1>1, <2>1, <2>2, RecordsRoom
  <1>8. CASE LateAck
    <2>1. PICK ack \in lateAcks : Records(ack)
      BY <1>8 DEF LateAck
    <2>2. ack.row \in DOMAIN invites /\ ack.ok \in BOOLEAN /\ intake' = intake
      BY <1>8, <2>1 DEF Typed, LateAck
    <2> QED
      BY <2>1, <2>2, RecordsRoom
  <1>9. CASE UNCHANGED inviteVars
    BY <1>1, <1>9 DEF inviteVars, Creating
  <1>10. CASE RunkodRestart
    <2>1. /\ UNCHANGED <<invites, revived>> /\ Creating' = {}
      BY <1>10 DEF RunkodRestart, Creating, NoVisit
    <2>2. LiveRows' = LiveRows /\ Cardinality({}) = 0
      BY <2>1, FS_EmptySet DEF LiveRows
    <2> QED
      BY <2>1, <2>2, Finite DEF Room
  <1> QED
    BY <1>2, <1>3, <1>4, <1>5, <1>6, <1>7, <1>8, <1>9, <1>10 DEF InviteNext, Visit, MailerStep

----------------------------------------------------------------------------
(* A peer keeps to its rate.                                               *)

\* What was let in and is still in the window are the hits that still count.
HitsFit(p) ==
    /\ hits[p] \subseteq 1 .. submitted
    /\ admitted[p] = KeptHits(hits[p])
    /\ IsFiniteSet(admitted[p]) /\ Cardinality(admitted[p]) <= RateLimit

HitsCount == \A p \in Peers : HitsFit(p)

LEMMA SubmitRate ==
  ASSUME Typed, HitsCount, NEW v \in Visitors, NEW p \in Peers, NEW a \in Addresses,
         Submit(v, p, a)
  PROVE  HitsCount'
  <1>1. /\ submitted' = submitted + 1 /\ submitted \in Nat
        /\ submitted + 1 \in 1 .. MaxInvites
        /\ hits \in [Peers -> SUBSET (1 .. MaxInvites)]
        /\ admitted \in [Peers -> SUBSET (1 .. MaxInvites)]
        /\ ages \in [1 .. MaxInvites -> Nat] /\ RateWindow \in Nat \ {0}
    BY SubmitEffect, InviteAssumption DEF Typed
  <1>2. CASE /\ hits' = [hits EXCEPT ![p] = KeptHits(hits[p])]
             /\ UNCHANGED <<ages, admitted>>
    <2> SUFFICES ASSUME NEW q \in Peers PROVE HitsFit(q)'
      BY DEF HitsCount
    <2>0. HitsFit(q)
      BY DEF HitsCount
    <2>1. /\ hits'[q] \subseteq hits[q]
          /\ {n \in hits'[q] : ages[n] < RateWindow} = {n \in hits[q] : ages[n] < RateWindow}
      BY <1>1, <1>2 DEF KeptHits
    <2>2. hits[q] \subseteq 1 .. submitted'
      BY <1>1, <2>0 DEF HitsFit
    <2> QED
      BY <1>2, <2>0, <2>1, <2>2 DEF HitsFit, KeptHits
  <1>3. CASE /\ ~(Cardinality(KeptHits(hits[p])) >= RateLimit)
             /\ hits' = [hits EXCEPT ![p] = KeptHits(hits[p]) \cup {submitted + 1}]
             /\ ages' = [ages EXCEPT ![submitted + 1] = 0]
             /\ admitted' = [admitted EXCEPT ![p] = admitted[p] \cup {submitted + 1}]
    <2> SUFFICES ASSUME NEW q \in Peers PROVE HitsFit(q)'
      BY DEF HitsCount
    <2>0. HitsFit(q)
      BY DEF HitsCount
    <2>1. /\ hits[q] \subseteq 1 .. submitted' /\ submitted + 1 \notin hits[q]
          /\ hits[q] \subseteq 1 .. MaxInvites
      BY <1>1, <2>0 DEF HitsFit
    <2>2. \A n \in hits[q] : ages'[n] = ages[n]
      BY <1>1, <1>3, <2>1
    <2>3. ages'[submitted + 1] = 0 /\ 0 < RateWindow
      BY <1>1, <1>3
    <2>4. CASE q = p
      <3>1. /\ hits'[q] = KeptHits(hits[q]) \cup {submitted + 1}
            /\ admitted'[q] = admitted[q] \cup {submitted + 1}
        BY <1>1, <1>3, <2>4
      <3>2. admitted'[q] = {n \in hits'[q] : ages'[n] < RateWindow}
        BY <2>0, <2>2, <2>3, <3>1 DEF HitsFit, KeptHits
      <3>3. /\ IsFiniteSet(admitted[q]) /\ Cardinality(admitted[q]) \in Nat
            /\ ~(Cardinality(admitted[q]) >= RateLimit)
        BY <1>3, <2>4, <2>0, FS_CardinalityType DEF HitsFit
      <3>4. /\ IsFiniteSet(admitted'[q])
            /\ Cardinality(admitted'[q]) <= Cardinality(admitted[q]) + 1
            /\ Cardinality(admitted'[q]) \in Nat
        <4>1. /\ IsFiniteSet(admitted[q] \cup {submitted + 1})
              /\ Cardinality(admitted[q] \cup {submitted + 1}) =
                    IF submitted + 1 \in admitted[q] THEN Cardinality(admitted[q])
                    ELSE Cardinality(admitted[q]) + 1
          BY <3>3, FS_AddElement, Zenon
        <4> QED
          BY <3>1, <3>3, <4>1
      <3>5. Cardinality(admitted'[q]) <= RateLimit
        BY <3>3, <3>4, InviteAssumption
      <3>6. hits'[q] \subseteq 1 .. submitted'
        BY <1>1, <2>1, <3>1 DEF KeptHits
      <3> QED
        BY <3>2, <3>4, <3>5, <3>6 DEF HitsFit, KeptHits
    <2>5. CASE q # p
      <3>1. hits'[q] = hits[q] /\ admitted'[q] = admitted[q]
        BY <1>1, <1>3, <2>5
      <3>2. admitted'[q] = {n \in hits'[q] : ages'[n] < RateWindow}
        BY <2>0, <2>2, <3>1 DEF HitsFit, KeptHits
      <3> QED
        BY <2>0, <2>1, <3>1, <3>2 DEF HitsFit, KeptHits
    <2> QED
      BY <2>4, <2>5
  <1> QED
    BY <1>2, <1>3, SubmitEffect

LEMMA TickRate ==
  ASSUME Typed, HitsCount, InviteTick
  PROVE  HitsCount'
  <1> SUFFICES ASSUME NEW q \in Peers PROVE HitsFit(q)'
    BY DEF HitsCount
  <1>0. HitsFit(q)
    BY DEF HitsCount
  <1>1. /\ ages' = [n \in 1 .. MaxInvites |-> IF ages[n] < RateWindow THEN ages[n] + 1
                                              ELSE ages[n]]
        /\ admitted'[q] = {n \in admitted[q] : ages'[n] < RateWindow}
        /\ UNCHANGED <<submitted, hits>>
    BY DEF InviteTick
  <1>2. hits[q] \subseteq 1 .. MaxInvites
    BY DEF Typed
  <1>3. \A n \in hits[q] : ages'[n] < RateWindow => ages[n] < RateWindow
    BY <1>1, <1>2, InviteAssumption DEF Typed
  <1>4. admitted'[q] = {n \in hits'[q] : ages'[n] < RateWindow}
    BY <1>0, <1>1, <1>3 DEF HitsFit, KeptHits
  <1>5. /\ IsFiniteSet(admitted[q]) /\ admitted'[q] \subseteq admitted[q]
        /\ Cardinality(admitted[q]) <= RateLimit
    BY <1>0, <1>1 DEF HitsFit
  <1>6. /\ IsFiniteSet(admitted'[q]) /\ Cardinality(admitted'[q]) <= Cardinality(admitted[q])
        /\ Cardinality(admitted[q]) \in Nat /\ Cardinality(admitted'[q]) \in Nat
    BY <1>5, FS_Subset, FS_CardinalityType
  <1>7. Cardinality(admitted'[q]) <= RateLimit
    BY <1>5, <1>6, InviteAssumption
  <1> QED
    BY <1>0, <1>1, <1>4, <1>6, <1>7 DEF HitsFit, KeptHits

LEMMA NextRate ==
  ASSUME Typed, HitsCount, [InviteNext]_inviteVars
  PROVE  HitsCount'
  <1>1. ASSUME UNCHANGED <<submitted, limiterVars>> PROVE HitsCount'
    BY <1>1 DEF limiterVars, HitsCount, HitsFit, KeptHits
  <1>2. CASE MailSide
    BY <1>2, MailTyped DEF HitsCount, HitsFit, KeptHits
  <1>3. ASSUME NEW v \in Visitors, CountBacklog(v) \/ CreateInviteRequest(v)
        PROVE  HitsCount'
    BY <1>1, <1>3 DEF CountBacklog, CreateInviteRequest
  <1>4. CASE UNCHANGED inviteVars
    BY <1>1, <1>4 DEF inviteVars, limiterVars
  <1>5. CASE RunkodRestart
    <2>1. \A p \in Peers : hits'[p] = {} /\ admitted'[p] = {}
      BY <1>5 DEF RunkodRestart
    <2>2. IsFiniteSet({}) /\ Cardinality({}) = 0
      BY FS_EmptySet
    <2>3. ASSUME NEW p \in Peers PROVE HitsFit(p)'
      <3>1. KeptHits(hits[p])' = {} /\ 0 <= RateLimit
        BY <2>1, InviteAssumption DEF KeptHits
      <3> QED
        BY <2>1, <2>2, <3>1 DEF HitsFit
    <2> QED
      BY <2>3 DEF HitsCount
  <1> QED
    BY <1>2, <1>3, <1>4, <1>5, SubmitRate, TickRate
    DEF InviteNext, Visit, MailerStep, MailSide

----------------------------------------------------------------------------
LEMMA InitDesk == ASSUME InviteInit PROVE MailHonest /\ Room /\ HitsCount
  <1>1. Typed
    BY InitTyped
  <1>2. /\ DOMAIN invites = {} /\ poll = NoPoll /\ lateAcks = {} /\ revived = 0
        /\ \A v \in Visitors : intake[v].pc = "idle"
        /\ \A p \in Peers : hits[p] = {} /\ admitted[p] = {}
    BY EmptySeq DEF InviteInit, NoVisit
  <1>3. LiveRows = {} /\ Creating = {}
    BY <1>2 DEF LiveRows, Creating
  <1>4. Room
    BY <1>1, <1>2, <1>3, Finite, FS_EmptySet DEF Room
  <1>5. MailHonest
    BY <1>2 DEF MailHonest, AcksHonest, SentWasMailed, NoPoll
  <1>6. HitsCount
    <2>1. IsFiniteSet({}) /\ Cardinality({}) = 0
      BY FS_EmptySet
    <2>2. ASSUME NEW p \in Peers PROVE HitsFit(p)
      <3>1. hits[p] = {} /\ admitted[p] = {} /\ KeptHits(hits[p]) = {}
        BY <1>2 DEF KeptHits
      <3>2. 0 <= RateLimit
        BY InviteAssumption
      <3> QED
        BY <2>1, <3>1, <3>2 DEF HitsFit
    <2> QED
      BY <2>2 DEF HitsCount
  <1> QED
    BY <1>4, <1>5, <1>6

\* The invite desk marks as sent what was mailed, keeps the live rows to the cap but
\* for the intakes served together and the rows that acks revive, and lets no peer
\* past its rate between two restarts, whatever fails (invites.go, invitemailer).
THEOREM InvitesAreKept == InviteSpec => []InvitesKept
  <1>1. InviteInit => Typed /\ MailHonest /\ Room /\ HitsCount
    BY InitTyped, InitDesk
  <1>2. /\ Typed /\ MailHonest /\ Room /\ HitsCount /\ [InviteNext]_inviteVars
        => Typed' /\ MailHonest' /\ Room' /\ HitsCount'
    BY NextTyped, NextHonest, NextRoom, NextRate
  <1>3. Typed /\ MailHonest /\ Room /\ HitsCount => InvitesKept
    <2>1. Typed /\ Room => BacklogBounded
      BY Finite DEF Room, BacklogBounded
    <2> QED
      BY <2>1 DEF MailHonest, HitsCount, HitsFit, RateBounded, InvitesKept
  <1> QED
    BY <1>1, <1>2, <1>3, PTL DEF InviteSpec
===============================================================================
