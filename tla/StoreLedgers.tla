---------------------------- MODULE StoreLedgers ----------------------------
(***************************************************************************)
(* The Store's calls about deploy records and releases, about the two      *)
(* queues (webhook deliveries and invite requests), about workspaces and   *)
(* about their timelines, in MemStore and in PostgresStore.                *)
(***************************************************************************)
EXTENDS StoreCalls

CONSTANTS Images,       \* what the record of a land expects
          LastAttempt,  \* MaxDeliveryAttempts
          Retained      \* how much of a timeline is kept
----------------------------------------------------------------------------
(* The deploy record of one land, and the releases of one project.         *)

\* twice is not a column: some image was reported more than once.
NoRecord == [state |-> "none", images |-> {}, twice |-> FALSE]
Ledger0 == [deploy |-> NoRecord, releases |-> << >>]

HasRecord(m) == m.deploy.state # "none"
Complete(m) == Images \subseteq m.deploy.images
Opened == [NoRecord EXCEPT !.state = "pending"]

\* OpenDeployRecord: an existing record keeps its reports.
MemOpenDeployRecord(m) ==
    Gives(IF HasRecord(m) THEN m ELSE [m EXCEPT !.deploy = Opened], Ok)

\* The record is older than the cutoff.
MemPruneStalePending(m) ==
    Gives(IF m.deploy.state = "pending" THEN [m EXCEPT !.deploy = NoRecord] ELSE m, Ok)

\* Found or not, and whether this report completed the record.
MemRecordDeployImage(m, c) ==
    LET after == [m EXCEPT !.deploy.images = @ \cup {c.image}]
    IN  IF ~HasRecord(m) THEN Gives(m, <<"unknown">>)
        ELSE IF m.deploy.state # "ready" /\ Complete(after)
        THEN Gives([after EXCEPT !.deploy.state = "ready"], <<"ok", "ready">>)
        ELSE Gives(after, Ok)

MemCreateRelease(m, c) ==
    IF Contains(m.releases, c.version) THEN Gives(m, Refused)
    ELSE Gives([m EXCEPT !.releases = Append(@, c.version)], Ok)

MemLedger(m, c) ==
    CASE c.op = "open" -> MemOpenDeployRecord(m)
      [] c.op = "image" -> MemRecordDeployImage(m, c)
      [] c.op = "prune" -> MemPruneStalePending(m)
      [] c.op = "release" -> MemCreateRelease(m, c)

OpenDeployRecord(p) == IF HasRecord(p) THEN p ELSE [p EXCEPT !.deploy = Opened]

\* The images of a record go with it.
PruneStalePendingDeployRecords(p) ==
    IF p.deploy.state = "pending" THEN [p EXCEPT !.deploy = NoRecord] ELSE p

\* The foreign key refuses an image without a record.
UpsertDeployImage(p, c) ==
    IF HasRecord(p)
    THEN Goes([p EXCEPT !.deploy.images = @ \cup {c.image},
                        !.deploy.twice = @ \/ c.image \in p.deploy.images], "mark", 0)
    ELSE Fails(p)

\* Mutant: a record that is ready already is marked again.
MarksAgain(p) == HasRecord(p) /\ Complete(p)

\* Whether MarkDeployReadyIfComplete returns a row.
MarkDeployReadyIfComplete(p) == p.deploy.state = "pending" /\ Complete(p)

\* The unique version of a project.
CreateRelease(p, c) ==
    IF Contains(p.releases, c.version) THEN Fails(p)
    ELSE Returns([p EXCEPT !.releases = Append(@, c.version)], Ok)

\* With an image reported twice, the report that finds the record complete
\* may not be the one that completed it, which is on its way; and a record
\* may be pruned and opened again under a report.
PgRecordDeployImage(p, c, s) ==
    CASE s.at = "look" -> IF HasRecord(p) THEN Goes(p, "image", 0)
                          ELSE Returns(p, <<"unknown">>)
      [] s.at = "image" -> UpsertDeployImage(p, c)
      [] s.at = "mark" -> IF MarkDeployReadyIfComplete(p)
                          THEN [Goes([p EXCEPT !.deploy.state = "ready"], "ready", 0)
                                EXCEPT !.why = IF p.deploy.twice /\ p.deploy.state = "pending"
                                               THEN {"credited"} ELSE {}]
                          ELSE Goes(p, "get", 0)
      [] s.at = "ready" -> Returns(p, <<"ok", "ready">>)
      [] s.at = "get" -> IF ~HasRecord(p) THEN Returns(p, <<"unknown">>)
                         ELSE IF c.image \in p.deploy.images THEN Returns(p, Ok)
                         ELSE Strays(p, Ok, "pruned")

PgLedger(p, c, s) ==
    CASE c.op = "open" -> Returns(OpenDeployRecord(p), Ok)
      [] c.op = "image" -> PgRecordDeployImage(p, c, s)
      [] c.op = "prune" -> Returns(PruneStalePendingDeployRecords(p), Ok)
      [] c.op = "release" -> CreateRelease(p, c)

\* GetDeployRecord and ListReleases
PgReadLedger(p) == [p EXCEPT !.deploy.twice = FALSE]

\* A report that ends before it marks leaves a complete record pending.
HalfReported(c, s, p) == c.op = "image" /\ s.at = "mark" /\ MarkDeployReadyIfComplete(p)
----------------------------------------------------------------------------
(* Deliveries and invite requests: queues of rows with the same life.  Two *)
(* live requests of one address do not exist; the model has one address.   *)

Live(row) == row.status \in {"pending", "failed"}
Queued == [status |-> "pending", attempt |-> 0]
Queue0 == << >>

SomeLive(q) == \E i \in DOMAIN q : Live(q[i])

FailedAt(row, attempt) ==
    [status |-> IF attempt >= LastAttempt THEN "dead_letter" ELSE "failed",
     attempt |-> row.attempt + 1]

\* A success counts as an attempt, too.
MemRecordDeliveryResult(m, c) ==
    IF c.id \notin DOMAIN m THEN Gives(m, Refused)
    ELSE IF c.sent
    THEN Gives([m EXCEPT ![c.id] = [status |-> "delivered", attempt |-> @.attempt + 1]], Ok)
    ELSE Gives([m EXCEPT ![c.id] = FailedAt(@, @.attempt + 1)], Ok)

MemDeliveries(m, c) ==
    CASE c.op = "enqueue" -> Gives(Append(m, Queued), Ok)
      [] c.op = "result" -> MemRecordDeliveryResult(m, c)

MemCreateInviteRequest(m) ==
    IF SomeLive(m) THEN Gives(m, <<"live">>) ELSE Gives(Append(m, Queued), Ok)

MemRecordInviteSendResult(m, c) ==
    IF c.id \notin DOMAIN m THEN Gives(m, Refused)
    ELSE IF c.sent THEN Gives([m EXCEPT ![c.id].status = "sent"], Ok)
    ELSE Gives([m EXCEPT ![c.id] = FailedAt(@, @.attempt + 1)], Ok)

MemInvites(m, c) ==
    CASE c.op = "enqueue" -> MemCreateInviteRequest(m)
      [] c.op = "result" -> MemRecordInviteSendResult(m, c)

EnqueueWebhookDelivery(p) == Returns(Append(p, Queued), Ok)
MarkWebhookDelivered(p, c) == Returns([p EXCEPT ![c.id].status = "delivered"], Ok)

\* The status was decided on a count that was read before; the count itself
\* goes up in the statement.  A delivered row that fails after all comes back
\* without the success in its count, which MemStore counted.
MarkWebhookFailed(p, c, attempt) ==
    LET after == [p EXCEPT ![c.id] = FailedAt(@, attempt)]
    IN  IF p[c.id].status = "delivered" THEN Strays(after, Ok, "success not counted")
        ELSE IF attempt = p[c.id].attempt + 1 THEN Returns(after, Ok)
        ELSE Strays(after, Ok, "counted before")

PgRecordDeliveryResult(p, c, s) ==
    CASE s.at = "look" -> IF c.id \in DOMAIN p THEN Goes(p, "write", p[c.id].attempt + 1)
                          ELSE Fails(p)
      [] s.at = "write" -> IF c.sent THEN MarkWebhookDelivered(p, c)
                           ELSE MarkWebhookFailed(p, c, s.saw)

PgDeliveries(p, c, s) ==
    CASE c.op = "enqueue" -> EnqueueWebhookDelivery(p)
      [] c.op = "result" -> PgRecordDeliveryResult(p, c, s)

\* ON CONFLICT with the index of live addresses DO NOTHING.
CreateInviteRequest(p) ==
    IF SomeLive(p) THEN Returns(p, <<"live">>) ELSE Returns(Append(p, Queued), Ok)

MarkInviteRequestSent(p, c) == Returns([p EXCEPT ![c.id].status = "sent"], Ok)

\* The index refuses a request that comes back to life beside a live one.
MarkInviteRequestFailed(p, c, attempt) ==
    LET after == [p EXCEPT ![c.id] = FailedAt(@, attempt)]
        others == \E i \in DOMAIN p \ {c.id} : Live(p[i])
    IN  IF Live(after[c.id]) /\ others THEN Fails(p)
        ELSE IF attempt = p[c.id].attempt + 1 THEN Returns(after, Ok)
        ELSE Strays(after, Ok, "counted before")

PgRecordInviteSendResult(p, c, s) ==
    CASE s.at = "look" /\ c.id \notin DOMAIN p -> Fails(p)
      [] s.at = "look" /\ c.id \in DOMAIN p ->
            IF c.sent THEN MarkInviteRequestSent(p, c)
            ELSE Goes(p, "write", p[c.id].attempt + 1)
      [] s.at = "write" -> MarkInviteRequestFailed(p, c, s.saw)

PgInvites(p, c, s) ==
    CASE c.op = "enqueue" -> CreateInviteRequest(p)
      [] c.op = "result" -> PgRecordInviteSendResult(p, c, s)

\* What is due, and how many requests are live.
ReadQueue(q) == [i \in DOMAIN q |-> IF Live(q[i]) THEN q[i] ELSE [q[i] EXCEPT !.attempt = 0]]
----------------------------------------------------------------------------
(* The workspaces of one id: MemStore has at most one, the table has no    *)
(* constraint that says so.  A row has a surrogate key, its index here.    *)

NoWorkspace == [status |-> "none", base |-> 0]
NewWorkspace == [status |-> "active", base |-> 1]

HasWorkspace(m) == m.status # "none"

MemCreateWorkspace(m) ==
    IF HasWorkspace(m) THEN Gives(m, Refused) ELSE Gives(NewWorkspace, Ok)

MemUpdateWorkspaceBase(m) ==
    IF HasWorkspace(m) THEN Gives([m EXCEPT !.base = 2], Ok) ELSE Gives(m, Refused)

MemSetWorkspaceStatus(m) ==
    IF HasWorkspace(m) THEN Gives([m EXCEPT !.status = "closed"], Ok)
    ELSE Gives(m, Refused)

MemDeleteWorkspace(m) ==
    IF HasWorkspace(m) THEN Gives(NoWorkspace, Ok) ELSE Gives(m, Refused)

MemWorkspaces(m, c) ==
    CASE c.op = "create" -> MemCreateWorkspace(m)
      [] c.op = "rebase" -> MemUpdateWorkspaceBase(m)
      [] c.op = "close" -> MemSetWorkspaceStatus(m)
      [] c.op = "delete" -> MemDeleteWorkspace(m)

Present(p) == {i \in DOMAIN p : p[i].status # "none"}

\* GetWorkspaceBySnapshotRef: a row with the ref, the only one as a rule.
GetWorkspaceBySnapshotRef(p) == CHOOSE i \in Present(p) : TRUE

CreateWorkspace(p) ==
    IF Present(p) = {} THEN Returns(Append(p, NewWorkspace), Ok)
    ELSE Strays(Append(p, NewWorkspace), Ok, "twins")

UpdateWorkspaceBase(p, i) ==
    IF i \in Present(p) THEN Returns([p EXCEPT ![i].base = 2], Ok) ELSE Fails(p)

UpdateWorkspaceStatus(p, i) ==
    IF i \in Present(p) THEN Returns([p EXCEPT ![i].status = "closed"], Ok) ELSE Fails(p)

\* Deleting what another call has deleted is no error here.
DeleteWorkspace(p, i) ==
    IF i \in Present(p) THEN Returns([p EXCEPT ![i] = NoWorkspace], Ok)
    ELSE Strays(p, Ok, "deleted twice")

PgCreateWorkspace(p, s) ==
    IF s.at = "write" THEN CreateWorkspace(p)
    ELSE IF Present(p) # {} THEN Fails(p) ELSE Goes(p, "write", 0)

FindsWorkspace(p) ==
    IF Present(p) = {} THEN Fails(p) ELSE Goes(p, "write", GetWorkspaceBySnapshotRef(p))

PgUpdateWorkspaceBase(p, s) ==
    IF s.at = "look" THEN FindsWorkspace(p) ELSE UpdateWorkspaceBase(p, s.saw)

PgWorkspaces(p, c, s) ==
    CASE c.op = "create" -> PgCreateWorkspace(p, s)
      [] c.op = "rebase" -> PgUpdateWorkspaceBase(p, s)
      [] c.op \in {"close", "delete"} /\ s.at = "look" -> FindsWorkspace(p)
      [] c.op = "close" /\ s.at = "write" -> UpdateWorkspaceStatus(p, s.saw)
      [] c.op = "delete" /\ s.at = "write" -> DeleteWorkspace(p, s.saw)

PgReadWorkspaces(p) ==
    IF Present(p) = {} THEN NoWorkspace ELSE p[GetWorkspaceBySnapshotRef(p)]
----------------------------------------------------------------------------
(* The timelines of a workspace: events one by one, activity in batches.   *)

Timeline0 == [events |-> << >>, activity |-> << >>]

MemRecordWorkspaceEvent(m, c) ==
    Gives([m EXCEPT !.events = Newest(Append(@, c.tag), Retained)], Ok)

MemRecordWorkspaceActivity(m, c) ==
    Gives([m EXCEPT !.activity = Newest(@ \o c.batch, Retained)], Ok)

MemTimelines(m, c) ==
    CASE c.op = "event" -> MemRecordWorkspaceEvent(m, c)
      [] c.op = "activity" -> MemRecordWorkspaceActivity(m, c)
      [] c.op = "wipe" -> Gives([m EXCEPT !.events = << >>], Ok)
      [] c.op = "forget" -> Gives([m EXCEPT !.activity = << >>], Ok)

InsertWorkspaceEvent(p, c) == [p EXCEPT !.events = Append(@, c.tag)]
PruneWorkspaceEvents(p) == [p EXCEPT !.events = Newest(@, Retained)]
DeleteWorkspaceEvents(p) == [p EXCEPT !.events = << >>]
InsertWorkspaceActivity(p, tag) == [p EXCEPT !.activity = Append(@, tag)]
PruneWorkspaceActivity(p) == [p EXCEPT !.activity = Newest(@, Retained)]
DeleteWorkspaceActivity(p) == [p EXCEPT !.activity = << >>]

\* The answer of the pruning statement is not looked at.
PgRecordWorkspaceEvent(p, c, s) ==
    IF s.at = "look" THEN Goes(InsertWorkspaceEvent(p, c), "prune", 0)
    ELSE Returns(PruneWorkspaceEvents(p), Ok)

\* saw: how much of the batch is in, and what the feed was then.
PgRecordWorkspaceActivity(p, c, s) ==
    LET n == IF s.at = "look" THEN 0 ELSE s.saw[1]
        q == InsertWorkspaceActivity(p, c.batch[n + 1])
    IN  IF n = Len(c.batch) THEN Returns(PruneWorkspaceActivity(p), Ok)
        ELSE [Goes(q, "insert", <<n + 1, q.activity>>)
              EXCEPT !.why = IF n > 0 /\ p.activity # s.saw[2] THEN {"mixed"} ELSE {}]

PgTimelines(p, c, s) ==
    CASE c.op = "event" -> PgRecordWorkspaceEvent(p, c, s)
      [] c.op = "activity" -> PgRecordWorkspaceActivity(p, c, s)
      [] c.op = "wipe" -> Returns(DeleteWorkspaceEvents(p), Ok)
      [] c.op = "forget" -> Returns(DeleteWorkspaceActivity(p), Ok)

\* A pruning that failed leaves more, never less: the newest are compared.
PgReadTimelines(p) ==
    [events |-> Newest(p.events, Retained), activity |-> Newest(p.activity, Retained)]

\* A batch that ends half-way stays half-way.
HalfBatch(c, s) == c.op = "activity" /\ s.at = "insert" /\ s.saw[1] < Len(c.batch)
=============================================================================
