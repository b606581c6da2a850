------------------------------- MODULE Outbox -------------------------------
(***************************************************************************)
(* The webhook outbox of one org: rows of webhook_deliveries and the       *)
(* worker that drains them to the configured URL and, through the GitHub   *)
(* App, to the org's repository.                                           *)
(*                                                                         *)
(* Data.  An event is its type and the commit it is about; the row of an   *)
(* event holds its status, its attempts and, for next_attempt_at, the      *)
(* ticks that are left until it is due (0: due).  A request a target       *)
(* received may still count as failed: its answer was lost.                *)
(***************************************************************************)
EXTENDS Backoff, FiniteSets

CONSTANTS Events,               \* the events that can be enqueued
          Dispatched,           \* those the GithubDispatcher turns into a dispatch
          NoEvent,              \* not an event
          Wirings               \* the deployments: what each target is like, and
                                \* bounds on transient failures and on lands

ASSUME OutboxAssumption ==
    /\ NoEvent \notin Events /\ Dispatched \subseteq Events
    /\ Wirings \subseteq [url : {"none", "up", "dead"},
                          github : {"none", "unwired", "up", "dead"},
                          failures : Nat, lands : Nat]

VARIABLES deliveries,   \* the rows of webhook_deliveries
          pass,         \* OutboxWorker.RunOnce
          got,          \* which target received which event
          wiring,       \* the deployment of this behaviour
          failures      \* the transient failures so far

outboxVars == <<deliveries, pass, got, wiring, failures>>

----------------------------------------------------------------------------
Statuses == {"none", "pending", "failed", "delivered", "dead_letter"}

Delivery == [status : Statuses, attempt : Nat, wait : Nat]

NoDelivery == [status |-> "none", attempt |-> 0, wait |-> 0]

NoPass == [pc |-> "idle", todo |-> {}, at |-> NoEvent, ok |-> TRUE, age |-> 0]

Settled(e) == deliveries[e].status \in {"delivered", "dead_letter"}

Failure == failures < wiring.failures /\ failures' = failures + 1

\* A request to a target in the given condition: whether it arrives and
\* whether its sender learns so.
Sent(target, e, ok) ==
    \/ /\ ok /\ got' = got \cup {<<target, e>>} /\ UNCHANGED failures
    \/ /\ ~ok /\ Failure
       /\ \/ got' = got \cup {<<target, e>>}
          \/ UNCHANGED got

\* EnqueueWebhook: the row is due at once.
EnqueueWebhook(e) ==
    deliveries' = [deliveries EXCEPT ![e] = [NoDelivery EXCEPT !.status = "pending"]]

\* A deployment with no target runs no worker.
HasWorker == wiring.url # "none" \/ wiring.github # "none"

Due == {e \in Events : /\ deliveries[e].status \in {"pending", "failed"}
                       /\ deliveries[e].wait = 0}

\* RunOnce: list what is due.
RunOnce ==
    /\ HasWorker /\ pass.pc = "idle" /\ Due # {}
    /\ pass' = [NoPass EXCEPT !.pc = "next", !.todo = Due]
    /\ UNCHANGED <<deliveries, got, wiring, failures>>

NextDelivery ==
    /\ pass.pc = "next"
    /\ IF pass.todo = {} THEN pass' = NoPass
       ELSE \E e \in pass.todo :
               pass' = [pass EXCEPT !.pc = "post", !.at = e, !.todo = @ \ {e},
                                    !.ok = TRUE]
    /\ UNCHANGED <<deliveries, got, wiring, failures>>

\* Mutant: a failed POST ends the attempt.
AfterFailedPostRecord == "record"

\* attempt: the dispatch follows the POST whatever came of it.
AfterFailedPost == "dispatch"

\* checks.Deliver: the signed POST, when a URL is configured.
Post ==
    /\ pass.pc = "post"
    /\ \E ok \in BOOLEAN :
          /\ CASE wiring.url = "none" -> ok /\ UNCHANGED <<got, failures>>
               [] wiring.url = "dead" -> ~ok /\ UNCHANGED <<got, failures>>
               [] wiring.url = "up"   -> Sent("url", pass.at, ok)
          /\ pass' = [pass EXCEPT !.ok = ok,
                         !.pc = IF ok THEN "dispatch" ELSE AfterFailedPost]
    /\ UNCHANGED <<deliveries, wiring>>

\* Mutant: the dispatch alone decides.
DispatchSucceeded(posted, dispatched) == dispatched

\* A row succeeds only when every configured target did.
RowSucceeds(posted, dispatched) == posted /\ dispatched

\* GithubDispatcher.Deliver: other types of event and an org with no
\* repository succeed without a request.
Dispatch ==
    /\ pass.pc = "dispatch"
    /\ \E ok \in BOOLEAN :
          /\ CASE \/ wiring.github \in {"none", "unwired"}
                  \/ pass.at \notin Dispatched -> ok /\ UNCHANGED <<got, failures>>
               [] OTHER -> IF wiring.github = "dead"
                           THEN ~ok /\ UNCHANGED <<got, failures>>
                           ELSE Sent("github", pass.at, ok)
          /\ pass' = [pass EXCEPT !.pc = "record", !.ok = RowSucceeds(@, ok)]
    /\ UNCHANGED <<deliveries, wiring>>

\* Mutant: the attempt is not counted.
RecordedUncounted(d, ok, age) ==
    [d EXCEPT !.status = IF ok THEN "delivered" ELSE "failed",
              !.wait = IF ok THEN @ ELSE BackoffMin]

\* RecordDeliveryResult: the clock is the one RunOnce read, age ticks ago.
Recorded(d, ok, age) ==
    IF ok THEN [d EXCEPT !.status = "delivered"] ELSE Failed(d, age)

RecordDeliveryResult ==
    /\ pass.pc = "record"
    /\ deliveries' = [deliveries EXCEPT ![pass.at] = Recorded(@, pass.ok, pass.age)]
    /\ pass' = [pass EXCEPT !.pc = "next", !.at = NoEvent, !.ok = TRUE]
    /\ UNCHANGED <<got, wiring, failures>>

\* The store fails: RunOnce returns, and the rest of the list with it.
RecordFails ==
    /\ pass.pc = "record" /\ Failure
    /\ pass' = NoPass
    /\ UNCHANGED <<deliveries, got, wiring>>

\* Time passes.
Tick ==
    /\ \E e \in Events : deliveries[e].wait > 0
    /\ deliveries' = [e \in Events |->
          IF deliveries[e].wait = 0 THEN deliveries[e]
          ELSE [deliveries[e] EXCEPT !.wait = @ - 1]]
    /\ pass' = IF pass.pc = "idle" \/ pass.age >= BackoffMax THEN pass
               ELSE [pass EXCEPT !.age = @ + 1]
    /\ UNCHANGED <<got, wiring, failures>>

PassStep == \/ NextDelivery \/ Post \/ Dispatch \/ RecordDeliveryResult

OutboxInit ==
    /\ deliveries = [e \in Events |-> NoDelivery]
    /\ pass = NoPass /\ got = {} /\ failures = 0
    /\ wiring \in Wirings

----------------------------------------------------------------------------
(* Properties.                                                             *)

\* The targets an event is meant for.
TargetsOf(e) == (IF wiring.url = "none" THEN {} ELSE {"url"}) \cup
    (IF wiring.github \in {"none", "unwired"} \/ e \notin Dispatched THEN {}
     ELSE {"github"})

\* DeliveredEverywhere - "the row succeeds only when every configured target
\* did": an event marked delivered has reached the URL and, when it is one that
\* triggers CI, GitHub, however the failures of the two interleave with retries,
\* failing stores and restarts (OutboxWorker.attempt).
DeliveredEverywhere ==
    \A e \in Events : deliveries[e].status = "delivered"
                         => \A t \in TargetsOf(e) : <<t, e>> \in got

\* EventsSettle - no event is retried forever and none is forgotten: whatever
\* fails, each row ends delivered or dead-lettered (RunOnce, RecordDeliveryResult).
EventsSettle ==
    []<>(HasWorker => \A e \in Events : deliveries[e].status = "none" \/ Settled(e))

\* DeadURLNoStall - "a dead legacy webhook consumer can never stall CI
\* dispatch": with GitHub answering, an event that triggers CI reaches it
\* even if every POST to the URL fails (OutboxWorker.attempt).
DeadURLNoStall ==
    []<>((wiring.url = "dead" /\ wiring.github = "up") =>
            \A e \in Dispatched : deliveries[e].status # "none"
                                       => <<"github", e>> \in got)

\* OutboxDrains - however the targets fail, every row settles, and a dead URL
\* keeps nothing from GitHub (OutboxWorker).
OutboxDrains == EventsSettle /\ DeadURLNoStall
=============================================================================
