------------------------------ MODULE Activity ------------------------------
(***************************************************************************)
(* A workspace's activity feed: what a coding harness reports through      *)
(* `runko agent event`, the watcher that is poked to read it, and the      *)
(* advice a first change push gets where nothing was streamed.             *)
(*                                                                         *)
(* Data.  A report is a batch of details, each plain or holding a secret,  *)
(* with the tool it came from.  A workspace that is deleted and made again *)
(* under its id is in its next life.                                       *)
(***************************************************************************)
EXTENDS SelfUpdate, AgentFiles

CONSTANTS Days,            \* the cases: reports, pushes, what else happens, bounds
          EventLimit       \* the rows neverStreamedAdvice reads (25)

ASSUME ActivityAssumption ==
    /\ EventLimit \in Nat \ {0}
    /\ \A d \in Days :
        /\ d.scanner \in {"none", "works", "broken"} /\ d.pushes \in Nat
        /\ \A r \in DOMAIN d.reports : d.reports[r].batch \in Seq({"plain", "secret"})

VARIABLES day,             \* the case
          space,           \* the workspace: its status and its life
          feed, timeline,  \* the activity rows and the event rows, oldest first
          reports, nudgePushes,    \* where the calls are
          viewer,          \* the watcher: poked or not, and what it has read
          nudges,          \* the advice given in this life
          blips, faultsLeft        \* history: what excuses what

activityVars == <<day, space, feed, timeline, reports, nudgePushes, viewer, nudges, blips,
                  faultsLeft>>

ActivityInit ==
    /\ day \in Days
    /\ space = [status |-> "open", life |-> 1]
    /\ feed = << >> /\ timeline = << >> /\ nudges = 0 /\ blips = {}
    /\ reports = [r \in DOMAIN day.reports |-> [at |-> "hook", saw |-> space]]
    /\ nudgePushes = [p \in 1..day.pushes |-> "start"]
    /\ viewer = [poked |-> FALSE, read |-> << >>]
    /\ faultsLeft = day.faults

ReportAt(r, at) == r \in DOMAIN reports /\ reports[r].at = at
ReportGoes(r, at) == reports' = [reports EXCEPT ![r].at = at]
Fault == faultsLeft > 0 /\ faultsLeft' = faultsLeft - 1

-----------------------------------------------------------------------------
(* The client, then recordWorkspaceActivityCore.                            *)
EventFromHook(tool) ==
    CASE tool = "Read"                  -> "read"
      [] tool \in {"Edit", "Write"}     -> "edit"
      [] tool = "Bash"                  -> "command"
      [] tool \in {"Grep", "Glob"}      -> "search"
      [] OTHER                          -> "note"

\* one POST from a bound checkout, for at most agentEventTimeout
AgentEvent(r) ==
    /\ ReportAt(r, "hook")
    /\ ReportGoes(r, IF day.reports[r].bound THEN "posted" ELSE "refused")
    /\ UNCHANGED <<day, space, feed, timeline, nudgePushes, viewer, nudges, blips, faultsLeft>>

\* mutant: a closed workspace takes reports
OpenOrClosed(r) == space.status # "gone" /\ day.reports[r].by \in {"owner", "operator"}
OpenOnly(r) == space.status = "open" /\ day.reports[r].by \in {"owner", "operator"}
MayReport(r) == OpenOnly(r)
CheckReport(r) ==
    /\ ReportAt(r, "posted")
    /\ reports' = [reports EXCEPT ![r] = [saw |-> space,
           at |-> IF MayReport(r) /\ day.reports[r].batch # << >> THEN "store" ELSE "refused"]]
    /\ UNCHANGED <<day, space, feed, timeline, nudgePushes, viewer, nudges, blips, faultsLeft>>

NormalizeActivityKind(kind) ==
    IF kind \in {"read", "edit", "command", "search", "note"} THEN kind ELSE "note"
\* mutant: a broken scanner lets the batch through
FailOpen(detail) == IF day.scanner = "works" /\ detail = "secret" THEN "redacted" ELSE detail
\* a finding redacts its event, an error of the scanner the whole batch
FailClosed(detail) ==
    IF day.scanner = "broken" \/ (day.scanner = "works" /\ detail = "secret") THEN "redacted"
    ELSE detail
RedactActivitySecret(detail) == FailClosed(detail)
RowOf(r, detail) ==
    [of |-> reports[r].saw, late |-> space # reports[r].saw,
     kind |-> NormalizeActivityKind(EventFromHook(day.reports[r].tool)),
     detail |-> RedactActivitySecret(detail)]
Rows(r, n) == [k \in 1..n |-> RowOf(r, day.reports[r].batch[k])]

RecordWorkspaceActivity(r) ==
    /\ ReportAt(r, "store") /\ ReportGoes(r, "poke")
    /\ feed' = feed \o Rows(r, Len(day.reports[r].batch))
    /\ UNCHANGED <<day, space, timeline, nudgePushes, viewer, nudges, blips, faultsLeft>>

\* the batch is inserted row by row: a failure keeps the rows before it and pokes nobody
RecordFails(r) ==
    /\ ReportAt(r, "store") /\ Fault /\ ReportGoes(r, "failed")
    /\ \E n \in 0..(Len(day.reports[r].batch) - 1) :
        /\ feed' = feed \o Rows(r, n)
        /\ blips' = IF n > 0 THEN blips \cup {"half stored"} ELSE blips
    /\ UNCHANGED <<day, space, timeline, nudgePushes, viewer, nudges>>

Poke(r) ==
    /\ ReportAt(r, "poke") /\ ReportGoes(r, "done")
    /\ viewer' = [viewer EXCEPT !.poked = TRUE]
    /\ UNCHANGED <<day, space, feed, timeline, nudgePushes, nudges, blips, faultsLeft>>

\* a stop between the rows and the poke
DaemonStops(r) ==
    /\ ReportAt(r, "poke") /\ Fault /\ ReportGoes(r, "failed")
    /\ blips' = blips \cup {"stopped before the poke"}
    /\ UNCHANGED <<day, space, feed, timeline, nudgePushes, viewer, nudges>>

\* pokes coalesce; the watcher reads the whole feed
ListWorkspaceActivity ==
    /\ viewer.poked /\ viewer' = [poked |-> FALSE, read |-> feed]
    /\ UNCHANGED <<day, space, feed, timeline, reports, nudgePushes, nudges, blips, faultsLeft>>

-----------------------------------------------------------------------------
(* The timeline and the advice.                                             *)
CountIn(seq, event) == Cardinality({k \in DOMAIN seq : seq[k] = event})
Happens(event) ==
    /\ space.status = "open" /\ Len(timeline) < day.events
    /\ \/ event = "snapshot_pushed"
       \/ /\ event = "change_abandoned"
          /\ CountIn(timeline, event) < CountIn(timeline, "change_pushed")
    /\ timeline' = Append(timeline, event)
    /\ UNCHANGED <<day, space, feed, reports, nudgePushes, viewer, nudges, blips, faultsLeft>>

\* ListWorkspaceEvents answers newest first
Latest == IF Len(timeline) <= EventLimit THEN timeline
          ELSE SubSeq(timeline, Len(timeline) - EventLimit + 1, Len(timeline))
\* mutant: the row of a push is not looked for
SnapshotsOnly == CountIn(Latest, "snapshot_pushed") < 2 /\ feed = << >>
\* only a first push, with at most its own snapshot and no activity
FirstAndQuiet == CountIn(Latest, "change_pushed") = 0 /\ SnapshotsOnly
NeverStreamedAdvice == FirstAndQuiet
PushAdvised(p) ==
    /\ nudgePushes[p] = "start" /\ space.status = "open"
    /\ nudgePushes' = [nudgePushes EXCEPT ![p] = "advised"]
    /\ nudges' = IF NeverStreamedAdvice THEN nudges + 1 ELSE nudges
    /\ blips' = blips \cup
        {b \in {"pushes overlap"} : \E q \in DOMAIN nudgePushes : nudgePushes[q] = "advised"} \cup
        {b \in {"buried"} : CountIn(timeline, "change_pushed") > CountIn(Latest, "change_pushed")}
    /\ UNCHANGED <<day, space, feed, timeline, reports, viewer, faultsLeft>>

\* recordWorkspaceEvent: a failed insert is logged, the push goes on
PushRecorded(p) ==
    /\ nudgePushes[p] = "advised"
    /\ nudgePushes' = [nudgePushes EXCEPT ![p] = "done"]
    /\ \/ timeline' = Append(timeline, "change_pushed") /\ UNCHANGED <<blips, faultsLeft>>
       \/ Fault /\ blips' = blips \cup {"row lost"} /\ UNCHANGED timeline
    /\ UNCHANGED <<day, space, feed, reports, viewer, nudges>>

-----------------------------------------------------------------------------
(* The workspace is closed, deleted and made again.                         *)
CloseWorkspace ==
    /\ day.ends /\ space.status = "open" /\ space' = [space EXCEPT !.status = "closed"]
    /\ timeline' = Append(timeline, "workspace_closed")
    /\ UNCHANGED <<day, feed, reports, nudgePushes, viewer, nudges, blips, faultsLeft>>

DeleteWorkspace ==
    /\ day.ends /\ space.status # "gone" /\ space' = [space EXCEPT !.status = "gone"]
    /\ feed' = << >> /\ timeline' = << >>
    /\ UNCHANGED <<day, reports, nudgePushes, viewer, nudges, blips, faultsLeft>>

MadeAgain ==
    /\ space.status = "gone" /\ space.life < 2
    /\ space' = [status |-> "open", life |-> space.life + 1]
    /\ nudges' = 0
    /\ UNCHANGED <<day, feed, timeline, reports, nudgePushes, viewer, blips, faultsLeft>>

ActivityNext ==
    \/ \E r \in DOMAIN reports :
        \/ AgentEvent(r) \/ CheckReport(r) \/ RecordWorkspaceActivity(r) \/ RecordFails(r)
        \/ Poke(r) \/ DaemonStops(r)
    \/ ListWorkspaceActivity
    \/ \E e \in {"snapshot_pushed", "change_abandoned"} : Happens(e)
    \/ \E p \in DOMAIN nudgePushes : PushAdvised(p) \/ PushRecorded(p)
    \/ CloseWorkspace \/ DeleteWorkspace \/ MadeAgain

ActivitySpec == ActivityInit /\ [][ActivityNext]_activityVars

-----------------------------------------------------------------------------
(* With a scanner wired no secret is stored, "a broken scanner becomes      *)
(* visibly redacted telemetry" (redactActivitySecrets).                     *)
FeedRedacted == day.scanner # "none" => \A k \in DOMAIN feed : feed[k].detail # "secret"

(* Once the calls are over and no poke is pending, the watcher has read     *)
(* every row of the workspace, unless a batch was stored in part or the     *)
(* daemon stopped before the poke.                                          *)
FeedSeen ==
    \/ ~(\A r \in DOMAIN reports : reports[r].at \in {"done", "refused", "failed"})
    \/ viewer.poked \/ space.status = "gone"
    \/ \A k \in DOMAIN feed : feed[k] \in ToSet(viewer.read)
    \/ blips \cap {"half stored", "stopped before the poke"} # {}

(* Every row was reported while the workspace was open, and by the life of  *)
(* it that shows the row, unless it was stored after the workspace had been *)
(* closed or deleted since the check (recordWorkspaceActivityCore).         *)
FeedIsOwn ==
    \A k \in DOMAIN feed :
        feed[k].of.status = "open" /\ (~feed[k].late => feed[k].of.life = space.life)

(* "Only the first change push ever nudges", unless two pushes overlap, the *)
(* row of the first was lost, or EventLimit later rows hide it - abandoned  *)
(* and landed Changes suffice (neverStreamedAdvice).                        *)
NudgedOnce == nudges > 1 => blips \cap {"pushes overlap", "row lost", "buried"} # {}

(* The feed is clean, read and the workspace's own, and the advice rare.    *)
FeedSound == FeedRedacted /\ FeedSeen /\ FeedIsOwn /\ NudgedOnce

-----------------------------------------------------------------------------
(* What runko keeps at home beside the checkouts: the binary, the files for *)
(* agents and the feed those report to, each beside the others.             *)
HomeSpec == UpdateSpec /\ FileSpec /\ ActivitySpec

(* HomeSound - the command that updates itself is whole, the files for      *)
(* agents are the user's beside runko's, and the feed is clean and read.    *)
HomeSound == UpdatesSound /\ AgentFilesSound /\ FeedSound
=============================================================================
