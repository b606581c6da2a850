------------------------------ MODULE Watchdog ------------------------------
(***************************************************************************)
(* The CI watchdog beside one open Change: it reads the pending checks of  *)
(* the Change's head from the daemon and the runs from GitHub, reports     *)
(* what the runner should have reported, and asks once for a rerun of a    *)
(* check nothing is known of.                                              *)
(*                                                                         *)
(* Data.  A head is a number.  The jobs of a head are one run, so the run  *)
(* is completed when none of its jobs goes on, and its conclusion is that  *)
(* of its worst job; "odd" stands for a conclusion Runko has no name for.  *)
(* A result keeps its link, the head whose run it came from (0: none); the *)
(* daemon files it under the head the Change has when the report arrives.  *)
(***************************************************************************)
EXTENDS Naturals, FiniteSets

CONSTANTS CIChecks, NoCheck,
          Grace,         \* Watchdog.Grace, in sweeps
          MaxCIHeads,    \* bound: pushes
          CIPlans        \* the Changes: the checks that are required, and bounds
                         \* on pushes and on upsets (lost dispatches, reports and
                         \* calls, restarts, reruns people ask for)

ASSUME WatchdogAssumption ==
    /\ NoCheck \notin CIChecks /\ Grace \in Nat \ {0} /\ MaxCIHeads \in Nat
    /\ CIPlans \subseteq [checks : SUBSET CIChecks, heads : 0 .. MaxCIHeads,
                          upsets : Nat]

VARIABLES head,       \* the head of the Change (0: not pushed yet)
          results,    \* the check runs of each head
          jobs,       \* GitHub: the jobs of each head's run
          unreported, \* the jobs whose runner has not posted its result yet
          sweep,      \* Watchdog.Sweep
          firstSeen,  \* how long each check is known to be pending
          rescued,    \* the checks that had their rescue
          rescues,    \* history: the rescue reruns of each check
          forgets,    \* history: how often what the watchdog knew of a check, or
                      \* the answer to its rescue, was lost, or the check became
                      \* pending again
          passed,     \* history: the checks that succeeded in some run
          upsets,
          ci          \* the Change of this behaviour

watchdogVars == <<head, results, jobs, unreported, sweep, firstSeen, rescued,
                  rescues, forgets, passed, upsets, ci>>
ciVars == <<head, results, jobs, unreported, passed, ci>>
bookVars == <<firstSeen, rescued, rescues, forgets>>

----------------------------------------------------------------------------
CIHeads == 1 .. MaxCIHeads

Pending == [status |-> "pending", green |-> FALSE, run |-> 0]

NoSweep == [pc |-> "idle", head |-> 0, reqs |-> {}, at |-> NoCheck,
            run |-> 0, job |-> "none", known |-> {}, saved |-> {}, found |-> << >>]

\* On to the next check.
Onward == [sweep EXCEPT !.pc = "check", !.at = NoCheck, !.run = 0, !.job = "none"]

CIUpset == upsets < ci.upsets /\ upsets' = upsets + 1

Over == {"success", "failure", "odd"}

\* GetRun of the run of head h.
RunCompleted(h) == \A k \in ci.checks : jobs[h][k] # "queued"
RunConclusion(h) ==
    LET all == {jobs[h][k] : k \in ci.checks} IN
    IF "odd" \in all THEN "odd" ELSE IF "failure" \in all THEN "failure"
    ELSE "success"

\* Mutant: a conclusion nobody knows passes.
MapLenient(conclusion) == conclusion # "failure"

\* mapConclusion: the result is green only for what is known to be.
MapConclusion(conclusion) == conclusion = "success"

\* A report of check k with the job of head h behind it: UpsertCheckRun under
\* the head of the moment.
ReportDone(h, k, green) ==
    results' = [results EXCEPT ![head][k] =
       [status |-> "done", green |-> green, run |-> h]]
ReportRunning(h, k) ==
    /\ results' = [results EXCEPT ![head][k] =
          [status |-> "pending", green |-> FALSE, run |-> h]]
    /\ forgets' = IF head # 0 /\ results[head][k].status = "done"
                  THEN [forgets EXCEPT ![head][k] = @ + 1] ELSE forgets

----------------------------------------------------------------------------
(* External: pushes, GitHub's runner and the workflow's own reports.       *)

\* A push moves the head; its change.updated starts a run, or is lost.
PushHead ==
    /\ head < ci.heads
    /\ head' = head + 1
    /\ \/ /\ jobs' = [jobs EXCEPT ![head + 1] = [k \in CIChecks |->
                       IF k \in ci.checks THEN "queued" ELSE "none"]]
          /\ unreported' = unreported \cup ({head + 1} \X ci.checks)
          /\ UNCHANGED upsets
       \/ CIUpset /\ UNCHANGED <<jobs, unreported>>
    /\ UNCHANGED <<results, passed, ci, sweep, bookVars>>

JobEnds(h, k) ==
    /\ jobs[h][k] = "queued"
    /\ \E c \in Over :
          /\ jobs' = [jobs EXCEPT ![h][k] = c]
          /\ passed' = IF c = "success" THEN passed \cup {<<h, k>>} ELSE passed
    /\ UNCHANGED <<head, results, unreported, ci, sweep, upsets, bookVars>>

\* The workflow reports that it runs, or how it ended, or never gets through.
RunnerReports(h, k) ==
    /\ <<h, k>> \in unreported
    /\ \/ /\ jobs[h][k] = "queued" /\ ReportRunning(h, k) /\ UNCHANGED <<unreported, upsets>>
       \/ /\ jobs[h][k] \in Over
          /\ ReportDone(h, k, jobs[h][k] = "success")
          /\ unreported' = unreported \ {<<h, k>>} /\ UNCHANGED <<upsets, forgets>>
       \/ /\ CIUpset /\ unreported' = unreported \ {<<h, k>>}
          /\ UNCHANGED <<results, forgets>>
    /\ UNCHANGED <<head, jobs, passed, ci, sweep, firstSeen, rescued, rescues>>

\* A rerun: the result is pending again and a job starts, or the dispatch of
\* it is lost.
RerunCheck(k, lost) ==
    /\ results' = [results EXCEPT ![head][k] = Pending]
    /\ IF lost THEN UNCHANGED <<jobs, unreported>>
       ELSE /\ jobs' = [jobs EXCEPT ![head][k] = "queued"]
            /\ unreported' = unreported \cup {<<head, k>>}

\* Somebody asks for one.
HumanRerun(k) ==
    /\ head # 0 /\ results[head][k].status = "done" /\ CIUpset
    /\ \E lost \in BOOLEAN : RerunCheck(k, lost)
    /\ forgets' = [forgets EXCEPT ![head][k] = @ + 1]
    /\ UNCHANGED <<head, passed, ci, sweep, firstSeen, rescued, rescues>>

----------------------------------------------------------------------------
(* Sweep.                                                                  *)

ListOpenChanges ==
    /\ sweep.pc = "idle" /\ head # 0
    /\ sweep' = [NoSweep EXCEPT !.pc = "requirements", !.head = head]
    /\ UNCHANGED <<ciVars, upsets, bookVars>>

\* MergeRequirements: the pending checks and which of them have a link; what
\* was known of them is kept.
MergeRequirements ==
    /\ sweep.pc = "requirements"
    /\ LET todo == {k \in ci.checks : results[head][k].status = "pending"}
           keys == {sweep.head} \X todo
       IN  sweep' = [sweep EXCEPT !.pc = "check",
                        !.reqs = {<<k, results[head][k].run>> : k \in todo},
                        !.known = keys, !.saved = keys \cap rescued]
    /\ UNCHANGED <<ciVars, upsets, bookVars>>

\* It fails: the sweep goes on to the next Change, and what was known of this
\* one is not carried over.
RequirementsFail ==
    /\ sweep.pc = "requirements" /\ CIUpset
    /\ sweep' = [sweep EXCEPT !.pc = "check"]
    /\ forgets' = [h \in CIHeads |-> [k \in CIChecks |-> forgets[h][k] + 1]]
    /\ UNCHANGED <<ciVars, firstSeen, rescued, rescues>>

\* The sweep is over: the books are what it kept, and an interval passes to
\* the next one.  (A sweep reads the clock once, when it begins.)
EndSweep ==
    /\ sweep.pc = "check" /\ sweep.reqs = {}
    /\ firstSeen' = [key \in sweep.known |->
          LET age == IF key \in DOMAIN firstSeen THEN firstSeen[key] ELSE 0
          IN  IF age < Grace THEN age + 1 ELSE age]
    /\ rescued' = sweep.saved
    /\ sweep' = NoSweep
    /\ UNCHANGED <<ciVars, upsets, rescues, forgets>>

\* Mutant: the grace is never over.
PastGraceNever(key) == FALSE

PastGrace(key) == key \in DOMAIN firstSeen /\ firstSeen[key] >= Grace

\* Mutant: the books do not matter.
MayRescueAgain(key) == PastGrace(key)

MayRescue(key) == PastGrace(key) /\ key \notin sweep.saved

\* The jobs of the Change as far as this sweep is concerned: discovery is asked
\* once, and its answer kept for the checks that follow (jobsCache).
Jobs == IF sweep.found = << >> THEN jobs[sweep.head] ELSE sweep.found

\* The next pending check: GetRun for one with a link, discovery of its job
\* for one without, and what follows from the answer.
AskGitHub ==
    /\ sweep.pc = "check"
    /\ \E req \in sweep.reqs :
          LET k == req[1]
              r == req[2]
              h == sweep.head
              on == [sweep EXCEPT !.reqs = @ \ {req},
                                  !.found = IF r = 0 THEN Jobs ELSE @]
              report(run, c) == [on EXCEPT !.pc = "report", !.at = k, !.run = run,
                                           !.job = c]
          IN  sweep' =
                IF r # 0
                THEN IF PastGrace(<<h, k>>) /\ RunCompleted(r)
                     THEN report(r, RunConclusion(r)) ELSE on
                ELSE IF Jobs[k] # "none" THEN report(h, Jobs[k])
                ELSE IF MayRescue(<<h, k>>) THEN [on EXCEPT !.pc = "rerun", !.at = k]
                ELSE on
    /\ UNCHANGED <<ciVars, upsets, bookVars>>

\* A call to GitHub fails: for the checks without a link that is as if no job
\* was found.
AskFails ==
    /\ sweep.pc = "check" /\ CIUpset
    /\ \E req \in sweep.reqs :
          LET on == [sweep EXCEPT !.reqs = @ \ {req}]
              none == [on EXCEPT !.found = [k \in CIChecks |-> "none"]]
          IN  \/ req[2] # 0 /\ sweep' = on
              \/ /\ req[2] = 0 /\ sweep.found = << >>
                 /\ sweep' = IF MayRescue(<<sweep.head, req[1]>>)
                             THEN [none EXCEPT !.pc = "rerun", !.at = req[1]]
                             ELSE none
    /\ UNCHANGED <<ciVars, bookVars>>

\* ReportCheck, by the name of the Change.
ReportCheck ==
    /\ sweep.pc = "report"
    /\ IF sweep.job = "queued" THEN ReportRunning(sweep.run, sweep.at)
       ELSE /\ ReportDone(sweep.run, sweep.at, MapConclusion(sweep.job))
            /\ UNCHANGED forgets
    /\ sweep' = Onward
    /\ UNCHANGED <<head, jobs, unreported, passed, ci, upsets, firstSeen, rescued,
                   rescues>>

\* RerunCheck.
RescueRerun ==
    /\ sweep.pc = "rerun"
    /\ LET key == <<sweep.head, sweep.at>> IN
       /\ sweep' = [Onward EXCEPT !.saved = @ \cup {key}]
       /\ rescues' = [rescues EXCEPT ![sweep.head][sweep.at] = @ + 1]
    /\ \E lost \in BOOLEAN : /\ RerunCheck(sweep.at, lost)
                             /\ IF lost THEN CIUpset ELSE UNCHANGED upsets
    /\ UNCHANGED <<head, passed, ci, firstSeen, rescued, forgets>>

\* The daemon reran the check and its answer did not come back in time: the
\* sweep takes it for a failed call, and does not know of the rescue.
RescueUnheard ==
    /\ sweep.pc = "rerun" /\ CIUpset
    /\ sweep' = Onward
    /\ rescues' = [rescues EXCEPT ![sweep.head][sweep.at] = @ + 1]
    /\ forgets' = [forgets EXCEPT ![sweep.head][sweep.at] = @ + 1]
    /\ \E lost \in BOOLEAN : RerunCheck(sweep.at, lost)
    /\ UNCHANGED <<head, passed, ci, firstSeen, rescued>>

\* A call to the daemon does not get there: the sweep goes on.  (A report whose
\* answer is lost is ReportCheck: the sweep goes on in either case.)
DaemonFails ==
    /\ sweep.pc \in {"report", "rerun"} /\ CIUpset
    /\ sweep' = Onward
    /\ UNCHANGED <<ciVars, bookVars>>

WatchdogRestart ==
    /\ CIUpset
    /\ sweep' = NoSweep /\ firstSeen' = << >> /\ rescued' = {}
    /\ forgets' = [h \in CIHeads |-> [k \in CIChecks |-> forgets[h][k] + 1]]
    /\ UNCHANGED <<ciVars, rescues>>

SweepStep == \/ ListOpenChanges \/ MergeRequirements \/ EndSweep
             \/ AskGitHub \/ ReportCheck \/ RescueRerun

WatchdogInit ==
    /\ head = 0 /\ ci \in CIPlans
    /\ results = [h \in CIHeads |-> [k \in CIChecks |-> Pending]]
    /\ jobs = [h \in CIHeads |-> [k \in CIChecks |-> "none"]]
    /\ unreported = {}
    /\ sweep = NoSweep /\ firstSeen = << >> /\ rescued = {}
    /\ rescues = [h \in CIHeads |-> [k \in CIChecks |-> 0]]
    /\ forgets = [h \in CIHeads |-> [k \in CIChecks |-> 0]]
    /\ upsets = 0 /\ passed = {}

WatchdogNext ==
    \/ PushHead \/ \E k \in CIChecks : HumanRerun(k)
    \/ \E h \in CIHeads, k \in CIChecks : JobEnds(h, k) \/ RunnerReports(h, k)
    \/ SweepStep
    \/ RequirementsFail \/ AskFails \/ RescueUnheard \/ DaemonFails
    \/ WatchdogRestart

\* What the watchdog, GitHub, runners and people may do.
WatchdogSpec == WatchdogInit /\ [][WatchdogNext]_watchdogVars

----------------------------------------------------------------------------
(* Properties.                                                             *)

\* NoFalseGreen - a check is green only if its own job succeeded for the head
\* the report came from, although the watchdog judges a check with a link by
\* the conclusion of the whole run and may do so while the Change moves on
\* (Sweep, mapConclusion).
NoFalseGreen ==
    \A h \in CIHeads, k \in CIChecks :
       results[h][k].green => <<results[h][k].run, k>> \in passed

\* RescuesAccounted - "exactly ONE rescue rerun per (change, head, name)" is not
\* what the books keep.  Each further one is owed to a restart or a failed reading
\* of the requirements, which empty the books, to a rescue the daemon made and
\* whose answer was lost, to a rerun somebody asked for, or to a late report that
\* a finished check is running (Sweep's rebuild of firstSeen and rescued); there
\* are no others.
RescuesAccounted ==
    \A h \in CIHeads, k \in CIChecks : rescues[h][k] <= 1 + forgets[h][k]

\* ChecksSettle - a check does not stay pending because a report or a dispatch
\* was lost: it is reported or rescued, unless the Change moves on.
ChecksSettle ==
    []<>(head = 0 \/ \A k \in ci.checks : \/ results[head][k].status = "done"
                                          \/ rescues[head][k] > 0)

\* WatchdogHonest - the watchdog neither makes a check green that did not pass nor
\* asks again for a rescue it knows of (Sweep).
WatchdogHonest == NoFalseGreen /\ RescuesAccounted
=============================================================================
