------------------------------- MODULE CIProofs -------------------------------
(***************************************************************************)
(* The watchdog is honest, for any checks, pushes, grace and upsets: what  *)
(* it makes green has passed, and each rescue beyond the first of a check  *)
(* has a cause.  And the projects CI is asked to run for a change are all  *)
(* that it affects: the walk over the dependents is exact, and no changed  *)
(* path is dropped.                                                        *)
(***************************************************************************)
EXTENDS Watchdog, Affected, FiniteSetTheorems, WellFoundedInduction, TLAPS

JobStates == {"none", "queued", "success", "failure", "odd"}
Runs == 0 .. MaxCIHeads
Result == [status : {"pending", "done"}, green : BOOLEAN, run : Runs]

SweepType == [pc : {"idle", "requirements", "check", "report", "rerun"},
              head : Runs, reqs : SUBSET (CIChecks \X Runs),
              at : CIChecks \cup {NoCheck}, run : Runs, job : JobStates,
              known : SUBSET (CIHeads \X CIChecks),
              saved : SUBSET (CIHeads \X CIChecks),
              found : {<< >>} \cup [CIChecks -> JobStates]]

Typed ==
    /\ ci \in CIPlans /\ head \in Runs /\ head <= ci.heads
    /\ results \in [CIHeads -> [CIChecks -> Result]]
    /\ jobs \in [CIHeads -> [CIChecks -> JobStates]]
    /\ unreported \subseteq CIHeads \X CIChecks
    /\ rescued \subseteq CIHeads \X CIChecks
    /\ rescues \in [CIHeads -> [CIChecks -> Nat]]
    /\ forgets \in [CIHeads -> [CIChecks -> Nat]]
    /\ sweep \in SweepType
    /\ sweep.pc # "idle" => sweep.head \in CIHeads /\ sweep.head <= head
    /\ sweep.pc \in {"report", "rerun"} => sweep.at \in CIChecks
    /\ sweep.pc = "report" => sweep.run \in CIHeads

\* The plan of a behaviour, as far as the proofs need it.
LEMMA PlanTypes ==
  ASSUME Typed
  PROVE  /\ ci.checks \subseteq CIChecks /\ ci.heads \in Runs
         /\ MaxCIHeads \in Nat /\ CIHeads \subseteq Runs /\ 0 \in Runs
         /\ head # 0 => head \in CIHeads
         /\ head < ci.heads => head + 1 \in CIHeads
  BY WatchdogAssumption DEF Typed, Runs, CIHeads

\* One entry of a table by heads and checks changes.
LEMMA OneEntry ==
  ASSUME NEW T, NEW f \in [CIHeads -> [CIChecks -> T]], NEW h \in CIHeads, NEW k \in CIChecks,
         NEW v \in T, NEW g, g = [f EXCEPT ![h][k] = v]
  PROVE  /\ g \in [CIHeads -> [CIChecks -> T]]
         /\ g[h][k] = v
         /\ \A i \in CIHeads, j \in CIChecks : (i # h \/ j # k) => g[i][j] = f[i][j]
  <1>1. PICK row : row = [f[h] EXCEPT ![k] = v]
    OBVIOUS
  <1>2. row \in [CIChecks -> T] /\ row[k] = v
        /\ \A j \in CIChecks : j # k => row[j] = f[h][j]
    BY <1>1
  <1>3. g = [f EXCEPT ![h] = row]
    BY <1>1
  <1> QED
    BY <1>2, <1>3

\* What a report does to the results: one that it is done ...
LEMMA DoneEffect ==
  ASSUME Typed, NEW h \in CIHeads, NEW k \in CIChecks, NEW green \in BOOLEAN,
         ReportDone(h, k, green), UNCHANGED forgets
  PROVE  /\ results' \in [CIHeads -> [CIChecks -> Result]]
         /\ \A i \in CIHeads, j \in CIChecks :
               \/ results'[i][j] = results[i][j]
               \/ /\ i = head /\ j = k /\ results'[i][j].run = h
                  /\ results'[i][j].green = green
         /\ forgets' \in [CIHeads -> [CIChecks -> Nat]]
         /\ \A i \in CIHeads, j \in CIChecks :
               /\ forgets'[i][j] = forgets[i][j]
               /\ results[i][j].status = "done" => results'[i][j].status = "done"
  <1>6. results \in [CIHeads -> [CIChecks -> Result]]
    BY DEF Typed
  <1>7. h \in Runs /\ 0 \in Runs
    BY PlanTypes
  <1>0. PICK v : v = [status |-> "done", green |-> green, run |-> h]
    OBVIOUS
  <1>1. v \in Result /\ v.run = h /\ v.green = green /\ v.status = "done"
    BY <1>7, <1>0 DEF Result
  <1>2. results' = [results EXCEPT ![head][k] = v]
    BY <1>0 DEF ReportDone
  <1>3. /\ results' \in [CIHeads -> [CIChecks -> Result]]
        /\ head \in CIHeads => results'[head][k] = v
        /\ \A i \in CIHeads, j \in CIChecks :
              (i # head \/ j # k) => results'[i][j] = results[i][j]
    <2>1. v \in Result
      BY <1>1
    <2>2. CASE head \in CIHeads
      BY <1>6, <1>2, <2>1, <2>2, OneEntry
    <2>3. CASE head \notin CIHeads
      <3>1. results' = results
        BY <1>6, <1>2, <2>3
      <3> QED
        BY <1>6, <2>3, <3>1
    <2> QED
      BY <2>2, <2>3
  <1>4. \A i \in CIHeads, j \in CIChecks :
           /\ forgets'[i][j] = forgets[i][j] /\ forgets[i][j] \in Nat
           /\ results[i][j].status = "done" => results'[i][j].status = "done"
    BY <1>1, <1>3 DEF Typed
  <1>5. forgets' \in [CIHeads -> [CIChecks -> Nat]]
    BY DEF Typed
  <1> QED
    BY <1>1, <1>3, <1>4, <1>5

\* ... or that it runs, which a check that was done is sent back by.
LEMMA RunningEffect ==
  ASSUME Typed, NEW h \in CIHeads, NEW k \in CIChecks, ReportRunning(h, k)
  PROVE  /\ results' \in [CIHeads -> [CIChecks -> Result]]
         /\ \A i \in CIHeads, j \in CIChecks :
               \/ results'[i][j] = results[i][j]
               \/ /\ i = head /\ j = k /\ results'[i][j].run = h
                  /\ ~results'[i][j].green
         /\ forgets' \in [CIHeads -> [CIChecks -> Nat]]
         /\ \A i \in CIHeads, j \in CIChecks :
               /\ forgets'[i][j] >= forgets[i][j]
               /\ \/ results[i][j].status = "done" => results'[i][j].status = "done"
                  \/ forgets'[i][j] > forgets[i][j]
  <1>6. results \in [CIHeads -> [CIChecks -> Result]]
    BY DEF Typed
  <1>7. h \in Runs /\ 0 \in Runs
    BY PlanTypes
  <1>0. PICK v : v = [status |-> "pending", green |-> FALSE, run |-> h]
    OBVIOUS
  <1>1. v \in Result /\ v.run = h /\ v.green = FALSE
    BY <1>7, <1>0 DEF Result
  <1>2. results' = [results EXCEPT ![head][k] = v]
    BY <1>0 DEF ReportRunning
  <1>3. /\ results' \in [CIHeads -> [CIChecks -> Result]]
        /\ head \in CIHeads => results'[head][k] = v
        /\ \A i \in CIHeads, j \in CIChecks :
              (i # head \/ j # k) => results'[i][j] = results[i][j]
    <2>1. v \in Result
      BY <1>1
    <2>2. CASE head \in CIHeads
      BY <1>6, <1>2, <2>1, <2>2, OneEntry
    <2>3. CASE head \notin CIHeads
      <3>1. results' = results
        BY <1>6, <1>2, <2>3
      <3> QED
        BY <1>6, <2>3, <3>1
    <2> QED
      BY <2>2, <2>3
  <1>4. CASE head # 0 /\ results[head][k].status = "done"
    <2>1. head \in CIHeads /\ forgets[head][k] + 1 \in Nat
      BY <1>4, PlanTypes DEF Typed
    <2>2. forgets' = [forgets EXCEPT ![head][k] = forgets[head][k] + 1]
      BY <1>4 DEF ReportRunning
    <2>3. /\ forgets' \in [CIHeads -> [CIChecks -> Nat]]
          /\ forgets'[head][k] = forgets[head][k] + 1
          /\ \A i \in CIHeads, j \in CIChecks :
                (i # head \/ j # k) => forgets'[i][j] = forgets[i][j]
      BY <2>1, <2>2, OneEntry DEF Typed
    <2>4. \A i \in CIHeads, j \in CIChecks :
             /\ forgets'[i][j] >= forgets[i][j]
             /\ (i = head /\ j = k) => forgets'[i][j] > forgets[i][j]
      BY <2>1, <2>3 DEF Typed
    <2> QED
      BY <1>1, <1>3, <2>3, <2>4
  <1>5. CASE ~(head # 0 /\ results[head][k].status = "done")
    <2>1. forgets' = forgets
      BY <1>5 DEF ReportRunning
    <2>2. \A i \in CIHeads, j \in CIChecks : forgets'[i][j] >= forgets[i][j]
      BY <2>1 DEF Typed
    <2>3. head \in CIHeads => results[head][k].status # "done"
      BY <1>5 DEF CIHeads
    <2> QED
      BY <1>1, <1>3, <2>1, <2>2, <2>3 DEF Typed
  <1> QED
    BY <1>4, <1>5

\* What a rerun does to the results and the jobs.
LEMMA RerunEffect ==
  ASSUME Typed, NEW k \in CIChecks, NEW lost \in BOOLEAN, head # 0,
         RerunCheck(k, lost)
  PROVE  /\ results' \in [CIHeads -> [CIChecks -> Result]]
         /\ jobs' \in [CIHeads -> [CIChecks -> JobStates]]
         /\ unreported' \subseteq CIHeads \X CIChecks
         /\ results'[head][k] = Pending
         /\ \A i \in CIHeads, j \in CIChecks :
               (i # head \/ j # k) => results'[i][j] = results[i][j]
         /\ \A i \in CIHeads, j \in CIChecks :
               \/ jobs'[i][j] = jobs[i][j]
               \/ i = head /\ jobs'[i][j] = "queued"
  <1>1. Pending \in Result /\ head \in CIHeads /\ "queued" \in JobStates
    BY PlanTypes DEF Pending, Result, JobStates
  <1>2. results' = [results EXCEPT ![head][k] = Pending]
    BY DEF RerunCheck
  <1>3. \/ jobs' = jobs /\ unreported' = unreported
        \/ /\ jobs' = [jobs EXCEPT ![head][k] = "queued"]
           /\ unreported' = unreported \cup {<<head, k>>}
    BY DEF RerunCheck
  <1>4. /\ results' \in [CIHeads -> [CIChecks -> Result]]
        /\ results'[head][k] = Pending
        /\ \A i \in CIHeads, j \in CIChecks :
              (i # head \/ j # k) => results'[i][j] = results[i][j]
    BY <1>1, <1>2, OneEntry DEF Typed
  <1>5. CASE jobs' = jobs /\ unreported' = unreported
    BY <1>4, <1>5 DEF Typed
  <1>6. CASE /\ jobs' = [jobs EXCEPT ![head][k] = "queued"]
             /\ unreported' = unreported \cup {<<head, k>>}
    <2>1. /\ jobs' \in [CIHeads -> [CIChecks -> JobStates]]
          /\ jobs'[head][k] = "queued"
          /\ \A i \in CIHeads, j \in CIChecks :
                (i # head \/ j # k) => jobs'[i][j] = jobs[i][j]
      BY <1>1, <1>6, OneEntry DEF Typed
    <2>2. unreported' \subseteq CIHeads \X CIChecks
      BY <1>1, <1>6 DEF Typed
    <2> QED
      BY <1>4, <2>1, <2>2
  <1> QED
    BY <1>3, <1>5, <1>6

\* What the sweep makes of check req[1] with what GitHub told it: the check is done
\* with, or there is something to report of it, or it is given its rescue.
Verdict(req, on) ==
    \/ sweep' = on
    \/ \E run \in CIHeads, job \in JobStates :
          /\ sweep' = [on EXCEPT !.pc = "report", !.at = req[1], !.run = run, !.job = job]
          /\ \/ run = req[2] /\ RunCompleted(run) /\ job = RunConclusion(run)
             \/ run = sweep.head /\ job = Jobs[req[1]] /\ job # "none"
    \/ /\ MayRescue(<<sweep.head, req[1]>>)
       /\ sweep' = [on EXCEPT !.pc = "rerun", !.at = req[1]]

Asked(req, found, on) ==
    /\ req \in sweep.reqs /\ req[1] \in CIChecks /\ req[2] \in Runs
    /\ found \in {<< >>} \cup [CIChecks -> JobStates]
    /\ \/ found = sweep.found \/ found = jobs[sweep.head]
       \/ found = [k \in CIChecks |-> "none"]
    /\ on = [sweep EXCEPT !.reqs = sweep.reqs \ {req}, !.found = found]
    /\ Verdict(req, on)

LEMMA AskCases ==
  ASSUME Typed, AskGitHub \/ AskFails
  PROVE  \E req, found, on : Asked(req, found, on)
  <1>1. /\ sweep \in SweepType /\ sweep.pc = "check" /\ sweep.head \in CIHeads
        /\ jobs \in [CIHeads -> [CIChecks -> JobStates]]
    BY DEF Typed, AskGitHub, AskFails
  <1>2. /\ sweep.found \in {<< >>} \cup [CIChecks -> JobStates]
        /\ jobs[sweep.head] \in [CIChecks -> JobStates]
        /\ sweep.reqs \subseteq CIChecks \X Runs
    BY <1>1 DEF SweepType
  <1>3. CASE AskGitHub
    <2>1. PICK req \in sweep.reqs :
             LET k == req[1]
                 r == req[2]
                 h == sweep.head
                 on == [sweep EXCEPT !.reqs = sweep.reqs \ {req},
                                     !.found = IF r = 0 THEN Jobs ELSE sweep.found]
                 report(run, c) == [on EXCEPT !.pc = "report", !.at = k, !.run = run,
                                              !.job = c]
             IN  sweep' =
                   IF r # 0
                   THEN IF PastGrace(<<h, k>>) /\ RunCompleted(r)
                        THEN report(r, RunConclusion(r)) ELSE on
                   ELSE IF Jobs[k] # "none" THEN report(h, Jobs[k])
                   ELSE IF MayRescue(<<h, k>>) THEN [on EXCEPT !.pc = "rerun", !.at = k]
                   ELSE on
      BY <1>3 DEF AskGitHub
    <2>2. req[1] \in CIChecks /\ req[2] \in Runs
      BY <1>2
    <2>3. PICK found : found = IF req[2] = 0 THEN Jobs ELSE sweep.found
      OBVIOUS
    <2>4. /\ found \in {<< >>} \cup [CIChecks -> JobStates]
          /\ found = sweep.found \/ found = jobs[sweep.head]
      BY <1>2, <2>3 DEF Jobs
    <2>5. PICK on : on = [sweep EXCEPT !.reqs = sweep.reqs \ {req}, !.found = found]
      OBVIOUS
    <2>6. sweep' =
             IF req[2] # 0
             THEN IF PastGrace(<<sweep.head, req[1]>>) /\ RunCompleted(req[2])
                  THEN [on EXCEPT !.pc = "report", !.at = req[1], !.run = req[2],
                                  !.job = RunConclusion(req[2])]
                  ELSE on
             ELSE IF Jobs[req[1]] # "none"
             THEN [on EXCEPT !.pc = "report", !.at = req[1], !.run = sweep.head,
                             !.job = Jobs[req[1]]]
             ELSE IF MayRescue(<<sweep.head, req[1]>>)
             THEN [on EXCEPT !.pc = "rerun", !.at = req[1]]
             ELSE on
      BY <2>1, <2>3, <2>5
    <2>7. req[2] # 0 => req[2] \in CIHeads
      BY <2>2, WatchdogAssumption DEF Runs, CIHeads
    <2>8. \A r : RunConclusion(r) \in JobStates
      BY DEF RunConclusion, JobStates
    <2>9. req[2] = 0 => Jobs[req[1]] \in JobStates
      <3>1. Jobs \in [CIChecks -> JobStates]
        BY <1>2 DEF Jobs
      <3> QED
        BY <2>2, <3>1
    <2>10. Verdict(req, on)
      <3>1. CASE req[2] # 0 /\ PastGrace(<<sweep.head, req[1]>>) /\ RunCompleted(req[2])
        BY <2>6, <2>7, <2>8, <3>1 DEF Verdict
      <3>2. CASE req[2] # 0 /\ ~(PastGrace(<<sweep.head, req[1]>>) /\ RunCompleted(req[2]))
        BY <2>6, <3>2 DEF Verdict
      <3>3. CASE req[2] = 0 /\ Jobs[req[1]] # "none"
        BY <1>1, <2>6, <2>9, <3>3 DEF Verdict
      <3>4. CASE req[2] = 0 /\ ~(Jobs[req[1]] # "none")
        BY <2>6, <3>4 DEF Verdict
      <3> QED
        BY <3>1, <3>2, <3>3, <3>4
    <2> QED
      BY <2>2, <2>4, <2>5, <2>10 DEF Asked
  <1>4. CASE AskFails
    <2> DEFINE None == [k \in CIChecks |-> "none"]
    <2>1. None \in [CIChecks -> JobStates]
      BY DEF JobStates
    <2>2. PICK req \in sweep.reqs :
             LET on == [sweep EXCEPT !.reqs = sweep.reqs \ {req}]
                 none == [on EXCEPT !.found = None]
             IN  \/ req[2] # 0 /\ sweep' = on
                 \/ /\ req[2] = 0 /\ sweep.found = << >>
                    /\ sweep' = IF MayRescue(<<sweep.head, req[1]>>)
                                THEN [none EXCEPT !.pc = "rerun", !.at = req[1]]
                                ELSE none
      BY <1>4 DEF AskFails
    <2>3. req[1] \in CIChecks /\ req[2] \in Runs
      BY <1>2
    <2> HIDE DEF None
    <2>4. CASE sweep' = [sweep EXCEPT !.reqs = sweep.reqs \ {req}]
      <3>1. sweep' = [sweep EXCEPT !.reqs = sweep.reqs \ {req}, !.found = sweep.found]
        BY <1>1, <2>4 DEF SweepType
      <3> QED
        BY <1>2, <2>3, <3>1 DEF Asked, Verdict
    <2>5. PICK on : on = [sweep EXCEPT !.reqs = sweep.reqs \ {req}, !.found = None]
      OBVIOUS
    <2>6. CASE \/ sweep' = on
               \/ /\ MayRescue(<<sweep.head, req[1]>>)
                  /\ sweep' = [on EXCEPT !.pc = "rerun", !.at = req[1]]
      <3>1. Verdict(req, on)
        BY <2>6 DEF Verdict
      <3>2. Asked(req, None, on)
        BY <2>1, <2>3, <2>5, <3>1 DEF Asked, None
      <3> QED
        BY Zenon, <3>2
    <2> QED
      BY <2>2, <2>4, <2>5, <2>6
  <1> QED
    BY <1>3, <1>4

LEMMA InitTyped == ASSUME WatchdogInit PROVE Typed
  <1>1. /\ Pending \in Result /\ "none" \in JobStates /\ 0 \in Nat /\ 0 \in Runs
        /\ NoSweep \in SweepType /\ NoSweep.pc = "idle"
    BY WatchdogAssumption DEF Pending, Result, JobStates, Runs, NoSweep, SweepType
  <1>2. ci \in CIPlans => 0 <= ci.heads
    BY WatchdogAssumption
  <1> QED
    BY <1>1, <1>2 DEF WatchdogInit, Typed

\* A sweep that goes on to its next check.
LEMMA OnwardTypes ==
  ASSUME sweep \in SweepType
  PROVE  /\ Onward \in SweepType /\ Onward.pc = "check" /\ Onward.head = sweep.head
         /\ Onward.reqs = sweep.reqs /\ Onward.known = sweep.known
         /\ Onward.saved = sweep.saved /\ Onward.found = sweep.found
  <1>1. 0 \in Runs /\ "none" \in JobStates
    BY WatchdogAssumption DEF Runs, JobStates
  <1> QED
    BY <1>1 DEF Onward, SweepType

LEMMA SweepTyped ==
  ASSUME Typed, [WatchdogNext]_watchdogVars,
         ~ (PushHead \/ \E k \in CIChecks : HumanRerun(k)),
         ~ \E h \in CIHeads, k \in CIChecks : JobEnds(h, k) \/ RunnerReports(h, k)
  PROVE  Typed'
  <1>0. /\ NoSweep \in SweepType /\ NoSweep.pc = "idle" /\ sweep \in SweepType
        /\ head # 0 => head \in CIHeads
        /\ "none" \in JobStates /\ 0 \in Runs
    BY PlanTypes, WatchdogAssumption DEF Typed, NoSweep, SweepType, Runs, JobStates
  <1>1. CASE ListOpenChanges
    <2>1. /\ sweep' = [NoSweep EXCEPT !.pc = "requirements", !.head = head] /\ head # 0
          /\ UNCHANGED <<ciVars, bookVars>>
      BY <1>1 DEF ListOpenChanges
    <2>2. sweep' \in SweepType /\ sweep'.head = head /\ sweep'.pc = "requirements"
      BY <1>0, <2>1 DEF Typed, SweepType
    <2> QED
      BY <1>0, <2>1, <2>2 DEF Typed, ciVars, bookVars, Runs
  <1>2. CASE MergeRequirements
    <2>1. PICK todo : todo = {k \in ci.checks : results[head][k].status = "pending"}
      OBVIOUS
    <2>2. todo \subseteq CIChecks
      BY <2>1, PlanTypes
    <2>3. PICK reqs : reqs = {<<k, results[head][k].run>> : k \in todo}
      OBVIOUS
    <2>4. /\ sweep' = [sweep EXCEPT !.pc = "check", !.reqs = reqs,
                          !.known = {sweep.head} \X todo,
                          !.saved = ({sweep.head} \X todo) \cap rescued]
          /\ UNCHANGED <<ciVars, bookVars>> /\ sweep.pc = "requirements"
      BY <1>2, <2>1, <2>3 DEF MergeRequirements
    <2>5. sweep.head \in CIHeads /\ sweep.head <= head /\ head \in CIHeads
      BY <2>4, <1>0 DEF Typed, Runs, CIHeads
    <2>6. reqs \subseteq CIChecks \X Runs
      <3>1. \A k \in todo : results[head][k].run \in Runs
        BY <2>2, <2>5 DEF Typed, Result
      <3> QED
        BY <2>2, <2>3, <3>1
    <2>7. /\ sweep' \in SweepType /\ sweep'.pc = "check" /\ sweep'.head = sweep.head
      BY <1>0, <2>2, <2>4, <2>5, <2>6 DEF SweepType
    <2> QED
      BY <2>4, <2>5, <2>7 DEF Typed, ciVars, bookVars
  <1>3. CASE RequirementsFail
    <2>1. /\ sweep' = [sweep EXCEPT !.pc = "check"] /\ sweep.pc = "requirements"
          /\ forgets' = [h \in CIHeads |-> [k \in CIChecks |-> forgets[h][k] + 1]]
          /\ UNCHANGED <<ciVars, firstSeen, rescued, rescues>>
      BY <1>3 DEF RequirementsFail
    <2>2. sweep' \in SweepType /\ sweep'.pc = "check" /\ sweep'.head = sweep.head
      BY <1>0, <2>1 DEF SweepType
    <2>3. forgets' \in [CIHeads -> [CIChecks -> Nat]]
      BY <2>1 DEF Typed
    <2> QED
      BY <2>1, <2>2, <2>3 DEF Typed, ciVars
  <1>4. CASE EndSweep
    <2>1. rescued' \subseteq CIHeads \X CIChecks
      BY <1>0, <1>4 DEF EndSweep, SweepType
    <2> QED
      BY <1>0, <1>4, <2>1 DEF EndSweep, Typed, ciVars
  <1>5. CASE AskGitHub \/ AskFails
    <2>1. PICK req, found, on : Asked(req, found, on)
      BY <1>5, AskCases
    <2>2. /\ sweep' \in SweepType /\ sweep'.head = sweep.head /\ sweep.pc = "check"
          /\ sweep'.pc \in {"report", "rerun"} => sweep'.at \in CIChecks
          /\ sweep'.pc = "report" => sweep'.run \in CIHeads
      <3>2. on \in SweepType /\ on.head = sweep.head /\ on.pc = "check" /\ sweep.pc = "check"
        BY <1>0, <1>5, <2>1 DEF Asked, SweepType, AskGitHub, AskFails
      <3>3. CASE sweep' = on
        BY <3>2, <3>3
      <3>4. ASSUME NEW run \in CIHeads, NEW job \in JobStates,
                   sweep' = [on EXCEPT !.pc = "report", !.at = req[1], !.run = run,
                                       !.job = job]
            PROVE  /\ sweep' \in SweepType /\ sweep'.head = sweep.head
                   /\ sweep'.at \in CIChecks /\ sweep'.run \in CIHeads
        BY <2>1, <3>2, <3>4, PlanTypes DEF Asked, SweepType
      <3>5. CASE sweep' = [on EXCEPT !.pc = "rerun", !.at = req[1]]
        BY <2>1, <3>2, <3>5 DEF Asked, SweepType
      <3> QED
        BY <2>1, <3>2, <3>3, <3>4, <3>5 DEF Asked, Verdict
    <2>3. UNCHANGED <<ciVars, bookVars>>
      BY <1>5 DEF AskGitHub, AskFails
    <2> QED
      BY <2>2, <2>3 DEF Typed, ciVars, bookVars
  <1>6. CASE ReportCheck
    <2>1. /\ sweep.at \in CIChecks /\ sweep.run \in CIHeads
          /\ MapConclusion(sweep.job) \in BOOLEAN
      BY <1>6 DEF ReportCheck, Typed, MapConclusion
    <2>2. /\ results' \in [CIHeads -> [CIChecks -> Result]]
          /\ forgets' \in [CIHeads -> [CIChecks -> Nat]]
      <3>1. CASE sweep.job = "queued"
        BY <1>6, <2>1, <3>1, RunningEffect DEF ReportCheck
      <3>2. CASE sweep.job # "queued"
        <4>1. PICK green \in BOOLEAN : green = MapConclusion(sweep.job)
          BY <2>1
        <4> QED
          BY <1>6, <2>1, <3>2, <4>1, DoneEffect DEF ReportCheck
      <3> QED
        BY <3>1, <3>2
    <2> QED
      BY <1>0, <1>6, <2>2, OnwardTypes DEF ReportCheck, Typed
  <1>7. CASE RescueRerun
    <2>1. /\ sweep.at \in CIChecks /\ sweep.head \in CIHeads /\ head # 0
      BY <1>7, WatchdogAssumption DEF RescueRerun, Typed, Runs, CIHeads
    <2>2. PICK lost \in BOOLEAN : RerunCheck(sweep.at, lost)
      BY <1>7 DEF RescueRerun
    <2>3. /\ results' \in [CIHeads -> [CIChecks -> Result]]
          /\ jobs' \in [CIHeads -> [CIChecks -> JobStates]]
          /\ unreported' \subseteq CIHeads \X CIChecks
      BY <2>1, <2>2, RerunEffect DEF RerunCheck
    <2>4. /\ sweep' = [Onward EXCEPT !.saved = Onward.saved \cup {<<sweep.head, sweep.at>>}]
          /\ rescues' = [rescues EXCEPT ![sweep.head][sweep.at] =
                            rescues[sweep.head][sweep.at] + 1]
          /\ UNCHANGED <<head, ci, rescued, forgets>>
      BY <1>7 DEF RescueRerun
    <2>5. sweep' \in SweepType /\ sweep'.pc = "check" /\ sweep'.head = sweep.head
      BY <1>0, <2>1, <2>4, OnwardTypes DEF SweepType
    <2>6. rescues' \in [CIHeads -> [CIChecks -> Nat]]
      BY <2>1, <2>4, OneEntry DEF Typed
    <2> QED
      BY <1>7, <2>3, <2>4, <2>5, <2>6 DEF RescueRerun, Typed
  <1>8. CASE DaemonFails
    BY <1>0, <1>8, OnwardTypes DEF DaemonFails, Typed, ciVars, bookVars
  <1>9. CASE WatchdogRestart
    <2>1. forgets' \in [CIHeads -> [CIChecks -> Nat]]
      BY <1>9 DEF WatchdogRestart, Typed
    <2> QED
      BY <1>0, <1>9, <2>1 DEF WatchdogRestart, Typed, ciVars
  <1>11. CASE RescueUnheard
    <2>1. /\ sweep.at \in CIChecks /\ sweep.head \in CIHeads /\ head # 0
      BY <1>11, WatchdogAssumption DEF RescueUnheard, Typed, Runs, CIHeads
    <2>2. PICK lost \in BOOLEAN : RerunCheck(sweep.at, lost)
      BY <1>11 DEF RescueUnheard
    <2>3. /\ results' \in [CIHeads -> [CIChecks -> Result]]
          /\ jobs' \in [CIHeads -> [CIChecks -> JobStates]]
          /\ unreported' \subseteq CIHeads \X CIChecks
      BY <2>1, <2>2, RerunEffect DEF RerunCheck
    <2>4. /\ rescues' = [rescues EXCEPT ![sweep.head][sweep.at] =
                            rescues[sweep.head][sweep.at] + 1]
          /\ forgets' = [forgets EXCEPT ![sweep.head][sweep.at] =
                            forgets[sweep.head][sweep.at] + 1]
      BY <1>11 DEF RescueUnheard
    <2>5. /\ rescues' \in [CIHeads -> [CIChecks -> Nat]]
          /\ forgets' \in [CIHeads -> [CIChecks -> Nat]]
      BY <2>1, <2>4, OneEntry DEF Typed
    <2> QED
      BY <1>0, <1>11, <2>3, <2>5, OnwardTypes DEF RescueUnheard, Typed
  <1>10. CASE UNCHANGED watchdogVars
    BY <1>10 DEF watchdogVars, Typed
  <1> QED
    BY <1>1, <1>2, <1>3, <1>4, <1>5, <1>6, <1>7, <1>8, <1>9, <1>10, <1>11
    DEF WatchdogNext, SweepStep

LEMMA NextTyped == ASSUME Typed, [WatchdogNext]_watchdogVars PROVE Typed'
  <1>1. CASE PushHead
    <2>1. /\ head < ci.heads /\ head' = head + 1
          /\ UNCHANGED <<results, passed, ci, sweep, bookVars>>
      BY <1>1 DEF PushHead
    <2>2. \/ UNCHANGED <<jobs, unreported>>
          \/ /\ jobs' = [jobs EXCEPT ![head + 1] = [k \in CIChecks |->
                           IF k \in ci.checks THEN "queued" ELSE "none"]]
             /\ unreported' = unreported \cup ({head + 1} \X ci.checks)
      BY <1>1 DEF PushHead
    <2>3. /\ head + 1 \in CIHeads /\ ci.checks \subseteq CIChecks
          /\ head + 1 \in Runs /\ head + 1 <= ci.heads
          /\ sweep.pc # "idle" => sweep.head <= head + 1
      BY <2>1, PlanTypes DEF Typed, Runs, CIHeads
    <2>4. [k \in CIChecks |-> IF k \in ci.checks THEN "queued" ELSE "none"]
             \in [CIChecks -> JobStates]
      BY DEF JobStates
    <2>5. /\ jobs' \in [CIHeads -> [CIChecks -> JobStates]]
          /\ unreported' \subseteq CIHeads \X CIChecks
      BY <2>2, <2>3, <2>4 DEF Typed
    <2> QED
      BY <2>1, <2>3, <2>5 DEF Typed, bookVars
  <1>2. ASSUME NEW k \in CIChecks, HumanRerun(k) PROVE Typed'
    <2>1. PICK lost \in BOOLEAN : RerunCheck(k, lost)
      BY <1>2 DEF HumanRerun
    <2>2. head # 0 /\ head \in CIHeads
      BY <1>2, PlanTypes DEF HumanRerun
    <2>3. /\ results' \in [CIHeads -> [CIChecks -> Result]]
          /\ jobs' \in [CIHeads -> [CIChecks -> JobStates]]
          /\ unreported' \subseteq CIHeads \X CIChecks
      BY <2>1, <2>2, RerunEffect DEF RerunCheck
    <2>4. forgets' = [forgets EXCEPT ![head][k] = forgets[head][k] + 1]
      BY <1>2 DEF HumanRerun
    <2>5. forgets' \in [CIHeads -> [CIChecks -> Nat]]
      BY <2>2, <2>4, OneEntry DEF Typed
    <2> QED
      BY <1>2, <2>3, <2>5 DEF HumanRerun, Typed
  <1>3. ASSUME NEW h \in CIHeads, NEW k \in CIChecks, JobEnds(h, k) PROVE Typed'
    <2>1. PICK c \in Over : jobs' = [jobs EXCEPT ![h][k] = c]
      BY <1>3 DEF JobEnds
    <2>2. c \in JobStates
      BY DEF Over, JobStates
    <2>3. jobs' \in [CIHeads -> [CIChecks -> JobStates]]
      BY <2>1, <2>2, OneEntry DEF Typed
    <2> QED
      BY <1>3, <2>3 DEF JobEnds, Typed, bookVars
  <1>4. ASSUME NEW h \in CIHeads, NEW k \in CIChecks, RunnerReports(h, k) PROVE Typed'
    <2>1. /\ results' \in [CIHeads -> [CIChecks -> Result]]
          /\ forgets' \in [CIHeads -> [CIChecks -> Nat]]
      <3>1. CASE ReportRunning(h, k)
        BY <3>1, RunningEffect
      <3>2. CASE ReportDone(h, k, jobs[h][k] = "success") /\ UNCHANGED forgets
        <4>1. PICK green \in BOOLEAN : green = (jobs[h][k] = "success")
          OBVIOUS
        <4> QED
          BY <3>2, <4>1, DoneEffect
      <3>3. CASE UNCHANGED <<results, forgets>>
        BY <3>3 DEF Typed
      <3> QED
        BY <1>4, <3>1, <3>2, <3>3 DEF RunnerReports
    <2>2. /\ unreported' \subseteq unreported
          /\ UNCHANGED <<head, jobs, passed, ci, sweep, firstSeen, rescued, rescues>>
      BY <1>4 DEF RunnerReports
    <2> QED
      BY <2>1, <2>2 DEF Typed
  <1> QED
    BY <1>1, <1>2, <1>3, <1>4, SweepTyped

----------------------------------------------------------------------------
(* Nothing turns green that did not pass.                                  *)

Known(h, k) == jobs[h][k] # "none"
Passed(h, k) == <<h, k>> \in passed
LinkKnown(h, k) == results[h][k].run # 0 => Known(results[h][k].run, k)

\* A link is one to a job there was, and what was heard of a job holds of it.
LinksHold ==
    /\ \A h \in CIHeads, k \in CIChecks :
          /\ jobs[h][k] = "success" => Passed(h, k)
          /\ h > head => ~Known(h, k)
          /\ LinkKnown(h, k)
    /\ \A req \in sweep.reqs :
          req[1] \in ci.checks /\ (req[2] # 0 => Known(req[2], req[1]))
    /\ sweep.pc = "report" =>
          /\ Known(sweep.run, sweep.at)
          /\ sweep.job = "success" => Passed(sweep.run, sweep.at)
    /\ sweep.pc # "idle" /\ sweep.found # << >> =>
          \A k \in CIChecks : /\ sweep.found[k] # "none" => Known(sweep.head, k)
                              /\ sweep.found[k] = "success" => Passed(sweep.head, k)

Green == Typed /\ LinksHold /\ NoFalseGreen

\* The jobs there are stay, and what passed has passed.
Grow ==
    /\ passed \subseteq passed'
    /\ \A h \in CIHeads, k \in CIChecks : Known(h, k) => Known(h, k)'

\* A result is what it was, or linked to a job there is and green if that passed.
ResultsHold ==
    \A h \in CIHeads, k \in CIChecks :
       \/ results'[h][k] = results[h][k]
       \/ results'[h][k] = Pending
       \/ \E run \in CIHeads :
             /\ results'[h][k].run = run /\ Known(run, k)
             /\ results'[h][k].green => Passed(run, k)

JobsHold ==
    \A h \in CIHeads, k \in CIChecks :
       /\ jobs'[h][k] = "success" => <<h, k>> \in passed'
       /\ h > head' => jobs'[h][k] = "none"

LEMMA LinkTypes ==
  ASSUME Typed
  PROVE  /\ \A h \in CIHeads, k \in CIChecks :
               results[h][k].run # 0 => results[h][k].run \in CIHeads
         /\ \A req \in sweep.reqs : req[1] \in CIChecks /\ (req[2] # 0 => req[2] \in CIHeads)
         /\ ~(head > head) /\ \A h \in CIHeads : h > head + 1 => h > head /\ h # head + 1
  <1>1. \A r \in Runs : r # 0 => r \in CIHeads
    BY WatchdogAssumption DEF Runs, CIHeads
  <1>2. \A h \in CIHeads, k \in CIChecks : results[h][k].run \in Runs
    BY DEF Typed, Result
  <1>3. sweep.reqs \subseteq CIChecks \X Runs
    BY DEF Typed, SweepType
  <1>4. head \in Nat /\ CIHeads \subseteq Nat
    BY WatchdogAssumption DEF Typed, Runs, CIHeads
  <1> QED
    BY <1>1, <1>2, <1>3, <1>4

LEMMA GreenResults ==
  ASSUME Green, Typed', Grow, ResultsHold
  PROVE  NoFalseGreen' /\ \A h \in CIHeads, k \in CIChecks : LinkKnown(h, k)'
  <1>1. Pending.green = FALSE /\ Pending.run = 0
    BY DEF Pending
  <1>2. \A h \in CIHeads, k \in CIChecks :
           results[h][k].run # 0 => results[h][k].run \in CIHeads
    BY LinkTypes DEF Green
  <1>3. \A h \in CIHeads, k \in CIChecks : jobs[h][k] # "none" => jobs'[h][k] # "none"
    BY DEF Grow, Known
  <1>4. ASSUME NEW h \in CIHeads, NEW k \in CIChecks
        PROVE  /\ results'[h][k].green => <<results'[h][k].run, k>> \in passed'
               /\ results'[h][k].run # 0 => jobs'[results'[h][k].run][k] # "none"
    <2>1. CASE results'[h][k] = results[h][k]
      <3>1. results[h][k].run # 0 => jobs[results[h][k].run][k] # "none"
        BY DEF Green, LinksHold, LinkKnown, Known
      <3>2. results[h][k].green => <<results[h][k].run, k>> \in passed'
        BY DEF Green, NoFalseGreen, Grow
      <3> QED
        BY <1>2, <1>3, <2>1, <3>1, <3>2
    <2>2. CASE results'[h][k] = Pending
      BY <1>1, <2>2
    <2>3. ASSUME NEW run \in CIHeads, results'[h][k].run = run, Known(run, k),
                 results'[h][k].green => Passed(run, k)
          PROVE  /\ results'[h][k].green => <<results'[h][k].run, k>> \in passed'
                 /\ jobs'[results'[h][k].run][k] # "none"
      BY <1>3, <2>3 DEF Grow, Known, Passed
    <2> QED
      BY <2>1, <2>2, <2>3 DEF ResultsHold
  <1> QED
    BY <1>4 DEF NoFalseGreen, LinkKnown, Known

\* What is heard of jobs holds after a step in which jobs grow.
LEMMA HeardStays ==
  ASSUME Green, Grow
  PROVE  /\ \A req \in sweep.reqs :
               req[1] \in ci.checks /\ (req[2] # 0 => jobs'[req[2]][req[1]] # "none")
         /\ sweep.pc # "idle" /\ sweep.found # << >> =>
               \A k \in CIChecks :
                  /\ sweep.found[k] # "none" => jobs'[sweep.head][k] # "none"
                  /\ sweep.found[k] = "success" => <<sweep.head, k>> \in passed'
         /\ sweep.pc = "report" =>
               /\ jobs'[sweep.run][sweep.at] # "none"
               /\ sweep.job = "success" => <<sweep.run, sweep.at>> \in passed'
  <1>1. \A h \in CIHeads, k \in CIChecks : jobs[h][k] # "none" => jobs'[h][k] # "none"
    BY DEF Grow, Known
  <1>2. passed \subseteq passed'
    BY DEF Grow
  <1>3. \A req \in sweep.reqs : req[1] \in CIChecks /\ (req[2] # 0 => req[2] \in CIHeads)
    BY LinkTypes DEF Green
  <1>4. /\ sweep.pc # "idle" => sweep.head \in CIHeads
        /\ sweep.pc = "report" => sweep.run \in CIHeads /\ sweep.at \in CIChecks
    BY DEF Green, Typed
  <1>5. \A req \in sweep.reqs :
           req[1] \in ci.checks /\ (req[2] # 0 => jobs'[req[2]][req[1]] # "none")
    BY <1>1, <1>3 DEF Green, LinksHold, Known
  <1>6. sweep.pc # "idle" /\ sweep.found # << >> =>
               \A k \in CIChecks :
                  /\ sweep.found[k] # "none" => jobs'[sweep.head][k] # "none"
                  /\ sweep.found[k] = "success" => <<sweep.head, k>> \in passed'
    BY <1>1, <1>2, <1>4 DEF Green, LinksHold, Known, Passed
  <1>7. sweep.pc = "report" =>
               /\ jobs'[sweep.run][sweep.at] # "none"
               /\ sweep.job = "success" => <<sweep.run, sweep.at>> \in passed'
    BY <1>1, <1>2, <1>4 DEF Green, LinksHold, Known, Passed
  <1> QED
    BY <1>5, <1>6, <1>7

\* Steps that are not the sweep's.
LEMMA OutsideGreen ==
  ASSUME Green, Typed', Grow, ResultsHold, JobsHold, UNCHANGED <<sweep, ci>>
  PROVE  Green'
  <1>1. \A h \in CIHeads, k \in CIChecks :
           /\ jobs'[h][k] = "success" => <<h, k>> \in passed'
           /\ h > head' => jobs'[h][k] = "none"
           /\ LinkKnown(h, k)'
    BY GreenResults DEF JobsHold
  <1> QED
    BY <1>1, HeardStays, GreenResults DEF Green, LinksHold, Known, Passed

\* Steps of the sweep that only look.
LEMMA LookGreen ==
  ASSUME Green, Typed', UNCHANGED ciVars,
         \A req \in sweep'.reqs :
            req[1] \in ci.checks /\ (req[2] # 0 => Known(req[2], req[1])),
         sweep'.pc = "report" =>
            /\ Known(sweep'.run, sweep'.at)
            /\ sweep'.job = "success" => Passed(sweep'.run, sweep'.at),
         sweep'.pc # "idle" /\ sweep'.found # << >> =>
            \A k \in CIChecks : /\ sweep'.found[k] # "none" => Known(sweep'.head, k)
                                /\ sweep'.found[k] = "success" => Passed(sweep'.head, k)
  PROVE  Green'
  BY DEF Green, LinksHold, LinkKnown, NoFalseGreen, Known, Passed, ciVars

\* A run that is over and went well had each of its jobs succeed.
LEMMA GoodRun ==
  ASSUME Typed, NEW h \in CIHeads, NEW k \in ci.checks, Known(h, k),
         RunCompleted(h), RunConclusion(h) = "success"
  PROVE  jobs[h][k] = "success"
  <1>1. jobs[h][k] \in JobStates
    BY PlanTypes DEF Typed
  <1>2. jobs[h][k] # "queued"
    BY DEF RunCompleted
  <1>3. jobs[h][k] \notin {"odd", "failure"}
    BY DEF RunConclusion
  <1> QED
    BY <1>1, <1>2, <1>3 DEF JobStates, Known

LEMMA AskGreen ==
  ASSUME Green, Typed', AskGitHub \/ AskFails
  PROVE  Green'
  <1>1. PICK req, found, on : Asked(req, found, on)
    BY AskCases DEF Green
  <1>2. sweep.pc = "check" /\ UNCHANGED ciVars
    BY DEF AskGitHub, AskFails
  <1>3. /\ on.pc = "check" /\ on.head = sweep.head /\ on.reqs \subseteq sweep.reqs
        /\ on.found = found /\ sweep.head \in CIHeads /\ sweep \in SweepType
        /\ DOMAIN on = DOMAIN sweep
    BY <1>1, <1>2 DEF Asked, Green, Typed, SweepType
  <1>4. req[1] \in ci.checks /\ req[1] \in CIChecks /\ (req[2] # 0 => Known(req[2], req[1]))
    BY <1>1, PlanTypes DEF Asked, Green, LinksHold
  <1>5. found # << >> =>
          \A k \in CIChecks : /\ found[k] # "none" => Known(sweep.head, k)
                              /\ found[k] = "success" => Passed(sweep.head, k)
    <2>1. CASE found = sweep.found
      BY <1>2, <2>1 DEF Green, LinksHold
    <2>2. CASE found = jobs[sweep.head]
      BY <1>3, <2>2 DEF Green, LinksHold, Known
    <2>3. CASE found = [k \in CIChecks |-> "none"]
      BY <2>3
    <2> QED
      BY <1>1, <2>1, <2>2, <2>3 DEF Asked
  <1>6. /\ sweep'.reqs \subseteq sweep.reqs /\ sweep'.found = found
        /\ sweep'.head = sweep.head
        /\ sweep'.pc = "report" =>
              /\ Known(sweep'.run, sweep'.at)
              /\ sweep'.job = "success" => Passed(sweep'.run, sweep'.at)
    <2>1. CASE sweep' = on
      BY <1>3, <2>1
    <2>2. ASSUME NEW run \in CIHeads, NEW job \in JobStates,
                 sweep' = [on EXCEPT !.pc = "report", !.at = req[1], !.run = run,
                                     !.job = job],
                 \/ run = req[2] /\ RunCompleted(run) /\ job = RunConclusion(run)
                 \/ run = sweep.head /\ job = Jobs[req[1]] /\ job # "none"
          PROVE  /\ sweep'.reqs \subseteq sweep.reqs /\ sweep'.found = found
                 /\ sweep'.head = sweep.head
                 /\ Known(sweep'.run, sweep'.at)
                 /\ sweep'.job = "success" => Passed(sweep'.run, sweep'.at)
      <3>1. /\ sweep'.reqs \subseteq sweep.reqs /\ sweep'.found = found
            /\ sweep'.head = sweep.head /\ sweep'.run = run /\ sweep'.at = req[1]
            /\ sweep'.job = job
        BY <1>1, <1>3, <2>2 DEF Asked, SweepType
      <3>2. CASE run = req[2] /\ RunCompleted(run) /\ job = RunConclusion(run)
        <4>1. Known(run, req[1])
          BY <1>4, <3>2 DEF CIHeads
        <4>2. job = "success" => jobs[run][req[1]] = "success"
          BY <1>4, <3>2, <4>1, GoodRun DEF Green
        <4> QED
          BY <1>4, <3>1, <4>1, <4>2 DEF Green, LinksHold
      <3>3. CASE run = sweep.head /\ job = Jobs[req[1]] /\ job # "none"
        <4>1. CASE sweep.found = << >>
          BY <1>3, <1>4, <3>1, <3>3, <4>1 DEF Jobs, Green, LinksHold, Known
        <4>2. CASE sweep.found # << >>
          BY <1>2, <1>4, <3>1, <3>3, <4>2 DEF Jobs, Green, LinksHold
        <4> QED
          BY <4>1, <4>2
      <3> QED
        BY <2>2, <3>1, <3>2, <3>3
    <2>3. CASE sweep' = [on EXCEPT !.pc = "rerun", !.at = req[1]]
      BY <1>1, <1>3, <2>3 DEF Asked, SweepType
    <2> QED
      BY <1>1, <2>1, <2>2, <2>3 DEF Asked, Verdict
  <1> QED
    BY <1>2, <1>5, <1>6, LookGreen DEF Green, LinksHold

\* Nothing runs and nothing is known at the start.
LEMMA InitGreen == ASSUME WatchdogInit PROVE Green
  <1>1. NoSweep.pc = "idle" /\ NoSweep.reqs = {} /\ Pending.run = 0 /\ ~Pending.green
    BY DEF NoSweep, Pending
  <1>2. /\ sweep = NoSweep
        /\ \A h \in CIHeads, k \in CIChecks :
              results[h][k] = Pending /\ jobs[h][k] = "none"
    BY DEF WatchdogInit
  <1>3. Typed /\ NoFalseGreen
    BY <1>1, <1>2, InitTyped DEF NoFalseGreen
  <1> QED
    BY <1>1, <1>2, <1>3 DEF Green, LinksHold, LinkKnown, Known, Passed

LEMMA NextGreen ==
  ASSUME Green, [WatchdogNext]_watchdogVars
  PROVE  Green'
  <1>0. /\ Typed' /\ Typed /\ sweep \in SweepType /\ NoSweep.pc = "idle"
        /\ NoSweep.reqs = {} /\ NoSweep.found = << >>
    BY NextTyped DEF Green, Typed, NoSweep
  <1>14. \A h \in CIHeads, k \in CIChecks :
           /\ jobs[h][k] = "success" => <<h, k>> \in passed
           /\ h > head => jobs[h][k] = "none"
    BY DEF Green, LinksHold, Known, Passed
  <1>1. CASE PushHead
    <2>1. /\ head' = head + 1 /\ UNCHANGED <<results, passed, ci, sweep>>
          /\ head + 1 \in CIHeads /\ head \in Runs
      BY <1>0, <1>1, PlanTypes DEF PushHead, Typed
    <2>2. \/ UNCHANGED jobs
          \/ jobs' = [jobs EXCEPT ![head + 1] = [k \in CIChecks |->
                        IF k \in ci.checks THEN "queued" ELSE "none"]]
      BY <1>1 DEF PushHead
    <2>3. \A h \in CIHeads, k \in CIChecks :
             \/ jobs'[h][k] = jobs[h][k]
             \/ h = head + 1 /\ jobs'[h][k] \in {"queued", "none"}
      <3>1. PICK row : row = [k \in CIChecks |-> IF k \in ci.checks THEN "queued" ELSE "none"]
        OBVIOUS
      <3>2. \A k \in CIChecks : row[k] \in {"queued", "none"}
        BY <3>1
      <3>3. jobs' = jobs \/ jobs' = [jobs EXCEPT ![head + 1] = row]
        BY <2>2, <3>1
      <3> QED
        BY <1>0, <3>2, <3>3 DEF Typed
    <2>4. \A k \in CIChecks : ~Known(head + 1, k)
      BY <2>1, WatchdogAssumption DEF Green, LinksHold, Runs
    <2>5. Grow
      BY <2>1, <2>3, <2>4 DEF Grow, Known
    <2>6. JobsHold
      BY ZenonT(60), <1>0, <1>14, <2>1, <2>3, LinkTypes DEF JobsHold
    <2>7. ResultsHold
      BY <2>1 DEF ResultsHold
    <2> QED
      BY <1>0, <2>1, <2>5, <2>6, <2>7, OutsideGreen
  <1>2. ASSUME NEW k \in CIChecks, HumanRerun(k) PROVE Green'
    <2>1. PICK lost \in BOOLEAN : RerunCheck(k, lost)
      BY <1>2 DEF HumanRerun
    <2>2. head # 0 /\ head \in CIHeads /\ UNCHANGED <<head, passed, ci, sweep>>
      BY <1>0, <1>2, PlanTypes DEF HumanRerun
    <2>3. /\ results'[head][k] = Pending
          /\ \A i \in CIHeads, j \in CIChecks :
                (i # head \/ j # k) => results'[i][j] = results[i][j]
          /\ \A i \in CIHeads, j \in CIChecks :
                \/ jobs'[i][j] = jobs[i][j]
                \/ i = head /\ jobs'[i][j] = "queued"
      BY <1>0, <2>1, <2>2, RerunEffect DEF RerunCheck
    <2>4. Grow /\ ResultsHold
      BY <2>2, <2>3 DEF Grow, ResultsHold, Known
    <2>5. JobsHold
      <3>1. ~(head > head)
        BY <1>0, LinkTypes
      <3>2. ASSUME NEW i \in CIHeads, NEW j \in CIChecks
            PROVE  /\ jobs'[i][j] = "success" => <<i, j>> \in passed'
                   /\ i > head' => jobs'[i][j] = "none"
        <4>1. CASE jobs'[i][j] = jobs[i][j]
          BY <1>14, <2>2, <4>1
        <4>2. CASE i = head /\ jobs'[i][j] = "queued"
          BY <2>2, <3>1, <4>2
        <4> QED
          BY <2>3, <4>1, <4>2
      <3> QED
        BY <3>2 DEF JobsHold
    <2> QED
      BY <1>0, <2>2, <2>4, <2>5, OutsideGreen
  <1>3. ASSUME NEW h \in CIHeads, NEW k \in CIChecks, JobEnds(h, k) PROVE Green'
    <2>1. PICK c \in Over :
             /\ jobs' = [jobs EXCEPT ![h][k] = c]
             /\ passed' = IF c = "success" THEN passed \cup {<<h, k>>} ELSE passed
      BY <1>3 DEF JobEnds
    <2>2. /\ c \in JobStates /\ c # "none" /\ jobs[h][k] = "queued"
          /\ UNCHANGED <<head, results, ci, sweep>>
      BY <1>3 DEF Over, JobStates, JobEnds
    <2>3. /\ jobs'[h][k] = c
          /\ \A i \in CIHeads, j \in CIChecks : (i # h \/ j # k) => jobs'[i][j] = jobs[i][j]
      BY <1>0, <2>1, <2>2, OneEntry DEF Typed
    <2>4. Grow /\ ResultsHold
      BY <2>1, <2>2, <2>3 DEF Grow, ResultsHold, Known
    <2>5. JobsHold
      <3>1. ~(h > head)
        BY <2>2 DEF Green, LinksHold, Known
      <3>2. c = "success" => <<h, k>> \in passed'
        BY <2>1
      <3>3. passed \subseteq passed'
        BY <2>1
      <3> QED
        BY ZenonT(60), <1>14, <2>2, <2>3, <3>1, <3>2, <3>3 DEF JobsHold
    <2> QED
      BY <1>0, <2>2, <2>4, <2>5, OutsideGreen
  <1>4. ASSUME NEW h \in CIHeads, NEW k \in CIChecks, RunnerReports(h, k) PROVE Green'
    <2>1. UNCHANGED <<head, jobs, passed, ci, sweep>>
      BY <1>4 DEF RunnerReports
    <2>2. Grow /\ JobsHold
      BY <2>1 DEF Grow, JobsHold, Green, LinksHold, Known, Passed
    <2>3. ResultsHold
      <3>1. CASE ReportRunning(h, k) /\ jobs[h][k] = "queued"
        <4>1. \A i \in CIHeads, j \in CIChecks :
               \/ results'[i][j] = results[i][j]
               \/ /\ i = head /\ j = k /\ results'[i][j].run = h
                  /\ ~results'[i][j].green
          BY <1>0, <3>1, RunningEffect
        <4> QED
          BY <3>1, <4>1 DEF ResultsHold, Known
      <3>2. CASE /\ ReportDone(h, k, jobs[h][k] = "success") /\ UNCHANGED forgets
                 /\ jobs[h][k] \in Over
        <4>1. PICK green \in BOOLEAN : green = (jobs[h][k] = "success")
          OBVIOUS
        <4>2. \A i \in CIHeads, j \in CIChecks :
               \/ results'[i][j] = results[i][j]
               \/ /\ i = head /\ j = k /\ results'[i][j].run = h
                  /\ results'[i][j].green = green
          <5>1. ReportDone(h, k, green) /\ UNCHANGED forgets
            BY <3>2, <4>1 DEF ReportDone
          <5> QED
            BY <1>0, <5>1, DoneEffect
        <4>3. Known(h, k) /\ (green => Passed(h, k))
          BY <3>2, <4>1 DEF Over, Known, Green, LinksHold
        <4> QED
          BY <4>2, <4>3 DEF ResultsHold
      <3>3. CASE UNCHANGED results
        BY <3>3 DEF ResultsHold
      <3> QED
        BY <1>4, <3>1, <3>2, <3>3 DEF RunnerReports
    <2> QED
      BY <1>0, <2>1, <2>2, <2>3, OutsideGreen
  <1>5. CASE AskGitHub \/ AskFails
    BY <1>0, <1>5, AskGreen
  <1>6. CASE ListOpenChanges
    <2>1. sweep' = [NoSweep EXCEPT !.pc = "requirements", !.head = head] /\ UNCHANGED ciVars
      BY <1>6 DEF ListOpenChanges
    <2>2. sweep'.pc = "requirements" /\ sweep'.reqs = {} /\ sweep'.found = << >>
      BY <2>1 DEF NoSweep
    <2> QED
      BY <1>0, <2>1, <2>2, LookGreen
  <1>7. CASE MergeRequirements
    <2>1. PICK todo : todo = {k \in ci.checks : results[head][k].status = "pending"}
      OBVIOUS
    <2>2. PICK reqs : reqs = {<<k, results[head][k].run>> : k \in todo}
      OBVIOUS
    <2>3. /\ sweep' = [sweep EXCEPT !.pc = "check", !.reqs = reqs,
                          !.known = {sweep.head} \X todo,
                          !.saved = ({sweep.head} \X todo) \cap rescued]
          /\ UNCHANGED ciVars /\ sweep.pc = "requirements"
      BY <1>7, <2>1, <2>2 DEF MergeRequirements
    <2>4. /\ sweep'.pc = "check" /\ sweep'.reqs = reqs /\ sweep'.found = sweep.found
          /\ sweep'.head = sweep.head
      BY <1>0, <2>3 DEF SweepType
    <2>5. head \in CIHeads /\ todo \subseteq ci.checks /\ ci.checks \subseteq CIChecks
      BY <1>0, <2>1, <2>3, PlanTypes, WatchdogAssumption DEF Typed, CIHeads, Runs
    <2>6. \A req \in reqs : req[1] \in ci.checks /\ (req[2] # 0 => Known(req[2], req[1]))
      <3>1. \A k \in todo : /\ k \in ci.checks
                            /\ results[head][k].run # 0 => Known(results[head][k].run, k)
        BY <2>5 DEF Green, LinksHold, LinkKnown
      <3>2. ASSUME NEW req \in reqs
            PROVE  req[1] \in ci.checks /\ (req[2] # 0 => Known(req[2], req[1]))
        <4>1. PICK k \in todo : req = <<k, results[head][k].run>>
          BY <2>2
        <4>2. req[1] = k /\ req[2] = results[head][k].run
          BY <4>1
        <4>3. k \in ci.checks /\ (results[head][k].run # 0 => Known(results[head][k].run, k))
          BY Zenon, <3>1, <4>1
        <4> QED
          BY <4>2, <4>3 DEF Known
      <3> QED
        BY <3>2
    <2> QED
      BY <1>0, <2>3, <2>4, <2>6, LookGreen DEF Green, LinksHold
  <1>8. CASE RequirementsFail
    <2>1. /\ sweep' = [sweep EXCEPT !.pc = "check"] /\ sweep.pc = "requirements"
          /\ UNCHANGED ciVars
      BY <1>8 DEF RequirementsFail
    <2>2. /\ sweep'.pc = "check" /\ sweep'.reqs = sweep.reqs /\ sweep'.found = sweep.found
          /\ sweep'.head = sweep.head
      BY <1>0, <2>1 DEF SweepType
    <2> QED
      BY <1>0, <2>1, <2>2, LookGreen DEF Green, LinksHold
  <1>9. CASE EndSweep \/ WatchdogRestart
    <2>1. sweep' = NoSweep /\ UNCHANGED ciVars
      BY <1>9 DEF EndSweep, WatchdogRestart
    <2> QED
      BY <1>0, <2>1, LookGreen
  <1>10. CASE DaemonFails
    <2>1. sweep' = Onward /\ UNCHANGED ciVars /\ sweep.pc # "idle"
      BY <1>10 DEF DaemonFails
    <2> QED
      BY <1>0, <2>1, OnwardTypes, LookGreen DEF Green, LinksHold
  <1>11. CASE ReportCheck
    <2>1. /\ sweep.at \in CIChecks /\ sweep.run \in CIHeads /\ sweep.pc = "report"
          /\ sweep' = Onward /\ UNCHANGED <<head, jobs, passed, ci>>
      BY <1>0, <1>11 DEF ReportCheck, Typed
    <2>2. \A i \in CIHeads, j \in CIChecks :
             \/ results'[i][j] = results[i][j]
             \/ /\ i = head /\ j = sweep.at /\ results'[i][j].run = sweep.run
                /\ results'[i][j].green => sweep.job = "success"
      <3>1. CASE sweep.job = "queued"
        <4>1. ReportRunning(sweep.run, sweep.at)
          BY <1>11, <3>1 DEF ReportCheck
        <4>2. \A i \in CIHeads, j \in CIChecks :
             \/ results'[i][j] = results[i][j]
             \/ /\ i = head /\ j = sweep.at /\ results'[i][j].run = sweep.run
                /\ ~results'[i][j].green
          BY <1>0, <2>1, <4>1, RunningEffect
        <4> QED
          BY <4>2
      <3>2. CASE sweep.job # "queued"
        <4>1. PICK green \in BOOLEAN : green = MapConclusion(sweep.job)
          BY DEF MapConclusion
        <4>2. ReportDone(sweep.run, sweep.at, green) /\ UNCHANGED forgets
          BY <1>11, <3>2, <4>1 DEF ReportCheck
        <4>3. \A i \in CIHeads, j \in CIChecks :
             \/ results'[i][j] = results[i][j]
             \/ /\ i = head /\ j = sweep.at /\ results'[i][j].run = sweep.run
                /\ results'[i][j].green = green
          BY <1>0, <2>1, <4>2, DoneEffect
        <4> QED
          BY <4>1, <4>3 DEF MapConclusion
      <3> QED
        BY <3>1, <3>2
    <2>3. ResultsHold
      BY <2>1, <2>2 DEF ResultsHold, Green, LinksHold
    <2>4. Grow /\ JobsHold
      BY <2>1 DEF Grow, JobsHold, Green, LinksHold, Known, Passed
    <2>5. NoFalseGreen' /\ \A h \in CIHeads, k \in CIChecks : LinkKnown(h, k)'
      BY <1>0, <2>3, <2>4, GreenResults
    <2> QED
      BY <1>0, <2>1, <2>4, <2>5, OnwardTypes, HeardStays
      DEF Green, LinksHold, JobsHold, Known, Passed
  <1>12. CASE RescueRerun \/ RescueUnheard
    <2>1. /\ sweep.at \in CIChecks /\ sweep.head \in CIHeads /\ head # 0 /\ head \in CIHeads
          /\ sweep.pc = "rerun"
      <3>1. sweep.pc = "rerun" /\ sweep.at \in CIChecks
            /\ sweep.head \in CIHeads /\ sweep.head <= head
        BY <1>0, <1>12 DEF RescueRerun, RescueUnheard, Typed
      <3>2. head # 0
        BY <1>0, <3>1, WatchdogAssumption DEF CIHeads, Typed, Runs
      <3> QED
        BY <1>0, <3>1, <3>2, PlanTypes
    <2>2. PICK lost \in BOOLEAN : RerunCheck(sweep.at, lost)
      BY <1>12 DEF RescueRerun, RescueUnheard
    <2>3. /\ results'[head][sweep.at] = Pending
          /\ \A i \in CIHeads, j \in CIChecks :
                (i # head \/ j # sweep.at) => results'[i][j] = results[i][j]
          /\ \A i \in CIHeads, j \in CIChecks :
                \/ jobs'[i][j] = jobs[i][j]
                \/ i = head /\ jobs'[i][j] = "queued"
      BY <1>0, <2>1, <2>2, RerunEffect DEF RerunCheck
    <2>4. /\ \/ sweep' = [Onward EXCEPT !.saved = Onward.saved \cup {<<sweep.head, sweep.at>>}]
             \/ sweep' = Onward
          /\ UNCHANGED <<head, passed, ci>>
      BY <1>12 DEF RescueRerun, RescueUnheard
    <2>5. /\ sweep'.pc = "check" /\ sweep'.reqs = sweep.reqs /\ sweep'.found = sweep.found
          /\ sweep'.head = sweep.head
      BY <1>0, <2>4, OnwardTypes DEF SweepType
    <2>6. Grow /\ ResultsHold
      BY <2>1, <2>3, <2>4 DEF Grow, ResultsHold, Known
    <2>7. JobsHold
      <3>1. ~(head > head)
        BY <1>0, LinkTypes
      <3>2. ASSUME NEW i \in CIHeads, NEW j \in CIChecks
            PROVE  /\ jobs'[i][j] = "success" => <<i, j>> \in passed'
                   /\ i > head' => jobs'[i][j] = "none"
        <4>1. CASE jobs'[i][j] = jobs[i][j]
          BY <1>14, <2>4, <4>1
        <4>2. CASE i = head /\ jobs'[i][j] = "queued"
          BY <2>4, <3>1, <4>2
        <4> QED
          BY <2>3, <4>1, <4>2
      <3> QED
        BY <3>2 DEF JobsHold
    <2>8. NoFalseGreen' /\ \A h \in CIHeads, k \in CIChecks : LinkKnown(h, k)'
      BY <1>0, <2>6, <2>7, GreenResults
    <2> QED
      BY <1>0, <2>1, <2>4, <2>5, <2>6, <2>7, <2>8, HeardStays
      DEF Green, LinksHold, JobsHold, Known, Passed
  <1>13. CASE UNCHANGED watchdogVars
    BY <1>0, <1>13 DEF watchdogVars, Green, LinksHold, LinkKnown, NoFalseGreen, Known, Passed
  <1> QED
    BY <1>1, <1>2, <1>3, <1>4, <1>5, <1>6, <1>7, <1>8, <1>9, <1>10, <1>11, <1>12, <1>13
    DEF WatchdogNext, SweepStep

----------------------------------------------------------------------------
(* The books: a check whose rescue is spent is not rescued again.          *)

\* More rescues than there were causes for: one.
Spent(h, k) == rescues[h][k] > forgets[h][k]
Done(h, k) == results[h][k].status = "done"
Key(k) == <<sweep.head, k>>

InBooks(key) == key \in DOMAIN firstSeen

\* The checks the sweep still has to do with are known to it, and a check about to
\* be rescued was seen before and had no rescue.
BooksOpen ==
    /\ sweep.pc \in {"idle", "requirements"} => sweep.reqs = {}
    /\ \A req \in sweep.reqs : req[1] \in ci.checks /\ Key(req[1]) \in sweep.known
    /\ sweep.pc \in {"report", "rerun"} => sweep.at \in ci.checks /\ Key(sweep.at) \in sweep.known
    /\ sweep.pc = "rerun" => InBooks(Key(sweep.at)) /\ Key(sweep.at) \notin sweep.saved

\* Only required checks of heads that were swept have rescues, and the sweep never
\* goes back.
OnlySwept ==
    \A h \in CIHeads, k \in CIChecks : rescues[h][k] > 0 =>
       k \in ci.checks /\ h <= head /\ (sweep.pc # "idle" => h <= sweep.head)

\* A spent check is remembered, or will not be asked about again: the Change has
\* moved on, or the check is done and the books do not know it.
Remembered(h, k) ==
    /\ sweep.pc = "idle" =>
          \/ <<h, k>> \in rescued \/ h < head
          \/ ~InBooks(<<h, k>>) /\ Done(h, k)
    /\ sweep.pc = "requirements" /\ h = sweep.head =>
          \/ <<h, k>> \in rescued
          \/ ~InBooks(<<h, k>>) /\ (h < head \/ Done(h, k))
    /\ sweep.pc \in {"check", "report", "rerun"} /\ h = sweep.head =>
          \/ <<h, k>> \in sweep.saved
          \/ <<h, k>> \notin sweep.known /\ (h < head \/ Done(h, k))
          \/ ~InBooks(<<h, k>>) /\ h < head

BooksKept ==
    \A h \in CIHeads, k \in CIChecks : Spent(h, k) => Remembered(h, k)

Kept == Typed /\ BooksOpen /\ OnlySwept /\ RescuesAccounted /\ BooksKept

LEMMA InitKept == ASSUME WatchdogInit PROVE Kept
  <1>1. Typed
    BY InitTyped
  <1>2. NoSweep.pc = "idle" /\ NoSweep.reqs = {}
    BY DEF NoSweep
  <1>3. \A h \in CIHeads, k \in CIChecks : rescues[h][k] = 0 /\ forgets[h][k] = 0
    BY DEF WatchdogInit
  <1>4. BooksOpen /\ sweep = NoSweep
    BY <1>2 DEF WatchdogInit, BooksOpen
  <1> QED
    BY <1>1, <1>3, <1>4 DEF Kept, OnlySwept, RescuesAccounted, BooksKept, Spent

\* A step that neither rescues nor turns a page keeps the books, if a check that is
\* sent back to pending is counted as forgotten.
LEMMA CalmKept ==
  ASSUME Kept, Typed', BooksOpen', UNCHANGED <<ci, firstSeen, rescued, rescues>>,
         head' >= head, sweep'.head = sweep.head, sweep'.known = sweep.known,
         sweep'.saved = sweep.saved,
         sweep'.pc = "idle" <=> sweep.pc = "idle",
         sweep'.pc = "requirements" <=> sweep.pc = "requirements",
         \A h \in CIHeads, k \in CIChecks :
            /\ forgets'[h][k] >= forgets[h][k]
            /\ (Done(h, k) => Done(h, k)') \/ forgets'[h][k] > forgets[h][k]
  PROVE  Kept'
  <1>0. /\ \A h \in CIHeads, k \in CIChecks :
              /\ rescues[h][k] \in Nat /\ forgets[h][k] \in Nat /\ forgets'[h][k] \in Nat
        /\ head \in Nat /\ head' \in Nat /\ CIHeads \subseteq Nat
    <2>1. head \in Nat /\ head' \in Nat /\ CIHeads \subseteq Nat
      BY WatchdogAssumption DEF Kept, Typed, Runs, CIHeads
    <2>2. \A h \in CIHeads, k \in CIChecks : rescues[h][k] \in Nat /\ forgets[h][k] \in Nat
      BY DEF Kept, Typed
    <2>3. forgets' \in [CIHeads' -> [CIChecks -> Nat]] /\ CIHeads' = CIHeads
      BY DEF Typed, CIHeads
    <2> QED
      BY <2>1, <2>2, <2>3
  <1>1. RescuesAccounted'
    <2>1. SUFFICES ASSUME NEW h \in CIHeads', NEW k \in CIChecks
                   PROVE  rescues'[h][k] <= 1 + forgets'[h][k]
      BY DEF RescuesAccounted
    <2>2. h \in CIHeads /\ rescues'[h][k] = rescues[h][k]
      BY DEF CIHeads
    <2>3. rescues[h][k] <= 1 + forgets[h][k]
      BY <2>2 DEF Kept, RescuesAccounted
    <2> QED
      BY <1>0, <2>2, <2>3, SMTT(30)
  <1>2. OnlySwept'
    BY <1>0 DEF Kept, OnlySwept
  <1>3. ASSUME NEW h \in CIHeads, NEW k \in CIChecks, Spent(h, k)'
        PROVE  Remembered(h, k)'
    <2>1. Spent(h, k) /\ (Done(h, k) => Done(h, k)')
      BY <1>0, <1>3 DEF Spent, Kept, RescuesAccounted
    <2>2. Remembered(h, k)
      BY <2>1 DEF Kept, BooksKept
    <2>3. h < head => h < head'
      BY <1>0
    <2>4. sweep.pc \in {"check", "report", "rerun"} <=> sweep'.pc \in {"check", "report", "rerun"}
      BY DEF Kept, Typed, SweepType
    <2> QED
      BY <2>1, <2>2, <2>3, <2>4 DEF Remembered, InBooks
  <1> QED
    BY <1>1, <1>2, <1>3 DEF Kept, BooksKept

LEMMA OutsideKept ==
  ASSUME Kept, Typed', UNCHANGED <<sweep, ci, firstSeen, rescued, rescues>>, head' >= head,
         \A h \in CIHeads, k \in CIChecks :
            /\ forgets'[h][k] >= forgets[h][k]
            /\ (Done(h, k) => Done(h, k)') \/ forgets'[h][k] > forgets[h][k]
  PROVE  Kept'
  <1>1. BooksOpen'
    BY DEF Kept, BooksOpen, Key, InBooks
  <1> QED
    BY <1>1, CalmKept

LEMMA AskKept ==
  ASSUME Kept, Typed', AskGitHub \/ AskFails
  PROVE  Kept'
  <1>1. PICK req, found, on : Asked(req, found, on)
    BY AskCases DEF Kept
  <1>2. sweep.pc = "check" /\ UNCHANGED <<ciVars, bookVars>> /\ sweep \in SweepType
    BY DEF AskGitHub, AskFails, Kept, Typed
  <1>3. /\ on \in SweepType /\ on.pc = "check" /\ on.head = sweep.head
        /\ on.reqs \subseteq sweep.reqs /\ on.known = sweep.known /\ on.saved = sweep.saved
    BY <1>1, <1>2 DEF Asked, SweepType
  <1>4. req[1] \in ci.checks /\ Key(req[1]) \in sweep.known
    BY <1>1 DEF Asked, Kept, BooksOpen
  <1>5. /\ sweep'.head = sweep.head /\ sweep'.reqs \subseteq sweep.reqs
        /\ sweep'.known = sweep.known /\ sweep'.saved = sweep.saved
        /\ sweep'.pc \in {"check", "report", "rerun"}
        /\ sweep'.pc # "check" => sweep'.at = req[1]
        /\ sweep'.pc = "rerun" => MayRescue(<<sweep.head, req[1]>>)
    <2>1. CASE sweep' = on
      BY <1>3, <2>1
    <2>2. ASSUME NEW run, NEW job,
                 sweep' = [on EXCEPT !.pc = "report", !.at = req[1], !.run = run,
                                     !.job = job]
          PROVE  /\ sweep'.head = sweep.head /\ sweep'.reqs \subseteq sweep.reqs
                 /\ sweep'.known = sweep.known /\ sweep'.saved = sweep.saved
                 /\ sweep'.pc = "report" /\ sweep'.at = req[1]
      BY <1>3, <2>2 DEF SweepType
    <2>3. CASE MayRescue(<<sweep.head, req[1]>>) /\ sweep' = [on EXCEPT !.pc = "rerun", !.at = req[1]]
      BY <1>3, <2>3 DEF SweepType
    <2>4. Verdict(req, on)
      BY <1>1 DEF Asked
    <2>5. CASE \E run \in CIHeads, job \in JobStates :
                  sweep' = [on EXCEPT !.pc = "report", !.at = req[1], !.run = run, !.job = job]
      <3>1. PICK run, job :
                  sweep' = [on EXCEPT !.pc = "report", !.at = req[1], !.run = run, !.job = job]
        BY <2>5
      <3> QED
        BY <2>2, <3>1
    <2> QED
      BY <2>1, <2>3, <2>4, <2>5 DEF Verdict
  <1>6. sweep'.pc = "rerun" => InBooks(Key(req[1])) /\ Key(req[1]) \notin sweep.saved
    BY <1>5 DEF MayRescue, PastGrace, InBooks, Key
  <1>7. BooksOpen'
    BY <1>2, <1>4, <1>5, <1>6 DEF Kept, BooksOpen, Key, InBooks, ciVars, bookVars
  <1>8. \A h \in CIHeads, k \in CIChecks : forgets'[h][k] >= forgets[h][k]
    BY <1>2 DEF bookVars, Kept, Typed
  <1>9. head' >= head
    BY <1>2, WatchdogAssumption DEF ciVars, Kept, Typed, Runs
  <1> QED
    BY <1>2, <1>5, <1>7, <1>8, <1>9, CalmKept DEF ciVars, bookVars, Done

\* The rescue: no cause was left over, so the check had none yet.
LEMMA RescueKept ==
  ASSUME Kept, Typed', RescueRerun
  PROVE  Kept'
  <1>0. /\ \A h \in CIHeads, k \in CIChecks :
              /\ rescues[h][k] \in Nat /\ forgets[h][k] \in Nat
        /\ head \in Nat /\ CIHeads \subseteq Nat
    BY SMTT(60), WatchdogAssumption DEF Kept, Typed, Runs, CIHeads
  <1>1. /\ sweep.pc = "rerun" /\ sweep.at \in CIChecks /\ sweep.head \in CIHeads
        /\ sweep.head <= head /\ sweep \in SweepType
    BY DEF RescueRerun, Kept, Typed
  <1>2. head # 0 /\ head \in CIHeads
    <2>1. head # 0
      BY <1>1, WatchdogAssumption DEF CIHeads, Kept, Typed, Runs
    <2> QED
      BY <2>1, PlanTypes DEF Kept
  <1>3. PICK lost \in BOOLEAN : RerunCheck(sweep.at, lost)
    BY DEF RescueRerun
  <1>4. \A i \in CIHeads, j \in CIChecks :
           (i # head \/ j # sweep.at) => results'[i][j] = results[i][j]
    BY <1>1, <1>2, <1>3, RerunEffect DEF Kept
  <1>5. /\ sweep' = [Onward EXCEPT !.saved = Onward.saved \cup {<<sweep.head, sweep.at>>}]
        /\ rescues' = [rescues EXCEPT ![sweep.head][sweep.at] =
                          rescues[sweep.head][sweep.at] + 1]
        /\ UNCHANGED <<head, ci, firstSeen, rescued, forgets>>
    BY DEF RescueRerun
  <1>6. /\ sweep'.pc = "check" /\ sweep'.head = sweep.head /\ sweep'.reqs = sweep.reqs
        /\ sweep'.known = sweep.known /\ sweep'.saved = sweep.saved \cup {Key(sweep.at)}
    BY <1>1, <1>5, OnwardTypes DEF SweepType, Key
  <1>7. /\ rescues'[sweep.head][sweep.at] = rescues[sweep.head][sweep.at] + 1
        /\ \A h \in CIHeads, k \in CIChecks :
              (h # sweep.head \/ k # sweep.at) => rescues'[h][k] = rescues[h][k]
    BY <1>0, <1>1, <1>5, OneEntry DEF Kept, Typed
  <1>8. /\ sweep.at \in ci.checks /\ Key(sweep.at) \in sweep.known /\ InBooks(Key(sweep.at))
        /\ Key(sweep.at) \notin sweep.saved
    BY <1>1 DEF Kept, BooksOpen
  <1>9. ~Spent(sweep.head, sweep.at)
    BY <1>1, <1>8 DEF Kept, BooksKept, Remembered, Key
  <1>10. RescuesAccounted'
    BY <1>0, <1>1, <1>5, <1>7, <1>9 DEF Kept, RescuesAccounted, Spent
  <1>11. OnlySwept'
    BY <1>0, <1>1, <1>5, <1>6, <1>7, <1>8 DEF Kept, OnlySwept
  <1>12. BooksOpen'
    BY <1>5, <1>6 DEF Kept, BooksOpen, Key
  <1>13. ASSUME NEW h \in CIHeads, NEW k \in CIChecks, Spent(h, k)'
         PROVE  Remembered(h, k)'
    <2>1. CASE h # sweep.head
      BY <1>6, <2>1 DEF Remembered
    <2>2. CASE h = sweep.head /\ k = sweep.at
      BY <1>6, <2>2 DEF Remembered, Key
    <2>3. CASE h = sweep.head /\ k # sweep.at
      <3>1. Spent(h, k)
        BY <1>5, <1>7, <1>13, <2>3 DEF Spent
      <3>2. Remembered(h, k) /\ (Done(h, k) => Done(h, k)')
        BY <1>4, <2>3, <3>1 DEF Kept, BooksKept, Done
      <3> QED
        BY <1>1, <1>5, <1>6, <2>3, <3>2 DEF Remembered, InBooks
    <2> QED
      BY <2>1, <2>2, <2>3
  <1> QED
    BY <1>10, <1>11, <1>12, <1>13 DEF Kept, BooksKept

\* The rescue nobody heard of: it is counted as a rescue and as forgotten.
LEMMA UnheardKept ==
  ASSUME Kept, Typed', RescueUnheard
  PROVE  Kept'
  <1>0. /\ \A h \in CIHeads, k \in CIChecks :
              /\ rescues[h][k] \in Nat /\ forgets[h][k] \in Nat
        /\ head \in Nat /\ CIHeads \subseteq Nat
    BY SMTT(60), WatchdogAssumption DEF Kept, Typed, Runs, CIHeads
  <1>1. /\ sweep.pc = "rerun" /\ sweep.at \in CIChecks /\ sweep.head \in CIHeads
        /\ sweep.head <= head /\ sweep \in SweepType
    BY DEF RescueUnheard, Kept, Typed
  <1>2. head # 0 /\ head \in CIHeads
    <2>1. head # 0
      BY <1>1, WatchdogAssumption DEF CIHeads, Kept, Typed, Runs
    <2> QED
      BY <2>1, PlanTypes DEF Kept
  <1>3. PICK lost \in BOOLEAN : RerunCheck(sweep.at, lost)
    BY DEF RescueUnheard
  <1>4. \A i \in CIHeads, j \in CIChecks :
           (i # head \/ j # sweep.at) => results'[i][j] = results[i][j]
    BY <1>1, <1>2, <1>3, RerunEffect DEF Kept
  <1>5. /\ sweep' = Onward
        /\ rescues' = [rescues EXCEPT ![sweep.head][sweep.at] =
                          rescues[sweep.head][sweep.at] + 1]
        /\ forgets' = [forgets EXCEPT ![sweep.head][sweep.at] =
                          forgets[sweep.head][sweep.at] + 1]
        /\ UNCHANGED <<head, ci, firstSeen, rescued>>
    BY DEF RescueUnheard
  <1>6. /\ sweep'.pc = "check" /\ sweep'.head = sweep.head /\ sweep'.reqs = sweep.reqs
        /\ sweep'.known = sweep.known /\ sweep'.saved = sweep.saved
    BY <1>1, <1>5, OnwardTypes DEF SweepType
  <1>7. /\ rescues'[sweep.head][sweep.at] = rescues[sweep.head][sweep.at] + 1
        /\ forgets'[sweep.head][sweep.at] = forgets[sweep.head][sweep.at] + 1
        /\ \A h \in CIHeads, k \in CIChecks :
              (h # sweep.head \/ k # sweep.at) =>
                 rescues'[h][k] = rescues[h][k] /\ forgets'[h][k] = forgets[h][k]
    BY <1>0, <1>1, <1>5, OneEntry DEF Kept, Typed
  <1>8. /\ sweep.at \in ci.checks /\ Key(sweep.at) \notin sweep.saved
    BY <1>1 DEF Kept, BooksOpen
  <1>9. ~Spent(sweep.head, sweep.at)
    <2>1. Key(sweep.at) \in sweep.known /\ InBooks(Key(sweep.at))
      BY <1>1 DEF Kept, BooksOpen
    <2> QED
      BY <1>1, <1>8, <2>1 DEF Kept, BooksKept, Remembered, Key
  <1>10. RescuesAccounted'
    BY <1>0, <1>1, <1>7 DEF Kept, RescuesAccounted
  <1>11. OnlySwept'
    BY <1>0, <1>1, <1>5, <1>6, <1>7, <1>8 DEF Kept, OnlySwept
  <1>12. BooksOpen'
    BY <1>1, <1>5, <1>6 DEF Kept, BooksOpen, Key
  <1>13. ASSUME NEW h \in CIHeads, NEW k \in CIChecks, Spent(h, k)'
         PROVE  Remembered(h, k)'
    <2>1. CASE h # sweep.head
      BY <1>6, <2>1 DEF Remembered
    <2>2. ~(h = sweep.head /\ k = sweep.at)
      BY <1>0, <1>1, <1>7, <1>9, <1>13 DEF Spent
    <2>3. CASE h = sweep.head /\ k # sweep.at
      <3>1. Spent(h, k)
        BY <1>7, <1>13, <2>3 DEF Spent
      <3>2. Remembered(h, k) /\ (Done(h, k) => Done(h, k)')
        BY <1>4, <2>3, <3>1 DEF Kept, BooksKept, Done
      <3> QED
        BY <1>1, <1>5, <1>6, <2>3, <3>2 DEF Remembered, InBooks
    <2> QED
      BY <2>1, <2>2, <2>3
  <1> QED
    BY <1>10, <1>11, <1>12, <1>13 DEF Kept, BooksKept

\* The pages of a sweep turn: it begins, reads the requirements, ends.
LEMMA PagesKept ==
  ASSUME Kept, Typed', ListOpenChanges \/ MergeRequirements \/ EndSweep
  PROVE  Kept'
  <1>0. /\ \A h \in CIHeads, k \in CIChecks :
              /\ rescues[h][k] \in Nat /\ forgets[h][k] \in Nat
        /\ head \in Nat /\ CIHeads \subseteq Nat /\ sweep \in SweepType
    BY SMTT(60), WatchdogAssumption DEF Kept, Typed, Runs, CIHeads
  <1>1. UNCHANGED <<head, ci, results, rescues, forgets>>
    BY DEF ListOpenChanges, MergeRequirements, EndSweep, ciVars, bookVars
  <1>2. RescuesAccounted'
    BY <1>1 DEF Kept, RescuesAccounted
  <1>3. \A h \in CIHeads, k \in CIChecks :
           /\ Spent(h, k)' => Spent(h, k) /\ rescues[h][k] > 0
           /\ Done(h, k) => Done(h, k)'
    <2>1. \A h \in CIHeads, k \in CIChecks :
             Spent(h, k)' => Spent(h, k) /\ rescues[h][k] > 0
      BY <1>0, <1>1 DEF Spent
    <2>2. \A h \in CIHeads, k \in CIChecks : Done(h, k) => Done(h, k)'
      BY <1>1 DEF Done
    <2> QED
      BY <2>1, <2>2
  <1>4. \A h \in CIHeads, k \in CIChecks : Spent(h, k)' =>
           /\ Remembered(h, k) /\ k \in ci.checks /\ h <= head
           /\ sweep.pc # "idle" => h <= sweep.head
    BY <1>3 DEF Kept, BooksKept, OnlySwept
  <1>5. CASE ListOpenChanges
    <2>1. /\ sweep' = [NoSweep EXCEPT !.pc = "requirements", !.head = head]
          /\ sweep.pc = "idle" /\ UNCHANGED <<firstSeen, rescued>>
      BY <1>5 DEF ListOpenChanges, bookVars
    <2>2. sweep'.pc = "requirements" /\ sweep'.head = head /\ sweep'.reqs = {}
      BY <2>1 DEF NoSweep
    <2>3. OnlySwept' /\ BooksOpen'
      BY <1>1, <2>2 DEF Kept, OnlySwept, BooksOpen
    <2>4. ASSUME NEW h \in CIHeads, NEW k \in CIChecks, Spent(h, k)'
          PROVE  Remembered(h, k)'
      <3>1. /\ \/ <<h, k>> \in rescued \/ h < head
               \/ ~InBooks(<<h, k>>) /\ Done(h, k)
            /\ h <= head /\ (Done(h, k) => Done(h, k)')
        BY <1>3, <1>4, <2>1, <2>4 DEF Remembered
      <3>2. h = head => ~(h < head)
        BY <1>0
      <3> QED
        BY <1>1, <2>1, <2>2, <3>1, <3>2 DEF Remembered, InBooks
    <2> QED
      BY <1>2, <2>3, <2>4 DEF Kept, BooksKept
  <1>6. CASE MergeRequirements
    <2>1. PICK todo : todo = {k \in ci.checks : results[head][k].status = "pending"}
      OBVIOUS
    <2>2. PICK reqs : reqs = {<<k, results[head][k].run>> : k \in todo}
      OBVIOUS
    <2>3. /\ sweep' = [sweep EXCEPT !.pc = "check", !.reqs = reqs,
                          !.known = {sweep.head} \X todo,
                          !.saved = ({sweep.head} \X todo) \cap rescued]
          /\ UNCHANGED <<firstSeen, rescued>> /\ sweep.pc = "requirements"
      BY <1>6, <2>1, <2>2 DEF MergeRequirements, bookVars
    <2>4. /\ sweep'.pc = "check" /\ sweep'.reqs = reqs /\ sweep'.head = sweep.head
          /\ sweep'.known = {sweep.head} \X todo
          /\ sweep'.saved = ({sweep.head} \X todo) \cap rescued
      BY <1>0, <2>3 DEF SweepType
    <2>5. \A req \in reqs : req[1] \in ci.checks /\ <<sweep.head, req[1]>> \in {sweep.head} \X todo
      BY <2>1, <2>2
    <2>6. OnlySwept'
      BY <1>1, <2>3, <2>4 DEF Kept, OnlySwept
    <2>7. BooksOpen'
      BY <1>1, <2>4, <2>5 DEF BooksOpen, Key
    <2>8. ASSUME NEW h \in CIHeads, NEW k \in CIChecks, Spent(h, k)'
          PROVE  Remembered(h, k)'
      <3>1. CASE h # sweep.head
        BY <2>4, <3>1 DEF Remembered
      <3>2. CASE h = sweep.head
        <4>1. /\ \/ <<h, k>> \in rescued
                 \/ ~InBooks(<<h, k>>) /\ (h < head \/ Done(h, k))
              /\ h <= head /\ k \in ci.checks
          BY <1>4, <2>3, <2>8, <3>2 DEF Remembered
        <4>2. k \notin todo => h < head \/ Done(h, k)
          <5>1. CASE h = head
            <6>1. results[h][k] \in Result
              BY DEF Kept, Typed
            <6> QED
              BY <2>1, <4>1, <5>1, <6>1 DEF Done, Result
          <5>2. CASE h # head
            BY <1>0, <4>1, <5>2
          <5> QED
            BY <5>1, <5>2
        <4>3. k \in todo => h < head \/ ~Done(h, k)
          BY <1>0, <2>1, <4>1 DEF Done
        <4> QED
          BY <1>1, <1>3, <2>3, <2>4, <2>8, <3>2, <4>1, <4>2, <4>3
          DEF Remembered, InBooks
      <3> QED
        BY <3>1, <3>2
    <2> QED
      BY <1>2, <2>6, <2>7, <2>8 DEF Kept, BooksKept
  <1>7. CASE EndSweep
    <2>1. /\ sweep' = NoSweep /\ sweep.pc = "check" /\ rescued' = sweep.saved
          /\ DOMAIN firstSeen' = sweep.known
      BY <1>7 DEF EndSweep
    <2>2. sweep'.pc = "idle" /\ sweep'.reqs = {}
      BY <2>1 DEF NoSweep
    <2>3. OnlySwept' /\ BooksOpen'
      BY <1>1, <2>2 DEF Kept, OnlySwept, BooksOpen
    <2>4. sweep.head \in CIHeads /\ sweep.head <= head
      BY <2>1 DEF Kept, Typed
    <2>5. ASSUME NEW h \in CIHeads, NEW k \in CIChecks, Spent(h, k)'
          PROVE  Remembered(h, k)'
      <3>0. h \in Nat /\ sweep.head \in Nat /\ head \in Nat
        BY <1>0, <2>4
      <3>1. h < sweep.head => h < head
        BY <2>4, <3>0
      <3>2. h <= sweep.head
        BY <1>4, <2>1, <2>5
      <3>3. CASE h < sweep.head
        BY <1>1, <2>2, <3>1, <3>3 DEF Remembered
      <3>4. CASE h = sweep.head
        <4>1. \/ <<h, k>> \in sweep.saved
              \/ <<h, k>> \notin sweep.known /\ (h < head \/ Done(h, k))
              \/ h < head
          BY <1>4, <2>1, <2>5, <3>4 DEF Remembered
        <4> QED
          BY <1>1, <1>3, <2>1, <2>2, <4>1 DEF Remembered, InBooks
      <3> QED
        BY <3>0, <3>2, <3>3, <3>4
    <2> QED
      BY <1>2, <2>3, <2>5 DEF Kept, BooksKept
  <1> QED
    BY <1>5, <1>6, <1>7

\* The watchdog loses its books, and every check counts it.
LEMMA ForgetKept ==
  ASSUME Kept, Typed', RequirementsFail \/ WatchdogRestart
  PROVE  Kept'
  <1>0. /\ \A h \in CIHeads, k \in CIChecks :
              /\ rescues[h][k] \in Nat /\ forgets[h][k] \in Nat
        /\ sweep \in SweepType
    BY DEF Kept, Typed
  <1>1. /\ \A h \in CIHeads, k \in CIChecks : forgets'[h][k] = forgets[h][k] + 1
        /\ UNCHANGED <<head, ci, rescues>>
    BY DEF RequirementsFail, WatchdogRestart, ciVars
  <1>2. \/ sweep' = NoSweep
        \/ sweep' = [sweep EXCEPT !.pc = "check"] /\ sweep.pc = "requirements"
    BY DEF RequirementsFail, WatchdogRestart
  <1>3. \/ sweep'.pc = "idle" /\ sweep'.reqs = {}
        \/ /\ sweep'.pc = "check" /\ sweep'.reqs = {} /\ sweep'.head = sweep.head
           /\ sweep.pc = "requirements"
    BY <1>0, <1>2 DEF NoSweep, SweepType, Kept, BooksOpen
  <1>4. RescuesAccounted' /\ BooksKept'
    BY <1>0, <1>1 DEF Kept, RescuesAccounted, BooksKept, Spent
  <1>5. OnlySwept'
    BY <1>1, <1>3 DEF Kept, OnlySwept
  <1>6. BooksOpen'
    BY <1>3 DEF BooksOpen
  <1> QED
    BY <1>4, <1>5, <1>6 DEF Kept

LEMMA NextKept ==
  ASSUME Kept, [WatchdogNext]_watchdogVars
  PROVE  Kept'
  <1>0. /\ Typed' /\ Typed
        /\ head \in Nat /\ head' \in Nat
        /\ \A h \in CIHeads, k \in CIChecks : forgets[h][k] \in Nat
    <2>1. Typed' /\ Typed
      BY NextTyped DEF Kept
    <2> QED
      BY <2>1, WatchdogAssumption DEF Typed, Runs
  <1>1. CASE PushHead
    <2>1. /\ head' = head + 1 /\ UNCHANGED <<results, ci, sweep, bookVars>>
      BY <1>1 DEF PushHead
    <2> QED
      BY <1>0, <2>1, OutsideKept DEF bookVars, Done
  <1>2. ASSUME NEW k \in CIChecks, HumanRerun(k) PROVE Kept'
    <2>1. PICK lost \in BOOLEAN : RerunCheck(k, lost)
      BY <1>2 DEF HumanRerun
    <2>2. /\ head # 0 /\ head \in CIHeads
          /\ UNCHANGED <<head, ci, sweep, firstSeen, rescued, rescues>>
          /\ forgets' = [forgets EXCEPT ![head][k] = forgets[head][k] + 1]
      BY <1>0, <1>2, PlanTypes DEF HumanRerun
    <2>3. \A i \in CIHeads, j \in CIChecks :
             (i # head \/ j # k) => results'[i][j] = results[i][j]
      BY <1>0, <2>1, <2>2, RerunEffect
    <2>4. /\ forgets'[head][k] = forgets[head][k] + 1
          /\ \A i \in CIHeads, j \in CIChecks :
                (i # head \/ j # k) => forgets'[i][j] = forgets[i][j]
      <3>1. forgets[head][k] + 1 \in Nat /\ forgets \in [CIHeads -> [CIChecks -> Nat]]
        BY <1>0, <2>2 DEF Typed
      <3> QED
        BY <2>2, <3>1, OneEntry
    <2>5. \A i \in CIHeads, j \in CIChecks :
            /\ forgets'[i][j] >= forgets[i][j]
            /\ (Done(i, j) => Done(i, j)') \/ forgets'[i][j] > forgets[i][j]
      BY <1>0, <2>3, <2>4 DEF Done
    <2> QED
      BY <1>0, <2>2, <2>5, OutsideKept
  <1>3. ASSUME NEW h \in CIHeads, NEW k \in CIChecks, JobEnds(h, k) PROVE Kept'
    <2>1. UNCHANGED <<head, ci, results, sweep, bookVars>>
      BY <1>3 DEF JobEnds
    <2> QED
      BY <1>0, <2>1, OutsideKept DEF bookVars, Done
  <1>4. ASSUME NEW h \in CIHeads, NEW k \in CIChecks, RunnerReports(h, k) PROVE Kept'
    <2>1. UNCHANGED <<head, ci, sweep, firstSeen, rescued, rescues>>
      BY <1>4 DEF RunnerReports
    <2>2. \A i \in CIHeads, j \in CIChecks :
            /\ forgets'[i][j] >= forgets[i][j]
            /\ (Done(i, j) => Done(i, j)') \/ forgets'[i][j] > forgets[i][j]
      <3>1. CASE ReportRunning(h, k)
        BY <1>0, <3>1, RunningEffect DEF Done
      <3>2. CASE ReportDone(h, k, jobs[h][k] = "success") /\ UNCHANGED forgets
        <4>1. PICK green \in BOOLEAN : green = (jobs[h][k] = "success")
          OBVIOUS
        <4>2. ReportDone(h, k, green) /\ UNCHANGED forgets
          BY <3>2, <4>1 DEF ReportDone
        <4>3. \A i \in CIHeads, j \in CIChecks :
                 /\ forgets'[i][j] = forgets[i][j]
                 /\ results[i][j].status = "done" => results'[i][j].status = "done"
          BY <1>0, <4>2, DoneEffect
        <4> QED
          BY <1>0, <4>3 DEF Done
      <3>3. CASE UNCHANGED <<results, forgets>>
        BY <1>0, <3>3 DEF Done
      <3> QED
        BY <1>4, <3>1, <3>2, <3>3 DEF RunnerReports
    <2> QED
      BY <1>0, <2>1, <2>2, OutsideKept
  <1>5. CASE ReportCheck
    <2>1. /\ sweep.at \in CIChecks /\ sweep.run \in CIHeads /\ sweep.pc = "report"
          /\ sweep' = Onward /\ UNCHANGED <<head, ci, firstSeen, rescued, rescues>>
      BY <1>0, <1>5 DEF ReportCheck, Typed
    <2>2. \A i \in CIHeads, j \in CIChecks :
            /\ forgets'[i][j] >= forgets[i][j]
            /\ (Done(i, j) => Done(i, j)') \/ forgets'[i][j] > forgets[i][j]
      <3>1. CASE ReportRunning(sweep.run, sweep.at)
        BY <1>0, <2>1, <3>1, RunningEffect DEF Done
      <3>2. CASE ReportDone(sweep.run, sweep.at, MapConclusion(sweep.job)) /\ UNCHANGED forgets
        <4>1. PICK green \in BOOLEAN : green = MapConclusion(sweep.job)
          BY DEF MapConclusion
        <4>2. ReportDone(sweep.run, sweep.at, green) /\ UNCHANGED forgets
          BY <3>2, <4>1 DEF ReportDone
        <4>3. \A i \in CIHeads, j \in CIChecks :
                 /\ forgets'[i][j] = forgets[i][j]
                 /\ results[i][j].status = "done" => results'[i][j].status = "done"
          BY <1>0, <2>1, <4>2, DoneEffect
        <4> QED
          BY <1>0, <4>3 DEF Done
      <3> QED
        BY <1>5, <3>1, <3>2 DEF ReportCheck
    <2>3. BooksOpen'
      BY <1>0, <2>1, OnwardTypes DEF Kept, BooksOpen, Key, InBooks, Typed
    <2> QED
      BY <1>0, <2>1, <2>2, <2>3, OnwardTypes, CalmKept DEF Typed
  <1>6. CASE DaemonFails
    <2>1. /\ sweep' = Onward /\ sweep.pc \in {"report", "rerun"}
          /\ UNCHANGED <<head, ci, results, firstSeen, rescued, rescues, forgets>>
      BY <1>6 DEF DaemonFails, ciVars, bookVars
    <2>2. BooksOpen'
      BY <1>0, <2>1, OnwardTypes DEF Kept, BooksOpen, Key, InBooks, Typed
    <2> QED
      BY <1>0, <2>1, <2>2, OnwardTypes, CalmKept DEF Typed, Done
  <1>7. CASE UNCHANGED watchdogVars
    BY <1>0, <1>7, OutsideKept DEF watchdogVars, Done
  <1> QED
    BY <1>0, <1>1, <1>2, <1>3, <1>4, <1>5, <1>6, <1>7, AskKept, RescueKept, UnheardKept,
       PagesKept, ForgetKept DEF WatchdogNext, SweepStep

----------------------------------------------------------------------------
\* The watchdog makes no check green that did not pass, and rescues a check once but
\* for the causes it counts, a rescue whose answer was lost among them, for any checks,
\* pushes, reruns, late or lost reports, failing calls and restarts (Sweep, mapConclusion).
THEOREM WatchdogIsHonest == WatchdogSpec => []WatchdogHonest
  <1>1. WatchdogInit => Green /\ Kept
    BY InitGreen, InitKept
  <1>2. Green /\ Kept /\ [WatchdogNext]_watchdogVars => Green' /\ Kept'
    BY NextGreen, NextKept
  <1>3. Green /\ Kept => WatchdogHonest
    BY DEF Green, Kept, WatchdogHonest
  <1> QED
    BY <1>1, <1>2, <1>3, PTL DEF WatchdogSpec

----------------------------------------------------------------------------
(* Which projects a change affects, from here on.                           *)

\* A set of numbers up to n has a greatest one.
LEMMA Greatest ==
  ASSUME NEW n \in Nat, NEW T \in SUBSET (0 .. n), T # {}
  PROVE  \E k \in T : \A j \in T : j <= k
  <1> DEFINE I(k) == k + 1 .. n
             F == {I(k) : k \in T}
             R == StrictSubsetOrdering(Nat)
  <1>1. IsWellFoundedOn(R, FiniteSubsetsOf(Nat))
    BY FS_StrictSubsetOrderingWellFounded
  <1>2. F \subseteq FiniteSubsetsOf(Nat)
    <2>1. ASSUME NEW k \in T PROVE I(k) \in FiniteSubsetsOf(Nat)
      BY FS_Interval DEF FiniteSubsetsOf
    <2> QED
      BY <2>1
  <1>3. F # {}
    OBVIOUS
  <1>4. PICK x \in F : \A y \in F : <<y, x>> \notin R
    <2> HIDE DEF F, R
    <2> QED
      BY <1>1, <1>2, <1>3, WFMin
  <1>5. PICK k \in T : x = I(k)
    OBVIOUS
  <1>6. SUFFICES ASSUME NEW j \in T, k < j PROVE FALSE
    OBVIOUS
  <1>7. I(j) \in F /\ I(j) \subseteq I(k) /\ I(j) # I(k)
    <2>1. j \in I(k) /\ j \notin I(j)
      BY <1>6
    <2> QED
      BY <1>6, <2>1
  <1>8. <<I(j), I(k)>> \in R
    BY <1>2, <1>5, <1>7 DEF StrictSubsetOrdering
  <1> QED
    BY <1>4, <1>5, <1>7, <1>8

LEMMA PathLength ==
  ASSUME NEW s, IsPath(s)
  PROVE  Len(s) \in Nat
  BY DEF IsPath

\* The owner of a path is a project that Scan found, if there is any.
LEMMA OwnerIndexed ==
  ASSUME NEW cp \in ChangedPaths, FindOwner(cp) # NoProject
  PROVE  FindOwner(cp) \in Indexed
  <1> DEFINE matching == {p \in Indexed : IsPrefix(PathOf[p], cp)}
             T == {Len(PathOf[p]) : p \in matching}
  <1>1. \A p \in Indexed : Len(PathOf[p]) \in Nat
    BY PathLength, AffectedAssumption DEF Indexed
  <1>2. Len(cp) \in Nat
    BY PathLength, AffectedAssumption
  <1>3. T \in SUBSET (0 .. Len(cp))
    BY <1>1, <1>2 DEF IsPrefix
  <1>4. matching # {}
    BY DEF FindOwner
  <1>5. T # {}
    BY <1>4
  <1>6. PICK k \in T : \A j \in T : j <= k
    <2> HIDE DEF T
    <2> QED
      BY <1>2, <1>3, <1>5, Greatest
  <1>7. PICK p \in matching : \A q \in matching : Len(PathOf[q]) <= Len(PathOf[p])
    BY <1>6
  <1>8. FindOwner(cp) = CHOOSE q \in matching :
                            \A r \in matching : Len(PathOf[r]) <= Len(PathOf[q])
    BY <1>4 DEF FindOwner
  <1>9. FindOwner(cp) \in matching
    <2> HIDE DEF matching
    <2> QED
      BY <1>7, <1>8
  <1> QED
    BY <1>9

\* The loop of Compute gives a path to a project, or escalates.
LEMMA Attributed ==
  ASSUME NEW cp \in ChangedPaths, NEW handled \in BOOLEAN,
         Attribution(cp, handled) \notin {"blunt", "refinable"}
  PROVE  /\ Attribution(cp, handled) \in Indexed
         /\ \/ Attribution(cp, handled) = FindOwner(cp)
            \/ MatchOrdered(Prose, cp) /\ RootProjects = {Attribution(cp, handled)}
  <1> DEFINE a == Attribution(cp, handled)
             root == CHOOSE p \in RootProjects : TRUE
  <1>1. \/ RootProjects # {} /\ MatchOrdered(Prose, cp) /\ a = root
        \/ FindOwner(cp) # NoProject /\ a = FindOwner(cp)
    BY Zenon DEF Attribution
  <1>2. CASE FindOwner(cp) # NoProject /\ a = FindOwner(cp)
    BY <1>2, OwnerIndexed
  <1>3. CASE RootProjects # {} /\ MatchOrdered(Prose, cp) /\ a = root
    <2>1. a \in RootProjects
      BY <1>3
    <2>2. \A p \in RootProjects : p = a
      BY <2>1, AffectedAssumption DEF RootProjects, Indexed
    <2> QED
      BY <1>3, <2>1, <2>2 DEF RootProjects
  <1> QED
    BY <1>1, <1>2, <1>3

LEMMA SeedsIndexed ==
  ASSUME changed \subseteq ChangedPaths, NEW handled \in BOOLEAN
  PROVE  Direct(handled) \subseteq Indexed /\ Clients \subseteq Indexed
  <1>1. ASSUME NEW p \in Direct(handled) PROVE p \in Indexed
    <2>1. PICK cp \in changed : p = Attribution(cp, handled)
      BY <1>1 DEF Direct, Attributions
    <2>2. p \notin {"blunt", "refinable"}
      BY <1>1, AffectedAssumption DEF Direct
    <2> QED
      BY <2>1, <2>2, Attributed
  <1> QED
    BY <1>1 DEF Clients

\* Nothing escalates: every path has its owner, or the root project, in Direct.
LEMMA Covered ==
  ASSUME changed \subseteq ChangedPaths, NEW handled \in BOOLEAN, ~Escalated(handled),
         NEW cp \in changed
  PROVE  \/ FindOwner(cp) \in Direct(handled)
         \/ MatchOrdered(Prose, cp) /\ RootProjects \subseteq Direct(handled)
  <1>1. Attribution(cp, handled) \in Attributions(handled) \ {"blunt", "refinable"}
    BY DEF Escalated, Attributions
  <1>2. Attribution(cp, handled) \in Direct(handled)
    BY <1>1, Attributed DEF Direct, Indexed
  <1> QED
    BY <1>1, <1>2, Attributed

----------------------------------------------------------------------------
\* What the walk has reached, where it has been and who has still to be visited.
Walking ==
    /\ seeds \subseteq walked /\ worklist \subseteq walked /\ walked \subseteq Propagated
    /\ \A q \in walked \ worklist : Dependents("dep", q) \subseteq walked
    /\ reached = walked \cup UNION {Dependents("test", q) : q \in walked \ worklist}

\* What each phase has made of the floor.
Answering ==
    /\ changed \subseteq ChangedPaths
    /\ phase \in {"start", "floor", "handled", "refined", "done"}
    /\ phase = "floor" =>
           /\ result.everything = Escalated(FALSE) /\ result.direct = Direct(FALSE)
           /\ seeds = Direct(FALSE) \cup Clients
    /\ phase = "handled" => result.everything
    /\ phase = "refined" =>
           /\ ~Escalated(TRUE) /\ Direct(TRUE) \subseteq seeds
           /\ result.direct = seeds /\ result.refined
    /\ DOMAIN result = {"everything", "projects", "direct", "refined"}
    /\ NothingDropped

\* A walk that has ended is closed, so it holds whoever propagation reaches.
LEMMA EndOfWalk ==
  ASSUME Walking
  PROVE  ClosureExact
  <1> SUFFICES ASSUME WalkEnds
               PROVE  reached = Propagated \cup UNION {Dependents("test", q) : q \in Propagated}
    BY DEF ClosureExact
  <1>1. worklist = {}
    BY DEF WalkEnds
  <1>2. walked \in SUBSET Indexed
    BY DEF Walking, Propagated
  <1>3. seeds \subseteq walked /\ \A q \in walked : Dependents("dep", q) \subseteq walked
    BY <1>1 DEF Walking
  <1>4. Propagated \subseteq walked
    BY <1>2, <1>3 DEF Propagated
  <1>5. walked = Propagated
    BY <1>4 DEF Walking
  <1> QED
    BY <1>1, <1>5 DEF Walking

\* What the manifests and the changed paths say stays what it is.
LEMMA TreeStays ==
  ASSUME changed' = changed, tree' = tree
  PROVE  /\ Indexed' = Indexed /\ Clients' = Clients /\ RootProjects' = RootProjects
         /\ Direct(FALSE)' = Direct(FALSE) /\ Direct(TRUE)' = Direct(TRUE)
         /\ Escalated(FALSE)' = Escalated(FALSE) /\ Escalated(TRUE)' = Escalated(TRUE)
         /\ \A cp : FindOwner(cp)' = FindOwner(cp)
         /\ \A q : Dependents("dep", q)' = Dependents("dep", q)
         /\ \A q : Dependents("test", q)' = Dependents("test", q)
         /\ seeds' = seeds => Propagated' = Propagated
  <1>1. Indexed' = Indexed
    BY DEF Indexed
  <1>2. RootProjects' = RootProjects
    BY <1>1 DEF RootProjects
  <1>3. Clients' = Clients
    BY <1>1 DEF Clients, ContractTouched
  <1>4. \A cp : FindOwner(cp)' = FindOwner(cp)
    BY <1>1 DEF FindOwner
  <1>5. ASSUME NEW cp, NEW handled PROVE Attribution(cp, handled)' = Attribution(cp, handled)
    <2> DEFINE i == Deciding(RootInvalidation, cp)
               escalates == MatchOrdered(RootInvalidation, cp)
               word == IF RootInvalidation[i].refinable THEN "refinable" ELSE "blunt"
               lost == escalates /\ ~(RootInvalidation[i].refinable /\ handled)
               prose == MatchOrdered(Prose, cp)
               Then(roots, owner) ==
                   IF lost THEN word
                   ELSE IF roots # {} /\ prose THEN CHOOSE p \in roots : TRUE
                   ELSE IF owner # NoProject THEN owner ELSE "blunt"
    <2>1. Attribution(cp, handled) = Then(RootProjects, FindOwner(cp))
      BY Zenon DEF Attribution
    <2>2. Attribution(cp, handled)' = Then(RootProjects', FindOwner(cp)')
      BY Zenon DEF Attribution
    <2>3. RootProjects' = RootProjects /\ FindOwner(cp)' = FindOwner(cp)
      BY <1>2, <1>4
    <2> QED
      BY <2>1, <2>2, <2>3
  <1>6. /\ Attributions(FALSE)' = Attributions(FALSE)
        /\ Attributions(TRUE)' = Attributions(TRUE)
    BY <1>5 DEF Attributions
  <1>7. \A kind, q : Dependents(kind, q)' = Dependents(kind, q)
    BY <1>1 DEF Dependents
  <1>8. seeds' = seeds => Propagated' = Propagated
    BY <1>1, <1>7 DEF Propagated
  <1> QED
    BY <1>1, <1>2, <1>3, <1>4, <1>6, <1>7, <1>8 DEF Direct, Escalated

\* A walk that begins has been nowhere.
LEMMA WalkBegins ==
  ASSUME NEW s, NEW next, StartWalk(s, next), s \subseteq Indexed', changed' = changed, tree' = tree
  PROVE  Walking'
  <1>1. /\ seeds' = s /\ reached' = s /\ walked' = s /\ worklist' = s
    BY DEF StartWalk
  <1>2. s \subseteq Propagated'
    BY <1>1 DEF Propagated
  <1> QED
    BY <1>1, <1>2 DEF Walking

LEMMA WalkGoesOn ==
  ASSUME NEW cur, Walking, WalkStep(cur)
  PROVE  Walking'
  <1> DEFINE dep == Dependents("dep", cur)
             test == Dependents("test", cur)
  <1>1. /\ cur \in worklist /\ cur \in walked
        /\ reached' = reached \cup dep \cup test
        /\ walked' = walked \cup dep
        /\ worklist' = (worklist \ {cur}) \cup (dep \ walked)
        /\ seeds' = seeds /\ changed' = changed /\ tree' = tree
    BY DEF Walking, WalkStep, Continue
  <1>2. /\ \A q : Dependents("dep", q)' = Dependents("dep", q)
        /\ \A q : Dependents("test", q)' = Dependents("test", q)
        /\ Propagated' = Propagated
    BY <1>1, TreeStays
  <1>3. walked' \ worklist' = (walked \ worklist) \cup {cur}
    BY <1>1 DEF Walking
  <1>4. dep \subseteq Propagated
    <2>1. cur \in Propagated /\ dep \subseteq Indexed
      BY <1>1 DEF Walking, Dependents
    <2> QED
      BY <2>1 DEF Propagated
  <1>5. seeds' \subseteq walked' /\ worklist' \subseteq walked' /\ walked' \subseteq Propagated'
    BY <1>1, <1>2, <1>4 DEF Walking
  <1>6. \A q \in walked' \ worklist' : Dependents("dep", q)' \subseteq walked'
    BY <1>1, <1>2, <1>3 DEF Walking
  <1>7. reached' = walked' \cup UNION {Dependents("test", q)' : q \in walked' \ worklist'}
    BY <1>1, <1>2, <1>3 DEF Walking
  <1> QED
    BY <1>5, <1>6, <1>7 DEF Walking

\* The answer of a phase that ends covers what was asked of it.
LEMMA Dropped ==
  ASSUME changed \subseteq ChangedPaths, NEW handled \in BOOLEAN, ~Escalated(handled),
         NEW r, Direct(handled) \subseteq r.projects \cap r.direct,
         r.refined \/ Clients \subseteq r.projects
  PROVE  /\ \A cp \in changed :
               \/ FindOwner(cp) \in r.projects \cap r.direct
               \/ /\ MatchOrdered(Prose, cp)
                  /\ RootProjects \subseteq r.projects \cap r.direct
         /\ r.refined \/ Clients \subseteq r.projects
  BY Covered

\* Fewer than "done" has nothing to say yet.
LEMMA NotDone ==
  ASSUME phase' # "done"
  PROVE  NothingDropped'
  BY DEF NothingDropped

LEMMA NextAffected ==
  ASSUME Walking /\ Answering, [AffectedNext]_affectedVars
  PROVE  (Walking /\ Answering)'
  <1>1. CASE ComputeFloor
    <2>1. /\ StartWalk(Direct(FALSE) \cup Clients, "floor")
          /\ changed' = changed /\ tree' = tree
      BY <1>1 DEF ComputeFloor
    <2>2. Walking'
      BY <2>1, SeedsIndexed, TreeStays, WalkBegins DEF Answering
    <2>3. Answering'
      BY <1>1, <2>1, TreeStays, NotDone DEF Answering, ComputeFloor, StartWalk
    <2> QED
      BY <2>2, <2>3
  <1>2. CASE KeepFloor
    <2>1. /\ changed' = changed /\ tree' = tree /\ phase' = "done" /\ phase = "floor"
          /\ UNCHANGED walkVars
      BY <1>2 DEF KeepFloor
    <2>2. Walking'
      BY <2>1, TreeStays DEF Walking, walkVars
    <2>3. PICK e \in {result.everything, TRUE} :
              result' = [result EXCEPT !.projects = reached, !.everything = e]
      BY <1>2 DEF KeepFloor
    <2>4. /\ result'.projects = reached /\ result'.everything = e
          /\ result'.direct = Direct(FALSE) /\ DOMAIN result' = DOMAIN result
      BY <2>1, <2>3 DEF Answering
    <2>5. ASSUME ~result'.everything
          PROVE  ~Escalated(FALSE) /\ Direct(FALSE) \cup Clients \subseteq reached
      BY <2>1, <2>4, <2>5 DEF Answering, Walking
    <2>6. NothingDropped'
      <3> SUFFICES ASSUME ~result'.everything
                   PROVE  /\ \A cp \in changed' :
                              \/ FindOwner(cp)' \in result'.projects \cap result'.direct
                              \/ /\ MatchOrdered(Prose, cp)
                                 /\ RootProjects' \subseteq result'.projects \cap result'.direct
                          /\ result'.refined \/ Clients' \subseteq result'.projects
        BY DEF NothingDropped
      <3> QED
        BY <2>1, <2>4, <2>5, Dropped, TreeStays DEF Answering
    <2> QED
      BY <2>1, <2>2, <2>4, <2>6 DEF Answering
  <1>3. CASE Deescalate
    <2>1. /\ StartWalk(Direct(TRUE) \cup Clients, "handled")
          /\ changed' = changed /\ tree' = tree
          /\ result' = [result EXCEPT !.projects = reached] /\ result.everything
      BY <1>3 DEF Deescalate
    <2>2. Walking'
      <3>1. Direct(TRUE) \cup Clients \subseteq Indexed'
        BY <2>1, SeedsIndexed, TreeStays DEF Answering
      <3> QED
        BY <2>1, <3>1, WalkBegins
    <2>3. Answering'
      BY <2>1, NotDone DEF Answering, StartWalk
    <2> QED
      BY <2>2, <2>3
  <1>4. CASE RefinementDone
    <2>1. /\ changed' = changed /\ tree' = tree /\ phase' = "done" /\ phase = "refined"
          /\ UNCHANGED walkVars /\ result' = [result EXCEPT !.projects = reached]
      BY <1>4 DEF RefinementDone
    <2>2. Walking'
      BY <2>1, TreeStays DEF Walking, walkVars
    <2>3. /\ result'.projects = reached /\ result'.direct = seeds /\ result'.refined
          /\ DOMAIN result' = DOMAIN result
      BY <2>1 DEF Answering
    <2>4. ~Escalated(TRUE) /\ Direct(TRUE) \subseteq seeds /\ seeds \subseteq reached
      BY <2>1 DEF Answering, Walking
    <2>5. NothingDropped'
      <3> SUFFICES /\ \A cp \in changed' :
                        \/ FindOwner(cp)' \in result'.projects \cap result'.direct
                        \/ /\ MatchOrdered(Prose, cp)
                           /\ RootProjects' \subseteq result'.projects \cap result'.direct
                   /\ result'.refined \/ Clients' \subseteq result'.projects
        BY DEF NothingDropped
      <3> QED
        BY <2>1, <2>3, <2>4, Dropped, TreeStays DEF Answering
    <2> QED
      BY <2>1, <2>2, <2>3, <2>5 DEF Answering
  <1>5. ASSUME NEW p \in Projects, WalkStep(p) PROVE (Walking /\ Answering)'
    <2>1. UNCHANGED <<changed, tree, phase, seeds, result>>
      BY <1>5 DEF WalkStep
    <2> QED
      BY <1>5, <2>1, WalkGoesOn, TreeStays DEF Answering, NothingDropped
  <1>6. ASSUME NEW s \in SUBSET Indexed, CloseOverNames(s) PROVE (Walking /\ Answering)'
    <2>1. /\ phase = "handled" /\ changed' = changed /\ tree' = tree
      BY <1>6 DEF CloseOverNames
    <2>2. CASE Escalated(TRUE)
      <3>1. phase' = "done" /\ UNCHANGED <<walkVars, result>>
        BY <1>6, <2>2 DEF CloseOverNames
      <3>2. Walking'
        BY <2>1, <3>1, TreeStays DEF Walking, walkVars
      <3>3. result'.everything
        BY <2>1, <3>1 DEF Answering
      <3> QED
        BY <2>1, <3>1, <3>2, <3>3 DEF Answering, NothingDropped
    <2>3. CASE ~Escalated(TRUE)
      <3>1. /\ StartWalk(RefinedSeeds(s), "refined")
            /\ result' = [result EXCEPT !.everything = FALSE, !.direct = seeds', !.refined = TRUE]
        BY <1>6, <2>3 DEF CloseOverNames
      <3>2. RefinedSeeds(s) \subseteq Indexed' /\ Direct(TRUE) \subseteq RefinedSeeds(s)
        BY <1>6, <2>1, SeedsIndexed, TreeStays DEF Answering, RefinedSeeds
      <3>3. Walking'
        BY <2>1, <3>1, <3>2, WalkBegins
      <3>4. /\ phase' = "refined" /\ seeds' = RefinedSeeds(s)
            /\ result'.direct = seeds' /\ result'.refined /\ DOMAIN result' = DOMAIN result
        BY <3>1 DEF Answering, StartWalk
      <3>5. ~Escalated(TRUE)' /\ Direct(TRUE)' = Direct(TRUE)
        BY <2>1, <2>3, TreeStays
      <3> QED
        BY <2>1, <3>2, <3>3, <3>4, <3>5, NotDone DEF Answering
    <2> QED
      BY <2>2, <2>3
  <1>7. CASE UNCHANGED affectedVars
    <2>1. UNCHANGED affectedVars
      BY <1>7
    <2>2. Walking'
      BY <2>1, TreeStays DEF affectedVars, Walking
    <2>3. NothingDropped'
      BY <2>1, TreeStays DEF affectedVars, Answering, NothingDropped
    <2> QED
      BY <2>1, <2>2, <2>3, TreeStays DEF affectedVars, Answering
  <1> QED
    BY <1>1, <1>2, <1>3, <1>4, <1>5, <1>6, <1>7 DEF AffectedNext

LEMMA InitAffected == AffectedInit => Walking /\ Answering
  BY DEF AffectedInit, Walking, Answering, NothingDropped

----------------------------------------------------------------------------
\* The walk over the dependents ends with whoever propagation reaches, in whatever
\* order it goes, and every changed path has its owner in the answer or escalates,
\* for any projects, manifests, changed paths and impacted targets (affected.Compute,
\* closeOverDependents, affectedRefined).
THEOREM AffectedIsExact == AffectedSpec => []AffectedExact
  <1>1. Walking /\ Answering => AffectedExact
    BY EndOfWalk DEF Answering, AffectedExact
  <1> QED
    BY InitAffected, NextAffected, <1>1, PTL DEF AffectedSpec
=============================================================================
