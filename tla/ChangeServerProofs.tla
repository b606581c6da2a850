------------------------- MODULE ChangeServerProofs ---------------------------
(*****************************************************************************)
(* The safety of ChangeServer for any number of Changes, handlers, owners    *)
(* and checks, any bounds, any mixture of requests, and requests that fail   *)
(* midway: every state has its types, nothing lands unforced that its owners *)
(* were not shown or its checks did not pass on, no land is lost, a landed   *)
(* row names its own trunk commit, and landed is terminal when the store     *)
(* checks and writes in one step.                                            *)
(*                                                                           *)
(* TypeOK is not inductive by itself: what a handler carries from step to    *)
(* step, its snapshot and the version it is about to write, has to be as good*)
(* as what the tables hold (Flight).                                         *)
(*****************************************************************************)
EXTENDS ChangeServer, TLAPS

\* What one handler may do next.
Act(h) == Step(h) \/ Abort(h) \/ \E c \in Changes : Request(h, c)

\* The program counters at which a handler is about to write hs[h].head.
Pushing == {"pushref", "pushread", "pushrow", "syncref", "syncrow", "carry",
            "announce"}

\* The program counters of requests that began from an existing row.
FromRow == Landing \cup {"approve", "report"}

\* The program counters of a rerun.
Rerunning == {"rerun", "notify"}

\* A row and the version it shows, seen from the commits of its Change.
RowOK(r, s) == /\ r \in Row
               /\ r.state = "none" <=> r.head = 0
               /\ r.head <= Len(s)

\* A request in flight serves a Change, writes a version git holds, and
\* works from a snapshot that was a row; a row that existed still does.
FlightOf(h) ==
    hs[h].pc # "idle" =>
        /\ hs[h].change \in Changes
        /\ hs[h].pc \in Pushing => hs[h].head \in 1 .. Len(commits[hs[h].change])
        /\ RowOK(hs[h].snap, commits[hs[h].change])
        /\ hs[h].pc \in FromRow => hs[h].snap.head # 0
        /\ hs[h].snap.head # 0 => row[hs[h].change].head # 0
        /\ hs[h].pc \in Rerunning => hs[h].who \in Checks

Flight == \A h \in Handlers : FlightOf(h)

Typed == TypeOK /\ Flight

----------------------------------------------------------------------------
(* Handler records.                                                        *)

LEMMA NoRowType == NoRow \in Row /\ \A r \in Seq(Commit) : RowOK(NoRow, r)
  <1>1. NoRow \in Row
    BY BoundsAssumption DEF NoRow, Row, States, Versions
  <1> QED
    BY <1>1 DEF NoRow, RowOK

LEMMA IdleType == Idle \in Handler
  <1>1. NoRow \in Row
    BY NoRowType
  <1>2. 0 \in Versions
    BY BoundsAssumption DEF Versions
  <1> QED
    BY <1>1, <1>2 DEF Idle, Handler, PCs, Verdicts

LEMMA TakesType ==
    ASSUME NEW c \in Changes, NEW pc \in PCs
    PROVE  Takes(c, pc) \in Handler
  <1>1. Idle \in Handler
    BY IdleType
  <1> QED
    BY Zenon, <1>1 DEF Takes, Handler

LEMMA BeginType ==
    ASSUME NEW c \in Changes, NEW pc \in PCs, row[c] \in Row
    PROVE  Begin(c, pc) \in Handler
  <1>1. Takes(c, pc) \in Handler
    BY TakesType
  <1> QED
    BY Zenon, <1>1 DEF Begin, Handler

LEMMA GotoType ==
    ASSUME hs \in [Handlers -> Handler], NEW h \in Handlers, NEW pc \in PCs,
           Goto(h, pc)
    PROVE  \E r \in Handler : hs' = [hs EXCEPT ![h] = r]
  <1>1. [hs[h] EXCEPT !.pc = pc] \in Handler
    BY Zenon DEF Handler
  <1>2. hs' = [hs EXCEPT ![h] = [hs[h] EXCEPT !.pc = pc]]
    BY DEF Goto
  <1> QED
    BY <1>1, <1>2

LEMMA AnswerType ==
    ASSUME NEW h \in Handlers, Answer(h)
    PROVE  \E r \in Handler : hs' = [hs EXCEPT ![h] = r]
  BY IdleType DEF Answer

\* Every step is a step of one handler, whose record keeps its type.
LEMMA RequestHandler ==
    ASSUME Typed, NEW h \in Handlers, NEW c \in Changes, Request(h, c)
    PROVE  \E r \in Handler : hs' = [hs EXCEPT ![h] = r]
  <1>0. \A pc \in PCs : Begin(c, pc) \in Handler
    BY BeginType DEF Typed, TypeOK
  <1>00. Len(commits[c]) \in Nat /\ Len(commits[c]) <= MaxHeads /\ MaxHeads \in Nat
    BY BoundsAssumption DEF Typed, TypeOK
  <1>1. CASE Evaluate(h, c)
    <2>1. PICK n \in Versions :
             hs' = [hs EXCEPT ![h] = [Takes(c, "pushref") EXCEPT !.head = n]]
      BY SMTT(60), <1>1, <1>00 DEF Evaluate, Versions
    <2>2. Takes(c, "pushref") \in Handler
      BY TakesType DEF PCs
    <2>3. [Takes(c, "pushref") EXCEPT !.head = n] \in Handler
      BY Zenon, <2>2 DEF Handler
    <2> QED
      BY <2>1, <2>3
  <1>2. CASE SyncCompute(h, c)
    <2> DEFINE n == Len(commits[c]) + 1
    <2>1. /\ n \in Versions
          /\ hs' = [hs EXCEPT ![h] = [Begin(c, "syncref") EXCEPT !.head = n]]
      <3>1. n \in Versions
        BY <1>2, <1>00 DEF SyncCompute, Versions
      <3> QED
        BY <1>2, <3>1 DEF SyncCompute
    <2> HIDE DEF n
    <2>2. Begin(c, "syncref") \in Handler
      BY <1>0 DEF PCs
    <2>3. [Begin(c, "syncref") EXCEPT !.head = n] \in Handler
      BY Zenon, <2>1, <2>2 DEF Handler
    <2> QED
      BY <2>1, <2>3
  <1>3. ASSUME NEW o \in Owners, ApproveRequest(h, c, o)
        PROVE  \E r \in Handler : hs' = [hs EXCEPT ![h] = r]
    <2>1. Begin(c, "approve") \in Handler
      BY <1>0 DEF PCs
    <2>2. [Begin(c, "approve") EXCEPT !.who = o] \in Handler
      BY Zenon, <2>1 DEF Handler
    <2> QED
      BY <1>3, <2>2 DEF ApproveRequest
  <1>4. ASSUME NEW k \in Checks, ReportRequest(h, c, k)
        PROVE  \E r \in Handler : hs' = [hs EXCEPT ![h] = r]
    <2>1. PICK v \in {"failed", "passed"} :
             hs' = [hs EXCEPT ![h] = [Begin(c, "report") EXCEPT
                                        !.who = k, !.verdict = v]]
      BY <1>4 DEF ReportRequest
    <2>2. Begin(c, "report") \in Handler /\ v \in Verdicts
      BY <1>0 DEF PCs, Verdicts
    <2>3. [Begin(c, "report") EXCEPT !.who = k, !.verdict = v] \in Handler
      BY Zenon, <2>2 DEF Handler
    <2> QED
      BY <2>1, <2>3
  <1>5. ASSUME NEW k \in Checks, RerunRequest(h, c, k)
        PROVE  \E r \in Handler : hs' = [hs EXCEPT ![h] = r]
    <2>1. Takes(c, "rerun") \in Handler
      BY TakesType DEF PCs
    <2>2. [Takes(c, "rerun") EXCEPT !.who = k] \in Handler
      BY Zenon, <2>1 DEF Handler
    <2> QED
      BY <1>5, <2>2 DEF RerunRequest
  <1>6. CASE AbandonRequest(h, c)
    BY <1>0, <1>6 DEF AbandonRequest, PCs
  <1>7. ASSUME NEW force \in BOOLEAN, LandRequest(h, c, force)
        PROVE  \E r \in Handler : hs' = [hs EXCEPT ![h] = r]
    <2>1. Begin(c, "gate") \in Handler
      BY <1>0 DEF PCs
    <2>2. [Begin(c, "gate") EXCEPT !.force = force] \in Handler
      BY Zenon, <2>1 DEF Handler
    <2> QED
      BY <1>7, <2>2 DEF LandRequest
  <1> QED
    BY <1>1, <1>2, <1>3, <1>4, <1>5, <1>6, <1>7 DEF Request

LEMMA CarryMoves ==
    ASSUME NEW h \in Handlers, Carry(h)
    PROVE  Answer(h) \/ Goto(h, "announce")
  BY Zenon DEF Carry

LEMMA StepHandler ==
    ASSUME Typed, NEW h \in Handlers, Step(h) \/ Abort(h)
    PROVE  \E r \in Handler : hs' = [hs EXCEPT ![h] = r]
  <1> USE DEF PCs
  <1>0. hs \in [Handlers -> Handler] /\ hs[h] \in Handler
    BY DEF Typed, TypeOK
  <1>1. ASSUME NEW pc \in {"pushread", "carry", "syncrow", "record", "announce", "notify"},
               Goto(h, pc)
        PROVE  \E r \in Handler : hs' = [hs EXCEPT ![h] = r]
    BY <1>0, <1>1, GotoType
  <1>2. CASE Answer(h)
    BY <1>2, AnswerType
  <1>3. CASE PushRead(h)
    <2>0. PICK old \in {row[hs[h].change], NoRow} :
             hs' = [hs EXCEPT ![h].snap = old, ![h].pc = "pushrow"]
      BY <1>3 DEF PushRead
    <2>1. old \in Row
      BY <1>3, NoRowType DEF PushRead, At, Typed, TypeOK, Flight, FlightOf
    <2>2. [hs[h] EXCEPT !.snap = old, !.pc = "pushrow"] \in Handler
      BY Zenon, <1>0, <2>1 DEF Handler
    <2>3. hs' = [hs EXCEPT ![h] = [hs[h] EXCEPT !.snap = old, !.pc = "pushrow"]]
      BY <2>0, <1>0
    <2> QED
      BY <2>2, <2>3
  <1>4. CASE LandGate(h)
    <2> DEFINE m == Mergeable(hs[h].change, hs[h].snap.head)
    <2>1. m \in BOOLEAN
      BY DEF Mergeable
    <2>2. [hs[h] EXCEPT !.pc = "attempt", !.mergeable = m] \in Handler
      BY Zenon, <1>0, <2>1 DEF Handler
    <2>3. CASE hs' = [hs EXCEPT ![h].pc = "attempt", ![h].mergeable = m]
      <3>1. hs' = [hs EXCEPT ![h] = [hs[h] EXCEPT !.pc = "attempt",
                                                  !.mergeable = m]]
        BY <2>3, <1>0
      <3> QED
        BY <2>2, <3>1
    <2> QED
      BY <1>2, <1>4, <2>3 DEF LandGate
  <1>5. CASE LandAttempt(h)
    <2>1. Len(trunk) \in Nat
      BY DEF Typed, TypeOK
    <2>2. [hs[h] EXCEPT !.pc = "advance", !.tip = Len(trunk)] \in Handler
      BY Zenon, <1>0, <2>1 DEF Handler
    <2>3. CASE hs' = [hs EXCEPT ![h].pc = "advance", ![h].tip = Len(trunk)]
      <3>1. hs' = [hs EXCEPT ![h] = [hs[h] EXCEPT !.pc = "advance",
                                                  !.tip = Len(trunk)]]
        BY <2>3, <1>0
      <3> QED
        BY <2>2, <3>1
    <2> QED
      BY <1>2, <1>5, <2>3 DEF LandAttempt
  <1>6. CASE Retry(h)
    <2>01. hs[h].tries \in Nat
      BY Zenon, <1>0 DEF Handler
    <2>0. hs[h].tries + 1 \in Nat
      BY <2>01
    <2>1. [hs[h] EXCEPT !.pc = "attempt", !.tries = @ + 1] \in Handler
      BY Zenon, <1>0, <2>0 DEF Handler
    <2>2. CASE hs' = [hs EXCEPT ![h].pc = "attempt", ![h].tries = @ + 1]
      <3>1. hs' = [hs EXCEPT ![h] = [hs[h] EXCEPT !.pc = "attempt",
                                                  !.tries = @ + 1]]
        BY Zenon, <2>2, <1>0
      <3> QED
        BY <2>1, <3>1
    <2> QED
      BY <1>2, <1>6, <2>2 DEF Retry
  <1> QED
    BY Zenon, <1>1, <1>2, <1>3, <1>4, <1>5, <1>6, CarryMoves
    DEF Step, Abort, PushRef, PushRow, Announce, SyncRef, SyncRow, ApproveRecord,
        ReportRecord, RerunReset, RerunNotify, MarkAbandoned, LandAdvance, MarkLanded

LEMMA OneHandler ==
    ASSUME Typed, NEW h \in Handlers, Act(h)
    PROVE  /\ hs' \in [Handlers -> Handler]
           /\ \A g \in Handlers \ {h} : hs'[g] = hs[g]
  <1>1. PICK r \in Handler : hs' = [hs EXCEPT ![h] = r]
    BY RequestHandler, StepHandler DEF Act
  <1> QED
    BY <1>1 DEF Typed, TypeOK
----------------------------------------------------------------------------
(* What only ever grows: the versions git holds, and trunk.                *)

LEMMA CommitsStep ==
    ASSUME Typed, NEW h \in Handlers, Act(h)
    PROVE  \/ commits' = commits
           \/ \E c \in Changes, e \in Commit :
                 /\ Len(commits[c]) < MaxHeads
                 /\ commits' = [commits EXCEPT ![c] = Append(@, e)]
  <1>1. CASE Step(h) \/ Abort(h)
    BY Zenon, <1>1 DEF Step, Abort, PushRef, PushRead, PushRow, Carry, Announce, SyncRef,
        SyncRow, ApproveRecord, ReportRecord, RerunReset, RerunNotify, MarkAbandoned, LandGate,
        LandAttempt, LandAdvance, MarkLanded, git
  <1>2. ASSUME NEW c \in Changes, Evaluate(h, c), commits' # commits
        PROVE  \E e \in Commit :
                 /\ Len(commits[c]) < MaxHeads
                 /\ commits' = [commits EXCEPT ![c] = Append(@, e)]
    <2>0. Len(commits[c]) \in Nat /\ Len(trunk) \in Nat /\ MaxHeads \in Nat
      BY BoundsAssumption DEF Typed, TypeOK
    <2>1. PICK b \in 0 .. Len(trunk), d \in 1 .. Len(commits[c]) + 1 :
             /\ Len(commits[c]) < MaxHeads
             /\ commits' = [commits EXCEPT
                   ![c] = Append(@, [base |-> b, delta |-> d])]
      BY <1>2 DEF Evaluate
    <2>2. b \in Nat /\ d \in 1 .. MaxHeads
      BY <2>0, <2>1
    <2>3. [base |-> b, delta |-> d] \in Commit
      BY <2>2 DEF Commit
    <2> QED
      BY <2>1, <2>3
  <1>3. ASSUME NEW c \in Changes, SyncCompute(h, c)
        PROVE  \E e \in Commit :
                 /\ Len(commits[c]) < MaxHeads
                 /\ commits' = [commits EXCEPT ![c] = Append(@, e)]
    <2>0. Len(commits[c]) \in Nat /\ Len(trunk) \in Nat /\ MaxHeads \in Nat
      BY BoundsAssumption DEF Typed, TypeOK
    <2>1. row[c].head \in 1 .. Len(commits[c])
      BY <1>3, <2>0 DEF SyncCompute, Typed, TypeOK, Row, Versions
    <2>2. Delta(c, row[c].head) \in 1 .. MaxHeads
      <3>1. commits[c] \in Seq(Commit)
        BY DEF Typed, TypeOK
      <3>2. commits[c][row[c].head] \in Commit
        BY <2>1, <3>1
      <3> QED
        BY <3>2 DEF Delta, Commit
    <2>3. [base |-> Len(trunk), delta |-> Delta(c, row[c].head)] \in Commit
      BY <2>0, <2>2 DEF Commit
    <2> QED
      BY <1>3, <2>3 DEF SyncCompute
  <1>4. ASSUME NEW c \in Changes, Request(h, c)
        PROVE  commits' = commits \/ Evaluate(h, c) \/ SyncCompute(h, c)
    BY Zenon, <1>4 DEF Request, ApproveRequest, ReportRequest, RerunRequest,
        AbandonRequest, LandRequest, git
  <1> QED
    BY <1>1, <1>2, <1>3, <1>4 DEF Act

LEMMA CommitsGrow ==
    ASSUME Typed, NEW h \in Handlers, Act(h)
    PROVE  /\ commits' \in [Changes -> Seq(Commit)]
           /\ \A c \in Changes :
                 /\ Len(commits'[c]) <= MaxHeads
                 /\ Len(commits[c]) <= Len(commits'[c])
                 /\ \A n \in 1 .. Len(commits[c]) : commits'[c][n] = commits[c][n]
  <1>0. /\ commits \in [Changes -> Seq(Commit)] /\ MaxHeads \in Nat
        /\ \A c \in Changes : Len(commits[c]) <= MaxHeads
    BY BoundsAssumption DEF Typed, TypeOK
  <1>1. CASE commits' = commits
    BY <1>0, <1>1
  <1>2. ASSUME NEW c \in Changes, NEW e \in Commit, Len(commits[c]) < MaxHeads,
               commits' = [commits EXCEPT ![c] = Append(@, e)]
        PROVE  /\ commits' \in [Changes -> Seq(Commit)]
               /\ \A d \in Changes :
                     /\ Len(commits'[d]) <= MaxHeads
                     /\ Len(commits[d]) <= Len(commits'[d])
                     /\ \A n \in 1 .. Len(commits[d]) :
                           commits'[d][n] = commits[d][n]
    <2>1. /\ Append(commits[c], e) \in Seq(Commit)
          /\ Len(Append(commits[c], e)) = Len(commits[c]) + 1
          /\ \A n \in 1 .. Len(commits[c]) : Append(commits[c], e)[n] = commits[c][n]
      BY <1>0
    <2>2. /\ commits'[c] = Append(commits[c], e)
          /\ \A d \in Changes \ {c} : commits'[d] = commits[d]
          /\ commits' \in [Changes -> Seq(Commit)]
      BY <1>0, <1>2, <2>1
    <2>3. \A d \in Changes : Len(commits[d]) \in Nat
      BY SMTT(60), <1>0
    <2> QED
      BY <1>0, <1>2, <2>1, <2>2, <2>3
  <1> QED
    BY <1>1, <1>2, CommitsStep

LEMMA TrunkStep ==
    ASSUME Typed, NEW h \in Handlers, Act(h)
    PROVE  \/ trunk' = trunk
           \/ LandAdvance(h) /\ TipUnmoved(h) /\ Goto(h, "record")
              /\ trunk' = Append(trunk,
                    [change |-> hs[h].change, head |-> hs[h].snap.head,
                     onto |-> hs[h].tip, forced |-> Forced(h)])
  BY Zenon DEF Act, Step, Abort, Request, Evaluate, SyncCompute, PushRef, PushRead,
     PushRow, Carry, Announce, SyncRef, SyncRow, ApproveRecord, ReportRecord,
     RerunReset, RerunNotify,
     MarkAbandoned, LandGate, LandAttempt, LandAdvance, MarkLanded,
     ApproveRequest, ReportRequest, RerunRequest, AbandonRequest, LandRequest, git

LEMMA NewTrunkCommit ==
    ASSUME Typed, NEW h \in Handlers, At(h, "advance")
    PROVE  [change |-> hs[h].change, head |-> hs[h].snap.head,
            onto |-> hs[h].tip, forced |-> Forced(h)] \in TrunkCommit
  <1>1. hs[h] \in Handler /\ hs[h].change \in Changes
    BY DEF Typed, TypeOK, Flight, FlightOf, At
  <1>2. hs[h].snap \in Row /\ hs[h].tip \in Nat /\ Forced(h) \in BOOLEAN
    BY Zenon, <1>1 DEF Handler, Forced
  <1>3. hs[h].snap.head \in Versions
    BY <1>2 DEF Row
  <1> QED
    BY <1>1, <1>2, <1>3 DEF TrunkCommit

LEMMA TrunkType ==
    ASSUME Typed, NEW h \in Handlers, Act(h)
    PROVE  trunk' \in Seq(TrunkCommit)
  <1>1. trunk \in Seq(TrunkCommit)
    BY DEF Typed, TypeOK
  <1>2. CASE LandAdvance(h)
    BY <1>1, <1>2, TrunkStep, NewTrunkCommit DEF LandAdvance
  <1> QED
    BY <1>1, <1>2, TrunkStep
----------------------------------------------------------------------------
(* Rows.                                                                   *)

\* A step leaves the rows alone, or replaces the row of the handler's Change
\* by one that exists and is as good.
LEMMA RowStep ==
    ASSUME Typed, NEW h \in Handlers, Act(h)
    PROVE  \/ row' = row
           \/ /\ hs[h].change \in Changes
              /\ \E r : /\ RowOK(r, commits[hs[h].change]) /\ r.head # 0
                        /\ row' = [row EXCEPT ![hs[h].change] = r]
  <1> DEFINE c == hs[h].change
             Good == \E r : /\ RowOK(r, commits[c]) /\ r.head # 0
                            /\ row' = [row EXCEPT ![c] = r]
  <1>0. /\ row \in [Changes -> Row] /\ hs[h] \in Handler
        /\ \A d \in Changes : RowOK(row[d], commits[d])
        /\ hs[h].pc # "idle" => c \in Changes
    BY DEF Typed, TypeOK, RowOK, Flight, FlightOf
  <1>1. CASE PushRow(h) \/ SyncRow(h)
    <2> DEFINE r == [row[c] EXCEPT !.head = hs[h].head,
                        !.state = IF @ = "landed" THEN @ ELSE "open"]
    <2>0. c \in Changes /\ hs[h].head \in 1 .. Len(commits[c])
      BY <1>1 DEF PushRow, SyncRow, At, Typed, Flight, FlightOf, Pushing
    <2>1. row' = [row EXCEPT ![c] = r]
      BY <1>0, <1>1, <2>0 DEF CreateOrUpdate, PushRow, SyncRow
    <2>2. hs[h].head \in Versions
      BY Zenon, <1>0 DEF Handler
    <2>3. RowOK(r, commits[c]) /\ r.head # 0
      <3>1. r \in Row
        BY ZenonT(90), <1>0, <2>0, <2>2 DEF Row, States
      <3>2. r.head = hs[h].head /\ r.state # "none"
        BY <1>0, <2>0 DEF Row
      <3>3. Len(commits[c]) \in Nat
        BY <2>0 DEF Typed, TypeOK
      <3> QED
        BY <2>0, <3>1, <3>2, <3>3 DEF RowOK
    <2> HIDE DEF r
    <2> QED
      BY <2>0, <2>1, <2>3
  <1>2. CASE MarkAbandoned(h)
    <2>0. c \in Changes
      BY <1>2, <1>0 DEF MarkAbandoned, At
    <2> DEFINE r == [row[c] EXCEPT !.state = "abandoned"]
    <2>1. CASE row[c].head = 0
      <3>1. row[c].state = "none" /\ hs[h].snap.state = "none"
        BY <1>0, <1>2, <2>0, <2>1 DEF MarkAbandoned, At, Typed, Flight, FlightOf, RowOK
      <3> QED
        BY <1>2, <3>1 DEF MarkAbandoned
    <2>2. CASE row[c].head # 0
      <3>1. row' = row \/ row' = [row EXCEPT ![c] = r]
        BY <1>0, <1>2, <2>0 DEF MarkAbandoned
      <3>2. r \in Row
        BY <1>0, <2>0 DEF Row, States
      <3>3. r.head = row[c].head /\ r.state = "abandoned"
        BY <1>0, <2>0 DEF Row
      <3>4. RowOK(r, commits[c]) /\ r.head # 0
        BY <1>0, <2>0, <2>2, <3>2, <3>3 DEF RowOK
      <3> QED
        BY <2>0, <3>1, <3>4
    <2> QED
      BY <2>1, <2>2
  <1>3. CASE MarkLanded(h)
    <2>0. c \in Changes /\ row[c].head # 0
      BY <1>3, <1>0 DEF MarkLanded, At, Typed, Flight, FlightOf, FromRow, Landing
    <2> DEFINE r == [row[c] EXCEPT !.state = "landed", !.landedSHA = LandedSHA(h),
                                   !.forced = Forced(h)]
    <2>1. row' = [row EXCEPT ![c] = r]
      BY <1>0, <1>3, <2>0 DEF MarkLanded
    <2>2. hs[h].tip \in Nat /\ Forced(h) \in BOOLEAN
      BY Zenon, <1>0 DEF Handler, Forced
    <2>3. LandedSHA(h) \in Nat
      BY <2>2 DEF LandedSHA
    <2>4. r \in Row
      BY <1>0, <2>0, <2>2, <2>3 DEF Row, States
    <2>5. r.head = row[c].head /\ r.state = "landed"
      BY <1>0, <2>0 DEF Row
    <2>6. RowOK(r, commits[c]) /\ r.head # 0
      BY <1>0, <2>0, <2>4, <2>5 DEF RowOK
    <2> QED
      BY <2>0, <2>1, <2>6
  <1>4. row' = row \/ PushRow(h) \/ SyncRow(h) \/ MarkAbandoned(h) \/ MarkLanded(h)
    BY Zenon DEF Act, Step, Abort, Request, Evaluate, SyncCompute, PushRef, PushRead,
       Carry, Announce, SyncRef, ApproveRecord, ReportRecord, RerunReset,
       RerunNotify, LandGate,
       LandAttempt, LandAdvance, ApproveRequest, ReportRequest, RerunRequest,
       AbandonRequest, LandRequest, git, db
  <1> QED
    BY <1>1, <1>2, <1>3, <1>4

LEMMA RowsType ==
    ASSUME Typed, NEW h \in Handlers, Act(h)
    PROVE  /\ row' \in [Changes -> Row]
           /\ \A c \in Changes : /\ RowOK(row'[c], commits'[c])
                                 /\ row[c].head # 0 => row'[c].head # 0
  <1>0. /\ row \in [Changes -> Row] /\ commits \in [Changes -> Seq(Commit)]
        /\ \A c \in Changes : RowOK(row[c], commits[c])
    BY DEF Typed, TypeOK, RowOK
  <1>1. /\ row' \in [Changes -> Row]
        /\ \A c \in Changes : /\ RowOK(row'[c], commits[c])
                              /\ row[c].head # 0 => row'[c].head # 0
    <2>1. CASE row' = row
      BY <1>0, <2>1
    <2>2. CASE row' # row
      <3>1. hs[h].change \in Changes
        BY <2>2, RowStep
      <3>2. PICK r : /\ RowOK(r, commits[hs[h].change]) /\ r.head # 0
                     /\ row' = [row EXCEPT ![hs[h].change] = r]
        BY <2>2, RowStep
      <3>3. r \in Row
        BY <3>2 DEF RowOK
      <3> QED
        BY <1>0, <3>1, <3>2, <3>3
    <2> QED
      BY <2>1, <2>2
  <1>2. \A c \in Changes : /\ Len(commits[c]) \in Nat /\ Len(commits'[c]) \in Nat
                           /\ Len(commits[c]) <= Len(commits'[c])
    BY <1>0, CommitsGrow
  <1>3. \A c \in Changes : row'[c].head \in Nat
    BY <1>1, BoundsAssumption DEF Row, Versions
  <1> QED
    BY <1>1, <1>2, <1>3 DEF RowOK
----------------------------------------------------------------------------
(* The tables, the refs and the outbox.                                    *)

LEMMA HandlerFields ==
    ASSUME Typed, NEW h \in Handlers
    PROVE  /\ hs[h].head \in Versions /\ hs[h].snap \in Row
           /\ hs[h].snap.head \in Versions /\ hs[h].verdict \in Verdicts
           /\ hs[h].tip \in Nat
           /\ hs[h].pc # "idle" => hs[h].change \in Changes
  <1>1. hs[h] \in Handler
    BY DEF Typed, TypeOK
  <1>2. hs[h].snap \in Row
    BY Zenon, <1>1 DEF Handler
  <1>3. hs[h].snap.head \in Versions
    BY <1>2 DEF Row
  <1>4. hs[h].pc # "idle" => hs[h].change \in Changes
    BY DEF Typed, Flight, FlightOf
  <1> QED
    BY Zenon, <1>1, <1>2, <1>3, <1>4 DEF Handler

LEMMA RefType ==
    ASSUME Typed, NEW h \in Handlers, Act(h)
    PROVE  ref' \in [Changes -> Versions]
  <1>1. ref \in [Changes -> Versions] /\ hs[h].head \in Versions
    BY SMTT(60), HandlerFields DEF Typed, TypeOK
  <1>2. ref' = ref \/ ref' = [ref EXCEPT ![hs[h].change] = hs[h].head]
    BY ZenonT(90) DEF Act, Step, Abort, Request, Evaluate, SyncCompute, PushRef, PushRead,
       PushRow, Carry, Announce, SyncRef, SyncRow, ApproveRecord, ReportRecord,
     RerunReset, RerunNotify,
       MarkAbandoned, LandGate, LandAttempt, LandAdvance, MarkLanded,
       ApproveRequest, ReportRequest, RerunRequest, AbandonRequest, LandRequest, git
  <1> QED
    BY <1>1, <1>2

\* The tables change by Carry, ApproveRecord, ReportRecord and RerunReset, the
\* outbox by Announce and RerunNotify.
LEMMA TableSteps ==
    ASSUME NEW h \in Handlers, Act(h)
    PROVE  /\ approvals' = approvals \/ Carry(h) \/ ApproveRecord(h)
           /\ runs' = runs \/ Carry(h) \/ ReportRecord(h) \/ RerunReset(h)
           /\ outbox' = outbox \/ Announce(h) \/ RerunNotify(h)
  <1> USE DEF Act, Step, Abort, Request, Evaluate, SyncCompute, PushRef, PushRead,
       PushRow, SyncRef, SyncRow, MarkAbandoned, LandGate, LandAttempt, LandAdvance,
       MarkLanded, ApproveRequest, ReportRequest, RerunRequest, AbandonRequest,
       LandRequest, db
  <1>1. approvals' = approvals \/ Carry(h) \/ ApproveRecord(h)
    BY Zenon DEF Announce, ReportRecord, RerunReset, RerunNotify
  <1>2. runs' = runs \/ Carry(h) \/ ReportRecord(h) \/ RerunReset(h)
    BY Zenon DEF Announce, ApproveRecord, RerunNotify
  <1>3. outbox' = outbox \/ Announce(h) \/ RerunNotify(h)
    BY Zenon DEF Carry, ApproveRecord, ReportRecord, RerunReset
  <1> QED
    BY Zenon, <1>1, <1>2, <1>3

\* What a carry-over writes for the Change and the head it is for.
LEMMA CarryWrites ==
    ASSUME NEW h \in Handlers, Carry(h)
    PROVE  \E kept \in SUBSET Owners, copied \in BOOLEAN :
              CarryOver(hs[h].change, hs[h].snap, hs[h].head, kept, copied)
  BY Zenon DEF Carry

LEMMA ApprovalsType ==
    ASSUME Typed, NEW h \in Handlers, Act(h)
    PROVE  approvals' \in [Changes -> [Owners -> Versions]]
  <1> DEFINE c == hs[h].change
  <1>0. approvals \in [Changes -> [Owners -> Versions]]
    BY DEF Typed, TypeOK
  <1>1. CASE Carry(h)
    <2>1. c \in Changes /\ hs[h].head \in Versions
      BY <1>1, HandlerFields DEF Carry, At
    <2> DEFINE new == CarriedApprovals(c, hs[h].snap, hs[h].head)
    <2>2. new \in [Owners -> Versions]
      BY <1>0, <2>1 DEF CarriedApprovals
    <2>3. PICK kept : approvals' = [approvals EXCEPT
                ![c] = [o \in Owners |-> IF o \in kept THEN new[o]
                                         ELSE approvals[c][o]]]
      BY <1>1, CarryWrites DEF CarryOver
    <2> HIDE DEF new
    <2> QED
      BY <1>0, <2>1, <2>2, <2>3
  <1>2. CASE ApproveRecord(h)
    <2>1. c \in Changes /\ hs[h].snap.head \in Versions
      BY <1>2, HandlerFields DEF ApproveRecord, At
    <2>2. approvals' = [approvals EXCEPT ![c] = [approvals[c] EXCEPT
                ![hs[h].who] = hs[h].snap.head]]
      BY <1>0, <1>2, <2>1 DEF ApproveRecord
    <2>3. [approvals[c] EXCEPT ![hs[h].who] = hs[h].snap.head]
            \in [Owners -> Versions]
      BY <1>0, <2>1
    <2> QED
      BY <1>0, <2>1, <2>2, <2>3
  <1> QED
    BY <1>0, <1>1, <1>2, TableSteps

LEMMA RunsType ==
    ASSUME Typed, NEW h \in Handlers, Act(h)
    PROVE  runs' \in [Changes -> [Versions -> [Checks -> Verdicts]]]
  <1> DEFINE c == hs[h].change
             RunsOf == [Checks -> Verdicts]
  <1>0. runs \in [Changes -> [Versions -> RunsOf]]
    BY DEF Typed, TypeOK
  <1>1. ASSUME c \in Changes, NEW n \in Versions, NEW f \in RunsOf,
               runs' = [runs EXCEPT ![c] = [runs[c] EXCEPT ![n] = f]]
        PROVE  runs' \in [Changes -> [Versions -> RunsOf]]
    <2> HIDE DEF RunsOf
    <2> QED
      BY <1>0, <1>1
  <1>2. CASE Carry(h)
    <2>1. c \in Changes /\ hs[h].head \in Versions
      BY <1>2, HandlerFields DEF Carry, At
    <2> DEFINE new == CarriedRuns(c, hs[h].snap, hs[h].head)
    <2>2. new \in RunsOf
      BY <1>0, <2>1 DEF CarriedRuns, Verdicts
    <2>3. runs' = runs \/ runs' = [runs EXCEPT ![c][hs[h].head] = new]
      BY Zenon, <1>2, CarryWrites DEF CarryOver
    <2>4. CASE runs' = [runs EXCEPT ![c][hs[h].head] = new]
      <3> HIDE DEF new
      <3>1. runs' = [runs EXCEPT ![c] = [runs[c] EXCEPT ![hs[h].head] = new]]
        BY <1>0, <2>1, <2>4
      <3> QED
        BY <1>1, <2>1, <2>2, <3>1
    <2>5. CASE runs' = runs
      BY <1>0, <2>5
    <2> HIDE DEF new
    <2> QED
      BY <2>3, <2>4, <2>5
  <1>3. CASE ReportRecord(h)
    <2>1. c \in Changes /\ hs[h].snap.head \in Versions /\ hs[h].verdict \in Verdicts
      BY <1>3, HandlerFields DEF ReportRecord, At
    <2>2. [runs[c][hs[h].snap.head] EXCEPT ![hs[h].who] = hs[h].verdict] \in RunsOf
      BY <1>0, <2>1
    <2>3. runs' = [runs EXCEPT ![c] = [runs[c] EXCEPT ![hs[h].snap.head] =
                [runs[c][hs[h].snap.head] EXCEPT ![hs[h].who] = hs[h].verdict]]]
      BY <1>0, <1>3, <2>1 DEF ReportRecord
    <2> QED
      BY <1>1, <2>1, <2>2, <2>3
  <1>4. CASE RerunReset(h)
    <2> DEFINE n == row[c].head
    <2>1. c \in Changes /\ n \in Versions
      BY <1>4, HandlerFields DEF RerunReset, At, Typed, TypeOK, Row
    <2>2. [runs[c][n] EXCEPT ![hs[h].who] = "queued"] \in RunsOf
      BY <1>0, <2>1 DEF Verdicts
    <2>3. runs' = [runs EXCEPT ![c] = [runs[c] EXCEPT ![n] =
                [runs[c][n] EXCEPT ![hs[h].who] = "queued"]]]
      BY <1>0, <1>4, <2>1 DEF RerunReset
    <2> QED
      BY Zenon, <1>1, <2>1, <2>2, <2>3
  <1> QED
    BY <1>0, <1>2, <1>3, <1>4, TableSteps

LEMMA OutboxType ==
    ASSUME Typed, NEW h \in Handlers, Act(h)
    PROVE  outbox' \subseteq Event
  <1> DEFINE c == hs[h].change
  <1>0. outbox \subseteq Event /\ Versions \subseteq Nat
    BY BoundsAssumption DEF Typed, TypeOK, Versions
  <1>1. CASE Announce(h)
    <2>1. c \in Changes /\ hs[h].head \in Versions
      BY <1>1, HandlerFields DEF Announce, At
    <2>2. Updated(c, hs[h].head) \in Event
      BY <1>0, <2>1 DEF Updated, Event
    <2> QED
      BY <1>0, <1>1, <2>2 DEF Announce, Enqueue
  <1>2. CASE RerunNotify(h)
    <2>1. c \in Changes /\ hs[h].who \in Checks
      BY <1>2 DEF RerunNotify, At, Typed, Flight, FlightOf, Rerunning
    <2>2. Rerun(c, hs[h].who) \in Event
      BY <1>0, <2>1 DEF Rerun, Event
    <2> QED
      BY <1>0, <1>2, <2>2 DEF RerunNotify, Enqueue
  <1> QED
    BY <1>0, <1>1, <1>2, TableSteps

\* A step either fails a call, within the bound, or counts none.
LEMMA FailuresType ==
    ASSUME Typed, NEW h \in Handlers, Act(h)
    PROVE  failures' \in 0 .. MaxFailures
  <1>1. ASSUME Step(h) \/ Abort(h) PROVE failures' = failures \/ CallFails
    BY Zenon, <1>1 DEF Step, Abort, PushRef, PushRead, PushRow, Carry, Announce, SyncRef,
       SyncRow, ApproveRecord, ReportRecord, RerunReset, RerunNotify, MarkAbandoned,
       LandGate, LandAttempt, LandAdvance, MarkLanded, Enqueue, Works, Drops, history
  <1>2. ASSUME NEW c \in Changes, Request(h, c) PROVE failures' = failures
    BY Zenon, <1>2 DEF Request, Evaluate, SyncCompute, ApproveRequest, ReportRequest,
       RerunRequest, AbandonRequest, LandRequest, history
  <1> QED
    BY <1>1, <1>2, BoundsAssumption DEF Act, CallFails, Typed, TypeOK
----------------------------------------------------------------------------
(* Requests in flight.                                                     *)

\* A handler that keeps what it carries keeps FlightOf.
LEMMA FlightKept ==
    ASSUME Typed, NEW h \in Handlers, Act(h), NEW g \in Handlers,
           hs'[g].pc # "idle" => hs[g].pc # "idle",
           hs'[g].change = hs[g].change, hs'[g].head = hs[g].head,
           hs'[g].snap = hs[g].snap, hs'[g].who = hs[g].who,
           hs'[g].pc \in Pushing => hs[g].pc \in Pushing,
           hs'[g].pc \in Rerunning => hs[g].pc \in Rerunning,
           hs'[g].pc \in FromRow => hs[g].pc \in FromRow
    PROVE  FlightOf(g)'
  <1> SUFFICES ASSUME hs'[g].pc # "idle" PROVE FlightOf(g)'
    BY DEF FlightOf
  <1> DEFINE c == hs[g].change
  <1>1. /\ FlightOf(g) /\ c \in Changes /\ hs[g].snap \in Row
        /\ hs[g].snap.head \in Nat /\ hs[g].head \in Nat
    BY HandlerFields, BoundsAssumption DEF Typed, Flight, FlightOf, Versions
  <1>2. /\ Len(commits[c]) \in Nat /\ Len(commits'[c]) \in Nat
        /\ Len(commits[c]) <= Len(commits'[c])
    BY <1>1, CommitsGrow DEF Typed, TypeOK
  <1>3. row[c].head # 0 => row'[c].head # 0
    BY <1>1, RowsType
  <1> QED
    BY <1>1, <1>2, <1>3 DEF FlightOf, RowOK

\* A handler that starts from the row of its Change, or from none, satisfies
\* FlightOf.
LEMMA FlightStarts ==
    ASSUME Typed, NEW h \in Handlers, Act(h), NEW c \in Changes,
           hs'[h].change = c, hs'[h].snap \in {row[c], NoRow},
           hs'[h].pc \in Pushing => hs'[h].head \in 1 .. Len(commits'[c]),
           hs'[h].pc \in Rerunning => hs'[h].who \in Checks,
           hs'[h].pc \in FromRow => hs'[h].snap = row[c] /\ row[c].head # 0
    PROVE  FlightOf(h)'
  <1>1. RowOK(row[c], commits[c]) /\ row[c].head \in Nat
    BY BoundsAssumption DEF Typed, TypeOK, RowOK, Row, Versions
  <1>2. /\ Len(commits[c]) \in Nat /\ Len(commits'[c]) \in Nat
        /\ Len(commits[c]) <= Len(commits'[c])
    BY CommitsGrow DEF Typed, TypeOK
  <1>3. row[c].head # 0 => row'[c].head # 0
    BY RowsType
  <1>4. CASE hs'[h].snap = row[c]
    BY <1>1, <1>2, <1>3, <1>4 DEF FlightOf, RowOK
  <1>5. CASE hs'[h].snap = NoRow /\ hs'[h].pc \notin FromRow
    <2>1. RowOK(NoRow, commits'[c])
      BY CommitsGrow, NoRowType
    <2>2. NoRow.head = 0
      BY DEF NoRow
    <2> QED
      BY <1>5, <2>1, <2>2 DEF FlightOf
  <1> QED
    BY <1>4, <1>5

LEMMA RequestFlight ==
    ASSUME Typed, NEW h \in Handlers, NEW c \in Changes, Request(h, c)
    PROVE  FlightOf(h)'
  <1>0. /\ Act(h) /\ hs \in [Handlers -> Handler] /\ Len(commits[c]) \in Nat
        /\ row[c].head = 0 <=> row[c].state = "none"
        /\ commits[c] \in Seq(Commit) /\ commits \in [Changes -> Seq(Commit)]
    BY DEF Act, Typed, TypeOK
  <1>1. CASE Evaluate(h, c)
    <2>1. ASSUME NEW n, n \in 1 .. Len(commits'[c]),
                 hs' = [hs EXCEPT ![h] = [Takes(c, "pushref") EXCEPT !.head = n]]
          PROVE  FlightOf(h)'
      <3>1. /\ hs'[h].change = c /\ hs'[h].snap = NoRow /\ hs'[h].head = n
            /\ hs'[h].pc = "pushref"
        BY <1>0, <2>1 DEF Takes, Idle
      <3> QED
        BY <1>0, <2>1, <3>1, FlightStarts DEF FromRow, Rerunning, Landing
    <2>2. ASSUME NEW n \in 1 .. Len(commits[c]), commits' = commits,
                 hs' = [hs EXCEPT ![h] = [Takes(c, "pushref") EXCEPT !.head = n]]
          PROVE  FlightOf(h)'
      BY <2>1, <2>2
    <2>3. ASSUME NEW e, commits' = [commits EXCEPT ![c] = Append(@, e)],
                 hs' = [hs EXCEPT ![h] = [Takes(c, "pushref") EXCEPT
                                            !.head = Len(commits[c]) + 1]]
          PROVE  FlightOf(h)'
      <3>1. commits'[c] = Append(commits[c], e)
        BY <1>0, <2>3
      <3>2. Len(commits'[c]) = Len(commits[c]) + 1
        BY <1>0, <3>1, CommitsGrow
      <3>3. Len(commits[c]) + 1 \in 1 .. Len(commits'[c])
        BY <1>0, <3>2
      <3> QED
        BY <2>1, <2>3, <3>3
    <2> QED
      BY <1>1, <2>2, <2>3 DEF Evaluate
  <1>2. CASE SyncCompute(h, c)
    <2>1. PICK e : commits' = [commits EXCEPT ![c] = Append(@, e)]
      BY <1>2 DEF SyncCompute
    <2>2. commits'[c] = Append(commits[c], e)
      BY <1>0, <2>1
    <2>3. Len(commits'[c]) \in Nat /\ Len(commits'[c]) = Len(commits[c]) + 1
      BY <1>0, <2>2, CommitsGrow
    <2>4. hs' = [hs EXCEPT ![h] = [Begin(c, "syncref") EXCEPT
                                     !.head = Len(commits[c]) + 1]]
      BY <1>2 DEF SyncCompute
    <2>5. /\ hs'[h].change = c /\ hs'[h].snap = row[c]
          /\ hs'[h].head = Len(commits[c]) + 1 /\ hs'[h].pc = "syncref"
      BY <1>0, <2>4 DEF Begin, Takes, Idle
    <2> QED
      BY SMTT(60), <1>0, <2>3, <2>5, FlightStarts DEF FromRow, Rerunning, Landing
  <1>3. ASSUME NEW pc \in FromRow \cup {"abandon"}, row[c].state # "none",
               hs'[h].change = c, hs'[h].snap = row[c], hs'[h].pc = pc
        PROVE  FlightOf(h)'
    BY <1>0, <1>3, FlightStarts DEF Pushing, FromRow, Rerunning, Landing
  <1>4. ASSUME NEW o \in Owners, ApproveRequest(h, c, o) PROVE FlightOf(h)'
    <2>1. hs'[h].change = c /\ hs'[h].snap = row[c] /\ hs'[h].pc = "approve"
      BY <1>0, <1>4 DEF ApproveRequest, Begin, Takes, Idle
    <2> QED
      BY <1>3, <1>4, <2>1 DEF ApproveRequest, FromRow
  <1>5. ASSUME NEW k \in Checks, ReportRequest(h, c, k) PROVE FlightOf(h)'
    <2>1. hs'[h].change = c /\ hs'[h].snap = row[c] /\ hs'[h].pc = "report"
      BY <1>0, <1>5 DEF ReportRequest, Begin, Takes, Idle
    <2> QED
      BY <1>3, <1>5, <2>1 DEF ReportRequest, FromRow
  <1>6. ASSUME NEW k \in Checks, RerunRequest(h, c, k) PROVE FlightOf(h)'
    <2>1. /\ hs'[h].change = c /\ hs'[h].snap = NoRow /\ hs'[h].pc = "rerun"
          /\ hs'[h].who = k
      BY <1>0, <1>6 DEF RerunRequest, Takes, Idle
    <2> QED
      BY <1>0, <2>1, FlightStarts DEF Pushing, FromRow, Landing
  <1>7. CASE AbandonRequest(h, c)
    <2>1. hs'[h].change = c /\ hs'[h].snap = row[c] /\ hs'[h].pc = "abandon"
      BY <1>0, <1>7 DEF AbandonRequest, Begin, Takes, Idle
    <2> QED
      BY <1>3, <1>7, <2>1 DEF AbandonRequest
  <1>8. ASSUME NEW force \in BOOLEAN, LandRequest(h, c, force) PROVE FlightOf(h)'
    <2>1. hs'[h].change = c /\ hs'[h].snap = row[c] /\ hs'[h].pc = "gate"
      BY SMTT(60), <1>0, <1>8 DEF LandRequest, Begin, Takes, Idle
    <2> QED
      BY <1>3, <1>8, <2>1 DEF LandRequest, FromRow, Landing
  <1> QED
    BY <1>1, <1>2, <1>4, <1>5, <1>6, <1>7, <1>8 DEF Request

LEMMA StepFlight ==
    ASSUME Typed, NEW h \in Handlers, Step(h) \/ Abort(h)
    PROVE  FlightOf(h)'
  <1>0. Act(h) /\ hs \in [Handlers -> Handler] /\ hs[h] \in Handler
    BY DEF Act, Typed, TypeOK
  <1>1. CASE Answer(h)
    BY Zenon, <1>0, <1>1 DEF Answer, Idle, FlightOf
  <1>2. ASSUME NEW pc \in PCs, hs'[h].pc = pc, hs'[h].change = hs[h].change,
               hs'[h].head = hs[h].head, hs'[h].snap = hs[h].snap,
               hs'[h].who = hs[h].who,
               \/ hs[h].pc \in Pushing /\ pc \in Pushing
               \/ hs[h].pc \in Rerunning /\ pc \in Rerunning
               \/ hs[h].pc \in Landing /\ pc \in Landing
        PROVE  FlightOf(h)'
    BY <1>0, <1>2, FlightKept DEF Pushing, FromRow, Rerunning, Landing
  <1>3. ASSUME NEW pc \in PCs, Goto(h, pc)
        PROVE  /\ hs'[h].pc = pc /\ hs'[h].change = hs[h].change
               /\ hs'[h].head = hs[h].head /\ hs'[h].snap = hs[h].snap
               /\ hs'[h].who = hs[h].who
    BY Zenon, <1>0, <1>3 DEF Goto, Handler
  <1>4. CASE PushRef(h) \/ PushRow(h) \/ SyncRow(h)
    BY <1>2, <1>3, <1>4 DEF PushRef, PushRow, SyncRow, At, Pushing, PCs
  <1>41. CASE Carry(h)
    <2>1. hs[h].pc = "carry"
      BY <1>41 DEF Carry, At
    <2> QED
      BY <1>1, <1>2, <1>3, <2>1, <1>41, CarryMoves DEF Pushing, PCs
  <1>42. CASE RerunReset(h)
    BY <1>2, <1>3, <1>42 DEF RerunReset, At, Rerunning, PCs
  <1>5. CASE SyncRef(h)
    BY <1>1, <1>2, <1>3, <1>5 DEF SyncRef, At, Pushing, PCs
  <1>6. CASE PushRead(h)
    <2>1. hs[h].change \in Changes /\ hs[h].head \in 1 .. Len(commits[hs[h].change])
      BY <1>6 DEF PushRead, At, Typed, Flight, FlightOf, Pushing
    <2>0. PICK old \in {row[hs[h].change], NoRow} :
             hs' = [hs EXCEPT ![h].snap = old, ![h].pc = "pushrow"]
      BY <1>6 DEF PushRead
    <2>2. /\ hs'[h].pc = "pushrow" /\ hs'[h].change = hs[h].change
          /\ hs'[h].head = hs[h].head /\ hs'[h].snap = old
      BY Zenon, <1>0, <2>0 DEF Handler
    <2>3. commits' = commits
      BY <1>6 DEF PushRead, git
    <2> QED
      BY <1>0, <2>1, <2>2, <2>3, FlightStarts DEF FromRow, Rerunning, Landing
  <1>7. CASE LandGate(h)
    <2>1. CASE ~Answer(h)
      <3>1. /\ hs'[h].pc = "attempt" /\ hs'[h].change = hs[h].change
            /\ hs'[h].head = hs[h].head /\ hs'[h].snap = hs[h].snap
            /\ hs'[h].who = hs[h].who
        <4> DEFINE m == Mergeable(hs[h].change, hs[h].snap.head)
        <4>1. hs' = [hs EXCEPT ![h].pc = "attempt", ![h].mergeable = m]
          BY <1>7, <2>1 DEF LandGate
        <4> HIDE DEF m
        <4> QED
          BY Zenon, <1>0, <4>1 DEF Handler
      <3> QED
        BY <1>2, <1>7, <3>1 DEF LandGate, At, Landing, PCs
    <2> QED
      BY <1>1, <2>1
  <1>8. CASE LandAttempt(h)
    <2>1. CASE ~Answer(h)
      <3>1. /\ hs'[h].pc = "advance" /\ hs'[h].change = hs[h].change
            /\ hs'[h].head = hs[h].head /\ hs'[h].snap = hs[h].snap
            /\ hs'[h].who = hs[h].who
        BY ZenonT(90), <1>0, <1>8, <2>1 DEF LandAttempt, Handler
      <3> QED
        BY <1>2, <1>8, <3>1 DEF LandAttempt, At, Landing, PCs
    <2> QED
      BY <1>1, <2>1
  <1>9. CASE LandAdvance(h)
    <2>1. CASE Goto(h, "record")
      BY <1>2, <1>3, <1>9, <2>1 DEF LandAdvance, At, Landing, PCs
    <2>2. CASE Retry(h) /\ ~Answer(h)
      <3>1. /\ hs'[h].pc = "attempt" /\ hs'[h].change = hs[h].change
            /\ hs'[h].head = hs[h].head /\ hs'[h].snap = hs[h].snap
            /\ hs'[h].who = hs[h].who
        <4> DEFINE t == hs[h].tries + 1
        <4>1. hs' = [hs EXCEPT ![h].pc = "attempt", ![h].tries = t]
          BY <2>2 DEF Retry
        <4> HIDE DEF t
        <4> QED
          BY Zenon, <1>0, <4>1 DEF Handler
      <3> QED
        BY <1>2, <1>9, <3>1 DEF LandAdvance, At, Landing, PCs
    <2> QED
      BY <1>1, <1>9, <2>1, <2>2 DEF LandAdvance
  <1> QED
    BY Zenon, <1>1, <1>4, <1>41, <1>42, <1>5, <1>6, <1>7, <1>8, <1>9
    DEF Step, Abort, Announce, ApproveRecord, ReportRecord, RerunNotify,
        MarkAbandoned, MarkLanded

LEMMA FlightStep ==
    ASSUME Typed, NEW h \in Handlers, Act(h)
    PROVE  Flight'
  <1>1. FlightOf(h)'
    BY RequestFlight, StepFlight DEF Act
  <1>2. ASSUME NEW g \in Handlers, g # h PROVE FlightOf(g)'
    <2>1. hs'[g] = hs[g]
      BY <1>2, OneHandler
    <2> QED
      BY <2>1, FlightKept
  <1> QED
    BY <1>1, <1>2 DEF Flight

----------------------------------------------------------------------------
LEMMA NextIsAct == Next => \E h \in Handlers : Act(h)
  BY DEF Next, Act

LEMMA InitTyped == Init => Typed
  <1> SUFFICES ASSUME Init PROVE Typed
    OBVIOUS
  <1>1. NoRow \in Row /\ 0 \in Versions
    BY BoundsAssumption DEF NoRow, Row, States, Versions
  <1>2. trunk \in Seq(TrunkCommit)
    <2> DEFINE seed == [change |-> NoChange, head |-> 0, onto |-> 0,
                        forced |-> FALSE]
    <2>1. seed \in TrunkCommit
      BY <1>1 DEF TrunkCommit
    <2>2. trunk = << >> \/ trunk = <<seed>>
      BY DEF Init
    <2> HIDE DEF seed
    <2>3. << >> \in Seq(TrunkCommit)
      OBVIOUS
    <2>4. <<seed>> \in Seq(TrunkCommit)
      BY <2>1
    <2> QED
      BY <2>2, <2>3, <2>4
  <1>3. commits \in [Changes -> Seq(Commit)] /\ \A c \in Changes : commits[c] = << >>
    BY DEF Init
  <1>4. hs \in [Handlers -> Handler] /\ \A h \in Handlers : hs[h] = Idle
    BY IdleType DEF Init
  <1>5. runs \in [Changes -> [Versions -> [Checks -> Verdicts]]]
    BY DEF Init, Verdicts
  <1>6. /\ row \in [Changes -> Row] /\ ref \in [Changes -> Versions]
        /\ approvals \in [Changes -> [Owners -> Versions]] /\ outbox \subseteq Event
    BY <1>1 DEF Init
  <1>7. \A c \in Changes : /\ row[c].state = "none" <=> row[c].head = 0
                           /\ row[c].head <= Len(commits[c])
                           /\ Len(commits[c]) <= MaxHeads
    <2>1. \A c \in Changes : row[c] = NoRow /\ Len(commits[c]) = 0
      BY <1>3 DEF Init
    <2>2. NoRow.state = "none" /\ NoRow.head = 0
      BY DEF NoRow
    <2> QED
      BY <2>1, <2>2, BoundsAssumption
  <1>8. Flight
    <2>0. Idle.pc = "idle"
      BY DEF Idle
    <2>1. \A h \in Handlers : hs[h].pc = "idle"
      BY <1>4, <2>0
    <2> QED
      BY <2>1 DEF Flight, FlightOf
  <1>9. failures \in 0 .. MaxFailures
    BY BoundsAssumption DEF Init
  <1> QED
    BY <1>2, <1>3, <1>4, <1>5, <1>6, <1>7, <1>8, <1>9 DEF Typed, TypeOK

LEMMA TypedStep == Typed /\ [Next]_vars => Typed'
  <1> SUFFICES ASSUME Typed, [Next]_vars PROVE Typed'
    OBVIOUS
  <1>1. CASE UNCHANGED vars
    BY <1>1 DEF vars, Typed, TypeOK, Flight, FlightOf, RowOK
  <1>2. ASSUME NEW h \in Handlers, Act(h) PROVE Typed'
    <2>1. Flight'
      BY <1>2, FlightStep
    <2>2. hs' \in [Handlers -> Handler]
      BY <1>2, OneHandler
    <2>3. row' \in [Changes -> Row] /\ \A c \in Changes : RowOK(row'[c], commits'[c])
      BY <1>2, RowsType
    <2>4. /\ commits' \in [Changes -> Seq(Commit)]
          /\ \A c \in Changes : Len(commits'[c]) <= MaxHeads
      BY <1>2, CommitsGrow
    <2>5. trunk' \in Seq(TrunkCommit) /\ ref' \in [Changes -> Versions]
      BY <1>2, TrunkType, RefType
    <2>6. /\ approvals' \in [Changes -> [Owners -> Versions]]
          /\ runs' \in [Changes -> [Versions -> [Checks -> Verdicts]]]
          /\ outbox' \subseteq Event /\ failures' \in 0 .. MaxFailures
      BY <1>2, ApprovalsType, RunsType, OutboxType, FailuresType
    <2> QED
      BY <2>1, <2>2, <2>3, <2>4, <2>5, <2>6 DEF Typed, TypeOK, RowOK
  <1> QED
    BY <1>1, <1>2, NextIsAct

\* In every state a request can reach, the tables, the refs and what the
\* requests in flight carry have their types, and the head of an existing row
\* is a version git holds (CreateOrUpdateChange, GetChange snapshots).
THEOREM TypeCorrect == Spec => []TypeOK
  <1>1. Spec => []Typed
    BY InitTyped, TypedStep, PTL DEF Spec
  <1>2. Typed => TypeOK
    BY DEF Typed
  <1> QED
    BY <1>1, <1>2, PTL

----------------------------------------------------------------------------
(* The evidence behind a land.  Every approval is for a version whose      *)
(* content its owner was shown, every passing run is on a version whose    *)
(* content passed; a handler past the gate has that evidence for the       *)
(* version of its snapshot, and the commits it put on trunk had it.        *)

Shown(c, n, o) == <<c, Delta(c, n), o>> \in reviewed
Passed(c, n, k) == <<c, Delta(c, n), k>> \in tested

Vouched(c, n) == /\ c \in Changes /\ n \in 1 .. Len(commits[c])
                 /\ \A o \in Owners : Shown(c, n, o)
                 /\ PromptCI => \A k \in Checks : Passed(c, n, k)

ApprovalsShown ==
    \A c \in Changes, o \in Owners : approvals[c][o] # 0 =>
        approvals[c][o] \in 1 .. Len(commits[c]) /\ Shown(c, approvals[c][o], o)

RunsPassed ==
    \A c \in Changes, n \in Versions, k \in Checks : runs[c][n][k] = "passed" =>
        n \in 1 .. Len(commits[c]) /\ (PromptCI => Passed(c, n, k))

EvidenceOf(h) ==
    LET c == hs[h].change
        n == hs[h].snap.head
    IN  /\ At(h, "approve") => Shown(c, n, hs[h].who)
        /\ (PromptCI /\ At(h, "report") /\ hs[h].verdict = "passed") =>
              Passed(c, n, hs[h].who)
        /\ (At(h, "attempt") \/ At(h, "advance")) =>
              /\ hs[h].force \/ hs[h].mergeable
              /\ hs[h].mergeable => Vouched(c, n)

TrunkVouched == \A i \in Gated : Vouched(trunk[i].change, trunk[i].head)

Evidence == /\ Typed /\ ApprovalsShown /\ RunsPassed /\ TrunkVouched
            /\ \A h \in Handlers : EvidenceOf(h)

\* A handler about to record its land has put exactly that commit on trunk.
RecordOf(h) ==
    At(h, "record") =>
        /\ LandedSHA(h) \in 1 .. Len(trunk)
        /\ trunk[LandedSHA(h)].change = hs[h].change
        /\ trunk[LandedSHA(h)].forced = Forced(h)

Recorded == /\ Typed /\ LinearTrunk /\ LandedIsOnTrunk
            /\ \A h \in Handlers : RecordOf(h)
----------------------------------------------------------------------------
(* What never shrinks.                                                     *)

LEMMA HistoryGrows ==
    ASSUME NEW h \in Handlers, Act(h)
    PROVE  reviewed \subseteq reviewed' /\ tested \subseteq tested'
  <1>1. ASSUME Step(h) \/ Abort(h) PROVE UNCHANGED evidence
    BY ZenonT(90), <1>1 DEF Step, Abort, PushRef, PushRead, PushRow, Carry, Announce,
       SyncRef, SyncRow, ApproveRecord, ReportRecord, RerunReset, RerunNotify,
       MarkAbandoned, LandGate, LandAttempt, LandAdvance, MarkLanded, history, evidence
  <1>2. ASSUME NEW c \in Changes, Request(h, c)
        PROVE  reviewed \subseteq reviewed' /\ tested \subseteq tested'
    BY ZenonT(90), <1>2 DEF Request, Evaluate, SyncCompute, ApproveRequest,
       ReportRequest, RerunRequest, AbandonRequest, LandRequest, history
  <1> QED
    BY <1>1, <1>2 DEF Act, evidence

LEMMA DeltaKept ==
    ASSUME Typed, NEW h \in Handlers, Act(h), NEW c \in Changes,
           NEW n \in 1 .. Len(commits[c])
    PROVE  Delta(c, n)' = Delta(c, n) /\ n \in 1 .. Len(commits'[c])
  <1>1. /\ commits'[c][n] = commits[c][n] /\ Len(commits[c]) \in Nat
        /\ Len(commits'[c]) \in Nat /\ Len(commits[c]) <= Len(commits'[c])
    BY CommitsGrow DEF Typed, TypeOK
  <1> QED
    BY <1>1 DEF Delta

LEMMA ShownKept ==
    ASSUME Typed, NEW h \in Handlers, Act(h), NEW c \in Changes,
           NEW n \in 1 .. Len(commits[c]), NEW o, Shown(c, n, o)
    PROVE  Shown(c, n, o)'
  BY DeltaKept, HistoryGrows DEF Shown

LEMMA PassedKept ==
    ASSUME Typed, NEW h \in Handlers, Act(h), NEW c \in Changes,
           NEW n \in 1 .. Len(commits[c]), NEW k, Passed(c, n, k)
    PROVE  Passed(c, n, k)'
  BY DeltaKept, HistoryGrows DEF Passed

LEMMA VouchedKept ==
    ASSUME Typed, NEW h \in Handlers, Act(h), NEW c, NEW n, Vouched(c, n)
    PROVE  Vouched(c, n)'
  <1>1. c \in Changes /\ n \in 1 .. Len(commits[c])
    BY DEF Vouched
  <1>2. n \in 1 .. Len(commits'[c])
    BY <1>1, DeltaKept
  <1>3. \A o \in Owners : Shown(c, n, o)'
    BY <1>1, ShownKept DEF Vouched
  <1>4. PromptCI => \A k \in Checks : Passed(c, n, k)'
    BY <1>1, PassedKept DEF Vouched
  <1> QED
    BY <1>1, <1>2, <1>3, <1>4 DEF Vouched

\* The version of a snapshot that was a row is one git holds.
LEMMA SnapVersion ==
    ASSUME Typed, NEW h \in Handlers, hs[h].pc \in FromRow
    PROVE  hs[h].change \in Changes /\ hs[h].snap.head \in 1 .. Len(commits[hs[h].change])
  <1>1. hs[h].pc # "idle"
    BY DEF FromRow, Landing
  <1>2. /\ hs[h].change \in Changes /\ hs[h].snap.head # 0
        /\ hs[h].snap.head <= Len(commits[hs[h].change])
    BY <1>1 DEF Typed, Flight, FlightOf, RowOK
  <1>3. hs[h].snap.head \in Nat /\ Len(commits[hs[h].change]) \in Nat
    BY <1>2, HandlerFields, BoundsAssumption DEF Versions, Typed, TypeOK
  <1> QED
    BY <1>2, <1>3

----------------------------------------------------------------------------
(* Approvals and check runs.                                               *)

LEMMA ApprovalsStep ==
    ASSUME Evidence, NEW h \in Handlers, Act(h)
    PROVE  ApprovalsShown'
  <1> SUFFICES ASSUME NEW c \in Changes, NEW o \in Owners, NEW m,
                      m = approvals'[c][o], m # 0
               PROVE  m \in 1 .. Len(commits'[c]) /\ Shown(c, m, o)'
    BY DEF ApprovalsShown, Shown, Delta
  <1> DEFINE n == hs[h].head
             old == hs[h].snap
  <1>0. Typed /\ approvals \in [Changes -> [Owners -> Versions]]
    BY DEF Evidence, Typed, TypeOK
  <1>1. CASE approvals'[c][o] = approvals[c][o]
    <2>1. approvals[c][o] \in 1 .. Len(commits[c]) /\ Shown(c, approvals[c][o], o)
      BY <1>1 DEF Evidence, ApprovalsShown
    <2> QED
      BY <1>0, <1>1, <2>1, ShownKept, DeltaKept
  <1>2. CASE Carry(h) /\ c = hs[h].change /\ approvals'[c][o] # approvals[c][o]
    <2> DEFINE d == hs[h].change
    <2>0. PICK kept : approvals' = [approvals EXCEPT ![d] =
              [p \in Owners |-> IF p \in kept THEN CarriedApprovals(d, old, n)[p]
                                ELSE approvals[d][p]]]
      BY Zenon, <1>2, CarryWrites DEF CarryOver
    <2>1. /\ approvals'[c][o] = n /\ approvals[c][o] = old.head
          /\ TrivialRebaseOf(c, old, n)
      BY <1>0, <1>2, <2>0 DEF CarriedApprovals
    <2>2. Delta(c, old.head) = Delta(c, n) /\ old.head # 0
      BY <2>1 DEF TrivialRebaseOf
    <2>3. Shown(c, n, o)
      BY <2>1, <2>2 DEF Evidence, ApprovalsShown, Shown
    <2>4. n \in 1 .. Len(commits[c])
      BY <1>0, <1>2 DEF Carry, At, Typed, Flight, FlightOf, Pushing
    <2> QED
      BY <1>0, <2>1, <2>3, <2>4, ShownKept, DeltaKept
  <1>3. CASE /\ ApproveRecord(h) /\ c = hs[h].change /\ o = hs[h].who
             /\ approvals'[c][o] # approvals[c][o]
    <2>1. approvals'[c][o] = old.head
      BY <1>0, <1>3 DEF ApproveRecord
    <2>2. Shown(c, old.head, o)
      BY <1>3 DEF ApproveRecord, Evidence, EvidenceOf
    <2>3. old.head \in 1 .. Len(commits[c])
      BY <1>0, <1>3, SnapVersion DEF ApproveRecord, At, FromRow
    <2> QED
      BY <1>0, <2>1, <2>2, <2>3, ShownKept, DeltaKept
  <1>4. CASE Carry(h)
    <2>1. c = hs[h].change \/ approvals'[c] = approvals[c]
      BY <1>0, <1>4, CarryWrites DEF CarryOver
    <2> QED
      BY <1>1, <1>2, <1>4, <2>1
  <1>5. CASE ApproveRecord(h)
    <2>1. hs[h].change \in Changes
      BY <1>0, <1>5, HandlerFields DEF ApproveRecord, At
    <2>2. approvals' = [approvals EXCEPT ![hs[h].change] =
              [approvals[hs[h].change] EXCEPT ![hs[h].who] = old.head]]
      BY <1>0, <1>5, <2>1 DEF ApproveRecord
    <2>3. \/ approvals'[c][o] = approvals[c][o]
          \/ c = hs[h].change /\ o = hs[h].who
      BY <1>0, <2>1, <2>2
    <2> QED
      BY <1>1, <1>3, <1>5, <2>3
  <1> QED
    BY <1>1, <1>4, <1>5, TableSteps

LEMMA RunsStep ==
    ASSUME Evidence, NEW h \in Handlers, Act(h)
    PROVE  RunsPassed'
  <1> SUFFICES ASSUME NEW c \in Changes, NEW m \in Versions, NEW k \in Checks,
                      runs'[c][m][k] = "passed"
               PROVE  m \in 1 .. Len(commits'[c]) /\ (PromptCI => Passed(c, m, k)')
    BY DEF RunsPassed, Passed, Delta
  <1> DEFINE n == hs[h].head
             old == hs[h].snap
  <1>0. Typed /\ runs \in [Changes -> [Versions -> [Checks -> Verdicts]]]
    BY DEF Evidence, Typed, TypeOK
  <1>1. CASE runs[c][m][k] = "passed"
    <2>1. m \in 1 .. Len(commits[c]) /\ (PromptCI => Passed(c, m, k))
      BY <1>1 DEF Evidence, RunsPassed
    <2> QED
      BY <1>0, <2>1, PassedKept, DeltaKept
  <1>2. CASE Carry(h) /\ runs[c][m][k] # "passed"
    <2>0. hs[h].change \in Changes /\ n \in 1 .. Len(commits[hs[h].change])
      BY <1>0, <1>2 DEF Carry, At, Typed, Flight, FlightOf, Pushing
    <2>00. n \in Versions
      BY <1>0, HandlerFields
    <2>01. runs' = runs \/ runs' = [runs EXCEPT ![hs[h].change][n] =
                                     CarriedRuns(hs[h].change, old, n)]
      BY Zenon, <1>2, CarryWrites DEF CarryOver
    <2>1. runs' = [runs EXCEPT ![hs[h].change] =
              [runs[hs[h].change] EXCEPT ![n] = CarriedRuns(hs[h].change, old, n)]]
      BY <1>0, <1>2, <2>0, <2>01
    <2>2. /\ c = hs[h].change /\ m = n
          /\ CarriedRuns(c, old, n)[k] = "passed"
      BY <1>0, <1>2, <2>0, <2>00, <2>1
    <2>3. TrivialRebaseOf(c, old, n) /\ runs[c][old.head][k] = "passed"
      BY <1>0, <1>2, <2>2 DEF CarriedRuns
    <2>4. Delta(c, old.head) = Delta(c, n)
      BY <2>3 DEF TrivialRebaseOf
    <2>5. old.head \in Versions
      BY <1>0, HandlerFields
    <2>6. PromptCI => Passed(c, n, k)
      BY <2>3, <2>4, <2>5 DEF Evidence, RunsPassed, Passed
    <2> QED
      BY <1>0, <2>0, <2>2, <2>6, PassedKept, DeltaKept
  <1>3. CASE ReportRecord(h) /\ runs[c][m][k] # "passed"
    <2>0. hs[h].change \in Changes /\ old.head \in 1 .. Len(commits[hs[h].change])
      BY SMTT(120), <1>0, <1>3, SnapVersion DEF ReportRecord, At, FromRow
    <2>1. old.head \in Versions
      BY <1>0, HandlerFields
    <2>2. runs' = [runs EXCEPT ![hs[h].change] = [runs[hs[h].change] EXCEPT
              ![old.head] = [runs[hs[h].change][old.head] EXCEPT
                                ![hs[h].who] = hs[h].verdict]]]
      BY SMTT(120), <1>0, <1>3, <2>0, <2>1 DEF ReportRecord
    <2>3. /\ c = hs[h].change /\ m = old.head /\ k = hs[h].who
          /\ hs[h].verdict = "passed"
      BY SMTT(120), <1>0, <1>3, <2>0, <2>1, <2>2
    <2>4. PromptCI => Passed(c, m, k)
      BY SMTT(60), <1>3, <2>3 DEF Evidence, EvidenceOf, ReportRecord
    <2> QED
      BY SMTT(60), <1>0, <2>0, <2>3, <2>4, PassedKept, DeltaKept
  <1>4. CASE RerunReset(h) /\ runs[c][m][k] # "passed"
    <2> DEFINE d == hs[h].change
    <2>0. d \in Changes /\ row[d].head \in Versions
      BY SMTT(60), <1>0, <1>4, HandlerFields DEF RerunReset, At, Typed, TypeOK, Row
    <2>1. runs' = [runs EXCEPT ![d] = [runs[d] EXCEPT ![row[d].head] =
              [runs[d][row[d].head] EXCEPT ![hs[h].who] = "queued"]]]
      BY <1>0, <1>4, <2>0 DEF RerunReset
    <2> QED
      BY <1>0, <1>4, <2>0, <2>1
  <1> QED
    BY <1>1, <1>2, <1>3, <1>4, TableSteps
----------------------------------------------------------------------------
(* The requests in flight.                                                 *)

\* The handlers that carry evidence.
Carrying == {"approve", "report", "attempt", "advance"}

\* A handler that moves carries evidence only after these steps.
LEMMA CarryingStep ==
    ASSUME Typed, NEW h \in Handlers, Act(h), hs'[h].pc \in Carrying
    PROVE  \/ \E c \in Changes, o \in Owners : ApproveRequest(h, c, o)
           \/ \E c \in Changes, k \in Checks : ReportRequest(h, c, k)
           \/ LandGate(h) \/ LandAttempt(h)
           \/ LandAdvance(h) /\ Retry(h)
  <1>0. hs \in [Handlers -> Handler] /\ hs[h] \in Handler
    BY DEF Typed, TypeOK
  <1>1. CASE Answer(h)
    <2>1. hs'[h] = Idle
      BY <1>0, <1>1 DEF Answer
    <2>2. Idle.pc = "idle"
      BY DEF Idle
    <2> QED
      BY <2>1, <2>2 DEF Carrying
  <1>2. ASSUME NEW pc \in {"pushread", "carry", "syncrow", "record", "announce", "notify"},
               Goto(h, pc)
        PROVE  FALSE
    <2>1. hs'[h].pc = pc
      BY Zenon, <1>0, <1>2 DEF Goto, Handler
    <2> QED
      BY <2>1 DEF Carrying
  <1>3. CASE PushRead(h)
    <2>0. PICK old : hs' = [hs EXCEPT ![h].snap = old, ![h].pc = "pushrow"]
      BY <1>3 DEF PushRead
    <2>1. hs'[h].pc = "pushrow"
      BY Zenon, <1>0, <2>0 DEF Handler
    <2> QED
      BY <2>1 DEF Carrying
  <1>4. ASSUME NEW c \in Changes, Evaluate(h, c) PROVE FALSE
    <2>1. hs'[h].pc = "pushref"
      BY ZenonT(90), <1>0, <1>4 DEF Evaluate, Begin, Takes, Idle
    <2> QED
      BY <2>1 DEF Carrying
  <1>5. ASSUME NEW c \in Changes, SyncCompute(h, c) PROVE FALSE
    <2>1. hs'[h].pc = "syncref"
      BY <1>0, <1>5 DEF SyncCompute, Begin, Takes, Idle
    <2> QED
      BY <2>1 DEF Carrying
  <1>6. ASSUME NEW c \in Changes, NEW k \in Checks, RerunRequest(h, c, k)
        PROVE  FALSE
    <2>1. hs'[h].pc = "rerun"
      BY <1>0, <1>6 DEF RerunRequest, Begin, Takes, Idle
    <2> QED
      BY <2>1 DEF Carrying
  <1>7. ASSUME NEW c \in Changes, AbandonRequest(h, c) PROVE FALSE
    <2>1. hs'[h].pc = "abandon"
      BY <1>0, <1>7 DEF AbandonRequest, Begin, Takes, Idle
    <2> QED
      BY <2>1 DEF Carrying
  <1>8. ASSUME NEW c \in Changes, NEW force \in BOOLEAN, LandRequest(h, c, force)
        PROVE  FALSE
    <2>1. hs'[h].pc = "gate"
      BY <1>0, <1>8 DEF LandRequest, Begin, Takes, Idle
    <2> QED
      BY <2>1 DEF Carrying
  <1>9. CASE Step(h) \/ Abort(h)
    BY ZenonT(90), <1>1, <1>2, <1>3, <1>9, CarryMoves DEF Step, Abort, PushRef, PushRow,
       Announce, SyncRef, SyncRow, ApproveRecord, ReportRecord, RerunReset, RerunNotify,
       MarkAbandoned, LandAdvance, MarkLanded
  <1> QED
    BY <1>4, <1>5, <1>6, <1>7, <1>8, <1>9 DEF Act, Request

\* A handler that is left alone keeps its evidence.
LEMMA EvidenceKept ==
    ASSUME Evidence, NEW h \in Handlers, Act(h), NEW g \in Handlers,
           hs'[g] = hs[g]
    PROVE  EvidenceOf(g)'
  <1> DEFINE c == hs[g].change
             n == hs[g].snap.head
  <1>0. Typed /\ EvidenceOf(g)
    BY DEF Evidence
  <1>1. hs[g].pc \in Carrying => c \in Changes /\ n \in 1 .. Len(commits[c])
    BY <1>0, SnapVersion DEF Carrying, FromRow, Landing
  <1>2. At(g, "approve") => Shown(c, n, hs[g].who)'
    BY <1>0, <1>1, ShownKept DEF EvidenceOf, At, Carrying
  <1>3. (PromptCI /\ At(g, "report") /\ hs[g].verdict = "passed") =>
            Passed(c, n, hs[g].who)'
    BY <1>0, <1>1, PassedKept DEF EvidenceOf, At, Carrying
  <1>4. (At(g, "attempt") \/ At(g, "advance")) =>
            /\ hs[g].force \/ hs[g].mergeable
            /\ hs[g].mergeable => Vouched(c, n)'
    BY <1>0, VouchedKept DEF EvidenceOf
  <1> QED
    BY <1>2, <1>3, <1>4 DEF EvidenceOf, At, Shown, Passed, Vouched, Delta

\* The merge gate lets through only what is vouched for.
LEMMA MergeableIsVouched ==
    ASSUME Evidence, NEW c \in Changes, NEW n \in 1 .. Len(commits[c]),
           Mergeable(c, n)
    PROVE  Vouched(c, n)
  <1>1. n # 0 /\ n \in Versions
    <2>1. MaxHeads \in Nat /\ Len(commits[c]) \in Nat /\ Len(commits[c]) <= MaxHeads
      BY BoundsAssumption DEF Evidence, Typed, TypeOK
    <2> QED
      BY <2>1 DEF Versions
  <1>2. \A o \in Owners : Shown(c, n, o)
    BY <1>1 DEF Mergeable, Evidence, ApprovalsShown
  <1>3. PromptCI => \A k \in Checks : Passed(c, n, k)
    BY <1>1 DEF Mergeable, Evidence, RunsPassed
  <1> QED
    BY <1>2, <1>3 DEF Vouched

\* A handler that reaches the attempt or the advance has passed the gate.
LEMMA EvidenceMoves ==
    ASSUME Evidence, NEW h \in Handlers, Act(h)
    PROVE  EvidenceOf(h)'
  <1>0. /\ Typed /\ EvidenceOf(h) /\ hs \in [Handlers -> Handler]
        /\ hs[h] \in Handler
    BY DEF Evidence, Typed, TypeOK
  <1>1. CASE hs'[h].pc \notin Carrying
    BY <1>1 DEF EvidenceOf, At, Carrying
  <1>2. ASSUME NEW c \in Changes, NEW o \in Owners, ApproveRequest(h, c, o)
        PROVE  EvidenceOf(h)'
    <2>1. /\ hs'[h].pc = "approve" /\ hs'[h].change = c
          /\ hs'[h].snap = row[c] /\ hs'[h].who = o
      BY <1>0, <1>2 DEF ApproveRequest, Begin, Takes, Idle
    <2>2. /\ commits' = commits
          /\ reviewed' = reviewed \cup {<<c, Delta(c, row[c].head), o>>}
      BY <1>2 DEF ApproveRequest, git
    <2> QED
      BY <2>1, <2>2 DEF EvidenceOf, At, Shown, Delta
  <1>3. ASSUME NEW c \in Changes, NEW k \in Checks, ReportRequest(h, c, k)
        PROVE  EvidenceOf(h)'
    <2>1. PICK v \in {"failed", "passed"}, t \in 1 .. Len(commits[c]) :
             /\ PromptCI => t = row[c].head
             /\ hs' = [hs EXCEPT ![h] = [Begin(c, "report") EXCEPT
                                           !.who = k, !.verdict = v]]
             /\ tested' = IF v = "passed"
                          THEN tested \cup {<<c, Delta(c, t), k>>} ELSE tested
      BY Zenon, <1>3 DEF ReportRequest
    <2>2. /\ hs'[h].pc = "report" /\ hs'[h].change = c
          /\ hs'[h].snap = row[c] /\ hs'[h].who = k /\ hs'[h].verdict = v
      BY <1>0, <2>1 DEF Begin, Takes, Idle
    <2>3. commits' = commits
      BY <1>3 DEF ReportRequest, git
    <2>4. PICK n : n = row[c].head
      OBVIOUS
    <2>5. (PromptCI /\ v = "passed") => Passed(c, n, k)'
      BY <2>1, <2>3, <2>4 DEF Passed, Delta
    <2> QED
      BY <2>2, <2>4, <2>5 DEF EvidenceOf, At, Passed, Delta
  <1>4. CASE LandGate(h) /\ hs'[h].pc \in Carrying
    <2>0. PICK c, n : c = hs[h].change /\ n = hs[h].snap.head
      OBVIOUS
    <2> DEFINE m == Mergeable(c, n)
    <2>1. c \in Changes /\ n \in 1 .. Len(commits[c])
      BY <1>0, <1>4, <2>0, SnapVersion DEF LandGate, At, FromRow, Landing
    <2>2. ASSUME m PROVE Vouched(c, n)'
      <3>1. Vouched(c, n)
        BY <2>1, <2>2, MergeableIsVouched
      <3> QED
        BY <1>0, <3>1, VouchedKept
    <2>3. ~Answer(h)
      <3>1. Idle.pc = "idle"
        BY DEF Idle
      <3> QED
        BY <1>0, <1>4, <3>1 DEF Answer, Carrying
    <2>4. /\ m \/ hs[h].force
          /\ hs' = [hs EXCEPT ![h].pc = "attempt", ![h].mergeable = m]
      BY <1>4, <2>0, <2>3 DEF LandGate
    <2> HIDE DEF m
    <2>5. /\ hs'[h].pc = "attempt" /\ hs'[h].mergeable = m
          /\ hs'[h].change = c /\ hs'[h].snap = hs[h].snap
          /\ hs'[h].force = hs[h].force
      BY ZenonT(90), <1>0, <2>0, <2>4 DEF Handler
    <2> QED
      BY Zenon, <2>0, <2>2, <2>4, <2>5 DEF EvidenceOf, At, Vouched, Shown, Passed, Delta
  <1>5. CASE /\ hs'[h].pc \in Carrying
             /\ LandAttempt(h) \/ (LandAdvance(h) /\ Retry(h))
    <2>0. PICK c, n : c = hs[h].change /\ n = hs[h].snap.head
      OBVIOUS
    <2>1. hs[h].pc \in {"attempt", "advance"}
      BY <1>5 DEF LandAttempt, LandAdvance, At
    <2>2. /\ hs[h].force \/ hs[h].mergeable
          /\ hs[h].mergeable => Vouched(c, n)'
      BY <1>0, <2>0, <2>1, VouchedKept DEF EvidenceOf, At
    <2>3. ~Answer(h)
      <3>1. Idle.pc = "idle"
        BY DEF Idle
      <3> QED
        BY <1>0, <1>5, <3>1 DEF Answer, Carrying
    <2>4. /\ hs'[h].pc \in {"attempt", "advance"}
          /\ hs'[h].mergeable = hs[h].mergeable
          /\ hs'[h].change = c /\ hs'[h].snap = hs[h].snap
          /\ hs'[h].force = hs[h].force
      <3>1. CASE LandAttempt(h)
        <4> DEFINE t == Len(trunk)
        <4>1. hs' = [hs EXCEPT ![h].pc = "advance", ![h].tip = t]
          BY <2>3, <3>1 DEF LandAttempt
        <4> HIDE DEF t
        <4> QED
          BY Zenon, <1>0, <2>0, <4>1 DEF Handler
      <3>2. CASE Retry(h)
        <4> DEFINE t == hs[h].tries + 1
        <4>1. hs' = [hs EXCEPT ![h].pc = "attempt", ![h].tries = t]
          BY <2>3, <3>2 DEF Retry
        <4> HIDE DEF t
        <4> QED
          BY Zenon, <1>0, <2>0, <4>1 DEF Handler
      <3> QED
        BY <1>5, <3>1, <3>2
    <2> QED
      BY <2>0, <2>2, <2>4 DEF EvidenceOf, At, Vouched, Shown, Passed, Delta
  <1> QED
    BY <1>0, <1>1, <1>2, <1>3, <1>4, <1>5, CarryingStep

----------------------------------------------------------------------------
(* Trunk.                                                                  *)

\* How trunk grows, entry by entry.
LEMMA TrunkEntries ==
    ASSUME Typed, NEW h \in Handlers, Act(h), NEW i \in 1 .. Len(trunk')
    PROVE  \/ i \in 1 .. Len(trunk) /\ trunk'[i] = trunk[i]
           \/ /\ LandAdvance(h) /\ TipUnmoved(h) /\ i = Len(trunk) + 1
              /\ trunk'[i] = [change |-> hs[h].change, head |-> hs[h].snap.head,
                              onto |-> hs[h].tip, forced |-> Forced(h)]
  <1>1. trunk \in Seq(TrunkCommit) /\ Len(trunk) \in Nat
    BY DEF Typed, TypeOK
  <1>2. CASE trunk' = trunk
    BY <1>2
  <1>3. CASE trunk' # trunk
    <2> DEFINE e == [change |-> hs[h].change, head |-> hs[h].snap.head,
                     onto |-> hs[h].tip, forced |-> Forced(h)]
    <2>1. LandAdvance(h) /\ TipUnmoved(h) /\ trunk' = Append(trunk, e)
      BY <1>3, TrunkStep
    <2>2. e \in TrunkCommit
      BY <2>1, NewTrunkCommit DEF LandAdvance
    <2> HIDE DEF e
    <2>3. \/ i \in 1 .. Len(trunk) /\ trunk'[i] = trunk[i]
          \/ i = Len(trunk) + 1 /\ trunk'[i] = e
      BY <1>1, <2>1, <2>2
    <2> QED
      BY <2>1, <2>3 DEF e
  <1> QED
    BY <1>2, <1>3

LEMMA TrunkVouchedStep ==
    ASSUME Evidence, NEW h \in Handlers, Act(h)
    PROVE  TrunkVouched'
  <1> SUFFICES ASSUME NEW i \in 1 .. Len(trunk'), trunk'[i].change # NoChange,
                      ~trunk'[i].forced, NEW c, c = trunk'[i].change,
                      NEW n, n = trunk'[i].head
               PROVE  Vouched(c, n)'
    BY DEF TrunkVouched, Gated, Vouched, Shown, Passed, Delta
  <1>0. Typed /\ EvidenceOf(h)
    BY DEF Evidence
  <1>1. CASE i \in 1 .. Len(trunk) /\ trunk'[i] = trunk[i]
    <2>1. i \in Gated
      BY <1>1 DEF Gated
    <2>2. Vouched(c, n)
      BY <1>1, <2>1 DEF Evidence, TrunkVouched
    <2> QED
      BY <1>0, <2>2, VouchedKept
  <1>2. CASE /\ LandAdvance(h)
             /\ trunk'[i] = [change |-> hs[h].change, head |-> hs[h].snap.head,
                             onto |-> hs[h].tip, forced |-> Forced(h)]
    <2>1. c = hs[h].change /\ n = hs[h].snap.head /\ ~Forced(h)
      BY <1>2
    <2>2. hs[h].mergeable /\ Vouched(c, n)
      BY <1>0, <1>2, <2>1 DEF LandAdvance, EvidenceOf, Forced
    <2> QED
      BY <1>0, <2>2, VouchedKept
  <1> QED
    BY <1>0, <1>1, <1>2, TrunkEntries

LEMMA InitEvidence == Init => Evidence
  <1> SUFFICES ASSUME Init PROVE Evidence
    OBVIOUS
  <1>1. Typed
    BY InitTyped
  <1>2. ApprovalsShown
    BY DEF Init, ApprovalsShown
  <1>3. RunsPassed
    BY DEF Init, RunsPassed
  <1>4. TrunkVouched
    BY DEF Init, TrunkVouched, Gated
  <1>5. ASSUME NEW h \in Handlers PROVE EvidenceOf(h)
    <2>1. hs[h] = Idle /\ Idle.pc = "idle"
      BY Zenon DEF Init, Idle
    <2> QED
      BY <2>1 DEF EvidenceOf, At
  <1> QED
    BY <1>1, <1>2, <1>3, <1>4, <1>5 DEF Evidence

LEMMA EvidenceStep == Evidence /\ [Next]_vars => Evidence'
  <1> SUFFICES ASSUME Evidence, [Next]_vars PROVE Evidence'
    OBVIOUS
  <1>0. Typed'
    BY SMTT(60), TypedStep DEF Evidence
  <1>1. CASE UNCHANGED vars
    BY <1>0, <1>1 DEF vars, Evidence, ApprovalsShown, RunsPassed, TrunkVouched,
       EvidenceOf, Gated, Vouched, Shown, Passed, Delta, At
  <1>2. ASSUME NEW h \in Handlers, Act(h) PROVE Evidence'
    <2>1. ASSUME NEW g \in Handlers PROVE EvidenceOf(g)'
      <3>1. CASE g = h
        BY <1>2, <3>1, EvidenceMoves
      <3>2. CASE g # h
        <4>1. hs'[g] = hs[g]
          BY <1>2, <3>2, OneHandler DEF Evidence
        <4> QED
          BY <1>2, <4>1, EvidenceKept
      <3> QED
        BY <3>1, <3>2
    <2> QED
      BY <1>0, <1>2, <2>1, ApprovalsStep, RunsStep, TrunkVouchedStep DEF Evidence
  <1> QED
    BY <1>1, <1>2, NextIsAct

\* No owner is bypassed: whatever pushes, amends, syncs, approvals and landers
\* interleave, and wherever requests fail, the content of every unforced trunk
\* commit was shown to every required owner (approveChangeCore's head-bound
\* approvals, carryForwardTrivialRebase, the gate of landChangeCore).
THEOREM OwnersSeeWhatLands == Spec => []ReviewedLands
  <1>1. Spec => []Evidence
    BY InitEvidence, EvidenceStep, PTL DEF Spec
  <1>2. Evidence => ReviewedLands
    BY DEF Evidence, TrunkVouched, Vouched, Shown, ReviewedLands
  <1> QED
    BY <1>1, <1>2, PTL

\* No check is bypassed while CI reports on the current head only: the content
\* of every unforced trunk commit passed every required check
\* (handlePostCheck, CopyPassingCheckRuns, the gate of landChangeCore).
THEOREM ChecksPassWhatLands == ASSUME PromptCI PROVE Spec => []TestedLands
  <1>1. Spec => []Evidence
    BY InitEvidence, EvidenceStep, PTL DEF Spec
  <1>2. Evidence => TestedLands
    BY DEF Evidence, TrunkVouched, Vouched, Passed, TestedLands
  <1> QED
    BY <1>1, <1>2, PTL

----------------------------------------------------------------------------
(* What a landed row names.                                                *)

LEMMA LinearStep ==
    ASSUME Recorded, NEW h \in Handlers, Act(h)
    PROVE  LinearTrunk'
  <1> SUFFICES ASSUME NEW i \in 1 .. Len(trunk') PROVE trunk'[i].onto = i - 1
    BY DEF LinearTrunk
  <1>0. Typed /\ Len(trunk) \in Nat /\ hs[h].tip \in Nat
    BY HandlerFields DEF Recorded, Typed, TypeOK
  <1>1. CASE i \in 1 .. Len(trunk) /\ trunk'[i] = trunk[i]
    BY <1>1 DEF Recorded, LinearTrunk
  <1>2. CASE /\ TipUnmoved(h) /\ i = Len(trunk) + 1
             /\ trunk'[i] = [change |-> hs[h].change, head |-> hs[h].snap.head,
                             onto |-> hs[h].tip, forced |-> Forced(h)]
    BY <1>0, <1>2 DEF TipUnmoved
  <1> QED
    BY <1>0, <1>1, <1>2, TrunkEntries

\* The entries of trunk stay where they are.
LEMMA TrunkKept ==
    ASSUME Typed, NEW h \in Handlers, Act(h), NEW i \in 1 .. Len(trunk)
    PROVE  i \in 1 .. Len(trunk') /\ trunk'[i] = trunk[i]
  <1>1. trunk \in Seq(TrunkCommit) /\ Len(trunk) \in Nat
    BY DEF Typed, TypeOK
  <1> DEFINE e == [change |-> hs[h].change, head |-> hs[h].snap.head,
                   onto |-> hs[h].tip, forced |-> Forced(h)]
  <1>2. CASE trunk' = trunk
    BY <1>2
  <1>3. CASE trunk' # trunk
    <2>1. LandAdvance(h) /\ trunk' = Append(trunk, e)
      BY <1>3, TrunkStep
    <2>2. e \in TrunkCommit
      BY <2>1, NewTrunkCommit DEF LandAdvance
    <2> HIDE DEF e
    <2> QED
      BY <1>1, <2>1, <2>2
  <1> QED
    BY <1>2, <1>3

\* A step leaves what a row says of its land alone, or records one.
LEMMA LandFields ==
    ASSUME Typed, NEW h \in Handlers, Act(h), NEW c \in Changes,
           row'[c].state = "landed"
    PROVE  \/ /\ row[c].state = "landed" /\ row'[c].landedSHA = row[c].landedSHA
              /\ row'[c].forced = row[c].forced
           \/ /\ MarkLanded(h) /\ c = hs[h].change
              /\ row'[c].landedSHA = LandedSHA(h) /\ row'[c].forced = Forced(h)
  <1> DEFINE d == hs[h].change
  <1>0. /\ row \in [Changes -> Row]
        /\ hs[h].pc # "idle" => d \in Changes
    BY DEF Typed, TypeOK, Flight, FlightOf
  <1>1. CASE PushRow(h) \/ SyncRow(h)
    <2>1. row' = [row EXCEPT ![d].head = hs[h].head,
                       ![d].state = IF @ = "landed" THEN @ ELSE "open"]
      BY <1>1 DEF PushRow, SyncRow, CreateOrUpdate
    <2>2. d \in Changes
      BY <1>0, <1>1 DEF PushRow, SyncRow, At
    <2> QED
      BY <1>0, <2>1, <2>2 DEF Row
  <1>2. CASE MarkAbandoned(h)
    <2>1. row' = row \/ row' = [row EXCEPT ![d].state = "abandoned"]
      BY <1>2 DEF MarkAbandoned
    <2>2. d \in Changes
      BY <1>0, <1>2 DEF MarkAbandoned, At
    <2> QED
      BY <1>0, <2>1, <2>2 DEF Row
  <1>3. CASE MarkLanded(h)
    <2> DEFINE sha == LandedSHA(h)
               f == Forced(h)
    <2>1. row' = [row EXCEPT ![d].state = "landed", ![d].landedSHA = sha,
                             ![d].forced = f]
      BY <1>3 DEF MarkLanded
    <2>2. d \in Changes
      BY <1>0, <1>3 DEF MarkLanded, At
    <2> HIDE DEF sha, f
    <2>3. CASE c = d
      BY <1>0, <1>3, <2>1, <2>2, <2>3 DEF Row, sha, f
    <2>4. CASE c # d
      BY SMTT(60), <1>0, <2>1, <2>2, <2>4
    <2> QED
      BY <2>3, <2>4
  <1>4. row' = row \/ PushRow(h) \/ SyncRow(h) \/ MarkAbandoned(h) \/ MarkLanded(h)
    BY ZenonT(90) DEF Act, Step, Abort, Request, Evaluate, SyncCompute, PushRef, PushRead,
       Carry, Announce, SyncRef, ApproveRecord, ReportRecord, RerunReset, RerunNotify,
       LandGate, LandAttempt, LandAdvance, ApproveRequest, ReportRequest, RerunRequest,
       AbandonRequest, LandRequest, git, db
  <1> QED
    BY <1>1, <1>2, <1>3, <1>4

\* The only step to the record is the advance that moved trunk.
LEMMA RecordStep ==
    ASSUME Typed, NEW h \in Handlers, Act(h), hs'[h].pc = "record"
    PROVE  LandAdvance(h) /\ TipUnmoved(h) /\ Goto(h, "record")
  <1>0. hs \in [Handlers -> Handler] /\ hs[h] \in Handler
    BY DEF Typed, TypeOK
  <1>1. CASE Answer(h)
    <2>1. hs'[h] = Idle
      BY <1>0, <1>1 DEF Answer
    <2>2. Idle.pc = "idle"
      BY DEF Idle
    <2> QED
      BY <2>1, <2>2
  <1>2. ASSUME NEW pc \in {"pushread", "carry", "syncrow", "announce", "notify"},
               Goto(h, pc)
        PROVE  FALSE
    BY Zenon, <1>0, <1>2 DEF Goto, Handler
  <1>3. CASE PushRead(h)
    <2>1. PICK old : hs' = [hs EXCEPT ![h].snap = old, ![h].pc = "pushrow"]
      BY <1>3 DEF PushRead
    <2> QED
      BY Zenon, <1>0, <2>1 DEF Handler
  <1>4. ASSUME NEW c \in Changes, Request(h, c) PROVE FALSE
    <2>1. ASSUME Evaluate(h, c) PROVE FALSE
      BY Zenon, <1>0, <2>1 DEF Evaluate, Begin, Takes, Idle
    <2>2. ASSUME SyncCompute(h, c) PROVE FALSE
      BY <1>0, <2>2 DEF SyncCompute, Begin, Takes, Idle
    <2>3. ASSUME NEW o \in Owners, ApproveRequest(h, c, o) PROVE FALSE
      BY <1>0, <2>3 DEF ApproveRequest, Begin, Takes, Idle
    <2>4. ASSUME NEW k \in Checks, ReportRequest(h, c, k) PROVE FALSE
      BY <1>0, <2>4 DEF ReportRequest, Begin, Takes, Idle
    <2>5. ASSUME NEW k \in Checks, RerunRequest(h, c, k) PROVE FALSE
      BY <1>0, <2>5 DEF RerunRequest, Begin, Takes, Idle
    <2>6. ASSUME AbandonRequest(h, c) PROVE FALSE
      BY <1>0, <2>6 DEF AbandonRequest, Begin, Takes, Idle
    <2>7. ASSUME NEW force \in BOOLEAN, LandRequest(h, c, force) PROVE FALSE
      BY <1>0, <2>7 DEF LandRequest, Begin, Takes, Idle
    <2> QED
      BY <1>4, <2>1, <2>2, <2>3, <2>4, <2>5, <2>6, <2>7 DEF Request
  <1>5. ASSUME LandGate(h), ~Answer(h) PROVE FALSE
    <2> DEFINE m == Mergeable(hs[h].change, hs[h].snap.head)
    <2>1. hs' = [hs EXCEPT ![h].pc = "attempt", ![h].mergeable = m]
      BY <1>5 DEF LandGate
    <2> HIDE DEF m
    <2> QED
      BY Zenon, <1>0, <2>1 DEF Handler
  <1>6. ASSUME LandAttempt(h), ~Answer(h) PROVE FALSE
    <2> DEFINE t == Len(trunk)
    <2>1. hs' = [hs EXCEPT ![h].pc = "advance", ![h].tip = t]
      BY <1>6 DEF LandAttempt
    <2> HIDE DEF t
    <2> QED
      BY Zenon, <1>0, <2>1 DEF Handler
  <1>7. ASSUME Retry(h), ~Answer(h) PROVE FALSE
    <2> DEFINE t == hs[h].tries + 1
    <2>1. hs' = [hs EXCEPT ![h].pc = "attempt", ![h].tries = t]
      BY <1>7 DEF Retry
    <2> HIDE DEF t
    <2> QED
      BY Zenon, <1>0, <2>1 DEF Handler
  <1> QED
    BY Zenon, <1>1, <1>2, <1>3, <1>4, <1>5, <1>6, <1>7, CarryMoves
    DEF Act, Step, Abort, PushRef, PushRow, Announce, SyncRef, SyncRow,
        ApproveRecord, ReportRecord, RerunReset, RerunNotify, MarkAbandoned,
        LandAdvance, MarkLanded

LEMMA RecordOfStep ==
    ASSUME Recorded, NEW h \in Handlers, Act(h), NEW g \in Handlers
    PROVE  RecordOf(g)'
  <1>0. Typed /\ hs \in [Handlers -> Handler] /\ hs[h] \in Handler
    BY DEF Recorded, Typed, TypeOK
  <1>1. CASE g # h
    <2>1. hs'[g] = hs[g]
      BY <1>0, <1>1, OneHandler
    <2>2. RecordOf(g)
      BY DEF Recorded
    <2> QED
      BY <1>0, <2>1, <2>2, TrunkKept DEF RecordOf, At, LandedSHA, Forced
  <1>2. CASE g = h /\ hs'[h].pc = "record"
    <2>1. LandAdvance(h) /\ TipUnmoved(h) /\ Goto(h, "record")
      BY <1>0, <1>2, RecordStep
    <2>2. /\ hs'[h].tip = hs[h].tip /\ hs'[h].change = hs[h].change
          /\ hs'[h].force = hs[h].force /\ hs'[h].mergeable = hs[h].mergeable
      BY Zenon, <1>0, <2>1 DEF Goto, Handler
    <2> DEFINE e == [change |-> hs[h].change, head |-> hs[h].snap.head,
                     onto |-> hs[h].tip, forced |-> Forced(h)]
    <2>3. trunk' = Append(trunk, e)
      BY <2>1 DEF LandAdvance
    <2>4. e \in TrunkCommit
      BY <1>0, <2>1, NewTrunkCommit DEF LandAdvance
    <2>5. e.change = hs[h].change /\ e.forced = Forced(h)
      OBVIOUS
    <2> HIDE DEF e
    <2>6. /\ trunk \in Seq(TrunkCommit) /\ Len(trunk) \in Nat
          /\ hs[h].tip = Len(trunk)
      BY <1>0, <2>1 DEF Typed, TypeOK, TipUnmoved
    <2>7. Len(trunk) + 1 \in 1 .. Len(trunk') /\ trunk'[Len(trunk) + 1] = e
      BY <2>3, <2>4, <2>6
    <2> QED
      BY <1>2, <2>2, <2>5, <2>6, <2>7 DEF RecordOf, LandedSHA, Forced
  <1>3. CASE g = h /\ hs'[h].pc # "record"
    BY <1>3 DEF RecordOf, At
  <1> QED
    BY <1>1, <1>2, <1>3

LEMMA LandedStep ==
    ASSUME Recorded, NEW h \in Handlers, Act(h)
    PROVE  LandedIsOnTrunk'
  <1> SUFFICES ASSUME NEW c \in Changes, row'[c].state = "landed"
               PROVE  /\ row'[c].landedSHA \in 1 .. Len(trunk')
                      /\ trunk'[row'[c].landedSHA].change = c
                      /\ trunk'[row'[c].landedSHA].forced = row'[c].forced
    BY DEF LandedIsOnTrunk
  <1>0. Typed
    BY DEF Recorded
  <1>1. CASE /\ row[c].state = "landed" /\ row'[c].landedSHA = row[c].landedSHA
             /\ row'[c].forced = row[c].forced
    BY <1>0, <1>1, TrunkKept DEF Recorded, LandedIsOnTrunk
  <1>2. CASE /\ MarkLanded(h) /\ c = hs[h].change
             /\ row'[c].landedSHA = LandedSHA(h) /\ row'[c].forced = Forced(h)
    <2>1. RecordOf(h) /\ At(h, "record")
      BY <1>2 DEF Recorded, MarkLanded
    <2> QED
      BY <1>0, <1>2, <2>1, TrunkKept DEF RecordOf
  <1> QED
    BY <1>0, <1>1, <1>2, LandFields

LEMMA InitRecorded == Init => Recorded
  <1> SUFFICES ASSUME Init PROVE Recorded
    OBVIOUS
  <1>1. Typed
    BY InitTyped
  <1>2. LinearTrunk
    BY DEF Init, LinearTrunk
  <1>3. LandedIsOnTrunk
    BY DEF Init, LandedIsOnTrunk, NoRow
  <1>4. ASSUME NEW h \in Handlers PROVE RecordOf(h)
    <2>1. hs[h] = Idle /\ Idle.pc = "idle"
      BY Zenon DEF Init, Idle
    <2> QED
      BY <2>1 DEF RecordOf, At
  <1> QED
    BY <1>1, <1>2, <1>3, <1>4 DEF Recorded

LEMMA RecordedStep == Recorded /\ [Next]_vars => Recorded'
  <1> SUFFICES ASSUME Recorded, [Next]_vars PROVE Recorded'
    OBVIOUS
  <1>0. Typed'
    BY TypedStep DEF Recorded
  <1>1. CASE UNCHANGED vars
    BY <1>0, <1>1 DEF vars, Recorded, LinearTrunk, LandedIsOnTrunk, RecordOf, At,
       LandedSHA, Forced
  <1>2. ASSUME NEW h \in Handlers, Act(h) PROVE Recorded'
    BY <1>0, <1>2, LinearStep, LandedStep, RecordOfStep DEF Recorded
  <1> QED
    BY <1>1, <1>2, NextIsAct

\* No land is lost: every trunk commit was merged onto exactly the commit it
\* follows, for any number of concurrent landers (land.Land's compare-and-swap,
\* attemptLand's retries).
THEOREM NoLandIsLost == Spec => []LinearTrunk
  <1>1. Recorded => LinearTrunk
    BY DEF Recorded
  <1> QED
    BY <1>1, InitRecorded, RecordedStep, PTL DEF Spec

\* A row that says landed names a trunk commit of its own Change and how that
\* commit got there, also when two requests land it, when the row was
\* abandoned meanwhile, or when the daemon fails before recording a land
\* (landChangeCore, MarkChangeLanded).
THEOREM LandedRowsNameTheirCommit == Spec => []LandedIsOnTrunk
  <1>1. Recorded => LandedIsOnTrunk
    BY DEF Recorded
  <1> QED
    BY <1>1, InitRecorded, RecordedStep, PTL DEF Spec

----------------------------------------------------------------------------
\* Landed is terminal in a store that checks the state and writes it in one
\* step, as MemStore does (MarkChangeAbandoned, CreateOrUpdateChange); the run
\* PostgresAbandon shows what happens in one that does not.
THEOREM LandedIsTerminal == ASSUME AtomicStore PROVE Spec => LandedTerminal
  <1> DEFINE Keeps == \A c \in Changes :
                         row[c].state = "landed" => row'[c].state = "landed"
  <1>1. ASSUME Typed, NEW h \in Handlers, Act(h) PROVE Keeps
    <2> DEFINE d == hs[h].change
    <2>0. /\ row \in [Changes -> Row]
          /\ hs[h].pc # "idle" => d \in Changes
      BY <1>1 DEF Typed, TypeOK, Flight, FlightOf
    <2>1. CASE PushRow(h) \/ SyncRow(h)
      <3>1. row' = [row EXCEPT ![d].head = hs[h].head,
                         ![d].state = IF @ = "landed" THEN @ ELSE "open"]
        BY <2>1 DEF PushRow, SyncRow, CreateOrUpdate
      <3>2. d \in Changes
        BY <2>0, <2>1 DEF PushRow, SyncRow, At
      <3> QED
        BY <2>0, <3>1, <3>2 DEF Row
    <2>2. CASE MarkAbandoned(h)
      <3>1. \/ row' = row
            \/ row[d].state = "open" /\ row' = [row EXCEPT ![d].state = "abandoned"]
        BY <2>2 DEF MarkAbandoned
      <3>2. d \in Changes
        BY <2>0, <2>2 DEF MarkAbandoned, At
      <3> QED
        BY <2>0, <3>1, <3>2 DEF Row
    <2>3. CASE MarkLanded(h)
      <3> DEFINE sha == LandedSHA(h)
                 f == Forced(h)
      <3>1. row' = [row EXCEPT ![d].state = "landed", ![d].landedSHA = sha,
                               ![d].forced = f]
        BY <2>3 DEF MarkLanded
      <3>2. d \in Changes
        BY SMTT(60), <2>0, <2>3 DEF MarkLanded, At
      <3> HIDE DEF sha, f
      <3> QED
        BY <2>0, <3>1, <3>2 DEF Row
    <2>4. row' = row \/ PushRow(h) \/ SyncRow(h) \/ MarkAbandoned(h) \/ MarkLanded(h)
      BY Zenon, <1>1 DEF Act, Step, Abort, Request, Evaluate, SyncCompute, PushRef,
         PushRead, Carry, Announce, SyncRef, ApproveRecord, ReportRecord, RerunReset,
         RerunNotify,
         LandGate, LandAttempt, LandAdvance, ApproveRequest, ReportRequest,
         RerunRequest, AbandonRequest, LandRequest, git, db
    <2> QED
      BY <2>1, <2>2, <2>3, <2>4
  <1>2. Typed /\ [Next]_vars => [Keeps]_row
    <2>1. UNCHANGED vars => row' = row
      BY DEF vars
    <2> QED
      BY <1>1, <2>1, NextIsAct
  <1>3. Spec => []Typed
    BY InitTyped, TypedStep, PTL DEF Spec
  <1>4. Spec => [][Keeps]_row
    BY <1>2, <1>3, PTL DEF Spec
  <1> QED
    BY <1>4 DEF LandedTerminal

----------------------------------------------------------------------------
(***************************************************************************)
(* What the server owes: no head waits for a CI nobody told about it,      *)
(* nothing lands past a trunk delta it was not validated against, and,     *)
(* served one request at a time, the daemon implements the documented life *)
(* of a Change row.                                                        *)
(***************************************************************************)

\* The events that were enqueued, and those a failure kept from it.
Said == outbox \cup dropped

\* Every head that a row shows was announced where a check has no run on it, or
\* the push or sync that put it there is about to announce it.
HeadsTold ==
    \A c \in Changes, k \in Checks :
        (row[c].state # "none" /\ runs[c][row[c].head][k] = "none") =>
            \/ Updated(c, row[c].head) \in Said
            \/ \E h \in Handlers : /\ hs[h].pc \in {"carry", "announce"}
                                   /\ hs[h].change = c /\ hs[h].head = row[c].head

RerunsTold ==
    \A c \in Changes, n \in Versions, k \in Checks : runs[c][n][k] = "queued" =>
        Asking(c, k) \/ Rerun(c, k) \in Said

\* A report carries a verdict.
ReportsDecide == \A h \in Handlers : At(h, "report") => hs[h].verdict \in {"failed", "passed"}

Told == Typed /\ HeadsTold /\ RerunsTold /\ ReportsDecide

\* Nothing of c is touched by the trunk commits after b, up to t.
Apart(c, b, t) == \A j \in b + 1 .. t : Touches[c] \cap Touches[trunk[j].change] = {}

\* A handler about to move trunk was validated against what came before its tip.
ApartOf(h) ==
    At(h, "advance") =>
        /\ hs[h].tip <= Len(trunk)
        /\ Apart(hs[h].change, Base(hs[h].change, hs[h].snap.head), hs[h].tip)

\* No request is forced, and what was and is about to be landed was validated.
Validated ==
    /\ Evidence /\ DisjointLands
    /\ \A h \in Handlers : ~hs[h].force /\ ApartOf(h)

\* One request at a time: between its steps nobody else moves the row.
AloneOf(h) ==
    /\ hs[h].pc \in {"pushref", "pushread", "pushrow", "syncref", "syncrow"} =>
          row[hs[h].change].state # "landed"
    /\ hs[h].pc \in Landing => row[hs[h].change].state = "open"
    /\ At(h, "abandon") => hs[h].snap.state = row[hs[h].change].state

Alone == Typed /\ \A h \in Handlers : AloneOf(h)
----------------------------------------------------------------------------
(* What moves the head of a row, and what a handler carries.               *)

LEMMA RowSteps ==
    ASSUME NEW h \in Handlers, Act(h)
    PROVE  row' = row \/ PushRow(h) \/ SyncRow(h) \/ MarkAbandoned(h) \/ MarkLanded(h)
  BY ZenonT(90) DEF Act, Step, Abort, Request, Evaluate, SyncCompute, PushRef, PushRead,
     Carry, Announce, SyncRef, ApproveRecord, ReportRecord, RerunReset, RerunNotify,
     LandGate, LandAttempt, LandAdvance, ApproveRequest, ReportRequest, RerunRequest,
     AbandonRequest, LandRequest, git, db

LEMMA GotoFields ==
    ASSUME Typed, NEW h \in Handlers, NEW pc, Goto(h, pc)
    PROVE  /\ hs'[h].pc = pc /\ hs'[h].change = hs[h].change
           /\ hs'[h].head = hs[h].head /\ hs'[h].snap = hs[h].snap
           /\ hs'[h].force = hs[h].force /\ hs'[h].tip = hs[h].tip
           /\ hs'[h].who = hs[h].who
  <1>1. hs \in [Handlers -> Handler] /\ hs[h] \in Handler
    BY DEF Typed, TypeOK
  <1> QED
    BY Zenon, <1>1 DEF Goto, Handler

\* Only the row writes of a push or a sync move a head.
LEMMA HeadStep ==
    ASSUME Typed, NEW h \in Handlers, Act(h), NEW c \in Changes
    PROVE  \/ row'[c].head = row[c].head
           \/ /\ PushRow(h) \/ SyncRow(h)
              /\ c = hs[h].change /\ row'[c].head = hs[h].head
  <1> DEFINE d == hs[h].change
  <1>0. /\ row \in [Changes -> Row]
        /\ hs[h].pc # "idle" => d \in Changes
    BY DEF Typed, TypeOK, Flight, FlightOf
  <1>1. CASE PushRow(h) \/ SyncRow(h)
    <2>1. row' = [row EXCEPT ![d].head = hs[h].head,
                       ![d].state = IF @ = "landed" THEN @ ELSE "open"]
      BY <1>1 DEF PushRow, SyncRow, CreateOrUpdate
    <2>2. d \in Changes
      BY <1>0, <1>1 DEF PushRow, SyncRow, At
    <2>3. CASE c = d
      BY <1>0, <1>1, <2>1, <2>2, <2>3 DEF Row
    <2>4. CASE c # d
      BY <1>0, <2>1, <2>2, <2>4
    <2> QED
      BY <2>3, <2>4
  <1>2. CASE MarkAbandoned(h)
    <2>1. row' = row \/ row' = [row EXCEPT ![d].state = "abandoned"]
      BY <1>2 DEF MarkAbandoned
    <2> QED
      BY <1>0, <2>1 DEF Row
  <1>3. CASE MarkLanded(h)
    <2> DEFINE sha == LandedSHA(h)
               f == Forced(h)
    <2>1. row' = [row EXCEPT ![d].state = "landed", ![d].landedSHA = sha,
                             ![d].forced = f]
      BY <1>3 DEF MarkLanded
    <2> HIDE DEF sha, f
    <2> QED
      BY <1>0, <2>1 DEF Row
  <1> QED
    BY <1>1, <1>2, <1>3, RowSteps

LEMMA SaidGrows ==
    ASSUME NEW h \in Handlers, Act(h)
    PROVE  Said \subseteq Said'
  <1>1. outbox \subseteq outbox'
    BY TableSteps DEF Announce, RerunNotify, Enqueue
  <1>2. ASSUME Step(h) \/ Abort(h)
        PROVE  dropped' = dropped \/ \E events : dropped' = dropped \cup events
    BY Zenon, <1>2 DEF Step, Abort, PushRef, PushRead, PushRow, Carry, Announce, SyncRef,
       SyncRow, ApproveRecord, ReportRecord, RerunReset, RerunNotify, MarkAbandoned,
       LandGate, LandAttempt, LandAdvance, MarkLanded, Enqueue, Works, Drops, history
  <1>3. ASSUME NEW c \in Changes, Request(h, c) PROVE dropped' = dropped
    BY Zenon, <1>3 DEF Request, Evaluate, SyncCompute, ApproveRequest, ReportRequest,
       RerunRequest, AbandonRequest, LandRequest, history
  <1> QED
    BY <1>1, <1>2, <1>3 DEF Act, Said

\* A handler with something to tell does its next step, or ends there.
LEMMA TellingNext ==
    ASSUME NEW h \in Handlers, Act(h), hs[h].pc \in {"carry", "announce", "notify"}
    PROVE  \/ hs[h].pc = "carry" /\ Carry(h)
           \/ hs[h].pc = "announce" /\ Announce(h)
           \/ hs[h].pc = "notify" /\ RerunNotify(h)
           \/ Abort(h)
  <1>1. \A c \in Changes : ~Request(h, c)
    BY ZenonT(90) DEF Request, Evaluate, SyncCompute, ApproveRequest, ReportRequest,
       RerunRequest, AbandonRequest, LandRequest, Serves, At
  <1>2. Step(h) => \/ hs[h].pc = "carry" /\ Carry(h)
                   \/ hs[h].pc = "announce" /\ Announce(h)
                   \/ hs[h].pc = "notify" /\ RerunNotify(h)
    <2> SUFFICES ASSUME Step(h), ~Carry(h), ~Announce(h), ~RerunNotify(h) PROVE FALSE
      BY DEF Carry, Announce, RerunNotify, At
    <2> QED
      BY ZenonT(90) DEF Step, PushRef, PushRead, PushRow, SyncRef, SyncRow,
         ApproveRecord, ReportRecord, RerunReset, MarkAbandoned, LandGate, LandAttempt,
         LandAdvance, MarkLanded, At
  <1> QED
    BY <1>1, <1>2 DEF Act

\* What it has to tell is told in the end, or named as dropped.
LEMMA OwedIsSaid ==
    ASSUME NEW h \in Handlers,
           \/ Abort(h)
           \/ hs[h].pc = "announce" /\ Announce(h)
           \/ hs[h].pc = "notify" /\ RerunNotify(h)
    PROVE  /\ hs[h].pc \in {"carry", "announce"} =>
                 Updated(hs[h].change, hs[h].head) \in Said'
           /\ hs[h].pc = "notify" => Rerun(hs[h].change, hs[h].who) \in Said'
  <1>1. /\ hs[h].pc \in {"carry", "announce"} =>
              Owed(h) = {Updated(hs[h].change, hs[h].head)}
        /\ hs[h].pc = "notify" => Owed(h) = {Rerun(hs[h].change, hs[h].who)}
    BY DEF Owed
  <1>2. CASE Abort(h)
    BY <1>1, <1>2 DEF Abort, Drops, Said
  <1>3. CASE hs[h].pc = "announce" /\ Announce(h)
    BY <1>3 DEF Announce, Enqueue, Drops, Said
  <1>4. CASE hs[h].pc = "notify" /\ RerunNotify(h)
    BY <1>4 DEF RerunNotify, Enqueue, Drops, Said
  <1> QED
    BY <1>2, <1>3, <1>4

\* What the steps of a land do to the handler that takes them.
LEMMA LandingMoves ==
    ASSUME Typed, NEW h \in Handlers, LandGate(h) \/ LandAttempt(h) \/ LandAdvance(h)
    PROVE  \/ hs'[h] = Idle /\ hs'[h].pc = "idle"
           \/ /\ hs[h].pc \in Landing /\ hs'[h].pc \in Landing
              /\ hs'[h].change = hs[h].change /\ hs'[h].snap = hs[h].snap
              /\ hs'[h].force = hs[h].force
              /\ hs'[h].pc = "advance" => LandAttempt(h) /\ ~Answer(h)
  <1>0. hs \in [Handlers -> Handler] /\ hs[h] \in Handler
    BY DEF Typed, TypeOK
  <1> USE DEF Landing
  <1>1. CASE Answer(h)
    <2>1. hs'[h] = Idle
      BY <1>0, <1>1 DEF Answer
    <2>2. Idle.pc = "idle"
      BY DEF Idle
    <2> QED
      BY <2>1, <2>2
  <1>2. CASE LandGate(h) /\ ~Answer(h)
    <2> DEFINE m == Mergeable(hs[h].change, hs[h].snap.head)
    <2>1. hs' = [hs EXCEPT ![h].pc = "attempt", ![h].mergeable = m]
      BY <1>2 DEF LandGate
    <2> HIDE DEF m
    <2>2. /\ hs'[h].pc = "attempt" /\ hs'[h].change = hs[h].change
          /\ hs'[h].snap = hs[h].snap /\ hs'[h].force = hs[h].force
      BY Zenon, <1>0, <2>1 DEF Handler
    <2> QED
      BY <1>2, <2>2 DEF LandGate, At
  <1>3. CASE LandAttempt(h) /\ ~Answer(h)
    <2> DEFINE t == Len(trunk)
    <2>1. hs' = [hs EXCEPT ![h].pc = "advance", ![h].tip = t]
      BY <1>3 DEF LandAttempt
    <2> HIDE DEF t
    <2>2. /\ hs'[h].pc = "advance" /\ hs'[h].change = hs[h].change
          /\ hs'[h].snap = hs[h].snap /\ hs'[h].force = hs[h].force
      BY Zenon, <1>0, <2>1 DEF Handler
    <2> QED
      BY <1>3, <2>2 DEF LandAttempt, At
  <1>4. CASE LandAdvance(h) /\ Goto(h, "record")
    <2>1. /\ hs'[h].pc = "record" /\ hs'[h].change = hs[h].change
          /\ hs'[h].snap = hs[h].snap /\ hs'[h].force = hs[h].force
      BY <1>4, GotoFields
    <2> QED
      BY <1>4, <2>1 DEF LandAdvance, At
  <1>5. CASE LandAdvance(h) /\ Retry(h) /\ ~Answer(h)
    <2> DEFINE t == hs[h].tries + 1
    <2>1. hs' = [hs EXCEPT ![h].pc = "attempt", ![h].tries = t]
      BY <1>5 DEF Retry
    <2> HIDE DEF t
    <2>2. /\ hs'[h].pc = "attempt" /\ hs'[h].change = hs[h].change
          /\ hs'[h].snap = hs[h].snap /\ hs'[h].force = hs[h].force
      BY Zenon, <1>0, <2>1 DEF Handler
    <2> QED
      BY <1>5, <2>2 DEF LandAdvance, At
  <1> QED
    BY <1>1, <1>2, <1>3, <1>4, <1>5 DEF LandAdvance

----------------------------------------------------------------------------
(* No head waits for a CI nobody told about it.                            *)

\* One check's result on one head changes.
LEMMA OneResult ==
  ASSUME NEW S, NEW T, NEW U, NEW V, NEW f \in [S -> [T -> [U -> V]]], NEW g,
         NEW a \in S, NEW b \in T, NEW w, NEW v,
         g = [f EXCEPT ![a] = [f[a] EXCEPT ![b] = [f[a][b] EXCEPT ![w] = v]]]
  PROVE  \A x \in S, y \in T, z \in U :
            g[x][y][z] = IF x = a /\ y = b /\ z = w THEN v ELSE f[x][y][z]
  <1>1. PICK e : e = [f[a][b] EXCEPT ![w] = v]
    OBVIOUS
  <1>2. PICK r : r = [f[a] EXCEPT ![b] = e]
    OBVIOUS
  <1>3. /\ g[a] = r /\ r[b] = e
        /\ \A x \in S : x # a => g[x] = f[x]
        /\ \A y \in T : y # b => r[y] = f[a][y]
    BY <1>1, <1>2
  <1>4. \A z \in U : e[z] = IF z = w THEN v ELSE f[a][b][z]
    BY <1>1
  <1> QED
    BY <1>3, <1>4

\* What a step may do to the runs of a head: a run is never taken away, and
\* queued again only by a rerun, which says so.
LEMMA RunsMove ==
    ASSUME Told, NEW h \in Handlers, Act(h), NEW c \in Changes, NEW n \in Versions,
           NEW k \in Checks
    PROVE  /\ runs'[c][n][k] = "none" => runs[c][n][k] = "none"
           /\ runs'[c][n][k] = "queued" =>
                 \/ runs[c][n][k] = "queued"
                 \/ RerunReset(h) /\ c = hs[h].change /\ k = hs[h].who
  <1> DEFINE d == hs[h].change
             old == hs[h].snap
  <1>0. /\ Typed /\ runs \in [Changes -> [Versions -> [Checks -> Verdicts]]]
        /\ hs[h].pc # "idle" => d \in Changes
        /\ hs[h].head \in Versions /\ old.head \in Versions
    BY HandlerFields DEF Told, Typed, TypeOK
  <1>1. CASE Carry(h)
    <2>0. d \in Changes
      BY <1>0, <1>1 DEF Carry, At
    <2>01. runs' = runs \/ runs' = [runs EXCEPT ![d][hs[h].head] =
                                     CarriedRuns(d, old, hs[h].head)]
      BY Zenon, <1>1, CarryWrites DEF CarryOver
    <2>1. runs' = runs \/ runs' = [runs EXCEPT ![d] = [runs[d] EXCEPT
                ![hs[h].head] = CarriedRuns(d, old, hs[h].head)]]
      BY <1>0, <2>0, <2>01
    <2>2. CASE c = d /\ n = hs[h].head
      <3>1. runs'[c][n][k] \in {CarriedRuns(d, old, hs[h].head)[k], runs[c][n][k]}
        BY <1>0, <2>0, <2>1, <2>2
      <3>2. runs'[c][n][k] \in {"passed", runs[c][n][k]}
        BY <2>2, <3>1 DEF CarriedRuns
      <3> QED
        BY <3>2
    <2>3. CASE ~(c = d /\ n = hs[h].head)
      <3>1. runs'[c][n] = runs[c][n]
        BY <1>0, <2>0, <2>1, <2>3
      <3> QED
        BY <3>1
    <2> QED
      BY <2>2, <2>3
  <1>2. CASE ReportRecord(h)
    <2>0. d \in Changes /\ hs[h].verdict \in {"failed", "passed"}
      BY <1>0, <1>2 DEF ReportRecord, At, Told, ReportsDecide
    <2>1. runs' = [runs EXCEPT ![d] = [runs[d] EXCEPT ![old.head] =
                [runs[d][old.head] EXCEPT ![hs[h].who] = hs[h].verdict]]]
      BY <1>0, <1>2, <2>0 DEF ReportRecord
    <2>2. runs'[c][n][k] \in {"failed", "passed", runs[c][n][k]}
      <3>1. runs'[c][n][k] = IF c = d /\ n = old.head /\ k = hs[h].who
                            THEN hs[h].verdict ELSE runs[c][n][k]
        <4>1. \A x \in Changes, y \in Versions, z \in Checks :
                 runs'[x][y][z] = IF x = d /\ y = old.head /\ z = hs[h].who
                                  THEN hs[h].verdict ELSE runs[x][y][z]
          BY SMTT(60), <1>0, <2>0, <2>1, OneResult
        <4> QED
          BY <4>1, Zenon
      <3> QED
        BY <2>0, <3>1
    <2> QED
      BY <2>2
  <1>3. CASE RerunReset(h)
    <2>0. d \in Changes /\ row[d].head \in Versions
      BY <1>0, <1>3 DEF RerunReset, At, Typed, TypeOK, Row
    <2>1. runs' = [runs EXCEPT ![d] = [runs[d] EXCEPT ![row[d].head] =
                [runs[d][row[d].head] EXCEPT ![hs[h].who] = "queued"]]]
      BY <1>0, <1>3, <2>0 DEF RerunReset
    <2>2. \/ runs'[c][n][k] = runs[c][n][k]
          \/ c = d /\ k = hs[h].who /\ runs'[c][n][k] = "queued"
      <3>1. runs'[c][n][k] = IF c = d /\ n = row[d].head /\ k = hs[h].who
                            THEN "queued" ELSE runs[c][n][k]
        <4>1. \A x \in Changes, y \in Versions, z \in Checks :
                 runs'[x][y][z] = IF x = d /\ y = row[d].head /\ z = hs[h].who
                                  THEN "queued" ELSE runs[x][y][z]
          <5>1. PICK e : e = [runs[d][row[d].head] EXCEPT ![hs[h].who] = "queued"]
            OBVIOUS
          <5>2. PICK r : r = [runs[d] EXCEPT ![row[d].head] = e]
            OBVIOUS
          <5>3. runs' = [runs EXCEPT ![d] = r]
            BY <2>1, <5>1, <5>2
          <5>4. /\ runs'[d] = r /\ r[row[d].head] = e
                /\ \A x \in Changes : x # d => runs'[x] = runs[x]
                /\ \A y \in Versions : y # row[d].head => r[y] = runs[d][y]
            BY <1>0, <2>0, <5>2, <5>3
          <5>5. \A z \in Checks : e[z] = IF z = hs[h].who THEN "queued"
                                        ELSE runs[d][row[d].head][z]
            BY <1>0, <2>0, <5>1
          <5> QED
            BY <5>4, <5>5
        <4> QED
          BY <4>1, Zenon
      <3> QED
        BY <3>1
    <2> QED
      BY <1>3, <2>2
  <1> QED
    BY <1>1, <1>2, <1>3, TableSteps

LEMMA HeadsToldStep ==
    ASSUME Told, NEW h \in Handlers, Act(h)
    PROVE  HeadsTold'
  <1> SUFFICES ASSUME NEW c \in Changes, NEW k \in Checks, row'[c].state # "none",
                      runs'[c][row'[c].head][k] = "none"
               PROVE  \/ Updated(c, row'[c].head) \in Said'
                      \/ \E g \in Handlers : /\ hs'[g].pc \in {"carry", "announce"}
                                             /\ hs'[g].change = c
                                             /\ hs'[g].head = row'[c].head
    BY DEF HeadsTold, Updated
  <1>0. Typed
    BY DEF Told
  <1>1. CASE /\ PushRow(h) \/ SyncRow(h)
             /\ c = hs[h].change /\ row'[c].head = hs[h].head
    <2>1. Goto(h, "carry")
      BY <1>1 DEF PushRow, SyncRow
    <2>2. hs'[h].pc = "carry" /\ hs'[h].change = hs[h].change /\ hs'[h].head = hs[h].head
      BY <1>0, <2>1, GotoFields
    <2> QED
      BY <1>1, <2>2
  <1>2. CASE row'[c].head = row[c].head
    <2>1. row[c].state # "none" /\ row[c].head \in Versions
      <3>1. row'[c].head # 0
        BY <1>0, RowsType DEF RowOK
      <3> QED
        BY <1>0, <1>2, <3>1 DEF Typed, TypeOK, Row
    <2>2. runs[c][row[c].head][k] = "none"
      BY <1>2, <2>1, RunsMove
    <2>3. CASE Updated(c, row[c].head) \in Said
      BY <1>2, <2>3, SaidGrows
    <2>4. ASSUME NEW g \in Handlers, hs[g].pc \in {"carry", "announce"},
                 hs[g].change = c, hs[g].head = row[c].head
          PROVE  \/ Updated(c, row'[c].head) \in Said'
                 \/ /\ hs'[g].pc \in {"carry", "announce"} /\ hs'[g].change = c
                    /\ hs'[g].head = row'[c].head
      <3>1. CASE g # h
        <4>1. hs'[g] = hs[g]
          BY <1>0, <3>1, OneHandler
        <4> QED
          BY <1>2, <2>4, <4>1
      <3>2. CASE g = h /\ ~(hs[h].pc = "carry" /\ Carry(h))
        BY <1>2, <2>4, <3>2, TellingNext, OwedIsSaid
      <3>3. CASE g = h /\ Carry(h)
        <4> DEFINE n == hs[h].head
                   old == hs[h].snap
        <4>1. PICK kept \in SUBSET Owners, copied \in BOOLEAN :
                 /\ CarryOver(c, old, n, kept, copied)
                 /\ \/ /\ copied
                       /\ IF Covered(c, old, n) THEN Answer(h)
                          ELSE Goto(h, "announce")
                    \/ Goto(h, "announce")
                    \/ Drops({Updated(c, n)})
          BY Zenon, <2>4, <3>3 DEF Carry
        <4>2. CASE Goto(h, "announce")
          <5>1. /\ hs'[h].pc = "announce" /\ hs'[h].change = hs[h].change
                /\ hs'[h].head = hs[h].head
            BY <1>0, <4>2, GotoFields
          <5> QED
            BY <1>2, <2>4, <3>3, <5>1
        <4>3. CASE Drops({Updated(c, n)})
          BY <1>2, <2>4, <3>3, <4>3 DEF Drops, Said
        <4>4. CASE copied /\ Covered(c, old, n)
          <5>1. CarriedRuns(c, old, n)[k] = "passed"
            BY <4>4 DEF Covered
          <5>2. runs'[c][n] = CarriedRuns(c, old, n)
            BY <1>0, <2>1, <2>4, <3>3, <4>1, <4>4 DEF CarryOver, Typed, TypeOK
          <5> QED
            BY <1>2, <2>4, <3>3, <5>1, <5>2
        <4> QED
          BY <4>1, <4>2, <4>3, <4>4
      <3> QED
        BY <3>1, <3>2, <3>3
    <2> QED
      BY <2>1, <2>2, <2>3, <2>4 DEF Told, HeadsTold
  <1> QED
    BY <1>0, <1>1, <1>2, HeadStep

LEMMA RerunsToldStep ==
    ASSUME Told, NEW h \in Handlers, Act(h)
    PROVE  RerunsTold'
  <1> SUFFICES ASSUME NEW c \in Changes, NEW n \in Versions, NEW k \in Checks,
                      runs'[c][n][k] = "queued"
               PROVE  Asking(c, k)' \/ Rerun(c, k) \in Said'
    BY DEF RerunsTold, Rerun
  <1>0. Typed
    BY DEF Told
  <1>1. CASE runs[c][n][k] = "queued"
    <2>1. CASE Rerun(c, k) \in Said
      BY <2>1, SaidGrows
    <2>2. ASSUME NEW g \in Handlers, hs[g].change = c, hs[g].who = k,
                 hs[g].pc = "notify"
          PROVE  Asking(c, k)' \/ Rerun(c, k) \in Said'
      <3>1. CASE g # h
        <4>1. hs'[g] = hs[g]
          BY <1>0, <3>1, OneHandler
        <4> QED
          BY <2>2, <4>1 DEF Asking
      <3>2. CASE g = h
        BY <2>2, <3>2, TellingNext, OwedIsSaid
      <3> QED
        BY <3>1, <3>2
    <2> QED
      BY <1>1, <2>1, <2>2 DEF Told, RerunsTold, Asking
  <1>2. CASE RerunReset(h) /\ c = hs[h].change /\ k = hs[h].who
    <2>1. hs'[h].pc = "notify" /\ hs'[h].change = c /\ hs'[h].who = k
      BY <1>0, <1>2, GotoFields DEF RerunReset
    <2> QED
      BY <2>1 DEF Asking
  <1> QED
    BY <1>1, <1>2, RunsMove

LEMMA ReportsDecideStep ==
    ASSUME Told, NEW h \in Handlers, Act(h)
    PROVE  ReportsDecide'
  <1> SUFFICES ASSUME NEW g \in Handlers, hs'[g].pc = "report"
               PROVE  hs'[g].verdict \in {"failed", "passed"}
    BY DEF ReportsDecide, At
  <1>0. Typed /\ hs \in [Handlers -> Handler] /\ hs[h] \in Handler
    BY DEF Told, Typed, TypeOK
  <1>1. CASE g # h
    <2>1. hs'[g] = hs[g]
      BY <1>0, <1>1, OneHandler
    <2> QED
      BY <2>1 DEF Told, ReportsDecide, At
  <1>2. CASE g = h
    <2>1. ASSUME NEW c \in Changes, NEW k \in Checks, ReportRequest(h, c, k)
          PROVE  hs'[h].verdict \in {"failed", "passed"}
      <3>1. PICK v \in {"failed", "passed"} :
               hs' = [hs EXCEPT ![h] = [Begin(c, "report") EXCEPT
                                          !.who = k, !.verdict = v]]
        BY <2>1 DEF ReportRequest
      <3> QED
        BY <1>0, <3>1 DEF Begin, Takes, Idle
    <2>2. ASSUME NEW c \in Changes, NEW o \in Owners, ApproveRequest(h, c, o) PROVE FALSE
      BY <1>0, <1>2, <2>2 DEF ApproveRequest, Begin, Takes, Idle
    <2>3. ASSUME LandGate(h) \/ LandAttempt(h) \/ LandAdvance(h) PROVE FALSE
      BY <1>0, <1>2, <2>3, LandingMoves DEF Landing
    <2> QED
      BY <1>0, <1>2, <2>1, <2>2, <2>3, CarryingStep DEF Carrying
  <1> QED
    BY <1>1, <1>2

LEMMA InitTold == Init => Told
  <1> SUFFICES ASSUME Init PROVE Told
    OBVIOUS
  <1>1. Typed
    BY InitTyped
  <1>2. HeadsTold
    BY DEF Init, HeadsTold, NoRow
  <1>3. RerunsTold
    BY DEF Init, RerunsTold
  <1>4. ReportsDecide
    <2>1. \A h \in Handlers : hs[h] = Idle
      BY DEF Init
    <2>2. Idle.pc = "idle"
      BY DEF Idle
    <2> QED
      BY <2>1, <2>2 DEF ReportsDecide, At
  <1> QED
    BY <1>1, <1>2, <1>3, <1>4 DEF Told

LEMMA ToldStep == Told /\ [Next]_vars => Told'
  <1> SUFFICES ASSUME Told, [Next]_vars PROVE Told'
    OBVIOUS
  <1>0. Typed'
    BY TypedStep DEF Told
  <1>1. CASE UNCHANGED vars
    BY <1>0, <1>1 DEF vars, Told, HeadsTold, RerunsTold, ReportsDecide, At,
       Asking, Said
  <1>2. ASSUME NEW h \in Handlers, Act(h) PROVE Told'
    BY <1>0, <1>2, HeadsToldStep, RerunsToldStep, ReportsDecideStep DEF Told
  <1> QED
    BY <1>1, <1>2, NextIsAct

\* No open head waits in silence: a required check without a run on the head was
\* announced and a queued one was asked for or is about to be, for any number of
\* concurrent pushes, syncs, reports and reruns and any number of failed calls
\* and requests cut short; where nobody was told, it is such a failure that kept
\* exactly that event (commit's and syncChangeCore's tails, whose covered heads
\* announce nothing, and rerunCheckCore, which resets before it asks).
THEOREM NoHeadIsSilent == Spec => []NoSilentHead
  <1>1. Spec => []Told
    BY InitTold, ToldStep, PTL DEF Spec
  <1>2. Told => NoSilentHead
    <2> SUFFICES ASSUME Told, NEW c \in Changes, NEW k \in Checks,
                        row[c].state = "open", ~Writing(c)
                 PROVE  /\ runs[c][row[c].head][k] = "none" =>
                              Updated(c, row[c].head) \in Said
                        /\ runs[c][row[c].head][k] = "queued" =>
                              Asking(c, k) \/ Rerun(c, k) \in Said
      BY DEF NoSilentHead, Said
    <2>1. row[c].head \in Versions
      BY DEF Told, Typed, TypeOK, Row
    <2>2. ~\E h \in Handlers : hs[h].pc \in {"carry", "announce"} /\ hs[h].change = c
      BY DEF Writing
    <2> QED
      BY <2>1, <2>2 DEF Told, HeadsTold, RerunsTold
  <1> QED
    BY <1>1, <1>2, PTL

----------------------------------------------------------------------------
(* What a request takes up and what a step of it keeps.                    *)

LEMMA RequestFields ==
    ASSUME Typed, NEW h \in Handlers, NEW c \in Changes, Request(h, c)
    PROVE  /\ row' = row
           /\ hs'[h].change = c
           /\ hs'[h].pc = "abandon" => hs'[h].snap = row[c]
           /\ hs'[h].force => "force" \in Requests
           /\ \/ hs'[h].pc \in {"pushref", "syncref"} /\ row[c].state # "landed"
              \/ hs'[h].pc = "gate" /\ row[c].state = "open"
              \/ hs'[h].pc \in {"approve", "report", "rerun", "abandon"}
  <1>0. hs \in [Handlers -> Handler] /\ h \in DOMAIN hs
    BY DEF Typed, TypeOK
  <1> DEFINE Taken(pc) == /\ hs'[h].change = c
                          /\ hs'[h].force = FALSE /\ hs'[h].pc = pc
  <1>1. ASSUME NEW n, NEW pc, NEW t \in {Takes(c, pc), Begin(c, pc)},
               hs' = [hs EXCEPT ![h] = [t EXCEPT !.head = n]]
        PROVE  Taken(pc)
    BY <1>0, <1>1 DEF Begin, Takes, Idle
  <1>2. ASSUME NEW w, NEW pc, NEW t \in {Takes(c, pc), Begin(c, pc)},
               hs' = [hs EXCEPT ![h] = [t EXCEPT !.who = w]]
        PROVE  Taken(pc)
    BY <1>0, <1>2 DEF Begin, Takes, Idle
  <1>3. CASE Evaluate(h, c)
    <2>1. PICK n : hs' = [hs EXCEPT ![h] = [Takes(c, "pushref") EXCEPT !.head = n]]
      BY <1>3 DEF Evaluate
    <2>2. Taken("pushref")
      BY <1>1, <2>1
    <2>3. row' = row /\ row[c].state # "landed"
      BY <1>3 DEF Evaluate, Pushable, db
    <2> QED
      BY <2>2, <2>3
  <1>4. CASE SyncCompute(h, c)
    <2>1. PICK n : hs' = [hs EXCEPT ![h] = [Begin(c, "syncref") EXCEPT !.head = n]]
      BY <1>4 DEF SyncCompute
    <2>2. Taken("syncref")
      BY <1>1, <2>1
    <2>3. row' = row /\ row[c].state # "landed"
      BY <1>4 DEF SyncCompute, db
    <2> QED
      BY <2>2, <2>3
  <1>5. ASSUME NEW o \in Owners, ApproveRequest(h, c, o)
        PROVE  row' = row /\ Taken("approve")
    <2>1. hs' = [hs EXCEPT ![h] = [Begin(c, "approve") EXCEPT !.who = o]]
      BY <1>5 DEF ApproveRequest
    <2> QED
      BY <1>2, <1>5, <2>1 DEF ApproveRequest, db
  <1>6. ASSUME NEW k \in Checks, ReportRequest(h, c, k)
        PROVE  row' = row /\ Taken("report")
    <2>1. PICK v : hs' = [hs EXCEPT ![h] = [Begin(c, "report") EXCEPT
                                              !.who = k, !.verdict = v]]
      BY <1>6 DEF ReportRequest
    <2>2. Taken("report")
      BY <1>0, <2>1 DEF Begin, Takes, Idle
    <2> QED
      BY <1>6, <2>2 DEF ReportRequest, db
  <1>7. ASSUME NEW k \in Checks, RerunRequest(h, c, k)
        PROVE  row' = row /\ Taken("rerun")
    <2>1. hs' = [hs EXCEPT ![h] = [Takes(c, "rerun") EXCEPT !.who = k]]
      BY <1>7 DEF RerunRequest
    <2> QED
      BY <1>2, <1>7, <2>1 DEF RerunRequest, db
  <1>8. ASSUME AbandonRequest(h, c)
        PROVE  row' = row /\ Taken("abandon") /\ hs'[h].snap = row[c]
    <2>1. hs'[h] = Begin(c, "abandon")
      BY <1>0, <1>8 DEF AbandonRequest
    <2>2. Taken("abandon") /\ hs'[h].snap = row[c]
      BY <2>1 DEF Begin, Takes, Idle
    <2> QED
      BY <1>8, <2>2 DEF AbandonRequest, db
  <1>9. ASSUME NEW force \in BOOLEAN, LandRequest(h, c, force)
        PROVE  /\ row' = row /\ hs'[h].change = c
               /\ hs'[h].force = force /\ hs'[h].pc = "gate" /\ row[c].state = "open"
               /\ force => "force" \in Requests
    <2>1. hs' = [hs EXCEPT ![h] = [Begin(c, "gate") EXCEPT !.force = force]]
      BY <1>9 DEF LandRequest
    <2>2. /\ hs'[h].change = c
          /\ hs'[h].force = force /\ hs'[h].pc = "gate"
      BY <1>0, <2>1 DEF Begin, Takes, Idle
    <2>3. force => "force" \in Requests
      BY Zenon, <1>9 DEF LandRequest, Serves
    <2> QED
      BY <1>9, <2>2, <2>3 DEF LandRequest, db
  <1> QED
    BY <1>3, <1>4, <1>5, <1>6, <1>7, <1>8, <1>9 DEF Request

LEMMA StepFields ==
    ASSUME Typed, NEW h \in Handlers, Step(h) \/ Abort(h)
    PROVE  \/ hs'[h] = Idle /\ hs'[h].pc = "idle" /\ hs'[h].force = FALSE
           \/ /\ hs'[h].change = hs[h].change /\ hs'[h].force = hs[h].force
              /\ \/ /\ hs[h].pc \in {"pushref", "pushread", "syncref"} /\ row' = row
                    /\ hs'[h].pc \in {"pushread", "pushrow", "syncrow"}
                 \/ hs'[h].pc \in {"carry", "announce", "notify"}
                 \/ /\ hs[h].pc \in Landing /\ hs'[h].pc \in Landing /\ row' = row
                    /\ hs'[h].snap = hs[h].snap
                    /\ hs'[h].pc = "advance" => LandAttempt(h) /\ ~Answer(h)
  <1>0. hs \in [Handlers -> Handler] /\ hs[h] \in Handler
    BY DEF Typed, TypeOK
  <1>1. CASE Answer(h)
    <2>1. hs'[h] = Idle
      BY <1>0, <1>1 DEF Answer
    <2>2. Idle.pc = "idle" /\ Idle.force = FALSE
      BY DEF Idle
    <2> QED
      BY <2>1, <2>2
  <1>2. CASE (PushRef(h) \/ SyncRef(h)) /\ ~Answer(h)
    <2>1. PICK pc \in {"pushread", "syncrow"} : Goto(h, pc)
      BY <1>2 DEF PushRef, SyncRef
    <2>2. /\ hs'[h].pc = pc /\ hs'[h].change = hs[h].change
          /\ hs'[h].force = hs[h].force
      BY <2>1, GotoFields
    <2> QED
      BY <1>2, <2>2 DEF PushRef, SyncRef, At, db
  <1>3. CASE PushRow(h) \/ SyncRow(h)
    <2>1. Goto(h, "carry")
      BY <1>3 DEF PushRow, SyncRow
    <2> QED
      BY <2>1, GotoFields
  <1>31. CASE (Carry(h) \/ RerunReset(h)) /\ ~Answer(h)
    <2>1. PICK pc \in {"announce", "notify"} : Goto(h, pc)
      BY <1>31, CarryMoves DEF RerunReset
    <2> QED
      BY <2>1, GotoFields
  <1>4. CASE PushRead(h)
    <2>0. PICK old : hs' = [hs EXCEPT ![h].snap = old, ![h].pc = "pushrow"]
      BY <1>4 DEF PushRead
    <2>1. /\ hs'[h].pc = "pushrow" /\ hs'[h].change = hs[h].change
          /\ hs'[h].force = hs[h].force
      BY Zenon, <1>0, <2>0 DEF Handler
    <2> QED
      BY <1>4, <2>1 DEF PushRead, At, db
  <1>5. CASE LandGate(h) \/ LandAttempt(h) \/ LandAdvance(h)
    <2>1. row' = row
      BY <1>5 DEF LandGate, LandAttempt, LandAdvance, db
    <2>2. Idle.force = FALSE
      BY DEF Idle
    <2> QED
      BY <1>5, <2>1, <2>2, LandingMoves
  <1> QED
    BY Zenon, <1>1, <1>2, <1>3, <1>31, <1>4, <1>5
    DEF Step, Abort, Announce, ApproveRecord, ReportRecord, RerunNotify, MarkAbandoned,
        MarkLanded
----------------------------------------------------------------------------
(* Nothing lands past a trunk delta it was not validated against.          *)

LEMMA BaseKept ==
    ASSUME Typed, NEW h \in Handlers, Act(h), NEW c \in Changes,
           NEW n \in 1 .. Len(commits[c])
    PROVE  Base(c, n)' = Base(c, n) /\ Base(c, n) \in Nat
  <1>1. commits'[c][n] = commits[c][n] /\ commits[c][n] \in Commit
    BY CommitsGrow DEF Typed, TypeOK
  <1> QED
    BY <1>1 DEF Base, Commit

LEMMA ApartKept ==
    ASSUME Typed, NEW h \in Handlers, Act(h), NEW c \in Changes, NEW b \in Nat,
           NEW t \in Nat, t <= Len(trunk), Apart(c, b, t)
    PROVE  Apart(c, b, t)' /\ t <= Len(trunk')
  <1>1. Len(trunk) \in Nat /\ Len(trunk') \in Nat /\ Len(trunk) <= Len(trunk')
    <2>1. trunk' \in Seq(TrunkCommit) /\ trunk \in Seq(TrunkCommit)
      BY TrunkType DEF Typed, TypeOK
    <2>2. Len(trunk) \in Nat /\ Len(trunk') \in Nat
      BY <2>1
    <2>3. CASE Len(trunk) = 0
      BY <2>2, <2>3
    <2>4. CASE Len(trunk) # 0
      <3>1. Len(trunk) \in 1 .. Len(trunk)
        BY <2>2, <2>4
      <3>2. Len(trunk) \in 1 .. Len(trunk')
        BY <3>1, TrunkKept
      <3> QED
        BY <2>2, <3>2
    <2> QED
      BY <2>3, <2>4
  <1>2. ASSUME NEW j \in b + 1 .. t
        PROVE  Touches[c] \cap Touches[trunk'[j].change] = {}
    <2>1. j \in 1 .. Len(trunk)
      BY <1>1
    <2>2. trunk'[j] = trunk[j]
      BY <2>1, TrunkKept
    <2> QED
      BY <2>2 DEF Apart
  <1> QED
    BY <1>1, <1>2 DEF Apart

\* An attempt that goes on to the ref update is apart from all it lands past.
LEMMA AttemptApart ==
    ASSUME Typed, NEW h \in Handlers, LandAttempt(h), ~Answer(h), ~hs[h].force,
           Scope = "affected-intersection"
    PROVE  Apart(hs[h].change, Base(hs[h].change, hs[h].snap.head), Len(trunk))
  <1> DEFINE c == hs[h].change
             b == Base(c, hs[h].snap.head)
             t == Len(trunk)
  <1>0. c \in Changes /\ hs[h].snap.head \in 1 .. Len(commits[c])
    BY SnapVersion DEF LandAttempt, At, FromRow, Landing
  <1>1. b \in Nat /\ t \in Nat
    <2>1. commits[c][hs[h].snap.head] \in Commit
      BY <1>0 DEF Typed, TypeOK
    <2> QED
      BY <2>1 DEF Base, Commit, Typed, TypeOK
  <1>2. b = t \/ ~NeedsRevalidation(Scope, c, b, t)
    BY DEF LandAttempt
  <1> HIDE DEF b, t
  <1>3. ASSUME b = t PROVE Apart(c, b, t)
    BY <1>1, <1>3 DEF Apart
  <1>4. ASSUME ~NeedsRevalidation(Scope, c, b, t) PROVE Apart(c, b, t)
    <2>1. Touches[c] \cap TrunkDelta(b, t) = {}
      BY <1>4 DEF NeedsRevalidation
    <2>2. \A j \in b + 1 .. t : Touches[trunk[j].change] \subseteq TrunkDelta(b, t)
      BY DEF TrunkDelta
    <2> QED
      BY <2>1, <2>2 DEF Apart
  <1> QED
    BY <1>2, <1>3, <1>4 DEF b, t

LEMMA ApartStep ==
    ASSUME Validated, "force" \notin Requests, Scope = "affected-intersection",
           NEW h \in Handlers, Act(h), NEW g \in Handlers
    PROVE  (~hs[g].force)' /\ ApartOf(g)'
  <1>0. Typed /\ ~hs[g].force /\ ~hs[h].force /\ ApartOf(g) /\ Len(trunk) \in Nat
    BY DEF Validated, Evidence, Typed, TypeOK
  <1>1. CASE g # h
    <2>1. hs'[g] = hs[g]
      BY <1>0, <1>1, OneHandler
    <2>2. CASE At(g, "advance")
      <3>0. hs[g].change \in Changes /\ hs[g].tip \in Nat
        BY <1>0, <2>2, SnapVersion, HandlerFields DEF At, FromRow, Landing
      <3>c. PICK c \in Changes : c = hs[g].change
        BY <3>0
      <3>1. PICK n \in 1 .. Len(commits[c]), t \in Nat :
               n = hs[g].snap.head /\ t = hs[g].tip
        BY <1>0, <2>2, <3>0, <3>c, SnapVersion DEF At, FromRow, Landing
      <3>2. Base(c, n)' = Base(c, n) /\ Base(c, n) \in Nat
        BY <1>0, BaseKept
      <3>3. PICK b \in Nat : b = Base(c, n)
        BY <3>2
      <3>4. t <= Len(trunk) /\ Apart(c, b, t)
        BY <1>0, <2>2, <3>c, <3>1, <3>3 DEF ApartOf
      <3>5. Apart(c, b, t)' /\ t <= Len(trunk')
        BY <1>0, <3>4, ApartKept
      <3> QED
        BY <1>0, <2>1, <3>c, <3>1, <3>2, <3>3, <3>5 DEF ApartOf, At, Apart
    <2> QED
      BY <1>0, <2>1, <2>2 DEF ApartOf, At
  <1>2. CASE g = h
    <2>1. ASSUME NEW c \in Changes, Request(h, c)
          PROVE  ~hs'[h].force /\ hs'[h].pc # "advance"
      BY <1>0, <2>1, RequestFields
    <2>2. ASSUME Step(h) \/ Abort(h), hs'[h].pc # "advance" PROVE ~hs'[h].force
      BY <1>0, <2>2, StepFields
    <2>3. ASSUME Step(h) \/ Abort(h), hs'[h].pc = "advance"
          PROVE  ~hs'[h].force /\ ApartOf(h)'
      <3>1. /\ LandAttempt(h) /\ ~Answer(h) /\ hs'[h].force = hs[h].force
            /\ hs'[h].change = hs[h].change /\ hs'[h].snap = hs[h].snap
        BY <1>0, <2>3, StepFields
      <3>2. hs'[h].tip = Len(trunk)
        <4>0. hs \in [Handlers -> Handler] /\ hs[h] \in Handler
          BY <1>0 DEF Typed, TypeOK
        <4>1. hs' = [hs EXCEPT ![h].pc = "advance", ![h].tip = Len(trunk)]
          BY <3>1 DEF LandAttempt
        <4> QED
          BY Zenon, <4>0, <4>1 DEF Handler
      <3>3. commits' = commits /\ trunk' = trunk
        BY <3>1 DEF LandAttempt, git
      <3>4. Apart(hs[h].change, Base(hs[h].change, hs[h].snap.head), Len(trunk))
        BY <1>0, <3>1, AttemptApart
      <3> QED
        BY <1>0, <3>1, <3>2, <3>3, <3>4 DEF ApartOf, Apart, Base
    <2> QED
      BY <1>2, <2>1, <2>2, <2>3 DEF Act, ApartOf, At
  <1> QED
    BY <1>1, <1>2

LEMMA DisjointStep ==
    ASSUME Validated, Scope = "affected-intersection", NEW h \in Handlers, Act(h)
    PROVE  DisjointLands'
  <1> SUFFICES ASSUME NEW i \in 1 .. Len(trunk'), trunk'[i].change # NoChange,
                      ~trunk'[i].forced
               PROVE  \A j \in (Base(trunk[i].change, trunk[i].head) + 1 .. i - 1)' :
                         Touches[trunk'[i].change] \cap Touches[trunk'[j].change] = {}
    BY DEF DisjointLands, Gated
  <1>0. Typed /\ Len(trunk) \in Nat /\ Evidence
    BY DEF Validated, Evidence, Typed, TypeOK
  <1>1. CASE i \in 1 .. Len(trunk)
    <2>1. trunk'[i] = trunk[i]
      BY <1>0, <1>1, TrunkKept
    <2>2. i \in Gated
      BY <1>1, <2>1 DEF Gated
    <2>3. Vouched(trunk[i].change, trunk[i].head)
      BY <1>0, <2>2 DEF Evidence, TrunkVouched
    <2>c. PICK c \in Changes : c = trunk[i].change
      BY <2>3 DEF Vouched
    <2>4. PICK n \in 1 .. Len(commits[c]) : n = trunk[i].head
      BY <2>3, <2>c DEF Vouched
    <2>5. Base(c, n)' = Base(c, n) /\ Base(c, n) \in Nat
      BY <1>0, BaseKept
    <2>6. \A j \in Base(c, n) + 1 .. i - 1 : Touches[c] \cap Touches[trunk[j].change] = {}
      BY <2>2, <2>c, <2>4 DEF Validated, DisjointLands
    <2>7. \A j \in Base(c, n) + 1 .. i - 1 : trunk'[j] = trunk[j]
      <3>1. \A j \in Base(c, n) + 1 .. i - 1 : j \in 1 .. Len(trunk)
        BY <1>0, <1>1, <2>5
      <3> QED
        BY <1>0, <3>1, TrunkKept
    <2> QED
      BY <2>1, <2>c, <2>4, <2>5, <2>6, <2>7
  <1>2. CASE i \notin 1 .. Len(trunk)
    <2>1. /\ LandAdvance(h) /\ TipUnmoved(h) /\ i = Len(trunk) + 1
          /\ trunk'[i] = [change |-> hs[h].change, head |-> hs[h].snap.head,
                          onto |-> hs[h].tip, forced |-> Forced(h)]
      BY <1>0, <1>2, TrunkEntries
    <2>2. At(h, "advance") /\ hs[h].tip = Len(trunk)
      BY <2>1 DEF LandAdvance, TipUnmoved
    <2>3. hs[h].change \in Changes /\ hs[h].snap.head \in 1 .. Len(commits[hs[h].change])
      BY <1>0, <2>2, SnapVersion DEF At, FromRow, Landing
    <2>c. PICK c \in Changes : c = hs[h].change
      BY <2>3
    <2>4. PICK n \in 1 .. Len(commits[c]) : n = hs[h].snap.head
      BY <2>3, <2>c
    <2>5. trunk'[i].change = c /\ trunk'[i].head = n
      BY <2>1, <2>c, <2>4
    <2>6. Base(c, n)' = Base(c, n) /\ Base(c, n) \in Nat
      BY <1>0, BaseKept
    <2>7. Apart(c, Base(c, n), Len(trunk))
      BY <2>2, <2>c, <2>4 DEF Validated, ApartOf
    <2>8. \A j \in Base(c, n) + 1 .. Len(trunk) : trunk'[j] = trunk[j]
      <3>1. \A j \in Base(c, n) + 1 .. Len(trunk) : j \in 1 .. Len(trunk)
        BY <1>0, <2>6
      <3> QED
        BY <1>0, <3>1, TrunkKept
    <2>9. i - 1 = Len(trunk)
      BY <1>0, <2>1
    <2> QED
      BY <2>5, <2>6, <2>7, <2>8, <2>9 DEF Apart
  <1> QED
    BY <1>1, <1>2

LEMMA InitValidated == Init => Validated
  <1> SUFFICES ASSUME Init PROVE Validated
    OBVIOUS
  <1>1. Evidence
    BY InitEvidence
  <1>2. DisjointLands
    BY DEF Init, DisjointLands, Gated
  <1>3. ASSUME NEW h \in Handlers PROVE ~hs[h].force /\ ApartOf(h)
    <2>1. hs[h] = Idle
      BY DEF Init
    <2>2. Idle.pc = "idle" /\ Idle.force = FALSE
      BY DEF Idle
    <2> QED
      BY <2>1, <2>2 DEF ApartOf, At
  <1> QED
    BY <1>1, <1>2, <1>3 DEF Validated

LEMMA ValidatedStep ==
    ASSUME "force" \notin Requests, Scope = "affected-intersection"
    PROVE  Validated /\ [Next]_vars => Validated'
  <1> SUFFICES ASSUME Validated, [Next]_vars PROVE Validated'
    OBVIOUS
  <1>0. Evidence'
    BY EvidenceStep DEF Validated
  <1>1. CASE UNCHANGED vars
    BY <1>0, <1>1 DEF vars, Validated, DisjointLands, Gated, ApartOf, Apart, Base, At
  <1>2. ASSUME NEW h \in Handlers, Act(h) PROVE Validated'
    BY <1>0, <1>2, DisjointStep, ApartStep DEF Validated
  <1> QED
    BY <1>1, <1>2, NextIsAct

\* Nothing lands past a trunk delta that touches its projects, whatever landers
\* interleave and however often a land retries, as long as nobody forces a land
\* (NeedsRevalidation per attempt, the compare-and-swap of land.Land).  A forced
\* land skips the tier; one that the gate would have let through is recorded as
\* an ordinary land all the same, so the hypothesis is needed.
THEOREM LandsAreDisjoint == ASSUME "force" \notin Requests PROVE Spec => []DisjointLands
  <1>1. CASE Scope = "affected-intersection"
    <2>1. Validated => DisjointLands
      BY DEF Validated
    <2> QED
      BY <1>1, <2>1, InitValidated, ValidatedStep, PTL DEF Spec
  <1>2. CASE Scope # "affected-intersection"
    <2>1. DisjointLands
      BY <1>2 DEF DisjointLands
    <2> QED
      BY <2>1, PTL
  <1> QED
    BY <1>1, <1>2

----------------------------------------------------------------------------
(* Served one request at a time, the daemon implements ChangeLifecycle.    *)

LEMMA AloneMoves ==
    ASSUME Alone, \A g, h \in Handlers : g = h, NEW h \in Handlers, Act(h)
    PROVE  AloneOf(h)'
  <1>0. Typed /\ AloneOf(h)
    BY DEF Alone
  <1>1. ASSUME NEW c \in Changes, Request(h, c) PROVE AloneOf(h)'
    BY <1>0, <1>1, RequestFields DEF AloneOf, At, Landing
  <1>2. CASE Step(h) \/ Abort(h)
    BY <1>0, <1>2, StepFields DEF AloneOf, At, Landing
  <1> QED
    BY <1>1, <1>2 DEF Act

LEMMA InitAlone == Init => Alone
  <1> SUFFICES ASSUME Init PROVE Alone
    OBVIOUS
  <1>1. Typed
    BY InitTyped
  <1>2. ASSUME NEW h \in Handlers PROVE AloneOf(h)
    <2>1. hs[h] = Idle
      BY DEF Init
    <2>2. Idle.pc = "idle"
      BY DEF Idle
    <2> QED
      BY <2>1, <2>2 DEF AloneOf, At, Landing
  <1> QED
    BY <1>1, <1>2 DEF Alone

LEMMA AloneStep ==
    ASSUME \A g, h \in Handlers : g = h
    PROVE  Alone /\ [Next]_vars => Alone'
  <1> SUFFICES ASSUME Alone, [Next]_vars PROVE Alone'
    OBVIOUS
  <1>0. Typed'
    BY TypedStep DEF Alone
  <1>1. CASE UNCHANGED vars
    BY <1>0, <1>1 DEF vars, Alone, AloneOf, At
  <1>2. ASSUME NEW h \in Handlers, Act(h) PROVE Alone'
    BY <1>0, <1>2, AloneMoves DEF Alone
  <1> QED
    BY <1>1, <1>2, NextIsAct

\* The row writes are the operations of the abstract row.
LEMMA RowIsPushed ==
    ASSUME Alone, NEW h \in Handlers, PushRow(h) \/ SyncRow(h)
    PROVE  L!Next
  <1> DEFINE c == hs[h].change
             n == hs[h].head
  <1>0. row \in [Changes -> Row] /\ c \in Changes /\ n \in Nat \ {0}
    BY DEF PushRow, SyncRow, At, Alone, Typed, TypeOK, Flight, FlightOf, Pushing
  <1>1. row[c].state # "landed"
    BY DEF PushRow, SyncRow, At, Alone, AloneOf
  <1>2. row' = [row EXCEPT ![c].head = n, ![c].state = "open"]
    BY <1>0, <1>1 DEF PushRow, SyncRow, CreateOrUpdate
  <1>3. PICK d \in Changes, m \in Nat \ {0} : d = c /\ m = n
    BY <1>0
  <1>4. /\ row'[d].state = "open" /\ row'[d].head = m
        /\ row'[d].landedSHA = row[d].landedSHA
        /\ \A e \in Changes \ {d} : row'[e] = row[e]
    BY <1>0, <1>2, <1>3 DEF Row
  <1>5. L!Push(d)
    BY <1>1, <1>3, <1>4 DEF L!Push
  <1> QED
    BY <1>5 DEF L!Next

LEMMA RowIsAbandoned ==
    ASSUME Alone, NEW h \in Handlers, MarkAbandoned(h)
    PROVE  row' = row \/ L!Next
  <1> DEFINE c == hs[h].change
  <1>0. row \in [Changes -> Row] /\ c \in Changes
    BY DEF MarkAbandoned, At, Alone, Typed, TypeOK, Flight, FlightOf
  <1>1. hs[h].snap.state = row[c].state
    BY DEF MarkAbandoned, At, Alone, AloneOf
  <1>2. CASE row[c].state = "open" /\ row' = [row EXCEPT ![c].state = "abandoned"]
    <2>1. PICK d \in Changes : d = c
      BY <1>0
    <2>2. /\ row'[d].state = "abandoned" /\ row'[d].head = row[d].head
          /\ row'[d].landedSHA = row[d].landedSHA
          /\ \A e \in Changes \ {d} : row'[e] = row[e]
      BY <1>0, <1>2, <2>1 DEF Row
    <2>3. L!Abandon(d)
      BY <1>2, <2>1, <2>2 DEF L!Abandon
    <2> QED
      BY <2>3 DEF L!Next
  <1> QED
    BY <1>1, <1>2 DEF MarkAbandoned

LEMMA RowIsLanded ==
    ASSUME Alone, NEW h \in Handlers, MarkLanded(h)
    PROVE  L!Next
  <1> DEFINE c == hs[h].change
             sha == LandedSHA(h)
             f == Forced(h)
  <1>0. row \in [Changes -> Row] /\ c \in Changes
    BY DEF MarkLanded, At, Alone, Typed, TypeOK, Flight, FlightOf
  <1>1. row[c].state = "open" /\ sha \in Nat \ {0}
    BY HandlerFields DEF MarkLanded, At, Alone, AloneOf, Landing, LandedSHA
  <1>2. row' = [row EXCEPT ![c].state = "landed", ![c].landedSHA = sha,
                           ![c].forced = f]
    BY DEF MarkLanded
  <1> HIDE DEF sha, f
  <1>3. PICK d \in Changes, m \in Nat \ {0} : d = c /\ m = sha
    BY <1>0, <1>1
  <1>4. /\ row'[d].state = "landed" /\ row'[d].head = row[d].head
        /\ row'[d].landedSHA = m
        /\ \A e \in Changes \ {d} : row'[e] = row[e]
    BY <1>0, <1>2, <1>3 DEF Row
  <1>5. L!Land(d)
    BY <1>1, <1>3, <1>4 DEF L!Land
  <1> QED
    BY <1>5 DEF L!Next

\* A daemon that serves one request at a time implements the documented state
\* machine of the Change row, in either store and with requests that fail midway:
\* create, amend and reopen by a push, abandon while open, land once, from open
\* (CreateOrUpdateChange, MarkChangeAbandoned, MarkChangeLanded).
THEOREM ImplementsLifecycle ==
    ASSUME \A g, h \in Handlers : g = h PROVE Spec => Lifecycle
  <1>1. Init => L!Init
    BY DEF Init, L!Init, NoRow
  <1>2. Alone /\ [Next]_vars => [L!Next]_(L!vars)
    <2> SUFFICES ASSUME Alone, [Next]_vars PROVE L!Next \/ UNCHANGED L!vars
      OBVIOUS
    <2>1. CASE row' = row
      BY <2>1 DEF L!vars
    <2>2. UNCHANGED vars => row' = row
      BY DEF vars
    <2>3. ASSUME NEW h \in Handlers, Act(h) PROVE row' = row \/ L!Next
      BY <2>3, RowSteps, RowIsPushed, RowIsAbandoned, RowIsLanded
    <2> QED
      BY <2>1, <2>2, <2>3, NextIsAct
  <1>3. Spec => []Alone
    BY InitAlone, AloneStep, PTL DEF Spec
  <1>4. Spec => L!Spec
    BY <1>1, <1>2, <1>3, PTL DEF Spec, L!Spec
  <1> QED
    BY <1>4 DEF Lifecycle
=============================================================================
