---------------------------- MODULE StoreChanges ----------------------------
(***************************************************************************)
(* The Store's calls about Changes, twice: MemStore, which the tests and   *)
(* the evaluation profile run on, and PostgresStore, statement by          *)
(* statement, with the queries it uses.  Three groups of calls with tables *)
(* of their own: the rows, their reviews and their check runs.             *)
(***************************************************************************)
EXTENDS StoreCalls

CONSTANTS Keys,         \* Change-Ids
          Known         \* those with a row when the review and check calls begin
----------------------------------------------------------------------------
(* Rows.  landed lists the landed keys, oldest first: landed_at.           *)

NoRow == [state |-> "none", head |-> 0, author |-> "", origin |-> "",
          armed |-> "", landedBy |-> "", text |-> ""]

OpenRow == [NoRow EXCEPT !.state = "open", !.head = 1, !.author = "ann"]

Rows(open) == [row |-> [k \in Keys |-> IF k \in open THEN OpenRow ELSE NoRow],
               landed |-> << >>]

HasRow(m, k) == m.row[k].state # "none"

Write(m, k, r) == [m EXCEPT !.row[k] = r]

MoveToEnd(s, k) == Append(SelectSeq(s, LAMBDA x : x # k), k)

MemCreateOrUpdateChange(m, c) ==
    LET old == m.row[c.key]
        origin == IF c.origin = "" THEN old.origin ELSE c.origin
        row == IF HasRow(m, c.key)
               THEN [old EXCEPT !.head = c.head, !.author = c.author,
                                !.origin = origin,
                                !.state = IF @ = "abandoned" THEN "open" ELSE @]
               ELSE [NoRow EXCEPT !.state = "open", !.head = c.head,
                                  !.author = c.author, !.origin = c.origin]
    IN  Gives(Write(m, c.key, row), Ok)

MemSetChangeAutomerge(m, c) ==
    IF HasRow(m, c.key)
    THEN Gives([m EXCEPT !.row[c.key].armed = IF c.on THEN "ann" ELSE ""], Ok)
    ELSE Gives(m, Refused)

MemUpdateChangeDescription(m, c) ==
    IF HasRow(m, c.key) THEN Gives([m EXCEPT !.row[c.key].text = "why"], Ok)
    ELSE Gives(m, Refused)

MemMarkChangeAbandoned(m, c) ==
    IF m.row[c.key].state \in {"none", "landed"} THEN Gives(m, Refused)
    ELSE Gives([m EXCEPT !.row[c.key].state = "abandoned"], Ok)

MemMarkChangeLanded(m, c) ==
    IF HasRow(m, c.key)
    THEN Gives([m EXCEPT !.row[c.key].state = "landed",
                          !.row[c.key].landedBy = c.by,
                          !.landed = MoveToEnd(@, c.key)], Ok)
    ELSE Gives(m, Refused)

MemRows(m, c) ==
    CASE c.op = "push" -> MemCreateOrUpdateChange(m, c)
      [] c.op = "arm" -> MemSetChangeAutomerge(m, c)
      [] c.op = "describe" -> MemUpdateChangeDescription(m, c)
      [] c.op = "abandon" -> MemMarkChangeAbandoned(m, c)
      [] c.op = "land" -> MemMarkChangeLanded(m, c)

(* The queries.  Rows are never deleted; the key stands for the id.        *)

\* The UNIQUE key of a Change refuses a second insert.
CreateChange(p, c) ==
    IF HasRow(p, c.key) THEN Fails(p)
    ELSE Returns(Write(p, c.key,
                       [NoRow EXCEPT !.state = "open", !.head = c.head,
                                     !.author = c.author, !.origin = c.origin]), Ok)

\* Mutant: a landed row is reopened as well.
ReopenAny(p, c) ==
    Returns([p EXCEPT !.row[c.key].head = c.head, !.row[c.key].author = c.author,
                      !.row[c.key].origin = IF c.origin = "" THEN @ ELSE c.origin,
                      !.row[c.key].state = "open"], Ok)

UpdateChangeHead(p, c) ==
    Returns([p EXCEPT !.row[c.key].head = c.head, !.row[c.key].author = c.author,
                      !.row[c.key].origin = IF c.origin = "" THEN @ ELSE c.origin,
                      !.row[c.key].state = IF @ = "abandoned" THEN "open" ELSE @], Ok)

SetChangeAutomerge(p, c) ==
    Returns([p EXCEPT !.row[c.key].armed = IF c.on THEN "ann" ELSE ""], Ok)

UpdateChangeDescription(p, c) == Returns([p EXCEPT !.row[c.key].text = "why"], Ok)

LandChange(p, c) ==
    Returns([p EXCEPT !.row[c.key].state = "landed", !.row[c.key].landedBy = c.by,
                      !.landed = MoveToEnd(@, c.key)], Ok)

\* The statement does not look at the state it replaces.
AbandonChange(p, c) ==
    LET after == [p EXCEPT !.row[c.key].state = "abandoned"]
    IN  IF p.row[c.key].state = "landed" THEN Strays(after, Ok, "unlanded")
        ELSE Returns(after, Ok)

(* The calls: they look, and write what they then decide on.               *)

\* resolveChangeID
Resolved(p, c) == IF HasRow(p, c.key) THEN Goes(p, "write", 0) ELSE Fails(p)

PgCreateOrUpdateChange(p, c, s) ==
    IF s.at = "look" THEN Goes(p, IF HasRow(p, c.key) THEN "update" ELSE "create", 0)
    ELSE IF s.at = "update" THEN UpdateChangeHead(p, c) ELSE CreateChange(p, c)

PgSetChangeAutomerge(p, c, s) ==
    IF s.at = "look" THEN Resolved(p, c) ELSE SetChangeAutomerge(p, c)

PgUpdateChangeDescription(p, c, s) ==
    IF s.at = "look" THEN Resolved(p, c) ELSE UpdateChangeDescription(p, c)

PgMarkChangeAbandoned(p, c, s) ==
    IF s.at = "write" THEN AbandonChange(p, c)
    ELSE IF p.row[c.key].state \in {"none", "landed"} THEN Fails(p)
    ELSE IF p.row[c.key].state = "abandoned" THEN Returns(p, Ok)
    ELSE Goes(p, "write", 0)

PgMarkChangeLanded(p, c, s) ==
    IF s.at = "look" THEN Resolved(p, c) ELSE LandChange(p, c)

PgRows(p, c, s) ==
    CASE c.op = "push" -> PgCreateOrUpdateChange(p, c, s)
      [] c.op = "arm" -> PgSetChangeAutomerge(p, c, s)
      [] c.op = "describe" -> PgUpdateChangeDescription(p, c, s)
      [] c.op = "abandon" -> PgMarkChangeAbandoned(p, c, s)
      [] c.op = "land" -> PgMarkChangeLanded(p, c, s)

\* GetChange of every key, and the landed listing, newest first.
MemReadRows(m) ==
    <<m.row, Reverse(SelectSeq(m.landed, LAMBDA k : m.row[k].state = "landed"))>>

\* ORDER BY landed_at DESC
ListLandedChanges(p) == Reverse(SelectSeq(p.landed, LAMBDA k : p.row[k].state = "landed"))

PgReadRows(p) == <<p.row, ListLandedChanges(p)>>
----------------------------------------------------------------------------
(* Reviews: the approval of an owner, the conversation, whose review is     *)
(* asked for.  Ids of comments count up in one store and are random in the *)
(* other; both list them in the order of their creation.                   *)

NoApproval == [by |-> "", head |-> 0]

Reviews(approval) == [approval |-> approval, comments |-> << >>, asked |-> ""]

Remark(c) == [agent |-> c.agent, resolved |-> FALSE]

IsComment(m, c) == c.key \in Known /\ c.id \in DOMAIN m.comments

MemReviews(m, c) ==
    CASE c.key \notin Known -> Gives(m, Refused)
      [] c.op = "approve" -> Gives([m EXCEPT !.approval = [by |-> c.by, head |-> c.head]], Ok)
      [] c.op = "comment" -> Gives([m EXCEPT !.comments = Append(@, Remark(c))], Ok)
      [] c.op = "resolve" ->
            IF IsComment(m, c)
            THEN Gives([m EXCEPT !.comments[c.id].resolved = c.on], Ok)
            ELSE Gives(m, Refused)
      [] c.op = "ask" -> Gives([m EXCEPT !.asked = c.by], Ok)

Unsatisfied == [by |-> "", head |-> 0, satisfied |-> FALSE]

\* INSERT ... ON CONFLICT DO NOTHING: an approval given before stays.
SetChangeOwnerRequirement(p) ==
    IF p.approval = NoApproval THEN [p EXCEPT !.approval = Unsatisfied] ELSE p

SatisfyChangeOwnerRequirement(p, c) ==
    [p EXCEPT !.approval = [by |-> c.by, head |-> c.head, satisfied |-> TRUE]]

CreateChangeComment(p, c) == [p EXCEPT !.comments = Append(@, Remark(c))]

ResolveChangeComment(p, c) ==
    IF IsComment(p, c) THEN Returns([p EXCEPT !.comments[c.id].resolved = c.on], Ok)
    ELSE Fails(p)

UpsertChangeReviewRequest(p, c) == [p EXCEPT !.asked = c.by]

PgRecordApproval(p, c, s) ==
    IF s.at = "write" THEN Goes(SetChangeOwnerRequirement(p), "satisfy", 0)
    ELSE Returns(SatisfyChangeOwnerRequirement(p, c), Ok)

PgReviews(p, c, s) ==
    CASE s.at = "look" -> IF c.key \in Known THEN Goes(p, "write", 0) ELSE Fails(p)
      [] s.at # "look" /\ c.op = "approve" -> PgRecordApproval(p, c, s)
      [] s.at # "look" /\ c.op = "comment" -> Returns(CreateChangeComment(p, c), Ok)
      [] s.at # "look" /\ c.op = "resolve" -> ResolveChangeComment(p, c)
      [] s.at # "look" /\ c.op = "ask" -> Returns(UpsertChangeReviewRequest(p, c), Ok)

\* ListApprovals skips a requirement nobody satisfied.
PgReadReviews(p) ==
    [p EXCEPT !.approval = IF "satisfied" \in DOMAIN @ /\ @.satisfied
                           THEN [by |-> @.by, head |-> @.head] ELSE NoApproval]
----------------------------------------------------------------------------
(* The runs of one check at the two heads of a Change: one view of each in *)
(* MemStore, a sequence of attempts in Postgres.                           *)

NoRun == [verdict |-> "none", url |-> ""]
Passed(run) == run.verdict = "passed"

MemRuns0 == [head |-> 1, run |-> [h \in 1 .. 2 |-> NoRun]]
PgRuns0 == [head |-> 1, attempts |-> [h \in 1 .. 2 |-> << >>]]

\* A report without a link keeps the link of an earlier one.
Reported(run, c) == [verdict |-> c.verdict, url |-> IF c.url = "" THEN run.url ELSE c.url]

MemUpsertCheckRun(m, c) ==
    Gives([m EXCEPT !.run[c.head] = Reported(@, c)], Ok)

MemRerunCheck(m, c) ==
    Gives([m EXCEPT !.run[m.head] = [verdict |-> "queued", url |-> ""]], Ok)

MemCopyPassingCheckRuns(m, c) ==
    IF Passed(m.run[1]) /\ m.run[2] = NoRun
    THEN Gives([m EXCEPT !.run[2] = m.run[1]], <<"ok", "copied">>)
    ELSE Gives(m, Ok)

\* The push of the second head.
AmendHead(m) == [m EXCEPT !.head = 2]

MemRuns(m, c) ==
    CASE c.op = "report" -> MemUpsertCheckRun(m, c)
      [] c.op = "rerun" -> MemRerunCheck(m, c)
      [] c.op = "copy" -> MemCopyPassingCheckRuns(m, c)
      [] c.op = "amend" -> Gives(AmendHead(m), Ok)

GetLatestCheckRunAttempt(p, h) == Len(p.attempts[h])

CreateCheckRun(p, h, attempt) ==
    IF attempt \in DOMAIN p.attempts[h] THEN Fails(p)
    ELSE Returns([p EXCEPT !.attempts[h] = Append(@, [verdict |-> "queued", url |-> ""])], Ok)

UpsertCheckRunByName(p, c, attempt) ==
    Returns([p EXCEPT !.attempts[c.head] =
                IF attempt \in DOMAIN @ THEN [@ EXCEPT ![attempt] = Reported(@, c)]
                ELSE Append(@, Reported(NoRun, c))], Ok)

\* The latest of the passing attempts, where MemStore has the latest if it
\* passed: a verdict that a rerun was asked to replace is carried.
CopyPassingCheckRunsToHead(p) ==
    LET passing == SelectSeq(p.attempts[1], Passed)
        after == [p EXCEPT !.attempts[2] = <<Last(passing)>>]
    IN  IF passing = << >> \/ p.attempts[2] # << >> THEN Returns(p, Ok)
        ELSE IF Passed(Last(p.attempts[1])) THEN Returns(after, <<"ok", "copied">>)
        ELSE Strays(after, <<"ok", "copied">>, "stale pass")

\* Mutant: reports go to the first attempt, as before reruns existed.
PgReportsFirst(p, c, s) ==
    IF s.at = "look" THEN Goes(p, "write", 1) ELSE UpsertCheckRunByName(p, c, s.saw)

\* A report goes to the latest attempt, as read before.
PgUpsertCheckRun(p, c, s) ==
    IF s.at = "look"
    THEN LET n == GetLatestCheckRunAttempt(p, c.head)
         IN  Goes(p, "write", IF n = 0 THEN 1 ELSE n)
    ELSE UpsertCheckRunByName(p, c, s.saw)

\* A push may come between the read of the Change's head and the new attempt.
PgRerunCheck(p, c, s) ==
    CASE s.at = "look" -> Goes(p, "latest", <<p.head, 0>>)
      [] s.at = "latest" ->
            Goes(p, "write", <<s.saw[1], GetLatestCheckRunAttempt(p, s.saw[1]) + 1>>)
      [] s.at = "write" ->
            LET created == CreateCheckRun(p, s.saw[1], s.saw[2])
            IN  IF p.head = s.saw[1] THEN created
                ELSE [created EXCEPT !.why = {"old head"}]

PgRuns(p, c, s) ==
    CASE c.op = "report" -> PgUpsertCheckRun(p, c, s)
      [] c.op = "rerun" -> PgRerunCheck(p, c, s)
      [] c.op = "copy" -> CopyPassingCheckRunsToHead(p)
      [] c.op = "amend" -> Returns(AmendHead(p), Ok)

\* ListCheckRuns: one view for each name, of the latest attempt.
PgReadRuns(p) ==
    [head |-> p.head,
     run |-> [h \in 1 .. 2 |-> IF p.attempts[h] = << >> THEN NoRun
                               ELSE Last(p.attempts[h])]]
=============================================================================
