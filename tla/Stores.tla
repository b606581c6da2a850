------------------------------- MODULE Stores -------------------------------
(***************************************************************************)
(* PostgresStore against MemStore.  Clients call the store side by side;   *)
(* PostgresStore serves a call statement by statement, the calls of others *)
(* in between, and a call may end in an error half-way.  MemStore serves a *)
(* call at once.  The code is written, and tested, as if it did not matter *)
(* which one it runs on.                                                   *)
(*                                                                         *)
(* maybe holds what MemStore could have come to: one element for every     *)
(* order in which the calls so far, each at some moment between its        *)
(* beginning and its end, give the answers that were given.  A behaviour   *)
(* has one family of calls, with tables of its own.                        *)
(***************************************************************************)
EXTENDS StoreCalls

CONSTANTS Clients,
          StoreOps,     \* the calls of each family
          Budget,       \* of each family: calls begun and failures together
          Keys, Known, Images, LastAttempt, Retained

ASSUME StoresAssumption ==
    /\ Known \subseteq Keys /\ Budget \in [DOMAIN StoreOps -> Nat]
    /\ LastAttempt \in Nat \ {0} /\ Retained \in Nat \ {0}

C == INSTANCE StoreChanges
Ledgers == INSTANCE StoreLedgers
D == INSTANCE StoreDirectory

VARIABLES family,       \* which calls this behaviour is about
          pg,           \* the tables
          flight,       \* for each client, its call and how far it is
          maybe,        \* what MemStore could hold, and its answers so far
          left,         \* of the budget
          parted       \* why the two stores differ, if they are known to

storeVars == <<family, pg, flight, maybe, left, parted>>
----------------------------------------------------------------------------
(* The families.                                                           *)

Mem(m, c) ==
    CASE family \in {"rows", "new rows"} -> C!MemRows(m, c)
      [] family = "reviews" -> C!MemReviews(m, c)
      [] family = "runs" -> C!MemRuns(m, c)
      [] family = "ledger" -> Ledgers!MemLedger(m, c)
      [] family = "deliveries" -> Ledgers!MemDeliveries(m, c)
      [] family = "invites" -> Ledgers!MemInvites(m, c)
      [] family = "workspaces" -> Ledgers!MemWorkspaces(m, c)
      [] family = "timelines" -> Ledgers!MemTimelines(m, c)
      [] family = "orgs" -> D!MemOrgs(m, c)
      [] family = "agents" -> D!MemAgents(m, c)
      [] family = "cursors" -> D!MemCursors(m, c)

Pg(p, c, s) ==
    CASE family \in {"rows", "new rows"} -> C!PgRows(p, c, s)
      [] family = "reviews" -> C!PgReviews(p, c, s)
      [] family = "runs" -> C!PgRuns(p, c, s)
      [] family = "ledger" -> Ledgers!PgLedger(p, c, s)
      [] family = "deliveries" -> Ledgers!PgDeliveries(p, c, s)
      [] family = "invites" -> Ledgers!PgInvites(p, c, s)
      [] family = "workspaces" -> Ledgers!PgWorkspaces(p, c, s)
      [] family = "timelines" -> Ledgers!PgTimelines(p, c, s)
      [] family = "orgs" -> D!PgOrgs(p, c, s)
      [] family = "agents" -> D!PgAgents(p, c, s)
      [] family = "cursors" -> D!PgCursors(p, c)

Mem0 ==
    CASE family = "rows" -> C!Rows(Keys)
      [] family = "new rows" -> C!Rows({})
      [] family = "reviews" -> C!Reviews(C!NoApproval)
      [] family = "runs" -> C!MemRuns0
      [] family = "ledger" -> Ledgers!Ledger0
      [] family \in {"deliveries", "invites"} -> Ledgers!Queue0
      [] family = "workspaces" -> Ledgers!NoWorkspace
      [] family = "timelines" -> Ledgers!Timeline0
      [] family = "orgs" -> D!Org0
      [] family = "agents" -> D!NoAgent
      [] family = "cursors" -> D!NoCursor

Pg0 ==
    CASE family = "runs" -> C!PgRuns0
      [] family = "workspaces" -> << >>
      [] family \notin {"runs", "workspaces"} -> Mem0

\* What the reading calls return.
MemReads(m) ==
    CASE family \in {"rows", "new rows"} -> C!MemReadRows(m)
      [] family \in {"deliveries", "invites"} -> Ledgers!ReadQueue(m)
      [] family = "orgs" -> D!ReadOrg(m)
      [] family \notin {"rows", "new rows", "deliveries", "invites", "orgs"} -> m

PgReads(p) ==
    CASE family \in {"rows", "new rows"} -> C!PgReadRows(p)
      [] family = "reviews" -> C!PgReadReviews(p)
      [] family = "runs" -> C!PgReadRuns(p)
      [] family \in {"deliveries", "invites"} -> Ledgers!ReadQueue(p)
      [] family = "workspaces" -> Ledgers!PgReadWorkspaces(p)
      [] family = "timelines" -> Ledgers!PgReadTimelines(p)
      [] family = "orgs" -> D!ReadOrg(p)
      [] family = "ledger" -> Ledgers!PgReadLedger(p)
      [] family \in {"agents", "cursors"} -> p
----------------------------------------------------------------------------
(* What MemStore could have done.                                          *)

Away == [at |-> "out"]
Calling(c) == flight[c].at # "out"

MemTakes(conf, c) ==
    LET r == Mem(conf.mem, flight'[c].call)
    IN  [mem |-> r.mem, ans |-> [conf.ans EXCEPT ![c] = r.ans]]

\* Calls in flight that have had no effect yet may have one now.
Further(confs) ==
    confs \cup UNION {{MemTakes(conf, c) : c \in {d \in Clients : /\ flight'[d].at # "out"
                                                                  /\ conf.ans[d] = << >>}}
                      : conf \in confs}

\* An error says that the call had no effect; a failure leaves it open.
Answered(c, ans, confs) ==
    {[conf EXCEPT !.ans[c] = << >>] :
        conf \in {k \in confs : \/ k.ans[c] = ans
                                \/ ans = Refused /\ k.ans[c] = << >>}}
----------------------------------------------------------------------------
StoreInit ==
    /\ family \in DOMAIN StoreOps
    /\ pg = Pg0
    /\ flight = [c \in Clients |-> Away]
    /\ maybe = {[mem |-> Mem0, ans |-> [c \in Clients |-> << >>]]}
    /\ left = Budget[family]
    /\ parted = {}

StoreCall(c) ==
    /\ ~Calling(c) /\ left > 0
    /\ \E call \in StoreOps[family] :
        flight' = [flight EXCEPT ![c] = [call |-> call, at |-> "look", saw |-> 0]]
    /\ left' = left - 1
    /\ maybe' = Further(Further(maybe))
    /\ UNCHANGED <<family, pg, parted>>

StoreStatement(c) ==
    /\ Calling(c)
    /\ LET s == Pg(pg, flight[c].call, flight[c])
       IN  /\ pg' = s.pg
           /\ parted' = s.why
           /\ flight' = [flight EXCEPT ![c] =
                            IF s.ans # << >> THEN Away
                            ELSE [@ EXCEPT !.at = s.at, !.saw = s.saw]]
           /\ maybe' = IF s.ans = << >> THEN maybe ELSE Answered(c, s.ans, maybe)
    /\ UNCHANGED <<family, left>>

Half(c, p) ==
    \/ family = "ledger" /\ Ledgers!HalfReported(flight[c].call, flight[c], p)
    \/ family = "timelines" /\ Ledgers!HalfBatch(flight[c].call, flight[c])

\* The connection or the request's context ends: before the statement, or
\* after the last one.
StoreFailure(c) ==
    /\ Calling(c) /\ left > 0
    /\ LET s == Pg(pg, flight[c].call, flight[c])
       IN  \/ pg' = pg /\ parted' = IF Half(c, pg) THEN {"half"} ELSE {}
           \/ s.ans # << >> /\ pg' = s.pg /\ parted' = s.why
    /\ flight' = [flight EXCEPT ![c] = Away]
    /\ maybe' = {[conf EXCEPT !.ans[c] = << >>] : conf \in maybe}
    /\ left' = left - 1
    /\ UNCHANGED family

\* A behaviour ends where the stores are known to part.
StoreNext ==
    /\ parted = {}
    /\ \E c \in Clients : StoreCall(c) \/ StoreStatement(c) \/ StoreFailure(c)
----------------------------------------------------------------------------
(* Properties.                                                             *)

Agree ==
    /\ maybe # {}
    /\ (\A c \in Clients : ~Calling(c)) =>
            \E conf \in maybe : MemReads(conf.mem) = PgReads(pg)

\* Whatever the statements of two calls about Changes, their reviews or
\* their check runs do to each other, there is an order in which MemStore
\* would have given the same answers and would show the same afterwards,
\* unless an abandon overwrote a land or a stale pass was carried.
ChangesActAtomically ==
    family \in {"rows", "new rows", "reviews", "runs"} /\ parted = {} => Agree

\* The same of deploy records, releases, the two queues, workspaces and
\* timelines; the exceptions are the counts read before, a failure after a
\* success (which only MemStore counts as an attempt), twins, a second
\* deletion, mixed batches and what a failed call left half done.
LedgersActAtomically ==
    family \in {"ledger", "deliveries", "invites", "workspaces", "timelines"}
        /\ parted = {} => Agree

\* The same of orgs, agents and mirror cursors, unless a call is about
\* something that has no row, or a mint sweeps.
DirectoryActsAtomically ==
    family \in {"orgs", "agents", "cursors"} /\ parted = {} => Agree

\* StoresAgree - of every family of calls: Postgres acts as if one call came after
\* the other and shows what MemStore would, the named partings apart.
StoresAgree == ChangesActAtomically /\ LedgersActAtomically /\ DirectoryActsAtomically
=============================================================================
