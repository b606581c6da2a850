----------------------------- MODULE InviteMail ------------------------------
(***************************************************************************)
(* Invite requests and contact messages: the public intake with its rate   *)
(* limit and backlog cap, the rows of invite_requests, the operator's feed *)
(* and the mailer that drains it.                                          *)
(*                                                                         *)
(* Data.  An address stands for a kind and an email; rows are numbered as  *)
(* they come.  The validations of a form that is refused, and the honeypot,*)
(* change nothing and are left out.  A hit is the number of the submission *)
(* it came from.  Times are ages in ticks; a hit older than the window has *)
(* age RateWindow.  The store is PostgresStore.                            *)
(***************************************************************************)
EXTENDS Backoff, Sequences, FiniteSets

CONSTANTS Addresses, NoAddress,
          Visitors,       \* the intake requests served at one time
          Peers,          \* clientIP's answers
          RateLimit, RateWindow,   \* inviteRateLimit and -Window
          BacklogCap,     \* inviteBacklogCap
          MaxInvites,     \* bound: submissions
          MaxInviteLoad   \* bound: submissions and failed calls, of SMTP and of
                          \* the feed, together

ASSUME InviteAssumption ==
    /\ NoAddress \notin Addresses /\ RateLimit \in Nat \ {0}
    /\ RateWindow \in Nat \ {0} /\ BacklogCap \in Nat
    /\ MaxInvites \in Nat /\ MaxInviteLoad \in Nat
    /\ IsFiniteSet(Visitors) /\ Visitors # {}

VARIABLES invites,     \* the rows of invite_requests
          intake,      \* the intake requests in flight
          submitted,   \* the submissions so far
          hits,        \* inviteLimiter.hits of each peer
          ages,        \* the ages of the submissions the limiter let in
          poll,        \* Mailer.PollOnce
          lateAcks,    \* acks whose client has given up
          mailed,      \* the rows an email went out for
          revived,     \* how often an ack made a row live again that was done
          mailFaults,
          admitted     \* history: what the limiter of this life of the daemon
                       \* let in, while in the window

inviteVars == <<invites, intake, submitted, hits, ages, poll, lateAcks, mailed,
                revived, mailFaults, admitted>>
limiterVars == <<hits, ages, admitted>>

----------------------------------------------------------------------------
NoVisit == [pc |-> "idle", address |-> NoAddress]
NoPoll == [pc |-> "idle", todo |-> {}, at |-> 0, ok |-> TRUE, reason |-> TRUE]

Live(r) == r.status \in {"pending", "failed"}
LiveRows == {n \in DOMAIN invites : Live(invites[n])}
LiveAt(a) == {n \in LiveRows : invites[n].address = a}

InviteLoad == submitted + mailFaults < MaxInviteLoad

MailFault == InviteLoad /\ mailFaults' = mailFaults + 1

\* Mutant: a window that is a tick too short.
KeptHitsShort(hs) == {n \in hs : ages[n] + 1 < RateWindow}

\* inviteLimiter.allow: the hits that still count.
KeptHits(hs) == {n \in hs : ages[n] < RateWindow}

\* inviteRequestCore up to the limiter, which remembers what it lets in.
Submit(v, p, a) ==
    /\ intake[v].pc = "idle" /\ submitted < MaxInvites /\ InviteLoad
    /\ submitted' = submitted + 1
    /\ IF Cardinality(KeptHits(hits[p])) >= RateLimit
       THEN /\ hits' = [hits EXCEPT ![p] = KeptHits(@)]
            /\ UNCHANGED <<intake, ages, admitted>>
       ELSE /\ hits' = [hits EXCEPT ![p] = KeptHits(@) \cup {submitted + 1}]
            /\ ages' = [ages EXCEPT ![submitted + 1] = 0]
            /\ admitted' = [admitted EXCEPT ![p] = @ \cup {submitted + 1}]
            /\ intake' = [intake EXCEPT ![v] = [pc |-> "count", address |-> a]]
    /\ UNCHANGED <<invites, poll, lateAcks, mailed, revived, mailFaults>>

\* Mutant: one more than the cap.
BacklogFullLate == Cardinality(LiveRows) > BacklogCap

BacklogFull == Cardinality(LiveRows) >= BacklogCap

\* CountLiveInviteRequests against the cap ...
CountBacklog(v) ==
    /\ intake[v].pc = "count"
    /\ intake' = [intake EXCEPT ![v] = IF BacklogFull THEN NoVisit
                                       ELSE [@ EXCEPT !.pc = "create"]]
    /\ UNCHANGED <<invites, submitted, limiterVars, poll, lateAcks, mailed, revived,
                   mailFaults>>

\* ... and CreateInviteRequest, which leaves a live row of the address alone.
CreateInviteRequest(v) ==
    /\ intake[v].pc = "create"
    /\ invites' = IF LiveAt(intake[v].address) # {} THEN invites
                  ELSE Append(invites, [address |-> intake[v].address,
                          status |-> "pending", attempt |-> 0, wait |-> 0])
    /\ intake' = [intake EXCEPT ![v] = NoVisit]
    /\ UNCHANGED <<submitted, limiterVars, poll, lateAcks, mailed, revived,
                   mailFaults>>

----------------------------------------------------------------------------
\* Mutant: a row that failed is not listed again.
DueFresh == {n \in LiveRows : invites[n].status = "pending"}

DueInvites == {n \in LiveRows : invites[n].wait = 0}

\* ListDue.
ListDue ==
    /\ poll.pc = "idle" /\ DueInvites # {}
    /\ poll' = [NoPoll EXCEPT !.pc = "send", !.todo = DueInvites]
    /\ UNCHANGED <<invites, intake, submitted, limiterVars, lateAcks, mailed, revived,
                   mailFaults>>

\* Mailer.send of the oldest row: the conversation may fail before or after the
\* message is accepted; its error may carry no text.
Send ==
    /\ poll.pc = "send" /\ poll.todo # {}
    /\ \E row \in poll.todo :
          LET sent(ok, reason) == [pc |-> "ack", todo |-> poll.todo \ {row}, at |-> row,
                                   ok |-> ok, reason |-> reason]
          IN  /\ \A other \in poll.todo : row <= other
              /\ \/ /\ mailed' = mailed \cup {row} /\ poll' = sent(TRUE, TRUE)
                    /\ UNCHANGED mailFaults
                 \/ /\ MailFault /\ mailed' \in {mailed, mailed \cup {row}}
                    /\ \E reason \in BOOLEAN : poll' = sent(FALSE, reason)
    /\ UNCHANGED <<invites, intake, submitted, limiterVars, lateAcks, revived>>

\* The poll is over.
PollEnds ==
    /\ poll.pc = "send" /\ poll.todo = {}
    /\ poll' = NoPoll
    /\ UNCHANGED <<invites, intake, submitted, limiterVars, lateAcks, mailed, revived,
                   mailFaults>>

\* Mutant: the store is handed the empty text of the error.
FailsRowWithText(ack) == ~ack.ok /\ ack.reason

\* MarkFailed puts a text of its own where the error has none: to the store
\* no text means success.
FailsRow(ack) == ~ack.ok

\* RecordInviteSendResult.  The index on live addresses refuses a row that
\* would become live beside another one.
Applied(ack) ==
    LET r == invites[ack.row]
        failed == Failed(r, 0)
    IN  IF ~FailsRow(ack) THEN [invites EXCEPT ![ack.row].status = "sent"]
        ELSE IF Live(failed) /\ LiveAt(r.address) \ {ack.row} # {} THEN invites
        ELSE [invites EXCEPT ![ack.row] = failed]

\* The feed applies an ack.
Records(ack) ==
    /\ invites' = Applied(ack)
    /\ revived' = IF ~Live(invites[ack.row]) /\ Live(Applied(ack)[ack.row])
                  THEN revived + 1 ELSE revived

\* AckSent or AckFailed: answered, lost on the way, or applied after the
\* client gave up on it.
Ack ==
    /\ poll.pc = "ack"
    /\ LET ack == [row |-> poll.at, ok |-> poll.ok, reason |-> poll.reason]
       IN  \/ Records(ack) /\ UNCHANGED <<lateAcks, mailFaults>>
           \/ /\ MailFault /\ UNCHANGED <<invites, revived>>
              /\ lateAcks' \in {lateAcks, lateAcks \cup {ack}}
    /\ poll' = [NoPoll EXCEPT !.pc = "send", !.todo = poll.todo]
    /\ UNCHANGED <<intake, submitted, limiterVars, mailed>>

LateAck ==
    /\ \E ack \in lateAcks : Records(ack) /\ lateAcks' = lateAcks \ {ack}
    /\ UNCHANGED <<intake, submitted, limiterVars, poll, mailed, mailFaults>>

\* The mailer restarts; it keeps nothing.
MailerRestart ==
    /\ poll.pc # "idle" /\ MailFault
    /\ poll' = NoPoll
    /\ UNCHANGED <<invites, intake, submitted, limiterVars, lateAcks, mailed, revived>>

\* runkod restarts: the limiter's hits were in its memory, and the requests in
\* flight die with it.  The mailer is a process of its own.
RunkodRestart ==
    /\ MailFault
    /\ hits' = [p \in Peers |-> {}] /\ admitted' = [p \in Peers |-> {}]
    /\ intake' = [v \in Visitors |-> NoVisit] /\ lateAcks' = {}
    /\ UNCHANGED <<invites, submitted, ages, poll, mailed, revived>>

\* Time passes, while anything waits for it.
InviteTick ==
    /\ \/ \E n \in LiveRows : invites[n].wait > 0
       \/ \E p \in Peers : KeptHits(hits[p]) # {}
    /\ invites' = [n \in DOMAIN invites |->
          IF invites[n].wait = 0 THEN invites[n]
          ELSE [invites[n] EXCEPT !.wait = @ - 1]]
    /\ ages' = [n \in 1 .. MaxInvites |-> IF ages[n] < RateWindow THEN ages[n] + 1
                                          ELSE ages[n]]
    /\ admitted' = [p \in Peers |-> {n \in admitted[p] : ages'[n] < RateWindow}]
    /\ UNCHANGED <<intake, submitted, hits, poll, lateAcks, mailed, revived, mailFaults>>

Visit(v) == CountBacklog(v) \/ CreateInviteRequest(v)
MailerStep == ListDue \/ Send \/ Ack \/ PollEnds

InviteInit ==
    /\ invites = << >> /\ submitted = 0 /\ revived = 0 /\ mailFaults = 0
    /\ intake = [v \in Visitors |-> NoVisit]
    /\ hits = [p \in Peers |-> {}] /\ admitted = [p \in Peers |-> {}]
    /\ ages = [n \in 1 .. MaxInvites |-> RateWindow]
    /\ poll = NoPoll /\ lateAcks = {} /\ mailed = {}

InviteNext ==
    \/ \E v \in Visitors : \/ Visit(v)
                           \/ \E p \in Peers, a \in Addresses : Submit(v, p, a)
    \/ MailerStep \/ LateAck \/ MailerRestart \/ RunkodRestart \/ InviteTick

\* What visitors, the mailer and the feed may do.
InviteSpec == InviteInit /\ [][InviteNext]_inviteVars

----------------------------------------------------------------------------
(* Properties.                                                             *)

\* SentWasMailed - a request marked sent is in the operator's mailbox: lost,
\* late and textless acks never mark one sent that no email went out for
\* (MarkFailed, RecordInviteSendResult).
SentWasMailed ==
    \A n \in DOMAIN invites : invites[n].status = "sent" => n \in mailed

\* BacklogBounded - "the backlog cap is the hard backstop": as many intakes
\* as are served at one time may pass the count together, and of two acks of a row
\* the failure may make it live again; beyond that the live rows keep to the cap
\* (inviteRequestCore, CountLiveInviteRequests).
BacklogBounded ==
    Cardinality(LiveRows) <= BacklogCap + Cardinality(Visitors) - 1 + revived

\* RateBounded - as long as the daemon does not restart, no peer gets more than the
\* limit into any window, also across the moment its oldest hit expires; a restart
\* gives every peer the limit again (inviteLimiter.allow and its hits in memory).
RateBounded == \A p \in Peers : Cardinality(admitted[p]) <= RateLimit

\* InvitesSettle - when no more requests come in, every one ends in the
\* operator's mailbox or as a dead letter, whatever the SMTP server, the feed
\* and the acks did.
InvitesSettle == []<>(LiveRows = {})

\* InvitesKept - what the invite desk promises at any time: sent means mailed, the
\* backlog keeps to its cap and, between two restarts of the daemon, a peer to its rate
\* (invites.go, invitemailer).
InvitesKept == SentWasMailed /\ BacklogBounded /\ RateBounded
=============================================================================
