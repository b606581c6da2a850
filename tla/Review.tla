------------------------------- MODULE Review -------------------------------
(***************************************************************************)
(* The conversation on one Change: comments in threads, resolving them,    *)
(* review requests and approvals, from the CLI verb to the row and the     *)
(* webhook, beside amends and the Change's end; and whose turn it is, the  *)
(* attention set derived from all that.                                    *)
(*                                                                         *)
(* Data.  Heads are numbers.  A comment has an anchor (a line of the one   *)
(* file, or the Change) and the head the server stamps on it.  An owner is *)
(* named "user", "name" or "group": user:<name>, <name> or group:<name>.   *)
(***************************************************************************)
EXTENDS Naturals, Sequences, FiniteSets

CONSTANTS Talks,       \* the cases: author, owners, agents, who amends, the calls
          MaxAmends,   \* bound: amends
          MaxUpsets    \* bound: failing writes

IsOwner(o) == o[1] \in {"user", "name", "group"} /\ o = <<o[1], o[2]>>

ASSUME ReviewAssumption ==
    \A t \in Talks :
        /\ \A o \in t.owners : IsOwner(o)
        /\ \A v \in DOMAIN t.calls : t.calls[v].kind = "request" => IsOwner(t.calls[v].of)

VARIABLES talk,        \* the case
          thread,      \* the Change: head and its author, state, comments, requests, approvals
          verbs,       \* the calls in flight
          announced,   \* the outbox's events: <<kind, what>>
          oddities,    \* history: what came between two steps of a call
          amends, upsets

reviewVars == <<talk, thread, verbs, announced, oddities, amends, upsets>>

Unnamed == ""
Verb(v) == talk.calls[v]
NoVerb == [pc |-> "start", looked |-> 0, row |-> 0, new |-> 0]

ReviewInit ==
    /\ talk \in Talks
    /\ thread = [head |-> 1, author |-> talk.author, state |-> "open", comments |-> << >>,
                 requests |-> {}, approvals |-> {}]
    /\ verbs = [v \in DOMAIN talk.calls |-> NoVerb]
    /\ announced = {} /\ oddities = {} /\ amends = 0 /\ upsets = 0

TalkOwners == talk.owners
Declined(v) == verbs' = [verbs EXCEPT ![v].pc = "refused"]
Arrived(v, kind) == verbs[v].pc = "sent" /\ Verb(v).kind = kind
Loaded(v) == verbs' = [verbs EXCEPT ![v].pc = "loaded", ![v].row = thread.head]

\* The CLI verbs: what the caller last saw of the Change is the head it shows.
PostVerb(v, kind) ==
    /\ verbs[v].pc = "start" /\ Verb(v).kind = kind
    /\ verbs' = [verbs EXCEPT ![v].pc = "sent", ![v].looked = thread.head]
    /\ UNCHANGED <<talk, thread, announced, oddities, amends, upsets>>
CommentVerb(v) == PostVerb(v, "comment")
ResolveVerb(v) == PostVerb(v, "resolve")
RequestReviewVerb(v) == PostVerb(v, "request")
ApproveVerb(v) == PostVerb(v, "approve")

-----------------------------------------------------------------------------
(* commentChangeCore.                                                       *)
RootsOnly(parent) == \/ parent = 0
                     \/ /\ parent \in DOMAIN thread.comments
                        /\ thread.comments[parent].parent = 0
\* mutant: a reply may answer a reply
AnyParent(parent) == parent = 0 \/ parent \in DOMAIN thread.comments
\* threads are one level deep
ParentAllowed(parent) == RootsOnly(parent)

CommentRead(v) ==
    /\ Arrived(v, "comment")
    /\ IF thread.state = "open" /\ Verb(v).who # Unnamed /\ ParentAllowed(Verb(v).parent)
       THEN Loaded(v) ELSE Declined(v)
    /\ UNCHANGED <<talk, thread, announced, oddities, amends, upsets>>

CommentOf(v) ==
    [author |-> Verb(v).who, agent |-> Verb(v).who \in talk.agents, parent |-> Verb(v).parent,
     anchor |-> IF Verb(v).parent = 0 THEN Verb(v).anchor ELSE "thread",
     head |-> verbs[v].row, resolved |-> FALSE, looked |-> verbs[v].looked]

\* the answer is to a head the caller has not seen
Unseen(v) == IF verbs[v].row = verbs[v].looked THEN {} ELSE {<<"unseen", Verb(v).who>>}

\* the id is the one the write returns
InsertedID == Len(thread.comments) + 1
\* mutant: the id read with the row
CountedID == Len(thread.comments)
NewCommentID == InsertedID

CreateComment(v) ==
    /\ verbs[v].pc = "loaded" /\ Verb(v).kind = "comment"
    /\ thread' = [thread EXCEPT !.comments = Append(@, CommentOf(v))]
    /\ verbs' = [verbs EXCEPT ![v].pc = "announce", ![v].new = NewCommentID]
    /\ oddities' = oddities \cup Unseen(v)
    /\ UNCHANGED <<talk, announced, amends, upsets>>

\* the outbox row; a failure is logged
EnqueueCommentWebhook(v) ==
    /\ verbs[v].pc = "announce" /\ Verb(v).kind = "comment"
    /\ announced' = announced \cup {<<"comment", verbs[v].new>>}
    /\ verbs' = [verbs EXCEPT ![v].pc = "done"]
    /\ UNCHANGED <<talk, thread, oddities, amends, upsets>>

-----------------------------------------------------------------------------
(* resolveCommentCore, with what its caller may resolve.                    *)
\* The one file's project owns every anchor; a group's members are unknown.
PrincipalOwnsAnchor(who) == <<"user", who>> \in TalkOwners

ResolveRead(v) ==
    LET id == Verb(v).parent IN
    /\ Arrived(v, "resolve")
    /\ IF /\ thread.state = "open" /\ id \in DOMAIN thread.comments
          /\ thread.comments[id].parent = 0
          /\ \/ Verb(v).who \in {Unnamed, thread.author, thread.comments[id].author}
             \/ PrincipalOwnsAnchor(Verb(v).who)
       THEN Loaded(v) ELSE Declined(v)
    /\ UNCHANGED <<talk, thread, announced, oddities, amends, upsets>>

SetCommentResolved(v) ==
    /\ verbs[v].pc = "loaded" /\ Verb(v).kind = "resolve"
    /\ thread' = [thread EXCEPT !.comments[Verb(v).parent].resolved = Verb(v).anchor # "reopen"]
    /\ verbs' = [verbs EXCEPT ![v].pc = "done"]
    /\ oddities' = oddities \cup Unseen(v)
    /\ UNCHANGED <<talk, announced, amends, upsets>>

-----------------------------------------------------------------------------
(* requestReviewCore and approveChangeCore.                                 *)
RequestReviewRead(v) ==
    /\ Arrived(v, "request")
    /\ IF thread.state = "open" THEN Loaded(v) ELSE Declined(v)
    /\ UNCHANGED <<talk, thread, announced, oddities, amends, upsets>>

UpsertReviewRequest(v) ==
    /\ verbs[v].pc = "loaded" /\ Verb(v).kind = "request"
    /\ thread' = [thread EXCEPT !.requests = @ \cup {Verb(v).of}]
    /\ verbs' = [verbs EXCEPT ![v].pc = "announce"]
    /\ oddities' = oddities \cup Unseen(v)
    /\ UNCHANGED <<talk, announced, amends, upsets>>

EnqueueReviewRequestWebhook(v) ==
    /\ verbs[v].pc = "announce" /\ Verb(v).kind = "request"
    /\ announced' = announced \cup {<<"request", Verb(v).of>>}
    /\ verbs' = [verbs EXCEPT ![v].pc = "done"]
    /\ UNCHANGED <<talk, thread, oddities, amends, upsets>>

ApproveChangeRead(v) ==
    /\ Arrived(v, "approve")
    /\ IF /\ thread.state = "open" /\ Verb(v).of \in TalkOwners
          /\ Verb(v).who \notin talk.agents \cup {Unnamed, thread.author}
       THEN Loaded(v) ELSE Declined(v)
    /\ UNCHANGED <<talk, thread, announced, oddities, amends, upsets>>

RecordApproval(v) ==
    /\ verbs[v].pc = "loaded" /\ Verb(v).kind = "approve"
    /\ thread' = [thread EXCEPT !.approvals = @ \cup {<<Verb(v).of, verbs[v].row>>}]
    /\ verbs' = [verbs EXCEPT ![v].pc = "done"]
    /\ oddities' = oddities \cup Unseen(v)
    /\ UNCHANGED <<talk, announced, amends, upsets>>

\* the write of a loaded call fails, or the outbox does
StoreFails(v) ==
    /\ verbs[v].pc \in {"loaded", "announce"} /\ upsets < MaxUpsets /\ upsets' = upsets + 1
    /\ verbs' = [verbs EXCEPT ![v].pc = IF @ = "loaded" THEN "refused" ELSE "done"]
    /\ oddities' = IF verbs[v].pc = "loaded" THEN oddities
                   ELSE oddities \cup {<<"unannounced", Verb(v).who>>}
    /\ UNCHANGED <<talk, thread, announced, amends>>

Amend ==
    /\ thread.state = "open" /\ amends < MaxAmends /\ amends' = amends + 1
    /\ \E who \in talk.amenders : thread' = [thread EXCEPT !.head = @ + 1, !.author = who]
    /\ UNCHANGED <<talk, verbs, announced, oddities, upsets>>

ChangeCloses ==
    /\ thread.state = "open" /\ thread' = [thread EXCEPT !.state = "closed"]
    /\ UNCHANGED <<talk, verbs, announced, oddities, amends, upsets>>

ReviewNext ==
    \/ \E v \in DOMAIN verbs :
        \/ CommentVerb(v) \/ ResolveVerb(v) \/ RequestReviewVerb(v) \/ ApproveVerb(v)
        \/ CommentRead(v) \/ CreateComment(v) \/ EnqueueCommentWebhook(v)
        \/ ResolveRead(v) \/ SetCommentResolved(v)
        \/ RequestReviewRead(v) \/ UpsertReviewRequest(v) \/ EnqueueReviewRequestWebhook(v)
        \/ ApproveChangeRead(v) \/ RecordApproval(v) \/ StoreFails(v)
    \/ Amend \/ ChangeCloses

ReviewSpec == ReviewInit /\ [][ReviewNext]_reviewVars

-----------------------------------------------------------------------------
(* Whose turn it is (attentionSet).                                         *)
Comments == {thread.comments[k] : k \in DOMAIN thread.comments}
CommentedEver == {c.author : c \in Comments}
CommentedNow == {c.author : c \in {d \in Comments : d.head = thread.head}}
Commented == CommentedNow

\* <name> is satisfied by its owner's own push; user:<name> is not the same ref.
Satisfied(o) == \/ <<o, thread.head>> \in thread.approvals
                \/ o = <<"name", thread.author>> /\ thread.author \notin talk.agents
Responded == \/ \E who \in Commented : who # thread.author
             \/ \E o \in TalkOwners : Satisfied(o)
AskedReviewers == thread.requests \ {<<"name", w>> : w \in Commented \cup {thread.author}}
AskedOwners ==
    {o \in TalkOwners : /\ ~Satisfied(o)
                        /\ o[1] = "user" => o[2] \notin Commented \cup {thread.author}}

\* mutant: the author is not told of an answer
NoAuthor == {}
AskedAuthor == IF Responded /\ thread.author # Unnamed THEN {<<"name", thread.author>>} ELSE {}
AttentionSet == AskedReviewers \cup AskedOwners \cup AskedAuthor

\* runko change comments: the thread roots with their replies
ShownThreads ==
    LET roots == {k \in DOMAIN thread.comments : thread.comments[k].parent = 0}
    IN  roots \cup {k \in DOMAIN thread.comments : thread.comments[k].parent \in roots}

Odd(why, who) == <<why, who>> \in oddities

(* An open Change that waits for an owner or a reviewer is in somebody's    *)
(* attention set: an answer moves the turn to the author and an amend moves *)
(* it back.  Nobody is asked when the Change has no named author, or waits  *)
(* only for user:<author>, which the author's push does not satisfy as      *)
(* <author> would (review.go:353-407, api.go:1346).                         *)
SomebodyIsAsked ==
    thread.state = "open" /\ thread.author # Unnamed =>
        \/ AttentionSet # {}
        \/ /\ \A o \in TalkOwners : Satisfied(o) \/ o = <<"user", thread.author>>
           /\ thread.requests \subseteq {<<"name", thread.author>>}

(* Who was asked and is out of the attention set has answered the head as   *)
(* it is now, having seen it - unless an amend came between the reviewer's  *)
(* look and the handler's, which stamps the head it reads (actions.go:201). *)
AnswersThisHead ==
    LET asked == {o \in TalkOwners : o[1] = "user"} \cup {r \in thread.requests : r[1] # "group"} IN
    \A who \in {r[2] : r \in asked} \ {thread.author} :
        {<<"name", who>>, <<"user", who>>} \cap AttentionSet = {} =>
            \/ \E c \in Comments : c.author = who /\ c.looked = thread.head
            \/ <<"user", who>> \in TalkOwners /\ Satisfied(<<"user", who>>)
            \/ Odd("unseen", who)

(* Every comment that is stored is shown by `runko change comments`, which  *)
(* lists roots and their replies (comments.go:232).                         *)
AllCommentsShown == ShownThreads = DOMAIN thread.comments

(* What the outbox says of comments and requests is so, and every comment   *)
(* whose handler has answered is announced, unless the outbox failed        *)
(* (review.go:270-330).                                                     *)
AnnouncedIsStored ==
    /\ \A a \in announced : IF a[1] = "comment" THEN a[2] \in DOMAIN thread.comments
                            ELSE a[2] \in thread.requests
    /\ \A v \in DOMAIN verbs : verbs[v].pc = "done" /\ Verb(v).kind = "comment" =>
           <<"comment", verbs[v].new>> \in announced \/ Odd("unannounced", Verb(v).who)

(* The conversation tells whose turn it is, shows all of itself, and announces *)
(* what is stored (review.go, comments.go).                                    *)
ReviewHonest == SomebodyIsAsked /\ AnswersThisHead /\ AllCommentsShown /\ AnnouncedIsStored
=============================================================================
