------------------------------ MODULE Dispatch ------------------------------
(***************************************************************************)
(* From the outbox to GitHub and back: runko-bridge, which turns signed    *)
(* webhooks into repository_dispatch calls, the GitHub App client that     *)
(* mints its tokens, and the provisioning of a repository with the two     *)
(* values CI reports back with.                                            *)
(*                                                                         *)
(* Data.  An event has a delivery id, a type and an org.  Installations    *)
(* and tokens are numbers, 0 is none; a token is known by when it was made *)
(* and for which installation.  A connect writes its own name as both of   *)
(* its values.  Signatures, bodies and encryption are left out: a webhook  *)
(* that is not signed is refused and changes nothing.                      *)
(***************************************************************************)
EXTENDS Naturals, Sequences, FiniteSets, SequencesExt

CONSTANTS Routes,      \* the cases: events, auth, connects, bounds
          MaxSeen,     \* the ids newSeenSet keeps
          TokenLife, RefreshMargin,
          LastTick     \* bound: time

ASSUME DispatchAssumption ==
    /\ {MaxSeen, TokenLife, RefreshMargin, LastTick} \subseteq Nat
    /\ MaxSeen > 0 /\ RefreshMargin < TokenLife
    /\ \A r \in Routes : /\ r.app \in BOOLEAN /\ {r.attempts, r.mishaps} \subseteq Nat
                         /\ "" \notin DOMAIN r.connects

VARIABLES route,       \* the case
          posts,       \* the outbox's POSTs, in the order they were sent
          acked,       \* the events the outbox saw a 2xx for
          seen,        \* the bridge's seenSet, oldest first
          app,         \* the App client: its installation, its token, who mints
          github,      \* GitHub: the installation, what it accepted, the CI values
          connects,    \* the connects: where each is
          tick, lapses, \* the time; history: what excuses what, as pairs
          mishapsLeft

dispatchVars == <<route, posts, acked, seen, app, github, connects, tick, lapses, mishapsLeft>>

NoMinter == 0
NoToken == [born |-> 0, install |-> 0]
Over == {"acked", "failed"}
MailOf(k) == route.mail[posts[k].event]
Served(k) == posts[k].at \notin Over
PostAt(k, at) == k \in DOMAIN posts /\ posts[k].at = at
PostGoes(k, at) == posts' = [posts EXCEPT ![k].at = at]
Lapse(why, what) == lapses' = lapses \cup {<<why, what>>}

DispatchInit ==
    /\ route \in Routes
    /\ posts = << >> /\ acked = {} /\ seen = << >> /\ lapses = {} /\ tick = 1
    /\ app = [install |-> 0, token |-> NoToken, minter |-> NoMinter]
    /\ github = [install |-> 1, accepted |-> << >>, variable |-> "", secret |-> "", key |-> 1]
    /\ connects = [c \in DOMAIN route.connects |-> [at |-> "start", key |-> 0]]
    /\ mishapsLeft = route.mishaps

\* The outbox posts an event until it is acknowledged; a POST it gave up on may
\* still be served.
Post(e) ==
    /\ e \notin acked
    /\ \A k \in DOMAIN posts : posts[k].event = e => ~Served(k) \/ posts[k].gone
    /\ Len(SelectSeq(posts, LAMBDA p : p.event = e)) < route.attempts
    /\ posts' = Append(posts, [event |-> e, at |-> "in", gone |-> FALSE, cached |-> FALSE,
                               token |-> NoToken, taken |-> 0])
    /\ UNCHANGED <<route, acked, seen, app, github, connects, tick, lapses, mishapsLeft>>

HangUp(k) ==
    /\ k \in DOMAIN posts /\ Served(k) /\ ~posts[k].gone
    /\ mishapsLeft > 0 /\ mishapsLeft' = mishapsLeft - 1
    /\ posts' = [posts EXCEPT ![k].gone = TRUE]
    /\ UNCHANGED <<route, acked, seen, app, github, connects, tick, lapses>>

-----------------------------------------------------------------------------
(* The bridge.                                                              *)
Noted(id) == id \in ToSet(seen)
\* mutant: a delivered event is not remembered
NothingNoted(id) == seen
AddedBounded(id) ==
    LET longer == IF Noted(id) THEN seen ELSE Append(seen, id)
    IN  IF Len(longer) > MaxSeen THEN Tail(longer) ELSE longer
Added(id) == AddedBounded(id)

ForThisBridge(e) == e.type \in {"updated", "rerun"} /\ e.org = "own"

Acknowledge(k) ==
    /\ PostGoes(k, "acked")
    /\ acked' = IF posts[k].gone THEN acked ELSE acked \cup {posts[k].event}

HandleWebhook(k) ==
    /\ PostAt(k, "in")
    /\ IF ~ForThisBridge(MailOf(k)) \/ Noted(MailOf(k).id)
       THEN Acknowledge(k) /\ UNCHANGED lapses
       ELSE /\ PostGoes(k, "token") /\ UNCHANGED acked
            /\ IF \E j \in DOMAIN posts \ {k} : /\ Served(j) /\ posts[j].at # "in"
                                                /\ MailOf(j).id = MailOf(k).id
               THEN Lapse("overlap", MailOf(k).id) ELSE UNCHANGED lapses
    /\ UNCHANGED <<route, seen, app, github, connects, tick, mishapsLeft>>

\* mutant: answered like any other delivery
Answer204(k) == Acknowledge(k)
Answer502(k) == PostGoes(k, "failed") /\ UNCHANGED acked
\* GitHub's failure is the bridge's, so that the outbox sends the event again.
BadGateway(k) == Answer502(k)

Alive(t) == tick < t.born + TokenLife /\ t.install = github.install
Refusal(k) == IF posts[k].token.install # github.install THEN "reinstalled"
              ELSE IF tick > posts[k].taken + RefreshMargin THEN "held too long" ELSE "stale"

\* POST .../dispatches; a caller that hung up cancels it before it is sent
SendDispatch(k) ==
    /\ PostAt(k, "send")
    /\ IF ~posts[k].gone /\ (~route.app \/ Alive(posts[k].token))
       THEN /\ PostGoes(k, "sent") /\ UNCHANGED <<acked, lapses>>
            /\ github' = [github EXCEPT !.accepted = Append(@, MailOf(k).id)]
       ELSE /\ BadGateway(k) /\ UNCHANGED github
            /\ IF posts[k].gone THEN UNCHANGED lapses ELSE Lapse("refused", Refusal(k))
    /\ UNCHANGED <<route, seen, app, connects, tick, mishapsLeft>>

\* ... or its answer is lost: 502
DispatchLost(k) ==
    /\ PostAt(k, "sent") /\ mishapsLeft > 0 /\ mishapsLeft' = mishapsLeft - 1
    /\ BadGateway(k) /\ Lapse("lost answer", MailOf(k).id)
    /\ UNCHANGED <<route, seen, app, github, connects, tick>>

Dispatched204(k) ==
    /\ PostAt(k, "sent") /\ seen' = Added(MailOf(k).id) /\ Acknowledge(k)
    /\ lapses' = lapses \cup {<<"evicted", id>> : id \in ToSet(seen) \ ToSet(seen')}
    /\ UNCHANGED <<route, app, github, connects, tick, mishapsLeft>>

BridgeRestart ==
    /\ mishapsLeft > 0 /\ mishapsLeft' = mishapsLeft - 1
    /\ posts' = [k \in DOMAIN posts |-> IF Served(k) THEN [posts[k] EXCEPT !.at = "failed"]
                                        ELSE posts[k]]
    /\ seen' = << >> /\ app' = [install |-> 0, token |-> NoToken, minter |-> NoMinter]
    /\ lapses' = lapses \cup {<<"restart", id>> : id \in ToSet(github.accepted)}
    /\ UNCHANGED <<route, acked, github, connects, tick>>

-----------------------------------------------------------------------------
(* runkogithubapp: Token and mint, under the mutex.                         *)
\* mutant: a token is served until it expires
NoMargin(t) == t # NoToken /\ tick < t.born + TokenLife
WithMargin(t) == t # NoToken /\ tick + RefreshMargin < t.born + TokenLife
Fresh(t) == WithMargin(t)

Take(k, t) == posts' = [posts EXCEPT ![k].at = "send", ![k].token = t, ![k].taken = tick]

Token(k) ==
    /\ PostAt(k, "token") /\ app.minter = NoMinter
    /\ IF ~route.app \/ Fresh(app.token)
       THEN Take(k, app.token) /\ UNCHANGED app
       ELSE /\ app' = [app EXCEPT !.minter = k]
            /\ posts' = [posts EXCEPT ![k].at = IF app.install = 0 THEN "lookup" ELSE "create",
                                      ![k].cached = app.install # 0]
    /\ UNCHANGED <<route, acked, seen, github, connects, tick, lapses, mishapsLeft>>

LookupInstallation(k) ==
    /\ PostAt(k, "lookup")
    /\ app' = [app EXCEPT !.install = github.install]
    /\ PostGoes(k, "create")
    /\ UNCHANGED <<route, acked, seen, github, connects, tick, lapses, mishapsLeft>>

\* a stale installation is resolved again once
CreateToken(k) ==
    /\ PostAt(k, "create")
    /\ IF app.install = github.install
       THEN LET t == [born |-> tick, install |-> app.install]
            IN  /\ Take(k, t) /\ app' = [app EXCEPT !.token = t, !.minter = NoMinter]
                /\ UNCHANGED acked
       ELSE IF posts[k].cached
            THEN /\ posts' = [posts EXCEPT ![k].at = "lookup", ![k].cached = FALSE]
                 /\ app' = [app EXCEPT !.install = 0] /\ UNCHANGED acked
            ELSE BadGateway(k) /\ app' = [app EXCEPT !.minter = NoMinter]
    /\ UNCHANGED <<route, seen, github, connects, tick, lapses, mishapsLeft>>

MintFails(k) ==
    /\ k \in DOMAIN posts /\ posts[k].at \in {"lookup", "create"}
    /\ mishapsLeft > 0 /\ mishapsLeft' = mishapsLeft - 1
    /\ BadGateway(k) /\ app' = [app EXCEPT !.minter = NoMinter]
    /\ UNCHANGED <<route, seen, github, connects, tick, lapses>>

TimeGoesOn ==
    /\ tick < LastTick /\ tick' = tick + 1
    /\ UNCHANGED <<route, posts, acked, seen, app, github, connects, lapses, mishapsLeft>>

Reinstalled ==
    /\ mishapsLeft > 0 /\ mishapsLeft' = mishapsLeft - 1
    /\ github' = [github EXCEPT !.install = @ + 1]
    /\ UNCHANGED <<route, posts, acked, seen, app, connects, tick, lapses>>

-----------------------------------------------------------------------------
(* provisionCI, of one connect: the URL variable, then the token secret.    *)
ConnectGoes(c, at) == connects' = [connects EXCEPT ![c].at = at]
InConnect(c, at) == c \in DOMAIN connects /\ connects[c].at = at
ElsewhereUnchanged == UNCHANGED <<route, posts, acked, seen, app, tick>>
Begun(c) == connects[c].at \notin {"start", "done", "failed"}

\* POST creates and conflicts when there is one
PostVariable(c) ==
    /\ InConnect(c, "start")
    /\ IF github.variable = ""
       THEN github' = [github EXCEPT !.variable = c] /\ ConnectGoes(c, "secret")
       ELSE UNCHANGED github /\ ConnectGoes(c, "conflict")
    /\ IF \E d \in DOMAIN connects : Begun(d) THEN Lapse("connects overlap", c)
       ELSE UNCHANGED lapses
    /\ UNCHANGED mishapsLeft /\ ElsewhereUnchanged

\* mutant: what exists is left alone
KeepVariable(c) == github.variable
SetVariable(c) == c
PatchedVariable(c) == SetVariable(c)
\* then PATCH updates
PatchVariable(c) ==
    /\ InConnect(c, "conflict")
    /\ github' = [github EXCEPT !.variable = PatchedVariable(c)]
    /\ ConnectGoes(c, "secret") /\ UNCHANGED <<lapses, mishapsLeft>> /\ ElsewhereUnchanged

\* without a token the secret is left as it is and the answer says so
ReadKey(c) ==
    /\ InConnect(c, "secret")
    /\ IF route.connects[c]
       THEN connects' = [connects EXCEPT ![c] = [at |-> "sealed", key |-> github.key]]
            /\ UNCHANGED lapses
       ELSE ConnectGoes(c, "done") /\ Lapse("no token", c)
    /\ UNCHANGED <<github, mishapsLeft>> /\ ElsewhereUnchanged

PutSecret(c) ==
    /\ InConnect(c, "sealed")
    /\ IF connects[c].key = github.key
       THEN github' = [github EXCEPT !.secret = c] /\ ConnectGoes(c, "done") /\ UNCHANGED lapses
       ELSE UNCHANGED github /\ ConnectGoes(c, "failed") /\ Lapse("half provisioned", c)
    /\ UNCHANGED mishapsLeft /\ ElsewhereUnchanged

ProvisionFails(c) ==
    /\ c \in DOMAIN connects /\ connects[c].at \notin {"done", "failed"}
    /\ mishapsLeft > 0 /\ mishapsLeft' = mishapsLeft - 1
    /\ ConnectGoes(c, "failed") /\ Lapse("half provisioned", c) /\ UNCHANGED github /\ ElsewhereUnchanged

KeyRotates ==
    /\ DOMAIN connects # {} /\ mishapsLeft > 0 /\ mishapsLeft' = mishapsLeft - 1
    /\ github' = [github EXCEPT !.key = @ + 1] /\ UNCHANGED <<connects, lapses>> /\ ElsewhereUnchanged

DispatchNext ==
    \/ \E e \in DOMAIN route.mail : Post(e)
    \/ \E k \in DOMAIN posts :
        \/ HangUp(k) \/ HandleWebhook(k) \/ SendDispatch(k) \/ DispatchLost(k)
        \/ Dispatched204(k) \/ Token(k) \/ LookupInstallation(k) \/ CreateToken(k)
        \/ MintFails(k)
    \/ posts # << >> /\ BridgeRestart
    \/ route.app /\ (TimeGoesOn \/ Reinstalled)
    \/ \E c \in DOMAIN connects :
        \/ PostVariable(c) \/ PatchVariable(c) \/ ReadKey(c) \/ PutSecret(c)
        \/ ProvisionFails(c)
    \/ KeyRotates

DispatchSpec == DispatchInit /\ [][DispatchNext]_dispatchVars
-----------------------------------------------------------------------------
Times(id) == Cardinality({i \in DOMAIN github.accepted : github.accepted[i] = id})
Lapsed(why, what) == <<why, what>> \in lapses

(* "The bridge answers 2xx ONLY after GitHub accepted the dispatch": an     *)
(* event for this bridge that the outbox counts as delivered was accepted,  *)
(* under its own id - which a second rerun of the check in the same second  *)
(* shares with the first (runko-bridge/main.go:24-28).                      *)
AckedWasDispatched ==
    \A e \in acked : ForThisBridge(route.mail[e]) => Times(route.mail[e].id) > 0

(* CI is triggered twice for one delivery only where the bridge forgot it - *)
(* a restart, an eviction - or could not know: the answer was lost, or the  *)
(* outbox had given up on a POST that was still served (seenSet).           *)
DispatchedOnce ==
    \A id \in ToSet(github.accepted) : Times(id) > 1 =>
        \E why \in {"restart", "evicted", "lost answer", "overlap"} : Lapsed(why, id)

(* "A token handed out stays valid across a whole git push or REST call":   *)
(* GitHub refuses one within the margin of its handing out only if the App  *)
(* was installed anew (runkogithubapp.go, refreshMargin).                   *)
TokensHold == ~Lapsed("refused", "stale")

(* The URL and the token that CI reports with come from one connect, when   *)
(* no connect is under way, unless two overlapped, one was cut short or one *)
(* gave no token (githubsecrets.go, provisionCI).                           *)
ProvisionedTogether ==
    (\A c \in DOMAIN connects : ~Begun(c)) =>
        \/ github.variable = github.secret
        \/ \E c \in DOMAIN connects, why \in {"connects overlap", "half provisioned", "no token"} :
               Lapsed(why, c)

(* The way to GitHub and back: acknowledged means dispatched, once but for  *)
(* the named cases, with tokens that hold and values that belong together.  *)
DispatchSound == /\ AckedWasDispatched /\ DispatchedOnce
                 /\ TokensHold /\ ProvisionedTogether
=============================================================================
