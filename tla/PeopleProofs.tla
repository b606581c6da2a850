----------------------------- MODULE PeopleProofs -----------------------------
(***************************************************************************)
(* What the system promises the people around an agent.                    *)
(*                                                                         *)
(* MergeGate: what the gate holds back, for any tree, owners, checks,      *)
(* principals, deltas and settings, however pushes, syncs, reviews and     *)
(* other lands move between the gate's reads.                              *)
(*                                                                         *)
(* Review: the conversation on a Change tells whose turn it is, however    *)
(* comments, requests and amends come between a handler's read and its     *)
(* write (Conversation).                                                   *)
(*                                                                         *)
(* SelfUpdate: what a run has found the checksums of stays what it was     *)
(* until it has the name of the command, and a binary that is missing is   *)
(* beside its name (UpdateInv, UpdateRun).                                 *)
(*                                                                         *)
(* AgentFiles: what a snapshot would take of runko's is half done or has   *)
(* an excuse (Local), and the one installer in its write has read every    *)
(* key of the user's (KeysRead).                                           *)
(*                                                                         *)
(* Activity: a row is of the life that shows it (RowIsOwn), a batch that   *)
(* was stored is announced or about to be (Watched), and so is the push    *)
(* that was advised (AdviceSeen).                                          *)
(***************************************************************************)
EXTENDS MergeGate, Review, Activity, SequenceTheorems, FiniteSetTheorems, TLAPS

Versions == 1 .. Len(heads)
Principals == Humans \cup Agents
Pushed == [onto : Nat, delta : Nat, author : Principals]
Outcomes == {"none", "passed", "failed"}
Row == [CheckNames -> Outcomes]

\* A human judged this delta: as its reviewer, or its findings.
Judged(n, how) == <<heads[n].delta, how>> \in judged

-----------------------------------------------------------------------------
(* The invariant.                                                           *)

TreesTyped == plan \in GatePlans /\ tips \in Seq(TrunkTree) \ {<< >>}

\* Versions were pushed onto a tip of trunk and have a row of results.
HeadsTyped ==
    /\ heads \in Seq(Pushed) /\ verdicts \in Seq(Row)
    /\ Len(verdicts) = Len(heads)
    /\ \A n \in Versions : heads[n].onto \in DOMAIN tips /\ heads[n].delta \in DOMAIN plan.deltas
    /\ granted \in [OwnerRefs -> 0 .. Len(heads)]

\* What the row and the requests in flight name exists.
RowTyped ==
    /\ DOMAIN standing = {"state", "head", "described"}
    /\ standing.head \in 0 .. Len(heads)
    /\ standing.state = "open" => standing.head # 0

PusherTyped == /\ pusher.step \in {"idle", "carry", "mint"}
               /\ pusher.step # "idle" => pusher.head \in Versions
               /\ pusher.step = "carry" => /\ pusher.old.head \in 0 .. Len(heads)
                                           /\ pusher.kind \in {"push", "sync"}
ReviewerTyped == /\ reviewer.step \in {"idle", "approve", "ack"}
                 /\ reviewer.step # "idle" => reviewer.head \in Versions
LanderTyped == /\ lander.step \in {"idle", "runs", "zones", "owners", "land"}
               /\ lander.step \in {"runs", "zones", "owners"} => lander.row.head \in Versions
               /\ lander.step = "land" => lander.head \in Versions
RequestsTyped == PusherTyped /\ ReviewerTyped /\ LanderTyped

GateTyped == TreesTyped /\ HeadsTyped /\ RowTyped /\ RequestsTyped

\* An approval, an acknowledgement, and a write of either on its way, stand for
\* a judgement of that delta.
ReviewsAreJudged ==
    /\ \A o \in OwnerRefs : granted[o] # 0 => Judged(granted[o], "approval")
    /\ reviewer.step = "approve" => Judged(reviewer.head, "approval")
    /\ reviewer.step = "ack" => Judged(reviewer.head, "findings")
    /\ \A n \in Versions :
          verdicts[n][AgentPolicyCheckName] = "passed" => Judged(n, "findings")

\* A finding without its check was judged or shed, or its push is still on its
\* way; a sync, which mints nothing, is no such push.
Excused(n) == Judged(n, "findings") \/ n \in shed
FindingsOwed ==
    /\ \A n \in Versions :
          Findings(n) /\ verdicts[n][AgentPolicyCheckName] = "none" =>
              \/ Excused(n)
              \/ pusher.step # "idle" /\ pusher.head = n
    /\ pusher.step = "carry" /\ pusher.kind = "sync" /\ Findings(pusher.head) =>
          Excused(pusher.head)

\* So were those the gate in flight saw none of; and those it saw acknowledged.
RunsRead ==
    lander.step \in {"zones", "owners"} =>
        LET n == lander.row.head
        IN  /\ lander.runs[AgentPolicyCheckName] = "passed" => Judged(n, "findings")
            /\ lander.runs[AgentPolicyCheckName] = "none" /\ Findings(n) => Excused(n)
            /\ lander.runs[AgentPolicyCheckName] \in Outcomes

\* The zones it saw are those of a tip of trunk, or none.
ZonesRead ==
    lander.step = "owners" =>
        /\ lander.tip \in DOMAIN tips
        /\ \/ lander.zones = NoZones
           \/ lander.zones = tips[lander.tip] /\ ~lander.vetoed

\* The two promises, of a land about to be made and of the one made.
Exempt(l, f) == ~l.vetoed /\ AutoApproved(tips[l.tip], f)
Acknowledged(l) ==
    Findings(l.head) => Excused(l.head) \/ (l.as # "lane" /\ \A f \in Files(l.head) : Exempt(l, f))
InTheLoop(l) ==
    l.as # "lane" /\ IsAgent(heads[l.head].author) =>
        \A f \in Files(l.head) :
            \/ OwnersOf(BaseOf(l.head), f) = {} \/ Entrusted(l.head, f)
            \/ Exempt(l, f) \/ Judged(l.head, "approval") \/ Excused(l.head)
Lands(l) == l.tip \in DOMAIN tips /\ (~l.forced => Acknowledged(l) /\ InTheLoop(l))

LandsSound ==
    /\ lander.step = "land" => Lands(lander)
    /\ landing.head # 0 => landing.head \in Versions /\ Lands(landing)

Gate == /\ GateTyped /\ ReviewsAreJudged /\ FindingsOwed
        /\ RunsRead /\ ZonesRead /\ LandsSound

-----------------------------------------------------------------------------
(* What the operators return.                                               *)

\* No zone, no exemption.
LEMMA NoZonesExemptNothing ==
    ASSUME NEW f \in DOMAIN Around PROVE ~AutoApproved(NoZones, f)
  <1>1. Around[f] \in Seq(Subtrees) /\ Around[f] # << >>
    BY MergeGateAssumption
  <1>2. ASSUME NEW i \in DOMAIN Around[f] PROVE NoZones[Around[f][i]].auto = "undeclared"
    BY <1>1 DEF NoZones
  <1> QED BY <1>2 DEF AutoApproved

\* A version's delta is one of the plan's, and its base a tip of trunk.
LEMMA DeltaTyped ==
    ASSUME GateTyped, NEW n \in Versions
    PROVE  /\ n \in Nat /\ n # 0 /\ heads[n] \in Pushed
           /\ Files(n) \subseteq DOMAIN Around
           /\ IsDelta(DeltaOf(n)) /\ BaseOf(n) \in TrunkTree
  <1>1. heads \in Seq(Pushed) /\ heads[n].delta \in DOMAIN plan.deltas
    BY DEF GateTyped, HeadsTyped
  <1>2. n \in Nat /\ n # 0 /\ heads[n] \in Pushed
    BY <1>1 DEF Versions
  <1>3. IsDelta(plan.deltas[heads[n].delta])
    BY <1>1, MergeGateAssumption DEF GateTyped, TreesTyped
  <1>4. BaseOf(n) \in TrunkTree
    BY DEF GateTyped, TreesTyped, HeadsTyped, BaseOf, Version
  <1> QED BY <1>2, <1>3, <1>4 DEF DeltaOf, Files, Version, IsDelta

\* Writing a delta over a tree gives a tree.
LEMMA OverTyped ==
    ASSUME NEW d, IsDelta(d), NEW base \in TrunkTree
    PROVE  Overwrite(d, base) \in TrunkTree
  <1>1. ASSUME NEW s \in DOMAIN d.manifests PROVE d.manifests[s] \in Manifest
    BY <1>1 DEF IsDelta, IsWritten
  <1>2. ASSUME NEW m \in Manifest, m.dir = "empty"
        PROVE  [m EXCEPT !.dir = "files"] \in Manifest
    BY <1>2 DEF Manifest
  <1>3. ASSUME NEW s \in Subtrees PROVE base[s] \in Manifest
    BY <1>3 DEF TrunkTree
  <1>4. ASSUME NEW s \in Subtrees
        PROVE  (IF s \in DOMAIN d.manifests THEN d.manifests[s]
                ELSE IF base[s].dir = "empty" /\ \E f \in d.files : Encloses(s, f)
                     THEN [base[s] EXCEPT !.dir = "files"] ELSE base[s]) \in Manifest
    BY <1>1, <1>2, <1>3
  <1> QED BY <1>4 DEF Overwrite, TrunkTree

\* A file keeps its owners where the delta writes no manifest around it.
LEMMA OwnersLeft ==
    ASSUME NEW d, IsDelta(d), NEW base \in TrunkTree, NEW f \in DOMAIN Around,
           \A s \in DOMAIN d.manifests : ~Encloses(s, f)
    PROVE  OwnersOf(Overwrite(d, base), f) = OwnersOf(base, f)
  <1> DEFINE over == Overwrite(d, base)
             IsOwning(tree, i) ==
                 /\ tree[Around[f][i]].dir = "project"
                 /\ \A j \in 1 .. i - 1 : tree[Around[f][j]].dir # "project"
  <1>1. Around[f] \in Seq(Subtrees)
    BY MergeGateAssumption
  <1>2. ASSUME NEW i \in DOMAIN Around[f]
        PROVE  LET s == Around[f][i]
               IN  /\ over[s].dir = "project" <=> base[s].dir = "project"
                   /\ ResolvedOwners(over[s]) = ResolvedOwners(base[s])
    <2> DEFINE s == Around[f][i]
    <2>1. s \in Subtrees /\ s \notin DOMAIN d.manifests
      BY <1>1 DEF Encloses
    <2>2. over[s] = base[s] \/ (base[s].dir = "empty" /\ over[s] = [base[s] EXCEPT !.dir = "files"])
      BY <2>1 DEF Overwrite
    <2>3. base[s] \in [dir : {"empty", "files", "project"}, owners : SUBSET OwnerRefs,
                       near : SUBSET OwnerRefs, auto : {"undeclared", "yes", "no"},
                       checks : SUBSET GatedChecks]
      BY <2>1 DEF TrunkTree, Manifest
    <2> HIDE DEF s
    <2>4. /\ over[s].dir = "project" <=> base[s].dir = "project"
          /\ over[s].owners = base[s].owners /\ over[s].near = base[s].near
      BY <2>2, <2>3
    <2> QED BY <2>4 DEF ResolvedOwners, s
  <1>3. ASSUME NEW i \in DOMAIN Around[f] PROVE IsOwning(over, i) <=> IsOwning(base, i)
    <2>1. \A j \in 1 .. i - 1 : j \in DOMAIN Around[f]
      BY <1>1
    <2> QED BY <1>2, <2>1
  <1>4. OwningProject(over, f) = OwningProject(base, f)
    BY <1>3 DEF OwningProject
  <1>5. ASSUME NEW s \in OwningProject(base, f)
        PROVE  ResolvedOwners(over[s]) = ResolvedOwners(base[s])
    BY <1>2 DEF OwningProject
  <1> HIDE DEF over
  <1>6. OwnersOf(over, f) = OwnersOf(base, f)
    BY <1>4, <1>5 DEF OwnersOf
  <1> QED BY <1>6 DEF over

\* Owners are owner references.
LEMMA OwnersTyped ==
    ASSUME NEW tree \in TrunkTree, NEW f \in DOMAIN Around
    PROVE  OwnersOf(tree, f) \subseteq OwnerRefs
  <1>1. Around[f] \in Seq(Subtrees)
    BY MergeGateAssumption
  <1>2. ASSUME NEW s \in OwningProject(tree, f) PROVE ResolvedOwners(tree[s]) \subseteq OwnerRefs
    BY <1>1 DEF OwningProject, ResolvedOwners, TrunkTree, Manifest
  <1> QED BY <1>2 DEF OwnersOf

-----------------------------------------------------------------------------
(* The gate's decision: what it lets through is acknowledged and judged.    *)

\* What makes a file exempt for the gate made it a zone of the tip it read.
LEMMA ZonesAreTrunks ==
    ASSUME ZonesRead, lander.step = "owners", NEW f \in DOMAIN Around,
           AutoApproved(lander.zones, f)
    PROVE  Exempt(lander, f)
  BY NoZonesExemptNothing DEF ZonesRead, Exempt

LEMMA GateAcknowledges ==
    ASSUME GateTyped, RunsRead, ZonesRead, lander.step = "owners", Mergeable(lander),
           Findings(lander.row.head)
    PROVE  \/ Excused(lander.row.head)
           \/ lander.as # "lane" /\ \A f \in Files(lander.row.head) : Exempt(lander, f)
  <1> DEFINE n == lander.row.head
             lane == lander.as = "lane"
             fullyAuto == ~lane /\ AutoApprovedAll(lander.zones, n)
  <1>1. n \in Versions
    BY DEF GateTyped, RequestsTyped, LanderTyped
  <1>2. CASE lander.runs[AgentPolicyCheckName] # "failed"
    BY <1>2 DEF RunsRead, Excused, Outcomes
  <1>3. CASE lander.runs[AgentPolicyCheckName] = "failed"
    <2>1. ASSUME ~fullyAuto PROVE FALSE
      <3>1. AgentPolicyCheckName \in RequiredChecks(n, lander.runs, fullyAuto, lane)
        BY <1>3, <2>1 DEF RequiredChecks
      <3>2. \A k \in RequiredChecks(n, lander.runs, fullyAuto, lane) : lander.runs[k] = "passed"
        BY DEF Mergeable
      <3> QED BY <1>3, <3>1, <3>2
    <2>2. ASSUME NEW f \in Files(n) PROVE Exempt(lander, f)
      <3>1. f \in DOMAIN Around
        BY <1>1, DeltaTyped
      <3> QED BY <2>1, <3>1, ZonesAreTrunks DEF AutoApprovedAll
    <2> QED BY <2>1, <2>2
  <1> QED BY <1>2, <1>3

LEMMA GateAsksAHuman ==
    ASSUME GateTyped, ReviewsAreJudged, RunsRead, ZonesRead, lander.step = "owners",
           Mergeable(lander), lander.as # "lane",
           IsAgent(heads[lander.row.head].author), NEW f \in Files(lander.row.head)
    PROVE  \/ OwnersOf(BaseOf(lander.row.head), f) = {} \/ Entrusted(lander.row.head, f)
           \/ Exempt(lander, f) \/ Judged(lander.row.head, "approval")
           \/ Excused(lander.row.head)
  <1> DEFINE n == lander.row.head
             d == DeltaOf(n)
  <1>1. n \in Versions
    BY DEF GateTyped, RequestsTyped, LanderTyped
  <1>2. f \in DOMAIN Around /\ n # 0 /\ IsDelta(d) /\ BaseOf(n) \in TrunkTree
    BY <1>1, DeltaTyped
  <1>3. CASE Findings(n)
    BY <1>3, GateAcknowledges
  <1>4. CASE ~Findings(n) /\ \E s \in DOMAIN d.manifests : Encloses(s, f)
    <2>1. PICK s \in DOMAIN d.manifests : Encloses(s, f)
      BY <1>4
    <2>2. ~EvaluatePolicy(BaseOf(n), d, Version(n).author)
      BY <1>4 DEF Findings, FindingsOf, BaseOf, DeltaOf, Version
    <2>3. CASE BaseOf(n)[s].dir # "empty"
      BY <2>1, <2>2, <2>3 DEF EvaluatePolicy, ModifiesOwners, Entrusted
    <2>4. CASE BaseOf(n)[s].dir = "empty"
      <3>1. s \in Creates(BaseOf(n), d)
        BY <2>1, <2>4 DEF Creates
      <3> QED BY <2>1, <2>2, <2>4, <3>1 DEF EvaluatePolicy, Entrusted
    <2> QED BY <2>3, <2>4
  <1>5. CASE \A s \in DOMAIN d.manifests : ~Encloses(s, f)
    <2>1. OwnersOf(TreeAt(n), f) = OwnersOf(BaseOf(n), f)
      BY <1>2, <1>5, OwnersLeft DEF TreeAt
    <2>2. SUFFICES ASSUME NEW o \in OwnersOf(BaseOf(n), f)
                   PROVE  Exempt(lander, f) \/ Judged(n, "approval")
      OBVIOUS
    <2>3. o \in RequiredOwners(n) /\ o \in OwnersOf(TreeAt(n), f)
      BY <2>1 DEF RequiredOwners
    <2>4. o \in OwnerRefs
      BY <1>2, OwnersTyped
    <2>5. o \notin OutstandingOwners(n, lander.zones)
      BY DEF Mergeable
    <2>6. granted[o] = n \/ AutoOnly(o, n, lander.zones)
      BY <2>3, <2>5 DEF OutstandingOwners, Version
    <2>7. CASE granted[o] = n
      BY <1>2, <2>4, <2>7 DEF ReviewsAreJudged
    <2>8. CASE AutoOnly(o, n, lander.zones)
      BY <1>2, <2>3, <2>8, ZonesAreTrunks DEF AutoOnly
    <2> QED BY <2>6, <2>7, <2>8
  <1> QED BY <1>3, <1>4, <1>5

-----------------------------------------------------------------------------
(* What no step takes back: versions, tips, judgements.                     *)

Grows ==
    /\ plan' = plan
    /\ \A n \in Versions : n \in Versions' /\ heads'[n] = heads[n]
    /\ \A t \in DOMAIN tips : t \in DOMAIN tips' /\ tips'[t] = tips[t]
    /\ judged \subseteq judged' /\ shed \subseteq shed'

LEMMA AppendGrows ==
    ASSUME NEW S, NEW q \in Seq(S), NEW x \in S
    PROVE  /\ Append(q, x) \in Seq(S) \ {<< >>} /\ Len(Append(q, x)) = Len(q) + 1
           /\ \A i \in 1 .. Len(q) : i \in 1 .. Len(Append(q, x)) /\ Append(q, x)[i] = q[i]
           /\ Append(q, x)[Len(q) + 1] = x
           /\ DOMAIN q = 1 .. Len(q) /\ DOMAIN Append(q, x) = 1 .. Len(q) + 1
  OBVIOUS

\* A new version stands on the tip, with no results.
Appended ==
    /\ heads' \in Seq(Pushed) /\ verdicts' \in Seq(Row)
    /\ Len(heads') = Len(heads) + 1 /\ Len(verdicts') = Len(heads')
    /\ \A n \in Versions : heads'[n] = heads[n] /\ verdicts'[n] = verdicts[n]
    /\ heads'[Len(heads')].onto \in DOMAIN tips
    /\ heads'[Len(heads')].delta \in DOMAIN plan.deltas
    /\ verdicts'[Len(heads')] = [k \in CheckNames |-> "none"]
    /\ Versions' = Versions \cup {Len(heads')}

LEMMA VersionAppended ==
    ASSUME GateTyped, NEW d \in DOMAIN plan.deltas, NEW who \in Principals, NewVersion(d, who)
    PROVE  Appended /\ heads'[Len(heads')].delta = d /\ heads'[Len(heads')].author = who
  <1> DEFINE pushed == [onto |-> Len(tips), delta |-> d, author |-> who]
             blank == [k \in CheckNames |-> "none"]
  <1>1. heads \in Seq(Pushed) /\ verdicts \in Seq(Row) /\ Len(verdicts) = Len(heads)
    BY DEF GateTyped, HeadsTyped, Row
  <1>2. Len(tips) \in DOMAIN tips /\ Len(tips) \in Nat /\ d \in Nat
    BY MergeGateAssumption DEF GateTyped, TreesTyped
  <1>3. pushed \in Pushed
    BY <1>2 DEF Pushed
  <1>4. blank \in Row
    BY DEF Outcomes, Row
  <1>5. heads' = Append(heads, pushed) /\ verdicts' = Append(verdicts, blank)
    BY DEF NewVersion, OnTip
  <1>6. pushed.onto = Len(tips) /\ pushed.delta = d /\ pushed.author = who
    OBVIOUS
  <1> HIDE DEF pushed
  <1>7. heads' \in Seq(Pushed) /\ Len(heads') = Len(heads) + 1
        /\ heads'[Len(heads')] = pushed
        /\ \A n \in 1 .. Len(heads) : heads'[n] = heads[n]
    BY <1>1, <1>3, <1>5, AppendGrows
  <1>8. verdicts' \in Seq(Row) /\ Len(verdicts') = Len(heads')
        /\ verdicts'[Len(heads')] = blank
        /\ \A n \in 1 .. Len(heads) : verdicts'[n] = verdicts[n]
    <2> HIDE DEF blank
    <2> QED BY <1>1, <1>4, <1>5, <1>7, AppendGrows
  <1>9. Versions' = Versions \cup {Len(heads')}
    BY <1>1, <1>7 DEF Versions
  <1> QED BY <1>2, <1>6, <1>7, <1>8, <1>9 DEF Versions, Appended

\* What a sync copies from the head is a delta and a principal.
LEMMA SyncAppends ==
    ASSUME GateTyped, Sync
    PROVE  /\ HeadSHA \in Versions /\ HeadSHA # Len(heads) + 1
           /\ Version(HeadSHA).delta \in DOMAIN plan.deltas
           /\ Version(HeadSHA).author \in Principals
           /\ NewVersion(Version(HeadSHA).delta, Version(HeadSHA).author)
  <1>1. heads \in Seq(Pushed)
    BY DEF GateTyped, HeadsTyped
  <1>2. HeadSHA \in Versions /\ HeadSHA # Len(heads) + 1
    BY <1>1 DEF Sync, GateTyped, RowTyped, HeadSHA, Versions
  <1>3. heads[HeadSHA] \in Pushed /\ heads[HeadSHA].delta \in DOMAIN plan.deltas
    BY <1>2, DeltaTyped DEF GateTyped, HeadsTyped
  <1> QED BY <1>2, <1>3 DEF Sync, Version, Pushed

LEMMA TipAppended ==
    ASSUME GateTyped, NEW tree \in TrunkTree, tips' = Append(tips, tree)
    PROVE  /\ tips' \in Seq(TrunkTree) \ {<< >>}
           /\ \A t \in DOMAIN tips : t \in DOMAIN tips' /\ tips'[t] = tips[t]
  <1>1. tips \in Seq(TrunkTree)
    BY DEF GateTyped, TreesTyped
  <1> QED BY <1>1, AppendGrows

LEMMA TrunkGrows ==
    ASSUME GateTyped, TrunkMoves \/ Land
    PROVE  /\ tips' \in Seq(TrunkTree) \ {<< >>}
           /\ \A t \in DOMAIN tips : t \in DOMAIN tips' /\ tips'[t] = tips[t]
  <1>1. tips \in Seq(TrunkTree) \ {<< >>} /\ plan \in GatePlans
    BY DEF GateTyped, TreesTyped
  <1>2. CASE TrunkMoves
    <2>1. plan.trees \in Seq(TrunkTree)
      BY <1>1, MergeGateAssumption
    <2>2. plan.trees[Len(tips) + 1] \in TrunkTree
      BY <1>1, <1>2, <2>1 DEF TrunkMoves
    <2> QED BY <1>2, <2>2, TipAppended DEF TrunkMoves
  <1>3. CASE Land
    <2>1. lander.head \in Versions
      BY <1>3 DEF Land, GateTyped, RequestsTyped, LanderTyped
    <2>2. tips[Len(tips)] \in TrunkTree
      BY <1>1
    <2>3. Overwrite(DeltaOf(lander.head), tips[Len(tips)]) \in TrunkTree
      BY <2>1, <2>2, DeltaTyped, OverTyped
    <2> QED BY <1>3, <2>3, TipAppended DEF Land
  <1> QED BY <1>2, <1>3

LEMMA StepGrows ==
    ASSUME GateTyped, [GateNext]_gateVars PROVE Grows
  <1> USE DEF gateVars, gateSettings, gateRows, gateResults, gateHistory
  <1>1. ASSUME NEW who \in plan.pushers, Push(who) PROVE Grows
    <2>1. who \in Principals
      BY MergeGateAssumption DEF GateTyped, TreesTyped, Principals
    <2>2. CASE \E d \in DOMAIN plan.deltas : NewVersion(d, who)
      <3>1. PICK d \in DOMAIN plan.deltas : NewVersion(d, who)
        BY <2>2
      <3> QED BY <1>1, <2>1, <3>1, VersionAppended DEF Push, Grows, Appended
    <2>3. CASE heads' = heads
      BY <1>1, <2>3 DEF Push, Grows, Versions
    <2> QED BY <1>1, <2>2, <2>3 DEF Push
  <1>2. CASE Sync
    BY <1>2, SyncAppends, VersionAppended DEF Sync, Grows, Appended
  <1>3. CASE TrunkMoves \/ Land
    BY <1>3, TrunkGrows DEF TrunkMoves, Land, Grows, Versions
  <1>4. CASE UNCHANGED <<plan, tips, heads>> /\ judged \subseteq judged' /\ shed \subseteq shed'
    BY <1>4 DEF Grows, Versions
  <1>5. CASE Carry \/ Mint \/ GateRuns
    BY <1>4, <1>5 DEF Carry, Mint, GateRuns
  <1>6. CASE (\E h \in Humans, o \in OwnerRefs : ApproveRead(h, o)) \/ AckRead \/ ReviewWrite
             \/ (\E k \in GatedChecks : PostCheck(k))
    BY <1>4, <1>6 DEF ApproveRead, AckRead, ReviewWrite, PostCheck
  <1>7. CASE Describe \/ Converse \/ DisableAutoApprove
             \/ (\E as \in {"human", "lane", "force"} : LandRead(as)) \/ GateZones \/ GateOwners
    BY <1>4, <1>7 DEF Describe, Converse, DisableAutoApprove, LandRead, GateZones, GateOwners
  <1> QED BY <1>1, <1>2, <1>3, <1>4, <1>5, <1>6, <1>7 DEF GateNext

\* So what was said of a version stays said.
LEMMA SaidStays ==
    ASSUME GateTyped, Grows, NEW n \in Versions
    PROVE  /\ n \in Versions' /\ heads'[n] = heads[n]
           /\ DeltaOf(n)' = DeltaOf(n) /\ Files(n)' = Files(n)
           /\ Findings(n)' = Findings(n)
           /\ \A how : Judged(n, how) => Judged(n, how)'
           /\ Excused(n) => Excused(n)'
           /\ BaseOf(n)' = BaseOf(n)
           /\ \A f : Entrusted(n, f)' = Entrusted(n, f)
  <1>1. n \in Versions' /\ heads'[n] = heads[n] /\ plan' = plan
    BY DEF Grows
  <1>2. DeltaOf(n)' = DeltaOf(n)
    BY <1>1 DEF DeltaOf, Version
  <1>3. \A how : Judged(n, how) => Judged(n, how)'
    BY <1>1 DEF Judged, Grows
  <1>4. Excused(n) => Excused(n)'
    BY <1>3 DEF Excused, Grows
  <1>5. heads[n].onto \in DOMAIN tips /\ tips'[heads[n].onto] = tips[heads[n].onto]
    BY DEF GateTyped, HeadsTyped, Grows
  <1>6. /\ Findings(n)' = Findings(n) /\ BaseOf(n)' = BaseOf(n)
        /\ \A f : Entrusted(n, f)' = Entrusted(n, f)
    BY <1>1, <1>2, <1>5
    DEF Findings, FindingsOf, EvaluatePolicy, ModifiesOwners, Creates, Version, BaseOf, Entrusted
  <1> QED BY <1>1, <1>2, <1>3, <1>4, <1>5, <1>6 DEF Files

-----------------------------------------------------------------------------
(* The results: what a carry, a mint, a review or a report writes.          *)

\* One version's row of results is replaced.
LEMMA RowWritten ==
    ASSUME GateTyped, NEW n \in Versions, NEW row \in Row,
           verdicts' = [verdicts EXCEPT ![n] = row]
    PROVE  /\ verdicts' \in Seq(Row) /\ Len(verdicts') = Len(heads)
           /\ verdicts'[n] = row
           /\ \A k \in Versions \ {n} : verdicts'[k] = verdicts[k]
  <1>1. verdicts \in Seq(Row) /\ Len(verdicts) = Len(heads) /\ Versions = DOMAIN verdicts
    BY DEF GateTyped, HeadsTyped, Row, Versions
  <1> QED BY <1>1

LEMMA RowTypedAt ==
    ASSUME GateTyped, NEW n \in Versions
    PROVE  /\ verdicts[n] \in Row /\ AgentPolicyCheckName \in CheckNames
           /\ \A k, v : [verdicts EXCEPT ![n][k] = v] =
                            [verdicts EXCEPT ![n] = [verdicts[n] EXCEPT ![k] = v]]
           /\ \A k \in CheckNames, v \in Outcomes : [verdicts[n] EXCEPT ![k] = v] \in Row
  <1>1. verdicts[n] \in Row
    BY DEF GateTyped, HeadsTyped, Row, Versions
  <1> QED BY <1>1 DEF Row, CheckNames

\* What results say after a step, and on whose judgement.
Backed ==
    /\ verdicts' \in Seq(Row) /\ Len(verdicts') = Len(heads)
    /\ granted' \in [OwnerRefs -> 0 .. Len(heads)]
    /\ \A n \in Versions : verdicts'[n][AgentPolicyCheckName] = "passed" =>
                               Judged(n, "findings")
    /\ \A n \in Versions : verdicts'[n][AgentPolicyCheckName] = "none" =>
                               verdicts[n][AgentPolicyCheckName] = "none"
    /\ \A o \in OwnerRefs : granted'[o] # 0 => Judged(granted'[o], "approval")

LEMMA WriteIsBacked ==
    ASSUME GateTyped, ReviewsAreJudged, NEW n \in Versions, NEW row \in Row,
           \/ verdicts' = [verdicts EXCEPT ![n] = row]
           \/ verdicts' = verdicts /\ row = verdicts[n],
           row[AgentPolicyCheckName] = "passed" => Judged(n, "findings"),
           row[AgentPolicyCheckName] = "none" => verdicts[n][AgentPolicyCheckName] = "none",
           granted' \in [OwnerRefs -> 0 .. Len(heads)],
           \A o \in OwnerRefs : granted'[o] # 0 => Judged(granted'[o], "approval")
    PROVE  Backed
  <1>1. CASE verdicts' = verdicts
    BY <1>1 DEF Backed, GateTyped, HeadsTyped, Row, ReviewsAreJudged
  <1>2. CASE verdicts' = [verdicts EXCEPT ![n] = row]
    <2>1. /\ verdicts' \in Seq(Row) /\ Len(verdicts') = Len(heads)
          /\ verdicts'[n] = row
          /\ \A k \in Versions \ {n} : verdicts'[k] = verdicts[k]
      BY <1>2, RowWritten
    <2> QED BY <2>1 DEF Backed, ReviewsAreJudged
  <1> QED BY <1>1, <1>2

\* Unchanged approvals are as judged as they were.
LEMMA ApprovalsStand ==
    ASSUME GateTyped, ReviewsAreJudged, granted' = granted
    PROVE  /\ granted' \in [OwnerRefs -> 0 .. Len(heads)]
           /\ \A o \in OwnerRefs : granted'[o] # 0 => Judged(granted'[o], "approval")
  BY DEF GateTyped, HeadsTyped, ReviewsAreJudged

\* A carry-forward copies only between versions of one delta.
LEMMA CarryIsBacked ==
    ASSUME GateTyped, ReviewsAreJudged, Carry PROVE Backed
  <1>0. PICK kept \in SUBSET OwnerRefs, copied \in BOOLEAN :
          LET n == pusher.head
              old == pusher.old
              trivial == TrivialRebaseOf(old, n)
              copies == trivial /\ plan.tier = "conflict-only" /\ copied
          IN  /\ granted' = IF trivial
                            THEN [o \in OwnerRefs |-> IF o \in kept /\ granted[o] = old.head
                                                      THEN n ELSE granted[o]]
                            ELSE granted
              /\ verdicts' = [verdicts EXCEPT
                                ![n] = IF copies THEN CarriedVerdicts(old.head, n) ELSE verdicts[n]]
    BY DEF Carry
  <1> DEFINE n == pusher.head
             old == pusher.old
             trivial == TrivialRebaseOf(old, n)
             copies == trivial /\ plan.tier = "conflict-only" /\ copied
             row == IF copies THEN CarriedVerdicts(old.head, n) ELSE verdicts[n]
  <1>1. n \in Versions /\ old.head \in 0 .. Len(heads) /\ verdicts[n] \in Row
    BY RowTypedAt DEF Carry, GateTyped, RequestsTyped, PusherTyped
  <1>2. ASSUME trivial
        PROVE  /\ old.head \in Versions /\ old.head # 0 /\ verdicts[old.head] \in Row
               /\ \A how : Judged(old.head, how) => Judged(n, how)
    <2>1. old.head \in Versions /\ old.head # 0
      BY <1>1, <1>2 DEF TrivialRebaseOf, Versions, GateTyped, HeadsTyped
    <2> QED BY <1>2, <2>1, RowTypedAt DEF TrivialRebaseOf, Version, Judged
  <1>3. row \in Row
    <2>1. CASE copies
      BY <1>1, <1>2, <2>1 DEF CarriedVerdicts, Row, Outcomes
    <2> QED BY <1>1, <2>1
  <1>4. /\ row[AgentPolicyCheckName] = "passed" => Judged(n, "findings")
        /\ row[AgentPolicyCheckName] = "none" => verdicts[n][AgentPolicyCheckName] = "none"
    <2>1. CASE copies
      <3>1. AgentPolicyCheckName \in CheckNames
        BY DEF CheckNames
      <3> QED BY <1>1, <1>2, <2>1, <3>1 DEF CarriedVerdicts, ReviewsAreJudged
    <2> QED BY <1>1, <2>1 DEF ReviewsAreJudged
  <1>5. verdicts' = [verdicts EXCEPT ![n] = row]
    BY <1>0
  <1>6. granted' = IF trivial
                   THEN [o \in OwnerRefs |-> IF o \in kept /\ granted[o] = old.head
                                             THEN n ELSE granted[o]]
                   ELSE granted
    BY <1>0
  <1>7. /\ granted' \in [OwnerRefs -> 0 .. Len(heads)]
        /\ \A o \in OwnerRefs : granted'[o] # 0 => Judged(granted'[o], "approval")
    <2>1. CASE trivial
      <3>1. n \in 0 .. Len(heads)
        BY <1>1 DEF Versions, GateTyped, HeadsTyped
      <3> QED BY <1>1, <1>2, <1>6, <2>1, <3>1 DEF GateTyped, HeadsTyped, ReviewsAreJudged
    <2> QED BY <1>6, <2>1, ApprovalsStand
  <1> HIDE DEF row, n
  <1> QED BY <1>1, <1>3, <1>4, <1>5, <1>7, WriteIsBacked

LEMMA ResultsAreBacked ==
    ASSUME GateTyped, ReviewsAreJudged,
           Carry \/ Mint \/ ReviewWrite \/ \E k \in GatedChecks : PostCheck(k)
    PROVE  Backed
  <1>1. CASE Carry
    BY <1>1, CarryIsBacked
  <1>2. CASE Mint
    <2> DEFINE n == pusher.head
               row == [verdicts[n] EXCEPT ![AgentPolicyCheckName] = "failed"]
    <2>1. n \in Versions
      BY <1>2 DEF Mint, GateTyped, RequestsTyped, PusherTyped
    <2>2. verdicts[n] \in Row /\ row \in Row
          /\ row[AgentPolicyCheckName] = "failed"
      BY <2>1, RowTypedAt DEF Outcomes, Row
    <2>3. verdicts' = verdicts \/ verdicts' = [verdicts EXCEPT ![n] = row]
      BY <1>2, <2>1, RowTypedAt DEF Mint
    <2>4. granted' = granted
      BY <1>2 DEF Mint
    <2> HIDE DEF row, n
    <2> QED BY <2>1, <2>2, <2>3, <2>4, ApprovalsStand, WriteIsBacked DEF ReviewsAreJudged
  <1>3. CASE ReviewWrite
    <2> DEFINE n == reviewer.head
               row == [verdicts[n] EXCEPT ![AgentPolicyCheckName] = "passed"]
    <2>1. CASE reviewer.step = "approve"
      <3>1. n \in Versions /\ n \in 0 .. Len(heads) /\ verdicts[n] \in Row
        BY <2>1, RowTypedAt DEF GateTyped, RequestsTyped, ReviewerTyped, HeadsTyped, Versions
      <3>2. granted' = [granted EXCEPT ![reviewer.owner] = n] /\ verdicts' = verdicts
        BY <1>3, <2>1 DEF ReviewWrite
      <3>3. /\ granted' \in [OwnerRefs -> 0 .. Len(heads)]
            /\ \A o \in OwnerRefs : granted'[o] # 0 => Judged(granted'[o], "approval")
        BY <2>1, <3>1, <3>2 DEF GateTyped, HeadsTyped, ReviewsAreJudged
      <3> QED BY <3>1, <3>2, <3>3, WriteIsBacked DEF ReviewsAreJudged
    <2>2. CASE reviewer.step = "ack"
      <3>1. n \in Versions
        BY <2>2 DEF GateTyped, RequestsTyped, ReviewerTyped
      <3>2. row \in Row /\ row[AgentPolicyCheckName] = "passed"
        BY <3>1, RowTypedAt DEF Outcomes, Row
      <3>3. verdicts' = [verdicts EXCEPT ![n] = row] /\ granted' = granted
        BY <1>3, <2>2, <3>1, RowTypedAt DEF ReviewWrite
      <3>4. Judged(n, "findings")
        BY <2>2 DEF ReviewsAreJudged
      <3> HIDE DEF row, n
      <3> QED BY <3>1, <3>2, <3>3, <3>4, ApprovalsStand, WriteIsBacked
    <2> QED BY <1>3, <2>1, <2>2 DEF ReviewWrite
  <1>4. ASSUME NEW k \in GatedChecks, PostCheck(k) PROVE Backed
    <2> DEFINE row == [verdicts[HeadSHA] EXCEPT ![k] = "passed"]
    <2>1. HeadSHA \in Versions
      BY <1>4 DEF PostCheck, GateTyped, RowTyped, HeadsTyped, HeadSHA, Versions
    <2>2. k \in CheckNames /\ k # AgentPolicyCheckName
      BY MergeGateAssumption DEF CheckNames
    <2>3. /\ row \in Row /\ verdicts[HeadSHA] \in Row
          /\ row[AgentPolicyCheckName] = verdicts[HeadSHA][AgentPolicyCheckName]
      BY <2>1, <2>2, RowTypedAt DEF Outcomes, Row
    <2>4. verdicts' = [verdicts EXCEPT ![HeadSHA] = row] /\ granted' = granted
      BY <1>4, <2>1, RowTypedAt DEF PostCheck
    <2> HIDE DEF row
    <2> QED BY <2>1, <2>3, <2>4, ApprovalsStand, WriteIsBacked DEF ReviewsAreJudged
  <1> QED BY <1>1, <1>2, <1>3, <1>4

-----------------------------------------------------------------------------
(* Every step keeps the invariant, conjunct by conjunct.                    *)

\* The steps that leave versions, approvals and results alone.
Asides ==
    \/ (\E h \in Humans, o \in OwnerRefs : ApproveRead(h, o)) \/ AckRead
    \/ Describe \/ Converse \/ DisableAutoApprove \/ TrunkMoves
    \/ (\E as \in {"human", "lane", "force"} : LandRead(as))
    \/ GateRuns \/ GateZones \/ GateOwners \/ Land \/ UNCHANGED gateVars

Writes == Carry \/ Mint \/ ReviewWrite \/ \E k \in GatedChecks : PostCheck(k)

Pushes == (\E who \in plan.pushers : Push(who)) \/ Sync

LEMMA StepsAre ==
    ASSUME [GateNext]_gateVars PROVE Pushes \/ Writes \/ Asides
  BY DEF GateNext, Pushes, Writes, Asides

LEMMA AsidesLeave ==
    ASSUME Asides PROVE UNCHANGED <<plan, heads, granted, verdicts>>
  BY DEF Asides, ApproveRead, AckRead, Describe, Converse, DisableAutoApprove, TrunkMoves,
         LandRead, GateRuns, GateZones, GateOwners, Land, gateVars, gateSettings, gateRows,
         gateResults, gateHistory

LEMMA WritesLeave ==
    ASSUME Writes
    PROVE  UNCHANGED <<plan, tips, heads, standing, judged, lander, landing>>
  BY DEF Writes, Carry, Mint, ReviewWrite, PostCheck, gateSettings, gateRows, gateHistory

\* A push adds a version, or pushes the head again and touches no result.
Adds == Appended /\ pusher'.head = Len(heads') /\ standing'.head = Len(heads')
Again == /\ UNCHANGED <<heads, verdicts, shed>> /\ standing.head # 0
         /\ pusher'.head = standing.head /\ standing'.head = standing.head

LEMMA PushesAdd ==
    ASSUME GateTyped, Pushes
    PROVE  /\ Adds \/ Again
           /\ UNCHANGED <<plan, tips, granted, reviewer, lander, landing, judged>>
           /\ pusher.step = "idle" /\ pusher'.step = "carry" /\ pusher'.old = standing
           /\ pusher'.kind \in {"push", "sync"}
           /\ DOMAIN standing' = {"state", "head", "described"}
  <1> USE DEF gateSettings, gateHistory, Row
  <1>1. DOMAIN standing = {"state", "head", "described"}
    BY DEF GateTyped, RowTyped
  <1>3. ASSUME NEW who \in plan.pushers, Push(who)
        PROVE  Adds \/ Again
    <2>1. who \in Principals
      BY MergeGateAssumption DEF GateTyped, TreesTyped, Principals
    <2>2. ASSUME NEW d \in DOMAIN plan.deltas, NewVersion(d, who),
                 WriteHead(Len(heads) + 1, "push")
          PROVE  Adds
      <3>1. pusher'.head = Len(heads) + 1 /\ standing'.head = Len(heads) + 1
        BY <1>1, <2>2 DEF WriteHead
      <3> QED BY <2>1, <2>2, <3>1, VersionAppended DEF Adds, Appended
    <2>3. ASSUME HeadSHA # 0, WriteHead(HeadSHA, "push"), UNCHANGED <<heads, verdicts>>
          PROVE  Again
      BY <1>1, <1>3, <2>3 DEF WriteHead, Again, HeadSHA, Push
    <2> QED BY <1>3, <2>2, <2>3 DEF Push
  <1>4. ASSUME Sync PROVE Adds
    <2>1. pusher'.head = Len(heads) + 1 /\ standing'.head = Len(heads) + 1
      BY <1>1, <1>4 DEF Sync, WriteHead
    <2> QED BY <1>4, <2>1, SyncAppends, VersionAppended DEF Adds, Appended
  <1>5. /\ UNCHANGED <<plan, tips, granted, reviewer, lander, landing, judged>>
        /\ pusher.step = "idle" /\ pusher'.step = "carry" /\ pusher'.old = standing
        /\ pusher'.kind \in {"push", "sync"}
        /\ DOMAIN standing' = {"state", "head", "described"}
    <2>1. CASE Sync
      BY <1>1, <2>1 DEF Sync, WriteHead
    <2>2. ASSUME NEW who \in plan.pushers, Push(who), NEW n, WriteHead(n, "push")
          PROVE  DOMAIN standing' = {"state", "head", "described"} /\ pusher'.step = "carry"
                 /\ pusher'.old = standing /\ pusher'.kind = "push"
      BY <1>1, <2>2 DEF WriteHead
    <2>3. ASSUME NEW who \in plan.pushers, Push(who)
          PROVE  /\ UNCHANGED <<plan, tips, granted, reviewer, lander, landing, judged>>
                 /\ pusher.step = "idle"
      BY <2>3 DEF Push
    <2>4. ASSUME NEW who \in plan.pushers, Push(who) PROVE \E n : WriteHead(n, "push")
      BY <2>4 DEF Push
    <2> QED BY <2>1, <2>2, <2>3, <2>4 DEF Pushes
  <1> QED BY <1>3, <1>4, <1>5 DEF Pushes

LEMMA HeadsStay ==
    ASSUME GateTyped, ReviewsAreJudged, [GateNext]_gateVars PROVE HeadsTyped'
  <1>0. Grows
    BY StepGrows
  <1>1. CASE Pushes
    <2>1. Adds \/ Again
      BY <1>1, PushesAdd
    <2>2. UNCHANGED <<plan, tips, granted>>
      BY <1>1, PushesAdd
    <2>3. CASE Again
      BY <2>2, <2>3 DEF Again, GateTyped, HeadsTyped, Versions
    <2>4. CASE Adds
      <3>1. \A n \in Versions' : /\ heads'[n].onto \in DOMAIN tips'
                                 /\ heads'[n].delta \in DOMAIN plan'.deltas
        BY <2>2, <2>4 DEF Adds, Appended, GateTyped, HeadsTyped
      <3>2. granted' \in [OwnerRefs -> 0 .. Len(heads')]
        BY <2>2, <2>4 DEF Adds, Appended, GateTyped, HeadsTyped
      <3> QED BY <2>4, <3>1, <3>2 DEF Adds, Appended, HeadsTyped
    <2> QED BY <2>1, <2>3, <2>4
  <1>2. CASE Writes
    <2>1. Backed /\ UNCHANGED <<plan, tips, heads>>
      BY <1>2, ResultsAreBacked, WritesLeave DEF Writes
    <2> QED BY <2>1 DEF Backed, GateTyped, HeadsTyped, Row, Versions
  <1>3. CASE Asides
    BY <1>0, <1>3, AsidesLeave DEF Grows, GateTyped, HeadsTyped, Versions
  <1> QED BY <1>1, <1>2, <1>3, StepsAre

LEMMA OpenHead ==
    ASSUME GateTyped, standing.state = "open" PROVE HeadSHA \in Versions
  BY DEF GateTyped, RowTyped, HeadsTyped, HeadSHA, Versions

LEMMA RowStays ==
    ASSUME GateTyped, ReviewsAreJudged, [GateNext]_gateVars PROVE TreesTyped' /\ RowTyped'
  <1> USE DEF gateVars, gateRows, gateSettings
  <1>1. TreesTyped'
    <2>1. CASE TrunkMoves \/ Land
      BY <2>1, TrunkGrows DEF TrunkMoves, Land, GateTyped, TreesTyped
    <2>2. CASE Asides /\ ~TrunkMoves /\ ~Land
      <3>1. UNCHANGED <<plan, tips>>
        BY <2>2 DEF Asides, ApproveRead, AckRead, Describe, Converse, DisableAutoApprove,
                    LandRead, GateRuns, GateZones, GateOwners
      <3> QED BY <3>1 DEF GateTyped, TreesTyped
    <2>3. CASE Pushes \/ Writes
      BY <2>3, PushesAdd, WritesLeave DEF GateTyped, TreesTyped
    <2> QED BY <2>1, <2>2, <2>3, StepsAre
  <1>2. RowTyped'
    <2>1. CASE Pushes
      <3>1. heads \in Seq(Pushed) /\ standing.head \in 0 .. Len(heads)
        BY DEF GateTyped, HeadsTyped, RowTyped
      <3> QED BY <2>1, <3>1, PushesAdd DEF RowTyped, Adds, Appended, Again
    <2>2. CASE Describe \/ Land
      BY <2>2 DEF Describe, Land, GateTyped, RowTyped
    <2>3. CASE Writes \/ (Asides /\ ~Describe /\ ~Land)
      <3>1. UNCHANGED <<heads, standing>>
        BY <2>3, WritesLeave
        DEF Asides, ApproveRead, AckRead, Converse, DisableAutoApprove, TrunkMoves,
            LandRead, GateRuns, GateZones, GateOwners
      <3> QED BY <3>1 DEF GateTyped, RowTyped
    <2> QED BY <2>1, <2>2, <2>3, StepsAre
  <1> QED BY <1>1, <1>2

LEMMA PusherStays ==
    ASSUME GateTyped, PusherTyped, [GateNext]_gateVars PROVE PusherTyped'
  <1> USE DEF gateVars, gateRows
  <1>1. CASE Pushes
    <2>1. /\ heads \in Seq(Pushed) /\ standing.head \in 0 .. Len(heads)
          /\ heads' \in Seq(Pushed)
      BY <1>1, PushesAdd DEF GateTyped, HeadsTyped, RowTyped, Adds, Appended, Again
    <2>2. CASE Adds
      BY <1>1, <2>1, <2>2, PushesAdd DEF PusherTyped, Adds, Appended
    <2>3. CASE Again
      BY <1>1, <2>1, <2>3, PushesAdd DEF PusherTyped, Again, Versions
    <2> QED BY <1>1, <2>2, <2>3, PushesAdd
  <1>2. CASE Carry \/ Mint
    <2>1. pusher.head \in Versions /\ heads' = heads
      BY <1>2 DEF Carry, Mint, PusherTyped, gateRows
    <2>2. \/ pusher' = NoPushing
          \/ pusher'.step = "mint" /\ pusher'.head = pusher.head
      <3>1. CASE Carry
        <4>1. PICK c : pusher' = IF pusher.kind = "push" /\ Findings(pusher.head)
                                 THEN [step |-> "mint", head |-> pusher.head, covered |-> c]
                                 ELSE NoPushing
          BY <3>1 DEF Carry
        <4> QED BY <4>1
      <3> QED BY <1>2, <3>1 DEF Mint
    <2> QED BY <2>1, <2>2 DEF PusherTyped, NoPushing, Versions
  <1>3. CASE (Writes /\ ~Carry /\ ~Mint) \/ Asides
    <2>1. UNCHANGED <<pusher, heads>>
      BY <1>3, AsidesLeave
      DEF Writes, ReviewWrite, PostCheck, Asides, ApproveRead, AckRead, Describe, Converse,
          DisableAutoApprove, TrunkMoves, LandRead, GateRuns, GateZones, GateOwners, Land
    <2> QED BY <2>1 DEF PusherTyped, Versions
  <1> QED BY <1>1, <1>2, <1>3, StepsAre DEF Writes

LEMMA ReviewerStays ==
    ASSUME GateTyped, ReviewerTyped, Grows, [GateNext]_gateVars PROVE ReviewerTyped'
  <1> USE DEF gateVars, gateRows
  <1>1. CASE (\E h \in Humans, o \in OwnerRefs : ApproveRead(h, o)) \/ AckRead
    <2>1. standing.state = "open" /\ reviewer'.head = HeadSHA /\ heads' = heads
          /\ reviewer'.step \in {"approve", "ack"}
      BY <1>1 DEF ApproveRead, AckRead
    <2> QED BY <2>1, OpenHead DEF ReviewerTyped, Versions
  <1>2. CASE ReviewWrite
    BY <1>2 DEF ReviewWrite, NoReview, ReviewerTyped
  <1>3. CASE Pushes \/ (Writes /\ ~ReviewWrite)
             \/ (Asides /\ ~AckRead /\ ~\E h \in Humans, o \in OwnerRefs : ApproveRead(h, o))
    <2>1. reviewer' = reviewer
      BY <1>3, PushesAdd
      DEF Writes, Carry, Mint, PostCheck, Asides, Describe, Converse, DisableAutoApprove,
          TrunkMoves, LandRead, GateRuns, GateZones, GateOwners, Land
    <2> QED BY <2>1 DEF ReviewerTyped, Grows
  <1> QED BY <1>1, <1>2, <1>3, StepsAre

LEMMA LanderStays ==
    ASSUME GateTyped, LanderTyped, Grows, [GateNext]_gateVars PROVE LanderTyped'
  <1> USE DEF gateVars, gateRows
  <1>1. CASE \E as \in {"human", "lane", "force"} : LandRead(as)
    <2>1. /\ standing.state = "open" /\ heads' = heads
          /\ lander'.step = "runs" /\ lander'.row = standing
      BY <1>1 DEF LandRead
    <2> QED BY <2>1, OpenHead DEF LanderTyped, Versions, HeadSHA
  <1>2. CASE GateRuns \/ GateZones
    <2>1. lander.row.head \in Versions' /\ lander'.row = lander.row
          /\ lander'.step \in {"zones", "owners"}
      <3>1. lander.row.head \in Versions'
        BY <1>2 DEF GateRuns, GateZones, LanderTyped, Grows
      <3>2. CASE GateRuns
        BY <3>1, <3>2 DEF GateRuns
      <3>3. CASE GateZones
        BY <3>1, <3>3 DEF GateZones
      <3> QED BY <1>2, <3>2, <3>3
    <2> QED BY <2>1 DEF LanderTyped
  <1>3. CASE GateOwners
    <2>1. lander.row.head \in Versions'
      BY <1>3 DEF GateOwners, LanderTyped, Grows
    <2>2. \/ lander'.step = "land" /\ lander'.head = lander.row.head
          \/ lander' = NoLand
      BY <1>3 DEF GateOwners
    <2> QED BY <2>1, <2>2 DEF LanderTyped, NoLand
  <1>4. CASE Land
    BY <1>4 DEF Land, NoLand, LanderTyped
  <1>5. CASE lander' = lander
    BY <1>5 DEF LanderTyped, Grows
  <1>6. CASE Pushes \/ Writes
    BY <1>5, <1>6, PushesAdd, WritesLeave
  <1>7. CASE Asides
    BY <1>1, <1>2, <1>3, <1>4, <1>5, <1>7
    DEF Asides, ApproveRead, AckRead, Describe, Converse, DisableAutoApprove, TrunkMoves
  <1> QED BY <1>6, <1>7, StepsAre

LEMMA TypesStay ==
    ASSUME GateTyped, ReviewsAreJudged, [GateNext]_gateVars PROVE GateTyped'
  <1>1. Grows
    BY StepGrows
  <1>2. PusherTyped /\ ReviewerTyped /\ LanderTyped
    BY DEF GateTyped, RequestsTyped
  <1>3. PusherTyped' /\ ReviewerTyped' /\ LanderTyped'
    BY <1>1, <1>2, PusherStays, ReviewerStays, LanderStays
  <1>4. RequestsTyped'
    BY <1>3 DEF RequestsTyped
  <1> QED BY <1>4, RowStays, HeadsStay DEF GateTyped

\* Reviews stay judged: a snapshot carries its judgement to the write.
LEMMA ReviewsStay ==
    ASSUME GateTyped, ReviewsAreJudged, [GateNext]_gateVars PROVE ReviewsAreJudged'
  <1>1. Grows
    BY StepGrows
  <1>2. \A n \in Versions : \A how : Judged(n, how) => n \in Versions' /\ Judged(n, how)'
    BY <1>1, SaidStays
  <1>3. /\ (\A o \in OwnerRefs : granted[o] # 0 => Judged(granted[o], "approval"))'
        /\ (\A n \in Versions : verdicts[n][AgentPolicyCheckName] = "passed" =>
                                   Judged(n, "findings"))'
    <2>1. \A o \in OwnerRefs : granted[o] # 0 => granted[o] \in Versions
      BY DEF GateTyped, HeadsTyped, Versions
    <2>2. CASE Pushes
      <3>1. granted' = granted
        BY <2>2, PushesAdd
      <3>2. \A n \in Versions' : verdicts'[n][AgentPolicyCheckName] = "passed" =>
               n \in Versions /\ verdicts[n][AgentPolicyCheckName] = "passed"
        <4>1. CASE Adds
          BY <4>1 DEF Adds, Appended, CheckNames
        <4>2. CASE Again
          BY <4>2 DEF Again, Versions
        <4> QED BY <2>2, <4>1, <4>2, PushesAdd
      <3> QED BY <1>2, <2>1, <3>1, <3>2 DEF ReviewsAreJudged
    <2>3. CASE Writes
      <3>1. Backed /\ UNCHANGED <<heads, judged>>
        BY <2>3, ResultsAreBacked, WritesLeave DEF Writes
      <3> QED BY <3>1 DEF Backed, Judged, Versions
    <2>4. CASE Asides
      <3>1. UNCHANGED <<heads, granted, verdicts>>
        BY <2>4, AsidesLeave
      <3> QED BY <1>2, <2>1, <3>1 DEF ReviewsAreJudged, Versions
    <2> QED BY <2>2, <2>3, <2>4, StepsAre
  <1>4. /\ (reviewer.step = "approve" => Judged(reviewer.head, "approval"))'
        /\ (reviewer.step = "ack" => Judged(reviewer.head, "findings"))'
    <2>1. CASE reviewer' = reviewer
      <3>1. reviewer.step \in {"approve", "ack"} => reviewer.head \in Versions
        BY DEF GateTyped, RequestsTyped, ReviewerTyped
      <3> QED BY <1>2, <2>1, <3>1 DEF ReviewsAreJudged
    <2>2. CASE \E h \in Humans, o \in OwnerRefs : ApproveRead(h, o)
      BY <2>2 DEF ApproveRead, Judged, Version, gateRows
    <2>3. CASE AckRead
      BY <2>3 DEF AckRead, Judged, Version, gateRows
    <2>4. CASE ReviewWrite
      BY <2>4 DEF ReviewWrite, NoReview
    <2>5. CASE Pushes \/ Carry \/ Mint \/ \E k \in GatedChecks : PostCheck(k)
      BY <2>1, <2>5, PushesAdd DEF Carry, Mint, PostCheck
    <2>6. CASE Asides
      BY <2>1, <2>2, <2>3, <2>6
      DEF Asides, Describe, Converse, DisableAutoApprove, TrunkMoves, LandRead, GateRuns,
          GateZones, GateOwners, Land, gateVars
    <2> QED BY <2>4, <2>5, <2>6, StepsAre DEF Writes
  <1> QED BY <1>3, <1>4 DEF ReviewsAreJudged

\* Findings stay owed until judged or shed.
LEMMA FindingsStay ==
    ASSUME GateTyped, ReviewsAreJudged, FindingsOwed, [GateNext]_gateVars PROVE FindingsOwed'
  <1> DEFINE Owed(n) == /\ Findings(n) /\ verdicts[n][AgentPolicyCheckName] = "none"
                        /\ ~Excused(n)
  <1>1. Grows
    BY StepGrows
  <1>2. \A n \in Versions : /\ n \in Versions' /\ Findings(n)' = Findings(n)
                            /\ Excused(n) => Excused(n)'
    BY <1>1, SaidStays
  <1>3. CASE Pushes
    <2>1. /\ pusher.step = "idle" /\ pusher'.step = "carry"
          /\ Adds \/ Again
      BY <1>3, PushesAdd
    <2>2. ASSUME NEW n \in Versions', ~(pusher'.head = n)
          PROVE  Findings(n)' /\ verdicts'[n][AgentPolicyCheckName] = "none" => Excused(n)'
      <3>1. n \in Versions /\ verdicts'[n] = verdicts[n]
        BY <2>1, <2>2 DEF Adds, Appended, Again, Versions
      <3> QED BY <1>2, <2>1, <3>1 DEF FindingsOwed
    <2>3. ASSUME pusher'.kind = "sync", Findings(pusher.head)' PROVE Excused(pusher.head)'
      <3>1. Sync
        BY <1>3, <2>3 DEF Pushes, Push, WriteHead
      <3> DEFINE old == HeadSHA
                 new == Len(heads')
      <3>2. /\ old \in Versions /\ new \in Versions' /\ pusher'.head = new
            /\ Version(old).delta \in DOMAIN plan.deltas /\ Version(old).author \in Principals
            /\ Appended
            /\ heads'[new].delta = heads[old].delta /\ heads'[new].author = heads[old].author
        <4>1. /\ old \in Versions /\ Version(old).delta \in DOMAIN plan.deltas
              /\ Version(old).author \in Principals
              /\ NewVersion(Version(old).delta, Version(old).author)
          BY <3>1, SyncAppends
        <4>2. /\ Appended /\ heads'[new].delta = Version(old).delta
              /\ heads'[new].author = Version(old).author
          BY <4>1, VersionAppended
        <4>3. heads' \in Seq(Pushed) /\ new = Len(heads) + 1
          BY <4>2 DEF Appended
        <4> QED BY <3>1, <4>1, <4>2, <4>3 DEF Sync, WriteHead, Version, Versions, Appended
      <3>3. plan' = plan /\ judged' = judged
        BY <3>1 DEF Sync, gateSettings
      <3>4. FindingsOf(OnTip(Version(old).delta, Version(old).author))
        <4> DEFINE v == OnTip(Version(old).delta, Version(old).author)
        <4>1. tips' = tips /\ heads'[new] = v
          <5>1. tips' = tips /\ heads' = Append(heads, v)
            BY <3>1 DEF Sync, NewVersion
          <5>2. heads \in Seq(Pushed)
            BY DEF GateTyped, HeadsTyped
          <5> HIDE DEF v
          <5> QED BY <5>1, <5>2
        <4>2. PICK w : w = v
          OBVIOUS
        <4>3. FindingsOf(w)'
          BY <2>3, <3>2, <4>1, <4>2 DEF Findings, Version, FindingsOf
        <4>4. FindingsOf(w)
          BY <3>3, <4>1, <4>3
          DEF FindingsOf, EvaluatePolicy, ModifiesOwners, Creates
        <4> QED BY <4>2, <4>4
      <3>5. CASE verdicts[old][AgentPolicyCheckName] = "passed"
        BY <3>2, <3>3, <3>5 DEF ReviewsAreJudged, Judged, Excused
      <3>6. CASE verdicts[old][AgentPolicyCheckName] # "passed"
        <4>1. Len(heads) + 1 \in shed'
          BY <3>1, <3>4, <3>6 DEF Sync
        <4> QED BY <3>2, <4>1 DEF Excused, Appended
      <3> QED BY <3>5, <3>6
    <2> QED BY <2>1, <2>2, <2>3 DEF FindingsOwed
  <1>4. CASE Writes
    <2>1. /\ UNCHANGED heads
          /\ \A n \in Versions : verdicts'[n][AgentPolicyCheckName] = "none" =>
                                     verdicts[n][AgentPolicyCheckName] = "none"
      BY <1>4, ResultsAreBacked, WritesLeave DEF Writes, Backed
    <2>2. CASE pusher' = pusher
      BY <1>2, <2>1, <2>2 DEF FindingsOwed, Versions, GateTyped, RequestsTyped, PusherTyped
    <2>3. CASE Carry
      <3>1. pusher.head \in Versions /\ pusher.kind \in {"push", "sync"}
        BY <2>3 DEF Carry, GateTyped, RequestsTyped, PusherTyped
      <3>2. pusher'.step # "carry"
        BY <2>3 DEF Carry, NoPushing
      <3>3. CASE Findings(pusher.head) /\ pusher.kind = "push"
        <4>1. pusher'.step = "mint" /\ pusher'.head = pusher.head
          BY <2>3, <3>3 DEF Carry
        <4> QED BY <1>2, <2>1, <3>2, <4>1 DEF FindingsOwed, Versions
      <3>4. CASE Findings(pusher.head) /\ pusher.kind = "sync"
        <4>1. Excused(pusher.head)
          BY <2>3, <3>4 DEF FindingsOwed, Carry
        <4> QED BY <1>2, <2>1, <3>1, <3>2, <4>1 DEF FindingsOwed, Versions
      <3>5. CASE ~Findings(pusher.head)
        BY <1>2, <2>1, <3>1, <3>2, <3>5 DEF FindingsOwed, Versions
      <3> QED BY <3>1, <3>3, <3>4, <3>5
    <2>4. CASE Mint
      <3>1. pusher.head \in Versions /\ pusher' = NoPushing /\ pusher'.step = "idle"
        BY <2>4 DEF Mint, GateTyped, RequestsTyped, PusherTyped, NoPushing
      <3>2. verdicts'[pusher.head][AgentPolicyCheckName] # "none" \/ pusher.head \in shed'
        <4>1. CASE verdicts' = verdicts /\ CarriedAck(pusher.head, pusher.covered)
          BY <4>1 DEF CarriedAck
        <4>2. CASE verdicts' = [verdicts EXCEPT ![pusher.head][AgentPolicyCheckName] = "failed"]
          <5> DEFINE row == [verdicts[pusher.head] EXCEPT ![AgentPolicyCheckName] = "failed"]
          <5>1. row \in Row /\ row[AgentPolicyCheckName] = "failed"
            BY <3>1, RowTypedAt DEF Row, Outcomes
          <5>2. verdicts' = [verdicts EXCEPT ![pusher.head] = row]
            BY <3>1, <4>2, RowTypedAt
          <5> HIDE DEF row
          <5> QED BY <3>1, <5>1, <5>2, RowWritten
        <4>3. CASE pusher.head \in shed'
          BY <4>3
        <4> QED BY <2>4, <4>1, <4>2, <4>3 DEF Mint
      <3> QED BY <1>2, <2>1, <3>1, <3>2 DEF FindingsOwed, Versions, Excused
    <2> QED BY <1>4, <2>2, <2>3, <2>4 DEF Writes, ReviewWrite, PostCheck
  <1>5. CASE Asides
    <2>1. UNCHANGED <<heads, verdicts, pusher>>
      BY <1>5, AsidesLeave
      DEF Asides, ApproveRead, AckRead, Describe, Converse, DisableAutoApprove, TrunkMoves,
          LandRead, GateRuns, GateZones, GateOwners, Land, gateVars
    <2> QED BY <1>2, <2>1 DEF FindingsOwed, Versions, GateTyped, RequestsTyped, PusherTyped
  <1> QED BY <1>3, <1>4, <1>5, StepsAre

\* What the gate in flight saw of the runs stays so.
LEMMA RunsStay ==
    ASSUME GateTyped, ReviewsAreJudged, FindingsOwed, RunsRead, [GateNext]_gateVars
    PROVE  RunsRead'
  <1>1. Grows
    BY StepGrows
  <1>2. CASE lander' = lander
    <2>1. CASE lander.step \in {"zones", "owners"}
      <3>1. lander.row.head \in Versions
        BY <2>1 DEF GateTyped, RequestsTyped, LanderTyped
      <3> QED BY <1>1, <1>2, <2>1, <3>1, SaidStays DEF RunsRead
    <2> QED BY <1>2, <2>1 DEF RunsRead
  <1>3. CASE \E as \in {"human", "lane", "force"} : LandRead(as)
    BY <1>3 DEF LandRead, RunsRead
  <1>4. CASE GateRuns
    <2>0. PICK n : n = lander.row.head
      OBVIOUS
    <2>1. n \in Versions /\ verdicts[n] \in Row /\ AgentPolicyCheckName \in CheckNames
      BY <1>4, <2>0, RowTypedAt DEF GateRuns, GateTyped, RequestsTyped, LanderTyped
    <2>2. lander'.row.head = n /\ lander'.runs = verdicts[n] /\ UNCHANGED <<plan, heads, judged>>
      BY <1>4, <2>0 DEF GateRuns, gateSettings, gateRows
    <2>3. Findings(n)' = Findings(n) /\ (Judged(n, "findings") => Judged(n, "findings")')
          /\ (Excused(n) => Excused(n)')
      BY <1>1, <2>1, SaidStays
    <2>4. Findings(n) /\ verdicts[n][AgentPolicyCheckName] = "none" => Excused(n)'
      <3>1. CASE Excused(n)
        BY <2>3, <3>1
      <3>2. CASE ~Excused(n)
        BY <1>4, <2>0, <2>1, <3>2 DEF FindingsOwed, GateRuns, Excused
      <3> QED BY <3>1, <3>2
    <2>5. verdicts[n][AgentPolicyCheckName] = "passed" => Judged(n, "findings")'
      BY <2>1, <2>3 DEF ReviewsAreJudged
    <2> QED BY <2>1, <2>2, <2>3, <2>4, <2>5 DEF RunsRead, Row
  <1>5. CASE GateZones
    <2>0. PICK n : n = lander.row.head
      OBVIOUS
    <2>1. n \in Versions
      BY <1>5, <2>0 DEF GateZones, GateTyped, RequestsTyped, LanderTyped
    <2>2. lander'.row = lander.row /\ lander'.runs = lander.runs
      BY <1>5 DEF GateZones
    <2>3. Findings(n)' = Findings(n) /\ (Judged(n, "findings") => Judged(n, "findings")')
          /\ (Excused(n) => Excused(n)')
      BY <1>1, <2>1, SaidStays
    <2>4. lander.step = "zones"
      BY <1>5 DEF GateZones
    <2> QED BY <2>0, <2>2, <2>3, <2>4 DEF RunsRead
  <1>6. CASE GateOwners \/ Land
    <2>1. lander'.step \notin {"zones", "owners"}
      BY <1>6 DEF GateOwners, Land, NoLand
    <2> QED BY <2>1 DEF RunsRead
  <1>7. CASE Pushes \/ Writes
    BY <1>2, <1>7, PushesAdd, WritesLeave
  <1>8. CASE Asides
    BY <1>2, <1>3, <1>4, <1>5, <1>6, <1>8
    DEF Asides, ApproveRead, AckRead, Describe, Converse, DisableAutoApprove, TrunkMoves,
        gateVars
  <1> QED BY <1>7, <1>8, StepsAre

\* The zones it saw stay those of that tip.
LEMMA ZonesStay ==
    ASSUME GateTyped, ZonesRead, [GateNext]_gateVars PROVE ZonesRead'
  <1>1. Grows
    BY StepGrows
  <1>2. CASE lander' = lander
    BY <1>1, <1>2 DEF ZonesRead, Grows
  <1>3. CASE (\E as \in {"human", "lane", "force"} : LandRead(as)) \/ GateRuns
    BY <1>3 DEF LandRead, GateRuns, ZonesRead
  <1>4. CASE GateZones
    <2>1. Len(tips) \in DOMAIN tips
      BY DEF GateTyped, TreesTyped
    <2>2. PICK readable \in IF plan.faults THEN BOOLEAN ELSE {TRUE} :
             lander' = [step |-> "owners", as |-> lander.as, row |-> lander.row,
                        runs |-> lander.runs, tip |-> Len(tips), vetoed |-> veto,
                        zones |-> AutoApproveZones(readable)]
      BY <1>4 DEF GateZones
    <2> QED BY <1>1, <2>1, <2>2 DEF AutoApproveZones, ZonesRead, Grows
  <1>5. CASE GateOwners \/ Land
    <2>1. lander'.step # "owners"
      BY <1>5 DEF GateOwners, Land, NoLand
    <2> QED BY <2>1 DEF ZonesRead
  <1>6. CASE Pushes \/ Writes
    BY <1>2, <1>6, PushesAdd, WritesLeave
  <1>7. CASE Asides
    BY <1>2, <1>3, <1>4, <1>5, <1>7
    DEF Asides, ApproveRead, AckRead, Describe, Converse, DisableAutoApprove, TrunkMoves,
        gateVars
  <1> QED BY <1>6, <1>7, StepsAre

\* A land once sound stays sound.
LEMMA SoundStays ==
    ASSUME GateTyped, Grows, NEW l, l.head \in Versions, Lands(l) PROVE Lands(l)'
  <1> DEFINE n == l.head
  <1>1. /\ heads'[n] = heads[n] /\ Files(n)' = Files(n) /\ Findings(n)' = Findings(n)
        /\ \A how : Judged(n, how) => Judged(n, how)'
        /\ Excused(n) => Excused(n)'
        /\ BaseOf(n)' = BaseOf(n)
        /\ \A f : Entrusted(n, f)' = Entrusted(n, f)
    BY SaidStays
  <1>2. l.tip \in DOMAIN tips /\ l.tip \in DOMAIN tips' /\ tips'[l.tip] = tips[l.tip]
    BY DEF Lands, Grows
  <1>3. \A f : Exempt(l, f)' = Exempt(l, f)
    BY <1>2 DEF Exempt
  <1>4. \A f : OwnersOf(BaseOf(n), f)' = OwnersOf(BaseOf(n), f)
    BY <1>1 DEF OwnersOf, OwningProject
  <1> QED BY <1>1, <1>2, <1>3, <1>4 DEF Lands, Acknowledged, InTheLoop

LEMMA LandsStay ==
    ASSUME GateTyped, ReviewsAreJudged, RunsRead, ZonesRead, LandsSound, [GateNext]_gateVars
    PROVE  LandsSound'
  <1> DEFINE InFlight == lander.step = "land" => Lands(lander)
             Landed == landing.head # 0 => landing.head \in Versions /\ Lands(landing)
  <1>1. Grows
    BY StepGrows
  <1>2. ASSUME lander' = lander PROVE InFlight'
    <2>1. PICK l : l = lander
      OBVIOUS
    <2>2. lander.step = "land" => l.head \in Versions /\ Lands(l)
      BY <2>1 DEF GateTyped, RequestsTyped, LanderTyped, LandsSound
    <2>3. lander.step = "land" => Lands(l)'
      BY <1>1, <2>2, SoundStays
    <2> QED BY <1>2, <2>1, <2>3 DEF Lands, Acknowledged, InTheLoop, Exempt
  <1>3. ASSUME landing' = landing PROVE Landed'
    <2>1. PICK l : l = landing
      OBVIOUS
    <2>2. landing.head # 0 => l.head \in Versions /\ Lands(l)
      BY <2>1 DEF LandsSound
    <2>3. landing.head # 0 => l.head \in Versions' /\ Lands(l)'
      BY <1>1, <2>2, SoundStays, SaidStays
    <2> QED BY <1>3, <2>1, <2>3 DEF Lands, Acknowledged, InTheLoop, Exempt
  <1>4. CASE GateOwners
    <2>1. landing' = landing
      BY <1>4 DEF GateOwners
    <2>2. InFlight'
      <3>1. CASE lander'.step # "land"
        BY <3>1
      <3>2. CASE lander'.step = "land"
        <4>1. PICK l : l = lander'
          OBVIOUS
        <4>2. /\ l.as = lander.as /\ l.tip = lander.tip /\ l.head = lander.row.head
              /\ l.vetoed = lander.vetoed /\ l.forced = ~Mergeable(lander)
              /\ lander.step = "owners"
          BY <1>4, <3>2, <4>1 DEF GateOwners, NoLand
        <4>3. l.head \in Versions /\ l.tip \in DOMAIN tips
          BY <4>2 DEF GateTyped, RequestsTyped, LanderTyped, ZonesRead
        <4>4. \A f : Exempt(lander, f) = Exempt(l, f)
          BY <4>2 DEF Exempt
        <4>5. Mergeable(lander) => Acknowledged(l) /\ InTheLoop(l)
          BY <4>2, <4>4, GateAcknowledges, GateAsksAHuman DEF Acknowledged, InTheLoop
        <4>6. Lands(l)
          BY <4>2, <4>3, <4>5 DEF Lands
        <4>7. Lands(l)'
          BY <1>1, <4>3, <4>6, SoundStays
        <4> QED BY <4>1, <4>7 DEF Lands, Acknowledged, InTheLoop, Exempt
      <3> QED BY <3>1, <3>2
    <2> QED BY <1>3, <2>1, <2>2 DEF LandsSound
  <1>5. CASE Land
    <2>1. PICK l : l = lander
      OBVIOUS
    <2>2. l.head \in Versions /\ Lands(l) /\ lander.step = "land"
      BY <1>5, <2>1 DEF Land, GateTyped, RequestsTyped, LanderTyped, LandsSound
    <2>3. l.head \in Versions' /\ Lands(l)'
      BY <1>1, <2>2, SoundStays, SaidStays
    <2>4. /\ landing'.head = l.head /\ landing'.tip = l.tip /\ landing'.as = l.as
          /\ landing'.vetoed = l.vetoed /\ landing'.forced = l.forced
          /\ lander'.step = "idle"
      BY <1>5, <2>1 DEF Land, NoLand
    <2> QED BY <2>3, <2>4 DEF LandsSound, Lands, Acknowledged, InTheLoop, Exempt
  <1>6. CASE (\E as \in {"human", "lane", "force"} : LandRead(as)) \/ GateRuns \/ GateZones
    <2>1. lander'.step # "land" /\ landing' = landing
      <3>1. CASE \E as \in {"human", "lane", "force"} : LandRead(as)
        BY <3>1 DEF LandRead
      <3>2. CASE GateRuns
        BY <3>2 DEF GateRuns
      <3>3. CASE GateZones
        BY <3>3 DEF GateZones
      <3> QED BY <1>6, <3>1, <3>2, <3>3
    <2> QED BY <1>3, <2>1 DEF LandsSound
  <1>7. CASE UNCHANGED <<lander, landing>>
    BY <1>2, <1>3, <1>7 DEF LandsSound
  <1>8. CASE Pushes \/ Writes
    BY <1>7, <1>8, PushesAdd, WritesLeave
  <1>9. CASE Asides
    <2>1. CASE GateOwners \/ Land \/ GateRuns \/ GateZones
               \/ \E as \in {"human", "lane", "force"} : LandRead(as)
      BY <1>4, <1>5, <1>6, <2>1
    <2>2. CASE UNCHANGED <<lander, landing>>
      BY <1>7, <2>2
    <2> QED BY <1>9, <2>1, <2>2
        DEF Asides, ApproveRead, AckRead, Describe, Converse, DisableAutoApprove, TrunkMoves,
            gateVars
  <1> QED BY <1>8, <1>9, StepsAre

-----------------------------------------------------------------------------
LEMMA GateStarts == GateInit => Gate
  <1> SUFFICES ASSUME GateInit PROVE Gate
    OBVIOUS
  <1> USE DEF GateInit
  <1>1. TreesTyped
    <2>1. plan.trees \in Seq(TrunkTree) \ {<< >>}
      BY MergeGateAssumption
    <2>2. plan.trees[1] \in TrunkTree
      BY <2>1
    <2> QED BY <2>2 DEF TreesTyped
  <1>2. HeadsTyped /\ Versions = {}
    <2>1. heads = << >> /\ verdicts = << >> /\ Len(heads) = 0
      OBVIOUS
    <2>2. Versions = {}
      BY <2>1 DEF Versions
    <2> QED BY <2>1, <2>2 DEF HeadsTyped
  <1>3. RowTyped /\ RequestsTyped
    BY DEF RowTyped, RequestsTyped, PusherTyped, ReviewerTyped, LanderTyped, NoPushing,
           NoReview, NoLand
  <1>4. ReviewsAreJudged /\ FindingsOwed
    BY <1>2 DEF ReviewsAreJudged, FindingsOwed, NoReview, NoPushing
  <1>5. RunsRead /\ ZonesRead /\ LandsSound
    BY DEF RunsRead, ZonesRead, LandsSound, NoLand, NotLanded
  <1> QED BY <1>1, <1>2, <1>3, <1>4, <1>5 DEF Gate, GateTyped

LEMMA GateSteps == Gate /\ [GateNext]_gateVars => Gate'
  BY TypesStay, ReviewsStay, FindingsStay, RunsStay, ZonesStay, LandsStay DEF Gate

LEMMA GateSuffices == Gate => GateHolds
  <1> SUFFICES ASSUME Gate, Unforced PROVE GateHolds
    BY DEF GateHolds, FindingsAcknowledged, HumanInLoop
  <1>1. Acknowledged(landing) /\ InTheLoop(landing)
    BY DEF Gate, LandsSound, Lands, Unforced
  <1>2. \A f : InZone(f) = Exempt(landing, f)
    BY DEF InZone, Exempt
  <1> QED BY <1>1, <1>2
      DEF GateHolds, FindingsAcknowledged, HumanInLoop, Acknowledged, InTheLoop, Excused,
          Judged, Version

\* Both promises of the merge gate hold of every behaviour: no finding of the
\* agent policy lands unacknowledged and no agent's delta on owned files lands
\* unjudged, except as trunk's zones allow or as shed names (mergeRequirements,
\* landChangeCore).
THEOREM GateKeepsHumans == GateSpec => []GateHolds
  BY GateStarts, GateSteps, GateSuffices, PTL DEF GateSpec

----------------------------------------------------------------------------
(* The conversation on a Change, from here on.                              *)

\* A list is a sequence of what is in it.
Arr(s) == s \in Seq({s[k] : k \in DOMAIN s})

\* A sequence is a sequence of what is in it.
LEMMA OwnRange ==
  ASSUME NEW X, NEW t \in Seq(X)
  PROVE  Arr(t)
  <1> DEFINE n == Len(t)
             R == {t[k] : k \in DOMAIN t}
  <1>1. n \in Nat /\ t \in [1 .. n -> X] /\ DOMAIN t = 1 .. n
    BY LenProperties
  <1>2. t = [k \in 1 .. n |-> t[k]] /\ \A k \in 1 .. n : t[k] \in R
    BY <1>1
  <1>3. t \in [1 .. n -> R]
    <2> HIDE DEF n, R
    <2> QED
      BY <1>2
  <1>4. t \in Seq(R)
    <2> HIDE DEF n, R
    <2> QED
      BY <1>1, <1>3, SeqDef
  <1> QED
    BY <1>4 DEF Arr

\* What is appended to a list leaves the rest as it was.
LEMMA OneMore ==
  ASSUME NEW s, NEW e, Arr(s)
  PROVE  /\ Arr(Append(s, e))
         /\ Len(s) \in Nat /\ DOMAIN s = 1 .. Len(s) /\ DOMAIN Append(s, e) = 1 .. Len(s) + 1
         /\ \A k \in DOMAIN s : Append(s, e)[k] = s[k]
         /\ Append(s, e)[Len(s) + 1] = e
  <1> DEFINE R == {s[k] : k \in DOMAIN s}
             X == R \cup {e}
  <1>1. s \in Seq(R)
    BY DEF Arr
  <1>2. s \in Seq(X) /\ e \in X
    <2> HIDE DEF R
    <2>1. /\ Len(s) \in Nat /\ s \in [1 .. Len(s) -> R]
      BY <1>1, LenProperties
    <2>2. s \in [1 .. Len(s) -> X]
      BY <2>1
    <2> QED
      BY <2>1, <2>2, SeqDef
  <1>3. /\ Append(s, e) \in Seq(X) /\ Len(Append(s, e)) = Len(s) + 1
        /\ \A k \in 1 .. Len(s) : Append(s, e)[k] = s[k]
        /\ Append(s, e)[Len(s) + 1] = e
    <2> HIDE DEF X
    <2> QED
      BY <1>2, AppendProperties
  <1>4. Len(s) \in Nat /\ DOMAIN s = 1 .. Len(s) /\ DOMAIN Append(s, e) = 1 .. Len(s) + 1
    <2> HIDE DEF X, R
    <2> QED
      BY <1>1, <1>3, LenProperties
  <1> QED
    <2> HIDE DEF X, R
    <2> QED
      BY <1>3, <1>4, OwnRange

\* One element of a list is another.
LEMMA Replaced ==
  ASSUME NEW s, NEW i, NEW e, Arr(s)
  PROVE  LET t == [s EXCEPT ![i] = e] IN
         /\ Arr(t) /\ DOMAIN t = DOMAIN s
         /\ \A k \in DOMAIN s : t[k] = IF k = i THEN e ELSE s[k]
  <1> DEFINE R == {s[k] : k \in DOMAIN s}
             X == R \cup {e}
             t == [s EXCEPT ![i] = e]
             n == Len(s)
  <1>1. n \in Nat /\ DOMAIN s = 1 .. n /\ s \in [1 .. n -> R]
    <2>1. s \in Seq(R)
      BY DEF Arr
    <2> HIDE DEF R
    <2> QED
      BY <2>1, LenProperties
  <1>2. t \in [1 .. n -> X]
    <2> HIDE DEF n, R
    <2> QED
      BY <1>1
  <1>3. DOMAIN t = DOMAIN s /\ \A k \in DOMAIN s : t[k] = IF k = i THEN e ELSE s[k]
    OBVIOUS
  <1>4. Arr(t)
    <2> HIDE DEF n, X, t
    <2> QED
      BY <1>1, <1>2, SeqDef, OwnRange
  <1> QED
    BY <1>3, <1>4

----------------------------------------------------------------------------
VerbType == [pc : {"start", "sent", "refused", "loaded", "announce", "done"},
             looked : Nat, row : Nat, new : Nat]
Said == {"author", "agent", "parent", "anchor", "head", "resolved", "looked"}

Conversed ==
    /\ talk \in Talks
    /\ DOMAIN thread = {"head", "author", "state", "comments", "requests", "approvals"}
    /\ thread.head \in Nat
    /\ Arr(thread.comments) /\ \A k \in DOMAIN thread.comments : DOMAIN thread.comments[k] = Said
    /\ verbs \in [DOMAIN talk.calls -> VerbType]
    /\ \A r \in thread.requests : IsOwner(r)

\* A comment answers the head its author saw, or is known for what it is.
Stamped ==
    \A k \in DOMAIN thread.comments :
        LET c == thread.comments[k] IN c.head = c.looked \/ Odd("unseen", c.author)

\* A call that has the row loaded answers a root.
Threaded ==
    /\ \A k \in DOMAIN thread.comments : RootsOnly(thread.comments[k].parent)
    /\ \A v \in DOMAIN verbs :
          verbs[v].pc = "loaded" /\ Verb(v).kind = "comment" => RootsOnly(Verb(v).parent)

\* What waits to be announced is stored, and what is done with was announced.
Stored ==
    /\ AnnouncedIsStored
    /\ \A v \in DOMAIN verbs :
          /\ verbs[v].pc = "announce" => Verb(v).kind \in {"comment", "request"}
          /\ verbs[v].pc = "announce" /\ Verb(v).kind = "comment" =>
                 verbs[v].new \in DOMAIN thread.comments
          /\ verbs[v].pc = "announce" /\ Verb(v).kind = "request" => Verb(v).of \in thread.requests

Conversation == Conversed /\ Stamped /\ Threaded /\ Stored

LEMMA InitConversation == ReviewInit => Conversation
  <1> SUFFICES ASSUME ReviewInit PROVE Conversation
    OBVIOUS
  <1>1. /\ thread.comments = << >> /\ thread.requests = {} /\ thread.head = 1
        /\ DOMAIN thread = {"head", "author", "state", "comments", "requests", "approvals"}
        /\ verbs = [v \in DOMAIN talk.calls |-> NoVerb] /\ announced = {} /\ talk \in Talks
    BY DEF ReviewInit
  <1>2. Arr(<< >>) /\ DOMAIN << >> = {}
    BY DEF Arr
  <1>3. NoVerb \in VerbType /\ NoVerb.pc = "start"
    BY DEF NoVerb, VerbType
  <1>4. verbs \in [DOMAIN talk.calls -> VerbType] /\ \A v \in DOMAIN verbs : verbs[v].pc = "start"
    BY <1>1, <1>3
  <1> QED
    BY <1>1, <1>2, <1>4 DEF Conversation, Conversed, Stamped, Threaded, Stored, AnnouncedIsStored

----------------------------------------------------------------------------
\* A step of one call, the Change's comments and requests being left as they are.
LEMMA OneVerb ==
  ASSUME Conversation, NEW v \in DOMAIN verbs, NEW w \in VerbType,
         verbs' = [verbs EXCEPT ![v] = w], UNCHANGED <<talk, announced>>,
         DOMAIN thread' = DOMAIN thread, thread'.head = thread.head,
         thread'.comments = thread.comments, thread'.requests = thread.requests,
         oddities \subseteq oddities',
         \/ w.pc \in {"start", "sent", "refused", "loaded"}
         \/ w.pc = "done" /\ (Verb(v).kind = "comment" => Odd("unannounced", Verb(v).who)'),
         w.pc = "loaded" /\ Verb(v).kind = "comment" => RootsOnly(Verb(v).parent)
  PROVE  Conversation'
  <1>1. /\ DOMAIN verbs' = DOMAIN verbs /\ verbs'[v] = w
        /\ \A u \in DOMAIN verbs : u # v => verbs'[u] = verbs[u]
        /\ verbs' \in [DOMAIN talk.calls -> VerbType]
    BY DEF Conversation, Conversed
  <1>2. \A u : Verb(u)' = Verb(u)
    BY DEF Verb
  <1>3. \A p : RootsOnly(p)' = RootsOnly(p)
    BY DEF RootsOnly
  <1>4. Conversed'
    BY <1>1 DEF Conversation, Conversed
  <1>5. Stamped'
    BY DEF Conversation, Stamped, Odd
  <1>6. Threaded'
    BY <1>1, <1>2, <1>3 DEF Conversation, Threaded
  <1>7. Stored'
    BY <1>1, <1>2 DEF Conversation, Stored, AnnouncedIsStored, Odd
  <1> QED
    BY <1>4, <1>5, <1>6, <1>7 DEF Conversation

\* A call's own step short of a write.
CallSteps(v) ==
    \/ CommentVerb(v) \/ ResolveVerb(v) \/ RequestReviewVerb(v) \/ ApproveVerb(v)
    \/ CommentRead(v) \/ ResolveRead(v) \/ RequestReviewRead(v) \/ ApproveChangeRead(v)

LEMMA CallsKept ==
  ASSUME Conversation, NEW v \in DOMAIN verbs, CallSteps(v)
  PROVE  Conversation'
  <1>1. verbs[v] \in VerbType /\ thread.head \in Nat
    BY DEF Conversation, Conversed
  <1>2. CASE CommentVerb(v) \/ ResolveVerb(v) \/ RequestReviewVerb(v) \/ ApproveVerb(v)
    <2>1. /\ verbs' = [verbs EXCEPT ![v].pc = "sent", ![v].looked = thread.head]
          /\ UNCHANGED <<talk, thread, announced, oddities>>
      BY <1>2 DEF CommentVerb, ResolveVerb, RequestReviewVerb, ApproveVerb, PostVerb
    <2>2. PICK w : w = [verbs[v] EXCEPT !.pc = "sent", !.looked = thread.head]
      OBVIOUS
    <2>3. w \in VerbType /\ w.pc = "sent"
      BY <1>1, <2>2 DEF VerbType
    <2>4. verbs' = [verbs EXCEPT ![v] = w]
      BY <2>1, <2>2
    <2> QED
      BY <2>1, <2>3, <2>4, OneVerb
  <1>3. CASE \/ CommentRead(v) \/ ResolveRead(v) \/ RequestReviewRead(v) \/ ApproveChangeRead(v)
    <2>1. /\ Loaded(v) \/ Declined(v)
          /\ Loaded(v) /\ Verb(v).kind = "comment" => RootsOnly(Verb(v).parent) \/ Declined(v)
          /\ UNCHANGED <<talk, thread, announced, oddities>>
      BY <1>3 DEF CommentRead, ResolveRead, RequestReviewRead, ApproveChangeRead, ParentAllowed,
                  Arrived
    <2>2. CASE Declined(v)
      <3>1. PICK w : w = [verbs[v] EXCEPT !.pc = "refused"]
        OBVIOUS
      <3>2. w \in VerbType /\ w.pc = "refused"
        BY <1>1, <3>1 DEF VerbType
      <3>3. verbs' = [verbs EXCEPT ![v] = w]
        BY <2>2, <3>1 DEF Declined
      <3> QED
        BY <2>1, <3>2, <3>3, OneVerb
    <2>3. CASE Loaded(v) /\ ~Declined(v)
      <3>1. PICK w : w = [verbs[v] EXCEPT !.pc = "loaded", !.row = thread.head]
        OBVIOUS
      <3>2. w \in VerbType /\ w.pc = "loaded"
        BY <1>1, <3>1 DEF VerbType
      <3>3. verbs' = [verbs EXCEPT ![v] = w]
        BY <2>3, <3>1 DEF Loaded
      <3> QED
        BY <2>1, <2>3, <3>2, <3>3, OneVerb
    <2> QED
      BY <2>1, <2>2, <2>3
  <1> QED
    BY <1>2, <1>3 DEF CallSteps

\* A failing write is refused; a failing outbox leaves a trace.
LEMMA FailureKept ==
  ASSUME Conversation, NEW v \in DOMAIN verbs, StoreFails(v)
  PROVE  Conversation'
  <1>1. verbs[v] \in VerbType
    BY DEF Conversation, Conversed
  <1>2. CASE verbs[v].pc = "loaded"
    <2>1. PICK w : w = [verbs[v] EXCEPT !.pc = "refused"]
      OBVIOUS
    <2>2. w \in VerbType /\ w.pc = "refused"
      BY <1>1, <2>1 DEF VerbType
    <2>3. verbs' = [verbs EXCEPT ![v] = w] /\ UNCHANGED <<talk, thread, announced, oddities>>
      BY <1>2, <2>1 DEF StoreFails
    <2> QED
      BY <2>2, <2>3, OneVerb
  <1>3. CASE verbs[v].pc = "announce"
    <2>1. PICK w : w = [verbs[v] EXCEPT !.pc = "done"]
      OBVIOUS
    <2>2. w \in VerbType /\ w.pc = "done" /\ w.new = verbs[v].new
      BY <1>1, <2>1 DEF VerbType
    <2>3. /\ verbs' = [verbs EXCEPT ![v] = w] /\ UNCHANGED <<talk, thread, announced>>
          /\ oddities' = oddities \cup {<<"unannounced", Verb(v).who>>}
      BY <1>3, <2>1 DEF StoreFails
    <2>4. Odd("unannounced", Verb(v).who)'
      BY <2>3 DEF Odd, Verb
    <2> QED
      BY <2>2, <2>3, <2>4, OneVerb
  <1> QED
    BY <1>2, <1>3 DEF StoreFails

\* A comment is written under what its handler read, and its id waits to be announced.
LEMMA CommentKept ==
  ASSUME Conversation, NEW v \in DOMAIN verbs, CreateComment(v)
  PROVE  Conversation'
  <1>1. verbs[v] \in VerbType /\ Arr(thread.comments)
    BY DEF Conversation, Conversed
  <1>2. PICK c : c = CommentOf(v)
    OBVIOUS
  <1>3. /\ DOMAIN c = Said /\ c.parent = Verb(v).parent /\ c.author = Verb(v).who
        /\ c.head = verbs[v].row /\ c.looked = verbs[v].looked
    BY <1>2 DEF CommentOf, Said
  <1>4. /\ verbs[v].pc = "loaded" /\ Verb(v).kind = "comment" /\ UNCHANGED <<talk, announced>>
        /\ thread' = [thread EXCEPT !.comments = Append(thread.comments, c)]
        /\ verbs' = [verbs EXCEPT ![v].pc = "announce", ![v].new = Len(thread.comments) + 1]
        /\ oddities' = oddities \cup Unseen(v)
    BY <1>2 DEF CreateComment, NewCommentID, InsertedID
  <1>5. /\ thread'.comments = Append(thread.comments, c)
        /\ thread'.head = thread.head /\ thread'.requests = thread.requests
        /\ DOMAIN thread' = DOMAIN thread
    BY <1>4 DEF Conversation, Conversed
  <1>6. /\ Arr(thread'.comments) /\ Len(thread.comments) \in Nat
        /\ DOMAIN thread.comments = 1 .. Len(thread.comments)
        /\ DOMAIN thread'.comments = 1 .. Len(thread.comments) + 1
        /\ \A k \in DOMAIN thread.comments : thread'.comments[k] = thread.comments[k]
        /\ thread'.comments[Len(thread.comments) + 1] = c
    BY <1>1, <1>5, OneMore
  <1>7. PICK w : w = [verbs[v] EXCEPT !.pc = "announce", !.new = Len(thread.comments) + 1]
    OBVIOUS
  <1>8. w \in VerbType /\ w.pc = "announce" /\ w.new = Len(thread.comments) + 1
    <2>1. PICK n \in Nat : n = Len(thread.comments) + 1
      BY <1>6
    <2> QED
      BY <1>1, <1>7, <2>1 DEF VerbType
  <1>9. /\ verbs' = [verbs EXCEPT ![v] = w] /\ DOMAIN verbs' = DOMAIN verbs /\ verbs'[v] = w
        /\ \A u \in DOMAIN verbs : u # v => verbs'[u] = verbs[u]
    BY <1>4, <1>7
  <1>10. \A u : Verb(u)' = Verb(u)
    BY <1>4 DEF Verb
  <1>11. \A p : RootsOnly(p) => RootsOnly(p)'
    BY <1>6 DEF RootsOnly
  <1>12. Conversed'
    BY <1>3, <1>4, <1>5, <1>6, <1>8, <1>9 DEF Conversation, Conversed
  <1>13. Stamped'
    <2>1. c.head = c.looked \/ Odd("unseen", c.author)'
      BY <1>3, <1>4 DEF Odd, Unseen
    <2>2. \A why, who : Odd(why, who) => Odd(why, who)'
      BY <1>4 DEF Odd
    <2> QED
      BY <1>6, <2>1, <2>2 DEF Conversation, Stamped
  <1>14. Threaded'
    <2>1. RootsOnly(Verb(v).parent)
      BY <1>4 DEF Conversation, Threaded
    <2> QED
      BY <1>3, <1>6, <1>8, <1>9, <1>10, <1>11, <2>1 DEF Conversation, Threaded
  <1>15. Stored'
    <2>1. \A why, who : Odd(why, who) => Odd(why, who)'
      BY <1>4 DEF Odd
    <2>2. AnnouncedIsStored'
      BY <1>4, <1>5, <1>6, <1>8, <1>9, <1>10, <2>1 DEF Conversation, Stored, AnnouncedIsStored
    <2> QED
      BY <1>4, <1>5, <1>6, <1>8, <1>9, <1>10, <2>2 DEF Conversation, Stored
  <1> QED
    BY <1>12, <1>13, <1>14, <1>15 DEF Conversation

\* What waits to be announced is announced as it is stored.
LEMMA AnnounceKept ==
  ASSUME Conversation, NEW v \in DOMAIN verbs,
         EnqueueCommentWebhook(v) \/ EnqueueReviewRequestWebhook(v)
  PROVE  Conversation'
  <1>1. verbs[v] \in VerbType /\ verbs[v].pc = "announce"
    BY DEF Conversation, Conversed, EnqueueCommentWebhook, EnqueueReviewRequestWebhook
  <1>2. PICK w : w = [verbs[v] EXCEPT !.pc = "done"]
    OBVIOUS
  <1>3. w \in VerbType /\ w.pc = "done" /\ w.new = verbs[v].new
    BY <1>1, <1>2 DEF VerbType
  <1>4. /\ verbs' = [verbs EXCEPT ![v] = w] /\ DOMAIN verbs' = DOMAIN verbs /\ verbs'[v] = w
        /\ \A u \in DOMAIN verbs : u # v => verbs'[u] = verbs[u]
        /\ UNCHANGED <<talk, thread, oddities>>
    BY <1>2 DEF EnqueueCommentWebhook, EnqueueReviewRequestWebhook
  <1>5. \/ /\ Verb(v).kind = "comment" /\ verbs[v].new \in DOMAIN thread.comments
           /\ announced' = announced \cup {<<"comment", verbs[v].new>>}
        \/ /\ Verb(v).kind = "request" /\ Verb(v).of \in thread.requests
           /\ announced' = announced \cup {<<"request", Verb(v).of>>}
    BY <1>1 DEF EnqueueCommentWebhook, EnqueueReviewRequestWebhook, Conversation, Stored
  <1>6. \A u : Verb(u)' = Verb(u)
    BY <1>4 DEF Verb
  <1>7. Conversed'
    BY <1>3, <1>4 DEF Conversation, Conversed
  <1>8. Stamped'
    BY <1>4 DEF Conversation, Stamped, Odd
  <1>9. Threaded'
    BY <1>3, <1>4, <1>6 DEF Conversation, Threaded, RootsOnly
  <1>10. AnnouncedIsStored'
    <2>1. \A a \in announced' : IF a[1] = "comment" THEN a[2] \in DOMAIN thread'.comments
                                ELSE a[2] \in thread'.requests
      BY <1>4, <1>5 DEF Conversation, Stored, AnnouncedIsStored
    <2>2. \A u \in DOMAIN verbs' : verbs'[u].pc = "done" /\ Verb(u).kind = "comment" =>
             <<"comment", verbs'[u].new>> \in announced' \/ Odd("unannounced", Verb(u).who)
      BY <1>3, <1>4, <1>5 DEF Conversation, Stored, AnnouncedIsStored
    <2> QED
      BY <1>4, <1>6, <2>1, <2>2 DEF AnnouncedIsStored, Odd
  <1>11. Stored'
    BY <1>3, <1>4, <1>6, <1>10 DEF Conversation, Stored
  <1> QED
    BY <1>7, <1>8, <1>9, <1>11 DEF Conversation

LEMMA RequestKept ==
  ASSUME Conversation, NEW v \in DOMAIN verbs, UpsertReviewRequest(v)
  PROVE  Conversation'
  <1>1. /\ verbs[v] \in VerbType /\ DOMAIN verbs = DOMAIN talk.calls /\ talk \in Talks
    BY DEF Conversation, Conversed
  <1>2. PICK w : w = [verbs[v] EXCEPT !.pc = "announce"]
    OBVIOUS
  <1>3. w \in VerbType /\ w.pc = "announce" /\ w.new = verbs[v].new
    BY <1>1, <1>2 DEF VerbType
  <1>4. /\ verbs' = [verbs EXCEPT ![v] = w] /\ DOMAIN verbs' = DOMAIN verbs /\ verbs'[v] = w
        /\ \A u \in DOMAIN verbs : u # v => verbs'[u] = verbs[u]
        /\ Verb(v).kind = "request"
        /\ thread' = [thread EXCEPT !.requests = thread.requests \cup {Verb(v).of}]
        /\ UNCHANGED <<talk, announced>> /\ oddities' = oddities \cup Unseen(v)
    BY <1>2 DEF UpsertReviewRequest
  <1>5. /\ thread'.comments = thread.comments /\ thread'.head = thread.head
        /\ thread'.requests = thread.requests \cup {Verb(v).of}
        /\ DOMAIN thread' = DOMAIN thread
    BY <1>4 DEF Conversation, Conversed
  <1>6. IsOwner(Verb(v).of)
    BY <1>1, <1>4, ReviewAssumption DEF Verb
  <1>7. \A u : Verb(u)' = Verb(u)
    BY <1>4 DEF Verb
  <1>8. \A why, who : Odd(why, who) => Odd(why, who)'
    BY <1>4 DEF Odd
  <1>9. Conversed'
    BY <1>3, <1>4, <1>5, <1>6 DEF Conversation, Conversed
  <1>10. Stamped'
    BY <1>5, <1>8 DEF Conversation, Stamped
  <1>11. Threaded'
    BY <1>3, <1>4, <1>5, <1>7 DEF Conversation, Threaded, RootsOnly
  <1>12. AnnouncedIsStored'
    BY <1>3, <1>4, <1>5, <1>7, <1>8 DEF Conversation, Stored, AnnouncedIsStored
  <1>13. Stored'
    BY <1>3, <1>4, <1>5, <1>7, <1>12 DEF Conversation, Stored
  <1> QED
    BY <1>9, <1>10, <1>11, <1>13 DEF Conversation

\* A root is resolved or reopened; nothing else is said of it.
LEMMA ResolveKept ==
  ASSUME Conversation, NEW v \in DOMAIN verbs, SetCommentResolved(v)
  PROVE  Conversation'
  <1> DEFINE id == Verb(v).parent
  <1>1. /\ verbs[v] \in VerbType /\ Arr(thread.comments)
    BY DEF Conversation, Conversed
  <1>2. PICK w : w = [verbs[v] EXCEPT !.pc = "done"]
    OBVIOUS
  <1>3. w \in VerbType /\ w.pc = "done" /\ w.new = verbs[v].new
    BY <1>1, <1>2 DEF VerbType
  <1>4. PICK e : e = [thread.comments[id] EXCEPT !.resolved = Verb(v).anchor # "reopen"]
    OBVIOUS
  <1>5. /\ verbs' = [verbs EXCEPT ![v] = w] /\ DOMAIN verbs' = DOMAIN verbs /\ verbs'[v] = w
        /\ \A u \in DOMAIN verbs : u # v => verbs'[u] = verbs[u]
        /\ Verb(v).kind = "resolve" /\ UNCHANGED <<talk, announced>>
        /\ oddities' = oddities \cup Unseen(v)
    BY <1>2 DEF SetCommentResolved
  <1>6. thread' = [thread EXCEPT !.comments = [thread.comments EXCEPT ![id] = e]]
    BY <1>4 DEF SetCommentResolved
  <1>7. /\ thread'.comments = [thread.comments EXCEPT ![id] = e] /\ thread'.head = thread.head
        /\ thread'.requests = thread.requests /\ DOMAIN thread' = DOMAIN thread
    BY <1>6 DEF Conversation, Conversed
  <1>8. /\ Arr(thread'.comments) /\ DOMAIN thread'.comments = DOMAIN thread.comments
        /\ \A k \in DOMAIN thread.comments :
              thread'.comments[k] = IF k = id THEN e ELSE thread.comments[k]
    BY <1>1, <1>7, Replaced
  <1>9. \A k \in DOMAIN thread.comments :
           /\ DOMAIN thread'.comments[k] = Said
           /\ thread'.comments[k].author = thread.comments[k].author
           /\ thread'.comments[k].parent = thread.comments[k].parent
           /\ thread'.comments[k].head = thread.comments[k].head
           /\ thread'.comments[k].looked = thread.comments[k].looked
    <2>1. \A k \in DOMAIN thread.comments : DOMAIN thread.comments[k] = Said
      BY DEF Conversation, Conversed
    <2>2. id \in DOMAIN thread.comments =>
            /\ DOMAIN e = Said /\ e.author = thread.comments[id].author
            /\ e.parent = thread.comments[id].parent /\ e.head = thread.comments[id].head
            /\ e.looked = thread.comments[id].looked
      BY <1>4, <2>1 DEF Said
    <2> QED
      BY <1>8, <2>1, <2>2
  <1>10. \A u : Verb(u)' = Verb(u)
    BY <1>5 DEF Verb
  <1>11. \A why, who : Odd(why, who) => Odd(why, who)'
    BY <1>5 DEF Odd
  <1>12. \A p : RootsOnly(p) => RootsOnly(p)'
    BY <1>8, <1>9 DEF RootsOnly
  <1>13. Conversed'
    BY <1>3, <1>5, <1>7, <1>8, <1>9 DEF Conversation, Conversed
  <1>14. Stamped'
    BY <1>8, <1>9, <1>11 DEF Conversation, Stamped
  <1>15. Threaded'
    BY <1>3, <1>5, <1>8, <1>9, <1>10, <1>12 DEF Conversation, Threaded
  <1>16. AnnouncedIsStored'
    BY <1>3, <1>5, <1>7, <1>8, <1>10, <1>11 DEF Conversation, Stored, AnnouncedIsStored
  <1>17. Stored'
    BY <1>3, <1>5, <1>7, <1>8, <1>10, <1>16 DEF Conversation, Stored
  <1> QED
    BY <1>13, <1>14, <1>15, <1>17 DEF Conversation

LEMMA ApprovalKept ==
  ASSUME Conversation, NEW v \in DOMAIN verbs, RecordApproval(v)
  PROVE  Conversation'
  <1>1. verbs[v] \in VerbType
    BY DEF Conversation, Conversed
  <1>2. PICK w : w = [verbs[v] EXCEPT !.pc = "done"]
    OBVIOUS
  <1>3. w \in VerbType /\ w.pc = "done"
    BY <1>1, <1>2 DEF VerbType
  <1>4. /\ verbs' = [verbs EXCEPT ![v] = w] /\ Verb(v).kind = "approve"
        /\ UNCHANGED <<talk, announced>> /\ oddities \subseteq oddities'
    BY <1>2 DEF RecordApproval
  <1>5. /\ thread'.comments = thread.comments /\ thread'.head = thread.head
        /\ thread'.requests = thread.requests /\ DOMAIN thread' = DOMAIN thread
    BY DEF RecordApproval, Conversation, Conversed
  <1> QED
    BY <1>3, <1>4, <1>5, OneVerb

\* An amend and the Change's end leave the conversation as it is.
LEMMA ChangeMoves ==
  ASSUME Conversation, Amend \/ ChangeCloses
  PROVE  Conversation'
  <1>1. /\ thread'.comments = thread.comments /\ thread'.head \in Nat
        /\ thread'.requests = thread.requests /\ DOMAIN thread' = DOMAIN thread
        /\ UNCHANGED <<talk, verbs, announced, oddities>>
    <2>1. CASE Amend
      <3>1. PICK who \in talk.amenders :
                thread' = [thread EXCEPT !.head = thread.head + 1, !.author = who]
        BY <2>1 DEF Amend
      <3>2. PICK h \in Nat : h = thread.head + 1
        BY DEF Conversation, Conversed
      <3>3. thread' = [thread EXCEPT !.head = h, !.author = who]
        BY <3>1, <3>2
      <3>4. UNCHANGED <<talk, verbs, announced, oddities>>
        BY <2>1 DEF Amend
      <3> QED
        BY <3>3, <3>4 DEF Conversation, Conversed
    <2>2. CASE ChangeCloses
      BY <2>2 DEF ChangeCloses, Conversation, Conversed
    <2> QED
      BY <2>1, <2>2
  <1> QED
    BY <1>1 DEF Conversation, Conversed, Stamped, Threaded, Stored, AnnouncedIsStored, Odd,
                Verb, RootsOnly

LEMMA NextConversation ==
  ASSUME Conversation, [ReviewNext]_reviewVars
  PROVE  Conversation'
  <1>1. ASSUME NEW v \in DOMAIN verbs,
               \/ CallSteps(v) \/ StoreFails(v) \/ CreateComment(v) \/ SetCommentResolved(v)
               \/ EnqueueCommentWebhook(v) \/ EnqueueReviewRequestWebhook(v)
               \/ UpsertReviewRequest(v) \/ RecordApproval(v)
        PROVE  Conversation'
    BY <1>1, CallsKept, FailureKept, CommentKept, ResolveKept, AnnounceKept, RequestKept,
       ApprovalKept
  <1>2. CASE UNCHANGED reviewVars
    BY <1>2 DEF reviewVars, Conversation, Conversed, Stamped, Threaded, Stored,
                AnnouncedIsStored, Odd, Verb, RootsOnly
  <1> QED
    BY <1>1, <1>2, ChangeMoves DEF ReviewNext, CallSteps

LEMMA ConversationIsHonest ==
  ASSUME Conversation
  PROVE  ReviewHonest
  <1>1. \A o \in TalkOwners : o = <<o[1], o[2]>>
    BY ReviewAssumption DEF IsOwner, Conversation, Conversed, TalkOwners
  <1>2. \A r \in thread.requests : r[1] \in {"user", "name", "group"} /\ r = <<r[1], r[2]>>
    BY DEF IsOwner, Conversation, Conversed
  <1>3. SomebodyIsAsked
    <2> SUFFICES ASSUME thread.author # Unnamed, AttentionSet = {}
                 PROVE  /\ \A o \in TalkOwners : Satisfied(o) \/ o = <<"user", thread.author>>
                        /\ thread.requests \subseteq {<<"name", thread.author>>}
      BY DEF SomebodyIsAsked
    <2>1. ~Responded /\ AskedOwners = {} /\ AskedReviewers = {}
      BY DEF AttentionSet, AskedAuthor
    <2>2. Commented \subseteq {thread.author}
      BY <2>1 DEF Responded
    <2>3. \A o \in TalkOwners : Satisfied(o) \/ o = <<"user", thread.author>>
      BY <1>1, <2>1, <2>2 DEF AskedOwners
    <2>4. thread.requests \subseteq {<<"name", thread.author>>}
      BY <2>1, <2>2 DEF AskedReviewers
    <2> QED
      BY <2>3, <2>4
  <1>4. AnswersThisHead
    <2> SUFFICES ASSUME NEW r \in {o \in TalkOwners : o[1] = "user"}
                                  \cup {q \in thread.requests : q[1] # "group"},
                        NEW who, who = r[2], who # thread.author,
                        {<<"name", who>>, <<"user", who>>} \cap AttentionSet = {}
                 PROVE  \/ \E c \in Comments : c.author = who /\ c.looked = thread.head
                        \/ <<"user", who>> \in TalkOwners /\ Satisfied(<<"user", who>>)
                        \/ Odd("unseen", who)
      BY DEF AnswersThisHead
    <2>1. CASE who \in Commented
      <3>1. PICK k \in DOMAIN thread.comments :
                /\ thread.comments[k].author = who /\ thread.comments[k].head = thread.head
        BY <2>1 DEF Commented, CommentedNow, Comments
      <3> QED
        BY <3>1 DEF Conversation, Stamped, Comments
    <2>2. CASE r \in TalkOwners /\ r[1] = "user" /\ who \notin Commented
      <3>1. r = <<"user", who>>
        BY <1>1, <2>2
      <3>2. r \notin AskedOwners
        BY <3>1 DEF AttentionSet
      <3> QED
        BY <2>2, <3>1, <3>2 DEF AskedOwners
    <2>3. CASE r \in thread.requests /\ r[1] # "group" /\ who \notin Commented
      <3>1. r \in AskedReviewers
        BY <1>2, <2>3 DEF AskedReviewers
      <3> QED
        BY <1>2, <2>3, <3>1 DEF AttentionSet
    <2> QED
      BY <2>1, <2>2, <2>3
  <1>5. AllCommentsShown
    BY DEF Conversation, Threaded, RootsOnly, AllCommentsShown, ShownThreads
  <1> QED
    BY <1>3, <1>4, <1>5 DEF Conversation, Stored, ReviewHonest
----------------------------------------------------------------------------
\* An open Change that waits for somebody asks somebody; who is no longer asked has
\* answered its head; all comments are shown and what is announced is stored, for any
\* owners, agents, calls, amends and failing writes (review.go, comments.go).
THEOREM ReviewIsHonest == ReviewSpec => []ReviewHonest
  BY InitConversation, NextConversation, ConversationIsHonest, PTL DEF ReviewSpec

-----------------------------------------------------------------------------
(* SelfUpdate: the command that replaces itself.                            *)

Contents == Builds \cup {NoFile}
UpdateStates == Ended \cup {"start", "sums", "hash", "download", "verify", "swap", "clear",
                            "aside", "place"}
Runs == [Updaters -> [at : UpdateStates, want : Contents]]
Binaries == [exe : Contents, old : Contents, temp : [Updaters -> Contents \cup {Torn}]]

UpdateTypes ==
    /\ host \in [windows : BOOLEAN, check : BOOLEAN, installed : Builds, release : Builds]
    /\ shelf \in [asset : Contents, sums : Contents, coming : Builds]
    /\ bin \in Binaries /\ updates \in Runs /\ stopsLeft \in Nat

\* The checksums on the shelf were published.
Shelved == shelf.sums # NoFile => shelf.sums \in released

\* The run u: the build it wants was published, and is what it is about to install.
UpdateRun(u) ==
    LET at == updates[u].at
    IN  /\ at \in {"clear", "aside", "place"} => host.windows
        /\ at \in {"hash", "download", "verify"} => updates[u].want # NoFile
        /\ at \in {"swap", "clear", "aside", "place"} =>
              bin.temp[u] = updates[u].want /\ updates[u].want # NoFile
        /\ at \notin {"verify", "swap", "clear", "aside", "place", "stopped"} =>
              bin.temp[u] = NoFile
        /\ updates[u].want # NoFile => updates[u].want \in released

UpdateInv == /\ UpdateTypes /\ Shelved /\ \A u \in Updaters : UpdateRun(u)
             /\ BinaryKept /\ InstalledAsPublished

LEMMA NoBuild == NoFile \notin Builds /\ Torn \notin Builds /\ NoFile # Torn
  BY UpdateAssumption DEF NoFile, Torn

LEMMA UpdateInvInit == UpdateInit => UpdateInv
  <1> SUFFICES ASSUME UpdateInit PROVE UpdateInv
    OBVIOUS
  <1>1. /\ host \in [windows : BOOLEAN, check : BOOLEAN, installed : Builds, release : Builds]
        /\ bin.exe = host.installed /\ bin.old = NoFile /\ bin.temp = [u \in Updaters |-> NoFile]
        /\ bin \in Binaries /\ shelf.sums = host.release /\ released = {host.release}
        /\ shelf \in [asset : Contents, sums : Contents, coming : Builds]
    BY UpdateAssumption DEF UpdateInit, Binaries, Contents
  <1>2. updates \in Runs /\ stopsLeft \in Nat
        /\ \A u \in Updaters : updates[u].at = "start" /\ updates[u].want = NoFile
    BY UpdateAssumption DEF UpdateInit, Runs, Contents, UpdateStates
  <1>3. UpdateTypes /\ Shelved
    BY <1>1, <1>2 DEF UpdateTypes, Shelved
  <1>4. \A u \in Updaters : UpdateRun(u)
    BY <1>1, <1>2 DEF UpdateRun
  <1>5. BinaryKept /\ InstalledAsPublished
    BY <1>1, NoBuild DEF BinaryKept, InstalledAsPublished
  <1> QED BY <1>3, <1>4, <1>5 DEF UpdateInv

-----------------------------------------------------------------------------
\* What a step of the run u leaves alone.
StepOf(u) ==
    /\ host' = host /\ shelf' = shelf /\ released' = released
    /\ \A v \in Updaters \ {u} : updates'[v] = updates[v] /\ bin'.temp[v] = bin.temp[v]

LEMMA RunsKept ==
  ASSUME UpdateInv, NEW u \in Updaters, StepOf(u), UpdateRun(u)'
  PROVE  \A v \in Updaters : UpdateRun(v)'
  <1> TAKE v \in Updaters
  <1>1. CASE v = u
    BY <1>1
  <1>2. CASE v # u
    BY <1>2 DEF UpdateInv, UpdateRun, StepOf
  <1> QED BY <1>1, <1>2

\* The binary and the one moved aside stay, and nobody leaves the gap.
LEMMA BinaryStays ==
  ASSUME BinaryKept, host' = host, bin'.exe = bin.exe, bin'.old = bin.old,
         missteps \subseteq missteps',
         \A v \in Updaters : UpdateAt(v, "place") =>
             UpdateAt(v, "place")' \/ "stopped between renames" \in missteps'
  PROVE  BinaryKept'
  BY DEF BinaryKept

\* The builds on the machine only move, and no run that ended forgets its checksum.
LEMMA NamesStay ==
  ASSUME InstalledAsPublished, host' = host, released \subseteq released',
         bin'.exe \in {bin.exe, bin.old, NoFile}, bin'.old \in {bin.exe, bin.old, NoFile},
         \A v \in Updaters : UpdateAt(v, "updated") => updates'[v] = updates[v]
  PROVE  InstalledAsPublished'
  BY DEF InstalledAsPublished, UpdateAt

\* The release changes.
LEMMA ShelfStep ==
  ASSUME UpdateInv, Republish \/ \E f \in {"asset", "sums"} : PutUp(f)
  PROVE  UpdateInv'
  <1>0. UpdateTypes /\ Shelved
    BY DEF UpdateInv
  <1>1. UNCHANGED <<host, bin, updates, missteps, stopsLeft>>
    BY DEF Republish, PutUp
  <1>2. shelf' \in [asset : Contents, sums : Contents, coming : Builds] /\ Shelved'
        /\ released \subseteq released'
    <2>1. CASE Republish
      BY <2>1, <1>0 DEF Republish, UpdateTypes, Shelved, Contents
    <2>2. CASE \E f \in {"asset", "sums"} : PutUp(f)
      <3>0. PICK f \in {"asset", "sums"} : PutUp(f)
        BY <2>2
      <3>1. /\ shelf' = [shelf EXCEPT ![f] = shelf.coming]
            /\ released' = released \cup {b \in {shelf.coming} : f = "sums"}
        BY <3>0 DEF PutUp
      <3>2. shelf' \in [asset : Contents, sums : Contents, coming : Builds]
            /\ shelf'.sums = (IF f = "sums" THEN shelf.coming ELSE shelf.sums)
        BY <3>1, <1>0 DEF UpdateTypes, Contents
      <3>3. Shelved' /\ released \subseteq released'
        BY <3>1, <3>2, <1>0 DEF Shelved
      <3> QED BY <3>2, <3>3
    <2> QED BY <2>1, <2>2
  <1>3. UpdateTypes'
    BY <1>0, <1>1, <1>2 DEF UpdateTypes
  <1>4. \A u \in Updaters : UpdateRun(u)'
    BY <1>1, <1>2 DEF UpdateInv, UpdateRun
  <1>5. BinaryKept' /\ InstalledAsPublished'
    BY <1>1, <1>2, BinaryStays, NamesStay DEF UpdateInv, UpdateAt
  <1> QED BY <1>2, <1>3, <1>4, <1>5 DEF UpdateInv

\* A run gets further without the binary: what is left to show for its step.
LEMMA RunStep ==
  ASSUME UpdateInv, NEW u \in Updaters, StepOf(u), UpdateTypes', UpdateRun(u)',
         bin'.exe = bin.exe, bin'.old = bin.old, UNCHANGED missteps,
         ~UpdateAt(u, "place"), ~UpdateAt(u, "updated")
  PROVE  UpdateInv'
  <1>1. \A v \in Updaters : UpdateRun(v)'
    BY RunsKept
  <1>2. BinaryKept'
    BY BinaryStays DEF UpdateInv, StepOf, UpdateAt
  <1>3. InstalledAsPublished'
    BY NamesStay DEF UpdateInv, StepOf, UpdateAt
  <1>4. Shelved'
    BY DEF UpdateInv, StepOf, Shelved
  <1> QED BY <1>1, <1>2, <1>3, <1>4 DEF UpdateInv

\* A step of u that says where it has got to.
LEMMA GoesStep ==
  ASSUME UpdateInv, NEW u \in Updaters, NEW at \in UpdateStates, UpdateGoes(u, at)
  PROVE  /\ updates' \in Runs /\ updates'[u].at = at /\ updates'[u].want = updates[u].want
         /\ \A v \in Updaters \ {u} : updates'[v] = updates[v]
  <1>1. updates \in [Updaters -> [at : UpdateStates, want : Contents]]
    BY DEF UpdateInv, UpdateTypes, Runs
  <1>2. updates' = [updates EXCEPT ![u] = [updates[u] EXCEPT !.at = at]]
    BY <1>1 DEF UpdateGoes
  <1> QED BY <1>1, <1>2 DEF Runs

\* A step of u that puts something in its download's place.
LEMMA TempStep ==
  ASSUME UpdateInv, NEW u \in Updaters, NEW got \in Contents \cup {Torn},
         bin' = [bin EXCEPT !.temp[u] = got]
  PROVE  /\ bin' \in Binaries /\ bin'.exe = bin.exe /\ bin'.old = bin.old
         /\ bin'.temp[u] = got /\ \A v \in Updaters \ {u} : bin'.temp[v] = bin.temp[v]
  BY DEF UpdateInv, UpdateTypes, Binaries

LEMMA RunTypes ==
  ASSUME UpdateInv, NEW u \in Updaters
  PROVE  /\ updates[u].at \in UpdateStates /\ updates[u].want \in Contents /\ UpdateRun(u)
         /\ bin.temp[u] \in Contents \cup {Torn} /\ bin.exe \in Contents /\ bin.old \in Contents
         /\ shelf.asset \in Contents /\ shelf.sums \in Contents /\ NoFile \in Contents
  BY DEF UpdateInv, UpdateTypes, Runs, Binaries, Contents

LEMMA FetchStep ==
  ASSUME UpdateInv, NEW u \in Updaters, FetchRelease(u) \/ FetchChecksum(u) \/ FileSHA256(u),
         UNCHANGED released
  PROVE  UpdateInv'
  <1>0. UpdateTypes /\ Shelved
    BY DEF UpdateInv
  <1>1. UNCHANGED <<host, shelf, bin, missteps, stopsLeft>>
    BY DEF FetchRelease, FetchChecksum, FileSHA256
  <1>2. /\ updates' \in Runs /\ \A v \in Updaters \ {u} : updates'[v] = updates[v]
        /\ updates'[u].at \in {"failed", "sums", "hash", "up to date", "checked", "download"}
        /\ updates'[u].at \in {"hash", "download"} => updates'[u].want # NoFile
        /\ updates'[u].want # NoFile => updates'[u].want \in released
    <2>1. CASE FetchRelease(u)
      <3> DEFINE at == IF NoFile \in {shelf.asset, shelf.sums} THEN "failed" ELSE "sums"
      <3>1. UpdateGoes(u, at) /\ at \in {"failed", "sums"} /\ at \in UpdateStates
        BY <2>1 DEF FetchRelease, UpdateStates, Ended
      <3> HIDE DEF at
      <3> QED BY <3>1, GoesStep, RunTypes DEF UpdateRun
    <2>2. CASE FetchChecksum(u)
      <3> DEFINE at == IF shelf.sums = NoFile THEN "failed" ELSE "hash"
      <3>1. updates' = [updates EXCEPT ![u].want = shelf.sums, ![u].at = at]
            /\ at \in {"failed", "hash"} /\ at \in UpdateStates
            /\ (at = "hash" => shelf.sums # NoFile)
        BY <2>2 DEF FetchChecksum, UpdateStates, Ended
      <3> HIDE DEF at
      <3>2. updates \in [Updaters -> [at : UpdateStates, want : Contents]]
        BY <1>0 DEF UpdateTypes, Runs
      <3>3. updates' = [updates EXCEPT ![u] = [updates[u] EXCEPT !.want = shelf.sums, !.at = at]]
        BY <3>1, <3>2
      <3>4. /\ updates' \in Runs /\ \A v \in Updaters \ {u} : updates'[v] = updates[v]
            /\ updates'[u].at = at /\ updates'[u].want = shelf.sums
        BY <3>1, <3>2, <3>3, RunTypes DEF Runs
      <3> QED BY <3>1, <3>4, <1>0 DEF Shelved
    <2>3. CASE FileSHA256(u)
      <3> DEFINE at == IF bin.exe = NoFile THEN "failed"
                       ELSE IF bin.exe = updates[u].want THEN "up to date"
                       ELSE IF host.check THEN "checked" ELSE "download"
      <3>1. UpdateGoes(u, at) /\ at \in {"failed", "up to date", "checked", "download"}
            /\ at \in UpdateStates /\ updates[u].at = "hash"
        BY <2>3 DEF FileSHA256, UpdateStates, Ended, UpdateAt
      <3> HIDE DEF at
      <3> QED BY <3>1, GoesStep, RunTypes DEF UpdateRun
    <2> QED BY <2>1, <2>2, <2>3
  <1>3. updates[u].at \in {"start", "sums", "hash"}
    BY DEF FetchRelease, FetchChecksum, FileSHA256, UpdateAt
  <1>5. UpdateTypes' /\ StepOf(u)
    BY <1>0, <1>1, <1>2 DEF UpdateTypes, StepOf
  <1>6. UpdateRun(u)'
    BY <1>1, <1>2, <1>3, RunTypes DEF UpdateRun
  <1> QED BY <1>1, <1>3, <1>5, <1>6, RunStep DEF UpdateAt

LEMMA DownloadStep ==
  ASSUME UpdateInv, NEW u \in Updaters, Download(u), UNCHANGED released
  PROVE  UpdateInv'
  <1>0. UpdateTypes /\ UpdateRun(u) /\ UpdateAt(u, "download") /\ UpdateGoes(u, "verify")
        /\ UNCHANGED <<host, shelf, missteps, stopsLeft>> /\ "verify" \in UpdateStates
    BY DEF UpdateInv, Download, UpdateStates
  <1>1. PICK got \in Contents \cup {Torn} : bin' = [bin EXCEPT !.temp[u] = got]
    BY RunTypes DEF Download
  <1>2. UpdateTypes' /\ StepOf(u)
    BY <1>0, <1>1, GoesStep, TempStep, RunTypes DEF UpdateTypes, StepOf
  <1>3. UpdateRun(u)'
    BY <1>0, <1>1, GoesStep, TempStep, RunTypes DEF UpdateRun, UpdateAt
  <1> QED BY <1>0, <1>1, <1>2, <1>3, TempStep, RunStep DEF UpdateAt

\* A run that gives up before the renames and takes its download with it.
LEMMA GivesUp ==
  ASSUME UpdateInv, NEW u \in Updaters, UpdateGoes(u, "failed"),
         bin' = [bin EXCEPT !.temp[u] = NoFile], stopsLeft' \in Nat,
         UNCHANGED <<host, shelf, missteps, released>>,
         ~UpdateAt(u, "place"), ~UpdateAt(u, "updated")
  PROVE  UpdateInv'
  <1>0. UpdateTypes /\ UpdateRun(u) /\ "failed" \in UpdateStates
    BY DEF UpdateInv, UpdateStates, Ended
  <1>1. UpdateTypes' /\ StepOf(u)
    BY <1>0, GoesStep, TempStep, RunTypes DEF UpdateTypes, StepOf
  <1>2. UpdateRun(u)'
    BY <1>0, GoesStep, TempStep, RunTypes DEF UpdateRun
  <1> QED BY <1>1, <1>2, TempStep, RunTypes, RunStep

LEMMA VerifyStep ==
  ASSUME UpdateInv, NEW u \in Updaters, Verify(u), UNCHANGED released
  PROVE  UpdateInv'
  <1>0. UpdateTypes /\ UpdateRun(u) /\ UpdateAt(u, "verify")
        /\ UNCHANGED <<host, shelf, missteps, stopsLeft>>
    BY DEF UpdateInv, Verify
  <1>1. CASE Verified(u)
    <2> DEFINE at == IF host.windows THEN "clear" ELSE "swap"
    <2>1. UpdateGoes(u, at) /\ at \in UpdateStates /\ UNCHANGED bin
      BY <1>1 DEF Verify, UpdateStates
    <2>2. bin.temp[u] = updates[u].want /\ updates[u].want # NoFile
      BY <1>0, <1>1 DEF Verified, Matches, UpdateRun, UpdateAt
    <2>3. UpdateTypes' /\ StepOf(u)
      BY <1>0, <2>1, GoesStep, RunTypes DEF UpdateTypes, StepOf
    <2>4. UpdateRun(u)'
      BY <1>0, <2>1, <2>2, GoesStep, RunTypes DEF UpdateRun
    <2> QED BY <1>0, <2>1, <2>3, <2>4, RunStep DEF UpdateAt
  <1>2. CASE ~Verified(u)
    <2>1. UpdateGoes(u, "failed") /\ bin' = [bin EXCEPT !.temp[u] = NoFile]
      BY <1>2 DEF Verify
    <2>2. stopsLeft' \in Nat
      BY <1>0 DEF UpdateTypes
    <2> QED BY <1>0, <2>1, <2>2, GivesUp DEF UpdateAt
  <1> QED BY <1>1, <1>2

\* The download takes the binary's name: it is the build its run wanted.
LEMMA PlaceStep ==
  ASSUME UpdateInv, NEW u \in Updaters, Swap(u) \/ PlaceAside(u), UNCHANGED released
  PROVE  UpdateInv'
  <1>0. /\ UpdateTypes /\ UpdateRun(u) /\ Shelved /\ updates[u].at \in {"swap", "place"}
        /\ UNCHANGED <<host, shelf, stopsLeft>> /\ Place(u) /\ UNCHANGED missteps
    BY DEF UpdateInv, Swap, PlaceAside, UpdateAt, Place
  <1>1. /\ bin.temp[u] = updates[u].want /\ updates[u].want \in Builds
        /\ updates[u].want \in released
    BY <1>0, RunTypes, NoBuild DEF UpdateRun, Contents
  <1>2. bin' = [bin EXCEPT !.exe = bin.temp[u], !.temp[u] = NoFile]
        /\ UpdateGoes(u, "updated") /\ "updated" \in UpdateStates
    BY <1>0 DEF Place, UpdateStates, Ended
  <1>3. /\ bin' \in Binaries /\ bin'.exe = updates[u].want /\ bin'.old = bin.old
        /\ bin'.temp[u] = NoFile /\ \A v \in Updaters \ {u} : bin'.temp[v] = bin.temp[v]
    BY <1>0, <1>1, <1>2 DEF UpdateTypes, Binaries, Contents
  <1>4. /\ updates' \in Runs /\ updates'[u].at = "updated"
        /\ updates'[u].want = updates[u].want
        /\ \A v \in Updaters \ {u} : updates'[v] = updates[v]
    BY <1>2, GoesStep, RunTypes
  <1>5. UpdateTypes' /\ StepOf(u) /\ Shelved'
    BY <1>0, <1>3, <1>4 DEF UpdateTypes, StepOf, Shelved
  <1>6. UpdateRun(u)'
    BY <1>1, <1>3, <1>4 DEF UpdateRun
  <1>7. \A v \in Updaters : UpdateRun(v)'
    BY <1>5, <1>6, RunsKept
  <1>8. BinaryKept'
    BY <1>1, <1>3, NoBuild DEF BinaryKept
  <1>9. InstalledAsPublished'
    <2> SUFFICES ASSUME NEW b \in {bin'.exe, bin'.old} \ {NoFile}
                 PROVE  \/ b = host'.installed
                        \/ b \in released' /\ \E v \in Updaters :
                              updates'[v].at = "updated" /\ updates'[v].want = b
      BY DEF InstalledAsPublished, UpdateAt
    <2>1. CASE b = bin'.exe
      BY <2>1, <1>1, <1>3, <1>4
    <2>2. CASE b = bin'.old
      <3>1. \/ b = host.installed
            \/ b \in released /\ \E v \in Updaters :
                  updates[v].at = "updated" /\ updates[v].want = b
        BY <2>2, <1>3 DEF UpdateInv, InstalledAsPublished, UpdateAt
      <3>2. \A v \in Updaters : updates[v].at = "updated" => updates'[v] = updates[v]
        BY <1>0, <1>4
      <3> QED BY <3>1, <3>2, <1>0
    <2> QED BY <2>1, <2>2
  <1> QED BY <1>5, <1>7, <1>8, <1>9 DEF UpdateInv

\* The binary and the one moved aside change places, under the run u.
LEMMA MovesStep ==
  ASSUME UpdateInv, NEW u \in Updaters, StepOf(u), UpdateTypes', UpdateRun(u)', BinaryKept',
         bin'.exe \in {bin.exe, bin.old, NoFile}, bin'.old \in {bin.exe, bin.old, NoFile},
         ~UpdateAt(u, "updated")
  PROVE  UpdateInv'
  <1>1. \A v \in Updaters : UpdateRun(v)'
    BY RunsKept
  <1>2. InstalledAsPublished' /\ Shelved'
    BY NamesStay DEF UpdateInv, StepOf, UpdateAt, Shelved
  <1> QED BY <1>1, <1>2 DEF UpdateInv

\* The old binary is cleared away: if it was the only one, that is noted.
LEMMA RemoveOldStep ==
  ASSUME UpdateInv, NEW u \in Updaters, RemoveOld(u), UNCHANGED released
  PROVE  UpdateInv'
  <1>0. UpdateTypes /\ UpdateRun(u) /\ UpdateAt(u, "clear") /\ UpdateGoes(u, "aside")
        /\ UNCHANGED <<host, shelf, stopsLeft>> /\ "aside" \in UpdateStates
    BY DEF UpdateInv, RemoveOld, UpdateStates
  <1>1. bin' = [bin EXCEPT !.old = NoFile]
    BY DEF RemoveOld
  <1>2. /\ bin' \in Binaries /\ bin'.exe = bin.exe /\ bin'.old = NoFile
        /\ bin'.temp = bin.temp
    BY <1>0, <1>1 DEF UpdateTypes, Binaries, Contents
  <1>3. UpdateTypes' /\ StepOf(u)
    BY <1>0, <1>2, GoesStep, RunTypes DEF UpdateTypes, StepOf
  <1>4. UpdateRun(u)'
    BY <1>0, <1>2, GoesStep, RunTypes DEF UpdateRun, UpdateAt
  <1>5. missteps \subseteq missteps' /\ (bin.exe = NoFile => "overlap" \in missteps')
    BY DEF RemoveOld, Misstep
  <1>6. BinaryKept'
    BY <1>0, <1>2, <1>5 DEF UpdateInv, BinaryKept
  <1> QED BY <1>0, <1>2, <1>3, <1>4, <1>6, MovesStep DEF UpdateAt

LEMMA MoveAsideStep ==
  ASSUME UpdateInv, NEW u \in Updaters, MoveAside(u), UNCHANGED released
  PROVE  UpdateInv'
  <1>0. UpdateTypes /\ UpdateRun(u) /\ UpdateAt(u, "aside")
        /\ UNCHANGED <<host, shelf, missteps, stopsLeft>>
    BY DEF UpdateInv, MoveAside
  <1>1. CASE bin.exe = NoFile
    <2>1. UpdateGoes(u, "failed") /\ bin' = [bin EXCEPT !.temp[u] = NoFile]
      BY <1>1 DEF MoveAside
    <2>2. stopsLeft' \in Nat
      BY <1>0 DEF UpdateTypes
    <2> QED BY <1>0, <2>1, <2>2, GivesUp DEF UpdateAt
  <1>2. CASE bin.exe # NoFile
    <2>1. UpdateGoes(u, "place") /\ "place" \in UpdateStates
          /\ bin' = [bin EXCEPT !.old = bin.exe, !.exe = NoFile]
      BY <1>2 DEF MoveAside, UpdateStates
    <2>2. /\ bin' \in Binaries /\ bin'.exe = NoFile /\ bin'.old = bin.exe
          /\ bin'.temp = bin.temp
      BY <1>0, <2>1 DEF UpdateTypes, Binaries, Contents
    <2>3. UpdateTypes' /\ StepOf(u)
      BY <1>0, <2>1, <2>2, GoesStep, RunTypes DEF UpdateTypes, StepOf
    <2>4. UpdateRun(u)'
      BY <1>0, <2>1, <2>2, GoesStep, RunTypes DEF UpdateRun, UpdateAt
    <2>5. BinaryKept'
      <3>1. host'.windows
        BY <1>0 DEF UpdateRun, UpdateAt
      <3>2. bin.exe \notin {NoFile, Torn}
        BY <1>2, RunTypes, NoBuild DEF Contents
      <3>3. UpdateAt(u, "place")'
        BY <2>1, GoesStep, RunTypes DEF UpdateAt
      <3> QED BY <2>2, <3>1, <3>2, <3>3, NoBuild DEF BinaryKept
    <2> QED BY <1>0, <2>2, <2>3, <2>4, <2>5, MovesStep DEF UpdateAt
  <1> QED BY <1>1, <1>2

LEMMA StopsLess ==
  ASSUME UpdateInv, stopsLeft > 0, stopsLeft' = stopsLeft - 1
  PROVE  stopsLeft' \in Nat
  <1>1. stopsLeft \in Nat
    BY DEF UpdateInv, UpdateTypes
  <1> QED BY <1>1

\* A rename fails: the old binary is put back, if there is one.
LEMMA RenameFailsStep ==
  ASSUME UpdateInv, NEW u \in Updaters, RenameFails(u), UNCHANGED released
  PROVE  UpdateInv'
  <1>0. /\ UpdateTypes /\ UpdateRun(u) /\ "failed" \in UpdateStates
        /\ UNCHANGED <<host, shelf, missteps>> /\ UpdateGoes(u, "failed")
        /\ ~UpdateAt(u, "updated")
    BY DEF UpdateInv, RenameFails, UpdateStates, Ended, UpdateAt
  <1>a. stopsLeft' \in Nat
    BY StopsLess DEF RenameFails
  <1>1. CASE bin' = [bin EXCEPT !.temp[u] = NoFile] /\ ~UpdateAt(u, "place")
    BY <1>0, <1>a, <1>1, GivesUp
  <1>2. CASE UpdateAt(u, "place") /\ bin.old = NoFile
    <2>1. bin' = [bin EXCEPT !.temp[u] = NoFile]
      BY <1>2 DEF RenameFails, Restored, PutBack
    <2>2. UpdateTypes' /\ StepOf(u)
      BY <1>0, <1>a, <2>1, GoesStep, TempStep, RunTypes DEF UpdateTypes, StepOf
    <2>3. UpdateRun(u)'
      BY <1>0, <2>1, GoesStep, TempStep, RunTypes DEF UpdateRun
    <2>4. bin'.exe = bin.exe /\ bin'.old = bin.old
      BY <2>1, TempStep, RunTypes
    <2>5. BinaryKept'
      BY <1>0, <1>2, <2>4 DEF UpdateInv, BinaryKept
    <2> QED BY <1>0, <2>2, <2>3, <2>4, <2>5, MovesStep
  <1>3. CASE UpdateAt(u, "place") /\ bin.old # NoFile
    <2>1. bin' = [bin EXCEPT !.exe = bin.old, !.old = NoFile, !.temp[u] = NoFile]
      BY <1>3 DEF RenameFails, Restored, PutBack
    <2>2. /\ bin' \in Binaries /\ bin'.exe = bin.old /\ bin'.old = NoFile
          /\ bin'.temp[u] = NoFile /\ \A v \in Updaters \ {u} : bin'.temp[v] = bin.temp[v]
      BY <1>0, <2>1 DEF UpdateTypes, Binaries, Contents
    <2>3. UpdateTypes' /\ StepOf(u)
      BY <1>0, <1>a, <2>2, GoesStep, RunTypes DEF UpdateTypes, StepOf
    <2>4. UpdateRun(u)'
      BY <1>0, <2>2, GoesStep, RunTypes DEF UpdateRun
    <2>5. BinaryKept'
      BY <1>3, <2>2, RunTypes, NoBuild DEF BinaryKept, Contents
    <2> QED BY <1>0, <2>2, <2>3, <2>4, <2>5, MovesStep
  <1> QED BY <1>1, <1>2, <1>3 DEF RenameFails

LEMMA StopStep ==
  ASSUME UpdateInv, NEW u \in Updaters, Stop(u), UNCHANGED released
  PROVE  UpdateInv'
  <1>0. /\ UpdateTypes /\ UpdateRun(u) /\ "stopped" \in UpdateStates
        /\ UNCHANGED <<host, shelf, bin>> /\ UpdateGoes(u, "stopped")
        /\ ~UpdateAt(u, "updated")
    BY DEF UpdateInv, Stop, UpdateStates, Ended, UpdateAt
  <1>a. stopsLeft' \in Nat
    BY StopsLess DEF Stop
  <1>1. UpdateTypes' /\ StepOf(u)
    BY <1>0, <1>a, GoesStep, RunTypes DEF UpdateTypes, StepOf
  <1>2. UpdateRun(u)'
    BY <1>0, GoesStep, RunTypes DEF UpdateRun
  <1>3. /\ missteps \subseteq missteps'
        /\ UpdateAt(u, "place") => "stopped between renames" \in missteps'
    BY DEF Stop, Misstep
  <1>4. \A v \in Updaters : UpdateAt(v, "place") =>
            UpdateAt(v, "place")' \/ "stopped between renames" \in missteps'
    BY <1>1, <1>3 DEF UpdateAt, StepOf
  <1>5. BinaryKept'
    BY <1>0, <1>3, <1>4, BinaryStays DEF UpdateInv
  <1> QED BY <1>0, <1>1, <1>2, <1>5, MovesStep

(* The installed command is whole, as published, and alone: whenever its    *)
(* name is empty an update is between two renames or was stopped there, or  *)
(* two updates overlapped; what has the name is what the machine began with *)
(* or a build whose checksums were published as a run wanted them, however  *)
(* the release goes on or back (update.go, SelfUpdate).                     *)
THEOREM UpdatesAreSound == UpdateSpec => []UpdatesSound
  <1>1. UpdateInv /\ [UpdateNext]_updateVars => UpdateInv'
    <2> SUFFICES ASSUME UpdateInv, [UpdateNext]_updateVars PROVE UpdateInv'
      OBVIOUS
    <2>1. CASE UNCHANGED updateVars
      <3>1. UNCHANGED <<host, shelf, bin, updates, released, missteps, stopsLeft>>
        BY <2>1 DEF updateVars
      <3>2. UpdateTypes' /\ Shelved' /\ \A u \in Updaters : UpdateRun(u)'
        BY <3>1 DEF UpdateInv, UpdateTypes, Shelved, UpdateRun
      <3>3. BinaryKept' /\ InstalledAsPublished'
        BY <3>1, BinaryStays, NamesStay DEF UpdateInv, UpdateAt
      <3> QED BY <3>2, <3>3 DEF UpdateInv
    <2>2. CASE Republish \/ \E f \in {"asset", "sums"} : PutUp(f)
      BY <2>2, ShelfStep
    <2>3. CASE \E u \in Updaters : UpdateStep(u) /\ UNCHANGED released
      BY <2>3, FetchStep, DownloadStep, VerifyStep, PlaceStep, RemoveOldStep,
         MoveAsideStep, RenameFailsStep, StopStep DEF UpdateStep
    <2> QED BY <2>1, <2>2, <2>3 DEF UpdateNext
  <1>2. UpdateInv => UpdatesSound
    BY DEF UpdateInv, UpdateRun, UpdatesSound, NoDownloadLeft, Ended, UpdateAt
  <1> QED BY <1>1, <1>2, UpdateInvInit, PTL DEF UpdateSpec

-----------------------------------------------------------------------------
(* AgentFiles: what runko writes into a checkout.                           *)

InstallerStates == {"start", "refused", "exclude", "write", "written", "done", "skill",
                    "skill written", "stopped"}
SettingsFiles == [is : {"none", "broken", "valid"}, keys : SUBSET UserKeys,
                  wired : {"no", "by hand", "installed"}]
Installer == [at : InstallerStates, n : Nat \ {0}, read : SettingsFiles]

FileTypes ==
    /\ ground \in Grounds /\ settings \in SettingsFiles
    /\ skills \in [Skills -> {"none", "user's", "tree's", "runko's"}]
    /\ exclude \in [LocalFiles -> {"none", "mention", "pattern"}]
    /\ installers \in [DOMAIN ground.verbs -> Installer]
    /\ given \subseteq UserKeys

\* Whose a run is, and how many of the skills it has been through.
Teaching(i) ==
    LET at == installers[i].at
        n == installers[i].n
    IN  /\ at = "start" => n = 1
        /\ at \in {"write", "written", "exclude"} => ground.verbs[i] = "hooks"
        /\ at \in {"skill", "skill written"} => ground.verbs[i] = "attach"
        /\ at = "skill written" => n \in DOMAIN SkillOrder /\ skills[SkillOrder[n]] # "none"
        /\ ground.verbs[i] = "attach" /\ at \in {"skill", "skill written", "done"} =>
              /\ \A s \in Skills : InTree(s) => skills[s] = "tree's"
              /\ \A m \in DOMAIN SkillOrder : m < n => skills[SkillOrder[m]] # "none"
        /\ ground.verbs[i] = "attach" /\ at = "done" => n > Len(SkillOrder)

\* A file of runko's that a snapshot would take: its run is still there, or was stopped
\* there, or said that the exclusion does not hold.
FileExcused(f) ==
    \/ \E i \in DOMAIN installers : f \in HalfDone(i)
    \/ Blundered("stopped", f) \/ Blundered("warned", f)
Local(f) == Runkos(f) /\ ~CheckIgnore(f) => FileExcused(f)

\* The settings, while nobody wrote between the read and the write of a run or stopped
\* in its write: one run at most is in its write, and it has read every key.
Undisturbed == ~Blundered("written between", Settings) /\ ~Blundered("stopped", Settings)
Writing(i) == InstallerAt(i, "written")
KeysRead ==
    /\ \A i \in DOMAIN installers : InstallerAt(i, "write") => installers[i].read.is # "broken"
    /\ Undisturbed =>
        /\ \A i, j \in DOMAIN installers : Writing(i) /\ Writing(j) => i = j
        /\ \A i \in DOMAIN installers : Writing(i) =>
              settings = Broken /\ given \subseteq installers[i].read.keys
        /\ (\A i \in DOMAIN installers : ~Writing(i)) => given \subseteq settings.keys

FileInv == /\ FileTypes /\ KeysRead /\ LocalStaysLocal
           /\ \A i \in DOMAIN installers : Teaching(i)
           /\ \A f \in LocalFiles : Local(f)

LEMMA SkillFacts ==
    /\ Settings \notin Skills /\ Settings \in LocalFiles /\ Skills \subseteq LocalFiles
    /\ LocalFiles = Skills \cup {Settings}
    /\ Len(SkillOrder) \in Nat /\ DOMAIN SkillOrder = 1..Len(SkillOrder)
    /\ DOMAIN SkillOrder \subseteq Nat \ {0}
    /\ \A n \in DOMAIN SkillOrder : SkillOrder[n] \in Skills
    /\ \A s \in Skills : \E n \in DOMAIN SkillOrder : s = SkillOrder[n]
    /\ \A n \in Nat \ {0} : n > Len(SkillOrder) \/ n \in DOMAIN SkillOrder
  <1>1. SkillOrder \in Seq(Skills) /\ Settings \notin Skills
    BY FilesAssumption
  <1>2. \A s \in Skills : \E n \in DOMAIN SkillOrder : s = SkillOrder[n]
    BY DEF Skills, ToSet
  <1> QED BY <1>1, <1>2 DEF LocalFiles

LEMMA HalfDoneIs ==
  ASSUME NEW i, NEW f
  PROVE  f \in HalfDone(i) <=>
            \/ installers[i].at = "skill written" /\ f = SkillOrder[installers[i].n]
            \/ installers[i].at \in {"written", "exclude"} /\ f = Settings
  BY DEF HalfDone

LEMMA FileInvInit == FileInit => FileInv
  <1> SUFFICES ASSUME FileInit PROVE FileInv
    OBVIOUS
  <1>1. /\ ground \in Grounds /\ settings = ground.settings /\ given = settings.keys
        /\ settings \in [is : {"none", "broken", "valid"}, keys : SUBSET UserKeys,
                         wired : {"no", "by hand"}]
        /\ exclude \in [LocalFiles -> {"none", "mention", "pattern"}]
    BY FilesAssumption DEF FileInit
  <1>2. skills \in [Skills -> {"none", "user's"}]
    BY DEF FileInit
  <1>3. NoSettings \in SettingsFiles
    BY DEF NoSettings, SettingsFiles
  <1>4. /\ installers \in [DOMAIN ground.verbs -> Installer]
        /\ \A i \in DOMAIN installers : installers[i].at = "start" /\ installers[i].n = 1
    BY <1>3 DEF FileInit, Installer, InstallerStates
  <1>5. FileTypes
    <2>1. settings \in SettingsFiles /\ given \subseteq UserKeys
      BY <1>1 DEF SettingsFiles
    <2>2. skills \in [Skills -> {"none", "user's", "tree's", "runko's"}]
      BY <1>2
    <2> QED BY <1>1, <1>4, <2>1, <2>2 DEF FileTypes
  <1>6. KeysRead
    BY <1>1, <1>4 DEF KeysRead, Writing, InstallerAt
  <1>7. \A i \in DOMAIN installers : Teaching(i)
    BY <1>4 DEF Teaching
  <1>8. \A f \in LocalFiles : Local(f)
    BY <1>1, <1>2, SkillFacts DEF Local, Runkos
  <1>9. LocalStaysLocal
    BY DEF FileInit, LocalStaysLocal
  <1> QED BY <1>5, <1>6, <1>7, <1>8, <1>9 DEF FileInv

-----------------------------------------------------------------------------
OthersStay(i) ==
    /\ DOMAIN installers' = DOMAIN installers
    /\ \A j \in DOMAIN installers \ {i} : installers'[j] = installers[j]

LEMMA InstallerMoves ==
  ASSUME FileTypes, NEW i \in DOMAIN installers, NEW run \in Installer,
         installers' = [installers EXCEPT ![i] = run]
  PROVE  /\ installers' \in [DOMAIN ground.verbs -> Installer]
         /\ installers'[i] = run /\ OthersStay(i)
  BY DEF FileTypes, OthersStay

LEMMA InstallerOnlyGoes ==
  ASSUME FileTypes, NEW i \in DOMAIN installers, NEW at \in InstallerStates, InstallerGoes(i, at)
  PROVE  /\ installers' \in [DOMAIN ground.verbs -> Installer]
         /\ installers'[i].at = at /\ installers'[i].n = installers[i].n
         /\ installers'[i].read = installers[i].read /\ OthersStay(i)
  <1>1. installers[i] \in Installer
    BY DEF FileTypes
  <1>2. [installers[i] EXCEPT !.at = at] \in Installer
    BY <1>1 DEF Installer
  <1>3. installers' = [installers EXCEPT ![i] = [installers[i] EXCEPT !.at = at]]
    BY DEF InstallerGoes
  <1> QED BY <1>1, <1>2, <1>3, InstallerMoves DEF Installer

\* What an exclusion does: it takes nothing back, and where it does not hold it warns.
LEMMA Excludes ==
  ASSUME FileTypes, NEW f \in LocalFiles, ExcludeFromSnapshots(f), ground' = ground
  PROVE  /\ exclude' \in [LocalFiles -> {"none", "mention", "pattern"}]
         /\ \A g \in LocalFiles : CheckIgnore(g) => CheckIgnore(g)'
         /\ CheckIgnore(f)' \/ <<"warned", f>> \in blunders'
         /\ blunders \subseteq blunders' /\ blunders' \subseteq blunders \cup {<<"warned", f>>}
  <1> DEFINE entry == IF ~CheckIgnore(f) /\ exclude[f] = "none" THEN "pattern" ELSE exclude[f]
  <1>1. /\ exclude' = [exclude EXCEPT ![f] = entry]
        /\ IgnoredWith(f, entry) \/ <<"warned", f>> \in blunders'
        /\ blunders \subseteq blunders' /\ blunders' \subseteq blunders \cup {<<"warned", f>>}
    BY DEF ExcludeFromSnapshots, Blunder
  <1>2. entry \in {exclude[f], "pattern"} /\ entry \in {"none", "mention", "pattern"}
    BY DEF FileTypes
  <1>3. /\ exclude' \in [LocalFiles -> {"none", "mention", "pattern"}]
        /\ \A g \in LocalFiles : exclude'[g] \in {exclude[g], "pattern"}
        /\ exclude'[f] = entry
    BY <1>1, <1>2 DEF FileTypes
  <1>4. \A g \in LocalFiles : CheckIgnore(g) => CheckIgnore(g)'
    BY <1>3 DEF CheckIgnore, IgnoredWith, InTree
  <1>5. IgnoredWith(f, entry) => CheckIgnore(f)'
    BY <1>3 DEF CheckIgnore, IgnoredWith, InTree
  <1> QED BY <1>1, <1>3, <1>4, <1>5

\* A file stays excused or excluded while the step of i takes nothing back and i, if it
\* was half done with the file, still is or gives an excuse.
LEMMA LocalKept ==
  ASSUME NEW i, NEW f \in LocalFiles, Local(f), Runkos(f)' => Runkos(f),
         CheckIgnore(f) => CheckIgnore(f)', blunders \subseteq blunders', OthersStay(i),
         f \in HalfDone(i) =>
             \/ f \in HalfDone(i)' \/ CheckIgnore(f)'
             \/ Blundered("stopped", f)' \/ Blundered("warned", f)'
  PROVE  Local(f)'
  <1>1. \A j \in DOMAIN installers : j # i => HalfDone(j)' = HalfDone(j)
    BY DEF HalfDone, OthersStay
  <1> QED BY <1>1 DEF Local, FileExcused, Blundered, OthersStay

LEMMA TeachingKept ==
  ASSUME NEW j, Teaching(j), ground' = ground, installers'[j] = installers[j],
         \A s \in Skills : /\ skills[s] # "none" => skills'[s] # "none"
                           /\ InTree(s) /\ skills[s] = "tree's" => skills'[s] = "tree's"
  PROVE  Teaching(j)'
  BY SkillFacts DEF Teaching, InTree

\* The settings are left alone, and i neither was in its write nor is.
LEMMA KeysQuiet ==
  ASSUME FileInv, NEW i \in DOMAIN installers, OthersStay(i), UNCHANGED <<settings, given>>,
         ~Writing(i), ~Writing(i)', blunders \subseteq blunders',
         InstallerAt(i, "write")' => installers'[i].read.is # "broken"
  PROVE  KeysRead'
  <1>1. \A j \in DOMAIN installers : /\ Writing(j)' <=> Writing(j)
                                     /\ Writing(j) => installers'[j].read = installers[j].read
    BY DEF OthersStay, Writing, InstallerAt
  <1>2. Undisturbed' => Undisturbed
    BY DEF Undisturbed, Blundered
  <1>3. \A j \in DOMAIN installers' :
            InstallerAt(j, "write")' => installers'[j].read.is # "broken"
    BY DEF FileInv, KeysRead, OthersStay, InstallerAt
  <1> QED BY <1>1, <1>2, <1>3 DEF FileInv, KeysRead, OthersStay, Broken, NoSettings

-----------------------------------------------------------------------------
(* The settings.                                                            *)

LEMMA ReadSettingsStep ==
  ASSUME FileInv, NEW i \in DOMAIN installers, ReadSettings(i)
  PROVE  FileInv'
  <1>1. FileTypes /\ installers[i].at = "start" /\ ground.verbs[i] = "hooks"
        /\ UNCHANGED <<ground, settings, skills, exclude, carried, given, blunders, stumbles>>
    BY DEF FileInv, ReadSettings, InstallerAt
  <1> DEFINE at == IF ~ground.bound \/ settings.is = "broken" THEN "refused"
                   ELSE IF settings.wired # "no" THEN "exclude" ELSE "write"
             run == [installers[i] EXCEPT !.read = settings, !.at = at]
  <1>2. installers' = [installers EXCEPT ![i] = run]
    BY DEF ReadSettings
  <1>3. run \in Installer /\ run.at = at /\ run.read = settings /\ run.n = installers[i].n
    BY <1>1 DEF FileTypes, Installer, InstallerStates
  <1>4. at \in {"refused", "exclude", "write"} /\ (at = "write" => settings.is # "broken")
    OBVIOUS
  <1> HIDE DEF run, at
  <1>5. /\ installers' \in [DOMAIN ground.verbs -> Installer]
        /\ installers'[i] = run /\ OthersStay(i)
    BY <1>1, <1>2, <1>3, InstallerMoves
  <1>6. FileTypes'
    BY <1>1, <1>5 DEF FileTypes
  <1>7. KeysRead'
    BY <1>1, <1>3, <1>4, <1>5, KeysQuiet DEF Writing, InstallerAt
  <1>8. \A j \in DOMAIN installers' : Teaching(j)'
    <2>1. Teaching(i)'
      BY <1>1, <1>3, <1>4, <1>5 DEF Teaching
    <2> QED BY <1>1, <1>5, <2>1, TeachingKept DEF FileInv, OthersStay
  <1>9. \A f \in LocalFiles : Local(f)'
    <2> TAKE f \in LocalFiles
    <2>1. f \notin HalfDone(i)
      BY <1>1, HalfDoneIs
    <2> QED BY <1>1, <1>5, <2>1, LocalKept DEF FileInv, Runkos, CheckIgnore, IgnoredWith, InTree
  <1>10. LocalStaysLocal'
    BY <1>1 DEF FileInv, LocalStaysLocal, Blundered
  <1> QED BY <1>6, <1>7, <1>8, <1>9, <1>10 DEF FileInv

\* The settings are emptied: while nobody else was there the run has read every key.
LEMMA TruncateStep ==
  ASSUME FileInv, NEW i \in DOMAIN installers, TruncateSettings(i)
  PROVE  FileInv'
  <1>1. FileTypes /\ installers[i].at = "write" /\ InstallerGoes(i, "written")
        /\ "written" \in InstallerStates /\ settings' = Broken
        /\ UNCHANGED <<ground, skills, exclude, carried, given, stumbles>>
    BY DEF FileInv, TruncateSettings, InstallerAt, InstallerStates
  <1>2. /\ installers' \in [DOMAIN ground.verbs -> Installer]
        /\ installers'[i].at = "written" /\ installers'[i].n = installers[i].n
        /\ installers'[i].read = installers[i].read /\ OthersStay(i)
    BY <1>1, InstallerOnlyGoes
  <1>3. /\ blunders \subseteq blunders'
        /\ settings # installers[i].read => <<"written between", Settings>> \in blunders'
    BY DEF TruncateSettings, Blunder
  <1>4. FileTypes'
    <2>1. Broken \in SettingsFiles
      BY DEF Broken, NoSettings, SettingsFiles
    <2> QED BY <1>1, <1>2, <2>1 DEF FileTypes
  <1>5. KeysRead'
    <2>1. \A j \in DOMAIN installers' :
              InstallerAt(j, "write")' => installers'[j].read.is # "broken"
      BY <1>2 DEF FileInv, KeysRead, OthersStay, InstallerAt
    <2>2. ASSUME Undisturbed'
          PROVE  /\ \A j \in DOMAIN installers : ~Writing(j)
                 /\ given \subseteq installers[i].read.keys
      <3>1. Undisturbed /\ settings = installers[i].read
        BY <1>3, <2>2 DEF Undisturbed, Blundered
      <3>2. settings.is # "broken"
        BY <1>1, <3>1 DEF FileInv, KeysRead, InstallerAt
      <3>3. settings # Broken
        BY <3>2 DEF Broken, NoSettings
      <3> QED BY <3>1, <3>3 DEF FileInv, KeysRead
    <2>3. \A j \in DOMAIN installers : j # i => (Writing(j)' <=> Writing(j))
      BY <1>2 DEF OthersStay, Writing, InstallerAt
    <2>4. Writing(i)' /\ DOMAIN installers' = DOMAIN installers
      BY <1>2 DEF OthersStay, Writing, InstallerAt
    <2> QED BY <1>1, <1>2, <2>1, <2>2, <2>3, <2>4 DEF KeysRead, Broken, NoSettings
  <1>6. \A j \in DOMAIN installers' : Teaching(j)'
    <2>1. Teaching(i)'
      BY <1>1, <1>2 DEF FileInv, Teaching
    <2> QED BY <1>1, <1>2, <2>1, TeachingKept DEF FileInv, OthersStay
  <1>7. \A f \in LocalFiles : Local(f)'
    <2> TAKE f \in LocalFiles
    <2>1. f \notin HalfDone(i)
      BY <1>1, HalfDoneIs
    <2>2. Runkos(f)' => Runkos(f)
      BY <1>1 DEF Runkos, Broken, NoSettings
    <2> QED BY <1>1, <1>2, <1>3, <2>1, <2>2, LocalKept
            DEF FileInv, CheckIgnore, IgnoredWith, InTree
  <1>8. LocalStaysLocal'
    BY <1>1, <1>3 DEF FileInv, LocalStaysLocal, Blundered
  <1> QED BY <1>4, <1>5, <1>6, <1>7, <1>8 DEF FileInv

\* The settings are written: what they held is back, and the file is half done.
LEMMA WriteSettingsStep ==
  ASSUME FileInv, NEW i \in DOMAIN installers, WriteSettings(i)
  PROVE  FileInv'
  <1>1. FileTypes /\ Writing(i) /\ installers[i].at = "written" /\ InstallerGoes(i, "exclude")
        /\ "exclude" \in InstallerStates
        /\ settings' = Valid(installers[i].read.keys, "installed")
        /\ UNCHANGED <<ground, skills, exclude, carried, given, stumbles>>
    BY DEF FileInv, WriteSettings, InstallerAt, InstallerStates, Writing, MergedSettings, Kept
  <1>2. /\ installers' \in [DOMAIN ground.verbs -> Installer]
        /\ installers'[i].at = "exclude" /\ installers'[i].n = installers[i].n
        /\ installers'[i].read = installers[i].read /\ OthersStay(i)
    BY <1>1, InstallerOnlyGoes
  <1>3. blunders \subseteq blunders'
    BY DEF WriteSettings, Blunder
  <1>4. FileTypes'
    <2>1. installers[i].read.keys \subseteq UserKeys
      BY <1>1 DEF FileTypes, Installer, SettingsFiles
    <2>2. settings' \in SettingsFiles
      BY <1>1, <2>1 DEF Valid, SettingsFiles
    <2> QED BY <1>1, <1>2, <2>2 DEF FileTypes
  <1>5. KeysRead'
    <2>1. \A j \in DOMAIN installers' :
              InstallerAt(j, "write")' => installers'[j].read.is # "broken"
      BY <1>2 DEF FileInv, KeysRead, OthersStay, InstallerAt
    <2>2. Undisturbed' => Undisturbed
      BY <1>3 DEF Undisturbed, Blundered
    <2>3. Undisturbed => /\ given \subseteq installers[i].read.keys
                         /\ \A j \in DOMAIN installers : Writing(j) => j = i
      BY <1>1 DEF FileInv, KeysRead
    <2>4. \A j \in DOMAIN installers : j # i => (Writing(j)' <=> Writing(j))
      BY <1>2 DEF OthersStay, Writing, InstallerAt
    <2>5. ~Writing(i)' /\ DOMAIN installers' = DOMAIN installers
      BY <1>2 DEF OthersStay, Writing, InstallerAt
    <2>6. settings'.keys = installers[i].read.keys
      BY <1>1 DEF Valid
    <2> QED BY <1>1, <2>1, <2>2, <2>3, <2>4, <2>5, <2>6 DEF KeysRead
  <1>6. \A j \in DOMAIN installers' : Teaching(j)'
    <2>1. Teaching(i)'
      BY <1>1, <1>2 DEF FileInv, Teaching
    <2> QED BY <1>1, <1>2, <2>1, TeachingKept DEF FileInv, OthersStay
  <1>7. \A f \in LocalFiles : Local(f)'
    <2> TAKE f \in LocalFiles
    <2>1. CASE f = Settings
      <3>1. Settings \in HalfDone(i)' /\ i \in DOMAIN installers'
        BY <1>2 DEF HalfDone, OthersStay
      <3> QED BY <2>1, <3>1 DEF Local, FileExcused
    <2>2. CASE f # Settings
      <3>0. installers[i].at # "skill written"
        BY <1>1
      <3>1. f \notin HalfDone(i)
        BY <2>2, <3>0 DEF HalfDone
      <3>2. Runkos(f)' => Runkos(f)
        BY <1>1, <2>2 DEF Runkos
      <3> QED BY <1>1, <1>2, <1>3, <3>1, <3>2, LocalKept
              DEF FileInv, CheckIgnore, IgnoredWith, InTree
    <2> QED BY <2>1, <2>2
  <1>8. LocalStaysLocal'
    BY <1>1, <1>3 DEF FileInv, LocalStaysLocal, Blundered
  <1> QED BY <1>4, <1>5, <1>6, <1>7, <1>8 DEF FileInv

LEMMA ExcludeSettingsStep ==
  ASSUME FileInv, NEW i \in DOMAIN installers, ExcludeSettings(i)
  PROVE  FileInv'
  <1>1. FileTypes /\ installers[i].at = "exclude" /\ InstallerGoes(i, "done")
        /\ "done" \in InstallerStates /\ ExcludeFromSnapshots(Settings)
        /\ UNCHANGED <<ground, settings, skills, carried, given, stumbles>>
    BY DEF FileInv, ExcludeSettings, InstallerAt, InstallerStates
  <1>2. /\ installers' \in [DOMAIN ground.verbs -> Installer]
        /\ installers'[i].at = "done" /\ installers'[i].n = installers[i].n
        /\ installers'[i].read = installers[i].read /\ OthersStay(i)
    BY <1>1, InstallerOnlyGoes
  <1>3. /\ exclude' \in [LocalFiles -> {"none", "mention", "pattern"}]
        /\ \A g \in LocalFiles : CheckIgnore(g) => CheckIgnore(g)'
        /\ CheckIgnore(Settings)' \/ <<"warned", Settings>> \in blunders'
        /\ blunders \subseteq blunders'
    BY <1>1, Excludes, SkillFacts
  <1>4. FileTypes'
    BY <1>1, <1>2, <1>3 DEF FileTypes
  <1>5. KeysRead'
    BY <1>1, <1>2, <1>3, KeysQuiet DEF Writing, InstallerAt
  <1>6. \A j \in DOMAIN installers' : Teaching(j)'
    <2>1. Teaching(i)'
      BY <1>1, <1>2 DEF FileInv, Teaching
    <2> QED BY <1>1, <1>2, <2>1, TeachingKept DEF FileInv, OthersStay
  <1>7. \A f \in LocalFiles : Local(f)'
    <2> TAKE f \in LocalFiles
    <2>0. installers[i].at # "skill written"
      BY <1>1
    <2>1. f \in HalfDone(i) => f = Settings
      BY <2>0 DEF HalfDone
    <2>2. f = Settings => CheckIgnore(f)' \/ Blundered("warned", f)'
      BY <1>3 DEF Blundered
    <2> QED BY <1>1, <1>2, <1>3, <2>1, <2>2, LocalKept DEF FileInv, Runkos
  <1>8. LocalStaysLocal'
    BY <1>1, <1>3 DEF FileInv, LocalStaysLocal, Blundered
  <1> QED BY <1>4, <1>5, <1>6, <1>7, <1>8 DEF FileInv

-----------------------------------------------------------------------------
(* The skills.                                                              *)

\* A checkout gets every skill of the tree: it cannot do without one of them.
LEMMA MaterializedStep ==
  ASSUME FileInv, NEW i \in DOMAIN installers, Materialized(i)
  PROVE  FileInv'
  <1>1. FileTypes /\ installers[i].at = "start" /\ InstallerGoes(i, "skill")
        /\ "skill" \in InstallerStates /\ ground.verbs[i] = "attach"
        /\ UNCHANGED <<ground, settings, exclude, carried, given, blunders, stumbles>>
    BY DEF FileInv, Materialized, InstallerAt, InstallerStates
  <1>2. /\ installers' \in [DOMAIN ground.verbs -> Installer]
        /\ installers'[i].at = "skill" /\ installers'[i].n = installers[i].n
        /\ installers'[i].read = installers[i].read /\ OthersStay(i)
    BY <1>1, InstallerOnlyGoes
  <1>3. \A s \in Skills : skills'[s] = IF InTree(s) THEN "tree's" ELSE skills[s]
    BY DEF Materialized, ConeWithAgentSkill, TreeHasAgentSkill, AnySkill
  <1>4. FileTypes'
    <2>1. skills' \in [Skills -> {"none", "user's", "tree's", "runko's"}]
      BY <1>1 DEF Materialized, FileTypes
    <2> QED BY <1>1, <1>2, <2>1 DEF FileTypes
  <1>5. KeysRead'
    BY <1>1, <1>2, KeysQuiet DEF Writing, InstallerAt
  <1>6. \A j \in DOMAIN installers' : Teaching(j)'
    <2>1. Teaching(i)'
      <3>1. installers[i].n = 1
        BY <1>1 DEF FileInv, Teaching
      <3> QED BY <1>1, <1>2, <1>3, <3>1, SkillFacts DEF Teaching, InTree
    <2>2. \A s \in Skills : /\ skills[s] # "none" => skills'[s] # "none"
                            /\ InTree(s) /\ skills[s] = "tree's" => skills'[s] = "tree's"
      BY <1>3
    <2> QED BY <1>1, <1>2, <2>1, <2>2, TeachingKept DEF FileInv, OthersStay
  <1>7. \A f \in LocalFiles : Local(f)'
    <2> TAKE f \in LocalFiles
    <2>1. f \notin HalfDone(i)
      BY <1>1, HalfDoneIs
    <2>2. Runkos(f)' => Runkos(f)
      BY <1>1, <1>3, SkillFacts DEF Runkos
    <2> QED BY <1>1, <1>2, <2>1, <2>2, LocalKept DEF FileInv, CheckIgnore, IgnoredWith, InTree
  <1>8. LocalStaysLocal'
    BY <1>1 DEF FileInv, LocalStaysLocal, Blundered
  <1> QED BY <1>4, <1>5, <1>6, <1>7, <1>8 DEF FileInv

\* One skill: what is there is left alone, what is not is written and half done.
LEMMA EnsureSkillStep ==
  ASSUME FileInv, NEW i \in DOMAIN installers, EnsureAgentSkill(i)
  PROVE  FileInv'
  <1> DEFINE n == installers[i].n
             s == SkillOrder[n]
  <1>1. FileTypes /\ installers[i].at = "skill" /\ ground.verbs[i] = "attach" /\ Teaching(i)
        /\ UNCHANGED <<ground, settings, exclude, carried, given, blunders, stumbles>>
        /\ n \in Nat \ {0} /\ Len(SkillOrder) \in Nat /\ installers[i] \in Installer
    BY SkillFacts DEF FileInv, EnsureAgentSkill, InstallerAt, Teaching, FileTypes, Installer
  <1>2. PICK run \in Installer :
           /\ installers' = [installers EXCEPT ![i] = run]
           /\ \/ run.at = "done" /\ run.n = n /\ n > Len(SkillOrder) /\ skills' = skills
              \/ /\ n \in DOMAIN SkillOrder /\ skills' = skills
                 /\ run.at = "skill" /\ run.n = n + 1 /\ (InTree(s) \/ skills[s] # "none")
              \/ /\ n \in DOMAIN SkillOrder /\ ~InTree(s) /\ skills[s] = "none"
                 /\ skills' = [skills EXCEPT ![s] = "runko's"]
                 /\ run.at = "skill written" /\ run.n = n
    <2>1. CASE n > Len(SkillOrder)
      <3> DEFINE run == [installers[i] EXCEPT !.at = "done"]
      <3>1. installers' = [installers EXCEPT ![i] = run] /\ skills' = skills
        BY <1>1, <2>1 DEF EnsureAgentSkill, InstallerGoes
      <3>2. run \in Installer /\ run.at = "done" /\ run.n = n
        BY <1>1 DEF Installer, InstallerStates
      <3> HIDE DEF run
      <3> QED BY <2>1, <3>1, <3>2
    <2>2. CASE ~(n > Len(SkillOrder)) /\ (InTree(s) \/ skills[s] # "none")
      <3> DEFINE run == [installers[i] EXCEPT !.n = n + 1]
      <3>1. installers' = [installers EXCEPT ![i] = run] /\ skills' = skills
        BY <1>1, <2>2 DEF EnsureAgentSkill
      <3>2. run \in Installer /\ run.at = "skill" /\ run.n = n + 1
        <4>1. n + 1 \in Nat \ {0}
          BY <1>1
        <4> HIDE DEF n
        <4> QED BY <1>1, <4>1 DEF Installer
      <3>3. n \in DOMAIN SkillOrder
        BY <1>1, <2>2, SkillFacts
      <3> HIDE DEF run
      <3> QED BY <2>2, <3>1, <3>2, <3>3
    <2>3. CASE ~(n > Len(SkillOrder)) /\ ~(InTree(s) \/ skills[s] # "none")
      <3> DEFINE run == [installers[i] EXCEPT !.at = "skill written"]
      <3>1. installers' = [installers EXCEPT ![i] = run]
            /\ skills' = [skills EXCEPT ![s] = "runko's"]
        BY <1>1, <2>3 DEF EnsureAgentSkill, InstallerGoes
      <3>2. run \in Installer /\ run.at = "skill written" /\ run.n = n
        BY <1>1 DEF Installer, InstallerStates
      <3>3. n \in DOMAIN SkillOrder
        BY <1>1, <2>3, SkillFacts
      <3> HIDE DEF run
      <3> QED BY <2>3, <3>1, <3>2, <3>3
    <2> QED BY <2>1, <2>2, <2>3
  <1> HIDE DEF n, s
  <1>3. /\ installers' \in [DOMAIN ground.verbs -> Installer]
        /\ installers'[i] = run /\ OthersStay(i)
    BY <1>1, <1>2, InstallerMoves
  <1>4. n \in DOMAIN SkillOrder => s \in Skills
    BY SkillFacts DEF s
  <1>5. skills' \in [Skills -> {"none", "user's", "tree's", "runko's"}]
        /\ \A t \in Skills : \/ skills'[t] = skills[t]
                             \/ /\ t = s /\ run.at = "skill written" /\ run.n = n
                                /\ skills'[t] = "runko's" /\ skills[t] = "none" /\ ~InTree(t)
    BY <1>1, <1>2, <1>4 DEF FileTypes
  <1>6. FileTypes'
    BY <1>1, <1>3, <1>5 DEF FileTypes
  <1>7. KeysRead'
    <2>1. run.at \in {"done", "skill", "skill written"}
      BY <1>2
    <2> QED BY <1>1, <1>3, <2>1, KeysQuiet DEF Writing, InstallerAt
  <1>8. \A t \in Skills : /\ skills[t] # "none" => skills'[t] # "none"
                          /\ InTree(t) /\ skills[t] = "tree's" => skills'[t] = "tree's"
    BY <1>5
  <1>9. Teaching(i)'
    <2>1. /\ \A t \in Skills : InTree(t)' => skills'[t] = "tree's"
          /\ \A m \in DOMAIN SkillOrder : m < n => skills'[SkillOrder[m]] # "none"
      BY <1>1, <1>8, SkillFacts DEF Teaching, InTree, n
    <2>2. run.n = n + 1 => \A m \in DOMAIN SkillOrder : m < run.n => m < n \/ m = n
      BY <1>1, SkillFacts
    <2>3. n \in DOMAIN SkillOrder /\ run.at # "done" => skills'[s] # "none"
      <3>1. ASSUME InTree(s), n \in DOMAIN SkillOrder PROVE skills'[s] # "none"
        BY <1>1, <1>4, <2>1, <3>1 DEF InTree
      <3> QED BY <1>1, <1>2, <1>4, <1>5, <3>1 DEF FileTypes
    <2> QED BY <1>1, <1>2, <1>3, <2>1, <2>2, <2>3 DEF Teaching, s
  <1>10. \A j \in DOMAIN installers' : Teaching(j)'
    BY <1>1, <1>3, <1>8, <1>9, TeachingKept DEF FileInv, OthersStay
  <1>11. \A f \in LocalFiles : Local(f)'
    <2> TAKE f \in LocalFiles
    <2>1. f \notin HalfDone(i)
      BY <1>1, HalfDoneIs
    <2>2. CASE Runkos(f)' => Runkos(f)
      BY <1>1, <1>3, <2>1, <2>2, LocalKept DEF FileInv, CheckIgnore, IgnoredWith, InTree
    <2>3. CASE Runkos(f)' /\ ~Runkos(f)
      <3>1. f = s /\ run.at = "skill written" /\ run.n = n
        BY <1>1, <1>5, <2>3, SkillFacts DEF Runkos
      <3>2. f \in HalfDone(i)'
        BY <1>3, <3>1 DEF HalfDone, s
      <3> QED BY <1>3, <3>2 DEF Local, FileExcused, OthersStay
    <2> QED BY <2>2, <2>3
  <1>12. LocalStaysLocal'
    BY <1>1 DEF FileInv, LocalStaysLocal, Blundered
  <1> QED BY <1>6, <1>7, <1>10, <1>11, <1>12 DEF FileInv

\* The skill that was written is excluded, or the user is warned.
LEMMA SkillWrittenStep ==
  ASSUME FileInv, NEW i \in DOMAIN installers, SkillWritten(i)
  PROVE  FileInv'
  <1> DEFINE n == installers[i].n
             run == [installers[i] EXCEPT !.at = "skill", !.n = n + 1]
  <1>a. n \in DOMAIN SkillOrder /\ skills[SkillOrder[n]] # "none"
    <2>1. installers[i].at = "skill written" /\ Teaching(i)
      BY DEF FileInv, SkillWritten, InstallerAt
    <2> QED BY <2>1 DEF Teaching
  <1>b. n \in Nat \ {0} /\ SkillOrder[n] \in Skills
    <2> HIDE DEF n
    <2> QED BY <1>a, SkillFacts
  <1>0. PICK s \in Skills : s = SkillOrder[n]
    BY <1>b
  <1>1. FileTypes /\ installers[i].at = "skill written" /\ Teaching(i)
        /\ ExcludeFromSnapshots(s) /\ installers[i] \in Installer
        /\ UNCHANGED <<ground, settings, skills, carried, given, stumbles>>
    BY <1>0 DEF FileInv, SkillWritten, InstallerAt, ExcludeSkill, Excluded, FileTypes
  <1>2. installers' = [installers EXCEPT ![i] = run]
    BY DEF SkillWritten
  <1>3. run \in Installer /\ run.at = "skill" /\ run.n = n + 1
    <2>1. n + 1 \in Nat \ {0}
      <3> HIDE DEF n, run
      <3> QED BY <1>b
    <2> HIDE DEF n
    <2> QED BY <1>1, <2>1 DEF Installer, InstallerStates
  <1> HIDE DEF run, n
  <1>4. /\ installers' \in [DOMAIN ground.verbs -> Installer]
        /\ installers'[i] = run /\ OthersStay(i)
    BY <1>1, <1>2, <1>3, InstallerMoves
  <1>5. /\ exclude' \in [LocalFiles -> {"none", "mention", "pattern"}]
        /\ \A g \in LocalFiles : CheckIgnore(g) => CheckIgnore(g)'
        /\ CheckIgnore(s)' \/ <<"warned", s>> \in blunders'
        /\ blunders \subseteq blunders'
    BY <1>1, Excludes, SkillFacts
  <1>6. FileTypes'
    BY <1>1, <1>4, <1>5 DEF FileTypes
  <1>7. KeysRead'
    BY <1>1, <1>3, <1>4, <1>5, KeysQuiet DEF Writing, InstallerAt
  <1>8. Teaching(i)'
    <2>1. \A m \in DOMAIN SkillOrder : m < n + 1 => m < n \/ m = n
      <3>1. n \in Nat /\ DOMAIN SkillOrder \subseteq Nat
        BY <1>b, SkillFacts
      <3> QED BY <3>1
    <2> QED BY <1>a, <1>1, <1>3, <1>4, <2>1 DEF Teaching, InTree, n
  <1>9. \A j \in DOMAIN installers' : Teaching(j)'
    BY <1>1, <1>4, <1>8, TeachingKept DEF FileInv, OthersStay
  <1>10. \A f \in LocalFiles : Local(f)'
    <2> TAKE f \in LocalFiles
    <2>1. f \in HalfDone(i) => f = s
      BY <1>0, <1>1 DEF HalfDone, n
    <2>2. f = s => CheckIgnore(f)' \/ Blundered("warned", f)'
      BY <1>5 DEF Blundered
    <2> QED BY <1>1, <1>4, <1>5, <2>1, <2>2, LocalKept DEF FileInv, Runkos
  <1>11. LocalStaysLocal'
    BY <1>1, <1>5 DEF FileInv, LocalStaysLocal, Blundered
  <1> QED BY <1>6, <1>7, <1>9, <1>10, <1>11 DEF FileInv

-----------------------------------------------------------------------------
(* The others: a run is stopped, the user writes, a snapshot is taken.      *)

LEMMA InstallerStopsStep ==
  ASSUME FileInv, NEW i \in DOMAIN installers, InstallerStops(i)
  PROVE  FileInv'
  <1>1. FileTypes /\ InstallerGoes(i, "stopped") /\ "stopped" \in InstallerStates
        /\ UNCHANGED <<ground, settings, skills, exclude, carried, given>>
        /\ blunders' = blunders \cup {<<"stopped", f>> : f \in HalfDone(i)}
    BY DEF FileInv, InstallerStops, InstallerStates
  <1>2. /\ installers' \in [DOMAIN ground.verbs -> Installer]
        /\ installers'[i].at = "stopped" /\ installers'[i].n = installers[i].n
        /\ installers'[i].read = installers[i].read /\ OthersStay(i)
    BY <1>1, InstallerOnlyGoes
  <1>3. blunders \subseteq blunders' /\ \A f \in HalfDone(i) : Blundered("stopped", f)'
    BY <1>1 DEF Blundered
  <1>4. FileTypes'
    BY <1>1, <1>2 DEF FileTypes
  <1>5. KeysRead'
    <2>1. CASE Writing(i)
      <3>1. Settings \in HalfDone(i)
        BY <2>1 DEF Writing, InstallerAt, HalfDone
      <3>2. ~Undisturbed'
        BY <1>3, <3>1 DEF Undisturbed, Blundered
      <3>3. \A j \in DOMAIN installers' :
                InstallerAt(j, "write")' => installers'[j].read.is # "broken"
        BY <1>2 DEF FileInv, KeysRead, OthersStay, InstallerAt
      <3> QED BY <3>2, <3>3 DEF KeysRead
    <2>2. CASE ~Writing(i)
      BY <1>1, <1>2, <1>3, <2>2, KeysQuiet DEF Writing, InstallerAt
    <2> QED BY <2>1, <2>2
  <1>6. \A j \in DOMAIN installers' : Teaching(j)'
    <2>1. Teaching(i)'
      BY <1>1, <1>2 DEF FileInv, Teaching
    <2> QED BY <1>1, <1>2, <2>1, TeachingKept DEF FileInv, OthersStay
  <1>7. \A f \in LocalFiles : Local(f)'
    BY <1>1, <1>2, <1>3, LocalKept DEF FileInv, Runkos, CheckIgnore, IgnoredWith, InTree
  <1>8. LocalStaysLocal'
    BY <1>1, <1>3 DEF FileInv, LocalStaysLocal, Blundered
  <1> QED BY <1>4, <1>5, <1>6, <1>7, <1>8 DEF FileInv

LEMMA UserWritesStep ==
  ASSUME FileInv, NEW k \in UserKeys, UserWrites(k)
  PROVE  FileInv'
  <1>1. FileTypes /\ settings.is # "broken"
        /\ settings' = Valid(settings.keys \cup {k}, settings.wired) /\ given' = given \cup {k}
        /\ UNCHANGED <<ground, skills, exclude, installers, carried, blunders, stumbles>>
    BY DEF FileInv, UserWrites
  <1>2. FileTypes'
    <2>1. settings' \in SettingsFiles
      BY <1>1 DEF FileTypes, SettingsFiles, Valid
    <2> QED BY <1>1, <2>1 DEF FileTypes
  <1>3. KeysRead'
    <2>1. settings # Broken
      BY <1>1 DEF Broken, NoSettings
    <2>2. settings'.keys = settings.keys \cup {k}
      BY <1>1 DEF Valid
    <2> QED BY <1>1, <2>1, <2>2 DEF FileInv, KeysRead, Undisturbed, Blundered, Writing, InstallerAt
  <1>4. \A j \in DOMAIN installers' : Teaching(j)'
    BY <1>1 DEF FileInv, Teaching, InTree
  <1>5. \A f \in LocalFiles : Local(f)'
    <2> TAKE f \in LocalFiles
    <2>1. Runkos(f)' <=> Runkos(f)
      BY <1>1 DEF Runkos, Valid
    <2> QED BY <1>1, <2>1 DEF FileInv, Local, FileExcused, HalfDone, Blundered, CheckIgnore,
                              IgnoredWith, InTree
  <1>6. LocalStaysLocal'
    BY <1>1 DEF FileInv, LocalStaysLocal, Blundered
  <1> QED BY <1>2, <1>3, <1>4, <1>5, <1>6 DEF FileInv

LEMMA SnapshotStep ==
  ASSUME FileInv, Snapshot
  PROVE  FileInv'
  <1> DEFINE taken == {f \in LocalFiles : Runkos(f) /\ ~CheckIgnore(f)}
             half == {<<"taken between", f>> :
                         f \in taken \cap UNION {HalfDone(i) : i \in DOMAIN installers}}
  <1>1. FileTypes /\ carried' = carried \cup taken /\ blunders' = blunders \cup half
        /\ UNCHANGED <<ground, settings, skills, exclude, installers, given, stumbles>>
    BY DEF FileInv, Snapshot
  <1>2. /\ blunders \subseteq blunders'
        /\ \A why, f : <<why, f>> \in blunders' =>
              <<why, f>> \in blunders \/ why = "taken between"
    BY <1>1
  <1>3. \A f \in taken : \E why \in {"taken between", "stopped", "warned"} : Blundered(why, f)'
    <2> TAKE f \in taken
    <2>1. FileExcused(f)
      BY DEF FileInv, Local
    <2>2. CASE \E i \in DOMAIN installers : f \in HalfDone(i)
      BY <1>1, <2>2 DEF Blundered
    <2>3. CASE Blundered("stopped", f) \/ Blundered("warned", f)
      BY <1>2, <2>3 DEF Blundered
    <2> QED BY <2>1, <2>2, <2>3 DEF FileExcused
  <1> HIDE DEF taken, half
  <1>4. LocalStaysLocal'
    BY <1>1, <1>2, <1>3 DEF FileInv, LocalStaysLocal, Blundered
  <1>5. FileTypes'
    BY <1>1 DEF FileTypes
  <1>6. KeysRead'
    <2>1. Undisturbed' <=> Undisturbed
      BY <1>2 DEF Undisturbed, Blundered
    <2> QED BY <1>1, <2>1 DEF FileInv, KeysRead, Writing, InstallerAt
  <1>7. \A j \in DOMAIN installers' : Teaching(j)'
    BY <1>1 DEF FileInv, Teaching, InTree
  <1>8. \A f \in LocalFiles : Local(f)'
    BY <1>1, <1>2 DEF FileInv, Local, FileExcused, HalfDone, Runkos, Blundered, CheckIgnore,
                      IgnoredWith, InTree
  <1> QED BY <1>4, <1>5, <1>6, <1>7, <1>8 DEF FileInv

(* What runko writes for agents is whole, adds to the user's and is local,  *)
(* for any checkout, skills and installers: it rides into a snapshot only   *)
(* between a write and its exclusion or after a warning, the user's keys    *)
(* survive every run that nobody wrote beside, and a checkout that is       *)
(* attached has every skill (agenthooks.go, agentskill.go).                 *)
THEOREM AgentFilesAreSound == FileSpec => []AgentFilesSound
  <1>1. FileInv /\ [FileNext]_fileVars => FileInv'
    <2> SUFFICES ASSUME FileInv, [FileNext]_fileVars PROVE FileInv'
      OBVIOUS
    <2>1. CASE UNCHANGED fileVars
      <3>1. UNCHANGED <<ground, settings, skills, exclude, installers, carried, given, blunders>>
        BY <2>1 DEF fileVars
      <3>2. FileTypes' /\ KeysRead' /\ LocalStaysLocal'
        BY <3>1 DEF FileInv, FileTypes, KeysRead, Undisturbed, Writing, InstallerAt,
                    LocalStaysLocal, Blundered
      <3>3. \A i \in DOMAIN installers' : Teaching(i)'
        BY <3>1 DEF FileInv, Teaching, InTree
      <3>4. \A f \in LocalFiles : Local(f)'
        BY <3>1 DEF FileInv, Local, FileExcused, HalfDone, Runkos, Blundered, CheckIgnore,
                    IgnoredWith, InTree
      <3> QED BY <3>2, <3>3, <3>4 DEF FileInv
    <2>2. CASE FileNext
      BY <2>2, ReadSettingsStep, TruncateStep, WriteSettingsStep, ExcludeSettingsStep,
         MaterializedStep, EnsureSkillStep, SkillWrittenStep, InstallerStopsStep,
         UserWritesStep, SnapshotStep DEF FileNext
    <2> QED BY <2>1, <2>2
  <1>2. FileInv => AgentFilesSound
    <2> SUFFICES ASSUME FileInv PROVE AgentFilesSound
      OBVIOUS
    <2>1. ForeignKeysSurvive
      <3>1. CASE Undisturbed
        BY <3>1 DEF FileInv, KeysRead, Writing, ForeignKeysSurvive
      <3>2. CASE ~Undisturbed
        <4>1. \E why \in {"written between", "stopped"} : Blundered(why, Settings)
          BY <3>2 DEF Undisturbed
        <4> QED BY <4>1 DEF ForeignKeysSurvive
      <3> QED BY <3>1, <3>2
    <2>2. WholeTeaching
      <3> SUFFICES ASSUME NEW i \in DOMAIN installers, InstallerAt(i, "done"),
                          ground.verbs[i] = "attach", NEW s \in Skills
                   PROVE  skills[s] # "none" /\ (InTree(s) => skills[s] = "tree's")
        BY DEF WholeTeaching
      <3>1. /\ Teaching(i) /\ installers[i].at = "done" /\ installers[i].n \in Nat
            /\ installers[i].n > Len(SkillOrder)
        BY DEF FileInv, FileTypes, Installer, InstallerAt, Teaching
      <3>2. PICK m \in DOMAIN SkillOrder : s = SkillOrder[m]
        BY SkillFacts
      <3>3. m < installers[i].n
        BY <3>1, <3>2, SkillFacts
      <3> QED BY <3>1, <3>2, <3>3 DEF Teaching
    <2> QED BY <2>1, <2>2 DEF FileInv, AgentFilesSound
  <1> QED BY <1>1, <1>2, FileInvInit, PTL DEF FileSpec

-----------------------------------------------------------------------------
(* Activity: the feed of a workspace, and the advice to stream.             *)

SpaceStates == [status : {"open", "closed", "gone"}, life : Nat]
FeedRows == [of : SpaceStates, late : BOOLEAN,
             kind : {"read", "edit", "command", "search", "note"},
             detail : {"plain", "secret", "redacted"}]
ReportStates == {"hook", "posted", "refused", "store", "poke", "done", "failed"}
Events == {"snapshot_pushed", "change_abandoned", "change_pushed", "workspace_closed"}

ActivityTypes ==
    /\ day \in Days /\ space \in SpaceStates
    /\ feed \in Seq(FeedRows) /\ timeline \in Seq(Events)
    /\ reports \in [DOMAIN day.reports -> [at : ReportStates, saw : SpaceStates]]
    /\ nudgePushes \in [1..day.pushes -> {"start", "advised", "done"}]
    /\ nudges \in Nat

\* A row that is in the feed: of an open workspace, of this life unless it came late,
\* and only late where the workspace is gone.
RowIsOwn(row) ==
    /\ row.of.status = "open" /\ (~row.late => row.of.life = space.life)
    /\ space.status = "gone" => row.late
RowIsClean(row) == day.scanner # "none" => row.detail # "secret"

\* The watcher has read the feed, will be poked, or something went wrong.
Watched ==
    \/ viewer.poked \/ \A k \in DOMAIN feed : feed[k] \in ToSet(viewer.read)
    \/ \E r \in DOMAIN reports : reports[r].at = "poke"
    \/ blips \cap {"half stored", "stopped before the poke"} # {}

\* A push that was advised in this life is on its way to the timeline or in it.
Excuses == blips \cap {"pushes overlap", "row lost", "buried"}
PushSeen == \E k \in DOMAIN timeline : timeline[k] = "change_pushed"
AdviceSeen ==
    nudges >= 1 /\ space.status # "gone" =>
        PushSeen \/ Excuses # {} \/ \E p \in DOMAIN nudgePushes : nudgePushes[p] = "advised"

FeedOfOwn ==
    /\ \A r \in DOMAIN reports : reports[r].at = "store" => reports[r].saw.status = "open"
    /\ \A k \in DOMAIN feed : RowIsOwn(feed[k]) /\ RowIsClean(feed[k])
ActivityInv == ActivityTypes /\ FeedOfOwn /\ Watched /\ AdviceSeen /\ NudgedOnce

LEMMA DayFacts ==
  ASSUME day \in Days
  PROVE  /\ day.scanner \in {"none", "works", "broken"} /\ day.pushes \in Nat
         /\ \A r \in DOMAIN day.reports : day.reports[r].batch \in Seq({"plain", "secret"})
  BY ActivityAssumption

\* What is in a concatenation was in one of the two.
Joins(both, s, t) ==
    \A k \in DOMAIN both : \/ \E j \in DOMAIN s : both[k] = s[j]
                           \/ \E j \in DOMAIN t : both[k] = t[j]
LEMMA ConcatElements ==
  ASSUME NEW S, NEW s \in Seq(S), NEW t \in Seq(S), NEW both, both = s \o t
  PROVE  both \in Seq(S) /\ Joins(both, s, t)
  <1>1. /\ both \in Seq(S) /\ Len(both) = Len(s) + Len(t)
        /\ \A k \in 1..Len(both) : both[k] = IF k <= Len(s) THEN s[k] ELSE t[k - Len(s)]
    BY ConcatProperties
  <1>2. Len(s) \in Nat /\ Len(t) \in Nat /\ DOMAIN s = 1..Len(s) /\ DOMAIN t = 1..Len(t)
        /\ DOMAIN both = 1..Len(both)
    BY <1>1, LenProperties
  <1>3. ASSUME NEW k \in DOMAIN both
        PROVE  \/ \E j \in DOMAIN s : both[k] = s[j]
               \/ \E j \in DOMAIN t : both[k] = t[j]
    <2>1. CASE k <= Len(s)
      <3>1. k \in DOMAIN s /\ both[k] = s[k]
        BY <1>1, <1>2, <2>1
      <3> QED BY <3>1
    <2>2. CASE ~(k <= Len(s))
      <3>1. k - Len(s) \in DOMAIN t /\ both[k] = t[k - Len(s)]
        BY <1>1, <1>2, <2>2
      <3> QED BY <3>1
    <2> QED BY <2>1, <2>2
  <1> QED BY <1>1, <1>3 DEF Joins

\* The first n rows of a report.
LEMMA RowsFacts ==
  ASSUME ActivityTypes, NEW r \in DOMAIN reports, NEW n \in 0..Len(day.reports[r].batch)
  PROVE  /\ Rows(r, n) \in Seq(FeedRows) /\ DOMAIN Rows(r, n) = 1..n
         /\ \A k \in 1..n : /\ Rows(r, n)[k].of = reports[r].saw
                            /\ Rows(r, n)[k].late = (space # reports[r].saw)
                            /\ RowIsClean(Rows(r, n)[k])
  <1>1. /\ r \in DOMAIN day.reports /\ reports[r].saw \in SpaceStates
        /\ day.reports[r].batch \in Seq({"plain", "secret"})
        /\ day.scanner \in {"none", "works", "broken"}
    BY DayFacts DEF ActivityTypes
  <1>2. Len(day.reports[r].batch) \in Nat /\ n \in Nat
        /\ \A k \in 1..n : day.reports[r].batch[k] \in {"plain", "secret"}
    <2>1. Len(day.reports[r].batch) \in Nat
          /\ \A k \in 1..Len(day.reports[r].batch) :
                day.reports[r].batch[k] \in {"plain", "secret"}
      BY <1>1, LenProperties, ElementOfSeq
    <2> QED BY <2>1
  <1>3. ASSUME NEW detail \in {"plain", "secret"}
        PROVE  /\ RowOf(r, detail) \in FeedRows /\ RowOf(r, detail).of = reports[r].saw
               /\ RowOf(r, detail).late = (space # reports[r].saw)
               /\ RowIsClean(RowOf(r, detail))
    <2>1. NormalizeActivityKind(EventFromHook(day.reports[r].tool))
             \in {"read", "edit", "command", "search", "note"}
      BY DEF NormalizeActivityKind
    <2>2. RedactActivitySecret(detail) \in {"plain", "secret", "redacted"}
          /\ (day.scanner # "none" => RedactActivitySecret(detail) # "secret")
      BY <1>1, <1>3 DEF RedactActivitySecret, FailClosed
    <2> QED BY <1>1, <2>1, <2>2 DEF RowOf, FeedRows, RowIsClean
  <1>4. /\ DOMAIN Rows(r, n) = 1..n
        /\ \A k \in 1..n : Rows(r, n)[k] = RowOf(r, day.reports[r].batch[k])
    BY DEF Rows
  <1>5. Rows(r, n) \in [1..n -> FeedRows]
    BY <1>2, <1>3 DEF Rows
  <1>6. Rows(r, n) \in Seq(FeedRows)
    BY <1>2, <1>5, SeqDef
  <1> QED BY <1>2, <1>3, <1>4, <1>6

\* How often an event is in a sequence says whether it is.
LEMMA CountFacts ==
  ASSUME NEW S, NEW seq \in Seq(S), NEW event
  PROVE  /\ CountIn(seq, event) \in Nat
         /\ CountIn(seq, event) = 0 <=> ~\E k \in DOMAIN seq : seq[k] = event
  <1> DEFINE at == {k \in DOMAIN seq : seq[k] = event}
  <1>1. IsFiniteSet(at)
    <2>1. DOMAIN seq = 1..Len(seq) /\ Len(seq) \in Nat
      BY LenProperties
    <2>2. IsFiniteSet(1..Len(seq))
      BY <2>1, FS_Interval
    <2> QED BY <2>1, <2>2, FS_Subset
  <1>2. Cardinality(at) \in Nat /\ (Cardinality(at) = 0 <=> at = {})
    BY <1>1, FS_CardinalityType, FS_EmptySet
  <1> QED BY <1>2 DEF CountIn

LEMMA ActivityInvInit == ActivityInit => ActivityInv
  <1> SUFFICES ASSUME ActivityInit PROVE ActivityInv
    OBVIOUS
  <1>1. day \in Days /\ space = [status |-> "open", life |-> 1] /\ feed = << >>
        /\ timeline = << >> /\ nudges = 0
        /\ reports = [r \in DOMAIN day.reports |-> [at |-> "hook", saw |-> space]]
        /\ nudgePushes = [p \in 1..day.pushes |-> "start"]
    BY DEF ActivityInit
  <1>2. ActivityTypes
    <2>1. space \in SpaceStates
      BY <1>1 DEF SpaceStates
    <2> QED BY <1>1, <2>1 DEF ActivityTypes, ReportStates
  <1>3. FeedOfOwn
    BY <1>1 DEF FeedOfOwn
  <1>4. Watched /\ AdviceSeen /\ NudgedOnce
    BY <1>1 DEF Watched, AdviceSeen, NudgedOnce
  <1> QED BY <1>2, <1>3, <1>4 DEF ActivityInv

-----------------------------------------------------------------------------
LEMMA ReportMoves ==
  ASSUME ActivityTypes, NEW r \in DOMAIN reports, NEW at \in ReportStates, ReportGoes(r, at)
  PROVE  /\ reports' \in [DOMAIN day.reports -> [at : ReportStates, saw : SpaceStates]]
         /\ DOMAIN reports' = DOMAIN reports
         /\ reports'[r].at = at /\ reports'[r].saw = reports[r].saw
         /\ \A q \in DOMAIN reports \ {r} : reports'[q] = reports[q]
  BY DEF ActivityTypes, ReportGoes

\* A report gets to the server, and is checked there.
LEMMA CheckStep ==
  ASSUME ActivityInv, NEW r \in DOMAIN reports, AgentEvent(r) \/ CheckReport(r)
  PROVE  ActivityInv'
  <1>1. /\ ActivityTypes /\ reports[r].at \in {"hook", "posted"}
        /\ UNCHANGED <<day, space, feed, timeline, nudgePushes, viewer, nudges, blips, faultsLeft>>
    BY DEF ActivityInv, AgentEvent, CheckReport, ReportAt
  <1>2. PICK saw \in SpaceStates, at \in {"posted", "refused", "store"} :
           /\ reports' = [reports EXCEPT ![r] = [at |-> at, saw |-> saw]]
           /\ at = "store" => saw.status = "open"
    <2>1. CASE AgentEvent(r)
      <3> DEFINE at == IF day.reports[r].bound THEN "posted" ELSE "refused"
      <3>0. reports[r] \in [at : ReportStates, saw : SpaceStates]
        BY <1>1 DEF ActivityTypes
      <3>1. /\ reports' = [reports EXCEPT ![r] = [at |-> at, saw |-> reports[r].saw]]
            /\ reports[r].saw \in SpaceStates
        <4>1. reports' = [reports EXCEPT ![r] = [reports[r] EXCEPT !.at = at]]
          BY <2>1 DEF AgentEvent, ReportGoes
        <4> HIDE DEF at
        <4>2. [reports[r] EXCEPT !.at = at] = [at |-> at, saw |-> reports[r].saw]
          BY <3>0
        <4> QED BY <3>0, <4>1, <4>2
      <3>2. at \in {"posted", "refused"}
        OBVIOUS
      <3> HIDE DEF at
      <3> QED BY <3>1, <3>2
    <2>2. CASE CheckReport(r)
      <3> DEFINE at == IF MayReport(r) /\ day.reports[r].batch # << >> THEN "store" ELSE "refused"
      <3>1. reports' = [reports EXCEPT ![r] = [at |-> at, saw |-> space]]
        BY <2>2 DEF CheckReport
      <3>2. space \in SpaceStates
        BY <1>1 DEF ActivityTypes
      <3>3. at \in {"refused", "store"} /\ (at = "store" => space.status = "open")
        BY DEF MayReport, OpenOnly
      <3> HIDE DEF at
      <3> QED BY <3>1, <3>2, <3>3
    <2> QED BY <2>1, <2>2
  <1>3. /\ reports' \in [DOMAIN day.reports -> [at : ReportStates, saw : SpaceStates]]
        /\ DOMAIN reports' = DOMAIN reports
        /\ reports'[r].at = at /\ reports'[r].saw = saw
        /\ \A q \in DOMAIN reports \ {r} : reports'[q] = reports[q]
    BY <1>1, <1>2 DEF ActivityTypes, ReportStates
  <1>4. ActivityTypes'
    BY <1>1, <1>3 DEF ActivityTypes
  <1>5. FeedOfOwn'
    BY <1>1, <1>2, <1>3 DEF ActivityInv, FeedOfOwn, RowIsOwn, RowIsClean
  <1>6. Watched'
    BY <1>1, <1>3 DEF ActivityInv, Watched
  <1>7. AdviceSeen' /\ NudgedOnce'
    BY <1>1 DEF ActivityInv, AdviceSeen, PushSeen, Excuses, NudgedOnce
  <1> QED BY <1>4, <1>5, <1>6, <1>7 DEF ActivityInv

\* Rows of a report get into the feed: the watcher will be poked, or there are none, or
\* it is noted.
LEMMA StoreStep ==
  ASSUME ActivityInv, NEW r \in DOMAIN reports, NEW n \in 0..Len(day.reports[r].batch),
         NEW at \in {"poke", "failed"}, ReportAt(r, "store"), ReportGoes(r, at),
         feed' = feed \o Rows(r, n), blips \subseteq blips', Excuses \subseteq Excuses',
         at = "failed" => n = 0 \/ "half stored" \in blips',
         UNCHANGED <<day, space, timeline, nudgePushes, viewer, nudges>>
  PROVE  ActivityInv'
  <1>1. ActivityTypes /\ at \in ReportStates /\ reports[r].at = "store"
    BY DEF ActivityInv, ReportStates, ReportAt
  <1>2. /\ reports' \in [DOMAIN day.reports -> [at : ReportStates, saw : SpaceStates]]
        /\ DOMAIN reports' = DOMAIN reports
        /\ reports'[r].at = at /\ reports'[r].saw = reports[r].saw
        /\ \A q \in DOMAIN reports \ {r} : reports'[q] = reports[q]
    BY <1>1, ReportMoves
  <1>3. /\ Rows(r, n) \in Seq(FeedRows) /\ DOMAIN Rows(r, n) = 1..n
        /\ \A k \in 1..n : /\ Rows(r, n)[k].of = reports[r].saw
                           /\ Rows(r, n)[k].late = (space # reports[r].saw)
                           /\ RowIsClean(Rows(r, n)[k])
    BY <1>1, RowsFacts
  <1>4. /\ feed' \in Seq(FeedRows)
        /\ \A k \in DOMAIN feed' : \/ \E j \in DOMAIN feed : feed'[k] = feed[j]
                                   \/ \E j \in 1..n : feed'[k] = Rows(r, n)[j]
    <2>1. feed \in Seq(FeedRows)
      BY <1>1 DEF ActivityTypes
    <2>2. feed' \in Seq(FeedRows) /\ Joins(feed', feed, Rows(r, n))
      BY <1>3, <2>1, ConcatElements
    <2> QED BY <1>3, <2>2 DEF Joins
  <1>5. ActivityTypes'
    BY <1>1, <1>2, <1>4 DEF ActivityTypes
  <1>6. \A k \in 1..n : RowIsOwn(Rows(r, n)[k])
    <2>1. reports[r].saw.status = "open"
      BY <1>1 DEF ActivityInv, FeedOfOwn
    <2> QED BY <1>3, <2>1 DEF RowIsOwn
  <1>7. FeedOfOwn'
    <2>1. \A k \in DOMAIN feed' : RowIsOwn(feed'[k]) /\ RowIsClean(feed'[k])
      BY <1>3, <1>4, <1>6 DEF ActivityInv, FeedOfOwn
    <2>2. \A k \in DOMAIN feed' : RowIsOwn(feed[k])' /\ RowIsClean(feed[k])'
      BY <2>1 DEF RowIsOwn, RowIsClean
    <2> QED BY <1>2, <2>2 DEF ActivityInv, FeedOfOwn
  <1>8. Watched'
    <2>1. CASE at = "poke"
      BY <1>2, <2>1 DEF Watched
    <2>2. CASE at = "failed" /\ n # 0
      BY <2>2 DEF Watched
    <2>3. CASE at = "failed" /\ n = 0
      <3>1. \A k \in DOMAIN feed' : \E j \in DOMAIN feed : feed'[k] = feed[j]
        BY <1>4, <2>3
      <3>2. (\A k \in DOMAIN feed : feed[k] \in ToSet(viewer.read))
               => \A k \in DOMAIN feed' : feed'[k] \in ToSet(viewer.read)
        BY <3>1
      <3>3. (\E q \in DOMAIN reports : reports[q].at = "poke")
               => \E q \in DOMAIN reports' : reports'[q].at = "poke"
        BY <1>1, <1>2
      <3> QED BY <3>2, <3>3 DEF ActivityInv, Watched
    <2> QED BY <2>1, <2>2, <2>3
  <1>9. AdviceSeen' /\ NudgedOnce'
    BY DEF ActivityInv, AdviceSeen, PushSeen, Excuses, NudgedOnce
  <1> QED BY <1>5, <1>7, <1>8, <1>9 DEF ActivityInv

LEMMA RecordStep ==
  ASSUME ActivityInv, NEW r \in DOMAIN reports, RecordWorkspaceActivity(r) \/ RecordFails(r)
  PROVE  ActivityInv'
  <1>1. Len(day.reports[r].batch) \in Nat
    BY DayFacts, LenProperties DEF ActivityInv, ActivityTypes
  <1>2. CASE RecordWorkspaceActivity(r)
    <2>1. Len(day.reports[r].batch) \in 0..Len(day.reports[r].batch)
      BY <1>1
    <2>2. /\ ReportAt(r, "store") /\ ReportGoes(r, "poke")
          /\ feed' = feed \o Rows(r, Len(day.reports[r].batch))
          /\ UNCHANGED <<day, space, timeline, nudgePushes, viewer, nudges>>
          /\ blips' = blips /\ Excuses' = Excuses
      BY <1>2 DEF RecordWorkspaceActivity, Excuses
    <2> QED BY <2>1, <2>2, StoreStep
  <1>3. CASE RecordFails(r)
    <2>1. PICK n \in 0..(Len(day.reports[r].batch) - 1) :
             /\ feed' = feed \o Rows(r, n)
             /\ blips' = IF n > 0 THEN blips \cup {"half stored"} ELSE blips
      BY <1>3 DEF RecordFails
    <2>2. n \in 0..Len(day.reports[r].batch) /\ (n = 0 \/ n > 0)
      BY <1>1
    <2>3. blips \subseteq blips' /\ Excuses \subseteq Excuses'
          /\ (n = 0 \/ "half stored" \in blips')
      BY <2>1, <2>2 DEF Excuses
    <2> QED BY <1>3, <2>1, <2>2, <2>3, StoreStep DEF RecordFails
  <1> QED BY <1>2, <1>3

\* The watcher is poked, or the daemon stops before; the watcher reads.
LEMMA WatchStep ==
  ASSUME ActivityInv, (\E r \in DOMAIN reports : Poke(r) \/ DaemonStops(r)) \/ ListWorkspaceActivity
  PROVE  ActivityInv'
  <1>1. ActivityTypes /\ UNCHANGED <<day, space, feed, timeline, nudgePushes, nudges>>
        /\ blips \subseteq blips'
    BY DEF ActivityInv, Poke, DaemonStops, ListWorkspaceActivity
  <1>2. /\ reports' \in [DOMAIN day.reports -> [at : ReportStates, saw : SpaceStates]]
        /\ \A q \in DOMAIN reports' : reports'[q].at = "store" =>
              q \in DOMAIN reports /\ reports'[q] = reports[q]
    <2>1. CASE \E r \in DOMAIN reports : Poke(r) \/ DaemonStops(r)
      <3>1. PICK r \in DOMAIN reports, at \in {"done", "failed"} : ReportGoes(r, at)
        BY <2>1 DEF Poke, DaemonStops
      <3> QED BY <1>1, <3>1, ReportMoves DEF ReportStates
    <2>2. CASE ListWorkspaceActivity
      BY <1>1, <2>2 DEF ListWorkspaceActivity, ActivityTypes
    <2> QED BY <2>1, <2>2
  <1>3. ActivityTypes'
    BY <1>1, <1>2 DEF ActivityTypes
  <1>4. FeedOfOwn'
    BY <1>1, <1>2 DEF ActivityInv, FeedOfOwn, RowIsOwn, RowIsClean
  <1>5. Watched'
    <2>1. CASE \E r \in DOMAIN reports : Poke(r)
      BY <1>1, <2>1 DEF Poke, Watched
    <2>2. CASE \E r \in DOMAIN reports : DaemonStops(r)
      BY <2>2 DEF DaemonStops, Watched
    <2>3. CASE ListWorkspaceActivity
      BY <2>3 DEF ListWorkspaceActivity, Watched, ToSet
    <2> QED BY <2>1, <2>2, <2>3
  <1>6. AdviceSeen' /\ NudgedOnce'
    BY <1>1 DEF ActivityInv, AdviceSeen, PushSeen, Excuses, NudgedOnce
  <1> QED BY <1>3, <1>4, <1>5, <1>6 DEF ActivityInv

-----------------------------------------------------------------------------
(* The timeline and the advice.                                             *)

\* What is in the timeline stays there when a row is added.
LEMMA TimelineGrows ==
  ASSUME timeline \in Seq(Events), NEW event \in Events, timeline' = Append(timeline, event)
  PROVE  /\ timeline' \in Seq(Events) /\ (PushSeen => PushSeen')
         /\ (event = "change_pushed" => PushSeen')
  <1>1. /\ timeline' \in Seq(Events) /\ DOMAIN timeline = 1..Len(timeline)
        /\ DOMAIN timeline' = 1..(Len(timeline) + 1) /\ Len(timeline) \in Nat
        /\ \A k \in 1..Len(timeline) : timeline'[k] = timeline[k]
        /\ timeline'[Len(timeline) + 1] = event
    <2>1. timeline' \in Seq(Events) /\ Len(timeline') = Len(timeline) + 1
          /\ \A k \in 1..Len(timeline) : timeline'[k] = timeline[k]
          /\ timeline'[Len(timeline) + 1] = event
      BY AppendProperties
    <2> QED BY <2>1, LenProperties
  <1>2. \A k \in DOMAIN timeline : k \in DOMAIN timeline' /\ timeline'[k] = timeline[k]
    BY <1>1
  <1>3. Len(timeline) + 1 \in DOMAIN timeline'
    BY <1>1
  <1> QED BY <1>1, <1>2, <1>3 DEF PushSeen

\* A row is added by something else, or the workspace is closed.
LEMMA TimelineStep ==
  ASSUME ActivityInv,
         (\E e \in {"snapshot_pushed", "change_abandoned"} : Happens(e)) \/ CloseWorkspace
  PROVE  ActivityInv'
  <1>1. /\ ActivityTypes
        /\ UNCHANGED <<day, feed, reports, nudgePushes, viewer, nudges, blips, faultsLeft>>
    BY DEF ActivityInv, Happens, CloseWorkspace
  <1>2. PICK event \in Events : timeline' = Append(timeline, event)
    BY DEF Happens, CloseWorkspace, Events
  <1>3. timeline' \in Seq(Events) /\ (PushSeen => PushSeen')
    BY <1>1, <1>2, TimelineGrows DEF ActivityTypes
  <1>4. space' \in SpaceStates /\ space'.life = space.life
        /\ space.status = "open" /\ space'.status \in {"open", "closed"}
    BY <1>1 DEF Happens, CloseWorkspace, ActivityTypes, SpaceStates
  <1>5. ActivityTypes'
    BY <1>1, <1>3, <1>4 DEF ActivityTypes
  <1>6. FeedOfOwn'
    BY <1>1, <1>4 DEF ActivityInv, FeedOfOwn, RowIsOwn, RowIsClean
  <1>7. Watched'
    BY <1>1 DEF ActivityInv, Watched
  <1>8. AdviceSeen' /\ NudgedOnce'
    BY <1>1, <1>3, <1>4 DEF ActivityInv, AdviceSeen, Excuses, NudgedOnce
  <1> QED BY <1>5, <1>6, <1>7, <1>8 DEF ActivityInv

\* A push is advised: if one was before, it overlaps with this one, its row was lost, or
\* the row is in the timeline and not among the latest.
LEMMA AdvisedStep ==
  ASSUME ActivityInv, NEW p \in DOMAIN nudgePushes, PushAdvised(p)
  PROVE  ActivityInv'
  <1>1. ActivityTypes /\ space.status = "open" /\ nudges \in Nat
        /\ UNCHANGED <<day, space, feed, timeline, reports, viewer, faultsLeft>>
    BY DEF ActivityInv, PushAdvised, ActivityTypes
  <1>2. /\ nudgePushes' \in [1..day.pushes -> {"start", "advised", "done"}]
        /\ DOMAIN nudgePushes' = DOMAIN nudgePushes /\ nudgePushes'[p] = "advised"
    BY <1>1 DEF PushAdvised, ActivityTypes
  <1>3. blips \subseteq blips' /\ Excuses \subseteq Excuses'
    BY DEF PushAdvised, Excuses
  <1>4. nudges' \in Nat /\ (nudges' = nudges \/ (NeverStreamedAdvice /\ nudges' = nudges + 1))
    <2>1. nudges' = IF NeverStreamedAdvice THEN nudges + 1 ELSE nudges
      BY DEF PushAdvised
    <2>2. nudges + 1 \in Nat
      BY <1>1
    <2> QED BY <1>1, <2>1, <2>2
  <1>5. ASSUME NeverStreamedAdvice, nudges >= 1 PROVE Excuses' # {}
    <2>1. CASE \E q \in DOMAIN nudgePushes : nudgePushes[q] = "advised"
      <3>1. "pushes overlap" \in blips'
        BY <2>1 DEF PushAdvised
      <3> QED BY <3>1 DEF Excuses
    <2>2. CASE PushSeen
      <3>1. Latest \in Seq(Events)
        <4>1. timeline \in Seq(Events) /\ Len(timeline) \in Nat /\ EventLimit \in Nat \ {0}
          BY <1>1, ActivityAssumption, LenProperties DEF ActivityTypes
        <4>2. CASE Len(timeline) <= EventLimit
          BY <4>1, <4>2 DEF Latest
        <4>3. CASE ~(Len(timeline) <= EventLimit)
          <5>1. Len(timeline) - EventLimit + 1 \in 1..Len(timeline) + 1
            BY <4>1, <4>3
          <5>2. SubSeq(timeline, Len(timeline) - EventLimit + 1, Len(timeline)) \in Seq(Events)
            BY <4>1, <5>1, SubSeqProperties
          <5> QED BY <4>3, <5>2 DEF Latest
        <4> QED BY <4>2, <4>3
      <3>2. CountIn(Latest, "change_pushed") = 0
        BY <1>5 DEF NeverStreamedAdvice, FirstAndQuiet
      <3>3. CountIn(timeline, "change_pushed") \in Nat /\ CountIn(timeline, "change_pushed") # 0
        BY <1>1, <2>2, CountFacts DEF PushSeen, ActivityTypes
      <3>4. CountIn(timeline, "change_pushed") > CountIn(Latest, "change_pushed")
        BY <3>2, <3>3
      <3>5. "buried" \in blips'
        BY <3>4 DEF PushAdvised
      <3> QED BY <3>5 DEF Excuses
    <2>3. CASE Excuses # {}
      BY <1>3, <2>3
    <2> QED BY <1>1, <1>5, <2>1, <2>2, <2>3 DEF ActivityInv, AdviceSeen
  <1>6. NudgedOnce'
    <2>1. CASE nudges' = nudges
      BY <1>3, <2>1 DEF ActivityInv, NudgedOnce, Excuses
    <2>2. CASE NeverStreamedAdvice /\ nudges' = nudges + 1
      <3>1. nudges' > 1 => nudges >= 1
        BY <1>1, <2>2
      <3> QED BY <1>5, <2>2, <3>1 DEF NudgedOnce, Excuses
    <2> QED BY <1>4, <2>1, <2>2
  <1>7. AdviceSeen'
    BY <1>2 DEF AdviceSeen
  <1>8. ActivityTypes'
    BY <1>1, <1>2, <1>4 DEF ActivityTypes
  <1>9. FeedOfOwn' /\ Watched'
    BY <1>1, <1>3 DEF ActivityInv, FeedOfOwn, RowIsOwn, RowIsClean, Watched
  <1> QED BY <1>6, <1>7, <1>8, <1>9 DEF ActivityInv

LEMMA RecordedStep ==
  ASSUME ActivityInv, NEW p \in DOMAIN nudgePushes, PushRecorded(p)
  PROVE  ActivityInv'
  <1>1. ActivityTypes /\ UNCHANGED <<day, space, feed, reports, viewer, nudges>>
        /\ nudgePushes' = [nudgePushes EXCEPT ![p] = "done"]
    BY DEF ActivityInv, PushRecorded
  <1>2. /\ timeline' \in Seq(Events) /\ blips \subseteq blips' /\ Excuses \subseteq Excuses'
        /\ PushSeen' \/ Excuses' # {}
    <2>1. CASE timeline' = Append(timeline, "change_pushed") /\ UNCHANGED blips
      BY <1>1, <2>1, TimelineGrows DEF ActivityTypes, Events, Excuses
    <2>2. CASE blips' = blips \cup {"row lost"} /\ UNCHANGED timeline
      BY <1>1, <2>2 DEF ActivityTypes, Excuses
    <2> QED BY <2>1, <2>2 DEF PushRecorded
  <1>3. ActivityTypes'
    BY <1>1, <1>2 DEF ActivityTypes
  <1>4. AdviceSeen' /\ NudgedOnce'
    BY <1>1, <1>2 DEF ActivityInv, AdviceSeen, NudgedOnce, Excuses
  <1>5. FeedOfOwn' /\ Watched'
    BY <1>1, <1>2 DEF ActivityInv, FeedOfOwn, RowIsOwn, RowIsClean, Watched
  <1> QED BY <1>3, <1>4, <1>5 DEF ActivityInv

-----------------------------------------------------------------------------
(* The workspace goes, or is made again under its id.                       *)

LEMMA GoneStep ==
  ASSUME ActivityInv, DeleteWorkspace \/ MadeAgain
  PROVE  ActivityInv'
  <1>1. ActivityTypes /\ UNCHANGED <<day, reports, nudgePushes, viewer, blips, faultsLeft>>
    BY DEF ActivityInv, DeleteWorkspace, MadeAgain
  <1>2. CASE DeleteWorkspace
    <2>1. space'.status = "gone" /\ space' \in SpaceStates /\ feed' = << >> /\ timeline' = << >>
          /\ nudges' = nudges
      BY <1>1, <1>2 DEF DeleteWorkspace, ActivityTypes, SpaceStates
    <2>2. ActivityTypes'
      BY <1>1, <2>1 DEF ActivityTypes
    <2>3. FeedOfOwn'
      BY <1>1, <2>1 DEF ActivityInv, FeedOfOwn
    <2>a. Watched'
      BY <2>1 DEF Watched
    <2>4. AdviceSeen' /\ NudgedOnce'
      BY <1>1, <2>1 DEF ActivityInv, AdviceSeen, NudgedOnce
    <2> QED BY <2>2, <2>3, <2>a, <2>4 DEF ActivityInv
  <1>3. CASE MadeAgain
    <2>1. /\ space.status = "gone" /\ space' \in SpaceStates /\ space'.status = "open"
          /\ feed' = feed /\ timeline' = timeline /\ nudges' = 0
      BY <1>1, <1>3 DEF MadeAgain, ActivityTypes, SpaceStates
    <2>2. ActivityTypes'
      BY <1>1, <2>1 DEF ActivityTypes
    <2>3. FeedOfOwn'
      BY <1>1, <2>1 DEF ActivityInv, FeedOfOwn, RowIsOwn, RowIsClean
    <2>4. Watched'
      BY <1>1, <2>1 DEF ActivityInv, Watched
    <2>5. AdviceSeen' /\ NudgedOnce'
      BY <2>1 DEF AdviceSeen, NudgedOnce
    <2> QED BY <2>2, <2>3, <2>4, <2>5 DEF ActivityInv
  <1> QED BY <1>2, <1>3

(* The feed is clean, read and the workspace's own, and the advice rare,    *)
(* for any reports, pushes, lives of the workspace and failures: a row is   *)
(* of the life that shows it unless it came late, nothing secret passes a   *)
(* scanner, however it breaks, the watcher reads every batch that was       *)
(* stored whole, and a second push is advised only beside the first, or     *)
(* where its row was lost or buried (activity.go, workspaceevents.go).      *)
THEOREM FeedIsSound == ActivitySpec => []FeedSound
  <1>1. ActivityInv /\ [ActivityNext]_activityVars => ActivityInv'
    <2> SUFFICES ASSUME ActivityInv, [ActivityNext]_activityVars PROVE ActivityInv'
      OBVIOUS
    <2>1. CASE UNCHANGED activityVars
      BY <2>1 DEF activityVars, ActivityInv, ActivityTypes, FeedOfOwn, RowIsOwn, RowIsClean,
                  Watched, AdviceSeen, PushSeen, Excuses, NudgedOnce
    <2>2. CASE ActivityNext
      BY <2>2, CheckStep, RecordStep, WatchStep, TimelineStep, AdvisedStep, RecordedStep, GoneStep
         DEF ActivityNext
    <2> QED BY <2>1, <2>2
  <1>2. ActivityInv => FeedSound
    <2> SUFFICES ASSUME ActivityInv PROVE FeedSound
      OBVIOUS
    <2>1. FeedRedacted /\ FeedIsOwn
      BY DEF ActivityInv, FeedOfOwn, RowIsOwn, RowIsClean, FeedRedacted, FeedIsOwn
    <2>2. FeedSeen
      BY DEF ActivityInv, Watched, FeedSeen
    <2> QED BY <2>1, <2>2 DEF ActivityInv, FeedSound
  <1> QED BY <1>1, <1>2, ActivityInvInit, PTL DEF ActivitySpec

(* What runko keeps at home is sound, for any updaters, hosts, releases,    *)
(* checkouts, skills, installers, reports and pushes, and any stops and     *)
(* failures among them.                                                     *)
THEOREM HomeIsSound == HomeSpec => []HomeSound
  <1>1. UpdatesSound /\ AgentFilesSound /\ FeedSound => HomeSound
    BY DEF HomeSound
  <1> QED BY <1>1, UpdatesAreSound, AgentFilesAreSound, FeedIsSound, PTL DEF HomeSpec
=============================================================================
