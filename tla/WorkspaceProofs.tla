--------------------------- MODULE WorkspaceProofs ----------------------------
(*****************************************************************************)
(* What workspaces, releases and the checkouts of workspaces keep, for any   *)
(* number of pushes, lines, cutters, versions, edits and failures side by    *)
(* side: a workspace that ends says so and a single-use one closes, releases *)
(* are numbered in the order of trunk and tagged, and runko workspace gc     *)
(* reclaims no work the server does not hold.                                *)
(*****************************************************************************)
EXTENDS Workspaces, Releases, Worktrees, SequenceTheorems, FiniteSetTheorems, TLAPS

----------------------------------------------------------------------------
(* The registry row of a workspace, its lines and its tail.               *)

EnderPlaces == {"idle", "event", "poke", "look", "list", "close", "closed", "closed poke"}
SlotRecords == [pc : {"idle", "stack", "commit", "event", "poke", "ref"},
                what : Lines \cup {Snapshot}]

\* The values the variables take, but for the watcher's.
SpaceType ==
    /\ space \in {"none", "active", "closed"}
    /\ use \in SpacePlans
    /\ snapshot \in BOOLEAN
    /\ lines \in [Lines -> {"none", "open", "over", "past"}]
    /\ slots \in [PushSlots -> SlotRecords]
    /\ enders \in [Lines -> EnderPlaces]
    /\ deletion \in {"idle", "1", "2", "3"}
    /\ clashes \subseteq {"stacks", "gone", "cut"}

SlotAt(p, places) == slots[p].pc \in places

\* Only the push of a line is checked and committed.
SlotsFit == \A p \in PushSlots : SlotAt(p, {"stack", "commit"}) => slots[p].what \in Lines

\* Unless two lines were pushed at one time, the branch is one line's.
OneLine ==
    "stacks" \notin clashes =>
        /\ \A p, q \in Busy : {slots[p].what, slots[q].what} \subseteq Lines
                                 => slots[p].what = slots[q].what
        /\ \A p \in PushSlots : SlotAt(p, {"commit"}) => OpenLines \subseteq {slots[p].what}
        /\ \A l, m \in OpenLines : l = m

\* Unless a push was in flight, nothing is pushed to what is being closed or
\* deleted, and a deletion that has come to the row has cleared the refs.
NothingDangles ==
    "gone" \notin clashes =>
        /\ Busy # {} \/ OpenLines # {} => space = "active"
        /\ Ending => Busy = {} /\ OpenLines = {}
        /\ deletion = "2" => ~snapshot
        /\ space = "none" => ~snapshot

\* Unless a tail was cut off, one that will close the workspace is under way.
TailClosing == \E l \in Lines : enders[l] \in {"event", "poke", "look", "list", "close"}
TailUnderWay ==
    (/\ "cut" \notin clashes
     /\ use.agent /\ space = "active" /\ OpenLines = {}
     /\ \E l \in Lines : lines[l] = "over")
        => TailClosing

SpaceIInv == SpaceType /\ SlotsFit /\ OneLine /\ NothingDangles /\ TailUnderWay

----------------------------------------------------------------------------
LEMMA NoSlotRecord == NoSlot \in SlotRecords /\ NoSlot.pc = "idle"
  BY DEF NoSlot, SlotRecords

LEMMA SpaceInitially == SpaceInit => SpaceIInv
  <1> SUFFICES ASSUME SpaceInit PROVE SpaceIInv
    OBVIOUS
  <1>1. SpaceType
    BY NoSlotRecord DEF SpaceInit, SpaceType, EnderPlaces
  <1>2. \A p \in PushSlots : slots[p].pc = "idle"
    BY NoSlotRecord DEF SpaceInit
  <1>3. SlotsFit /\ Busy = {} /\ OpenLines = {} /\ ~Ending
    BY <1>2 DEF SpaceInit, SlotsFit, SlotAt, Busy, OpenLines, Ending
  <1>4. OneLine /\ NothingDangles /\ TailUnderWay
    BY <1>2, <1>3 DEF SpaceInit, OneLine, NothingDangles, TailUnderWay, SlotAt
  <1> QED
    BY <1>1, <1>3, <1>4 DEF SpaceIInv

\* A step that only the timeline, the watcher or the bounds see.
LEMMA Unseen ==
    ASSUME SpaceIInv, UNCHANGED <<space, use, snapshot, lines, slots, enders, deletion, clashes>>
    PROVE  SpaceIInv'
  BY DEF SpaceIInv, SpaceType, SlotsFit, OneLine, NothingDangles, TailUnderWay,
     TailClosing, SlotAt, Busy, OpenLines, Ending

\* A push moves within its slot.
LEMMA SlotMoves ==
    ASSUME SpaceType, NEW p \in PushSlots, NEW s \in SlotRecords,
           slots' = [slots EXCEPT ![p] = s]
    PROVE  /\ slots' \in [PushSlots -> SlotRecords] /\ slots'[p] = s
           /\ \A q \in PushSlots : q # p => slots'[q] = slots[q]
           /\ slots[p] \in SlotRecords
  BY DEF SpaceType

\* A push that goes on: it is let through to its commit only while no other
\* line is open.
LEMMA SlotKept ==
    ASSUME SpaceIInv, NEW p \in PushSlots, NEW s \in SlotRecords,
           slots' = [slots EXCEPT ![p] = s], slots[p].pc # "idle",
           s = NoSlot \/ s.what = slots[p].what,
           s.pc \in {"idle", "poke", "ref"}
              \/ (s.pc = "commit" /\ SlotAt(p, {"stack"}) /\ OpenLines \subseteq {s.what}),
           UNCHANGED <<space, use, snapshot, lines, enders, deletion, clashes>>
    PROVE  SpaceIInv'
  <1>0. /\ slots' \in [PushSlots -> SlotRecords] /\ slots'[p] = s
        /\ \A q \in PushSlots : q # p => slots'[q] = slots[q]
    BY SlotMoves DEF SpaceIInv
  <1>1. SpaceType'
    BY <1>0 DEF SpaceIInv, SpaceType
  <1>2. SlotsFit'
    BY <1>0, NoSlotRecord DEF SpaceIInv, SlotsFit, SlotAt
  <1>3. p \in Busy /\ Busy' \subseteq Busy /\ OpenLines' = OpenLines
    BY <1>0 DEF Busy, OpenLines
  <1>4. OneLine'
    BY <1>0, <1>3, NoSlotRecord DEF SpaceIInv, OneLine, SlotAt, Busy
  <1>5. NothingDangles'
    BY <1>3 DEF SpaceIInv, NothingDangles, Ending
  <1>6. TailUnderWay'
    BY <1>3 DEF SpaceIInv, TailUnderWay, TailClosing
  <1> QED
    BY <1>1, <1>2, <1>4, <1>5, <1>6 DEF SpaceIInv

LEMMA BeginKept ==
    ASSUME SpaceIInv, NEW p \in PushSlots, NEW what \in Lines \cup {Snapshot},
           PushBegin(p, what)
    PROVE  SpaceIInv'
  <1> DEFINE s == [what |-> what, pc |-> IF what = Snapshot THEN "event" ELSE "stack"]
  <1>a. s \in SlotRecords /\ s.what = what /\ s.pc # "idle" /\ s.pc # "commit"
        /\ (s.pc = "stack" => what \in Lines)
    BY DEF SlotRecords
  <1>b. slots' = [slots EXCEPT ![p] = s] /\ slots[p].pc = "idle"
    BY DEF PushBegin
  <1> HIDE DEF s
  <1>0. /\ slots' \in [PushSlots -> SlotRecords] /\ slots'[p] = s
        /\ \A q \in PushSlots : q # p => slots'[q] = slots[q]
    BY <1>a, <1>b, SlotMoves DEF SpaceIInv
  <1>c. UNCHANGED <<space, use, snapshot, lines, enders, deletion>> /\ space = "active"
    BY DEF PushBegin
  <1>d. /\ clashes \subseteq clashes' /\ clashes' \subseteq {"stacks", "gone", "cut"}
        /\ ("cut" \in clashes' => "cut" \in clashes)
        /\ ("gone" \notin clashes' => ~Ending)
        /\ ("stacks" \notin clashes' =>
               what = Snapshot \/ \A q \in Busy : slots[q].what \in {what, Snapshot})
    BY DEF PushBegin, SpaceIInv, SpaceType
  <1>1. SpaceType'
    BY <1>0, <1>c, <1>d DEF SpaceIInv, SpaceType
  <1>2. SlotsFit'
    BY <1>0, <1>a DEF SpaceIInv, SlotsFit, SlotAt
  <1>3. Busy' = Busy \cup {p} /\ p \notin Busy /\ OpenLines' = OpenLines
    BY <1>0, <1>a, <1>b, <1>c DEF Busy, OpenLines
  <1>4. OneLine'
    <2> SUFFICES ASSUME "stacks" \notin clashes' PROVE OneLine'
      BY DEF OneLine
    <2>1. \A q, r \in Busy : {slots[q].what, slots[r].what} \subseteq Lines
                                 => slots[q].what = slots[r].what
      BY <1>d DEF SpaceIInv, OneLine
    <2>2. \A q, r \in Busy' : {slots'[q].what, slots'[r].what} \subseteq Lines
                                 => slots'[q].what = slots'[r].what
      <3>0. Snapshot \notin Lines
        BY WorkspaceAssumption
      <3>1. SUFFICES ASSUME NEW q \in Busy', NEW r \in Busy',
                            slots'[q].what \in Lines, slots'[r].what \in Lines
                     PROVE  slots'[q].what = slots'[r].what
        OBVIOUS
      <3>2. q \in PushSlots /\ r \in PushSlots
        BY DEF Busy
      <3>3. CASE q = p \/ r = p
        BY <1>0, <1>a, <1>d, <1>3, <3>0, <3>1, <3>2, <3>3
      <3>4. CASE q # p /\ r # p
        BY <1>0, <1>3, <2>1, <3>1, <3>2, <3>4
      <3> QED
        BY <3>3, <3>4
    <2> QED
      BY <1>0, <1>a, <1>d, <1>3, <2>2 DEF SpaceIInv, OneLine, SlotAt
  <1>5. NothingDangles'
    BY <1>c, <1>d DEF SpaceIInv, NothingDangles, Ending, OpenLines
  <1>6. TailUnderWay'
    BY <1>c, <1>d, <1>3 DEF SpaceIInv, TailUnderWay, TailClosing
  <1> QED
    BY <1>1, <1>2, <1>4, <1>5, <1>6 DEF SpaceIInv

LEMMA CommitKept ==
    ASSUME SpaceIInv, NEW p \in PushSlots, PushCommit(p)
    PROVE  SpaceIInv'
  <1> DEFINE l == slots[p].what
             s == [slots[p] EXCEPT !.pc = "event"]
  <1>a. l \in Lines /\ slots[p] \in SlotRecords /\ slots[p].pc = "commit"
    BY DEF PushCommit, SpaceIInv, SpaceType, SlotsFit, SlotAt
  <1>b. s \in SlotRecords /\ s.what = l /\ s.pc = "event"
    BY <1>a DEF SlotRecords
  <1>c. slots' = [slots EXCEPT ![p] = s]
    BY DEF PushCommit
  <1> HIDE DEF s
  <1>0. /\ slots' \in [PushSlots -> SlotRecords] /\ slots'[p] = s
        /\ \A q \in PushSlots : q # p => slots'[q] = slots[q]
    BY <1>b, <1>c, SlotMoves DEF SpaceIInv
  <1>d. /\ lines' \in [Lines -> {"none", "open", "over", "past"}]
        /\ \A m \in Lines : m # l => lines'[m] = lines[m]
        /\ lines'[l] = IF lines[l] = "none" THEN "open" ELSE lines[l]
        /\ UNCHANGED <<space, use, snapshot, enders, deletion, clashes>>
    BY <1>a DEF PushCommit, SpaceIInv, SpaceType
  <1>1. SpaceType'
    BY <1>0, <1>d DEF SpaceIInv, SpaceType
  <1>2. SlotsFit'
    BY <1>0, <1>b DEF SpaceIInv, SlotsFit, SlotAt
  <1>3. Busy' = Busy /\ p \in Busy /\ OpenLines \subseteq OpenLines' /\ OpenLines' \subseteq OpenLines \cup {l}
    BY <1>0, <1>a, <1>b, <1>d DEF Busy, OpenLines
  <1>4. OneLine'
    <2> SUFFICES ASSUME "stacks" \notin clashes' PROVE OneLine'
      BY DEF OneLine
    <2>1. OpenLines' \subseteq {l}
      BY <1>a, <1>d, <1>3 DEF SpaceIInv, OneLine, SlotAt
    <2>2. \A q \in PushSlots : SlotAt(q, {"commit"}) => slots[q].what = l
      BY <1>a, <1>d, <1>3 DEF SpaceIInv, OneLine, SlotAt, SlotsFit, Busy
    <2>3. \A q \in PushSlots : slots'[q].what = slots[q].what
      BY <1>0, <1>b
    <2>4. \A q \in PushSlots : SlotAt(q, {"commit"})' => OpenLines' \subseteq {slots'[q].what}
      BY <1>0, <1>b, <2>1, <2>2, <2>3 DEF SlotAt
    <2>5. \A q, r \in Busy' : {slots'[q].what, slots'[r].what} \subseteq Lines
                                 => slots'[q].what = slots'[r].what
      BY <1>d, <1>3, <2>3 DEF SpaceIInv, OneLine, Busy
    <2> QED
      BY <2>1, <2>4, <2>5 DEF OneLine
  <1>5. NothingDangles'
    BY <1>d, <1>3 DEF SpaceIInv, NothingDangles, Ending
  <1>6. TailUnderWay'
    BY <1>a, <1>d, <1>3 DEF SpaceIInv, TailUnderWay, TailClosing
  <1> QED
    BY <1>1, <1>2, <1>4, <1>5, <1>6 DEF SpaceIInv

LEMMA PushKept ==
    ASSUME SpaceIInv, NEW p \in PushSlots, PushSlotStep(p)
    PROVE  SpaceIInv'
  <1>0. slots[p] \in SlotRecords
    BY DEF SpaceIInv, SpaceType
  <1> DEFINE To(pc) == [slots[p] EXCEPT !.pc = pc]
  <1>t. ASSUME NEW pc \in {"commit", "poke", "ref"}
        PROVE  To(pc) \in SlotRecords /\ To(pc).pc = pc /\ To(pc).what = slots[p].what
    BY <1>0, <1>t DEF SlotRecords
  <1>1. CASE PushStack(p)
    <2>1. CASE Blocking(slots[p].what) # {}
      BY <1>1, <2>1, SlotKept, NoSlotRecord DEF PushStack
    <2>2. CASE Blocking(slots[p].what) = {}
      <3>1. slots' = [slots EXCEPT ![p] = To("commit")] /\ SlotAt(p, {"stack"})
        BY <1>1, <2>2 DEF PushStack, SlotAt
      <3>2. OpenLines \subseteq {slots[p].what}
        BY <2>2 DEF Blocking
      <3> HIDE DEF To
      <3> QED
        BY <1>1, <1>t, <3>1, <3>2, SlotKept DEF PushStack, SlotAt
    <2> QED
      BY <2>1, <2>2
  <1>2. CASE PushCommit(p)
    BY <1>2, CommitKept
  <1>3. CASE PushEvent(p)
    <2>0. UNCHANGED <<space, use, snapshot, lines, enders, deletion, clashes>>
      BY <1>3 DEF PushEvent
    <2>1. CASE slots' = [slots EXCEPT ![p] = NoSlot] /\ slots[p].pc # "idle"
      BY <2>0, <2>1, SlotKept, NoSlotRecord
    <2>2. ASSUME NEW pc \in {"poke", "ref"}, slots' = [slots EXCEPT ![p] = To(pc)],
                 slots[p].pc # "idle"
          PROVE  SpaceIInv'
      <3> HIDE DEF To
      <3> QED
        BY <1>t, <2>0, <2>2, SlotKept
    <2> QED
      BY <1>3, <2>1, <2>2 DEF PushEvent
  <1>4. CASE PushSnapshotRef(p)
    <2>0. p \in Busy /\ space' = space /\ deletion' = deletion /\ snapshot' = TRUE
      BY <1>4 DEF PushSnapshotRef, Busy
    <2>1. slots' = [slots EXCEPT ![p] = NoSlot]
      BY <1>4 DEF PushSnapshotRef
    <2>2. /\ slots' \in [PushSlots -> SlotRecords] /\ slots'[p] = NoSlot
          /\ \A q \in PushSlots : q # p => slots'[q] = slots[q]
      BY <2>1, SlotMoves, NoSlotRecord DEF SpaceIInv
    <2>3. Busy' \subseteq Busy /\ OpenLines' = OpenLines
      BY <1>4, <2>2, NoSlotRecord DEF PushSnapshotRef, Busy, OpenLines
    <2>4. SpaceType' /\ SlotsFit'
      BY <1>4, <2>2, NoSlotRecord DEF PushSnapshotRef, SpaceIInv, SpaceType, SlotsFit, SlotAt
    <2>5. OneLine'
      BY <1>4, <2>2, <2>3, NoSlotRecord DEF PushSnapshotRef, SpaceIInv, OneLine, SlotAt, Busy
    <2>6. NothingDangles' /\ TailUnderWay'
      BY <1>4, <2>0, <2>3
      DEF PushSnapshotRef, SpaceIInv, NothingDangles, Ending, TailUnderWay, TailClosing
    <2> QED
      BY <2>4, <2>5, <2>6 DEF SpaceIInv
  <1> QED
    BY <1>1, <1>2, <1>3, <1>4 DEF PushSlotStep

----------------------------------------------------------------------------
LEMMA EnderMoves ==
    ASSUME SpaceType, NEW l \in Lines, NEW e \in EnderPlaces, enders' = [enders EXCEPT ![l] = e]
    PROVE  /\ enders' \in [Lines -> EnderPlaces] /\ enders'[l] = e
           /\ \A m \in Lines : m # l => enders'[m] = enders[m]
  BY DEF SpaceType

LEMMA ConcludeKept ==
    ASSUME SpaceIInv, NEW l \in Lines, Conclude(l)
    PROVE  SpaceIInv'
  <1>0. /\ enders' \in [Lines -> EnderPlaces] /\ enders'[l] = "event"
        /\ \A m \in Lines : m # l => enders'[m] = enders[m]
    BY EnderMoves DEF Conclude, SpaceIInv, EnderPlaces
  <1>1. SpaceType' /\ SlotsFit'
    BY <1>0 DEF Conclude, SpaceIInv, SpaceType, SlotsFit, SlotAt
  <1>2. OpenLines' \subseteq OpenLines /\ l \in OpenLines /\ Busy' = Busy
    BY DEF Conclude, OpenLines, Busy, SpaceIInv, SpaceType
  <1>3. OneLine'
    BY <1>2 DEF Conclude, SpaceIInv, OneLine, SlotAt, Busy
  <1>4. NothingDangles'
    BY <1>0, <1>2 DEF Conclude, SpaceIInv, NothingDangles, Ending
  <1>5. TailUnderWay'
    BY <1>0 DEF TailUnderWay, TailClosing
  <1> QED
    BY <1>1, <1>3, <1>4, <1>5 DEF SpaceIInv

\* What OneLine reads is the slots, the open lines and one clash.
LEMMA OneLineStays ==
    ASSUME OneLine, "stacks" \in clashes => "stacks" \in clashes',
           slots' = slots, OpenLines' = OpenLines, Busy' = Busy
    PROVE  OneLine'
  BY DEF OneLine, SlotAt

\* A tail that goes on; it goes on to the close only when no line is open, and
\* back to idle only when it has not to close.
LEMMA TailKept ==
    ASSUME SpaceIInv, NEW l \in Lines, NEW e \in EnderPlaces,
           enders' = [enders EXCEPT ![l] = e],
           UNCHANGED <<space, use, snapshot, lines, slots, deletion>>,
           clashes \subseteq clashes', clashes' \subseteq {"stacks", "gone", "cut"},
           e = "close" => OpenLines = {} /\ (Busy = {} \/ "gone" \in clashes'),
           \/ e \in {"poke", "look", "list", "close"} \/ "cut" \in clashes'
           \/ enders[l] \in {"closed", "closed poke"}
           \/ ~use.agent \/ space # "active" \/ OpenLines # {}
    PROVE  SpaceIInv'
  <1>0. /\ enders' \in [Lines -> EnderPlaces] /\ enders'[l] = e
        /\ \A m \in Lines : m # l => enders'[m] = enders[m]
    BY EnderMoves DEF SpaceIInv
  <1>1. SpaceType' /\ SlotsFit'
    BY <1>0 DEF SpaceIInv, SpaceType, SlotsFit, SlotAt
  <1>2. OpenLines' = OpenLines /\ Busy' = Busy
    BY DEF OpenLines, Busy
  <1>3. OneLine'
    <2>1. OneLine /\ ("stacks" \in clashes => "stacks" \in clashes')
      BY DEF SpaceIInv
    <2> QED
      BY <1>2, <2>1, OneLineStays
  <1>4. NothingDangles'
    BY <1>0, <1>2 DEF SpaceIInv, NothingDangles, Ending
  <1>5. TailUnderWay'
    BY <1>0, <1>2 DEF SpaceIInv, TailUnderWay, TailClosing
  <1> QED
    BY <1>1, <1>3, <1>4, <1>5 DEF SpaceIInv

LEMMA EnderKept ==
    ASSUME SpaceIInv, NEW l \in Lines, EnderStep(l) \/ EnderFails(l)
    PROVE  SpaceIInv'
  <1>0. clashes \subseteq {"stacks", "gone", "cut"}
    BY DEF SpaceIInv, SpaceType
  <1>1. CASE EnderEvent(l)
    <2>1. PICK s \in {<<"event", 1, "poke">>, <<"poke", 2, "look">>,
                      <<"closed", 1, "closed poke">>, <<"closed poke", 2, "idle">>} :
             enders[l] = s[1] /\ enders' = [enders EXCEPT ![l] = s[3]]
      BY <1>1 DEF EnderEvent
    <2>2. UNCHANGED <<space, use, snapshot, lines, slots, deletion, clashes>>
      BY <1>1 DEF EnderEvent
    <2>3. /\ s[3] \in {"poke", "look", "closed poke", "idle"}
          /\ s[3] \in {"poke", "look"} \/ s[1] \in {"closed", "closed poke"}
      <3>1. CASE s = <<"event", 1, "poke">>
        BY <3>1
      <3>2. CASE s = <<"poke", 2, "look">>
        BY <3>2
      <3>3. CASE s = <<"closed", 1, "closed poke">>
        BY <3>3
      <3>4. CASE s = <<"closed poke", 2, "idle">>
        BY <3>4
      <3> QED
        BY <2>1, <3>1, <3>2, <3>3, <3>4
    <2> QED
      BY <1>0, <2>1, <2>2, <2>3, TailKept DEF EnderPlaces
  <1>2. CASE EnderLook(l)
    <2> DEFINE e == IF use.agent /\ space = "active" THEN "list" ELSE "idle"
    <2>1. e \in EnderPlaces /\ e # "close" /\ (e = "list" \/ ~use.agent \/ space # "active")
      BY DEF EnderPlaces
    <2>2. enders' = [enders EXCEPT ![l] = e]
      BY <1>2 DEF EnderLook
    <2> HIDE DEF e
    <2> QED
      BY <1>0, <1>2, <2>1, <2>2, TailKept DEF EnderLook
  <1>3. CASE EnderList(l)
    <2> DEFINE e == IF BornHere # {} THEN "idle" ELSE "close"
    <2>1. e \in EnderPlaces /\ ((e = "close" /\ OpenLines = {}) \/ (e = "idle" /\ OpenLines # {}))
      BY DEF EnderPlaces, BornHere
    <2>2. enders' = [enders EXCEPT ![l] = e]
      BY <1>3 DEF EnderList
    <2>3. /\ clashes \subseteq clashes' /\ clashes' \subseteq {"stacks", "gone", "cut"}
          /\ OpenLines = {} => Busy = {} \/ "gone" \in clashes'
      BY <1>0, <1>3 DEF EnderList, Clash, BornHere
    <2> HIDE DEF e
    <2> QED
      BY <1>3, <2>1, <2>2, <2>3, TailKept DEF EnderList
  <1>4. CASE EnderClose(l)
    <2> DEFINE e == IF space = "none" THEN "idle" ELSE "closed"
    <2>0. enders[l] = "close" /\ UNCHANGED <<use, snapshot, lines, slots, deletion, clashes>>
      BY <1>4 DEF EnderClose
    <2>1. /\ enders' \in [Lines -> EnderPlaces]
          /\ \A m \in Lines : m # l => enders'[m] = enders[m]
          /\ enders'[l] # "close"
      BY <1>4, EnderMoves DEF EnderClose, SpaceIInv, EnderPlaces
    <2>2. /\ space' \in {"none", "closed"}
          /\ space' = "none" => space = "none"
      BY <1>4 DEF EnderClose
    <2>3. SpaceType' /\ SlotsFit' /\ OneLine'
      BY <2>0, <2>1, <2>2
      DEF SpaceIInv, SpaceType, SlotsFit, SlotAt, OneLine, Busy, OpenLines
    <2>4. NothingDangles'
      BY <2>0, <2>1, <2>2 DEF SpaceIInv, NothingDangles, Ending, Busy, OpenLines
    <2>5. TailUnderWay'
      BY <2>2 DEF TailUnderWay
    <2> QED
      BY <2>3, <2>4, <2>5 DEF SpaceIInv
  <1>5. CASE EnderFails(l)
    <2>1. "idle" \in EnderPlaces /\ clashes' = clashes \cup {"cut"}
      BY <1>5 DEF EnderFails, Clash, EnderPlaces
    <2> QED
      BY <1>0, <1>5, <2>1, TailKept DEF EnderFails
  <1> QED
    BY <1>1, <1>2, <1>3, <1>4, <1>5 DEF EnderStep

----------------------------------------------------------------------------
LEMMA CreateKept == ASSUME SpaceIInv, CreateWorkspace PROVE SpaceIInv'
  <1>0. /\ lines' \in [Lines -> {"none", "open", "over", "past"}]
        /\ \A l \in Lines : /\ (lines'[l] = "open") = (lines[l] = "open")
                            /\ lines'[l] # "over"
        /\ space = "none" /\ space' = "active"
        /\ UNCHANGED <<use, snapshot, slots, enders, deletion, clashes>>
    BY DEF CreateWorkspace, SpaceIInv, SpaceType
  <1>1. OpenLines' = OpenLines /\ Busy' = Busy
    BY <1>0 DEF OpenLines, Busy
  <1>2. SpaceType' /\ SlotsFit' /\ OneLine'
    BY <1>0, <1>1 DEF SpaceIInv, SpaceType, SlotsFit, SlotAt, OneLine
  <1>3. NothingDangles' /\ TailUnderWay'
    BY <1>0, <1>1 DEF SpaceIInv, NothingDangles, Ending, TailUnderWay
  <1> QED
    BY <1>2, <1>3 DEF SpaceIInv

LEMMA DeleteKept ==
    ASSUME SpaceIInv, DeleteBegin \/ DeleteStep \/ DeleteFails
    PROVE  SpaceIInv'
  <1>0. UNCHANGED <<use, lines, slots, enders>> /\ Busy' = Busy /\ OpenLines' = OpenLines
    BY DEF DeleteBegin, DeleteStep, DeleteFails, Busy, OpenLines
  <1>1. CASE DeleteBegin
    <2>1. /\ clashes \subseteq clashes' /\ clashes' \subseteq {"stacks", "gone", "cut"}
          /\ ("cut" \in clashes' => "cut" \in clashes)
          /\ OpenLines = {} /\ (Busy = {} \/ "gone" \in clashes')
          /\ deletion' = "1" /\ space # "none" /\ UNCHANGED <<space, snapshot>>
      BY <1>1 DEF DeleteBegin, DeleteBlocked, Clash, SpaceIInv, SpaceType
    <2>2. SpaceType' /\ SlotsFit' /\ OneLine'
      BY <1>0, <2>1 DEF SpaceIInv, SpaceType, SlotsFit, SlotAt, OneLine
    <2>3. NothingDangles' /\ TailUnderWay'
      BY <1>0, <2>1 DEF SpaceIInv, NothingDangles, Ending, TailUnderWay, TailClosing
    <2> QED
      BY <2>2, <2>3 DEF SpaceIInv
  <1>2. CASE DeleteStep
    <2>1. /\ clashes' = clashes /\ deletion # "idle"
          /\ \/ deletion = "1" /\ deletion' = "2" /\ snapshot' = FALSE /\ space' = space
             \/ deletion = "2" /\ deletion' = "3" /\ snapshot' = snapshot /\ space' = "none"
             \/ deletion = "3" /\ deletion' = "idle" /\ snapshot' = snapshot /\ space' = space
      <3>1. PICK n \in 1 .. 3 :
               /\ deletion = <<"1", "2", "3">>[n]
               /\ deletion' = IF n = 3 THEN "idle" ELSE <<"2", "3">>[n]
               /\ CASE DeleteOrder[n] = "refs" ->
                         snapshot' = FALSE /\ UNCHANGED <<space, timeline>>
                    [] DeleteOrder[n] = "row" ->
                         space' = "none" /\ UNCHANGED <<snapshot, timeline>>
                    [] DeleteOrder[n] = "events" ->
                         timeline' = [timeline EXCEPT !.stored = FALSE]
                         /\ UNCHANGED <<space, snapshot>>
        BY <1>2 DEF DeleteStep
      <3>2. clashes' = clashes
        BY <1>2 DEF DeleteStep
      <3>3. CASE n = 1
        BY <3>1, <3>2, <3>3 DEF DeleteOrder
      <3>4. CASE n = 2
        BY <3>1, <3>2, <3>4 DEF DeleteOrder
      <3>5. CASE n = 3
        BY <3>1, <3>2, <3>5 DEF DeleteOrder
      <3>6. n = 1 \/ n = 2 \/ n = 3
        OBVIOUS
      <3> QED
        BY <3>3, <3>4, <3>5, <3>6
    <2>a. /\ space' \in {"none", "active", "closed"} /\ snapshot' \in BOOLEAN
          /\ deletion' \in {"idle", "1", "2", "3"}
      BY <2>1 DEF SpaceIInv, SpaceType
    <2>2. SpaceType' /\ SlotsFit' /\ OneLine'
      BY <1>0, <2>1, <2>a DEF SpaceIInv, SpaceType, SlotsFit, SlotAt, OneLine
    <2>3. NothingDangles' /\ TailUnderWay'
      BY <1>0, <2>1 DEF SpaceIInv, NothingDangles, Ending, TailUnderWay, TailClosing
    <2> QED
      BY <2>2, <2>3 DEF SpaceIInv
  <1>3. CASE DeleteFails
    BY <1>0, <1>3 DEF DeleteFails, SpaceIInv, SpaceType, SlotsFit, SlotAt, OneLine,
       NothingDangles, Ending, TailUnderWay, TailClosing
  <1> QED
    BY <1>1, <1>2, <1>3

LEMMA RestartKept == ASSUME SpaceIInv, SpaceRestart PROVE SpaceIInv'
  <1>0. /\ \A p \in PushSlots : slots'[p] = NoSlot
        /\ \A l \in Lines : enders'[l] = "idle"
        /\ slots' \in [PushSlots -> SlotRecords] /\ enders' \in [Lines -> EnderPlaces]
        /\ deletion' = "idle" /\ UNCHANGED <<space, use, snapshot, lines>>
        /\ clashes \subseteq clashes' /\ clashes' \subseteq {"stacks", "gone", "cut"}
        /\ \A l \in Lines : enders[l] = "idle" \/ "cut" \in clashes'
    BY NoSlotRecord DEF SpaceRestart, Clash, EnderPlaces, SpaceIInv, SpaceType
  <1>1. OpenLines' = OpenLines /\ Busy' = {} /\ ~Ending'
    BY <1>0, NoSlotRecord DEF OpenLines, Busy, Ending
  <1>2. SpaceType' /\ SlotsFit'
    BY <1>0, NoSlotRecord DEF SpaceIInv, SpaceType, SlotsFit, SlotAt
  <1>3. OneLine' /\ NothingDangles'
    BY <1>0, <1>1, NoSlotRecord DEF SpaceIInv, OneLine, NothingDangles, SlotAt
  <1>4. TailUnderWay'
    BY <1>0, <1>1 DEF SpaceIInv, TailUnderWay, TailClosing
  <1> QED
    BY <1>2, <1>3, <1>4 DEF SpaceIInv

LEMMA SpaceIsKept == SpaceIInv /\ [SpaceNext]_spaceVars => SpaceIInv'
  <1> SUFFICES ASSUME SpaceIInv, [SpaceNext]_spaceVars
               PROVE  SpaceIInv'
    OBVIOUS
  <1>1. ASSUME NEW p \in PushSlots,
               PushSlotStep(p) \/ \E what \in Lines \cup {Snapshot} : PushBegin(p, what)
        PROVE  SpaceIInv'
    BY <1>1, PushKept, BeginKept
  <1>2. ASSUME NEW l \in Lines, Conclude(l) \/ EnderStep(l) \/ EnderFails(l)
        PROVE  SpaceIInv'
    BY <1>2, ConcludeKept, EnderKept
  <1>3. CASE WatchStep
    BY <1>3, Unseen DEF WatchStep, WatchBegin, WatchFetch, WatchReady, WatchTake
  <1>4. CASE UNCHANGED spaceVars
    BY <1>4, Unseen DEF spaceVars
  <1> QED
    BY <1>1, <1>2, <1>3, <1>4, CreateKept, DeleteKept, RestartKept DEF SpaceNext

\* SpaceKept: row, snapshot ref and open Changes of a workspace agree, unless two lines
\* were pushed at one time, a push was in flight when the workspace was looked at, or the
\* tail of an ended Change was cut off (agentpolicy.go, deleteWorkspaceCore).
THEOREM WorkspaceIsKept == SpaceSpec => []SpaceKept
  <1>1. SpaceIInv => SpaceKept
    <2> SUFFICES ASSUME SpaceIInv PROVE SpaceKept
      OBVIOUS
    <2>1. OneStack
      <3> SUFFICES ASSUME "stacks" \notin clashes PROVE Cardinality(OpenLines) <= 1
        BY DEF OneStack
      <3>1. OpenLines = {} \/ \E l : OpenLines = {l}
        BY DEF SpaceIInv, OneLine
      <3>2. CASE OpenLines = {}
        BY <3>2, FS_EmptySet
      <3>3. ASSUME NEW l, OpenLines = {l} PROVE Cardinality(OpenLines) <= 1
        BY <3>3, FS_Singleton
      <3> QED
        BY <3>1, <3>2, <3>3
    <2>2. OpenHasWorkspace /\ DeleteIsComplete
      BY DEF SpaceIInv, NothingDangles, OpenHasWorkspace, DeleteIsComplete
    <2>3. SingleUseCloses
      BY DEF SpaceIInv, TailUnderWay, TailClosing, SingleUseCloses
    <2> QED
      BY <2>1, <2>2, <2>3 DEF SpaceKept
  <1> QED
    BY <1>1, SpaceInitially, SpaceIsKept, PTL DEF SpaceSpec

----------------------------------------------------------------------------
(* Releases.                                                                *)

CutPlaces == {"idle", "version", "log", "tag", "row"}
CutRecords == [pc : CutPlaces, auto : BOOLEAN, version : 0 .. MaxVersion + 1, tip : Nat,
               since : Nat, log : SUBSET Nat]
ReleaseRows == [version : Versions, target : Nat \ {0}, since : Nat, log : SUBSET Nat,
                auto : BOOLEAN]

ReleaseType ==
    /\ length \in Nat /\ asked \in Nat /\ releaseFaults \in Nat
    /\ tagged \in [Versions -> Nat]
    /\ releases \in Seq(ReleaseRows)
    /\ cuts \in [Cutters -> CutRecords]
    /\ orphaned \subseteq Versions /\ meddled \subseteq Versions

CutAt(r, places) == cuts[r].pc \in places

\* A call knows its commit, and its version once that is chosen.
CutFits(r) ==
    /\ ~CutAt(r, {"idle"}) => cuts[r].tip \in Nat \ {0}
    /\ CutAt(r, {"log", "tag", "row"}) \/ (CutAt(r, {"version"}) /\ ~cuts[r].auto)
          => cuts[r].version \in Versions

\* The tag of a call that is about to write its row is still its own.
TagHeld(r) ==
    CutAt(r, {"row"}) => \/ tagged[cuts[r].version] = cuts[r].tip
                         \/ cuts[r].version \in meddled

\* The changelog of a call begins at a release that is listed.
LogFits(r) ==
    CutAt(r, {"tag", "row"}) =>
        /\ cuts[r].log = CommitsSince(cuts[r].since, cuts[r].tip)
        /\ \/ cuts[r].since = 0
           \/ \E k \in DOMAIN releases : cuts[r].since = releases[k].target

\* Every tag is accounted for.
TagExplained(v) ==
    tagged[v] # 0 =>
        \/ v \in orphaned \cup meddled
        \/ \E r \in Cutters : CutAt(r, {"row"}) /\ cuts[r].version = v
        \/ \E i \in DOMAIN releases : releases[i].version = v

AllAuto == \A i \in DOMAIN releases : releases[i].auto

\* While nobody names a version, the rows are numbered one by one.
Numbered ==
    AllAuto =>
        /\ \A i \in DOMAIN releases : releases[i].version = i - 1
        /\ \A r \in Cutters : CutAt(r, {"log", "tag", "row"}) /\ cuts[r].auto
                                 => cuts[r].version <= Len(releases)

ReleaseIInv ==
    /\ ReleaseType
    /\ \A r \in Cutters : CutFits(r) /\ TagHeld(r) /\ LogFits(r)
    /\ ReleaseMatchesTag /\ ChangelogsCover
    /\ \A v \in Versions : TagExplained(v)
    /\ Numbered

----------------------------------------------------------------------------
\* A step of one call, whose record becomes c.
Cuts(r, c) == /\ cuts' \in [Cutters -> CutRecords] /\ cuts'[r] = c
              /\ \A q \in Cutters : q # r => cuts'[q] = cuts[q]

LEMMA NoCutRecord == NoCut \in CutRecords /\ NoCut.pc = "idle"
  BY ReleaseAssumption DEF NoCut, CutRecords, CutPlaces

LEMMA CutMoves ==
    ASSUME ReleaseType, NEW r \in Cutters, NEW c \in CutRecords,
           cuts' = [cuts EXCEPT ![r] = c]
    PROVE  Cuts(r, c)
  BY DEF ReleaseType, Cuts

LEMMA Rows ==
    ASSUME ReleaseType
    PROVE  /\ Len(releases) \in Nat /\ DOMAIN releases = 1 .. Len(releases)
           /\ \A i \in DOMAIN releases : releases[i] \in ReleaseRows
           /\ \A r \in Cutters : cuts[r] \in CutRecords
  BY DEF ReleaseType

\* A call that goes back to idle takes no tag or row with it.
LEMMA CutEnds ==
    ASSUME ReleaseIInv, NEW r \in Cutters, cuts' = [cuts EXCEPT ![r] = NoCut],
           UNCHANGED <<length, tagged, releases, asked, meddled>>,
           releaseFaults' \in Nat, orphaned' \subseteq Versions, orphaned \subseteq orphaned',
           CutAt(r, {"row"}) => cuts[r].version \in orphaned'
    PROVE  ReleaseIInv'
  <1>1. Cuts(r, NoCut)
    BY CutMoves, NoCutRecord DEF ReleaseIInv
  <1>2. ReleaseType'
    BY <1>1 DEF ReleaseIInv, ReleaseType, Cuts
  <1>3. \A q \in Cutters : (CutFits(q) /\ TagHeld(q) /\ LogFits(q))'
    BY <1>1, NoCutRecord DEF ReleaseIInv, Cuts, CutFits, TagHeld, LogFits, CutAt
  <1>4. (ReleaseMatchesTag /\ ChangelogsCover)'
    BY DEF ReleaseIInv, ReleaseMatchesTag, ChangelogsCover
  <1>5. \A v \in Versions : TagExplained(v)'
    BY <1>1 DEF ReleaseIInv, TagExplained, CutAt, Cuts
  <1>6. Numbered'
    BY <1>1, NoCutRecord DEF ReleaseIInv, Numbered, AllAuto, CutAt, Cuts
  <1> QED
    BY <1>2, <1>3, <1>4, <1>5, <1>6 DEF ReleaseIInv

\* A step of a call before its tag.
LEMMA CutGoesOn ==
    ASSUME ReleaseIInv, NEW r \in Cutters, NEW c \in CutRecords,
           cuts' = [cuts EXCEPT ![r] = c],
           UNCHANGED <<length, tagged, releases, orphaned, meddled>>,
           asked' \in Nat, releaseFaults' \in Nat,
           ~CutAt(r, {"row"}), c.pc \in {"version", "log", "tag"},
           CutFits(r)', LogFits(r)',
           AllAuto /\ c.pc \in {"log", "tag"} /\ c.auto => c.version <= Len(releases)
    PROVE  ReleaseIInv'
  <1>1. Cuts(r, c)
    BY CutMoves DEF ReleaseIInv
  <1>2. ReleaseType'
    BY <1>1 DEF ReleaseIInv, ReleaseType, Cuts
  <1>3. \A q \in Cutters : (CutFits(q) /\ TagHeld(q) /\ LogFits(q))'
    BY <1>1 DEF ReleaseIInv, Cuts, CutFits, TagHeld, LogFits, CutAt
  <1>4. (ReleaseMatchesTag /\ ChangelogsCover)'
    BY DEF ReleaseIInv, ReleaseMatchesTag, ChangelogsCover
  <1>5. \A v \in Versions : TagExplained(v)'
    BY <1>1 DEF ReleaseIInv, TagExplained, CutAt, Cuts
  <1>6. Numbered'
    BY <1>1 DEF ReleaseIInv, Numbered, AllAuto, CutAt, Cuts
  <1> QED
    BY <1>2, <1>3, <1>4, <1>5, <1>6 DEF ReleaseIInv

LEMMA ReleaseInitially == ReleaseInit => ReleaseIInv
  <1> SUFFICES ASSUME ReleaseInit PROVE ReleaseIInv
    OBVIOUS
  <1>1. \A r \in Cutters : cuts[r] = NoCut
    BY DEF ReleaseInit
  <1>2. ReleaseType
    BY NoCutRecord DEF ReleaseInit, ReleaseType
  <1>3. \A r \in Cutters : CutFits(r) /\ TagHeld(r) /\ LogFits(r)
    BY <1>1, NoCutRecord DEF CutFits, TagHeld, LogFits, CutAt
  <1>4. ReleaseMatchesTag /\ ChangelogsCover /\ Numbered /\ \A v \in Versions : TagExplained(v)
    BY <1>1, NoCutRecord
    DEF ReleaseInit, ReleaseMatchesTag, ChangelogsCover, Numbered, TagExplained, CutAt
  <1> QED
    BY <1>2, <1>3, <1>4 DEF ReleaseIInv

LEMMA TagStepKept ==
    ASSUME ReleaseIInv, NEW r \in Cutters, CreateTag(r)
    PROVE  ReleaseIInv'
  <1> DEFINE v == cuts[r].version
             c == [cuts[r] EXCEPT !.pc = "row"]
  <1>0. ReleaseType /\ \A q \in Cutters : CutFits(q) /\ TagHeld(q) /\ LogFits(q)
    BY DEF ReleaseIInv
  <1>1. CASE ~TagFree(v)
    <2>1. cuts' = [cuts EXCEPT ![r] = NoCut] /\ UNCHANGED tagged /\ ~CutAt(r, {"row"})
      BY <1>1 DEF CreateTag, CutAt
    <2> QED
      BY <1>0, <2>1, CutEnds DEF CreateTag, ReleaseType
  <1>2. CASE TagFree(v)
    <2>0. /\ tagged[v] = 0 /\ tagged' = [tagged EXCEPT ![v] = cuts[r].tip]
          /\ cuts' = [cuts EXCEPT ![r] = c] /\ CutAt(r, {"tag"})
          /\ UNCHANGED <<length, releases, asked, releaseFaults, orphaned, meddled>>
      BY <1>2 DEF CreateTag, TagFree, CutAt
    <2>1. cuts[r] \in CutRecords /\ v \in Versions /\ cuts[r].tip \in Nat \ {0}
      BY <1>0, <2>0, Rows DEF CutFits, CutAt
    <2>2. /\ c \in CutRecords /\ c.pc = "row" /\ c.version = v /\ c.tip = cuts[r].tip
          /\ c.auto = cuts[r].auto /\ c.since = cuts[r].since /\ c.log = cuts[r].log
      BY <2>1 DEF CutRecords, CutPlaces
    <2> HIDE DEF c
    <2>3. Cuts(r, c)
      BY <1>0, <2>0, <2>2, CutMoves
    <2>4. ReleaseType'
      BY <1>0, <2>0, <2>1, <2>3 DEF ReleaseType, Cuts
    <2>5. \A q \in Cutters : CutFits(q)' /\ LogFits(q)'
      BY <1>0, <2>0, <2>1, <2>2, <2>3 DEF Cuts, CutFits, LogFits, CutAt
    <2>6. ASSUME NEW q \in Cutters PROVE TagHeld(q)'
      BY <1>0, <2>0, <2>1, <2>2, <2>3 DEF Cuts, CutFits, TagHeld, CutAt, ReleaseType
    <2>7. ReleaseMatchesTag'
      BY <1>0, <2>0, <2>1, Rows DEF ReleaseIInv, ReleaseMatchesTag, ReleaseType, ReleaseRows
    <2>8. ASSUME NEW w \in Versions PROVE TagExplained(w)'
      <3>1. CASE w = v
        BY <2>2, <2>3, <3>1 DEF Cuts, TagExplained, CutAt
      <3>2. CASE w # v
        BY <1>0, <2>0, <2>3, <3>2 DEF ReleaseIInv, ReleaseType, Cuts, TagExplained, CutAt
      <3> QED
        BY <3>1, <3>2
    <2>9. ChangelogsCover' /\ Numbered'
      BY <2>0, <2>2, <2>3 DEF ReleaseIInv, ChangelogsCover, Numbered, AllAuto, Cuts, CutAt
    <2> QED
      BY <2>4, <2>5, <2>6, <2>7, <2>8, <2>9 DEF ReleaseIInv
  <1> QED
    BY <1>1, <1>2

LEMMA RowKept ==
    ASSUME ReleaseIInv, NEW r \in Cutters, CreateRow(r)
    PROVE  ReleaseIInv'
  <1> DEFINE n == Len(releases) + 1
             row == [version |-> cuts[r].version, target |-> cuts[r].tip,
                     since |-> cuts[r].since, log |-> cuts[r].log, auto |-> cuts[r].auto]
  <1>0. /\ ReleaseType /\ \A q \in Cutters : CutFits(q) /\ TagHeld(q) /\ LogFits(q)
        /\ CutAt(r, {"row"}) /\ cuts[r] \in CutRecords
        /\ cuts[r].version \in Versions /\ cuts[r].tip \in Nat \ {0}
    BY Rows DEF ReleaseIInv, CreateRow, CutAt, CutFits
  <1>1. /\ row \in ReleaseRows /\ row.version = cuts[r].version /\ row.target = cuts[r].tip
        /\ row.since = cuts[r].since /\ row.log = cuts[r].log /\ row.auto = cuts[r].auto
    BY <1>0 DEF ReleaseRows, CutRecords
  <1>2. /\ releases' = Append(releases, row) /\ cuts' = [cuts EXCEPT ![r] = NoCut]
        /\ UNCHANGED <<length, tagged, asked, releaseFaults, orphaned, meddled>>
        /\ \A i \in DOMAIN releases : releases[i].version # row.version
    BY <1>1 DEF CreateRow
  <1> HIDE DEF row
  <1>3. /\ releases' \in Seq(ReleaseRows) /\ Len(releases) \in Nat /\ Len(releases') = n
        /\ DOMAIN releases = 1 .. Len(releases) /\ DOMAIN releases' = 1 .. n
        /\ releases'[n] = row /\ \A i \in DOMAIN releases : releases'[i] = releases[i]
    BY <1>0, <1>1, <1>2 DEF ReleaseType
  <1>4. Cuts(r, NoCut)
    BY <1>0, <1>2, CutMoves, NoCutRecord
  <1>5. ReleaseType'
    BY <1>0, <1>2, <1>3, <1>4 DEF ReleaseType, Cuts
  <1>6. \A q \in Cutters : (CutFits(q) /\ TagHeld(q) /\ LogFits(q))'
    BY <1>0, <1>2, <1>3, <1>4, NoCutRecord DEF Cuts, CutFits, TagHeld, LogFits, CutAt
  <1>7. ReleaseMatchesTag'
    BY <1>0, <1>1, <1>2, <1>3 DEF ReleaseIInv, ReleaseMatchesTag, TagHeld
  <1>8. ChangelogsCover'
    <2> SUFFICES ASSUME NEW i \in 1 .. n, NEW c \in 1 .. releases'[i].target
                 PROVE  \/ \E j \in 1 .. i : c \in releases'[j].log
                        \/ \E j \in 1 .. i : /\ releases'[j].since < c
                                             /\ c + ChangelogMax <= releases'[j].target
      BY <1>3 DEF ChangelogsCover
    <2> DEFINE Covered(k) == \/ \E j \in 1 .. k : c \in releases[j].log
                             \/ \E j \in 1 .. k : /\ releases[j].since < c
                                                  /\ c + ChangelogMax <= releases[j].target
    <2>1. ASSUME NEW k \in DOMAIN releases, c \in 1 .. releases[k].target PROVE Covered(k)
      BY <2>1 DEF ReleaseIInv, ChangelogsCover
    <2>2. CASE i # n
      <3>1. i \in DOMAIN releases /\ releases'[i] = releases[i]
        BY <1>3, <2>2
      <3>2. Covered(i)
        BY <2>1, <3>1
      <3>3. \A j \in 1 .. i : releases'[j] = releases[j]
        BY <1>3, <3>1
      <3> QED
        BY <3>2, <3>3
    <2>3. CASE i = n /\ c > row.since
      <3>1. c \in 1 .. row.target /\ row.target \in Nat /\ row.since \in Nat
        BY <1>1, <1>3, <2>3 DEF ReleaseRows
      <3>2. row.log = {d \in 1 .. row.target : d > row.since /\ d + ChangelogMax > row.target}
        BY <1>0, <1>1 DEF LogFits, CutAt, CommitsSince
      <3>3. c \in row.log \/ (row.since < c /\ c + ChangelogMax <= row.target)
        BY <2>3, <3>1, <3>2, ReleaseAssumption
      <3>4. n \in 1 .. i /\ releases'[n] = row
        BY <1>3, <2>3
      <3> QED
        BY <3>3, <3>4
    <2>4. CASE i = n /\ ~(c > row.since)
      <3>1. c \in Nat \ {0} /\ row.since \in Nat /\ c <= row.since
        BY <1>1, <1>3, <2>4 DEF ReleaseRows
      <3>2. PICK k \in DOMAIN releases : row.since = releases[k].target
        BY <1>0, <1>1, <3>1 DEF LogFits, CutAt
      <3>3. Covered(k)
        BY <2>1, <3>1, <3>2
      <3>4. \A j \in 1 .. k : j \in 1 .. i /\ releases'[j] = releases[j]
        BY <1>3, <2>4, <3>2
      <3> QED
        BY <3>3, <3>4
    <2> QED
      BY <2>2, <2>3, <2>4
  <1>9. ASSUME NEW v \in Versions PROVE TagExplained(v)'
    BY <1>1, <1>2, <1>3, <1>4 DEF ReleaseIInv, TagExplained, Cuts, CutAt
  <1>10. Numbered'
    <2> SUFFICES ASSUME AllAuto'
                 PROVE  /\ \A i \in 1 .. n : releases'[i].version = i - 1
                        /\ \A q \in Cutters :
                              CutAt(q, {"log", "tag", "row"})' /\ cuts'[q].auto
                                 => cuts'[q].version <= n
      BY <1>3 DEF Numbered
    <2>1. row.auto /\ AllAuto
      BY <1>3 DEF AllAuto
    <2>2. /\ \A i \in DOMAIN releases : releases[i].version = i - 1
          /\ \A q \in Cutters : CutAt(q, {"log", "tag", "row"}) /\ cuts[q].auto
                                   => cuts[q].version <= Len(releases)
      BY <2>1 DEF ReleaseIInv, Numbered
    <2>3. row.version = Len(releases)
      <3>a. row.version \in Nat
        BY <1>0, <1>1 DEF Versions
      <3>b. CutAt(r, {"log", "tag", "row"}) /\ cuts[r].auto
        BY <1>0, <1>1, <2>1 DEF CutAt
      <3>1. row.version \in Nat /\ row.version <= Len(releases)
        BY <1>1, <2>2, <3>a, <3>b
      <3>2. ASSUME row.version < Len(releases) PROVE FALSE
        <4>1. row.version + 1 \in DOMAIN releases
          BY <1>3, <3>1, <3>2
        <4>2. releases[row.version + 1].version = row.version
          BY <2>2, <3>1, <4>1
        <4> QED
          BY <1>2, <4>1, <4>2
      <3> QED
        BY <1>3, <3>1, <3>2
    <2>4. \A q \in Cutters : q # r /\ CutAt(q, {"log", "tag", "row"}) => cuts[q].version \in Nat
      BY <1>0 DEF CutFits, CutAt, Versions
    <2>5. ASSUME NEW i \in 1 .. n PROVE releases'[i].version = i - 1
      BY <1>3, <2>2, <2>3
    <2>6. ASSUME NEW q \in Cutters, CutAt(q, {"log", "tag", "row"})', cuts'[q].auto
          PROVE  cuts'[q].version <= n
      BY <1>3, <1>4, <2>2, <2>4, <2>6, NoCutRecord DEF Cuts, CutAt
    <2> QED
      BY <2>5, <2>6
  <1> QED
    BY <1>5, <1>6, <1>7, <1>8, <1>9, <1>10 DEF ReleaseIInv

LEMMA ReleaseKept == ReleaseIInv /\ [ReleaseNext]_releaseVars => ReleaseIInv'
  <1> SUFFICES ASSUME ReleaseIInv, [ReleaseNext]_releaseVars
               PROVE  ReleaseIInv'
    OBVIOUS
  <1>0. ReleaseType /\ \A r \in Cutters : CutFits(r) /\ TagHeld(r) /\ LogFits(r)
    BY DEF ReleaseIInv
  <1>1. CASE LandCommit
    BY <1>1 DEF LandCommit, ReleaseIInv, ReleaseType, CutFits, TagHeld, LogFits, CutAt,
       ReleaseMatchesTag, ChangelogsCover, TagExplained, Numbered, AllAuto
  <1>2. ASSUME NEW r \in Cutters, NEW want \in Versions \cup {NoVersion}, ResolveProject(r, want)
        PROVE  ReleaseIInv'
    <2> DEFINE c == [NoCut EXCEPT !.pc = "version", !.tip = length,
                                  !.auto = (want = NoVersion), !.version = want]
    <2>0. want \in 0 .. MaxVersion + 1
      BY ReleaseAssumption DEF Versions, NoVersion
    <2>1. /\ c \in CutRecords /\ c.pc = "version" /\ c.tip = length
          /\ c.auto = (want = NoVersion) /\ c.version = want
      BY <1>0, <2>0 DEF NoCut, CutRecords, CutPlaces, ReleaseType
    <2>2. cuts' = [cuts EXCEPT ![r] = c]
      BY <1>2 DEF ResolveProject
    <2> HIDE DEF c
    <2>3. Cuts(r, c)
      BY <1>0, <2>1, <2>2, CutMoves
    <2>4. /\ cuts[r].pc = "idle" /\ length \in Nat \ {0} /\ asked' \in Nat
          /\ UNCHANGED <<length, tagged, releases, releaseFaults, orphaned, meddled>>
          /\ releaseFaults' \in Nat
      BY <1>0, <1>2 DEF ResolveProject, ReleaseType
    <2>5. want # NoVersion => want \in Versions
      OBVIOUS
    <2>6. CutFits(r)' /\ LogFits(r)' /\ ~CutAt(r, {"row"})
      BY <2>1, <2>3, <2>4, <2>5 DEF Cuts, CutFits, LogFits, CutAt
    <2> QED
      BY <2>1, <2>2, <2>4, <2>6, CutGoesOn
  <1>3. ASSUME NEW r \in Cutters, ChooseVersion(r) PROVE ReleaseIInv'
    <2> DEFINE v == IF cuts[r].auto THEN NextVersion ELSE cuts[r].version
               c == [cuts[r] EXCEPT !.pc = "log", !.version = v]
    <2>0. v \in Versions
      BY <1>0, <1>3 DEF ChooseVersion, CutFits, CutAt
    <2>b. v \in 0 .. MaxVersion + 1 /\ cuts[r] \in CutRecords
      BY <1>0, <2>0, Rows, ReleaseAssumption DEF Versions
    <2> HIDE DEF v
    <2>1. /\ c \in CutRecords /\ c.pc = "log" /\ c.version = v
          /\ c.auto = cuts[r].auto /\ c.tip = cuts[r].tip
      BY <2>b DEF CutRecords, CutPlaces
    <2>2. cuts' = [cuts EXCEPT ![r] = c]
      BY <1>3 DEF ChooseVersion, v
    <2> HIDE DEF c
    <2>3. Cuts(r, c)
      BY <1>0, <2>1, <2>2, CutMoves
    <2>4. CutFits(r)' /\ LogFits(r)' /\ ~CutAt(r, {"row"})
      BY <1>0, <1>3, <2>0, <2>1, <2>3 DEF ChooseVersion, Cuts, CutFits, LogFits, CutAt
    <2>5. AllAuto /\ c.auto => c.version <= Len(releases)
      <3> SUFFICES ASSUME AllAuto, cuts[r].auto PROVE NextVersion <= Len(releases)
        BY <2>1 DEF v
      <3>1. \A i \in DOMAIN releases : releases[i].version = i - 1
        BY DEF ReleaseIInv, Numbered
      <3> QED
        BY <1>0, <3>1, Rows DEF NextVersion, LatestRelease, ReleaseType
    <2> QED
      BY <1>0, <1>3, <2>1, <2>2, <2>4, <2>5, CutGoesOn DEF ChooseVersion, ReleaseType
  <1>4. ASSUME NEW r \in Cutters, DeriveChangelog(r) PROVE ReleaseIInv'
    <2>0. PICK base \in {Since, 0} :
             /\ cuts' = [cuts EXCEPT ![r].pc = "tag", ![r].since = base,
                                     ![r].log = CommitsSince(base, cuts[r].tip)]
             /\ IF base = Since THEN UNCHANGED releaseFaults ELSE ReleaseFault
      BY <1>4 DEF DeriveChangelog
    <2>a. base \in Nat /\ (base = 0 \/ \E k \in DOMAIN releases : base = releases[k].target)
      BY <1>0, Rows DEF Since, LatestRelease, ReleaseType, ReleaseRows
    <2> DEFINE log == CommitsSince(base, cuts[r].tip)
               c == [cuts[r] EXCEPT !.pc = "tag", !.since = base, !.log = log]
    <2>b. log \subseteq Nat
      BY DEF CommitsSince
    <2> HIDE DEF log
    <2>1. /\ c \in CutRecords /\ c.pc = "tag" /\ c.version = cuts[r].version
          /\ c.auto = cuts[r].auto /\ c.tip = cuts[r].tip /\ c.since = base /\ c.log = log
      BY <1>0, <2>a, <2>b, Rows DEF CutRecords, CutPlaces
    <2>2. cuts' = [cuts EXCEPT ![r] = c]
      BY <2>0 DEF log
    <2> HIDE DEF c
    <2>3. Cuts(r, c)
      BY <1>0, <2>1, <2>2, CutMoves
    <2>4. CutAt(r, {"log"}) /\ UNCHANGED releases
      BY <1>4 DEF DeriveChangelog, CutAt
    <2>5. CutFits(r)' /\ LogFits(r)' /\ ~CutAt(r, {"row"})
      BY <1>0, <2>a, <2>1, <2>3, <2>4 DEF Cuts, CutFits, LogFits, CutAt, log
    <2>6. AllAuto /\ c.auto => c.version <= Len(releases)
      BY <2>1, <2>4 DEF ReleaseIInv, Numbered, CutAt
    <2>7. /\ asked' \in Nat /\ releaseFaults' \in Nat
          /\ UNCHANGED <<length, tagged, releases, orphaned, meddled>>
      BY <1>0, <1>4, <2>0 DEF DeriveChangelog, ReleaseType, ReleaseFault
    <2> QED
      BY <2>1, <2>2, <2>5, <2>6, <2>7, CutGoesOn
  <1>5. ASSUME NEW r \in Cutters, CreateTag(r) \/ CreateRow(r) PROVE ReleaseIInv'
    BY <1>5, TagStepKept, RowKept
  <1>6. ASSUME NEW r \in Cutters, RowRefused(r) PROVE ReleaseIInv'
    <2>1. cuts[r].version \in Versions /\ releaseFaults' \in Nat
      BY <1>0, <1>6 DEF RowRefused, ReleaseFault, ReleaseType, CutFits, CutAt
    <2> QED
      BY <1>0, <1>6, <2>1, CutEnds DEF RowRefused, ReleaseType
  <1>7. ASSUME NEW v \in Versions, NEW c \in 0 .. length, PushTag(v, c) PROVE ReleaseIInv'
    <2>1. tagged' = [tagged EXCEPT ![v] = c] /\ meddled' = meddled \cup {v} /\ c \in Nat
      BY <1>0, <1>7 DEF PushTag, ReleaseType
    <2>2. ReleaseType'
      BY <1>0, <1>7, <2>1 DEF PushTag, ReleaseFault, ReleaseType
    <2>3. ReleaseMatchesTag'
      BY <1>0, <1>7, <2>1, Rows DEF PushTag, ReleaseIInv, ReleaseMatchesTag, ReleaseType, ReleaseRows
    <2>4. \A r \in Cutters : TagHeld(r)'
      BY <1>0, <1>7, <2>1 DEF PushTag, TagHeld, CutFits, CutAt, ReleaseType
    <2>5. \A w \in Versions : TagExplained(w)'
      BY <1>0, <1>7, <2>1 DEF PushTag, ReleaseIInv, TagExplained, CutAt, ReleaseType
    <2> QED
      BY <1>7, <2>2, <2>3, <2>4, <2>5
      DEF PushTag, ReleaseIInv, CutFits, LogFits, CutAt, ChangelogsCover, Numbered, AllAuto
  <1>8. CASE ReleaseRestart
    <2>0. /\ \A r \in Cutters : cuts'[r] = NoCut
          /\ cuts' \in [Cutters -> CutRecords]
          /\ \A r \in Cutters : CutAt(r, {"row"}) => cuts[r].version \in orphaned'
          /\ orphaned \subseteq orphaned' /\ orphaned' \subseteq Versions
      BY <1>0, <1>8, NoCutRecord DEF ReleaseRestart, CutAt, CutFits, ReleaseType
    <2>1. ReleaseType'
      BY <1>0, <1>8, <2>0 DEF ReleaseRestart, ReleaseFault, ReleaseType
    <2>2. \A r \in Cutters : (CutFits(r) /\ TagHeld(r) /\ LogFits(r))'
      BY <2>0, NoCutRecord DEF CutFits, TagHeld, LogFits, CutAt
    <2>3. \A v \in Versions : TagExplained(v)'
      BY <1>8, <2>0 DEF ReleaseRestart, ReleaseIInv, TagExplained, CutAt
    <2>4. Numbered'
      BY <1>8, <2>0, NoCutRecord DEF ReleaseRestart, ReleaseIInv, Numbered, AllAuto, CutAt
    <2> QED
      BY <1>8, <2>1, <2>2, <2>3, <2>4
      DEF ReleaseRestart, ReleaseIInv, ReleaseMatchesTag, ChangelogsCover
  <1>9. CASE UNCHANGED releaseVars
    BY <1>9 DEF releaseVars, ReleaseIInv, ReleaseType, CutFits, TagHeld, LogFits, CutAt,
       ReleaseMatchesTag, ChangelogsCover, TagExplained, Numbered, AllAuto
  <1> QED
    BY <1>1, <1>2, <1>3, <1>4, <1>5, <1>6, <1>7, <1>8, <1>9 DEF ReleaseNext

\* ReleasesSound: rows, tags and changelogs agree.
THEOREM ReleasesAreSound == ReleaseSpec => []ReleasesSound
  <1>1. ReleaseIInv => NextVersionFree
    <2> SUFFICES ASSUME ReleaseIInv, NextVersion \in Versions, tagged[NextVersion] # 0, AllAuto,
                        NextVersion \notin orphaned \cup meddled
                 PROVE  \E r \in Cutters : cuts[r].pc = "row" /\ cuts[r].version = NextVersion
      BY DEF NextVersionFree, AllAuto
    <2>1. \A i \in DOMAIN releases : releases[i].version = i - 1
      BY DEF ReleaseIInv, Numbered
    <2>2. NextVersion = Len(releases)
      BY <2>1, Rows DEF NextVersion, LatestRelease, ReleaseIInv, ReleaseType
    <2>3. \A i \in DOMAIN releases : releases[i].version # NextVersion
      BY <2>1, <2>2, Rows DEF ReleaseIInv
    <2> QED
      BY <2>3 DEF ReleaseIInv, TagExplained, CutAt
  <1>2. ReleaseIInv => ReleasesSound
    BY <1>1 DEF ReleaseIInv, ReleasesSound
  <1> QED
    BY <1>2, ReleaseInitially, ReleaseKept, PTL DEF ReleaseSpec

----------------------------------------------------------------------------
(* The checkouts of a workspace and gc.                                     *)

\* The records that a step updates have their fields.
Shaped ==
    /\ DOMAIN checkout = Sites /\ checkout = [s \in Sites |-> checkout[s]]
    /\ gc = [pc |-> gc.pc, idle |-> gc.idle, line |-> gc.line]

\* The checkout holds nothing, or nothing the snapshot does not hold.
OnServer ==
    LET c == checkout[Here] IN
    \/ c.tree = {} /\ c.line = << >>
    \/ snapRef # NoRef /\ c.tree = TreeOf(snapRef) /\ IsPrefix(c.line, snapRef)

\* What gc has made sure of, as long as nothing moved since it looked.
Verified ==
    since = {} =>
        /\ gc.pc = "tree" => snapRef = gc.line /\ gc.line # NoRef
        /\ gc.pc = "head" => /\ snapRef = gc.line /\ gc.line # NoRef
                             /\ checkout[Here].tree = TreeOf(gc.line)
        /\ gc.pc = "reclaim" => OnServer

\* A checkout that is gone is never swept again.
Gone == wasted => since # {} /\ ~checkout[Here].there

WorktreeIInv == Shaped /\ Verified /\ Gone

LEMMA SitesDiffer == Here \in Sites /\ There \in Sites /\ Here # There
  BY DEF Here, There, Sites

LEMMA Touched ==
    ASSUME Shaped, NEW s \in Sites, NEW new, Touch(s, new)
    PROVE  /\ DOMAIN checkout' = Sites /\ checkout' = [t \in Sites |-> checkout'[t]]
           /\ checkout'[s] = new /\ \A t \in Sites : t # s => checkout'[t] = checkout[t]
           /\ since \subseteq since'
           /\ s = Here /\ gc.pc \in TreeSeen => since' # {}
  BY DEF Touch, Shaped, Noted

LEMMA GCMoved ==
    ASSUME Shaped, NEW pc, GCTo(pc)
    PROVE  gc' = [pc |-> pc, idle |-> gc.idle, line |-> gc.line]
  BY DEF Shaped, GCTo

\* What moves under gc after its look is noted.
LEMMA NotedSteps ==
    ASSUME Verified, NEW kind, Noted(kind, RefSeen), UNCHANGED <<checkout, gc>>
    PROVE  Verified' /\ since \subseteq since'
  BY DEF Noted, RefSeen, TreeSeen, Verified, OnServer

LEMMA WorktreeInitially == WorktreeInit => WorktreeIInv
  BY DEF WorktreeInit, WorktreeIInv, Shaped, Gone, GCIdle, Verified

\* A step of somebody at work: the checkout here is only touched where it is,
\* and gc's findings are noted as stale.
LEMMA WorkKept ==
    ASSUME WorktreeIInv, NEW s \in Sites, NEW new, Touch(s, new),
           s = Here => checkout[Here].there,
           UNCHANGED <<snapRef, gc, wasted>>
    PROVE  WorktreeIInv'
  <1>1. Shaped'
    BY Touched DEF WorktreeIInv, Shaped
  <1>2. CASE s = Here
    <2>1. ~wasted /\ ~wasted'
      BY <1>2 DEF WorktreeIInv, Gone
    <2>2. since' = {} => gc'.pc \notin TreeSeen /\ since = {}
      BY <1>2, Touched DEF WorktreeIInv
    <2> QED
      BY <1>1, <2>1, <2>2 DEF WorktreeIInv, Verified, Gone, TreeSeen
  <1>3. CASE s # Here
    <2>1. checkout'[Here] = checkout[Here] /\ since' = since
      BY <1>3, Touched, SitesDiffer DEF WorktreeIInv, Touch
    <2> QED
      BY <1>1, <2>1 DEF WorktreeIInv, Verified, OnServer, Gone
  <1> QED
    BY <1>2, <1>3

LEMMA WorktreeKept == WorktreeIInv /\ [WorktreeNext]_worktreeVars => WorktreeIInv'
  <1> SUFFICES ASSUME WorktreeIInv, [WorktreeNext]_worktreeVars
               PROVE  WorktreeIInv'
    OBVIOUS
  <1>1. ASSUME NEW s \in Sites, NEW e \in Edits, Edit(s, e) PROVE WorktreeIInv'
    BY <1>1, WorkKept DEF Edit
  <1>2. ASSUME NEW s \in Sites, Commit(s) PROVE WorktreeIInv'
    BY <1>2, WorkKept DEF Commit
  <1>3. ASSUME NEW s \in Sites, SnapshotPush(s) PROVE WorktreeIInv'
    BY <1>3, NotedSteps DEF SnapshotPush, WorktreeIInv, Shaped, Gone
  <1>4. CASE Attach
    BY <1>4, WorkKept, SitesDiffer DEF Attach
  <1>5. CASE CloseWorkspace
    BY <1>5 DEF CloseWorkspace, WorktreeIInv, Shaped, Verified, Gone, OnServer
  <1>5a. CASE DeleteWorkspace
    BY <1>5a, NotedSteps DEF DeleteWorkspace, WorktreeIInv, Shaped, Gone
  <1>6. ASSUME NEW idle \in BOOLEAN, GCBegin(idle) PROVE WorktreeIInv'
    <2>1. gc' = [pc |-> "list", idle |-> idle, line |-> NoRef] /\ ~wasted'
      BY <1>6 DEF GCBegin, GCIdle, WorktreeIInv, Gone
    <2> QED
      BY <1>6, <2>1 DEF GCBegin, WorktreeIInv, Shaped, Verified, Gone
  <1>7. ASSUME UNCHANGED checkout, UNCHANGED snapRef, UNCHANGED <<since, wasted>>,
               NEW pc, NEW line, gc' = [pc |-> pc, idle |-> gc.idle, line |-> line],
               Verified'
        PROVE  WorktreeIInv'
    BY <1>7 DEF WorktreeIInv, Shaped, Gone
  <1>8. ASSUME UNCHANGED checkout, UNCHANGED snapRef, UNCHANGED <<since, wasted>>,
               gc' = GCIdle
        PROVE  WorktreeIInv'
    BY <1>8 DEF WorktreeIInv, Shaped, Gone, Verified, GCIdle
  <1>9. CASE GCList \/ GCProbe
    <2>1. CASE gc' = GCIdle
      BY <1>8, <1>9, <2>1 DEF GCList, GCProbe, GCUnchanged
    <2>2. CASE GCList /\ gc' # GCIdle
      BY <1>7, <2>2, GCMoved DEF GCList, GCUnchanged, WorktreeIInv, Verified
    <2>3. CASE GCProbe /\ gc' # GCIdle
      <3>1. gc' = [pc |-> IF snapRef = NoRef THEN "pristine" ELSE "tree",
                   idle |-> gc.idle, line |-> snapRef]
        BY <2>3 DEF GCProbe, WorktreeIInv, Shaped
      <3> QED
        BY <1>7, <2>3, <3>1 DEF GCProbe, GCUnchanged, WorktreeIInv, Verified
    <2> QED
      BY <1>9, <2>1, <2>2, <2>3
  <1>10. CASE GCPristine
    <2>1. CASE gc' = GCIdle
      BY <1>8, <1>10, <2>1 DEF GCPristine, GCUnchanged
    <2>2. CASE gc' # GCIdle
      BY <1>7, <1>10, <2>2, GCMoved DEF GCPristine, GCUnchanged, WorktreeIInv, Verified, OnServer
    <2> QED
      BY <2>1, <2>2
  <1>11. CASE GCTree
    <2>1. CASE gc' = GCIdle
      BY <1>8, <1>11, <2>1 DEF GCTree, GCUnchanged
    <2>2. CASE gc' # GCIdle
      BY <1>7, <1>11, <2>2, GCMoved DEF GCTree, TreeSynced, GCUnchanged, WorktreeIInv, Verified
    <2> QED
      BY <2>1, <2>2
  <1>12. CASE GCHead
    <2>1. CASE gc' = GCIdle
      BY <1>8, <1>12, <2>1 DEF GCHead, GCUnchanged
    <2>2. CASE gc' # GCIdle
      BY <1>7, <1>12, <2>2, GCMoved DEF GCHead, GCUnchanged, WorktreeIInv, Verified, OnServer
    <2> QED
      BY <2>1, <2>2
  <1>13. CASE GCReclaim
    <2>1. since = {} => Copied
      BY <1>13 DEF GCReclaim, WorktreeIInv, Verified, OnServer, Copied
    <2>2. ~checkout'[Here].there /\ Shaped'
      BY <1>13, SitesDiffer DEF GCReclaim, WorktreeIInv, Shaped, GCIdle
    <2> QED
      BY <1>13, <2>1, <2>2 DEF GCReclaim, GCIdle, WorktreeIInv, Verified, Gone
  <1>14. CASE UNCHANGED worktreeVars
    BY <1>14 DEF worktreeVars, WorktreeIInv, Shaped, Verified, Gone, OnServer
  <1> QED
    BY <1>1, <1>2, <1>3, <1>4, <1>5, <1>5a, <1>6, <1>9, <1>10, <1>11, <1>12, <1>13, <1>14
    DEF WorktreeNext

\* NothingWasted: gc never deletes work it could not prove to be on the server, as long
\* as nothing changed between its judgement and the removal (evaluateMaterialization).
THEOREM NothingIsWasted == WorktreeSpec => []NothingWasted
  <1>1. WorktreeIInv => NothingWasted
    BY DEF WorktreeIInv, Gone, NothingWasted
  <1> QED
    BY <1>1, WorktreeInitially, WorktreeKept, PTL DEF WorktreeSpec
===============================================================================
