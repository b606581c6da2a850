---------------------------- MODULE StackProofs ----------------------------
(***************************************************************************)
(* A Change never lands unforced before the Change it is stacked on.       *)
(*                                                                         *)
(* The order of trunk is decided long before a land: by the base a push    *)
(* computed along a line of commits, or a sync gave to what it rebased, by *)
(* the rows a land-stack or a sweep listed and the gate it passed several  *)
(* steps before it attempts.  So the inductive invariant says what git,    *)
(* the rows and every request in flight hold: commits only grow and point  *)
(* back, a head is a pending commit of its Change (GitFits, RowsFit), each *)
(* member of a list still names a commit of its Change, and one that has   *)
(* passed the gate has the Change of its base on trunk (FlightFits).       *)
(*                                                                         *)
(* A stack written in a checkout keeps its pushed identities and its work, *)
(* and pushes no conflict its author was not told of (Authoring): there    *)
(* the invariant says what the commands between two steps have staged, and *)
(* what a sync has noted down to return to.                                *)
(*                                                                         *)
(* Line, Foot, SeriesOf, Ancestry, Rebased, Below are recursive functions: *)
(* first lemmas give them values, by well-founded induction over sets of   *)
(* numbers, which needs no operator parameter.                             *)
(***************************************************************************)
EXTENDS StackLanding, Authoring, SequenceTheorems, FiniteSetTheorems, WellFoundedInduction, TLAPS

LEMMA NatSetInduction ==
  ASSUME NEW S, 0 \in S, \A n \in Nat : n \in S => n + 1 \in S
  PROVE  Nat \subseteq S
  <1> DEFINE I(n) == 1 .. n
             T == {I(n) : n \in Nat \ S}
             R == StrictSubsetOrdering(Nat)
  <1>1. IsWellFoundedOn(R, FiniteSubsetsOf(Nat))
    BY FS_StrictSubsetOrderingWellFounded
  <1>2. T \subseteq FiniteSubsetsOf(Nat)
    <2>1. ASSUME NEW n \in Nat PROVE I(n) \in FiniteSubsetsOf(Nat)
      BY FS_Interval DEF FiniteSubsetsOf
    <2> QED
      BY <2>1
  <1>3. SUFFICES ASSUME T # {} PROVE FALSE
    OBVIOUS
  <1>4. PICK x \in T : \A y \in T : <<y, x>> \notin R
    <2> HIDE DEF T, R
    <2> QED
      BY <1>1, <1>2, <1>3, WFMin
  <1>5. PICK n \in Nat \ S : x = I(n)
    OBVIOUS
  <1>6. n # 0 /\ n - 1 \in Nat \ S
    OBVIOUS
  <1>7. I(n - 1) \in T
    BY <1>6
  <1>8. I(n - 1) \subseteq I(n) /\ I(n - 1) # I(n)
    BY <1>6
  <1>9. <<I(n - 1), I(n)>> \in R
    BY <1>2, <1>4, <1>5, <1>7, <1>8 DEF StrictSubsetOrdering
  <1> QED
    BY <1>4, <1>5, <1>7, <1>9

LEMMA StrongInduction ==
  ASSUME NEW n \in Nat, NEW S,
         \A k \in 0 .. n : (\A j \in 0 .. n : j < k => j \in S) => k \in S
  PROVE  0 .. n \subseteq S
  <1> DEFINE P == {m \in Nat : \A j \in 0 .. n : j < m => j \in S}
  <1>1. 0 \in P
    OBVIOUS
  <1>2. ASSUME NEW m \in Nat, m \in P PROVE m + 1 \in P
    <2>1. ASSUME NEW j \in 0 .. n, j < m + 1 PROVE j \in S
      <3>1. CASE j < m
        BY <1>2, <3>1
      <3>2. CASE j = m
        BY <1>2, <3>2
      <3> QED
        BY <2>1, <3>1, <3>2
    <2> QED
      BY <2>1
  <1>3. Nat \subseteq P
    <2> HIDE DEF P
    <2> QED
      BY <1>1, <1>2, NatSetInduction
  <1>4. n + 1 \in P
    BY <1>3
  <1> QED
    BY <1>4

LEMMA Least ==
  ASSUME NEW T \in SUBSET Nat, T # {}
  PROVE  \E k \in T : \A j \in T : k <= j
  <1> SUFFICES ASSUME \A k \in T : \E j \in T : j < k PROVE FALSE
    OBVIOUS
  <1>1. PICK n \in T : TRUE
    OBVIOUS
  <1> DEFINE S == Nat \ T
  <1>2. \A k \in 0 .. n : (\A j \in 0 .. n : j < k => j \in S) => k \in S
    OBVIOUS
  <1>3. 0 .. n \subseteq S
    <2> HIDE DEF S
    <2> QED
      BY <1>1, <1>2, StrongInduction
  <1> QED
    BY <1>1, <1>3

\* What a function is at k > 0 is made by G from what it is at the smaller p[k].
Recursive(n, V, a, p, G) ==
    /\ n \in Nat /\ a \in V
    /\ \A k \in 1 .. n : p[k] \in 0 .. k - 1
    /\ \A k \in 1 .. n, v \in V : G[k][v] \in V

\* A function that is so defined exists.
LEMMA Recursion ==
  ASSUME NEW n, NEW V, NEW a, NEW p, NEW G, Recursive(n, V, a, p, G)
  PROVE  \E f \in [0 .. n -> V] :
            /\ f[0] = a
            /\ \A k \in 1 .. n : f[k] = G[k][f[p[k]]]
  <1> DEFINE Fits(m, f) == /\ f \in [0 .. m -> V] /\ f[0] = a
                           /\ \A k \in 1 .. m : f[k] = G[k][f[p[k]]]
             S == {m \in Nat : m <= n => \E f : Fits(m, f)}
  <1>0. /\ n \in Nat /\ a \in V
        /\ \A k \in 1 .. n : p[k] \in 0 .. k - 1
        /\ \A k \in 1 .. n, v \in V : G[k][v] \in V
    BY DEF Recursive
  <1>1. 0 \in S
    <2>1. Fits(0, [k \in 0 .. 0 |-> a])
      BY <1>0
    <2> HIDE DEF Fits
    <2> QED
      BY <2>1
  <1>2. ASSUME NEW m \in Nat, m \in S PROVE m + 1 \in S
    <2> SUFFICES ASSUME m + 1 <= n PROVE \E f : Fits(m + 1, f)
      <3> HIDE DEF Fits
      <3> QED
        OBVIOUS
    <2>1. PICK f : Fits(m, f)
      <3> HIDE DEF Fits
      <3> QED
        BY <1>0, <1>2
    <2> DEFINE w == G[m + 1][f[p[m + 1]]]
               g == [k \in 0 .. m + 1 |-> IF k = m + 1 THEN w ELSE f[k]]
    <2>2. p[m + 1] \in 0 .. m
      BY <1>0
    <2>3. w \in V
      BY <1>0, <2>1, <2>2
    <2>4. g \in [0 .. m + 1 -> V] /\ g[0] = a
      BY <2>1, <2>3
    <2>5. ASSUME NEW k \in 1 .. m + 1 PROVE g[k] = G[k][g[p[k]]]
      <3>1. p[k] \in 0 .. k - 1 /\ p[k] \in 0 .. m
        BY <1>0, <2>2
      <3>2. g[p[k]] = f[p[k]]
        BY <3>1
      <3>3. g[k] = G[k][f[p[k]]]
        BY <2>1
      <3> QED
        BY <3>2, <3>3
    <2>6. Fits(m + 1, g)
      <3> HIDE DEF g
      <3> QED
        BY <2>4, <2>5
    <2> HIDE DEF Fits, g
    <2> QED
      BY <2>6
  <1>3. Nat \subseteq S
    <2> HIDE DEF S
    <2> QED
      BY <1>1, <1>2, NatSetInduction
  <1>4. n \in S /\ n <= n
    BY <1>0, <1>3
  <1>5. PICK f : Fits(n, f)
    <2> HIDE DEF Fits
    <2> QED
      BY <1>4
  <1> QED
    BY <1>5

----------------------------------------------------------------------------
Commit == [change : Changes \cup {NoChange}, parent : Nat, delta : Nat]
Landed == [sha : Nat, head : Nat, base : Nat, forced : BOOLEAN]
Rows == [state : {"none", "open", "abandoned", "landed"}, head : Nat, base : Nat,
         landed : Nat, armed : BOOLEAN]
Members == [change : Changes, head : Nat, base : Nat, old : Nat]
Requests == [pc : {"idle", "next", "gate", "attempt", "record", "write"},
             kind : {"none", "land", "stack", "sweep", "push", "sync"},
             todo : Seq(Members), force : BOOLEAN, tip : Nat]

Commits == 1 .. Len(commits)
Pending == {k \in Commits : ~OnTrunk(k)}

\* git: a commit's parent is older; what is off trunk is a Change's.
GitFits ==
    /\ commits \in Seq(Commit)
    /\ \A k \in Commits : commits[k].parent < k
    /\ \A k \in Pending : ChangeOf(k) \in Changes /\ commits[k].parent \in Commits
    /\ trunk \in Seq(Landed) /\ trunk # << >>
    /\ \A i \in 1 .. Len(trunk) : /\ trunk[i].sha \in Commits
                                  /\ trunk[i].head # 0 => trunk[i].base \in Commits

\* A head is a pending commit of the Change.
HeadOf(n, c) == n \in Pending /\ ChangeOf(n) = c
\* A commit of the Change is on trunk.
LandedAs(n, c) == n \in Commits /\ OnTrunk(n) /\ ChangeOf(n) = c

RowFits(c, r) ==
    /\ r.head # 0 => HeadOf(r.head, c) /\ r.base \in Commits
    /\ r.state = "open" => r.head # 0
    /\ r.state = "landed" => LandedAs(r.landed, c)

RowsFit == /\ row \in [Changes -> Rows]
           /\ \A c \in Changes : \A r \in {row[c]} : RowFits(c, r)

\* The Change of a commit is on trunk, in some version.
OnTrunkAs(b) == \E j \in 1 .. Len(trunk) : ChangeOf(trunk[j].sha) = ChangeOf(b)
BaseLanded(b) == OnTrunk(b) \/ OnTrunkAs(b)

Writing == {"push", "sync"}
Landing == {"land", "stack", "sweep"}

\* What a request of that kind holds of one Change.
MemberFits(kind, m) ==
    /\ kind \in Writing => HeadOf(m.head, m.change)
    /\ kind \in Landing => m.head \in Commits /\ ChangeOf(m.head) = m.change
    /\ kind # "push" => m.base \in Commits

\* What a request holds, by where it is.
RequestFits(r) ==
    /\ r.pc # "idle" => r.kind \in Writing \cup Landing
    /\ r.pc \in {"gate", "attempt", "record"} => r.kind \in Landing
    /\ r.pc = "write" => r.kind \in Writing
    /\ r.pc = "next" => r.kind # "sync"
    /\ (r.pc \in {"gate", "attempt", "record", "write"} \/ (r.pc = "next" /\ r.kind = "push"))
          => r.todo # << >>
    /\ r.pc # "idle" => \A i \in 1 .. Len(r.todo) : MemberFits(r.kind, r.todo[i])
    /\ r.pc = "attempt" /\ ~r.force => BaseLanded(r.todo[1].base)
    /\ r.pc = "record" => LandedAs(r.todo[1].old, r.todo[1].change)

FlightFits == /\ hs \in [Actors -> Requests]
              /\ \A h \in Actors : \A r \in {hs[h]} : RequestFits(r)

StackIInv == GitFits /\ RowsFit /\ FlightFits /\ ParentsLandFirst

----------------------------------------------------------------------------
(* What the recursive functions return.                                    *)

LEMMA Older ==
  ASSUME GitFits
  PROVE  /\ Len(commits) \in Nat /\ Shas = 0 .. Len(commits)
         /\ \A k \in Commits : commits[k].parent \in 0 .. k - 1
         /\ \A k \in Pending : commits[k].parent \in Commits /\ ChangeOf(k) \in Changes
         /\ DOMAIN commits = Commits
  <1>1. \A k \in Commits : commits[k] \in Commit
    BY DEF GitFits, Commits
  <1>2. \A k \in Commits : commits[k].parent \in Nat
    BY <1>1 DEF Commit
  <1>3. Len(commits) \in Nat /\ DOMAIN commits = Commits
    BY DEF GitFits, Commits
  <1>4. \A k \in Commits : commits[k].parent \in 0 .. k - 1
    BY <1>2 DEF GitFits, Commits
  <1> QED
    BY <1>3, <1>4 DEF GitFits, Shas

LEMMA FootIs ==
  ASSUME GitFits, NEW n \in Commits
  PROVE  Foot(n) \in Commits
  <1> DEFINE D(f) == [k \in Shas |-> IF k = 0 \/ OnTrunk(k) THEN k
                                     ELSE f[commits[k].parent]]
             F == CHOOSE f : f = D(f)
             p == [k \in Commits |-> commits[k].parent]
             G == [k \in Commits |-> [v \in Shas |-> IF OnTrunk(k) THEN k ELSE v]]
  <1>1. \E f : f = D(f)
    <2>1. \A k \in 1 .. Len(commits) : p[k] \in 0 .. k - 1
      BY Older DEF Commits
    <2>2. \A k \in 1 .. Len(commits), v \in Shas : G[k][v] \in Shas
      BY Older DEF Commits
    <2>3. 0 \in Shas
      BY Older
    <2>a. Recursive(Len(commits), Shas, 0, p, G)
      <3> HIDE DEF p, G
      <3> QED
        BY <2>1, <2>2, <2>3, Older DEF Recursive
    <2>4. PICK f \in [0 .. Len(commits) -> Shas] :
             f[0] = 0 /\ \A k \in 1 .. Len(commits) : f[k] = G[k][f[p[k]]]
      <3> HIDE DEF p, G
      <3> QED
        BY <2>a, Recursion
    <2>5. ASSUME NEW k \in Shas PROVE f[k] = D(f)[k]
      <3>1. CASE k = 0
        BY <2>4, <3>1
      <3>2. CASE k # 0
        <4>1. k \in Commits /\ commits[k].parent \in Shas
          BY <3>2, Older DEF Commits
        <4>2. f[commits[k].parent] \in Shas
          BY <2>4, <4>1, Older
        <4> QED
          BY <2>4, <3>2, <4>1, <4>2 DEF Commits
      <3> QED
        BY <3>1, <3>2
    <2> QED
      BY <2>4, <2>5, Older
  <1>2. F = D(F)
    BY <1>1
  <1>3. Foot(n) = F[n]
    BY DEF Foot
  <1> DEFINE S == {k \in Shas : k \in Commits => F[k] \in Commits}
  <1>4. ASSUME NEW k \in 0 .. Len(commits),
               \A j \in 0 .. Len(commits) : j < k => j \in S
        PROVE  k \in S
    <2> SUFFICES ASSUME k \in Commits PROVE F[k] \in Commits
      BY Older
    <2>1. k \in Shas /\ k # 0
      BY Older DEF Commits
    <2> HIDE DEF F
    <2>2. CASE OnTrunk(k)
      BY <1>2, <2>1, <2>2
    <2>3. CASE ~OnTrunk(k)
      <3>1. commits[k].parent \in Commits /\ commits[k].parent < k
        BY <2>3, Older DEF Pending, Commits
      <3>2. F[k] = F[commits[k].parent]
        BY <1>2, <2>1, <2>3
      <3> QED
        BY <1>4, <3>1, <3>2 DEF Commits
    <2> QED
      BY <2>2, <2>3
  <1>5. 0 .. Len(commits) \subseteq S
    <2> HIDE DEF S
    <2> QED
      BY <1>4, StrongInduction, Older
  <1> HIDE DEF F
  <1> QED
    BY <1>3, <1>5, Older DEF Commits

LEMMA LineIs ==
  ASSUME GitFits
  PROVE  \A n \in Shas :
            /\ Line(n) \in Seq(Pending)
            /\ \A i \in 1 .. Len(Line(n)) : Line(n)[i] <= n
            /\ n \in Pending => Len(Line(n)) # 0 /\ Line(n)[1] = n
  <1> DEFINE V == Seq(Pending)
             D(f) == [k \in Shas |-> IF k = 0 \/ OnTrunk(k) THEN << >>
                                     ELSE <<k>> \o f[commits[k].parent]]
             F == CHOOSE f : f = D(f)
             p == [k \in Commits |-> commits[k].parent]
             G == [k \in Commits |-> [v \in V |-> IF OnTrunk(k) THEN << >> ELSE <<k>> \o v]]
  <1>0. \A k \in Commits : ~OnTrunk(k) => k \in Pending
    BY DEF Pending
  <1>1. \E f : f = D(f)
    <2>1. \A k \in 1 .. Len(commits) : p[k] \in 0 .. k - 1
      BY Older DEF Commits
    <2>2. \A k \in 1 .. Len(commits), v \in V : G[k][v] \in V
      <3> SUFFICES ASSUME NEW k \in Commits, NEW v \in V PROVE G[k][v] \in V
        BY DEF Commits
      <3>1. CASE OnTrunk(k)
        BY <3>1
      <3>2. CASE ~OnTrunk(k)
        <4>1. <<k>> \in Seq(Pending)
          BY <1>0, <3>2
        <4>2. <<k>> \o v \in Seq(Pending)
          BY <4>1
        <4> QED
          BY <3>2, <4>2
      <3> QED
        BY <3>1, <3>2
    <2>3. << >> \in V
      OBVIOUS
    <2>a. Recursive(Len(commits), V, << >>, p, G)
      <3> HIDE DEF p, G, V
      <3> QED
        BY <2>1, <2>2, <2>3, Older DEF Recursive
    <2>4. PICK f \in [0 .. Len(commits) -> V] :
             f[0] = << >> /\ \A k \in 1 .. Len(commits) : f[k] = G[k][f[p[k]]]
      <3> HIDE DEF p, G, V
      <3> QED
        BY <2>a, Recursion
    <2>5. ASSUME NEW k \in Shas PROVE f[k] = D(f)[k]
      <3>1. CASE k = 0
        BY <2>4, <3>1
      <3>2. CASE k # 0
        <4>1. k \in Commits /\ commits[k].parent \in Shas
          BY <3>2, Older DEF Commits
        <4>2. f[commits[k].parent] \in V
          BY <2>4, <4>1, Older
        <4> HIDE DEF V
        <4> QED
          BY <2>4, <3>2, <4>1, <4>2 DEF Commits
      <3> QED
        BY <3>1, <3>2
    <2>6. f = [k \in Shas |-> f[k]]
      BY <2>4, Older
    <2>7. f = D(f)
      <3> HIDE DEF V
      <3> QED
        BY <2>5, <2>6
    <2> QED
      BY <2>7
  <1>2. F = D(F)
    BY <1>1
  <1>3. \A n \in Shas : Line(n) = F[n]
    BY DEF Line
  <1> DEFINE Fits(k) == /\ F[k] \in Seq(Pending)
                        /\ \A i \in 1 .. Len(F[k]) : F[k][i] <= k
                        /\ k \in Pending => Len(F[k]) # 0 /\ F[k][1] = k
             S == {k \in Shas : Fits(k)}
  <1>4. ASSUME NEW k \in 0 .. Len(commits),
               \A j \in 0 .. Len(commits) : j < k => j \in S
        PROVE  k \in S
    <2> HIDE DEF F
    <2>1. k \in Shas
      BY Older
    <2>2. CASE k = 0 \/ OnTrunk(k)
      <3>1. F[k] = << >> /\ k \notin Pending
        BY <1>2, <2>1, <2>2 DEF Pending, Commits
      <3>2. << >> \in Seq(Pending) /\ \A i \in 1 .. Len(<< >>) : << >>[i] <= k
        OBVIOUS
      <3>3. Fits(k)
        BY <3>1, <3>2
      <3> HIDE DEF Fits
      <3> QED
        BY <2>1, <3>3
    <2>3. CASE ~(k = 0 \/ OnTrunk(k))
      <3>1. k \in Pending
        BY <2>1, <2>3 DEF Pending, Commits
      <3> DEFINE q == commits[k].parent
      <3>2. q \in Commits /\ q < k /\ k \in Nat /\ q \in Nat
        BY <3>1, Older DEF Pending, Commits
      <3>3. Fits(q)
        BY <1>4, <3>2 DEF Commits
      <3>4. F[k] = <<k>> \o F[q]
        BY <1>2, <2>1, <2>3
      <3> DEFINE s == F[q]
      <3>5. s \in Seq(Pending) /\ \A i \in 1 .. Len(s) : s[i] <= q
        BY <3>3
      <3>a. Pending \subseteq Nat
        BY DEF Pending, Commits
      <3> HIDE DEF s, q
      <3>6. <<k>> \o s \in Seq(Pending) /\ Len(<<k>> \o s) = Len(s) + 1
        BY <3>1, <3>5
      <3>7. (<<k>> \o s)[1] = k /\ \A i \in 2 .. Len(s) + 1 : (<<k>> \o s)[i] = s[i - 1]
        BY <3>1, <3>5
      <3>8. ASSUME NEW i \in 1 .. Len(s) + 1 PROVE (<<k>> \o s)[i] <= k
        <4>1. CASE i = 1
          BY <3>2, <3>7, <4>1
        <4>2. CASE i # 1
          <5>1. i - 1 \in 1 .. Len(s) /\ (<<k>> \o s)[i] = s[i - 1]
            BY <3>5, <3>7, <4>2
          <5>2. s[i - 1] \in Pending /\ s[i - 1] <= q
            BY <3>5, <5>1
          <5> QED
            <6>1. s[i - 1] \in Nat /\ q \in Nat
              BY <3>2, <3>a, <5>2
            <6> QED
              BY <3>2, <5>1, <5>2, <6>1
        <4> QED
          BY <4>1, <4>2
      <3>9. F[k] = <<k>> \o s
        BY <3>4 DEF s, q
      <3> DEFINE t == <<k>> \o s
      <3>b. /\ t \in Seq(Pending) /\ Len(t) # 0 /\ t[1] = k
            /\ \A i \in 1 .. Len(t) : t[i] <= k
        BY <3>5, <3>6, <3>7, <3>8
      <3>c. F[k] = t
        BY <3>9
      <3> HIDE DEF t
      <3>d. Fits(k)
        BY <3>b, <3>c
      <3> HIDE DEF Fits
      <3> QED
        BY <2>1, <3>d
    <2> QED
      BY <2>2, <2>3
  <1>5. 0 .. Len(commits) \subseteq S
    <2> HIDE DEF S
    <2> QED
      BY <1>4, StrongInduction, Older
  <1> HIDE DEF F
  <1> QED
    BY <1>3, <1>5, Older

LEMMA BaseIs ==
  ASSUME GitFits, NEW n \in Pending
  PROVE  BaseOf(n) \in Commits
  <1> DEFINE below == Line(commits[n].parent)
             others == {i \in 1 .. Len(below) : ChangeOf(below[i]) # ChangeOf(n)}
  <1>1. n \in Commits /\ commits[n].parent \in Commits /\ commits[n].parent \in Shas
    BY Older DEF Pending, Commits
  <1>2. below \in Seq(Pending)
    BY <1>1, LineIs
  <1>3. CASE others = {}
    BY <1>1, <1>3, FootIs DEF BaseOf
  <1>4. CASE others # {}
    <2> DEFINE Lowest(i) == \A j \in others : i <= j
               least == CHOOSE i \in others : Lowest(i)
    <2>1. others \in SUBSET Nat
      BY <1>2
    <2>2. \E i \in others : Lowest(i)
      <3> HIDE DEF others
      <3> QED
        BY <1>4, <2>1, Least
    <2>3. least \in others
      <3> HIDE DEF others, Lowest
      <3> QED
        BY <2>2
    <2>4. below[least] \in Pending
      BY <1>2, <2>3
    <2>5. BaseOf(n) = below[least]
      BY <1>4 DEF BaseOf
    <2> QED
      BY <2>4, <2>5 DEF Pending
  <1> QED
    BY <1>3, <1>4

LEMMA SeriesIs ==
  ASSUME GitFits, NEW n \in Pending
  PROVE  SeriesOf(n) \in Seq(Pending) /\ Len(SeriesOf(n)) # 0
  <1> DEFINE line == {Line(n)[i] : i \in 1 .. Len(Line(n))}
             members == {k \in line :
                 /\ k = n \/ row[ChangeOf(k)].state # "landed"
                 /\ \A j \in line : ChangeOf(j) = ChangeOf(k) => j <= k}
             V == Seq(Pending)
             D(f) == [k \in Shas |-> IF k = 0 THEN << >>
                                     ELSE f[k - 1] \o (IF k \in members THEN <<k>> ELSE << >>)]
             F == CHOOSE f : f = D(f)
             p == [k \in Commits |-> k - 1]
             G == [k \in Commits |->
                     [v \in V |-> v \o (IF k \in members THEN <<k>> ELSE << >>)]]
  <1>0. /\ n \in Commits /\ n \in Shas /\ n \in Nat /\ n # 0
        /\ Line(n) \in Seq(Pending) /\ \A i \in 1 .. Len(Line(n)) : Line(n)[i] <= n
        /\ Len(Line(n)) # 0 /\ Line(n)[1] = n
    <2> HIDE DEF line, members, V, D, F, p, G
    <2>1. n \in Commits /\ n \in Nat /\ n # 0
      BY DEF Pending, Commits
    <2>2. n \in Shas
      BY <2>1, Older DEF Commits
    <2> QED
      BY <2>1, <2>2, LineIs
  <1>1. line \subseteq Pending /\ n \in line /\ \A j \in line : j <= n
    BY <1>0
  <1>2. members \subseteq Pending /\ n \in members
    BY <1>1
  <1>3. SeriesOf(n) = F[n]
    BY DEF SeriesOf
  <1> HIDE DEF members
  <1>4. \A k \in Commits, v \in V :
           v \o (IF k \in members THEN <<k>> ELSE << >>) \in V
    <2> SUFFICES ASSUME NEW k \in Commits, NEW v \in V
                 PROVE  v \o (IF k \in members THEN <<k>> ELSE << >>) \in V
      OBVIOUS
    <2>1. CASE k \in members
      BY <1>2, <2>1
    <2>2. CASE k \notin members
      BY <2>2
    <2> QED
      BY <2>1, <2>2
  <1>5. \E f : f = D(f)
    <2>1. \A k \in 1 .. Len(commits) : p[k] \in 0 .. k - 1
      BY Older DEF Commits
    <2>2. \A k \in 1 .. Len(commits), v \in V : G[k][v] \in V
      BY <1>4 DEF Commits
    <2>3. << >> \in V
      OBVIOUS
    <2>4. Recursive(Len(commits), V, << >>, p, G)
      <3> HIDE DEF p, G, V
      <3> QED
        BY <2>1, <2>2, <2>3, Older DEF Recursive
    <2>5. PICK f \in [0 .. Len(commits) -> V] :
             f[0] = << >> /\ \A k \in 1 .. Len(commits) : f[k] = G[k][f[p[k]]]
      <3> HIDE DEF p, G, V
      <3> QED
        BY <2>4, Recursion
    <2>6. ASSUME NEW k \in Shas PROVE f[k] = D(f)[k]
      <3>1. CASE k = 0
        BY <2>5, <3>1
      <3>2. CASE k # 0
        <4>1. k \in Commits /\ k - 1 \in Shas
          BY <3>2, Older DEF Commits
        <4>2. f[k - 1] \in V
          BY <2>5, <4>1, Older
        <4> HIDE DEF V
        <4> QED
          BY <2>5, <3>2, <4>1, <4>2 DEF Commits
      <3> QED
        BY <3>1, <3>2
    <2>7. f = [k \in Shas |-> f[k]]
      BY <2>5, Older
    <2>8. f = D(f)
      <3> HIDE DEF V
      <3> QED
        BY <2>6, <2>7
    <2> QED
      BY <2>8
  <1>6. F = D(F)
    BY <1>5
  <1> DEFINE S == {k \in Shas : F[k] \in V}
  <1> HIDE DEF F
  <1>7. ASSUME NEW k \in 0 .. Len(commits),
               \A j \in 0 .. Len(commits) : j < k => j \in S
        PROVE  k \in S
    <2>1. k \in Shas
      BY Older
    <2>2. CASE k = 0
      BY <1>6, <2>1, <2>2
    <2>3. CASE k # 0
      <3>1. k \in Commits /\ k - 1 \in 0 .. Len(commits) /\ k - 1 < k
        BY <2>3, Older DEF Commits
      <3>2. F[k - 1] \in V
        BY <1>7, <3>1
      <3>3. F[k] = F[k - 1] \o (IF k \in members THEN <<k>> ELSE << >>)
        BY <1>6, <2>1, <2>3
      <3> HIDE DEF V
      <3> QED
        BY <1>4, <2>1, <3>1, <3>2, <3>3
    <2> QED
      BY <2>2, <2>3
  <1>8. 0 .. Len(commits) \subseteq S
    <2> HIDE DEF S
    <2> QED
      BY <1>7, StrongInduction, Older
  <1>9. n - 1 \in Shas /\ F[n - 1] \in V /\ F[n] \in V
    <2>1. n - 1 \in 0 .. Len(commits) /\ n \in 0 .. Len(commits)
      BY <1>0, Older DEF Commits
    <2> QED
      BY <1>8, <2>1, Older
  <1>10. F[n] = F[n - 1] \o <<n>>
    BY <1>0, <1>2, <1>6
  <1>11. Len(F[n - 1] \o <<n>>) = Len(F[n - 1]) + 1 /\ Len(F[n - 1]) \in Nat
    BY <1>9
  <1> QED
    BY <1>3, <1>9, <1>10, <1>11

LEMMA AncestryIs ==
  ASSUME StackAssumption, NEW c \in Open
  PROVE  Ancestry(c) \in Seq(Open)
  <1> DEFINE V == Seq(Open) \ {<< >>}
             N == Cardinality(Changes)
             up(s) == OpenParents(Head(s)) \ {s[i] : i \in 1 .. Len(s)}
             more(s) == IF up(s) = {} THEN s ELSE <<CHOOSE d \in up(s) : TRUE>> \o s
             D(f) == [k \in 0 .. N |->
                        IF k = 0 THEN <<c>>
                        ELSE IF up(f[k - 1]) = {} THEN f[k - 1]
                             ELSE <<CHOOSE d \in up(f[k - 1]) : TRUE>> \o f[k - 1]]
             F == CHOOSE f : f = D(f)
             p == [k \in 1 .. N |-> k - 1]
             G == [k \in 1 .. N |-> [s \in V |-> more(s)]]
  <1>1. N \in Nat
    BY FS_CardinalityType DEF StackAssumption
  <1>2. Ancestry(c) = F[N]
    BY DEF Ancestry
  <1>3. \A s \in V : more(s) \in V
    <2> SUFFICES ASSUME NEW s \in V PROVE more(s) \in V
      OBVIOUS
    <2>1. CASE up(s) = {}
      BY <2>1
    <2>2. CASE up(s) # {}
      <3> DEFINE d == CHOOSE d \in up(s) : TRUE
      <3>1. d \in up(s)
        BY <2>2
      <3>2. d \in Open
        BY <3>1 DEF OpenParents
      <3> HIDE DEF d
      <3>3. <<d>> \o s \in Seq(Open) /\ Len(<<d>> \o s) = 1 + Len(s) /\ Len(s) \in Nat
        BY <3>2
      <3>4. <<d>> \o s # << >>
        BY <3>3
      <3> QED
        BY <2>2, <3>3, <3>4 DEF d
    <2> QED
      BY <2>1, <2>2
  <1>4. \E f : f = D(f)
    <2>1. \A k \in 1 .. N : p[k] \in 0 .. k - 1
      BY <1>1
    <2>2. \A k \in 1 .. N, v \in V : G[k][v] \in V
      <3> HIDE DEF V, more
      <3> QED
        BY <1>3
    <2>3. <<c>> \in V
      OBVIOUS
    <2>4. Recursive(N, V, <<c>>, p, G)
      <3> HIDE DEF p, G, V, N
      <3> QED
        BY <1>1, <2>1, <2>2, <2>3 DEF Recursive
    <2>5. PICK f \in [0 .. N -> V] :
             f[0] = <<c>> /\ \A k \in 1 .. N : f[k] = G[k][f[p[k]]]
      <3> HIDE DEF p, G, V, N
      <3> QED
        BY <2>4, Recursion
    <2>6. ASSUME NEW k \in 0 .. N PROVE f[k] = D(f)[k]
      <3> HIDE DEF N
      <3>1. CASE k = 0
        BY <2>5, <3>1
      <3>2. CASE k # 0
        <4>1. k \in 1 .. N /\ k - 1 \in 0 .. N
          BY <1>1, <3>2
        <4>2. f[k - 1] \in V
          BY <2>5, <4>1
        <4>3. f[k] = more(f[k - 1])
          <5> HIDE DEF V, more
          <5> QED
            BY <2>5, <4>1, <4>2
        <4> HIDE DEF V, up
        <4> QED
          BY <3>2, <4>3
      <3> QED
        BY <3>1, <3>2
    <2>7. f = [k \in 0 .. N |-> f[k]]
      BY <2>5
    <2>8. f = D(f)
      <3> HIDE DEF V, N, up
      <3> QED
        BY <2>6, <2>7
    <2> QED
      BY <2>8
  <1>5. F = D(F)
    BY <1>4
  <1> HIDE DEF F, N
  <1> DEFINE S == {k \in 0 .. N : F[k] \in V}
  <1>6. ASSUME NEW k \in 0 .. N, \A j \in 0 .. N : j < k => j \in S
        PROVE  k \in S
    <2>1. CASE k = 0
      BY <1>5, <2>1
    <2>2. CASE k # 0
      <3>1. k - 1 \in 0 .. N /\ k - 1 < k
        BY <1>1, <2>2
      <3>2. F[k - 1] \in V
        BY <1>6, <3>1
      <3>3. F[k] = more(F[k - 1])
        <4> HIDE DEF up
        <4> QED
          BY <1>5, <2>2
      <3> HIDE DEF V, more
      <3> QED
        BY <1>3, <3>2, <3>3
    <2> QED
      BY <2>1, <2>2
  <1>7. 0 .. N \subseteq S
    <2> HIDE DEF S
    <2> QED
      BY <1>1, <1>6, StrongInduction
  <1>8. F[N] \in V
    BY <1>1, <1>7
  <1> QED
    BY <1>2, <1>8 DEF N

\* The commits a sync has made so far, for the members it has rebased.
Grown(r) ==
    /\ r.made \in Seq(Commit) /\ Len(commits) <= Len(r.made)
    /\ \A k \in Commits : r.made[k] = commits[k]
    /\ \A k \in Len(commits) + 1 .. Len(r.made) :
          r.made[k].change \in Changes /\ r.made[k].parent \in 1 .. k - 1
    /\ r.new \in [Shas -> 0 .. Len(r.made)]
    /\ r.todo \in Seq(Members)
    /\ \A i \in 1 .. Len(r.todo) :
          /\ r.todo[i].head \in Len(commits) + 1 .. Len(r.made)
          /\ r.made[r.todo[i].head].change = r.todo[i].change
          /\ r.todo[i].base \in 1 .. Len(r.made)

Rebases == [made : Seq(Commit), new : [Shas -> Nat], todo : Seq(Members)]

\* One more member is rebased.
Rebase(c, r) ==
    LET m == MemberOf(c)
        onto == IF r.new[m.base] # 0 THEN r.new[m.base] ELSE Tip
        n == Len(r.made) + 1
    IN  IF m.base = onto
        THEN [r EXCEPT !.new[m.head] = m.head]
        ELSE [made |-> Append(r.made, [change |-> c,
                     parent |-> onto, delta |-> commits[m.head].delta]),
              new |-> [r.new EXCEPT ![m.head] = n],
              todo |-> Append(r.todo, [m EXCEPT
                         !.head = n, !.base = onto, !.old = m.head])]

LEMMA OpenRows ==
  ASSUME GitFits, RowsFit, NEW c \in Open
  PROVE  /\ c \in Changes /\ row[c].head \in Pending /\ ChangeOf(row[c].head) = c
         /\ row[c].base \in Commits /\ MemberOf(c) \in Members
         /\ row[c].head \in Nat /\ row[c].base \in Nat
  <1>1. c \in Changes /\ row[c] \in Rows /\ row[c].head # 0
    BY DEF Open, RowsFit, RowFits
  <1> QED
    BY <1>1 DEF RowsFit, RowFits, HeadOf, MemberOf, Members, Rows

LEMMA TipIs ==
  ASSUME GitFits
  PROVE  Tip \in Commits /\ OnTrunk(Tip) /\ Len(trunk) \in 1 .. Len(trunk) /\ Len(trunk) \in Nat
  <1>1. Len(trunk) \in 1 .. Len(trunk) /\ Len(trunk) \in Nat
    BY DEF GitFits
  <1> QED
    BY <1>1 DEF GitFits, Tip, OnTrunk

LEMMA RebaseFits ==
  ASSUME GitFits, RowsFit, NEW c \in Open, NEW r \in Rebases, Grown(r)
  PROVE  Rebase(c, r) \in Rebases /\ Grown(Rebase(c, r))
  <1> DEFINE m == MemberOf(c)
             onto == IF r.new[m.base] # 0 THEN r.new[m.base] ELSE Tip
             L == Len(r.made)
             n == L + 1
             x == [change |-> c, parent |-> onto, delta |-> commits[m.head].delta]
             t == [m EXCEPT !.head = n, !.base = onto, !.old = m.head]
  <1>1. /\ m.head \in Commits /\ m.head \in Shas /\ m.base \in Commits /\ m.base \in Shas
        /\ m.change = c /\ c \in Changes /\ m.head \in Nat /\ m \in Members
    BY OpenRows, Older DEF MemberOf, Pending, Commits
  <1>2. /\ L \in Nat /\ Len(commits) \in Nat /\ Len(commits) <= L /\ n \in Nat
        /\ Commits = 1 .. Len(commits)
    BY Older DEF Grown, Commits
  <1>3. onto \in 1 .. L
    <2>1. r.new[m.base] \in 0 .. L
      BY <1>1 DEF Grown
    <2>2. Tip \in 1 .. L
      BY <1>2, TipIs
    <2> QED
      BY <1>2, <2>1, <2>2
  <1>4. commits[m.head].delta \in Nat
    <2>1. commits[m.head] \in Commit
      BY <1>1 DEF GitFits, Commits
    <2> QED
      BY <2>1 DEF Commit
  <1> HIDE DEF m, onto, L
  <1>5. x \in Commit /\ x.change = c /\ x.parent = onto
    BY <1>1, <1>3, <1>4 DEF Commit
  <1>6. t \in Members /\ t.head = n /\ t.base = onto /\ t.change = c
    <2>1. onto \in Nat /\ n \in Nat /\ m.head \in Nat /\ m \in Members /\ m.change = c
      BY <1>1, <1>2, <1>3
    <2> HIDE DEF n
    <2> QED
      BY <2>1 DEF Members
  <1>7. CASE m.base = onto
    <2> DEFINE q == [r EXCEPT !.new[m.head] = m.head]
    <2>1. Rebase(c, r) = q
      BY <1>7 DEF Rebase, m, onto
    <2>2. /\ q.made = r.made /\ q.todo = r.todo
          /\ q.new = [r.new EXCEPT ![m.head] = m.head] /\ q \in Rebases
      BY <1>1 DEF Rebases
    <2>3. q.new \in [Shas -> 0 .. Len(q.made)]
      BY <1>1, <1>2, <2>2 DEF Grown, L
    <2> HIDE DEF q
    <2> QED
      BY <2>1, <2>2, <2>3 DEF Grown
  <1>8. CASE m.base # onto
    <2> DEFINE q == [made |-> Append(r.made, x), new |-> [r.new EXCEPT ![m.head] = n],
                     todo |-> Append(r.todo, t)]
    <2>1. Rebase(c, r) = q
      BY <1>8 DEF Rebase, m, onto, L
    <2> HIDE DEF x, t, n
    <2>2. /\ q.made \in Seq(Commit) /\ Len(q.made) = n /\ q.made[n] = x
          /\ \A k \in 1 .. L : q.made[k] = r.made[k]
      BY <1>2, <1>5 DEF Grown, L, n
    <2>3. /\ q.todo \in Seq(Members) /\ Len(q.todo) = Len(r.todo) + 1
          /\ q.todo[Len(r.todo) + 1] = t /\ Len(r.todo) \in Nat
          /\ \A i \in 1 .. Len(r.todo) : q.todo[i] = r.todo[i]
      BY <1>6 DEF Grown
    <2>4. q.new \in [Shas -> 0 .. Len(q.made)] /\ q.new \in [Shas -> Nat]
      <3>1. \A j \in 0 .. L : j \in 0 .. n
        BY <1>2 DEF n
      <3> QED
        BY <1>1, <1>2, <2>2, <3>1 DEF Grown, L, n
    <2>5. q \in Rebases
      BY <2>2, <2>3, <2>4 DEF Rebases
    <2> HIDE DEF q
    <2>6. \A k \in Commits : q.made[k] = commits[k]
      BY <1>2, <2>2 DEF Grown
    <2>7. ASSUME NEW k \in Len(commits) + 1 .. Len(q.made)
          PROVE  q.made[k].change \in Changes /\ q.made[k].parent \in 1 .. k - 1
      <3>1. CASE k = n
        BY <1>1, <1>2, <1>3, <1>5, <2>2, <3>1 DEF n
      <3>2. CASE k # n
        <4>1. k \in Len(commits) + 1 .. L /\ k \in 1 .. L
          BY <1>2, <2>2, <2>7, <3>2 DEF n
        <4> QED
          BY <2>2, <4>1 DEF Grown, L
      <3> QED
        BY <3>1, <3>2
    <2>8. ASSUME NEW i \in 1 .. Len(q.todo)
          PROVE  /\ q.todo[i].head \in Len(commits) + 1 .. Len(q.made)
                 /\ q.made[q.todo[i].head].change = q.todo[i].change
                 /\ q.todo[i].base \in 1 .. Len(q.made)
      <3>1. CASE i = Len(r.todo) + 1
        <4>1. q.todo[i] = t /\ q.made[n] = x /\ Len(q.made) = n
          BY <2>2, <2>3, <3>1
        <4>2. n \in Len(commits) + 1 .. n /\ onto \in 1 .. n
          BY <1>2, <1>3 DEF n
        <4> QED
          BY <1>5, <1>6, <4>1, <4>2
      <3>2. CASE i # Len(r.todo) + 1
        <4>1. i \in 1 .. Len(r.todo) /\ q.todo[i] = r.todo[i]
          BY <2>3, <3>2
        <4>2. /\ r.todo[i].head \in Len(commits) + 1 .. L
              /\ r.made[r.todo[i].head].change = r.todo[i].change
              /\ r.todo[i].base \in 1 .. L
          BY <4>1 DEF Grown, L
        <4>3. /\ r.todo[i].head \in 1 .. L /\ \A j \in 1 .. L : j \in 1 .. n
              /\ \A j \in Len(commits) + 1 .. L : j \in Len(commits) + 1 .. n
          BY <1>2, <4>2 DEF n
        <4>4. q.made[r.todo[i].head] = r.made[r.todo[i].head]
          BY <2>2, <4>3
        <4> QED
          BY <2>2, <4>1, <4>2, <4>3, <4>4
      <3> QED
        BY <3>1, <3>2
    <2>9. Len(commits) <= Len(q.made)
      BY <1>2, <2>2 DEF n
    <2> QED
      BY <2>1, <2>2, <2>3, <2>4, <2>5, <2>6, <2>7, <2>8, <2>9 DEF Grown
  <1> QED
    BY <1>7, <1>8

LEMMA RebasedIs ==
  ASSUME GitFits, RowsFit, NEW s \in Seq(Open)
  PROVE  Rebased(s) \in Rebases /\ Grown(Rebased(s))
  <1> DEFINE V == {r \in Rebases : Grown(r)}
             N == Len(s)
             a == [made |-> commits, new |-> [k \in Shas |-> 0], todo |-> << >>]
             D(f) == [i \in 0 .. Len(s) |->
          IF i = 0 THEN [made |-> commits, new |-> [k \in Shas |-> 0],
                         todo |-> << >>]
          ELSE LET r == f[i - 1]
                   m == MemberOf(s[i])
                   onto == IF r.new[m.base] # 0 THEN r.new[m.base] ELSE Tip
                   n == Len(r.made) + 1
               IN  IF m.base = onto
                   THEN [r EXCEPT !.new[m.head] = m.head]
                   ELSE [made |-> Append(r.made, [change |-> s[i],
                                parent |-> onto, delta |-> commits[m.head].delta]),
                         new |-> [r.new EXCEPT ![m.head] = n],
                         todo |-> Append(r.todo, [m EXCEPT
                                    !.head = n, !.base = onto, !.old = m.head])]]
             F == CHOOSE f : f = D(f)
             E(f) == [i \in 0 .. N |-> IF i = 0 THEN a ELSE Rebase(s[i], f[i - 1])]
             p == [k \in 1 .. N |-> k - 1]
             G == [k \in 1 .. N |-> [r \in V |-> Rebase(s[k], r)]]
  <1>1. N \in Nat /\ \A k \in 1 .. N : s[k] \in Open
    OBVIOUS
  <1>2. Rebased(s) = F[N]
    BY DEF Rebased
  <1>3. ASSUME NEW f PROVE D(f) = E(f)
    BY DEF Rebase
  <1>4. a \in V
    <2>1. a \in Rebases
      BY Older DEF Rebases, GitFits
    <2>2. Grown(a)
      BY Older DEF Grown, GitFits
    <2> QED
      BY <2>1, <2>2
  <1>5. \A k \in 1 .. N, r \in V : Rebase(s[k], r) \in V
    BY <1>1, RebaseFits
  <1> HIDE DEF V, D, a
  <1>6. \E f : f = D(f)
    <2>1. \A k \in 1 .. N : p[k] \in 0 .. k - 1
      BY <1>1
    <2>2. \A k \in 1 .. N, v \in V : G[k][v] \in V
      BY <1>5
    <2>4. Recursive(N, V, a, p, G)
      <3> HIDE DEF p, G, N
      <3> QED
        BY <1>1, <1>4, <2>1, <2>2 DEF Recursive
    <2>5. PICK f \in [0 .. N -> V] :
             f[0] = a /\ \A k \in 1 .. N : f[k] = G[k][f[p[k]]]
      <3> HIDE DEF p, G, N
      <3> QED
        BY <2>4, Recursion
    <2>6. ASSUME NEW k \in 0 .. N PROVE f[k] = E(f)[k]
      <3> HIDE DEF N
      <3>1. CASE k = 0
        BY <2>5, <3>1
      <3>2. CASE k # 0
        <4>1. k \in 1 .. N /\ k - 1 \in 0 .. N
          BY <1>1, <3>2
        <4>2. f[k - 1] \in V
          BY <2>5, <4>1
        <4>3. f[k] = Rebase(s[k], f[k - 1])
          BY <2>5, <4>1, <4>2
        <4> QED
          BY <3>2, <4>3
      <3> QED
        BY <3>1, <3>2
    <2>7. f = [k \in 0 .. N |-> f[k]]
      BY <2>5
    <2>8. f = E(f)
      <3> HIDE DEF N
      <3> QED
        BY <2>6, <2>7
    <2>9. f = D(f)
      <3> HIDE DEF E
      <3> QED
        BY <1>3, <2>8
    <2> QED
      BY <2>9
  <1>7. F = E(F)
    <2>1. F = D(F)
      BY <1>6
    <2> HIDE DEF F, E
    <2> QED
      BY <1>3, <2>1
  <1> HIDE DEF F, N
  <1> DEFINE S == {k \in 0 .. N : F[k] \in V}
  <1>8. ASSUME NEW k \in 0 .. N, \A j \in 0 .. N : j < k => j \in S
        PROVE  k \in S
    <2>1. CASE k = 0
      BY <1>4, <1>7, <2>1
    <2>2. CASE k # 0
      <3>1. k - 1 \in 0 .. N /\ k - 1 < k /\ k \in 1 .. N
        BY <1>1, <2>2
      <3>2. F[k - 1] \in V
        BY <1>8, <3>1
      <3>3. F[k] = Rebase(s[k], F[k - 1])
        BY <1>7, <2>2
      <3> QED
        BY <1>5, <3>1, <3>2, <3>3
    <2> QED
      BY <2>1, <2>2
  <1>9. 0 .. N \subseteq S
    <2> HIDE DEF S
    <2> QED
      BY <1>1, <1>8, StrongInduction
  <1>10. F[N] \in V
    BY <1>1, <1>9
  <1> QED
    BY <1>2, <1>10 DEF N, V

LEMMA ListingIs ==
  ASSUME StackAssumption, NEW S \in SUBSET Open, NEW s \in Listings(S)
  PROVE  s \in Seq(Open)
  <1>1. IsFiniteSet(S)
    BY FS_Subset DEF StackAssumption, Open
  <1>2. Cardinality(S) \in Nat
    BY <1>1, FS_CardinalityType
  <1> QED
    BY <1>2, IsASeq DEF Listings

----------------------------------------------------------------------------
(* What a step keeps.                                                      *)

\* Git only grows: no commit changes, and none that was pending is on trunk.
Kept ==
    /\ GitFits' /\ Commits \subseteq Commits'
    /\ \A k \in Commits : commits'[k] = commits[k] /\ (OnTrunk(k)' <=> OnTrunk(k))
    /\ \A k \in Commits : BaseLanded(k) => BaseLanded(k)'

LEMMA NothingMade == ASSUME GitFits, UNCHANGED git PROVE Kept
  <1>1. commits' = commits /\ trunk' = trunk
    BY DEF git
  <1> QED
    BY <1>1 DEF Kept, GitFits, Commits, Pending, OnTrunk, ChangeOf, BaseLanded, OnTrunkAs

LEMMA OnlyMade ==
  ASSUME GitFits, trunk' = trunk, commits' \in Seq(Commit), Len(commits) <= Len(commits'),
         \A k \in Commits : commits'[k] = commits[k],
         \A k \in Len(commits) + 1 .. Len(commits') :
            commits'[k].change \in Changes /\ commits'[k].parent \in 1 .. k - 1
  PROVE  Kept
  <1>1. Len(commits) \in Nat /\ Len(commits') \in Nat
    BY DEF GitFits
  <1>2. Commits \subseteq Commits' /\ Commits' = 1 .. Len(commits') /\ Commits = 1 .. Len(commits)
    BY <1>1 DEF Commits
  <1>3. \A k : OnTrunk(k)' <=> OnTrunk(k)
    BY DEF OnTrunk
  <1>4. \A k \in Commits' : k \in Commits \/ k \in Len(commits) + 1 .. Len(commits')
    BY <1>1, <1>2
  <1>5. ASSUME NEW k \in Commits' PROVE commits'[k].parent < k
    <2>1. CASE k \in Commits
      BY <2>1 DEF GitFits
    <2>2. CASE k \in Len(commits) + 1 .. Len(commits')
      BY <1>1, <2>2
    <2> QED
      BY <1>4, <2>1, <2>2
  <1>6. ASSUME NEW k \in Pending'
        PROVE  commits'[k].change \in Changes /\ commits'[k].parent \in Commits'
    <2>0. k \in Commits' /\ ~OnTrunk(k)
      BY <1>3 DEF Pending
    <2>1. CASE k \in Commits
      <3>1. k \in Pending
        BY <2>0, <2>1 DEF Pending
      <3> QED
        BY <1>2, <2>1, <3>1 DEF GitFits, ChangeOf
    <2>2. CASE k \in Len(commits) + 1 .. Len(commits')
      BY <1>1, <1>2, <2>2
    <2> QED
      BY <1>4, <2>0, <2>1, <2>2
  <1>7. GitFits'
    BY <1>2, <1>5, <1>6 DEF GitFits, ChangeOf
  <1>8. ASSUME NEW k \in Commits, BaseLanded(k) PROVE BaseLanded(k)'
    BY <1>3, <1>8 DEF BaseLanded, OnTrunkAs, ChangeOf, GitFits
  <1> QED
    BY <1>2, <1>3, <1>7, <1>8 DEF Kept

LEMMA Stays ==
  ASSUME Kept
  PROVE  /\ \A n, c : HeadOf(n, c) => HeadOf(n, c)'
         /\ \A n, c : LandedAs(n, c) => LandedAs(n, c)'
         /\ \A kind, m : MemberFits(kind, m) => MemberFits(kind, m)'
  <1>1. ASSUME NEW n, NEW c, HeadOf(n, c) PROVE HeadOf(n, c)'
    BY <1>1 DEF Kept, HeadOf, Pending, ChangeOf
  <1>2. ASSUME NEW n, NEW c, LandedAs(n, c) PROVE LandedAs(n, c)'
    BY <1>2 DEF Kept, LandedAs, ChangeOf
  <1>3. ASSUME NEW kind, NEW m, MemberFits(kind, m) PROVE MemberFits(kind, m)'
    BY <1>1, <1>3 DEF MemberFits, Kept, ChangeOf
  <1> QED
    BY <1>1, <1>2, <1>3

LEMMA RequestStays ==
  ASSUME Kept, NEW r \in Requests, RequestFits(r)
  PROVE  RequestFits(r)'
  <1>1. r.todo # << >> => r.todo[1] \in Members /\ 1 \in 1 .. Len(r.todo)
    BY DEF Requests
  <1>2. \A b \in Commits : BaseLanded(b) => BaseLanded(b)'
    BY DEF Kept
  <1>3. \A i \in 1 .. Len(r.todo) :
           MemberFits(r.kind, r.todo[i]) => MemberFits(r.kind, r.todo[i])'
    BY Stays
  <1>4. LandedAs(r.todo[1].old, r.todo[1].change) =>
            LandedAs(r.todo[1].old, r.todo[1].change)'
    BY Stays
  <1>5. r.pc = "attempt" => r.todo[1].base \in Commits
    BY <1>1 DEF RequestFits, MemberFits, Landing
  <1> QED
    BY <1>2, <1>3, <1>4, <1>5 DEF RequestFits

LEMMA RowStays ==
  ASSUME Kept, NEW c, NEW r, RowFits(c, r)
  PROVE  RowFits(c, r)'
  <1>1. /\ HeadOf(r.head, c) => HeadOf(r.head, c)'
        /\ LandedAs(r.landed, c) => LandedAs(r.landed, c)'
    BY Stays
  <1> QED
    BY <1>1 DEF RowFits, Kept

LEMMA RowsStay == ASSUME Kept, RowsFit, row' = row PROVE RowsFit'
  BY RowStays DEF RowsFit

\* One request moves, and no other.
LEMMA OneMoves ==
  ASSUME FlightFits, Kept, NEW h \in Actors, NEW r \in Requests,
         hs' = [hs EXCEPT ![h] = r], RequestFits(r)'
  PROVE  FlightFits'
  <1>1. hs' \in [Actors -> Requests] /\ hs'[h] = r
        /\ \A g \in Actors : g # h => hs'[g] = hs[g]
    BY DEF FlightFits
  <1>2. ASSUME NEW g \in Actors, NEW q \in {hs'[g]} PROVE RequestFits(q)'
    <2>1. CASE g = h
      BY <1>1, <1>2, <2>1
    <2>2. CASE g # h
      <3>1. q \in {hs[g]} /\ q \in Requests
        BY <1>1, <1>2, <2>2
      <3>2. RequestFits(q)
        BY <3>1 DEF FlightFits
      <3> QED
        BY <3>1, <3>2, RequestStays
    <2> QED
      BY <2>1, <2>2
  <1> QED
    BY <1>1, <1>2 DEF FlightFits

LEMMA NoneMoves == ASSUME FlightFits, Kept, hs' = hs PROVE FlightFits'
  <1>1. ASSUME NEW g \in Actors, NEW q \in {hs'[g]} PROVE RequestFits(q)'
    <2>1. q \in {hs[g]} /\ q \in Requests
      BY <1>1 DEF FlightFits
    <2>2. RequestFits(q)
      BY <2>1 DEF FlightFits
    <2> QED
      BY <2>1, <2>2, RequestStays
  <1> QED
    BY <1>1 DEF FlightFits

\* Where nothing lands, what landed stays as it landed.
LEMMA OrderKept ==
  ASSUME GitFits, Kept, trunk' = trunk, ParentsLandFirst
  PROVE  ParentsLandFirst'
  <1> DEFINE Ordered(i) == \E j \in 1 .. i - 1 : ChangeOf(trunk[j].sha) = ChangeOf(trunk[i].base)
             Skipped(i) == trunk[i].head = 0 \/ trunk[i].forced \/ OnTrunk(trunk[i].base)
  <1>1. \A i \in 1 .. Len(trunk) : Ordered(i) \/ Skipped(i)
    BY DEF ParentsLandFirst, StackedLands
  <1>2. \A j \in 1 .. Len(trunk) : ChangeOf(trunk[j].sha)' = ChangeOf(trunk[j].sha)
    BY DEF Kept, GitFits, ChangeOf
  <1>3. \A i \in 1 .. Len(trunk) : trunk[i].head # 0 =>
            ChangeOf(trunk[i].base)' = ChangeOf(trunk[i].base)
    BY DEF Kept, GitFits, ChangeOf
  <1>4. ASSUME NEW i \in 1 .. Len(trunk) PROVE Ordered(i)' \/ Skipped(i)'
    <2>1. CASE Skipped(i)
      BY <2>1 DEF OnTrunk
    <2>2. CASE Ordered(i) /\ ~Skipped(i)
      <3>1. PICK j \in 1 .. i - 1 : ChangeOf(trunk[j].sha) = ChangeOf(trunk[i].base)
        BY <2>2
      <3>2. j \in 1 .. Len(trunk)
        BY DEF GitFits
      <3>3. ChangeOf(trunk[j].sha)' = ChangeOf(trunk[i].base)'
        BY <1>2, <1>3, <2>2, <3>1, <3>2
      <3> QED
        BY <3>3
    <2> QED
      BY <1>1, <2>1, <2>2
  <1> QED
    BY <1>4 DEF ParentsLandFirst, StackedLands

\* A request that begins, or that writes its series, and holds what it may.
LEMMA BeginFits ==
  ASSUME GitFits, FlightFits, Kept, NEW h \in Actors, NEW r,
         hs' = [hs EXCEPT ![h] = r], r \in Requests,
         r.pc \in {"next", "gate", "write"},
         r.pc = "gate" => r.kind \in Landing,
         r.pc = "write" => r.kind \in Writing,
         r.pc = "next" => r.kind \in {"push", "stack", "sweep"},
         (r.pc = "next" /\ r.kind # "push") \/ r.todo # << >>,
         \A i \in 1 .. Len(r.todo) : MemberFits(r.kind, r.todo[i])'
  PROVE  FlightFits'
  <1>1. RequestFits(r)'
    BY DEF RequestFits, Landing, Writing
  <1> QED
    BY <1>1, OneMoves

LEMMA OpenFits ==
  ASSUME GitFits, RowsFit, NEW c \in Open, NEW kind, kind # "push", kind \notin Writing
  PROVE  MemberOf(c) \in Members /\ MemberFits(kind, MemberOf(c))
  <1>1. /\ c \in Changes /\ row[c].head \in Pending /\ ChangeOf(row[c].head) = c
        /\ row[c].base \in Commits /\ MemberOf(c) \in Members
    BY OpenRows
  <1> QED
    BY <1>1 DEF MemberFits, MemberOf, Pending

LEMMA PushKept ==
  ASSUME StackIInv, NEW h \in Handlers, NEW c \in Changes, Push(h, c)
  PROVE  StackIInv'
  <1>0. GitFits /\ RowsFit /\ FlightFits /\ ParentsLandFirst /\ h \in Actors
        /\ UNCHANGED <<trunk, row>>
    BY DEF StackIInv, Push, Actors
  <1>n. PICK n : n = Len(commits) + 1
    OBVIOUS
  <1> DEFINE m == [change |-> c, head |-> n, base |-> 0, old |-> 0]
  <1>1. PICK p \in ({Tip} \cup {row[d].head : d \in Changes}) \ {0} :
           commits' = Append(commits, [change |-> c, parent |-> p, delta |-> n])
    BY <1>n DEF Push
  <1>2. p \in Commits
    <2>1. CASE p = Tip
      BY <1>0, <2>1, TipIs
    <2>2. ASSUME NEW d \in Changes, p = row[d].head PROVE p \in Commits
      BY <1>0, <2>2 DEF RowsFit, RowFits, HeadOf, Pending
    <2> QED
      BY <1>1, <2>1, <2>2
  <1>3. Len(commits) \in Nat /\ n \in Nat /\ commits \in Seq(Commit) /\ Commits = 1 .. Len(commits)
    BY <1>0, <1>n, Older DEF GitFits, Commits
  <1> DEFINE x == [change |-> c, parent |-> p, delta |-> n]
  <1>4. x \in Commit /\ x.change = c /\ x.parent = p
    BY <1>2, <1>3 DEF Commit
  <1> HIDE DEF x
  <1>5. /\ commits' \in Seq(Commit) /\ Len(commits') = n /\ commits'[n] = x
        /\ \A k \in Commits : commits'[k] = commits[k]
    BY <1>1, <1>3, <1>4, <1>n DEF x
  <1>6. \A k \in Len(commits) + 1 .. Len(commits') :
           commits'[k].change \in Changes /\ commits'[k].parent \in 1 .. k - 1
    BY <1>2, <1>3, <1>4, <1>5, <1>n
  <1>7. Kept
    BY <1>0, <1>3, <1>5, <1>6, <1>n, OnlyMade
  <1>8. ~OnTrunk(n)'
    <2>1. \A i \in 1 .. Len(trunk) : trunk[i].sha # n
      BY <1>0, <1>3, <1>n DEF GitFits, Commits
    <2> QED
      BY <1>0, <2>1 DEF OnTrunk
  <1>9. HeadOf(n, c)'
    <2>1. n \in Commits'
      BY <1>n, <1>3, <1>5 DEF Commits
    <2>2. commits'[n].change = c
      BY <1>4, <1>5
    <2> QED
      BY <1>8, <2>1, <2>2 DEF HeadOf, Pending, ChangeOf
  <1>10. hs' = [hs EXCEPT ![h] = Begun("push", "next", <<m>>, FALSE)]
    BY <1>n DEF Push, Start
  <1> DEFINE r == [pc |-> "next", kind |-> "push", todo |-> <<m>>, force |-> FALSE, tip |-> 0]
  <1>11. Begun("push", "next", <<m>>, FALSE) = r
    BY DEF Begun
  <1>12. m \in Members /\ MemberFits("push", m)'
    BY <1>3, <1>9 DEF Members, MemberFits, Writing, Landing
  <1>13. FlightFits'
    <2> HIDE DEF m
    <2>1. r \in Requests /\ r.todo # << >> /\ r.pc = "next" /\ r.kind = "push"
      BY <1>12 DEF Requests
    <2>2. \A i \in 1 .. Len(r.todo) : r.todo[i] = m
      OBVIOUS
    <2>3. \A i \in 1 .. Len(r.todo) : MemberFits(r.kind, r.todo[i])'
      BY <1>12, <2>2
    <2>4. hs' = [hs EXCEPT ![h] = r]
      BY <1>10, <1>11
    <2> HIDE DEF r
    <2> QED
      BY <1>0, <1>7, <2>1, <2>3, <2>4, BeginFits
  <1> QED
    BY <1>0, <1>7, <1>13, OrderKept, RowsStay DEF StackIInv, Kept

LEMMA RepushKept ==
  ASSUME StackIInv, NEW h \in Handlers, NEW n \in 2 .. Len(commits), Repush(h, n)
  PROVE  StackIInv'
  <1>0. GitFits /\ RowsFit /\ FlightFits /\ ParentsLandFirst /\ h \in Actors
        /\ UNCHANGED <<git, row>> /\ trunk' = trunk
    BY DEF StackIInv, Repush, Actors, git
  <1>1. Kept
    BY <1>0, NothingMade
  <1>2. n \in Pending /\ n \in Nat
    BY DEF Repush, Pending, Commits
  <1>3. ChangeOf(n) \in Changes
    BY <1>0, <1>2 DEF GitFits
  <1>4. PICK r : r = [pc |-> "next", kind |-> "push", force |-> FALSE, tip |-> 0,
                      todo |-> <<[change |-> ChangeOf(n), head |-> n, base |-> 0, old |-> 0]>>]
    OBVIOUS
  <1>5. hs' = [hs EXCEPT ![h] = r]
    BY <1>4 DEF Repush, Start, Begun
  <1>6. PICK m : m = [change |-> ChangeOf(n), head |-> n, base |-> 0, old |-> 0]
    OBVIOUS
  <1>7. m \in Members /\ MemberFits("push", m)
    BY <1>2, <1>3, <1>6 DEF Members, MemberFits, HeadOf, Landing
  <1>8. MemberFits("push", m)'
    BY <1>1, <1>7, Stays
  <1>9. r \in Requests /\ r.todo = <<m>> /\ r.pc = "next" /\ r.kind = "push"
    BY <1>4, <1>6, <1>7 DEF Requests
  <1>10. r.todo # << >> /\ \A i \in 1 .. Len(r.todo) : MemberFits(r.kind, r.todo[i])'
    BY <1>8, <1>9
  <1>11. FlightFits'
    BY <1>0, <1>1, <1>5, <1>9, <1>10, BeginFits
  <1> QED
    BY <1>0, <1>1, <1>11, OrderKept, RowsStay DEF StackIInv, Kept

LEMMA SyncKept ==
  ASSUME StackAssumption, StackIInv, NEW h \in Handlers, NEW c \in Changes, SyncCompute(h, c)
  PROVE  StackIInv'
  <1>0. GitFits /\ RowsFit /\ FlightFits /\ ParentsLandFirst /\ h \in Actors
        /\ UNCHANGED <<trunk, row>>
    BY DEF StackIInv, SyncCompute, Actors
  <1>1. PICK s \in Walks(StackOf(c)) :
           /\ Rebased(s).todo # << >>
           /\ commits' = Rebased(s).made
           /\ Start(h, "sync", "write", Rebased(s).todo)
    BY DEF SyncCompute
  <1>2. StackOf(c) \subseteq Open /\ s \in Listings(StackOf(c))
    BY DEF SyncCompute, StackOf, Open, Walks
  <1>3. s \in Seq(Open)
    BY <1>2, ListingIs
  <1>4. PICK q : q = Rebased(s)
    OBVIOUS
  <1>5. q \in Rebases /\ Grown(q)
    BY <1>0, <1>3, <1>4, RebasedIs
  <1>6. commits' = q.made /\ q.todo # << >>
    BY <1>1, <1>4
  <1>7. Kept
    BY <1>0, <1>5, <1>6, OnlyMade DEF Grown
  <1>8. PICK r : r = [pc |-> "write", kind |-> "sync", todo |-> q.todo, force |-> FALSE,
                      tip |-> 0]
    OBVIOUS
  <1>9. hs' = [hs EXCEPT ![h] = r]
    BY <1>1, <1>4, <1>8 DEF Start, Begun
  <1>10. r \in Requests /\ r.todo = q.todo /\ r.pc = "write" /\ r.kind = "sync"
    BY <1>5, <1>8 DEF Requests, Rebases
  <1>11. ASSUME NEW i \in 1 .. Len(r.todo) PROVE MemberFits(r.kind, r.todo[i])'
    <2>1. PICK m : m = r.todo[i]
      OBVIOUS
    <2>2. /\ m.head \in Len(commits) + 1 .. Len(commits') /\ commits'[m.head].change = m.change
          /\ m.base \in 1 .. Len(commits')
      BY <1>5, <1>6, <1>10, <1>11, <2>1 DEF Grown
    <2>3. m.head \in Commits' /\ m.base \in Commits'
      BY <1>0, <2>2, Older DEF Commits
    <2>4. ~OnTrunk(m.head)'
      <3>1. \A j \in 1 .. Len(trunk) : trunk[j].sha # m.head
        BY <1>0, <2>2, Older DEF GitFits, Commits
      <3> QED
        BY <1>0, <3>1 DEF OnTrunk
    <2>5. MemberFits("sync", m)'
      BY <2>2, <2>3, <2>4 DEF MemberFits, HeadOf, Pending, ChangeOf, Landing
    <2> QED
      BY <1>10, <2>1, <2>5
  <1>12. FlightFits'
    BY <1>0, <1>6, <1>7, <1>9, <1>10, <1>11, BeginFits DEF Writing
  <1> QED
    BY <1>0, <1>7, <1>12, OrderKept, RowsStay DEF StackIInv, Kept

\* A list of open Changes, as a land-stack or a sweep takes it on.
LEMMA ListBegins ==
  ASSUME StackIInv, NEW h \in Actors, NEW s \in Seq(Open), NEW kind \in {"stack", "sweep"},
         Start(h, kind, "next", [i \in 1 .. Len(s) |-> MemberOf(s[i])]),
         UNCHANGED <<git, row>>
  PROVE  StackIInv'
  <1>0. GitFits /\ RowsFit /\ FlightFits /\ ParentsLandFirst /\ trunk' = trunk
    BY DEF StackIInv, git
  <1>1. Kept
    BY <1>0, NothingMade
  <1>2. PICK r : r = Begun(kind, "next", [i \in 1 .. Len(s) |-> MemberOf(s[i])], FALSE)
    OBVIOUS
  <1>3. hs' = [hs EXCEPT ![h] = r]
    BY <1>2 DEF Start
  <1>4. Tip \in Nat
    BY <1>0, TipIs DEF Commits
  <1>5. ASSUME NEW i \in 1 .. Len(s)
        PROVE  MemberOf(s[i]) \in Members /\ MemberFits(kind, MemberOf(s[i]))
    <2>1. s[i] \in Open /\ kind # "push" /\ kind \notin Writing
      BY DEF Writing
    <2> QED
      BY <1>0, <2>1, OpenFits
  <1>6. r.todo = [i \in 1 .. Len(s) |-> MemberOf(s[i])] /\ r.pc = "next" /\ r.kind = kind
    BY <1>2 DEF Begun
  <1>7. r.todo \in Seq(Members) /\ Len(r.todo) = Len(s)
    BY <1>5, <1>6, IsASeq
  <1>8. r \in Requests
    <2>1. PICK todo, tip : /\ r = [pc |-> "next", kind |-> kind, todo |-> todo, force |-> FALSE,
                                   tip |-> tip]
                           /\ tip \in Nat
      BY <1>2, <1>4 DEF Begun
    <2>2. todo \in Seq(Members)
      BY <1>7, <2>1
    <2> QED
      BY <2>1, <2>2 DEF Requests
  <1>9. ASSUME NEW i \in 1 .. Len(r.todo) PROVE MemberFits(r.kind, r.todo[i])'
    <2>1. PICK m : m = r.todo[i]
      OBVIOUS
    <2>2. MemberFits(r.kind, m)
      BY <1>5, <1>6, <1>7, <2>1
    <2> QED
      BY <1>1, <2>1, <2>2, Stays
  <1>10. FlightFits'
    BY <1>0, <1>1, <1>3, <1>6, <1>8, <1>9, BeginFits
  <1> QED
    BY <1>0, <1>1, <1>10, OrderKept, RowsStay DEF StackIInv, Kept

LEMMA LandStackKept ==
  ASSUME StackAssumption, StackIInv, NEW h \in Handlers, NEW c \in Changes, LandStack(h, c)
  PROVE  StackIInv'
  <1>1. c \in Open
    BY DEF LandStack, Open
  <1>2. Ancestry(c) \in Seq(Open)
    BY <1>1, AncestryIs
  <1> QED
    BY <1>2, ListBegins DEF LandStack, Actors

LEMMA SweepKept == ASSUME StackAssumption, StackIInv, SweepBegin PROVE StackIInv'
  <1>1. PICK s \in Listings({c \in Open : row[c].armed}) :
           Start(Worker, "sweep", "next", [i \in 1 .. Len(s) |-> MemberOf(s[i])])
    BY DEF SweepBegin
  <1>2. s \in Seq(Open)
    BY ListingIs
  <1> QED
    BY <1>1, <1>2, ListBegins DEF SweepBegin, Actors

LEMMA LandRequestKept ==
  ASSUME StackIInv, NEW h \in Handlers, NEW c \in Changes, NEW force \in BOOLEAN,
         LandRequest(h, c, force)
  PROVE  StackIInv'
  <1>0. GitFits /\ RowsFit /\ FlightFits /\ ParentsLandFirst /\ h \in Actors
        /\ UNCHANGED <<git, row>> /\ trunk' = trunk /\ c \in Open
    BY DEF StackIInv, LandRequest, Actors, git, Open
  <1>1. Kept
    BY <1>0, NothingMade
  <1>2. PICK m : m = MemberOf(c)
    OBVIOUS
  <1>3. PICK r : r = [pc |-> "gate", kind |-> "land", todo |-> <<m>>, force |-> force, tip |-> 0]
    OBVIOUS
  <1>4. hs' = [hs EXCEPT ![h] = r]
    BY <1>2, <1>3 DEF LandRequest, Begun
  <1>5. m \in Members /\ MemberFits("land", m)
    BY <1>0, <1>2, OpenFits DEF Writing
  <1>6. MemberFits("land", m)'
    BY <1>1, <1>5, Stays
  <1>7. r \in Requests /\ r.todo = <<m>> /\ r.pc = "gate" /\ r.kind = "land"
    BY <1>3, <1>5 DEF Requests
  <1>8. r.todo # << >> /\ \A i \in 1 .. Len(r.todo) : MemberFits(r.kind, r.todo[i])'
    BY <1>6, <1>7
  <1>9. FlightFits'
    BY <1>0, <1>1, <1>4, <1>7, <1>8, BeginFits DEF Landing
  <1> QED
    BY <1>0, <1>1, <1>9, OrderKept, RowsStay DEF StackIInv, Kept

LEMMA PushSeriesKept ==
  ASSUME StackIInv, NEW h \in Actors, PushSeries(h)
  PROVE  StackIInv'
  <1>0. GitFits /\ RowsFit /\ FlightFits /\ ParentsLandFirst
        /\ UNCHANGED <<git, row>> /\ trunk' = trunk
    BY DEF StackIInv, PushSeries, git
  <1>1. Kept
    BY <1>0, NothingMade
  <1>2. PICK q : q = hs[h]
    OBVIOUS
  <1>3. q \in Requests /\ RequestFits(q) /\ q.pc = "next" /\ q.kind = "push"
    BY <1>0, <1>2 DEF FlightFits, PushSeries, At
  <1>4. q.todo # << >> /\ q.todo \in Seq(Members)
    BY <1>3 DEF RequestFits, Requests
  <1>5. 1 \in 1 .. Len(q.todo) /\ Cur(h) = q.todo[1]
    BY <1>2, <1>4 DEF Cur
  <1>6. Cur(h).head \in Pending
    BY <1>3, <1>5 DEF RequestFits, MemberFits, HeadOf, Writing
  <1>7. PICK s : s = SeriesOf(Cur(h).head)
    OBVIOUS
  <1>8. s \in Seq(Pending) /\ Len(s) # 0
    BY <1>0, <1>6, <1>7, SeriesIs
  <1>9. PICK todo : todo = [i \in 1 .. Len(s) |->
                      [change |-> ChangeOf(s[i]), head |-> s[i], base |-> 0, old |-> 0]]
    OBVIOUS
  <1>10. hs' = [hs EXCEPT ![h].pc = "write", ![h].todo = todo]
    BY <1>7, <1>9 DEF PushSeries
  <1>11. PICK r : r = [q EXCEPT !.pc = "write", !.todo = todo]
    OBVIOUS
  <1>12. hs' = [hs EXCEPT ![h] = r]
    BY <1>0, <1>2, <1>10, <1>11 DEF FlightFits
  <1>13. ASSUME NEW i \in 1 .. Len(s)
         PROVE  todo[i] \in Members /\ MemberFits("push", todo[i])
    <2>1. s[i] \in Pending /\ ChangeOf(s[i]) \in Changes /\ s[i] \in Nat
      BY <1>0, <1>8 DEF GitFits, Pending, Commits
    <2> QED
      BY <1>9, <2>1 DEF Members, MemberFits, HeadOf, Landing
  <1>14. todo \in Seq(Members) /\ Len(todo) = Len(s) /\ todo # << >>
    <2>1. Len(s) \in Nat
      BY <1>8
    <2>2. todo \in Seq(Members) /\ Len(todo) = Len(s)
      BY <1>9, <1>13, <2>1, IsASeq
    <2> QED
      BY <1>8, <2>2
  <1>15. r \in Requests /\ r.todo = todo /\ r.pc = "write" /\ r.kind = "push"
    BY <1>3, <1>11, <1>14 DEF Requests
  <1>16. ASSUME NEW i \in 1 .. Len(r.todo) PROVE MemberFits(r.kind, r.todo[i])'
    <2>1. PICK m : m = todo[i]
      OBVIOUS
    <2>2. MemberFits("push", m)
      BY <1>13, <1>14, <1>15, <2>1
    <2> QED
      BY <1>1, <1>15, <2>1, <2>2, Stays
  <1>17. FlightFits'
    BY <1>0, <1>1, <1>12, <1>14, <1>15, <1>16, BeginFits DEF Writing
  <1> QED
    BY <1>0, <1>1, <1>17, OrderKept, RowsStay DEF StackIInv, Kept

LEMMA IdleFits ==
  ASSUME FlightFits, Kept, NEW h \in Actors, hs' = [hs EXCEPT ![h] = Idle]
  PROVE  FlightFits'
  <1>1. Idle \in Requests /\ RequestFits(Idle)
    BY DEF Idle, Requests, RequestFits
  <1>2. RequestFits(Idle)'
    BY <1>1, RequestStays
  <1> QED
    BY <1>1, <1>2, OneMoves

\* A request that goes on holds the rest of what it held.
LEMMA RestFits ==
  ASSUME FlightFits, Kept, NEW h \in Actors, NEW q \in {hs[h]}, q.todo # << >>, q.pc # "idle",
         NEW r, r = [q EXCEPT !.todo = Tail(@)] \/ r = [q EXCEPT !.pc = "next", !.todo = Tail(@)]
  PROVE  /\ r \in Requests /\ r.kind = q.kind /\ r.todo = Tail(q.todo)
         /\ Len(r.todo) = Len(q.todo) - 1
         /\ \A i \in 1 .. Len(r.todo) : MemberFits(r.kind, r.todo[i])'
  <1>1. q \in Requests /\ RequestFits(q)
    BY DEF FlightFits
  <1>2. q.todo \in Seq(Members) /\ Len(q.todo) \in Nat /\ Len(q.todo) # 0
    BY <1>1 DEF Requests
  <1>3. /\ Tail(q.todo) \in Seq(Members) /\ Len(Tail(q.todo)) = Len(q.todo) - 1
        /\ \A i \in 1 .. Len(q.todo) - 1 : Tail(q.todo)[i] = q.todo[i + 1]
    BY <1>2
  <1>4. r \in Requests /\ r.kind = q.kind /\ r.todo = Tail(q.todo)
    <2>1. CASE r = [q EXCEPT !.todo = Tail(@)]
      BY <1>1, <1>3, <2>1 DEF Requests
    <2>2. CASE r = [q EXCEPT !.pc = "next", !.todo = Tail(@)]
      BY <1>1, <1>3, <2>2 DEF Requests
    <2> QED
      BY <2>1, <2>2
  <1>5. ASSUME NEW i \in 1 .. Len(r.todo) PROVE MemberFits(r.kind, r.todo[i])'
    <2>1. PICK m : m = r.todo[i]
      OBVIOUS
    <2>2. i + 1 \in 1 .. Len(q.todo) /\ m = q.todo[i + 1]
      BY <1>2, <1>3, <1>4, <2>1
    <2>3. MemberFits(q.kind, m)
      BY <1>1, <2>2 DEF RequestFits
    <2> QED
      BY <1>4, <2>1, <2>3, Stays
  <1> QED
    BY <1>3, <1>4, <1>5

LEMMA FollowingFits ==
  ASSUME FlightFits, Kept, NEW h \in Actors, Following(h),
         hs[h].kind \in {"stack", "sweep"}, hs[h].todo # << >>, hs[h].pc # "idle"
  PROVE  FlightFits'
  <1>1. PICK q : q = hs[h]
    OBVIOUS
  <1>2. PICK r : r = [q EXCEPT !.pc = "next", !.todo = Tail(@)]
    OBVIOUS
  <1>3. hs' = [hs EXCEPT ![h] = r]
    BY <1>1, <1>2 DEF Following, FlightFits
  <1>4. /\ r \in Requests /\ r.kind = q.kind
        /\ \A i \in 1 .. Len(r.todo) : MemberFits(r.kind, r.todo[i])'
    BY <1>1, <1>2, RestFits
  <1>5. q \in Requests /\ r.pc = "next"
    BY <1>1, <1>2 DEF FlightFits, Requests
  <1>6. RequestFits(r)'
    BY <1>1, <1>4, <1>5 DEF RequestFits, Writing, Landing
  <1> QED
    BY <1>3, <1>4, <1>6, OneMoves

LEMMA StopFits ==
  ASSUME FlightFits, Kept, NEW h \in Actors, Stop(h), hs[h].todo # << >>, hs[h].pc # "idle"
  PROVE  FlightFits'
  BY IdleFits, FollowingFits DEF Stop

\* One row moves, and no other.
LEMMA OneRowMoves ==
  ASSUME RowsFit, Kept, NEW c \in Changes, NEW r \in Rows,
         row' = [row EXCEPT ![c] = r], RowFits(c, r)'
  PROVE  RowsFit'
  <1>1. row' \in [Changes -> Rows] /\ row'[c] = r
        /\ \A d \in Changes : d # c => row'[d] = row[d]
    BY DEF RowsFit
  <1>2. ASSUME NEW d \in Changes, NEW x \in {row'[d]} PROVE RowFits(d, x)'
    <2>1. CASE d = c
      BY <1>1, <1>2, <2>1
    <2>2. CASE d # c
      <3>1. x \in {row[d]}
        BY <1>1, <1>2, <2>2
      <3>2. RowFits(d, x)
        BY <3>1 DEF RowsFit
      <3> QED
        BY <3>2, RowStays
    <2> QED
      BY <2>1, <2>2
  <1> QED
    BY <1>1, <1>2 DEF RowsFit

LEMMA UpsertFits ==
  ASSUME RowsFit, Kept, NEW m \in Members, HeadOf(m.head, m.change), m.base \in Commits,
         Upsert(m)
  PROVE  RowsFit'
  <1> DEFINE c == m.change
             old == row[c]
  <1>1. /\ c \in Changes /\ m.head \in Nat /\ m.base \in Nat /\ m.head # 0
        /\ row \in [Changes -> Rows]
    BY DEF Members, RowsFit, HeadOf, Pending, Commits
  <1>2. PICK new : new = [old EXCEPT !.head = m.head, !.base = m.base,
                                     !.state = IF @ = "landed" THEN @ ELSE "open"]
    OBVIOUS
  <1>3. row' = [row EXCEPT ![c] = new]
    BY <1>1, <1>2 DEF Upsert
  <1>4. /\ new \in Rows /\ new.head = m.head /\ new.base = m.base /\ new.landed = old.landed
        /\ new.state = IF old.state = "landed" THEN "landed" ELSE "open"
    <2>1. old \in Rows
      BY <1>1
    <2> HIDE DEF old
    <2> QED
      BY <1>1, <1>2, <2>1 DEF Rows
  <1>5. RowFits(c, new)
    BY <1>1, <1>4 DEF RowsFit, RowFits
  <1> HIDE DEF c, old
  <1> QED
    BY <1>1, <1>3, <1>4, <1>5, OneRowMoves, RowStays DEF c

LEMMA WriteKept == ASSUME StackIInv, NEW h \in Actors, WriteMember(h) PROVE StackIInv'
  <1>0. GitFits /\ RowsFit /\ FlightFits /\ ParentsLandFirst
        /\ UNCHANGED git /\ trunk' = trunk
    BY DEF StackIInv, WriteMember, git
  <1>1. Kept
    BY <1>0, NothingMade
  <1>2. PICK q : q = hs[h]
    OBVIOUS
  <1>3. q \in Requests /\ RequestFits(q) /\ q.pc = "write" /\ q.kind \in Writing
    BY <1>0, <1>2 DEF FlightFits, WriteMember, At, RequestFits
  <1>4. q.todo # << >> /\ q.todo \in Seq(Members)
    BY <1>3 DEF RequestFits, Requests
  <1>5. PICK m : m = Cur(h)
    OBVIOUS
  <1>6. 1 \in 1 .. Len(q.todo) /\ m = q.todo[1] /\ m \in Members
    BY <1>2, <1>4, <1>5 DEF Cur
  <1>7. HeadOf(m.head, m.change) /\ (q.kind = "sync" => m.base \in Commits)
    BY <1>3, <1>6 DEF RequestFits, MemberFits, Writing
  <1>8. RowsFit'
    <2>1. CASE hs[h].kind = "push" /\ Upsert([m EXCEPT !.base = BaseOf(m.head)])
      <3>1. PICK n : n = [m EXCEPT !.base = BaseOf(m.head)]
        OBVIOUS
      <3>2. BaseOf(m.head) \in Commits /\ BaseOf(m.head) \in Nat
        BY <1>0, <1>7, BaseIs DEF HeadOf, Commits
      <3>3. n \in Members /\ n.head = m.head /\ n.change = m.change /\ n.base \in Commits
        BY <1>6, <3>1, <3>2 DEF Members
      <3> QED
        BY <1>0, <1>1, <1>7, <2>1, <3>1, <3>3, UpsertFits
    <2>2. CASE hs[h].kind = "sync" /\ Upsert(m)
      BY <1>0, <1>1, <1>2, <1>6, <1>7, <2>2, UpsertFits
    <2>3. CASE row' = row
      BY <1>0, <1>1, <2>3, RowsStay
    <2> QED
      BY <1>5, <2>1, <2>2, <2>3 DEF WriteMember
  <1>9. FlightFits'
    <2>1. CASE hs' = [hs EXCEPT ![h] = Idle]
      BY <1>0, <1>1, <2>1, IdleFits
    <2>2. CASE hs' = [hs EXCEPT ![h].todo = Tail(@)] /\ Len(hs[h].todo) # 1
      <3>1. PICK r : r = [q EXCEPT !.todo = Tail(@)]
        OBVIOUS
      <3>2. hs' = [hs EXCEPT ![h] = r]
        BY <1>0, <1>2, <2>2, <3>1 DEF FlightFits
      <3>3. /\ r \in Requests /\ r.kind = q.kind /\ Len(r.todo) = Len(q.todo) - 1
            /\ \A i \in 1 .. Len(r.todo) : MemberFits(r.kind, r.todo[i])'
        BY <1>0, <1>1, <1>2, <1>3, <1>4, <3>1, RestFits
      <3>4. r.pc = "write" /\ r.todo # << >>
        <4>1. r.pc = "write"
          BY <1>3, <3>1 DEF Requests
        <4>2. Len(q.todo) \in Nat /\ Len(q.todo) # 0 /\ Len(q.todo) # 1
          BY <1>2, <1>4, <2>2
        <4>3. Len(r.todo) # 0 /\ r.todo \in Seq(Members)
          BY <3>3, <4>2 DEF Requests
        <4> QED
          BY <4>1, <4>3
      <3> QED
        BY <1>0, <1>1, <1>3, <3>2, <3>3, <3>4, BeginFits
    <2> QED
      BY <2>1, <2>2 DEF WriteMember
  <1> QED
    BY <1>0, <1>1, <1>8, <1>9, OrderKept DEF StackIInv, Kept

LEMMA TakeKept == ASSUME StackIInv, NEW h \in Actors, TakeNext(h) PROVE StackIInv'
  <1>0. GitFits /\ RowsFit /\ FlightFits /\ ParentsLandFirst
        /\ UNCHANGED <<git, row>> /\ trunk' = trunk
    BY DEF StackIInv, TakeNext, git
  <1>1. Kept
    BY <1>0, NothingMade
  <1>2. PICK q : q = hs[h]
    OBVIOUS
  <1>3. q \in Requests /\ RequestFits(q) /\ q.pc = "next" /\ q.kind \in {"stack", "sweep"}
    BY <1>0, <1>2 DEF FlightFits, TakeNext, At
  <1>4. CASE hs' = [hs EXCEPT ![h] = Idle]
    BY <1>0, <1>1, <1>4, IdleFits, OrderKept, RowsStay DEF StackIInv, Kept
  <1>5. CASE hs[h].todo # << >> /\ (Following(h) \/ Stop(h))
    <2>1. FlightFits'
      BY <1>0, <1>1, <1>2, <1>3, <1>5, FollowingFits, StopFits
    <2> QED
      BY <1>0, <1>1, <2>1, OrderKept, RowsStay DEF StackIInv, Kept
  <1>6. CASE hs[h].todo # << >> /\ Goto(h, "gate")
    <2>1. PICK r : r = [q EXCEPT !.pc = "gate"]
      OBVIOUS
    <2>2. hs' = [hs EXCEPT ![h] = r]
      BY <1>0, <1>2, <1>6, <2>1 DEF Goto, FlightFits
    <2>3. r \in Requests /\ r.pc = "gate" /\ r.kind = q.kind /\ r.todo = q.todo
      BY <1>3, <2>1 DEF Requests
    <2>4. ASSUME NEW i \in 1 .. Len(r.todo) PROVE MemberFits(r.kind, r.todo[i])'
      BY <1>1, <1>3, <2>3, Stays DEF RequestFits
    <2>5. r.todo # << >> /\ r.kind \in Landing
      BY <1>2, <1>3, <1>6, <2>3 DEF Landing
    <2>6. FlightFits'
      BY <1>0, <1>1, <2>2, <2>3, <2>4, <2>5, BeginFits
    <2> QED
      BY <1>0, <1>1, <2>6, OrderKept, RowsStay DEF StackIInv, Kept
  <1>7. CASE /\ hs[h].todo # << >> /\ hs[h].kind = "stack"
             /\ row[Cur(h).change].state = "open"
             /\ hs' = [hs EXCEPT ![h].pc = "gate", ![h].todo[1] = MemberOf(Cur(h).change)]
    <2>1. PICK c : c = Cur(h).change
      OBVIOUS
    <2>2. PICK m : m = MemberOf(c)
      OBVIOUS
    <2>3. q.todo \in Seq(Members) /\ q.todo # << >> /\ Len(q.todo) \in Nat
          /\ 1 \in 1 .. Len(q.todo)
      BY <1>2, <1>3, <1>7 DEF Requests
    <2>4. c \in Changes
      <3>1. q.todo[1] \in Members /\ Cur(h) = q.todo[1]
        BY <1>2, <2>3 DEF Cur
      <3> QED
        BY <2>1, <3>1 DEF Members
    <2>5. c \in Open
      BY <1>7, <2>1, <2>4 DEF Open
    <2>6. m \in Members /\ MemberFits("stack", m)
      BY <1>0, <2>2, <2>5, OpenFits DEF Writing
    <2>7. PICK todo : todo = [q.todo EXCEPT ![1] = m]
      OBVIOUS
    <2>8. todo \in Seq(Members) /\ Len(todo) = Len(q.todo) /\ todo # << >> /\ todo[1] = m
          /\ \A i \in 1 .. Len(todo) : i # 1 => todo[i] = q.todo[i]
      BY <2>3, <2>6, <2>7
    <2>9. PICK r : r = [q EXCEPT !.pc = "gate", !.todo = todo]
      OBVIOUS
    <2>10. hs' = [hs EXCEPT ![h] = r]
      BY <1>0, <1>2, <1>3, <1>7, <2>1, <2>2, <2>7, <2>9 DEF FlightFits, Requests
    <2>11. r \in Requests /\ r.pc = "gate" /\ r.kind = "stack" /\ r.todo = todo
      BY <1>2, <1>3, <1>7, <2>8, <2>9 DEF Requests
    <2>12. ASSUME NEW i \in 1 .. Len(r.todo) PROVE MemberFits(r.kind, r.todo[i])'
      <3>1. MemberFits("stack", todo[i])
        BY <1>2, <1>3, <1>7, <2>6, <2>8, <2>11 DEF RequestFits
      <3>2. PICK x : x = todo[i]
        OBVIOUS
      <3>3. MemberFits("stack", x)'
        BY <1>1, <3>1, <3>2, Stays
      <3> QED
        BY <2>11, <3>2, <3>3
    <2>13. FlightFits'
      BY <1>0, <1>1, <2>8, <2>10, <2>11, <2>12, BeginFits DEF Landing
    <2> QED
      BY <1>0, <1>1, <2>13, OrderKept, RowsStay DEF StackIInv, Kept
  <1> QED
    BY <1>2, <1>3, <1>4, <1>5, <1>6, <1>7 DEF TakeNext

\* The base gate, and what it says: the Change the base is of is on trunk.
LEMMA GateSays ==
  ASSUME GitFits, RowsFit, NEW b \in Commits, BaseGate(b)
  PROVE  BaseLanded(b)
  <1>1. CASE OnTrunk(b)
    BY <1>1 DEF BaseLanded
  <1>2. ASSUME NEW d \in WithHead(b), row[d].state = "landed", OnTrunk(row[d].landed)
        PROVE  BaseLanded(b)
    <2>1. d \in Changes /\ row[d].head = b /\ b # 0
      BY DEF WithHead, Commits
    <2>2. ChangeOf(b) = d /\ ChangeOf(row[d].landed) = d
      BY <1>2, <2>1 DEF RowsFit, RowFits, HeadOf, LandedAs
    <2>3. PICK j \in 1 .. Len(trunk) : trunk[j].sha = row[d].landed
      BY <1>2 DEF OnTrunk
    <2> QED
      BY <2>2, <2>3 DEF BaseLanded, OnTrunkAs
  <1> QED
    BY <1>1, <1>2 DEF BaseGate

LEMMA GateKept == ASSUME StackIInv, NEW h \in Actors, LandGate(h) PROVE StackIInv'
  <1>0. GitFits /\ RowsFit /\ FlightFits /\ ParentsLandFirst
        /\ UNCHANGED <<git, row>> /\ trunk' = trunk
    BY DEF StackIInv, LandGate, git
  <1>1. Kept
    BY <1>0, NothingMade
  <1>2. PICK q : q = hs[h]
    OBVIOUS
  <1>3. q \in Requests /\ RequestFits(q) /\ q.pc = "gate" /\ q.kind \in Landing
    BY <1>0, <1>2 DEF FlightFits, LandGate, At, RequestFits
  <1>4. q.todo # << >> /\ q.todo \in Seq(Members)
    BY <1>3 DEF RequestFits, Requests
  <1>5. PICK m : m = Cur(h)
    OBVIOUS
  <1>6. 1 \in 1 .. Len(q.todo) /\ m = q.todo[1] /\ m \in Members
    BY <1>2, <1>4, <1>5 DEF Cur
  <1>7. m.base \in Commits
    BY <1>3, <1>6 DEF RequestFits, MemberFits, Landing
  <1>8. FlightFits'
    <2>1. CASE Stop(h)
      BY <1>0, <1>1, <1>2, <1>3, <1>4, <2>1, StopFits
    <2>2. CASE /\ Mergeable(m) \/ hs[h].force
               /\ hs' = [hs EXCEPT ![h].pc = "attempt", ![h].force = @ /\ ~Mergeable(m)]
      <3>1. PICK g \in BOOLEAN : g = (q.force /\ ~Mergeable(m))
        OBVIOUS
      <3>2. PICK r : r = [q EXCEPT !.pc = "attempt", !.force = g]
        OBVIOUS
      <3>3. hs' = [hs EXCEPT ![h] = r]
        BY <1>0, <1>2, <2>2, <3>1, <3>2 DEF FlightFits
      <3>4. r \in Requests /\ r.pc = "attempt" /\ r.kind = q.kind /\ r.todo = q.todo
            /\ r.force = g
        BY <1>3, <3>2 DEF Requests
      <3>5. ~g => BaseLanded(m.base)
        BY <1>0, <1>2, <1>7, <2>2, <3>1, GateSays DEF Mergeable
      <3>6. RequestFits(r)
        BY <1>3, <1>4, <1>6, <3>4, <3>5 DEF RequestFits, Landing, Writing
      <3>7. RequestFits(r)'
        BY <1>1, <3>4, <3>6, RequestStays
      <3> QED
        BY <1>0, <1>1, <3>3, <3>4, <3>7, OneMoves
    <2> QED
      BY <1>5, <2>1, <2>2 DEF LandGate
  <1> QED
    BY <1>0, <1>1, <1>8, OrderKept, RowsStay DEF StackIInv, Kept

LEMMA AttemptKept == ASSUME StackIInv, NEW h \in Actors, LandAttempt(h) PROVE StackIInv'
  <1>0. GitFits /\ RowsFit /\ FlightFits /\ ParentsLandFirst /\ row' = row
    BY DEF StackIInv, LandAttempt
  <1>2. PICK q : q = hs[h]
    OBVIOUS
  <1>3. q \in Requests /\ RequestFits(q) /\ q.pc = "attempt" /\ q.kind \in Landing
    BY <1>0, <1>2 DEF FlightFits, LandAttempt, At, RequestFits
  <1>4. q.todo # << >> /\ q.todo \in Seq(Members) /\ q.force \in BOOLEAN
    BY <1>3 DEF RequestFits, Requests
  <1>5. PICK m : m = Cur(h)
    OBVIOUS
  <1>6. 1 \in 1 .. Len(q.todo) /\ m = q.todo[1] /\ m \in Members
    BY <1>2, <1>4, <1>5 DEF Cur
  <1>7. m.base \in Commits /\ m.head \in Commits /\ m.change \in Changes
        /\ (~q.force => BaseLanded(m.base))
    BY <1>3, <1>6 DEF RequestFits, MemberFits, Landing, Members
  <1>8. CASE Stop(h) /\ UNCHANGED git
    <2>1. Kept /\ trunk' = trunk
      BY <1>0, <1>8, NothingMade DEF git
    <2>2. FlightFits'
      BY <1>0, <1>2, <1>3, <1>4, <1>8, <2>1, StopFits
    <2> QED
      BY <1>0, <2>1, <2>2, OrderKept, RowsStay DEF StackIInv, Kept
  <1>9. ASSUME commits' = Append(commits, [change |-> m.change, parent |-> Tip,
                                           delta |-> commits[m.head].delta]),
               trunk' = Append(trunk, [sha |-> Len(commits) + 1, head |-> m.head,
                                       base |-> m.base, forced |-> hs[h].force]),
               hs' = [hs EXCEPT ![h].pc = "record", ![h].todo[1].old = Len(commits) + 1]
        PROVE  StackIInv'
    <2>1. PICK n : n = Len(commits) + 1
      OBVIOUS
    <2>2. PICK x : x = [change |-> m.change, parent |-> Tip, delta |-> commits[m.head].delta]
      OBVIOUS
    <2>3. PICK t : t = [sha |-> n, head |-> m.head, base |-> m.base, forced |-> q.force]
      OBVIOUS
    <2>4. Tip \in Commits /\ OnTrunk(Tip)
      BY <1>0, TipIs
    <2>5. /\ Len(commits) \in Nat /\ n \in Nat /\ commits \in Seq(Commit)
          /\ Commits = 1 .. Len(commits) /\ Commits \subseteq Nat
      BY <1>0, <2>1, Older DEF GitFits, Commits
    <2>6. x \in Commit /\ x.change = m.change /\ x.parent = Tip
      <3>1. commits[m.head] \in Commit
        BY <1>7, <2>5
      <3> QED
        BY <1>7, <2>2, <2>4, <2>5, <3>1 DEF Commit
    <2>7. t \in Landed /\ t.sha = n /\ t.head = m.head /\ t.base = m.base /\ t.forced = q.force
      BY <1>4, <1>7, <2>3, <2>5 DEF Landed
    <2>8. /\ commits' \in Seq(Commit) /\ Len(commits') = n /\ commits'[n] = x
          /\ \A k \in Commits : commits'[k] = commits[k]
          /\ Commits' = 1 .. n
      BY <1>9, <2>1, <2>2, <2>5, <2>6 DEF Commits
    <2> DEFINE T == Len(trunk)
    <2>9. T \in Nat /\ trunk \in Seq(Landed)
      BY <1>0 DEF GitFits
    <2>10. /\ trunk' \in Seq(Landed) /\ Len(trunk') = T + 1 /\ trunk'[T + 1] = t
           /\ \A i \in 1 .. T : trunk'[i] = trunk[i]
      BY <1>2, <1>9, <2>1, <2>3, <2>7, <2>9
    <2>11. \A k \in Commits : OnTrunk(k)' <=> OnTrunk(k)
      <3>1. \A i \in 1 .. T + 1 : i \in 1 .. T \/ i = T + 1
        BY <2>9
      <3>2. n \notin Commits
        BY <2>1, <2>5
      <3> QED
        BY <2>7, <2>9, <2>10, <3>1, <3>2 DEF OnTrunk
    <2>12. OnTrunk(n)'
      BY <2>7, <2>9, <2>10 DEF OnTrunk
    <2>13. \A k \in Commits' : k \in Commits \/ k = n
      BY <2>1, <2>5, <2>8
    <2>14. Commits \subseteq Commits' /\ n \in Commits'
      BY <2>1, <2>5, <2>8
    <2>15. \A k \in Commits' : commits'[k].parent < k
      <3>1. Tip < n
        BY <2>1, <2>4, <2>5
      <3> QED
        BY <1>0, <2>6, <2>8, <2>13, <3>1 DEF GitFits
    <2>16. ASSUME NEW k \in Pending'
           PROVE  commits'[k].change \in Changes /\ commits'[k].parent \in Commits'
      <3>1. k \in Commits' /\ ~OnTrunk(k)'
        BY DEF Pending
      <3>2. k \in Pending
        BY <2>11, <2>12, <2>13, <3>1 DEF Pending
      <3> QED
        BY <1>0, <2>8, <2>14, <3>2 DEF GitFits, ChangeOf, Pending
    <2>17. ASSUME NEW i \in 1 .. Len(trunk')
           PROVE  trunk'[i].sha \in Commits' /\ (trunk'[i].head # 0 => trunk'[i].base \in Commits')
      <3>1. CASE i = T + 1
        BY <1>7, <2>7, <2>10, <2>14, <3>1
      <3>2. CASE i # T + 1
        <4>1. i \in 1 .. T
          BY <2>9, <2>10, <3>2
        <4> QED
          BY <1>0, <2>10, <2>14, <4>1 DEF GitFits
      <3> QED
        BY <3>1, <3>2
    <2>18. GitFits'
      <3>1. trunk' # << >>
        BY <2>9, <2>10
      <3> QED
        BY <2>8, <2>10, <2>15, <2>16, <2>17, <3>1 DEF GitFits, ChangeOf
    <2>19. ASSUME NEW k \in Commits, BaseLanded(k) PROVE BaseLanded(k)'
      <3>1. CASE OnTrunk(k)
        BY <2>11, <3>1 DEF BaseLanded
      <3>2. ASSUME NEW j \in 1 .. T, ChangeOf(trunk[j].sha) = ChangeOf(k)
            PROVE  BaseLanded(k)'
        <4>1. j \in 1 .. Len(trunk') /\ trunk'[j].sha = trunk[j].sha /\ trunk[j].sha \in Commits
          BY <1>0, <2>9, <2>10 DEF GitFits
        <4>2. commits'[trunk'[j].sha].change = commits'[k].change
          BY <2>8, <3>2, <4>1 DEF ChangeOf
        <4> QED
          BY <4>1, <4>2 DEF BaseLanded, OnTrunkAs, ChangeOf
      <3> QED
        BY <2>19, <3>1, <3>2 DEF BaseLanded, OnTrunkAs
    <2>20. Kept
      BY <2>8, <2>11, <2>14, <2>18, <2>19 DEF Kept
    <2>21. LandedAs(n, m.change)'
      BY <2>6, <2>8, <2>12, <2>14 DEF LandedAs, ChangeOf
    <2>22. FlightFits'
      <3>1. PICK y : y = [m EXCEPT !.old = n]
        OBVIOUS
      <3>2. PICK todo : todo = [q.todo EXCEPT ![1] = y]
        OBVIOUS
      <3>3. y \in Members /\ y.change = m.change /\ y.head = m.head /\ y.base = m.base
            /\ y.old = n
        BY <1>6, <2>5, <3>1 DEF Members
      <3>4. todo \in Seq(Members) /\ Len(todo) = Len(q.todo) /\ todo # << >> /\ todo[1] = y
            /\ \A i \in 1 .. Len(todo) : i # 1 => todo[i] = q.todo[i]
        BY <1>4, <1>6, <3>2, <3>3
      <3>5. PICK r : r = [q EXCEPT !.pc = "record", !.todo = todo]
        OBVIOUS
      <3>6. r \in Requests /\ r.pc = "record" /\ r.kind = q.kind /\ r.todo = todo
        BY <1>3, <3>4, <3>5 DEF Requests
      <3>7. hs' = [hs EXCEPT ![h] = r]
        BY <1>0, <1>2, <1>3, <1>6, <1>9, <2>1, <3>1, <3>2, <3>5 DEF FlightFits, Requests
      <3>8. ASSUME NEW i \in 1 .. Len(todo) PROVE MemberFits(q.kind, todo[i])'
        <4>1. MemberFits(q.kind, q.todo[i]) /\ i \in 1 .. Len(q.todo)
          BY <1>3, <3>4 DEF RequestFits
        <4>2. MemberFits(q.kind, todo[i])
          BY <1>3, <1>6, <3>3, <3>4, <4>1 DEF MemberFits, Landing, Writing
        <4>3. PICK z : z = todo[i]
          OBVIOUS
        <4>4. MemberFits(q.kind, z)'
          BY <2>20, <4>2, <4>3, Stays
        <4> QED
          BY <4>3, <4>4
      <3>9. RequestFits(r)'
        <4>1. LandedAs(r.todo[1].old, r.todo[1].change)'
          BY <2>21, <3>3, <3>4, <3>6
        <4> QED
          BY <1>3, <3>4, <3>6, <3>8, <4>1 DEF RequestFits, Landing, Writing
      <3> QED
        BY <1>0, <2>20, <3>6, <3>7, <3>9, OneMoves
    <2>23. ParentsLandFirst'
      <3> SUFFICES ASSUME NEW i \in 1 .. Len(trunk'), trunk'[i].head # 0, ~trunk'[i].forced,
                          \A j \in 1 .. Len(trunk') : trunk'[j].sha # trunk'[i].base
                   PROVE  \E j \in 1 .. i - 1 :
                             commits'[trunk'[j].sha].change = commits'[trunk'[i].base].change
        BY DEF ParentsLandFirst, StackedLands, ChangeOf, OnTrunk
      <3>0. ASSUME NEW b \in Commits, b = trunk'[i].base PROVE ~OnTrunk(b)
        <4>1. ~OnTrunk(b)'
          BY <3>0 DEF OnTrunk
        <4> QED
          BY <2>11, <4>1
      <3>1. ASSUME NEW j \in 1 .. T, NEW b \in Commits, ChangeOf(trunk[j].sha) = ChangeOf(b)
            PROVE  commits'[trunk'[j].sha].change = commits'[b].change
        BY <1>0, <2>8, <2>10, <3>1 DEF GitFits, ChangeOf
      <3>2. CASE i = T + 1
        <4>1. trunk'[i].base = m.base /\ ~q.force /\ ~OnTrunk(m.base)
          BY <1>7, <2>7, <2>10, <3>0, <3>2
        <4>2. PICK j \in 1 .. T : ChangeOf(trunk[j].sha) = ChangeOf(m.base)
          BY <1>7, <4>1 DEF BaseLanded, OnTrunkAs
        <4>3. j \in 1 .. i - 1
          BY <2>9, <3>2
        <4> QED
          BY <1>7, <3>1, <4>1, <4>2, <4>3
      <3>3. CASE i # T + 1
        <4>1. i \in 1 .. T /\ trunk'[i] = trunk[i] /\ trunk[i].base \in Commits
              /\ ~OnTrunk(trunk[i].base)
          BY <1>0, <2>9, <2>10, <3>0, <3>3 DEF GitFits
        <4>2. PICK j \in 1 .. i - 1 : ChangeOf(trunk[j].sha) = ChangeOf(trunk[i].base)
          BY <1>0, <4>1 DEF ParentsLandFirst, StackedLands
        <4>3. j \in 1 .. T
          BY <2>9, <4>1
        <4> QED
          BY <3>1, <4>1, <4>2, <4>3
      <3> QED
        BY <3>2, <3>3
    <2> QED
      BY <1>0, <2>18, <2>20, <2>22, <2>23, RowsStay DEF StackIInv
  <1> QED
    BY <1>5, <1>8, <1>9 DEF LandAttempt

LEMMA MarkKept == ASSUME StackIInv, NEW h \in Actors, MarkLanded(h) PROVE StackIInv'
  <1>0. GitFits /\ RowsFit /\ FlightFits /\ ParentsLandFirst
        /\ UNCHANGED git /\ trunk' = trunk
    BY DEF StackIInv, MarkLanded, git
  <1>1. Kept
    BY <1>0, NothingMade
  <1>2. PICK q : q = hs[h]
    OBVIOUS
  <1>3. q \in Requests /\ RequestFits(q) /\ q.pc = "record"
    BY <1>0, <1>2 DEF FlightFits, MarkLanded, At
  <1>4. q.todo # << >> /\ q.todo \in Seq(Members) /\ q.kind \in Landing
    BY <1>3 DEF RequestFits, Requests
  <1>5. PICK m : m = Cur(h)
    OBVIOUS
  <1>6. m = q.todo[1] /\ m \in Members
    BY <1>2, <1>4, <1>5 DEF Cur
  <1>7. LandedAs(m.old, m.change) /\ m.change \in Changes /\ m.old \in Nat
    BY <1>3, <1>6 DEF RequestFits, Members
  <1>8. RowsFit'
    <2>1. PICK c : c = m.change
      OBVIOUS
    <2>2. PICK old : old = row[c]
      OBVIOUS
    <2>3. PICK r : r = [old EXCEPT !.state = "landed", !.landed = m.old]
      OBVIOUS
    <2>4. old \in Rows /\ RowFits(c, old)
      BY <1>0, <1>7, <2>1, <2>2 DEF RowsFit
    <2>5. r \in Rows /\ r.head = old.head /\ r.base = old.base
          /\ r.state = "landed" /\ r.landed = m.old
      BY <1>7, <2>3, <2>4 DEF Rows
    <2>6. row' = [row EXCEPT ![c] = r]
      BY <1>0, <1>5, <1>7, <2>1, <2>2, <2>3 DEF MarkLanded, RowsFit, Rows
    <2>7. RowFits(c, r)
      BY <1>7, <2>1, <2>4, <2>5 DEF RowFits
    <2> QED
      BY <1>0, <1>1, <1>7, <2>1, <2>5, <2>6, <2>7, OneRowMoves, RowStays
  <1>9. FlightFits'
    <2>1. CASE hs[h].kind = "land"
      BY <1>0, <1>1, <2>1, IdleFits DEF MarkLanded
    <2>2. CASE hs[h].kind # "land"
      <3>1. Following(h) /\ hs[h].kind \in {"stack", "sweep"} /\ hs[h].todo # << >>
            /\ hs[h].pc # "idle"
        BY <1>2, <1>3, <1>4, <2>2 DEF MarkLanded, Landing
      <3> QED
        BY <1>0, <1>1, <3>1, FollowingFits
    <2> QED
      BY <2>1, <2>2
  <1> QED
    BY <1>0, <1>1, <1>8, <1>9, OrderKept DEF StackIInv, Kept

\* A Change that is abandoned, armed or disarmed.
LEMMA AuthorKept ==
  ASSUME StackIInv, NEW c \in Changes, ReportGates(c) \/ Abandon(c) \/ SetAutomerge(c)
  PROVE  StackIInv'
  <1>0. GitFits /\ RowsFit /\ FlightFits /\ ParentsLandFirst
        /\ UNCHANGED git /\ trunk' = trunk /\ hs' = hs
    BY DEF StackIInv, ReportGates, Abandon, SetAutomerge, git
  <1>1. Kept
    BY <1>0, NothingMade
  <1>2. PICK old : old = row[c]
    OBVIOUS
  <1>3. old \in Rows /\ RowFits(c, old) /\ row \in [Changes -> Rows]
    BY <1>0, <1>2 DEF RowsFit
  <1>4. ASSUME NEW r \in Rows, row' = [row EXCEPT ![c] = r], r.head = old.head,
               r.base = old.base, r.landed = old.landed,
               r.state = old.state \/ r.state = "abandoned"
        PROVE  RowsFit'
    <2>1. RowFits(c, r)
      BY <1>3, <1>4 DEF RowFits
    <2> QED
      BY <1>0, <1>1, <1>4, <2>1, OneRowMoves, RowStays
  <1>5. RowsFit'
    <2>1. CASE ReportGates(c)
      BY <1>0, <1>1, <2>1, RowsStay DEF ReportGates
    <2>2. CASE Abandon(c)
      <3>1. PICK r : r = [old EXCEPT !.state = "abandoned"]
        OBVIOUS
      <3>2. row' = [row EXCEPT ![c] = r]
        BY <1>2, <1>3, <2>2, <3>1 DEF Abandon
      <3>3. r \in Rows /\ r.head = old.head /\ r.base = old.base
            /\ r.landed = old.landed /\ r.state = "abandoned"
        BY <1>3, <3>1 DEF Rows
      <3> QED
        BY <1>4, <3>2, <3>3
    <2>3. CASE SetAutomerge(c)
      <3>1. PICK r : r = [old EXCEPT !.armed = ~@]
        OBVIOUS
      <3>2. row' = [row EXCEPT ![c] = r]
        BY <1>2, <1>3, <2>3, <3>1 DEF SetAutomerge
      <3>3. r \in Rows /\ r.head = old.head /\ r.base = old.base
            /\ r.landed = old.landed /\ r.state = old.state
        BY <1>3, <3>1 DEF Rows
      <3> QED
        BY <1>4, <3>2, <3>3
    <2> QED
      BY <2>1, <2>2, <2>3
  <1> QED
    BY <1>0, <1>1, <1>5, NoneMoves, OrderKept DEF StackIInv, Kept

----------------------------------------------------------------------------
LEMMA StackInitially == ASSUME StackAssumption, Init PROVE StackIInv
  <1> DEFINE L == Len(Stack)
             up(i) == IF i = 1 THEN 1 ELSE i + 1
             x(i) == [change |-> Stack[i], delta |-> i + 2, parent |-> up(i)]
             below == <<[change |-> NoChange, parent |-> 0, delta |-> 1],
                        [change |-> NoChange, parent |-> 1, delta |-> 2]>>
             above == [i \in 1 .. L |-> x(i)]
  <1>1. L \in Nat /\ \A i \in 1 .. L : Stack[i] \in Changes
    BY DEF StackAssumption
  <1>2. \A i \in 1 .. L : up(i) \in Nat /\ x(i) \in Commit
    BY <1>1 DEF Commit
  <1>3. below \in Seq(Commit) /\ Len(below) = 2
    BY DEF Commit
  <1>4. above \in Seq(Commit) /\ Len(above) = L
    <2> HIDE DEF x, L
    <2> QED
      BY <1>1, <1>2, IsASeq
  <1>5. commits = below \o above
    BY Zenon DEF Init
  <1>6. /\ commits \in Seq(Commit) /\ Len(commits) = L + 2
        /\ commits[1] = below[1] /\ commits[2] = below[2]
        /\ \A i \in 1 .. L : commits[i + 2] = above[i]
    <2>1. ASSUME NEW s \in Seq(Commit), NEW t \in Seq(Commit), Len(s) = 2, Len(t) = L
          PROVE  /\ s \o t \in Seq(Commit) /\ Len(s \o t) = L + 2
                 /\ (s \o t)[1] = s[1] /\ (s \o t)[2] = s[2]
                 /\ \A i \in 1 .. L : (s \o t)[i + 2] = t[i]
      <3> HIDE DEF L
      <3>1. /\ s \o t \in Seq(Commit) /\ Len(s \o t) = L + 2
            /\ \A i \in 1 .. L + 2 : (s \o t)[i] = IF i <= 2 THEN s[i] ELSE t[i - 2]
        <4>1. /\ s \o t \in Seq(Commit) /\ Len(s \o t) = Len(s) + Len(t)
              /\ \A i \in 1 .. Len(s) + Len(t) :
                    (s \o t)[i] = IF i <= Len(s) THEN s[i] ELSE t[i - Len(s)]
          BY Zenon, ConcatProperties
        <4>2. Len(s) + Len(t) = L + 2
          BY <1>1, <2>1
        <4> QED
          BY Zenon, <2>1, <4>1, <4>2
      <3>2. \A i \in 1 .. L : i + 2 \in 1 .. L + 2 /\ ~(i + 2 <= 2) /\ (i + 2) - 2 = i
        BY <1>1
      <3> QED
        BY <1>1, <3>1, <3>2
    <2> HIDE DEF below, above, L
    <2> QED
      BY <1>3, <1>4, <1>5, <2>1
  <1>7. /\ commits[1].parent = 0 /\ commits[2].parent = 1
        /\ \A i \in 1 .. L : commits[i + 2].change = Stack[i] /\ commits[i + 2].parent = up(i)
    <2>1. \A i \in 1 .. L : above[i].change = Stack[i] /\ above[i].parent = up(i)
      OBVIOUS
    <2>2. below[1].parent = 0 /\ below[2].parent = 1
      OBVIOUS
    <2> HIDE DEF below, above, up
    <2> QED
      BY <1>6, <2>1, <2>2
  <1> HIDE DEF below, above, x
  <1>8. /\ trunk \in Seq(Landed) /\ Len(trunk) = 2 /\ trunk # << >>
        /\ \A i \in 1 .. 2 : trunk[i].sha = i /\ trunk[i].head = 0
    <2>1. trunk = [i \in 1 .. 2 |-> [sha |-> i, head |-> 0, base |-> 0, forced |-> FALSE]]
      BY Zenon DEF Init
    <2>2. \A i \in 1 .. 2 : [sha |-> i, head |-> 0, base |-> 0, forced |-> FALSE] \in Landed
      BY DEF Landed
    <2>3. trunk \in Seq(Landed)
      BY <2>1, <2>2, IsASeq
    <2> QED
      BY <2>1, <2>3
  <1>9. Commits = 1 .. L + 2 /\ \A k \in Commits : OnTrunk(k) <=> k \in 1 .. 2
    BY <1>1, <1>6, <1>8 DEF Commits, OnTrunk
  <1>10. ASSUME NEW k \in Commits, k \notin 1 .. 2
         PROVE  k - 2 \in 1 .. L /\ commits[k].change = Stack[k - 2] /\ commits[k].parent = up(k - 2)
    <2>1. k - 2 \in 1 .. L /\ (k - 2) + 2 = k
      BY <1>1, <1>9, <1>10
    <2> QED
      BY <1>7, <2>1
  <1>11. GitFits
    <2>1. ASSUME NEW k \in Commits PROVE commits[k].parent < k
      <3>1. CASE k \in 1 .. 2
        BY <1>7, <3>1
      <3>2. CASE k \notin 1 .. 2
        BY <1>1, <1>9, <1>10, <3>2
      <3> QED
        BY <3>1, <3>2
    <2>2. ASSUME NEW k \in Pending
          PROVE  commits[k].change \in Changes /\ commits[k].parent \in Commits
      <3>1. k \in Commits /\ k \notin 1 .. 2
        BY <1>9 DEF Pending
      <3>2. k - 2 \in 1 .. L /\ commits[k].change = Stack[k - 2] /\ commits[k].parent = up(k - 2)
        BY <1>10, <3>1
      <3> QED
        BY <1>1, <1>9, <3>2
    <2>3. \A i \in 1 .. Len(trunk) : trunk[i].sha \in Commits /\ trunk[i].head = 0
      BY <1>1, <1>8, <1>9
    <2> QED
      BY <1>6, <1>8, <2>1, <2>2, <2>3 DEF GitFits, ChangeOf
  <1>12. RowsFit
    <2>1. ASSUME NEW c \in Changes PROVE row[c] \in Rows /\ \A r \in {row[c]} : RowFits(c, r)
      <3>1. CASE \E i \in 1 .. L : Stack[i] = c
        <4>1. PICK i \in 1 .. L : /\ Stack[i] = c
                                  /\ row[c] = [NoRow EXCEPT !.state = "open", !.head = i + 2,
                                                            !.base = up(i)]
          BY Zenon, <3>1 DEF Init
        <4>2. /\ row[c] \in Rows /\ row[c].head = i + 2 /\ row[c].base = up(i)
              /\ row[c].state = "open"
          <5>1. up(i) \in Nat /\ i + 2 \in Nat
            BY <1>1
          <5> HIDE DEF up
          <5>2. PICK no : no = NoRow
            OBVIOUS
          <5>3. no \in Rows
            BY <5>2 DEF NoRow, Rows
          <5>4. row[c] = [no EXCEPT !.state = "open", !.head = i + 2, !.base = up(i)]
            BY <4>1, <5>2
          <5> QED
            BY <5>1, <5>3, <5>4 DEF Rows
        <4>3. i + 2 \in Commits /\ i + 2 \notin 1 .. 2 /\ up(i) \in Commits
          BY <1>1, <1>9
        <4>4. HeadOf(i + 2, c)
          BY <1>7, <1>9, <4>1, <4>3 DEF HeadOf, Pending, ChangeOf
        <4> QED
          BY <4>2, <4>3, <4>4 DEF RowFits
      <3>2. CASE ~\E i \in 1 .. L : Stack[i] = c
        <4>1. row[c] = NoRow
          BY Zenon, <3>2 DEF Init
        <4> QED
          BY <4>1 DEF NoRow, Rows, RowFits
      <3> QED
        BY <3>1, <3>2
    <2>2. \E f : row = [c \in Changes |-> f[c]]
      <3> DEFINE listed == [c \in Changes |->
                IF \E i \in 1 .. Len(Stack) : Stack[i] = c
                THEN LET i == CHOOSE i \in 1 .. Len(Stack) : Stack[i] = c IN
                     [NoRow EXCEPT !.state = "open", !.head = i + 2,
                                   !.base = IF i = 1 THEN 1 ELSE i + 1]
                ELSE NoRow]
      <3>1. row = listed
        BY Zenon DEF Init
      <3>2. listed = [c \in Changes |-> listed[c]]
        BY Zenon
      <3> HIDE DEF listed
      <3> QED
        BY Zenon, <3>1, <3>2
    <2> QED
      BY <2>1, <2>2 DEF RowsFit
  <1>13. FlightFits
    <2>1. hs = [h \in Actors |-> Idle]
      BY Zenon DEF Init
    <2>2. Idle \in Requests /\ RequestFits(Idle)
      BY DEF Idle, Requests, RequestFits
    <2> QED
      BY <2>1, <2>2 DEF FlightFits
  <1>14. ParentsLandFirst
    BY <1>8 DEF ParentsLandFirst, StackedLands
  <1> QED
    BY <1>11, <1>12, <1>13, <1>14 DEF StackIInv

LEMMA StackIsKept == ASSUME StackAssumption, StackIInv, [Next]_vars PROVE StackIInv'
  <1>1. ASSUME NEW h \in Actors, Step(h) PROVE StackIInv'
    BY <1>1, PushSeriesKept, WriteKept, TakeKept, GateKept, AttemptKept, MarkKept DEF Step
  <1>2. ASSUME NEW h \in Handlers, NEW c \in Changes, Request(h, c) PROVE StackIInv'
    BY <1>2, PushKept, SyncKept, LandStackKept, LandRequestKept DEF Request
  <1>3. ASSUME NEW h \in Handlers, NEW n \in 2 .. Len(commits), Repush(h, n) PROVE StackIInv'
    BY <1>3, RepushKept
  <1>4. CASE UNCHANGED vars
    <2>1. /\ GitFits /\ RowsFit /\ FlightFits /\ ParentsLandFirst
          /\ UNCHANGED <<commits, trunk, row, hs>> /\ UNCHANGED git
      BY <1>4 DEF StackIInv, vars, git
    <2>2. Kept
      BY <2>1, NothingMade
    <2> QED
      BY <2>1, <2>2, RowsStay, NoneMoves, OrderKept DEF StackIInv, Kept
  <1> QED
    BY <1>1, <1>2, <1>3, <1>4, AuthorKept, SweepKept DEF Next

\* A Change never lands unforced before the Change it is stacked on, for any
\* number of Changes, requests in flight and commits (refuseUnlandedParent and
\* the base gate of mergeRequirements, between series pushes, syncs, abandons,
\* land-stacks and sweeps).
THEOREM ParentsAreFirst == Spec => []ParentsLandFirst
  <1>1. Init => StackIInv
    BY StackAssumption, StackInitially
  <1>2. StackIInv /\ [Next]_vars => StackIInv'
    BY StackAssumption, StackIsKept
  <1>3. StackIInv => ParentsLandFirst
    BY DEF StackIInv
  <1> QED
    BY <1>1, <1>2, <1>3, PTL DEF Spec

----------------------------------------------------------------------------
(* A stack while it is written in a checkout, from here on.                 *)

\* The values the variables take.
ChangeIds == {"jj", "minted", "pasted"} \X Nat \X Nat
Written == [parent : Nat, ids : Seq(ChangeIds), work : SUBSET Work, wip : BOOLEAN,
            conflict : BOOLEAN]
Commanded ==
    [pc : {"idle"}]
    \cup [pc : {"create", "amend", "reword"}, msg : Messages, large : BOOLEAN,
          staged : SUBSET Work, late : SUBSET Work, id : Seq(ChangeIds)]
    \cup [pc : {"rebase", "stopped", "listed"}, verb : {"sync", "land", "push"}, late : SUBSET Work,
          saved : Seq(Written), kept : SUBSET Work]
    \cup [pc : {"send"}, late : SUBSET Work]

Lined(s) ==
    /\ s \in Seq(Written) /\ Len(s) <= MaxLine
    /\ \A n \in DOMAIN s : s[n].parent < n

\* Where a rebase may have stopped; only git's does.
Stops == [at : 0 .. Len(stack), tip : 0 .. Len(stack), late : SUBSET Work]
Stoppable == open \in Stops /\ (Rebasing => ~JJ)

Drafted ==
    /\ repo \in Checkouts
    /\ Lined(stack) /\ Stoppable
    /\ on \in 0 .. Len(stack) /\ inside \in BOOLEAN /\ (inside => on # 0 /\ JJ)
    /\ unsaved \subseteq Work /\ toMake \subseteq Work
    /\ pushedAs \in [1 .. MaxLine -> SUBSET ChangeIds]
    /\ \A n \in 1 .. MaxLine : IsFiniteSet(pushedAs[n])
    /\ cli \in Commanded

Identified ==
    /\ \A n \in 1 .. MaxLine : pushedAs[n] # {} => n \in DOMAIN stack
    /\ IdentityKept

\* What create and amend will leave out was made while they ran.
Collecting ==
    /\ cli.pc = "create" => Len(stack) < MaxLine
    /\ cli.pc \in {"create", "amend"} =>
           /\ unsaved \ cli.late \subseteq cli.staged
           /\ JJ => cli.staged \cap (Outside \cup IF cli.large THEN {} ELSE Large) = {}
    /\ cli.pc \in {"amend", "reword"} =>
           /\ on # 0 /\ HasChangeId(on) /\ cli.id # << >>
           /\ Head(cli.id) = ParseChangeID(on)

\* A conflict was reported, or what kept it from being reported was noted.
Mentioned == strayed \cap Explained # {}

\* What a sync may return to.
Noting ==
    cli.pc \in {"rebase", "listed"} =>
        /\ Lined(cli.saved) /\ Len(cli.saved) = Len(stack)
        /\ \A n \in DOMAIN stack :
              /\ cli.saved[n].ids = stack[n].ids
              /\ cli.saved[n].conflict => Mentioned
        /\ cli.late = {} =>
              /\ cli.kept = unsaved
              /\ \A n \in DOMAIN stack : cli.saved[n].work = stack[n].work

AtHome ==
    /\ Conflicted => Mentioned \/ cli.pc = "listed"
    /\ ConflictsStayHome

AuthorIInv == Drafted /\ Identified /\ Collecting /\ Noting /\ WorkKept /\ AtHome

LEMMA StraysApart ==
  /\ \A n : <<"renamed", n>> \notin Explained \cup {<<"omitted">>, <<"rolled back">>}
  /\ <<"omitted">> \notin Explained \cup {<<"rolled back">>} /\ <<"rolled back">> \notin Explained
  <1> DEFINE first(s) == s[1]
  <1>1. /\ \A n : first(<<"renamed", n>>) = "renamed" /\ first(<<"omitted">>) = "omitted"
        /\ first(<<"told">>) = "told" /\ first(<<"rolled back">>) = "rolled back"
        /\ first(<<"killed">>) = "killed" /\ first(<<"unlisted">>) = "unlisted"
    OBVIOUS
  <1> HIDE DEF first
  <1> QED
    BY <1>1 DEF Explained

\* The commits below a commit are commits.
LEMMA BelowIsStack ==
  ASSUME Lined(stack), NEW n \in 0 .. Len(stack)
  PROVE  Below[n] \subseteq DOMAIN stack
  <1> DEFINE N == Len(stack)
             V == SUBSET (1 .. N)
             p == [k \in 1 .. N |-> stack[k].parent]
             G == [k \in 1 .. N |-> [v \in V |-> {k} \cup v]]
             D(f) == [k \in 0 .. N |-> IF k = 0 THEN {} ELSE {k} \cup f[stack[k].parent]]
  <1>1. N \in Nat /\ DOMAIN stack = 1 .. N /\ \A k \in 1 .. N : stack[k].parent \in 0 .. k - 1
    <2>1. stack \in Seq(Written) /\ \A k \in DOMAIN stack : stack[k].parent < k
      BY DEF Lined
    <2>2. \A k \in 1 .. N : stack[k] \in Written
      BY <2>1
    <2> QED
      BY <2>1, <2>2 DEF Written
  <1>2. Below = CHOOSE f : f = D(f)
    BY DEF Below
  <1>3. \E f : f = D(f)
    <2>1. \A k \in 1 .. N : p[k] \in 0 .. k - 1
      BY <1>1
    <2>2. \A k \in 1 .. N, v \in V : G[k][v] \in V
      OBVIOUS
    <2>3. Recursive(N, V, {}, p, G)
      <3>1. {} \in V
        OBVIOUS
      <3> HIDE DEF p, G, V, N
      <3> QED
        BY <1>1, <2>1, <2>2, <3>1 DEF Recursive
    <2>4. PICK f \in [0 .. N -> V] :
             f[0] = {} /\ \A k \in 1 .. N : f[k] = G[k][f[p[k]]]
      <3> HIDE DEF p, G, V, N
      <3> QED
        BY <2>3, Recursion
    <2>5. ASSUME NEW k \in 0 .. N PROVE f[k] = D(f)[k]
      <3>1. CASE k = 0
        BY <2>4, <3>1
      <3>2. CASE k # 0
        <4>1. k \in 1 .. N /\ stack[k].parent \in 0 .. N
          BY <1>1, <3>2
        <4>2. f[stack[k].parent] \in V
          BY <2>4, <4>1
        <4> HIDE DEF V, N
        <4> QED
          BY <2>4, <3>2, <4>1, <4>2
      <3> QED
        BY <3>1, <3>2
    <2>6. f = D(f)
      <3> HIDE DEF V, N
      <3> QED
        BY <2>4, <2>5
    <2> QED
      BY <2>6
  <1>4. Below = D(Below)
    <2> HIDE DEF D
    <2> QED
      BY <1>2, <1>3
  <1>5. \A k \in 0 .. N : Below[k] = IF k = 0 THEN {} ELSE {k} \cup Below[stack[k].parent]
    BY <1>4
  <1> DEFINE S == {k \in 0 .. N : Below[k] \subseteq 1 .. N}
  <1>6. \A k \in 0 .. N : (\A j \in 0 .. N : j < k => j \in S) => k \in S
    <2> SUFFICES ASSUME NEW k \in 0 .. N, \A j \in 0 .. N : j < k => j \in S
                 PROVE  Below[k] \subseteq 1 .. N
      OBVIOUS
    <2>1. CASE k = 0
      BY <1>5, <2>1
    <2>2. CASE k # 0
      <3>1. k \in 1 .. N /\ stack[k].parent \in 0 .. N /\ stack[k].parent < k
        BY <1>1, <2>2
      <3> QED
        BY <1>5, <2>2, <3>1
    <2> QED
      BY <2>1, <2>2
  <1>7. 0 .. N \subseteq S
    <2> HIDE DEF S, N
    <2> QED
      BY <1>1, <1>6, StrongInduction
  <1> QED
    BY <1>1, <1>7

----------------------------------------------------------------------------
(* What rewriting a commit and adding one leave of the line.                *)

LEMMA LineSpan ==
  ASSUME NEW s, Lined(s)
  PROVE  /\ Len(s) \in Nat /\ DOMAIN s = 1 .. Len(s) /\ \A n \in DOMAIN s : s[n] \in Written
  BY DEF Lined

LEMMA Rewriting ==
  ASSUME Lined(stack), NEW n \in DOMAIN stack, NEW r \in Written, r.parent = stack[n].parent,
         stack' = [stack EXCEPT ![n] = r]
  PROVE  /\ Lined(stack') /\ Len(stack') = Len(stack) /\ DOMAIN stack' = DOMAIN stack
         /\ stack'[n] = r /\ \A m \in DOMAIN stack \ {n} : stack'[m] = stack[m]
  <1>1. stack \in Seq(Written)
    BY DEF Lined
  <1>2. stack' \in Seq(Written) /\ Len(stack') = Len(stack) /\ DOMAIN stack' = DOMAIN stack
    BY <1>1, ExceptSeq
  <1>3. stack'[n] = r /\ \A m \in DOMAIN stack \ {n} : stack'[m] = stack[m]
    BY <1>1
  <1> QED
    BY <1>2, <1>3 DEF Lined

LEMMA Adding ==
  ASSUME Lined(stack), Len(stack) < MaxLine, NEW r \in Written, r.parent \in 0 .. Len(stack),
         stack' = Append(stack, r)
  PROVE  /\ Lined(stack') /\ Len(stack') = Len(stack) + 1
            /\ DOMAIN stack' = DOMAIN stack \cup {Len(stack) + 1}
         /\ stack'[Len(stack) + 1] = r /\ \A m \in DOMAIN stack : stack'[m] = stack[m]
  <1>1. stack \in Seq(Written) /\ Len(stack) \in Nat
    BY DEF Lined
  <1>2. /\ stack' \in Seq(Written) /\ Len(stack') = Len(stack) + 1
           /\ DOMAIN stack' = 1 .. Len(stack) + 1
        /\ stack'[Len(stack) + 1] = r /\ \A m \in DOMAIN stack : stack'[m] = stack[m]
    BY <1>1
  <1> QED
    BY <1>1, <1>2, AuthoringAssumption DEF Lined

\* Identities outlive a step that leaves the first trailers, or says what it renames.
LEMMA IdentityStays ==
  ASSUME Drafted, Identified, pushedAs' = pushedAs, strayed \subseteq strayed',
         DOMAIN stack \subseteq DOMAIN stack',
         \A n \in DOMAIN stack : pushedAs[n] # {} =>
            \/ <<"renamed", n>> \in strayed'
            \/ stack[n].ids # << >> =>
                  stack'[n].ids # << >> /\ Head(stack'[n].ids) = Head(stack[n].ids),
         Len(stack') <= MaxLine, DOMAIN stack' = 1 .. Len(stack')
  PROVE  Identified'
  <1>1. \A n \in 1 .. MaxLine : pushedAs'[n] # {} => n \in DOMAIN stack'
    BY DEF Identified
  <1>2. ASSUME NEW n \in DOMAIN stack', pushedAs'[n] # {}
        PROVE  \/ HasChangeId(n)' /\ ParseChangeID(n)' \in pushedAs'[n]
               \/ <<"renamed", n>> \in strayed'
    <2>1. n \in DOMAIN stack /\ n # 0 /\ pushedAs[n] # {}
      <3>1. n \in 1 .. MaxLine
        BY AuthoringAssumption, LineSpan DEF Drafted
      <3> QED
        BY <1>2, <3>1 DEF Identified
    <2>2. \/ HasChangeId(n) /\ ParseChangeID(n) \in pushedAs[n]
          \/ <<"renamed", n>> \in strayed
      BY <2>1 DEF Identified, IdentityKept
    <2> QED
      BY <2>1, <2>2 DEF HasChangeId, ParseChangeID
  <1> QED
    BY <1>1, <1>2 DEF Identified, IdentityKept

Held == unsaved \cup UNION {stack[n].work : n \in DOMAIN stack}

\* Work outlives a step that leaves no edit out.
LEMMA WorkStays ==
  ASSUME WorkKept, repo' = repo, strayed \subseteq strayed', <<"omitted">> \notin strayed',
         <<"rolled back">> \notin strayed' => Held \subseteq Held'
         /\ toMake \ toMake' \subseteq Held'
  PROVE  WorkKept'
  BY DEF WorkKept, Held

\* Conflicts stay home in a step that makes and pushes none.
LEMMA StaysHome ==
  ASSUME AtHome, rows' \subseteq rows, strayed \subseteq strayed',
         \A n \in DOMAIN stack' :
            stack'[n].conflict => n \in DOMAIN stack /\ stack[n].conflict,
         cli.pc = "listed" => cli'.pc = "listed" \/ Mentioned' \/ ~Conflicted'
  PROVE  AtHome'
  BY DEF AtHome, Conflicted, ConflictsStayHome, Mentioned

LEMMA Trailers ==
  ASSUME Drafted, NEW n \in 1 .. MaxLine
  PROVE  /\ Derived(n) \in ChangeIds /\ Minted(n) \in ChangeIds /\ Pasted \in ChangeIds
         /\ HookIds(n) \in Seq(ChangeIds)
  <1>1. n \in Nat /\ Cardinality(pushedAs[n]) \in Nat
    BY AuthoringAssumption, FS_CardinalityType DEF Drafted
  <1>2. Derived(n) \in ChangeIds /\ Minted(n) \in ChangeIds /\ Pasted \in ChangeIds
    BY <1>1 DEF Derived, Minted, Pasted, ChangeIds
  <1> QED
    BY <1>2 DEF HookIds

LEMMA AtRest ==
  ASSUME cli'.pc \in {"idle", "send"}
  PROVE  Collecting' /\ Noting'
  BY DEF Collecting, Noting

LEMMA Places ==
  ASSUME Drafted
  PROVE  /\ Len(stack) \in Nat /\ DOMAIN stack = 1 .. Len(stack) /\ Len(stack) <= MaxLine
         /\ MaxLine \in Nat /\ DOMAIN stack \subseteq 1 .. MaxLine
         /\ \A n \in DOMAIN stack :
               /\ stack[n] \in Written /\ stack[n].parent \in 0 .. n - 1
               /\ stack[n].ids \in Seq(ChangeIds) /\ stack[n].work \subseteq Work
  <1>1. Lined(stack)
    BY DEF Drafted
  <1>2. Len(stack) \in Nat /\ DOMAIN stack = 1 .. Len(stack)
        /\ \A n \in DOMAIN stack : stack[n] \in Written
    BY <1>1, LineSpan
  <1>3. Len(stack) <= MaxLine /\ \A n \in DOMAIN stack : stack[n].parent < n
    BY <1>1 DEF Lined
  <1> QED
    BY <1>2, <1>3, AuthoringAssumption DEF Written

----------------------------------------------------------------------------
(* The author, at the prompt.                                               *)

LEMMA AsideKept ==
  ASSUME AuthorIInv, cli = AtPrompt, cli' = cli, UNCHANGED <<repo, stack, open, unsaved, toMake,
         pushedAs, strayed>>,
         on' \in 0 .. Len(stack), inside' \in BOOLEAN, inside' => on' # 0 /\ JJ, rows' \subseteq rows
  PROVE  AuthorIInv'
  <1>1. Drafted'
    BY DEF AuthorIInv, Drafted, Stoppable, Stops, Rebasing, JJ
  <1>2. Identified' /\ WorkKept'
    BY DEF AuthorIInv, Identified, IdentityKept, HasChangeId, ParseChangeID, WorkKept
  <1>3. AtHome'
    BY StaysHome DEF AuthorIInv
  <1>4. Collecting' /\ Noting'
    BY AtRest DEF AtPrompt
  <1> QED
    BY <1>1, <1>2, <1>3, <1>4 DEF AuthorIInv

LEMMA PromptKept ==
  ASSUME AuthorIInv,
         \/ TrunkMoves \/ JJNew \/ (\E n \in DOMAIN stack : JJEdit(n))
         \/ (\E r \in rows : AbandonChange(r))
  PROVE  AuthorIInv'
  <1>1. Len(stack) \in Nat /\ DOMAIN stack = 1 .. Len(stack) /\ on \in 0 .. Len(stack)
        /\ inside \in BOOLEAN /\ (inside => on # 0 /\ JJ)
    BY Places DEF AuthorIInv, Drafted
  <1>2. CASE TrunkMoves
    BY <1>1, <1>2, AsideKept DEF TrunkMoves, place, server
  <1>3. CASE JJNew
    BY <1>1, <1>3, AsideKept DEF JJNew, setting, server
  <1>4. CASE \E n \in DOMAIN stack : JJEdit(n)
    BY <1>1, <1>4, AsideKept DEF JJEdit, setting, server
  <1>5. CASE \E r \in rows : AbandonChange(r)
    BY <1>1, <1>5, AsideKept DEF AbandonChange, setting, place
  <1> QED
    BY <1>2, <1>3, <1>4, <1>5

\* A commit is rewritten: its trailers kept or said to be renamed, its work kept.
LEMMA RewriteKept ==
  ASSUME AuthorIInv, cli' \in Commanded, Collecting', Noting',
         cli.pc = "listed" => cli'.pc = "listed",
         NEW n \in DOMAIN stack, NEW r \in Written, stack' = [stack EXCEPT ![n] = r],
         r.parent = stack[n].parent, r.conflict => stack[n].conflict \/ cli'.pc = "listed",
         stack[n].work \cup unsaved \subseteq r.work \cup unsaved', unsaved' \subseteq Work,
         toMake' \subseteq toMake, toMake \ toMake' \subseteq r.work \cup unsaved',
         \/ r.ids = stack[n].ids
         \/ r.ids # << >> /\ Head(r.ids) = Head(stack[n].ids)
         \/ pushedAs[n] = {} \/ <<"renamed", n>> \in strayed',
         strayed' \in {strayed, strayed \cup {<<"renamed", n>>}, strayed \cup {}},
         on' = on \/ (on' \in 0 .. Len(stack) /\ ~inside),
         open' = open \/ (open' \in Stops /\ (open'.at # 0 => ~JJ)),
         UNCHANGED <<repo, inside, rows, pushedAs>>
  PROVE  AuthorIInv'
  <1>0. /\ Drafted /\ Identified /\ WorkKept /\ AtHome /\ Lined(stack)
        /\ stack \in Seq(Written)
    BY DEF AuthorIInv, Drafted, Lined
  <1>1. /\ Lined(stack') /\ Len(stack') = Len(stack) /\ DOMAIN stack' = DOMAIN stack
        /\ stack'[n] = r /\ \A m \in DOMAIN stack \ {n} : stack'[m] = stack[m]
    BY <1>0, Rewriting
  <1>2. Drafted'
    <2>1. Stoppable'
      BY <1>0, <1>1 DEF Drafted, Stoppable, Stops, Rebasing, JJ
    <2>2. repo' \in Checkouts /\ inside' \in BOOLEAN /\ unsaved' \subseteq Work /\ toMake' \subseteq Work
      BY <1>0 DEF Drafted
    <2>3. on' \in 0 .. Len(stack') /\ (inside' => on' # 0 /\ JJ')
      BY <1>0, <1>1 DEF Drafted, JJ
    <2>4. pushedAs' = pushedAs /\ rows' = rows /\ cli' \in Commanded
      OBVIOUS
    <2> QED
      BY <1>0, <1>1, <2>1, <2>2, <2>3, <2>4 DEF Drafted
  <1>3. Identified'
    BY <1>0, <1>1, IdentityStays, Places
  <1>4. WorkKept'
    <2>1. <<"omitted">> \notin strayed' /\ strayed \subseteq strayed'
      BY <1>0, StraysApart DEF WorkKept
    <2>2. Held \subseteq Held' /\ toMake \ toMake' \subseteq Held'
      BY <1>1 DEF Held
    <2> QED
      BY <1>0, <2>1, <2>2, WorkStays
  <1>5. AtHome'
    <2>1. strayed \subseteq strayed' /\ rows' = rows
      OBVIOUS
    <2>2. CASE cli'.pc = "listed"
      BY <1>0, <2>1, <2>2 DEF AtHome, ConflictsStayHome, Mentioned
    <2>3. CASE cli'.pc # "listed"
      <3>1. \A m \in DOMAIN stack' : stack'[m].conflict => m \in DOMAIN stack
            /\ stack[m].conflict
        BY <1>1, <2>3
      <3> QED
        BY <1>0, <2>1, <2>3, <3>1, StaysHome
    <2> QED
      BY <2>2, <2>3
  <1> QED
    BY <1>2, <1>3, <1>4, <1>5 DEF AuthorIInv

\* At the prompt, or as create ends, the author's line grows by a commit.
LEMMA GrowthKept ==
  ASSUME AuthorIInv, cli'.pc = "idle", cli' \in Commanded, cli.pc # "listed",
         Len(stack) < MaxLine, NEW r \in Written, stack' = Append(stack, r),
         r.parent = on, ~r.conflict, on' = Len(stack) + 1, inside' \in {inside, FALSE}, open' = open,
         unsaved' \subseteq unsaved, unsaved \subseteq unsaved' \cup r.work,
         strayed' \in {strayed, strayed \cup {}},
         UNCHANGED <<repo, toMake, rows, pushedAs>>
  PROVE  AuthorIInv'
  <1>0. /\ Drafted /\ Identified /\ WorkKept /\ AtHome /\ Lined(stack)
        /\ Len(stack) \in Nat /\ on \in 0 .. Len(stack) /\ strayed' = strayed
    BY Places DEF AuthorIInv, Drafted
  <1>1. /\ Lined(stack') /\ Len(stack') = Len(stack) + 1
        /\ DOMAIN stack' = DOMAIN stack \cup {Len(stack) + 1}
        /\ stack'[Len(stack) + 1] = r /\ \A m \in DOMAIN stack : stack'[m] = stack[m]
    BY <1>0, Adding
  <1>2. Drafted'
    <2>1. Stoppable'
      BY <1>0, <1>1 DEF Drafted, Stoppable, Stops, Rebasing, JJ
    <2>2. repo' \in Checkouts /\ unsaved' \subseteq Work /\ toMake' \subseteq Work
      BY <1>0 DEF Drafted
    <2>a. on' \in 0 .. Len(stack') /\ on' # 0
      BY <1>0, <1>1
    <2>b. inside \in BOOLEAN /\ (inside => JJ) /\ JJ' = JJ
      BY <1>0 DEF Drafted, JJ
    <2>c. inside' \in BOOLEAN /\ (inside' => JJ')
      <3>1. CASE inside' = inside
        BY <2>b, <3>1
      <3>2. CASE inside' = FALSE
        BY <3>2
      <3> QED
        BY <3>1, <3>2
    <2>3. on' \in 0 .. Len(stack') /\ inside' \in BOOLEAN /\ (inside' => on' # 0 /\ JJ')
      BY <2>a, <2>c
    <2>4. pushedAs' = pushedAs /\ cli' \in Commanded
      OBVIOUS
    <2> QED
      BY <1>0, <1>1, <2>1, <2>2, <2>3, <2>4 DEF Drafted
  <1>3. Identified'
    <2>1. Len(stack') <= MaxLine /\ DOMAIN stack' = 1 .. Len(stack')
      BY <1>1, LineSpan DEF Lined
    <2> QED
      BY <1>0, <1>1, <2>1, IdentityStays
  <1>4. WorkKept'
    <2>1. <<"omitted">> \notin strayed'
      BY <1>0 DEF WorkKept
    <2>2. Held \subseteq Held'
      BY <1>1 DEF Held
    <2> QED
      BY <1>0, <2>1, <2>2, WorkStays
  <1>5. AtHome'
    BY <1>0, <1>1, StaysHome
  <1>6. Collecting' /\ Noting'
    BY AtRest
  <1> QED
    BY <1>2, <1>3, <1>4, <1>5, <1>6 DEF AuthorIInv

LEMMA RecordedKept ==
  ASSUME AuthorIInv, JJDescribe \/ (\E n \in DOMAIN stack : Resolve(n)) \/ GitCommit
  PROVE  AuthorIInv'
  <1>0. /\ Drafted /\ Lined(stack) /\ Len(stack) \in Nat /\ DOMAIN stack = 1 .. Len(stack)
        /\ on \in 0 .. Len(stack) /\ inside \in BOOLEAN /\ (inside => on # 0)
        /\ unsaved \subseteq Work /\ toMake \subseteq Work
        /\ \A n \in DOMAIN stack : stack[n] \in Written
        /\ MaxLine \in Nat /\ DOMAIN stack \subseteq 1 .. MaxLine
    BY Places DEF AuthorIInv, Drafted
  <1>a. ASSUME cli = AtPrompt, cli' = cli
        PROVE  cli' \in Commanded /\ Collecting' /\ Noting' /\ cli.pc = "idle"
               /\ cli'.pc = "idle"
    <2>1. cli.pc = "idle"
      BY <1>a DEF AtPrompt
    <2>2. Collecting' /\ Noting'
      BY <1>a, <2>1, AtRest
    <2> QED
      BY <1>0, <1>a, <2>1, <2>2 DEF Drafted
  <1>1. CASE JJDescribe
    <2> DEFINE r == [stack[on] EXCEPT !.ids = <<Derived(on)>>]
    <2>1. on \in DOMAIN stack /\ on \in 1 .. MaxLine
      BY <1>0, <1>1 DEF JJDescribe
    <2>2. r \in Written /\ r.ids = <<Derived(on)>> /\ r.work = stack[on].work
          /\ r.parent = stack[on].parent /\ r.conflict = stack[on].conflict
      <3>1. <<Derived(on)>> \in Seq(ChangeIds)
        BY <1>0, <2>1, Trailers
      <3> QED
        BY <1>0, <2>1, <3>1 DEF Written
    <2>3. stack' = [stack EXCEPT ![on] = r]
      BY <1>1, <2>1 DEF JJDescribe
    <2>4. /\ r.ids # << >> /\ Head(r.ids) = Derived(on)
      BY <2>2
    <2>5. /\ cli = AtPrompt /\ cli' = cli
             /\ UNCHANGED <<repo, on, inside, open, rows, pushedAs, unsaved, toMake>>
          /\ strayed' = strayed \cup (IF ParseChangeID(on) # Derived(on) THEN {<<"renamed", on>>} ELSE {})
      BY <1>1 DEF JJDescribe, setting, place, server, Excuse
    <2>6. \/ Head(r.ids) = Head(stack[on].ids)
          \/ <<"renamed", on>> \in strayed'
      BY <2>4, <2>5 DEF ParseChangeID
    <2>7. strayed' \in {strayed, strayed \cup {<<"renamed", on>>}, strayed \cup {}}
      BY <2>5
    <2> HIDE DEF r
    <2> QED
      BY <1>0, <1>a, <2>1, <2>2, <2>3, <2>4, <2>5, <2>6, <2>7, RewriteKept
  <1>2. ASSUME NEW n \in DOMAIN stack, Resolve(n) PROVE AuthorIInv'
    <2> DEFINE r == [stack[n] EXCEPT !.conflict = FALSE]
    <2>2. r \in Written /\ r.ids = stack[n].ids /\ r.work = stack[n].work
          /\ r.parent = stack[n].parent /\ r.conflict = FALSE
      BY <1>0 DEF Written
    <2>3. stack' = [stack EXCEPT ![n] = r]
      BY <1>2 DEF Resolve
    <2>5. /\ cli = AtPrompt /\ cli' = cli
          /\ UNCHANGED <<repo, on, inside, open, rows, pushedAs, unsaved, toMake, strayed>>
      BY <1>2 DEF Resolve, setting, place, server
    <2> HIDE DEF r
    <2> QED
      BY <1>0, <1>a, <2>2, <2>3, <2>5, RewriteKept
  <1>3. CASE GitCommit
    <2> DEFINE r == Committed(on, HookIds(Len(stack) + 1), Seen(TRUE), FALSE)
    <2>1. Len(stack) < MaxLine /\ Seen(TRUE) \subseteq unsaved
      BY <1>3 DEF GitCommit, Seen
    <2>2. r \in Written /\ r.parent = on /\ r.work = Seen(TRUE) /\ r.conflict = FALSE
      <3>1. HookIds(Len(stack) + 1) \in Seq(ChangeIds)
        BY <1>0, <2>1, Trailers
      <3>2. Seen(TRUE) \in SUBSET Work
        BY <1>0, <2>1
      <3>3. PICK w \in SUBSET Work : w = Seen(TRUE)
        BY <3>2
      <3>4. r = [parent |-> on, ids |-> HookIds(Len(stack) + 1), work |-> w, wip |-> FALSE,
                 conflict |-> FALSE]
        BY <3>3 DEF Committed
      <3> HIDE DEF r
      <3>5. r \in Written /\ r.parent = on /\ r.work = w /\ r.conflict = FALSE
        BY <1>0, <3>1, <3>4 DEF Written
      <3> QED
        BY <3>3, <3>5
    <2>3. /\ stack' = Append(stack, r) /\ on' = Len(stack) + 1 /\ unsaved' = unsaved \ Seen(TRUE)
          /\ UNCHANGED <<repo, inside, open, rows, pushedAs, toMake, strayed>> /\ cli = AtPrompt
             /\ cli' = cli
      BY <1>3 DEF GitCommit, setting, server
    <2> HIDE DEF r
    <2> QED
      BY <1>0, <1>a, <2>1, <2>2, <2>3, GrowthKept
  <1> QED
    BY <1>1, <1>2, <1>3

LEMMA SnapshotKept == ASSUME AuthorIInv, WorkspaceSnapshot PROVE AuthorIInv'
  <1>0. /\ Drafted /\ Lined(stack) /\ Len(stack) \in Nat /\ DOMAIN stack = 1 .. Len(stack)
        /\ on \in 0 .. Len(stack) /\ inside \in BOOLEAN
        /\ unsaved \subseteq Work /\ toMake \subseteq Work
        /\ \A n \in DOMAIN stack : stack[n] \in Written
        /\ MaxLine \in Nat /\ DOMAIN stack \subseteq 1 .. MaxLine
    BY Places DEF AuthorIInv, Drafted
  <1>a. /\ cli.pc = "idle" /\ cli'.pc = "idle" /\ cli' \in Commanded
        /\ UNCHANGED <<repo, inside, open, toMake, rows, pushedAs>> /\ unsaved' = {}
    BY <1>0 DEF WorkspaceSnapshot, AtPrompt, setting, server, Drafted
  <1>b. Collecting' /\ Noting'
    BY <1>a, AtRest
  <1>1. CASE AtSnapshot
    <2> DEFINE r == [stack[on] EXCEPT !.work = @ \cup unsaved, !.ids = HookIds(on)]
    <2>1. on \in DOMAIN stack /\ on \in 1 .. MaxLine
      BY <1>0, <1>1 DEF AtSnapshot
    <2>2. r \in Written /\ r.work = stack[on].work \cup unsaved
          /\ r.parent = stack[on].parent /\ r.conflict = stack[on].conflict
      <3>1. HookIds(on) \in Seq(ChangeIds)
        BY <1>0, <2>1, Trailers
      <3> QED
        BY <1>0, <2>1, <3>1 DEF Written
    <2>3. /\ stack' = [stack EXCEPT ![on] = r] /\ on' = on
          /\ strayed' = strayed \cup (IF pushedAs[on] # {} THEN {<<"renamed", on>>} ELSE {})
      BY <1>1, <2>1 DEF WorkspaceSnapshot, Excuse
    <2>4. /\ pushedAs[on] = {} \/ <<"renamed", on>> \in strayed'
          /\ strayed' \in {strayed, strayed \cup {<<"renamed", on>>}, strayed \cup {}}
      BY <2>3
    <2> HIDE DEF r
    <2> QED
      BY <1>0, <1>a, <1>b, <2>1, <2>2, <2>3, <2>4, RewriteKept
  <1>2. CASE ~AtSnapshot
    <2> DEFINE r == Committed(on, HookIds(Len(stack) + 1), unsaved, TRUE)
    <2>1. Len(stack) < MaxLine
      BY <1>2 DEF WorkspaceSnapshot
    <2>2. r \in Written /\ r.parent = on /\ r.work = unsaved /\ r.conflict = FALSE
      <3>1. HookIds(Len(stack) + 1) \in Seq(ChangeIds)
        BY <1>0, <2>1, Trailers
      <3> QED
        BY <1>0, <2>1, <3>1 DEF Committed, Written
    <2>3. stack' = Append(stack, r) /\ on' = Len(stack) + 1 /\ strayed' = strayed
      BY <1>2 DEF WorkspaceSnapshot
    <2> HIDE DEF r
    <2> QED
      BY <1>0, <1>a, <2>1, <2>2, <2>3, GrowthKept
  <1> QED
    BY <1>1, <1>2

----------------------------------------------------------------------------
(* The commands, from guard to guard.                                       *)

\* A command goes on and touches no commit.
LEMMA OnwardKept ==
  ASSUME AuthorIInv, cli' \in Commanded, Collecting', Noting',
         UNCHANGED <<repo, stack, on, inside, rows, pushedAs>>,
         open' = open \/ (open' \in Stops /\ (open'.at # 0 => ~JJ)),
         unsaved \subseteq unsaved', unsaved' \subseteq Work,
         toMake' \subseteq toMake, toMake \ toMake' \subseteq unsaved',
         \/ strayed' \in {strayed, strayed \cup {}}
         \/ \E w \in Explained : strayed' = strayed \cup {w},
         cli.pc = "listed" => cli'.pc = "listed" \/ Mentioned' \/ ~Conflicted
  PROVE  AuthorIInv'
  <1>0. /\ Drafted /\ Identified /\ WorkKept /\ AtHome /\ strayed \subseteq strayed'
        /\ <<"omitted">> \notin strayed'
    BY StraysApart DEF AuthorIInv, WorkKept
  <1>1. Drafted'
    BY <1>0 DEF Drafted, Stoppable, Stops, Rebasing, JJ
  <1>2. Identified'
    BY <1>0 DEF Identified, IdentityKept, HasChangeId, ParseChangeID
  <1>3. WorkKept'
    BY <1>0, WorkStays DEF Held
  <1>4. AtHome'
    BY <1>0 DEF AtHome, Conflicted, ConflictsStayHome, Mentioned
  <1> QED
    BY <1>1, <1>2, <1>3, <1>4 DEF AuthorIInv

LEMMA RunKept ==
  ASSUME AuthorIInv, NEW msg \in Messages, NEW large \in BOOLEAN,
         CreateChange(msg, large) \/ AmendChange(msg, large)
  PROVE  AuthorIInv'
  <1>0. /\ Drafted /\ Len(stack) \in Nat /\ DOMAIN stack = 1 .. Len(stack)
           /\ on \in 0 .. Len(stack)
        /\ unsaved \in SUBSET Work /\ \A n \in DOMAIN stack : stack[n].ids \in Seq(ChangeIds)
    BY Places DEF AuthorIInv, Drafted
  <1>1. PICK verb \in {"create", "amend"} :
           /\ verb = "create" => CreateChange(msg, large)
           /\ verb = "amend" => AmendChange(msg, large)
    OBVIOUS
  <1>2. /\ cli.pc = "idle" /\ strayed' = strayed
        /\ UNCHANGED <<repo, stack, on, inside, open, unsaved, toMake, rows, pushedAs>>
        /\ cli' = [pc |-> verb, msg |-> msg, large |-> large, staged |-> unsaved,
                   late |-> {}, id |-> IF on = 0 THEN << >> ELSE stack[on].ids]
    <2>1. CASE verb = "create"
      <3>1. /\ cli = AtPrompt /\ strayed' = strayed /\ Run("create", msg, large)
            /\ UNCHANGED <<repo, stack, on, inside, open, unsaved, toMake, rows, pushedAs>>
        BY <1>1, <2>1 DEF CreateChange, setting, place, server
      <3> QED
        BY <2>1, <3>1 DEF Run, AtPrompt
    <2>2. CASE verb = "amend"
      BY <1>1, <2>2 DEF AmendChange, Run, AtPrompt, setting, place, server
    <2> QED
      BY <2>1, <2>2
  <1>3. cli' \in Commanded
    <2>1. (IF on = 0 THEN << >> ELSE stack[on].ids) \in Seq(ChangeIds)
      BY <1>0
    <2> QED
      BY <1>0, <1>2, <2>1 DEF Commanded
  <1>4. Collecting'
    <2>1. /\ verb = "create" => Len(stack) < MaxLine /\ ~LeavesOut(large)
          /\ verb = "amend" => on # 0 /\ HasChangeId(on) /\ ~LeavesOut(large \/ ~JJ)
      BY <1>1 DEF CreateChange, AmendChange
    <2>2. JJ => unsaved \cap (Outside \cup IF large THEN {} ELSE Large) = {}
      BY <1>1, <2>1 DEF LeavesOut
    <2> QED
      BY <1>1, <1>2, <2>1, <2>2 DEF Collecting, HasChangeId, ParseChangeID, JJ
  <1>5. Noting'
    BY <1>1, <1>2 DEF Noting
  <1> QED
    BY <1>0, <1>2, <1>3, <1>4, <1>5, OnwardKept

\* Nothing is left out of the commit that was not made while the command ran.
LEMMA NothingOmitted ==
  ASSUME AuthorIInv, cli.pc \in {"create", "amend"}, unsaved' = unsaved \ Taken
  PROVE  Omitted = {} /\ Taken \subseteq Work /\ unsaved \subseteq unsaved' \cup Taken
  <1>1. /\ unsaved \ cli.late \subseteq cli.staged
        /\ JJ => cli.staged \cap (Outside \cup IF cli.large THEN {} ELSE Large) = {}
    BY DEF AuthorIInv, Collecting
  <1>2. cli.staged \subseteq Work /\ unsaved \subseteq Work /\ cli.large \in BOOLEAN
    <2>1. cli \in [pc : {"create", "amend", "reword"}, msg : Messages, large : BOOLEAN,
                   staged : SUBSET Work, late : SUBSET Work, id : Seq(ChangeIds)]
      BY DEF AuthorIInv, Drafted, Commanded
    <2> QED
      BY <2>1 DEF AuthorIInv, Drafted
  <1>3. CASE JJ
    <2>1. CASE cli.large
      BY <1>1, <1>2, <1>3, <2>1 DEF Taken, Seen, Omitted
    <2>2. CASE ~cli.large
      BY <1>1, <1>2, <1>3, <2>2 DEF Taken, Seen, Omitted
    <2> QED
      BY <2>1, <2>2
  <1>4. CASE ~JJ
    BY <1>1, <1>2, <1>4 DEF Taken, Omitted
  <1> QED
    BY <1>3, <1>4

LEMMA CreateKept == ASSUME AuthorIInv, CreateCommit PROVE AuthorIInv'
  <1>0. /\ Drafted /\ Len(stack) \in Nat /\ on \in 0 .. Len(stack) /\ cli.pc = "create"
        /\ MaxLine \in Nat /\ Len(stack) < MaxLine /\ unsaved \subseteq Work
    BY Places DEF AuthorIInv, Drafted, CreateCommit, Collecting
  <1>1. /\ stack' = Append(stack, Committed(on, CreateIds(Len(stack) + 1), Taken, FALSE))
        /\ on' = Len(stack) + 1 /\ inside' = FALSE /\ unsaved' = unsaved \ Taken
        /\ strayed' = strayed \cup Omitted /\ cli' = AtPrompt
        /\ UNCHANGED <<repo, open, toMake, rows, pushedAs>>
    BY DEF CreateCommit, Excuse, Return, setting, server
  <1>2. Omitted = {} /\ Taken \subseteq Work /\ unsaved \subseteq unsaved' \cup Taken
    BY <1>0, <1>1, NothingOmitted
  <1>3. CreateIds(Len(stack) + 1) \in Seq(ChangeIds)
    BY <1>0, Trailers DEF CreateIds
  <1> DEFINE r == Committed(on, CreateIds(Len(stack) + 1), Taken, FALSE)
  <1>4. r \in Written /\ r.parent = on /\ r.work = Taken /\ r.conflict = FALSE
    BY <1>0, <1>2, <1>3 DEF Committed, Written
  <1>5. cli' \in Commanded /\ cli'.pc = "idle"
    BY <1>1 DEF AtPrompt, Commanded
  <1>6. stack' = Append(stack, r) /\ strayed' = strayed \cup {} /\ unsaved' \subseteq unsaved
    BY <1>1, <1>2
  <1> HIDE DEF r
  <1> QED
    BY <1>0, <1>1, <1>2, <1>4, <1>5, <1>6, GrowthKept

\* What each command carries.
LEMMA Carried ==
  ASSUME Drafted
  PROVE  /\ cli.pc \in {"create", "amend", "reword"} =>
               /\ cli.msg \in Messages /\ cli.large \in BOOLEAN
               /\ cli.staged \subseteq Work /\ cli.late \subseteq Work
                  /\ cli.id \in Seq(ChangeIds)
               /\ cli = [pc |-> cli.pc, msg |-> cli.msg, large |-> cli.large,
                         staged |-> cli.staged, late |-> cli.late, id |-> cli.id]
         /\ cli.pc \in {"rebase", "stopped", "listed"} =>
               /\ cli.verb \in {"sync", "land", "push"} /\ cli.late \subseteq Work
               /\ cli.saved \in Seq(Written) /\ cli.kept \subseteq Work
               /\ cli = [pc |-> cli.pc, verb |-> cli.verb, late |-> cli.late,
                         saved |-> cli.saved, kept |-> cli.kept]
         /\ cli.pc = "send" => cli.late \subseteq Work
            /\ cli = [pc |-> "send", late |-> cli.late]
         /\ cli.pc = "idle" => cli = AtPrompt
         /\ cli.pc \in {"idle", "create", "amend", "reword", "rebase", "stopped", "listed",
                        "send"}
  BY DEF Drafted, Commanded, AtPrompt

LEMMA FoldKept == ASSUME AuthorIInv, AmendFold PROVE AuthorIInv'
  <1>0. /\ Drafted /\ Len(stack) \in Nat /\ DOMAIN stack = 1 .. Len(stack) /\ cli.pc = "amend"
        /\ on \in DOMAIN stack /\ on \in 1 .. MaxLine /\ unsaved \subseteq Work
        /\ stack[on] \in Written /\ stack[on].ids \in Seq(ChangeIds) /\ stack[on].ids # << >>
        /\ cli.id \in Seq(ChangeIds) /\ cli.id # << >> /\ Head(cli.id) = Head(stack[on].ids)
    <2>1. cli.pc = "amend"
      BY DEF AmendFold
    <2>2. Drafted /\ on # 0 /\ HasChangeId(on) /\ cli.id # << >>
          /\ Head(cli.id) = ParseChangeID(on)
      BY <2>1 DEF AuthorIInv, Collecting
    <2>3. on \in 0 .. Len(stack) /\ unsaved \subseteq Work /\ cli.id \in Seq(ChangeIds)
      BY <2>1, <2>2, Carried DEF Drafted
    <2>4. on \in DOMAIN stack
      BY <2>2, <2>3, Places
    <2> QED
      BY <2>1, <2>2, <2>3, <2>4, Places DEF HasChangeId, ParseChangeID
  <1> DEFINE ids == IF JJ THEN IF Taken # {} THEN Stamped(on) ELSE stack[on].ids
                    ELSE IF cli.msg = "" THEN stack[on].ids ELSE <<Head(cli.id)>>
             r == [stack[on] EXCEPT !.work = @ \cup Taken, !.wip = @
             /\ cli.msg = "", !.ids = ids]
  <1>1. /\ unsaved' = unsaved \ Taken /\ strayed' = strayed \cup Omitted
        /\ UNCHANGED <<repo, on, inside, open, toMake, rows, pushedAs>>
        /\ cli' = IF JJ THEN [cli EXCEPT !.pc = "reword"] ELSE AtPrompt
    BY DEF AmendFold, Excuse, Return, setting, place, server
  <1>2. Omitted = {} /\ Taken \subseteq Work /\ unsaved \subseteq unsaved' \cup Taken
    BY <1>0, <1>1, NothingOmitted
  <1>3. ids \in Seq(ChangeIds) /\ ids # << >> /\ Head(ids) = Head(stack[on].ids)
    <2>1. Derived(on) \in ChangeIds
      BY <1>0, Trailers
    <2>2. /\ Stamped(on) \in Seq(ChangeIds) /\ Stamped(on) # << >>
          /\ Head(Stamped(on)) = Head(stack[on].ids)
      <3> HIDE DEF ids
      <3> QED
        BY <1>0, <2>1 DEF Stamped
    <2>3. Head(cli.id) \in ChangeIds
      BY <1>0
    <2>4. /\ <<Head(cli.id)>> \in Seq(ChangeIds) /\ <<Head(cli.id)>> # << >>
          /\ Head(<<Head(cli.id)>>) = Head(stack[on].ids)
      BY <1>0, <2>3
    <2> HIDE DEF JJ, Taken, Stamped
    <2> QED
      BY <1>0, <2>2, <2>4
  <1>4. r \in Written
    BY <1>0, <1>2, <1>3 DEF Written
  <1>5. stack' = [stack EXCEPT ![on] = r]
    <2>1. stack' = [stack EXCEPT ![on].work = @ \cup Taken, ![on].wip = @ /\ cli.msg = "",
                                 ![on].ids = ids]
      BY DEF AmendFold
    <2> HIDE DEF ids, Taken
    <2> QED
      BY <1>0, <2>1
  <1>6. cli' \in Commanded /\ cli'.pc \in {"idle", "reword"}
        /\ (cli'.pc = "reword" => cli'.id = cli.id)
    BY <1>0, <1>1, Carried DEF Commanded, AtPrompt
  <1>7. r.parent = stack[on].parent /\ r.ids = ids /\ r.work = stack[on].work \cup Taken
        /\ r.conflict = stack[on].conflict
    <2> HIDE DEF ids, Taken
    <2> QED
      BY <1>0 DEF Written
  <1> HIDE DEF r, ids
  <1>8. Collecting' /\ Noting'
    <2>1. stack'[on].ids = ids /\ on' = on
      BY <1>0, <1>1, <1>4, <1>5, <1>7, Rewriting DEF Drafted
    <2> QED
      BY <1>0, <1>3, <1>6, <2>1 DEF Collecting, Noting, HasChangeId, ParseChangeID
  <1>9. strayed' = strayed \cup {} /\ unsaved' \subseteq Work
    BY <1>0, <1>1, <1>2
  <1> QED
    BY <1>0, <1>1, <1>2, <1>3, <1>4, <1>5, <1>6, <1>7, <1>8, <1>9, RewriteKept

LEMMA RewordKept == ASSUME AuthorIInv, AmendReword PROVE AuthorIInv'
  <1>0. /\ Drafted /\ Len(stack) \in Nat /\ DOMAIN stack = 1 .. Len(stack) /\ cli.pc = "reword"
        /\ on \in DOMAIN stack /\ on \in 1 .. MaxLine /\ unsaved \subseteq Work
        /\ stack[on] \in Written /\ stack[on].ids \in Seq(ChangeIds) /\ stack[on].ids # << >>
        /\ cli.id \in Seq(ChangeIds) /\ cli.id # << >> /\ Head(cli.id) = Head(stack[on].ids)
    <2>1. cli.pc = "reword"
      BY DEF AmendReword
    <2>2. Drafted /\ on # 0 /\ HasChangeId(on) /\ cli.id # << >>
          /\ Head(cli.id) = ParseChangeID(on)
      BY <2>1 DEF AuthorIInv, Collecting
    <2>3. on \in 0 .. Len(stack) /\ unsaved \subseteq Work /\ cli.id \in Seq(ChangeIds)
      BY <2>1, <2>2, Carried DEF Drafted
    <2>4. on \in DOMAIN stack
      BY <2>2, <2>3, Places
    <2> QED
      BY <2>1, <2>2, <2>3, <2>4, Places DEF HasChangeId, ParseChangeID
  <1> DEFINE r == [stack[on] EXCEPT !.ids = <<Head(stack[on].ids)>>]
  <1>1. RewordIds = <<Head(stack[on].ids)>> /\ Head(stack[on].ids) \in ChangeIds
    <2>1. \A s \in Seq(ChangeIds) : s # << >> => Head(s) \in ChangeIds
      OBVIOUS
    <2> QED
      BY <1>0, <2>1 DEF RewordIds, ParseChangeID
  <1>2. r \in Written /\ r.parent = stack[on].parent /\ r.work = stack[on].work
        /\ r.conflict = stack[on].conflict /\ r.ids = <<Head(stack[on].ids)>>
    <2>a. PICK x \in ChangeIds : x = Head(stack[on].ids)
      BY <1>1
    <2>b. <<x>> \in Seq(ChangeIds)
      OBVIOUS
    <2>1. PICK s \in Seq(ChangeIds) : s = <<Head(stack[on].ids)>>
      <3> HIDE DEF r
      <3> QED
        BY Zenon, <2>a, <2>b
    <2>2. r = [stack[on] EXCEPT !.ids = s]
      BY <2>1
    <2> HIDE DEF r
    <2> QED
      BY <1>0, <2>1, <2>2 DEF Written
  <1>3. r.ids # << >> /\ Head(r.ids) = Head(stack[on].ids)
    BY <1>2
  <1>4. stack' = [stack EXCEPT ![on] = r]
    BY <1>0, <1>1 DEF AmendReword
  <1>5. /\ cli' = AtPrompt
           /\ UNCHANGED <<repo, on, inside, open, unsaved, toMake, rows, pushedAs, strayed>>
    BY DEF AmendReword, Return, setting, place, server
  <1>6. cli' \in Commanded /\ cli'.pc = "idle"
    BY <1>5 DEF Commanded, AtPrompt
  <1>7. Collecting' /\ Noting'
    BY <1>6, AtRest
  <1> HIDE DEF r
  <1> QED
    BY <1>0, <1>2, <1>3, <1>4, <1>5, <1>6, <1>7, RewriteKept

LEMMA Returning ==
  ASSUME Return \/ Send
  PROVE  cli' \in Commanded /\ cli'.pc \in {"idle", "send"} /\ Collecting' /\ Noting'
  <1>1. cli' \in Commanded /\ cli'.pc \in {"idle", "send"}
    BY DEF Return, Send, AtPrompt, Commanded
  <1> QED
    BY <1>1, AtRest

LEMMA FetchKept ==
  ASSUME AuthorIInv, SyncToTrunk \/ LandWithSync \/ \E auto \in BOOLEAN : PushChange(auto)
  PROVE  AuthorIInv'
  <1>0. Drafted /\ unsaved \subseteq Work
    BY DEF AuthorIInv, Drafted
  <1>1. ASSUME NEW verb \in {"sync", "land", "push"}, Fetch(verb) PROVE AuthorIInv'
    <2>1. /\ cli.pc = "idle"
          /\ cli' = [pc |-> "rebase", verb |-> verb, late |-> {}, saved |-> stack, kept |-> unsaved]
          /\ UNCHANGED <<repo, stack, on, inside, open, unsaved, toMake, rows, pushedAs, strayed>>
      BY <1>1 DEF Fetch, AtPrompt, setting, place, server
    <2>2. cli' \in Commanded
      BY <1>0, <2>1 DEF Commanded, Drafted, Lined
    <2>3. Collecting' /\ Noting'
      BY <1>0, <2>1 DEF Collecting, Noting, Mentioned, AuthorIInv, AtHome, Conflicted, Drafted
    <2> QED
      BY <1>0, <2>1, <2>2, <2>3, OnwardKept
  <1>2. ASSUME NEW auto \in BOOLEAN, PushChange(auto), ~(auto /\ behind) PROVE AuthorIInv'
    <2>1. /\ cli.pc = "idle" /\ Send
          /\ UNCHANGED <<repo, stack, on, inside, open, unsaved, toMake, rows, pushedAs, strayed>>
      BY <1>2 DEF PushChange, AtPrompt, setting, place, server
    <2>2. cli' \in Commanded /\ Collecting' /\ Noting'
      BY <2>1, Returning
    <2> QED
      BY <1>0, <2>1, <2>2, OnwardKept
  <1> QED
    BY <1>1, <1>2 DEF SyncToTrunk, LandWithSync, PushChange

LEMMA GitRebaseKept == ASSUME AuthorIInv, GitRebase PROVE AuthorIInv'
  <1>0. /\ cli.pc = "rebase" /\ unsaved \subseteq Work /\ Drafted /\ ~JJ
        /\ UNCHANGED <<repo, stack, inside, unsaved, toMake, rows, pushedAs, strayed>>
        /\ Len(stack) \in Nat /\ on \in 0 .. Len(stack) /\ DOMAIN stack = 1 .. Len(stack)
    BY Places DEF GitRebase, AuthorIInv, Drafted, setting, place, server
  <1>1. CASE (Return \/ Send) /\ UNCHANGED <<on, open>>
    BY <1>0, <1>1, Returning, OnwardKept
  <1>2. ASSUME cli' = [cli EXCEPT !.pc = "stopped"] PROVE cli' \in Commanded /\ Collecting' /\ Noting'
    <2>1. cli' = [pc |-> "stopped", verb |-> cli.verb, late |-> cli.late,
                  saved |-> cli.saved, kept |-> cli.kept]
      BY <1>0, <1>2, Carried
    <2> QED
      BY <1>0, <2>1, Carried DEF Commanded, Collecting, Noting
  <1>3. CASE cli' = [cli EXCEPT !.pc = "stopped"] /\ UNCHANGED <<on, open>>
    BY <1>0, <1>2, <1>3, OnwardKept
  <1>4. ASSUME NEW n \in Below[on], cli' = [cli EXCEPT !.pc = "stopped"],
               open' = [at |-> n, tip |-> on, late |-> {}], on' = stack[n].parent
        PROVE  AuthorIInv'
    <2>1. n \in DOMAIN stack /\ stack[n].parent \in 0 .. Len(stack)
      BY <1>0, BelowIsStack, Places DEF Drafted
    <2>a. n \in 0 .. Len(stack) /\ on \in 0 .. Len(stack) /\ {} \in SUBSET Work
      BY <1>0, <2>1
    <2>b. open' \in Stops
      BY <1>4, <2>a DEF Stops
    <2>2. open' \in Stops /\ ~inside
      BY <1>0, <2>b DEF Drafted
    <2>3. Stoppable' /\ Drafted'
      BY <1>0, <1>2, <1>4, <2>1, <2>2 DEF Drafted, Stoppable, Stops, JJ
    <2>4. Identified' /\ WorkKept'
      BY <1>0 DEF AuthorIInv, Identified, IdentityKept, HasChangeId, ParseChangeID, WorkKept
    <2>5. AtHome'
      BY <1>0, StaysHome DEF AuthorIInv
    <2> QED
      BY <1>2, <1>4, <2>3, <2>4, <2>5 DEF AuthorIInv
  <1> QED
    BY <1>1, <1>3, <1>4 DEF GitRebase, AfterSync, PushAnyway, place

\* A rebase is aborted: what was edited since may be lost, and that is noted.
LEMMA AbortedKept ==
  ASSUME AuthorIInv, Aborted, cli.pc # "listed", cli' \in Commanded, Collecting', Noting',
         UNCHANGED <<repo, inside, toMake, rows, pushedAs>>, Rebasing \/ ~inside
  PROVE  AuthorIInv'
  <1>0. /\ Drafted /\ Identified /\ WorkKept /\ AtHome /\ open \in Stops
        /\ Len(stack) \in Nat
    BY Places DEF AuthorIInv, Drafted, Stoppable
  <1>1. PICK lost \in SUBSET open.late :
           /\ unsaved' = unsaved \ lost
           /\ strayed' = strayed \cup (IF lost = {} THEN {} ELSE {<<"rolled back">>})
    BY DEF Aborted, Excuse
  <1>2. on' = open.tip /\ open' = NoRebase /\ stack' = stack
    BY DEF Aborted
  <1>3. Drafted'
    <2>1. Stoppable' /\ on' \in 0 .. Len(stack')
      BY <1>0, <1>2 DEF Stoppable, Stops, Rebasing, NoRebase
    <2>2. ~inside
      BY <1>0 DEF Drafted, Stoppable
    <2> QED
      BY <1>0, <1>1, <1>2, <2>1, <2>2 DEF Drafted
  <1>4. Identified'
    BY <1>0, <1>1, <1>2 DEF Identified, IdentityKept, HasChangeId, ParseChangeID
  <1>5. WorkKept'
    <2>1. <<"omitted">> \notin strayed' /\ strayed \subseteq strayed'
      BY <1>0, <1>1, StraysApart DEF WorkKept
    <2>2. <<"rolled back">> \notin strayed' => Held \subseteq Held'
      BY <1>1, <1>2 DEF Held
    <2> QED
      BY <1>0, <2>1, <2>2, WorkStays
  <1>6. AtHome'
    BY <1>0, <1>1, <1>2, StaysHome
  <1> QED
    BY <1>3, <1>4, <1>5, <1>6 DEF AuthorIInv

LEMMA RebaseAbortKept == ASSUME AuthorIInv, RebaseAbort PROVE AuthorIInv'
  <1>0. /\ cli.pc = "stopped" /\ ~inside /\ unsaved \subseteq Work /\ (Return \/ Send)
        /\ UNCHANGED <<repo, inside, toMake, rows, pushedAs>>
    BY DEF RebaseAbort, AuthorIInv, Drafted, setting, server, PushAnyway
  <1>1. cli' \in Commanded /\ Collecting' /\ Noting'
    BY <1>0, Returning
  <1>2. CASE Aborted
    BY <1>0, <1>1, <1>2, AbortedKept
  <1>3. CASE UNCHANGED <<stack, on, open, unsaved, behind, strayed>>
    BY <1>0, <1>1, <1>3, OnwardKept
  <1> QED
    BY <1>2, <1>3 DEF RebaseAbort

LEMMA FinishKept == ASSUME AuthorIInv, FinishRebase PROVE AuthorIInv'
  <1>0. /\ cli = AtPrompt /\ cli' = cli /\ Drafted /\ Rebasing
        /\ UNCHANGED <<repo, inside, toMake, rows, pushedAs>> /\ unsaved \subseteq Work
        /\ toMake \subseteq Work /\ open \in Stops /\ ~inside /\ Len(stack) \in Nat
        /\ DOMAIN stack = 1 .. Len(stack)
    BY Places DEF FinishRebase, AuthorIInv, Drafted, setting, server, Stoppable
  <1>1. cli.pc = "idle" /\ cli'.pc = "idle" /\ cli' \in Commanded /\ Collecting' /\ Noting'
    BY <1>0, AtRest DEF AtPrompt, Commanded
  <1>2. CASE Aborted
    BY <1>0, <1>1, <1>2, AbortedKept
  <1>3. CASE Continued
    <2>0. PICK folded \in SUBSET (open.late \cap unsaved) :
             /\ stack' = [stack EXCEPT ![open.at].work = @ \cup folded]
             /\ unsaved' = unsaved \ folded
      BY <1>3 DEF Continued
    <2>1. on' = open.tip /\ open' = NoRebase /\ strayed' = strayed
      BY <1>3 DEF Continued
    <2> DEFINE n == open.at
               r == [stack[n] EXCEPT !.work = @ \cup folded]
    <2>2. n \in DOMAIN stack /\ stack[n] \in Written
      BY <1>0, Places DEF Rebasing, Stops
    <2>3. r \in Written /\ r.parent = stack[n].parent /\ r.ids = stack[n].ids
          /\ r.work = stack[n].work \cup folded /\ r.conflict = stack[n].conflict
      BY <1>0, <2>2 DEF Written
    <2>4. stack' = [stack EXCEPT ![n] = r]
      BY <2>0, <2>2
    <2>5. on' \in 0 .. Len(stack) /\ open' \in Stops /\ open'.at = 0
      BY <1>0, <2>1 DEF Stops, NoRebase
    <2> HIDE DEF r, n
    <2> QED
      BY <1>0, <1>1, <2>0, <2>1, <2>2, <2>3, <2>4, <2>5, RewriteKept
  <1> QED
    BY <1>2, <1>3 DEF FinishRebase

LEMMA JJRebaseKept == ASSUME AuthorIInv, JJRebase PROVE AuthorIInv'
  <1>0. /\ Drafted /\ cli.pc = "rebase" /\ unsaved \subseteq Work /\ Noting
        /\ UNCHANGED <<repo, on, inside, open, unsaved, toMake, rows, pushedAs, strayed>>
        /\ cli' = [cli EXCEPT !.pc = "listed"]
    BY DEF JJRebase, AuthorIInv, Drafted, setting, place, server
  <1>1. /\ cli' = [pc |-> "listed", verb |-> cli.verb, late |-> cli.late,
                   saved |-> cli.saved, kept |-> cli.kept]
        /\ cli' \in Commanded
    <2>1. /\ cli.verb \in {"sync", "land", "push"} /\ cli.late \subseteq Work
          /\ cli.saved \in Seq(Written) /\ cli.kept \subseteq Work
          /\ cli = [pc |-> cli.pc, verb |-> cli.verb, late |-> cli.late,
                    saved |-> cli.saved, kept |-> cli.kept]
      BY <1>0, Carried
    <2>2. cli' = [pc |-> "listed", verb |-> cli.verb, late |-> cli.late,
                  saved |-> cli.saved, kept |-> cli.kept]
      BY <1>0, <2>1
    <2> QED
      BY <2>1, <2>2 DEF Commanded
  <1>2. Collecting'
    BY <1>1 DEF Collecting
  <1>3. CASE UNCHANGED stack
    <2>1. Noting'
      BY <1>0, <1>1, <1>3 DEF Noting, Mentioned
    <2> QED
      BY <1>0, <1>1, <1>2, <1>3, <2>1, OnwardKept
  <1>4. ASSUME NEW n \in DOMAIN stack, stack' = [stack EXCEPT ![n].conflict = TRUE]
        PROVE  AuthorIInv'
    <2> DEFINE r == [stack[n] EXCEPT !.conflict = TRUE]
    <2>1. r \in Written /\ r.parent = stack[n].parent /\ r.ids = stack[n].ids
          /\ r.work = stack[n].work
      BY <1>0, Places DEF Written
    <2>2. stack' = [stack EXCEPT ![n] = r]
      BY <1>4
    <2> HIDE DEF r
    <2>3. /\ Len(stack') = Len(stack) /\ DOMAIN stack' = DOMAIN stack
          /\ stack'[n] = r /\ \A m \in DOMAIN stack \ {n} : stack'[m] = stack[m]
      BY <1>0, <2>1, <2>2, Rewriting DEF Drafted
    <2>4. \A m \in DOMAIN stack : stack'[m].ids = stack[m].ids /\ stack'[m].work = stack[m].work
      BY <2>1, <2>3
    <2>5. Noting'
      BY <1>0, <1>1, <2>3, <2>4 DEF Noting, Mentioned
    <2> QED
      BY <1>0, <1>1, <1>2, <2>1, <2>2, <2>5, RewriteKept
  <1> QED
    BY <1>3, <1>4 DEF JJRebase

LEMMA RestoreKept ==
  ASSUME AuthorIInv, cli.pc = "listed", OpRestore, Return \/ Send,
         UNCHANGED <<repo, on, inside, open, toMake, rows, pushedAs>>
  PROVE  AuthorIInv'
  <1>0. /\ Drafted /\ Identified /\ WorkKept /\ AtHome
        /\ Lined(cli.saved) /\ Len(cli.saved) = Len(stack)
        /\ \A n \in DOMAIN stack : /\ cli.saved[n].ids = stack[n].ids
                                   /\ cli.saved[n].conflict => Mentioned
        /\ cli.late = {} => /\ cli.kept = unsaved
                            /\ \A n \in DOMAIN stack : cli.saved[n].work = stack[n].work
    BY DEF AuthorIInv, Noting
  <1>1. /\ stack' = cli.saved /\ unsaved' = cli.kept \cup (unsaved \cap (Outside \cup Large))
        /\ strayed' = strayed \cup (IF cli.late # {} THEN {<<"rolled back">>} ELSE {})
    BY DEF OpRestore, Excuse
  <1>2. cli' \in Commanded /\ cli'.pc \in {"idle", "send"} /\ Collecting' /\ Noting'
    BY Returning
  <1>3. Len(stack') = Len(stack) /\ DOMAIN stack' = DOMAIN stack
        /\ DOMAIN stack = 1 .. Len(stack)
    <2>1. stack' \in Seq(Written) /\ stack \in Seq(Written) /\ Len(stack') = Len(stack)
      BY <1>0, <1>1 DEF Lined, Drafted
    <2>2. \A s \in Seq(Written) : DOMAIN s = 1 .. Len(s)
      OBVIOUS
    <2> QED
      BY <2>1, <2>2
  <1>4. Drafted'
    <2>0. Stoppable'
      BY <1>0, <1>3 DEF Drafted, Stoppable, Stops, Rebasing, JJ
    <2>1. unsaved' \subseteq Work
      BY <1>0, <1>1, Carried DEF Drafted
    <2>2. Lined(stack')
      BY <1>0, <1>1 DEF Lined
    <2> QED
      BY <1>0, <1>2, <1>3, <2>0, <2>1, <2>2 DEF Drafted, JJ
  <1>5. Identified'
    BY <1>0, <1>1, <1>3, IdentityStays, Places
  <1>6. WorkKept'
    <2>1. <<"omitted">> \notin strayed' /\ strayed \subseteq strayed'
      BY <1>0, <1>1, StraysApart DEF WorkKept
    <2>2. <<"rolled back">> \notin strayed' => Held \subseteq Held'
      BY <1>0, <1>1, <1>3 DEF Held
    <2> QED
      BY <1>0, <2>1, <2>2, WorkStays
  <1>7. AtHome'
    BY <1>0, <1>1, <1>3 DEF AtHome, Conflicted, ConflictsStayHome, Mentioned
  <1> QED
    BY <1>2, <1>4, <1>5, <1>6, <1>7 DEF AuthorIInv

LEMMA ListedKept == ASSUME AuthorIInv, JJListed \/ Killed PROVE AuthorIInv'
  <1>0. unsaved \subseteq Work
    BY DEF AuthorIInv, Drafted
  <1>1. CASE Killed
    <2>1. /\ Return /\ UNCHANGED <<repo, stack, on, inside, open, unsaved, toMake, rows, pushedAs>>
          /\ strayed' = strayed \cup (IF Conflicted THEN {<<"killed">>} ELSE {})
      BY <1>1 DEF Killed, Excuse, setting, place, server
    <2>2. cli' \in Commanded /\ Collecting' /\ Noting'
      BY <2>1, Returning
    <2>3. CASE Conflicted
      BY <1>0, <2>1, <2>2, <2>3, OnwardKept DEF Explained, Mentioned
    <2>4. CASE ~Conflicted
      BY <1>0, <2>1, <2>2, <2>4, OnwardKept
    <2> QED
      BY <2>3, <2>4
  <1>2. CASE JJListed
    <2>1. cli.pc = "listed" /\ UNCHANGED <<repo, on, inside, open, toMake, rows, pushedAs>>
      BY <1>2 DEF JJListed, setting, place, server
    <2>2. Return \/ Send
      BY <1>2 DEF JJListed, AfterSync, PushAnyway
    <2>3. cli' \in Commanded /\ Collecting' /\ Noting'
      BY <2>2, Returning
    <2>4. \/ ~Conflicted /\ UNCHANGED <<stack, unsaved>> /\ strayed' = strayed \cup {}
          \/ OpRestore
          \/ \E w \in Explained : strayed' = strayed \cup {w} /\ UNCHANGED <<stack, unsaved>>
      BY <1>2 DEF JJListed, Excuse, Explained
    <2>5. CASE ~Conflicted /\ UNCHANGED <<stack, unsaved>> /\ strayed' = strayed \cup {}
      BY <1>0, <2>1, <2>3, <2>5, OnwardKept
    <2>6. CASE \E w \in Explained : strayed' = strayed \cup {w} /\ UNCHANGED <<stack, unsaved>>
      BY <1>0, <2>1, <2>3, <2>6, OnwardKept DEF Mentioned
    <2> QED
      BY <2>1, <2>2, <2>4, <2>5, <2>6, RestoreKept
  <1> QED
    BY <1>1, <1>2

LEMMA EditKept == ASSUME AuthorIInv, NEW e \in toMake, Edit(e) PROVE AuthorIInv'
  <1>0. /\ Drafted /\ Collecting /\ Noting /\ unsaved \subseteq Work
           /\ toMake \subseteq Work /\ e \in Work
        /\ toMake' = toMake \ {e} /\ UNCHANGED <<repo, on, inside, rows, pushedAs, strayed>>
        /\ open' = IF Rebasing THEN [open EXCEPT !.late = @ \cup {e}] ELSE open
        /\ cli' = IF cli = AtPrompt THEN AtPrompt ELSE [cli EXCEPT !.late = @ \cup {e}]
    BY DEF Edit, AuthorIInv, Drafted, setting, place, server
  <1>1. /\ cli' \in Commanded /\ cli'.pc = cli.pc
        /\ cli.pc # "idle" => cli'.late = cli.late \cup {e}
        /\ cli.pc \in {"create", "amend", "reword"} =>
              cli'.staged = cli.staged /\ cli'.large = cli.large /\ cli'.id = cli.id
        /\ cli.pc \in {"rebase", "stopped", "listed"} =>
              cli'.saved = cli.saved /\ cli'.kept = cli.kept
    <2>1. CASE cli.pc \in {"create", "amend", "reword"}
      <3>1. /\ cli.msg \in Messages /\ cli.large \in BOOLEAN
            /\ cli.staged \subseteq Work /\ cli.late \subseteq Work /\ cli.id \in Seq(ChangeIds)
            /\ cli = [pc |-> cli.pc, msg |-> cli.msg, large |-> cli.large,
                      staged |-> cli.staged, late |-> cli.late, id |-> cli.id]
        BY <1>0, <2>1, Carried
      <3>2. cli' = [pc |-> cli.pc, msg |-> cli.msg, large |-> cli.large,
                    staged |-> cli.staged, late |-> cli.late \cup {e}, id |-> cli.id]
        <4>1. cli' = [cli EXCEPT !.late = @ \cup {e}]
          BY <1>0, <2>1 DEF AtPrompt
        <4> QED
          BY <3>1, <4>1
      <3> QED
        BY <1>0, <2>1, <3>1, <3>2 DEF Commanded
    <2>2. CASE cli.pc \in {"rebase", "stopped", "listed"}
      <3>1. /\ cli.verb \in {"sync", "land", "push"} /\ cli.late \subseteq Work
            /\ cli.saved \in Seq(Written) /\ cli.kept \subseteq Work
            /\ cli = [pc |-> cli.pc, verb |-> cli.verb, late |-> cli.late,
                      saved |-> cli.saved, kept |-> cli.kept]
        BY <1>0, <2>2, Carried
      <3>2. cli' = [pc |-> cli.pc, verb |-> cli.verb, late |-> cli.late \cup {e},
                    saved |-> cli.saved, kept |-> cli.kept]
        <4>1. cli' = [cli EXCEPT !.late = @ \cup {e}]
          BY <1>0, <2>2 DEF AtPrompt
        <4> QED
          BY <3>1, <4>1
      <3> QED
        BY <1>0, <2>2, <3>1, <3>2 DEF Commanded
    <2>3. CASE cli.pc = "send"
      <3>1. cli.late \subseteq Work /\ cli = [pc |-> "send", late |-> cli.late]
        BY <1>0, <2>3, Carried
      <3>2. cli' = [pc |-> "send", late |-> cli.late \cup {e}]
        <4>1. cli' = [cli EXCEPT !.late = @ \cup {e}]
          BY <1>0, <2>3 DEF AtPrompt
        <4> QED
          BY <3>1, <4>1
      <3> QED
        BY <1>0, <2>3, <3>1, <3>2 DEF Commanded
    <2>4. CASE cli.pc = "idle"
      BY <1>0, <2>4, Carried DEF AtPrompt, Commanded
    <2> QED
      BY <1>0, <2>1, <2>2, <2>3, <2>4, Carried
  <1>a. open' \in Stops /\ (open'.at # 0 => ~JJ)
    BY <1>0 DEF Drafted, Stoppable, Stops, Rebasing
  <1>2. CASE inside /\ e \notin Outside \cup Large
    <2> DEFINE r == [stack[on] EXCEPT !.work = @ \cup {e}]
    <2>1. on \in DOMAIN stack /\ stack[on] \in Written /\ unsaved' = unsaved
      BY <1>0, <1>2, Places DEF Drafted, Edit
    <2>2. r \in Written /\ r.parent = stack[on].parent /\ r.ids = stack[on].ids
          /\ r.work = stack[on].work \cup {e} /\ r.conflict = stack[on].conflict
      BY <1>0, <2>1 DEF Written
    <2>3. stack' = [stack EXCEPT ![on] = r]
      BY <1>2, <2>1 DEF Edit
    <2> HIDE DEF r
    <2>4. /\ Len(stack') = Len(stack) /\ DOMAIN stack' = DOMAIN stack
          /\ stack'[on] = r /\ \A m \in DOMAIN stack \ {on} : stack'[m] = stack[m]
      BY <1>0, <2>1, <2>2, <2>3, Rewriting DEF Drafted
    <2>5. \A m \in DOMAIN stack : stack'[m].ids = stack[m].ids
      BY <2>2, <2>4
    <2>6. Collecting'
      BY <1>0, <1>1, <2>1, <2>4, <2>5 DEF Collecting, HasChangeId, ParseChangeID, JJ
    <2>7. Noting'
      BY <1>0, <1>1, <2>4, <2>5 DEF Noting, Mentioned
    <2> QED
      BY <1>0, <1>1, <1>a, <2>1, <2>2, <2>3, <2>6, <2>7, RewriteKept
  <1>3. CASE ~(inside /\ e \notin Outside \cup Large)
    <2>1. stack' = stack /\ unsaved' = unsaved \cup {e}
      BY <1>3 DEF Edit
    <2>2. Collecting'
      BY <1>0, <1>1, <2>1 DEF Collecting, HasChangeId, ParseChangeID, JJ
    <2>3. Noting'
      BY <1>0, <1>1, <2>1 DEF Noting, Mentioned
    <2> QED
      BY <1>0, <1>1, <1>a, <2>1, <2>2, <2>3, OnwardKept
  <1> QED
    BY <1>2, <1>3

----------------------------------------------------------------------------
(* The push.                                                                *)

\* A trailer is amended in where there is none, and nothing else is touched.
LEMMA Ensured ==
  ASSUME Drafted, on # 0, stack' = EnsureChangeID
  PROVE  /\ Lined(stack') /\ Len(stack') = Len(stack) /\ DOMAIN stack' = DOMAIN stack
         /\ \A n \in DOMAIN stack :
               /\ stack'[n].work = stack[n].work /\ stack'[n].conflict = stack[n].conflict
               /\ stack[n].ids # << >> => stack'[n].ids = stack[n].ids
  <1>0. /\ Lined(stack) /\ on \in DOMAIN stack /\ on \in 1 .. MaxLine /\ stack[on] \in Written
    BY Places DEF Drafted
  <1>1. CASE HasChangeId(on)
    BY <1>0, <1>1 DEF EnsureChangeID
  <1>2. CASE ~HasChangeId(on)
    <2> DEFINE r == [stack[on] EXCEPT !.ids = <<Minted(on)>>]
    <2>1. <<Minted(on)>> \in Seq(ChangeIds)
      <3>1. Minted(on) \in ChangeIds
        BY <1>0, Trailers
      <3> QED
        BY <3>1
    <2>2. r \in Written /\ r.parent = stack[on].parent /\ r.work = stack[on].work
          /\ r.conflict = stack[on].conflict
      BY <1>0, <2>1 DEF Written
    <2>3. stack' = [stack EXCEPT ![on] = r]
      BY <1>0, <1>2 DEF EnsureChangeID
    <2> HIDE DEF r
    <2>4. /\ Lined(stack') /\ Len(stack') = Len(stack) /\ DOMAIN stack' = DOMAIN stack
          /\ stack'[on] = r /\ \A m \in DOMAIN stack \ {on} : stack'[m] = stack[m]
      BY <1>0, <2>2, <2>3, Rewriting
    <2>5. stack[on].ids = << >>
      BY <1>2 DEF HasChangeId
    <2> QED
      BY <2>2, <2>4, <2>5
  <1> QED
    BY <1>1, <1>2

LEMMA PushIsKept == ASSUME AuthorIInv, PushSend PROVE AuthorIInv'
  <1>0. /\ Drafted /\ Identified /\ WorkKept /\ AtHome /\ cli.pc = "send" /\ Return
        /\ unsaved \subseteq Work /\ UNCHANGED <<repo, on, inside, open, unsaved, toMake, strayed>>
    BY DEF PushSend, AuthorIInv, Drafted, setting, place
  <1>1. cli' \in Commanded /\ cli'.pc \in {"idle", "send"} /\ Collecting' /\ Noting'
    BY <1>0, Returning
  <1>2. CASE UNCHANGED <<stack, rows, pushedAs>>
    BY <1>0, <1>1, <1>2, OnwardKept
  <1>3. CASE CanSend
    <2>1. on # 0 /\ stack' = EnsureChangeID
      BY <1>3 DEF CanSend, PushSend
    <2>2. /\ Lined(stack') /\ Len(stack') = Len(stack) /\ DOMAIN stack' = DOMAIN stack
          /\ \A n \in DOMAIN stack :
                /\ stack'[n].work = stack[n].work /\ stack'[n].conflict = stack[n].conflict
                /\ stack[n].ids # << >> => stack'[n].ids = stack[n].ids
      BY <1>0, <2>1, Ensured
    <2>3. WorkKept'
      <3>1. Held \subseteq Held'
        BY <1>0, <2>2 DEF Held
      <3>2. <<"omitted">> \notin strayed'
        BY <1>0 DEF WorkKept
      <3> QED
        BY <1>0, <3>1, <3>2, WorkStays
    <2>4. Series(stack') \subseteq DOMAIN stack
      BY <1>0, BelowIsStack DEF Series, Drafted
    <2>5. \A n \in Series(stack') : stack'[n].ids # << >>
      BY DEF Series
    <2>6. Len(stack') <= MaxLine /\ DOMAIN stack' = 1 .. Len(stack') /\ MaxLine \in Nat
      BY <1>0, <2>2, Places
    <2>7. CASE UNCHANGED server
      <3>1. Drafted'
        BY <1>0, <1>1, <2>2, <2>7 DEF Drafted, server, Stoppable, Stops, Rebasing, JJ
      <3>2. Identified'
        BY <1>0, <2>2, <2>6, <2>7, IdentityStays DEF server
      <3>3. AtHome'
        BY <1>0, <2>2, <2>7, StaysHome DEF server
      <3> QED
        BY <1>1, <2>3, <3>1, <3>2, <3>3 DEF AuthorIInv
    <2>8. CASE /\ rows' = SeriesRows(stack')
               /\ pushedAs' = [n \in DOMAIN pushedAs |->
                                 IF n \in Series(stack') THEN pushedAs[n] \cup {stack'[n].ids[1]}
                                 ELSE pushedAs[n]]
      <3>1. /\ DOMAIN pushedAs = 1 .. MaxLine
            /\ \A n \in 1 .. MaxLine : pushedAs[n] \in SUBSET ChangeIds
               /\ IsFiniteSet(pushedAs[n])
        BY <1>0 DEF Drafted
      <3>2. /\ \A n \in Series(stack') : pushedAs'[n] = pushedAs[n] \cup {stack'[n].ids[1]}
            /\ \A n \in 1 .. MaxLine : n \notin Series(stack') => pushedAs'[n] = pushedAs[n]
            /\ Series(stack') \subseteq 1 .. MaxLine
        BY <2>2, <2>4, <2>6, <2>8, <3>1
      <3>3. \A n \in Series(stack') : stack'[n].ids[1] \in ChangeIds
            /\ Head(stack'[n].ids) = stack'[n].ids[1]
        <4> SUFFICES ASSUME NEW n \in Series(stack')
                     PROVE  stack'[n].ids[1] \in ChangeIds
                            /\ Head(stack'[n].ids) = stack'[n].ids[1]
          OBVIOUS
        <4>1. stack'[n] \in Written
          <5>1. stack' \in Seq(Written)
            BY <2>2 DEF Lined
          <5> QED
            BY <2>2, <2>4, <5>1
        <4>2. stack'[n].ids \in Seq(ChangeIds)
          BY <4>1 DEF Written
        <4> QED
          BY <2>5, <4>2
      <3>4. /\ pushedAs' \in [1 .. MaxLine -> SUBSET ChangeIds]
            /\ \A n \in 1 .. MaxLine : IsFiniteSet(pushedAs'[n])
        <4>1. ASSUME NEW n \in 1 .. MaxLine
              PROVE  pushedAs'[n] \in SUBSET ChangeIds /\ IsFiniteSet(pushedAs'[n])
          <5>1. CASE n \in Series(stack')
            <6>1. pushedAs'[n] = pushedAs[n] \cup {stack'[n].ids[1]}
              BY <3>2, <5>1
            <6>2. IsFiniteSet(pushedAs[n]) /\ pushedAs[n] \subseteq ChangeIds
              BY <3>1
            <6>3. IsFiniteSet(pushedAs[n] \cup {stack'[n].ids[1]})
              BY <6>2, FS_AddElement
            <6> QED
              BY <3>3, <5>1, <6>1, <6>2, <6>3
          <5>2. CASE n \notin Series(stack')
            BY <3>1, <3>2, <5>2
          <5> QED
            BY <5>1, <5>2
        <4>2. pushedAs' = [n \in 1 .. MaxLine |-> pushedAs'[n]]
          BY <2>8, <3>1
        <4> QED
          BY <4>1, <4>2
      <3>5. Drafted'
        BY <1>0, <1>1, <2>2, <3>4 DEF Drafted, Stoppable, Stops, Rebasing, JJ
      <3>6. Identified'
        <4>1. ASSUME NEW n \in 1 .. MaxLine, pushedAs'[n] # {} PROVE n \in DOMAIN stack'
          BY <1>0, <2>2, <2>4, <3>2, <4>1 DEF Identified
        <4>2. ASSUME NEW n \in DOMAIN stack', pushedAs'[n] # {}
              PROVE  \/ HasChangeId(n)' /\ ParseChangeID(n)' \in pushedAs'[n]
                     \/ <<"renamed", n>> \in strayed'
          <5>1. n \in 1 .. MaxLine /\ n \in DOMAIN stack /\ n # 0
            BY <2>2, <2>6
          <5>2. CASE n \in Series(stack')
            BY <2>5, <3>2, <3>3, <5>1, <5>2 DEF HasChangeId, ParseChangeID
          <5>3. CASE n \notin Series(stack')
            <6>1. pushedAs'[n] = pushedAs[n]
              BY <3>2, <5>1, <5>3
            <6>2. \/ HasChangeId(n) /\ ParseChangeID(n) \in pushedAs[n]
                  \/ <<"renamed", n>> \in strayed
              BY <1>0, <4>2, <5>1, <6>1 DEF Identified, IdentityKept
            <6> QED
              BY <1>0, <2>2, <5>1, <6>1, <6>2 DEF HasChangeId, ParseChangeID
          <5> QED
            BY <5>2, <5>3
        <4> QED
          BY <4>1, <4>2 DEF Identified, IdentityKept
      <3>7. AtHome'
        <4>1. Conflicted' => Conflicted
          BY <2>2 DEF Conflicted
        <4>2. Conflicted => Mentioned
          BY <1>0 DEF AtHome
        <4>3. (\E r \in rows' : r.conflict) => Conflicted
          <5>1. ASSUME NEW r \in SeriesRows(stack'), r.conflict PROVE Conflicted
            <6>1. PICK n \in Series(stack') :
                     r = [id |-> stack'[n].ids[1], conflict |-> stack'[n].conflict]
              BY DEF SeriesRows
            <6>2. stack'[n].conflict /\ n \in DOMAIN stack
              BY <2>4, <5>1, <6>1
            <6> QED
              BY <2>2, <6>2 DEF Conflicted
          <5> QED
            BY <2>8, <5>1
        <4> QED
          BY <1>0, <4>1, <4>2, <4>3 DEF AtHome, ConflictsStayHome, Mentioned
      <3> QED
        BY <1>1, <2>3, <3>5, <3>6, <3>7 DEF AuthorIInv
    <2> QED
      BY <1>3, <2>7, <2>8 DEF PushSend
  <1> QED
    BY <1>2, <1>3 DEF PushSend, server

LEMMA InitAuthor == AuthorInit => AuthorIInv
  <1> SUFFICES ASSUME AuthorInit PROVE AuthorIInv
    OBVIOUS
  <1> DEFINE old == <<"minted", 1, 0>>
             first == [parent |-> 0, ids |-> <<old>>, work |-> {}, wip |-> FALSE,
             conflict |-> FALSE]
  <1>1. /\ repo \in Checkouts
        /\ stack = IF repo.attached THEN <<first>> ELSE << >>
        /\ rows = IF repo.attached THEN {[id |-> old, conflict |-> FALSE]} ELSE {}
        /\ pushedAs = [n \in 1 .. MaxLine |-> IF repo.attached /\ n = 1 THEN {old} ELSE {}]
        /\ on = Len(stack) /\ inside = FALSE /\ open = NoRebase
        /\ unsaved = {} /\ toMake = repo.edits /\ behind = FALSE /\ moved = 0 /\ cli = AtPrompt /\ strayed = {}
    BY DEF AuthorInit, Committed
  <1>2. old \in ChangeIds /\ <<old>> \in Seq(ChangeIds) /\ Head(<<old>>) = old /\ <<old>> # << >>
    BY DEF ChangeIds
  <1>3. first \in Written /\ first.parent = 0 /\ first.ids = <<old>> /\ first.conflict = FALSE
    <2> HIDE DEF old
    <2> QED
      BY <1>2 DEF Written
  <1>4. repo.edits \subseteq Work /\ repo.attached \in BOOLEAN /\ MaxLine \in Nat /\ 1 <= MaxLine
    BY <1>1, AuthoringAssumption
  <1> HIDE DEF first, old
  <1>5. /\ Lined(stack) /\ Len(stack) \in Nat /\ DOMAIN stack = 1 .. Len(stack)
        /\ Len(stack) = (IF repo.attached THEN 1 ELSE 0)
        /\ \A n \in DOMAIN stack : n = 1 /\ stack[n] = first
    <2>1. CASE repo.attached
      BY <1>1, <1>3, <1>4, <2>1 DEF Lined
    <2>2. CASE ~repo.attached
      BY <1>1, <1>4, <2>2 DEF Lined
    <2> QED
      BY <2>1, <2>2
  <1>6. Drafted
    <2>1. /\ pushedAs \in [1 .. MaxLine -> SUBSET ChangeIds]
          /\ \A n \in 1 .. MaxLine : IsFiniteSet(pushedAs[n])
      BY <1>1, <1>2, FS_EmptySet, FS_Singleton
    <2>2. cli \in Commanded
      BY <1>1 DEF AtPrompt, Commanded
    <2>5. Stoppable
      BY <1>1, <1>5 DEF Stoppable, Stops, Rebasing, NoRebase
    <2>3. on \in 0 .. Len(stack) /\ inside \in BOOLEAN /\ (inside => on # 0 /\ JJ)
      <3>1. on = Len(stack) /\ inside = FALSE
        BY <1>1
      <3>2. on \in 0 .. Len(stack)
        BY <1>5, <3>1
      <3> QED
        BY Zenon, <3>1, <3>2
    <2>4. repo \in Checkouts /\ unsaved \subseteq Work /\ toMake \subseteq Work
      BY <1>1, <1>4
    <2> QED
      BY <1>5, <2>1, <2>2, <2>3, <2>4, <2>5 DEF Drafted
  <1>7. Identified
    <2>1. \A n \in 1 .. MaxLine : pushedAs[n] # {} => n \in DOMAIN stack
      BY <1>1, <1>5
    <2>2. ASSUME NEW n \in DOMAIN stack
          PROVE  HasChangeId(n) /\ ParseChangeID(n) \in pushedAs[n]
      <3>1. n = 1 /\ stack[n].ids = <<old>> /\ repo.attached /\ pushedAs[n] = {old}
        BY <1>1, <1>3, <1>4, <1>5
      <3> QED
        BY <1>2, <3>1 DEF HasChangeId, ParseChangeID
    <2> QED
      BY <2>1, <2>2 DEF Identified, IdentityKept
  <1>8. Collecting /\ Noting
    BY <1>1 DEF Collecting, Noting, AtPrompt
  <1>9. WorkKept
    BY <1>1 DEF WorkKept
  <1>10. AtHome
    BY <1>1, <1>3, <1>5 DEF AtHome, Conflicted, ConflictsStayHome
  <1> QED
    BY <1>6, <1>7, <1>8, <1>9, <1>10 DEF AuthorIInv

LEMMA NextAuthor == AuthorIInv /\ [AuthorNext]_authorVars => AuthorIInv'
  <1> SUFFICES ASSUME AuthorIInv, [AuthorNext]_authorVars PROVE AuthorIInv'
    OBVIOUS
  <1>1. CASE UNCHANGED authorVars
    <2>1. UNCHANGED <<repo, stack, on, inside, open, unsaved, toMake, cli, rows, pushedAs, strayed>>
      BY <1>1 DEF authorVars
    <2>2. Drafted'
      BY <2>1 DEF AuthorIInv, Drafted, Stoppable, Stops, Rebasing, JJ
    <2>3. Collecting' /\ Noting'
      BY <2>1 DEF AuthorIInv, Collecting, Noting, Mentioned, HasChangeId, ParseChangeID, JJ
    <2>4. unsaved \subseteq Work
      BY DEF AuthorIInv, Drafted
    <2> QED
      BY <2>1, <2>2, <2>3, <2>4, OnwardKept DEF Drafted
  <1>2. ASSUME NEW e \in toMake, Edit(e) PROVE AuthorIInv'
    BY <1>2, EditKept
  <1>3. ASSUME NEW msg \in Messages, NEW large \in BOOLEAN,
               CreateChange(msg, large) \/ AmendChange(msg, large)
        PROVE  AuthorIInv'
    BY <1>3, RunKept
  <1>4. CASE \/ TrunkMoves \/ JJNew \/ (\E n \in DOMAIN stack : JJEdit(n))
             \/ (\E r \in rows : AbandonChange(r))
    BY <1>4, PromptKept
  <1>5. CASE JJDescribe \/ (\E n \in DOMAIN stack : Resolve(n)) \/ GitCommit
    BY <1>5, RecordedKept
  <1>9. CASE FinishRebase
    BY <1>9, FinishKept
  <1>6. CASE SyncToTrunk \/ LandWithSync \/ \E auto \in BOOLEAN : PushChange(auto)
    BY <1>6, FetchKept
  <1>7. CASE CreateCommit \/ AmendFold \/ AmendReword \/ WorkspaceSnapshot
    BY <1>7, CreateKept, FoldKept, RewordKept, SnapshotKept
  <1>8. CASE GitRebase \/ RebaseAbort \/ JJRebase \/ JJListed \/ PushSend \/ Killed
    BY <1>8, GitRebaseKept, RebaseAbortKept, JJRebaseKept, ListedKept, PushIsKept
  <1> QED
    BY <1>1, <1>2, <1>3, <1>4, <1>5, <1>6, <1>7, <1>8, <1>9 DEF AuthorNext

\* A stack written in a git or jj checkout keeps the identities of its pushed
\* commits and the work that was in it, the named strays apart, and ships a
\* conflict only when it was reported, or the command was killed before that, or
\* the list of conflicts failed, which the code takes for none; for any edits,
\* cone, cap and length of line (changecreate.go, jj.go, sync.go, workspace.go).
THEOREM AuthoringIsKept == AuthorSpec => []AuthoringKept
  <1>1. AuthorInit => AuthorIInv
    BY InitAuthor
  <1>2. AuthorIInv /\ [AuthorNext]_authorVars => AuthorIInv'
    BY NextAuthor
  <1>3. AuthorIInv => AuthoringKept
    BY DEF AuthorIInv, AuthoringKept, Identified, AtHome
  <1> QED
    BY <1>1, <1>2, <1>3, PTL DEF AuthorSpec

============================================================================
