------------------------------ MODULE Releases -------------------------------
(***************************************************************************)
(* Cutting releases of one project: createReleaseCore served to several    *)
(* callers at once while Changes land, with the tag in git and the row in  *)
(* the store written one after the other.                                  *)
(*                                                                         *)
(* Data.  Trunk is its length, every commit touching the project.  A       *)
(* version is a patch number of one minor line, 0 the first (0.1.0); the   *)
(* project has versioning semver and changelog from-changes, and callers   *)
(* are allowed to tag.  A changelog is the set of commits it lists.        *)
(***************************************************************************)
EXTENDS Naturals, Sequences

CONSTANTS Cutters,          \* the callers of release create
          MaxVersion,       \* bound on patch numbers
          MaxReleases,      \* bound on calls
          MaxTrunk,         \* bound on the length of trunk
          ChangelogMax,     \* changelogMaxCommits
          MaxReleaseFaults  \* bound on failed row writes, restarts and tags
                            \* pushed with plain git

ASSUME ReleaseAssumption ==
    {MaxVersion, MaxReleases, MaxTrunk, ChangelogMax, MaxReleaseFaults} \subseteq Nat

VARIABLES length,    \* of trunk
          tagged,    \* refs/tags/<prefix><version>: the commit, 0 for no tag
          releases,  \* the rows, in the order of created_at
          cuts,      \* the calls in flight
          asked, releaseFaults,
          orphaned,  \* history: versions whose call ended between tag and row
          meddled    \* history: versions whose tag was pushed with plain git

releaseVars == <<length, tagged, releases, cuts, asked, releaseFaults, orphaned,
                 meddled>>

Versions == 0..MaxVersion
NoVersion == MaxVersion + 1    \* no version given

NoCut == [pc |-> "idle", auto |-> FALSE, version |-> 0, tip |-> 0,
          since |-> 0, log |-> {}]

----------------------------------------------------------------------------
\* Mutant: the oldest row, the list in the wrong order.
OldestRelease == releases[1]

\* GetLatestRelease: by created_at, whatever the version.
LatestRelease == releases[Len(releases)]

\* nextVersion without an explicit version.
NextVersion == IF releases = <<>> THEN 0 ELSE LatestRelease.version + 1

\* Mutant: since the newest tag of the project.
SinceTag == CHOOSE t \in {tagged[v] : v \in Versions} \cup {0} :
                \A v \in Versions : tagged[v] <= t

\* since, read from the store a second time.
Since == IF releases = <<>> THEN 0 ELSE LatestRelease.target

\* commitsSince: since..tip, the newest ChangelogMax.
CommitsSince(since, tip) == {c \in 1..tip : c > since /\ c + ChangelogMax > tip}

----------------------------------------------------------------------------
\* A Change lands.
LandCommit ==
    /\ length < MaxTrunk
    /\ length' = length + 1
    /\ UNCHANGED <<tagged, releases, cuts, asked, releaseFaults, orphaned, meddled>>

\* resolveReleaseProject: the tip this release is of.
ResolveProject(r, want) ==
    /\ cuts[r].pc = "idle" /\ asked < MaxReleases /\ length > 0
    /\ asked' = asked + 1
    /\ cuts' = [cuts EXCEPT ![r] = [NoCut EXCEPT !.pc = "version", !.tip = length,
                       !.auto = want = NoVersion, !.version = want]]
    /\ UNCHANGED <<length, tagged, releases, releaseFaults, orphaned, meddled>>

\* GetLatestRelease and nextVersion.
ChooseVersion(r) ==
    /\ cuts[r].pc = "version"
    /\ cuts[r].auto => NextVersion \in Versions
    /\ cuts' = [cuts EXCEPT ![r].pc = "log",
                            ![r].version = IF cuts[r].auto THEN NextVersion ELSE @]
    /\ UNCHANGED <<length, tagged, releases, asked, releaseFaults, orphaned, meddled>>

ReleaseFault == releaseFaults < MaxReleaseFaults /\ releaseFaults' = releaseFaults + 1

\* The changelog, of what a second GetLatestRelease says; one that fails is
\* taken for no release at all.
DeriveChangelog(r) ==
    /\ cuts[r].pc = "log"
    /\ \E since \in {Since, 0} :
          /\ cuts' = [cuts EXCEPT ![r].pc = "tag", ![r].since = since,
                                  ![r].log = CommitsSince(since, cuts[r].tip)]
          /\ IF since = Since THEN UNCHANGED releaseFaults ELSE ReleaseFault
    /\ UNCHANGED <<length, tagged, releases, asked, orphaned, meddled>>

\* Mutant: git tag -f.
TagFreeForce(v) == TRUE

\* CreateAnnotatedTag refuses a tag that exists (git tag itself, at the last).
TagFree(v) == tagged[v] = 0

CreateTag(r) ==
    LET v == cuts[r].version IN
    /\ cuts[r].pc = "tag"
    /\ IF TagFree(v)
       THEN /\ tagged' = [tagged EXCEPT ![v] = cuts[r].tip]
            /\ cuts' = [cuts EXCEPT ![r].pc = "row"]
       ELSE cuts' = [cuts EXCEPT ![r] = NoCut] /\ UNCHANGED tagged
    /\ UNCHANGED <<length, releases, asked, releaseFaults, orphaned, meddled>>

\* CreateRelease: a row, once per version; then the mirror and the webhook.
CreateRow(r) ==
    LET c == cuts[r] IN
    /\ c.pc = "row"
    /\ \A i \in DOMAIN releases : releases[i].version # c.version
    /\ releases' = Append(releases, [version |-> c.version, target |-> c.tip,
                       since |-> c.since, log |-> c.log, auto |-> c.auto])
    /\ cuts' = [cuts EXCEPT ![r] = NoCut]
    /\ UNCHANGED <<length, tagged, asked, releaseFaults, orphaned, meddled>>

\* Any error of CreateRelease is answered 409 version_exists; the tag stands.
RowRefused(r) ==
    /\ cuts[r].pc = "row"
    /\ \/ ReleaseFault
       \/ /\ \E i \in DOMAIN releases : releases[i].version = cuts[r].version
          /\ UNCHANGED releaseFaults
    /\ orphaned' = orphaned \cup {cuts[r].version}
    /\ cuts' = [cuts EXCEPT ![r] = NoCut]
    /\ UNCHANGED <<length, tagged, releases, asked, meddled>>

\* The daemon ends and starts again: every call is lost where it is.
ReleaseRestart ==
    /\ ReleaseFault /\ \E r \in Cutters : cuts[r].pc # "idle"
    /\ orphaned' = orphaned \cup {cuts[r].version : r \in {q \in Cutters : cuts[q].pc = "row"}}
    /\ cuts' = [r \in Cutters |-> NoCut]
    /\ UNCHANGED <<length, tagged, releases, asked, meddled>>

\* evaluateTag accepts a raw push of a tag in an org that does not enforce the
\* tag policy: it creates, moves or (c = 0) deletes.
PushTag(v, c) ==
    /\ ReleaseFault /\ c # tagged[v]
    /\ tagged' = [tagged EXCEPT ![v] = c]
    /\ meddled' = meddled \cup {v}
    /\ UNCHANGED <<length, releases, cuts, asked, orphaned>>

----------------------------------------------------------------------------
ReleaseInit ==
    /\ length = 0 /\ releases = <<>> /\ asked = 0 /\ releaseFaults = 0
    /\ tagged = [v \in Versions |-> 0]
    /\ cuts = [r \in Cutters |-> NoCut]
    /\ orphaned = {} /\ meddled = {}

ReleaseNext ==
    \/ LandCommit
    \/ \E r \in Cutters :
          \/ \E want \in Versions \cup {NoVersion} : ResolveProject(r, want)
          \/ ChooseVersion(r) \/ DeriveChangelog(r) \/ CreateTag(r)
          \/ CreateRow(r) \/ RowRefused(r)
    \/ \E v \in Versions, c \in 0..length : PushTag(v, c)
    \/ ReleaseRestart

ReleaseSpec == ReleaseInit /\ [][ReleaseNext]_releaseVars

----------------------------------------------------------------------------
(* A release is of the commit its tag names, and one version is released   *)
(* once, however the calls interleave and whichever are cut short: the tag *)
(* in git and the row in the store never disagree ("existing tags are      *)
(* never re-pointed"), unless somebody pushed that tag with plain git.     *)
ReleaseMatchesTag ==
    \A i \in DOMAIN releases :
        /\ \/ tagged[releases[i].version] = releases[i].target
           \/ releases[i].version \in meddled
        /\ \A j \in DOMAIN releases \ {i} : releases[j].version # releases[i].version

(* Every commit that a release contains is in the changelog of that release *)
(* or of an earlier one, although releases may be recorded out of the order *)
(* of their tips, overlap, or leave a tag without a row; commits are left   *)
(* out only where more than ChangelogMax landed between two releases.       *)
ChangelogsCover ==
    \A i \in DOMAIN releases : \A c \in 1..releases[i].target :
        \/ \E j \in 1..i : c \in releases[j].log
        \/ \E j \in 1..i : /\ releases[j].since < c
                           /\ c + ChangelogMax <= releases[j].target

(* The version createReleaseCore would bump to is free, so a caller without *)
(* an explicit version is never refused for good, unless: a call in flight  *)
(* holds it; a call was cut short between the tag and the row (then it is   *)
(* refused until somebody names a version); somebody pushed that tag, or    *)
(* named a version.                                                         *)
NextVersionFree ==
    NextVersion \in Versions /\ tagged[NextVersion] # 0 =>
        \/ \E r \in Cutters : cuts[r].pc = "row" /\ cuts[r].version = NextVersion
        \/ NextVersion \in orphaned \cup meddled
        \/ \E i \in DOMAIN releases : ~releases[i].auto

(* The release rows, the tags and the changelogs agree, whatever calls cut     *)
(* at the same time, stop halfway or are meddled with (createReleaseCore).     *)
ReleasesSound == ReleaseMatchesTag /\ ChangelogsCover /\ NextVersionFree
=============================================================================
