----------------------------- MODULE AgentFiles -----------------------------
(***************************************************************************)
(* The files runko writes into a checkout for the agent that works there:  *)
(* the harness settings (`runko agent hooks --install`) and the skills (at *)
(* materialization), which belong to no Change.                            *)
(*                                                                         *)
(* Data.  The settings file is absent, broken (not JSON, or cut off by a   *)
(* write under way) or the keys the user gave it and whether runko's hook  *)
(* is wired, and by whom.  A skill is absent, the tree's, the user's or    *)
(* written by runko.  A path is in info/exclude as a pattern, or only      *)
(* mentioned there.                                                        *)
(***************************************************************************)
EXTENDS Naturals, Sequences, FiniteSets, SequencesExt

CONSTANTS SkillOrder,      \* agentsmd.Skills(), the reference skill first
          Grounds,         \* the checkouts: tree, ignore rules, installers, bounds
          UserKeys         \* the keys the user puts into the settings

Settings == "settings"
Skills == ToSet(SkillOrder)
LocalFiles == Skills \cup {Settings}

\* A checkout starts with what the user or a template put there, never with a hook
\* of runko's: the first run is the one that installs it.
ASSUME FilesAssumption ==
    /\ SkillOrder \in Seq(Skills) /\ Settings \notin Skills
    /\ \A g \in Grounds :
        /\ g.settings \in [is : {"none", "broken", "valid"}, keys : SUBSET UserKeys,
                          wired : {"no", "by hand"}]
        /\ g.exclude \in [LocalFiles -> {"none", "mention", "pattern"}]

VARIABLES ground,          \* the checkout
          settings, skills, exclude,   \* what is on disk
          installers,      \* the runs of the two installers
          carried,         \* the files of runko's that got into a snapshot
          given,           \* history: the keys the user wrote
          blunders,        \* history: what excuses what, as pairs
          stumbles

fileVars == <<ground, settings, skills, exclude, installers, carried, given, blunders, stumbles>>

NoSettings == [is |-> "none", keys |-> {}, wired |-> "no"]
Broken == [NoSettings EXCEPT !.is = "broken"]
Valid(keys, wired) == [is |-> "valid", keys |-> keys, wired |-> wired]

FileInit ==
    /\ ground \in Grounds
    /\ settings = ground.settings /\ given = ground.settings.keys
    /\ skills = [s \in Skills |-> IF s \in ground.own THEN "user's" ELSE "none"]
    /\ exclude = ground.exclude
    /\ installers = [i \in DOMAIN ground.verbs |-> [at |-> "start", n |-> 1, read |-> NoSettings]]
    /\ carried = {} /\ blunders = {} /\ stumbles = ground.stumbles

Blunder(why, what) == blunders' = blunders \cup {<<why, what>>}
InstallerAt(i, at) == i \in DOMAIN installers /\ installers[i].at = at
InstallerGoes(i, at) == installers' = [installers EXCEPT ![i].at = at]

InTree(f) == f \in ground.tree
\* git check-ignore: never a tracked file; a negated pattern wins over info/exclude
IgnoredWith(f, entry) ==
    /\ ~InTree(f)
    /\ f \in ground.gitignore \/ (entry = "pattern" /\ f \notin ground.negated)
CheckIgnore(f) == IgnoredWith(f, exclude[f])

\* excludeFromSnapshots: any mention of the path counts as excluded already;
\* a path that still is not ignored is only warned about
ExcludeFromSnapshots(f) ==
    LET entry == IF ~CheckIgnore(f) /\ exclude[f] = "none" THEN "pattern" ELSE exclude[f]
    IN  /\ exclude' = [exclude EXCEPT ![f] = entry]
        /\ IF IgnoredWith(f, entry) THEN UNCHANGED blunders ELSE Blunder("warned", f)

-----------------------------------------------------------------------------
(* InstallAgentHooks and mergeAgentHooksSettings.                           *)
ReadSettings(i) ==
    /\ InstallerAt(i, "start") /\ ground.verbs[i] = "hooks"
    /\ installers' = [installers EXCEPT ![i].read = settings,
           ![i].at = IF ~ground.bound \/ settings.is = "broken" THEN "refused"
                     ELSE IF settings.wired # "no" THEN "exclude" ELSE "write"]
    /\ UNCHANGED <<ground, settings, skills, exclude, carried, given, blunders, stumbles>>

\* os.WriteFile empties the file first
TruncateSettings(i) ==
    /\ InstallerAt(i, "write") /\ InstallerGoes(i, "written")
    /\ settings' = Broken
    /\ IF settings # installers[i].read THEN Blunder("written between", Settings)
       ELSE UNCHANGED blunders
    /\ UNCHANGED <<ground, skills, exclude, carried, given, stumbles>>

\* mutant: the snippet is written over what was there
Overwritten(read) == Valid({}, "installed")
Kept(read) == Valid(read.keys, "installed")
MergedSettings(read) == Kept(read)
WriteSettings(i) ==
    /\ InstallerAt(i, "written") /\ InstallerGoes(i, "exclude")
    /\ settings' = MergedSettings(installers[i].read)
    /\ IF settings # Broken THEN Blunder("written between", Settings) ELSE UNCHANGED blunders
    /\ UNCHANGED <<ground, skills, exclude, carried, given, stumbles>>

\* wired before or just now, the exclusion is verified
ExcludeSettings(i) ==
    /\ InstallerAt(i, "exclude") /\ InstallerGoes(i, "done")
    /\ ExcludeFromSnapshots(Settings)
    /\ UNCHANGED <<ground, settings, skills, carried, given, stumbles>>

-----------------------------------------------------------------------------
(* A checkout is materialized: its cone, the tree's files, then the skills. *)
\* mutant: the reference skill stands for all
ReferenceOnly == InTree(SkillOrder[1])
AnySkill == \E s \in Skills : InTree(s)
TreeHasAgentSkill == AnySkill
ConeWithAgentSkill ==
    ground.cone = {} \/ TreeHasAgentSkill \/ ground.cone \cap {".", "agent dir"} # {}

Materialized(i) ==
    /\ InstallerAt(i, "start") /\ ground.verbs[i] = "attach" /\ InstallerGoes(i, "skill")
    /\ skills' = [s \in Skills |-> IF InTree(s) /\ ConeWithAgentSkill THEN "tree's"
                                   ELSE skills[s]]
    /\ UNCHANGED <<ground, settings, exclude, carried, given, blunders, stumbles>>

\* ensureAgentSkill, one skill: the tree's and what is there are left alone
EnsureAgentSkill(i) ==
    /\ InstallerAt(i, "skill")
    /\ LET n == installers[i].n
           s == SkillOrder[n]
       IN  IF n > Len(SkillOrder)
           THEN InstallerGoes(i, "done") /\ UNCHANGED skills
           ELSE IF InTree(s) \/ skills[s] # "none"
           THEN installers' = [installers EXCEPT ![i].n = n + 1] /\ UNCHANGED skills
           ELSE skills' = [skills EXCEPT ![s] = "runko's"] /\ InstallerGoes(i, "skill written")
    /\ UNCHANGED <<ground, settings, exclude, carried, given, blunders, stumbles>>

\* mutant: what is written is left to the user's ignore rules
NotExcluded(s) == UNCHANGED <<exclude, blunders>>
Excluded(s) == ExcludeFromSnapshots(s)
ExcludeSkill(s) == Excluded(s)
SkillWritten(i) ==
    /\ InstallerAt(i, "skill written")
    /\ installers' = [installers EXCEPT ![i].at = "skill", ![i].n = @ + 1]
    /\ ExcludeSkill(SkillOrder[installers[i].n])
    /\ UNCHANGED <<ground, settings, skills, carried, given, stumbles>>

-----------------------------------------------------------------------------
(* A run is stopped; a write to the checkout or to info/exclude fails; the  *)
(* user edits the settings; a snapshot or a change takes the whole tree.    *)
HalfDone(i) == CASE installers[i].at = "skill written" -> {SkillOrder[installers[i].n]}
             [] installers[i].at \in {"written", "exclude"} -> {Settings}
             [] OTHER -> {}
InstallerStops(i) ==
    /\ i \in DOMAIN installers /\ installers[i].at \notin {"done", "refused", "stopped"}
    /\ stumbles > 0 /\ stumbles' = stumbles - 1 /\ InstallerGoes(i, "stopped")
    /\ blunders' = blunders \cup {<<"stopped", f>> : f \in HalfDone(i)}
    /\ UNCHANGED <<ground, settings, skills, exclude, carried, given>>

UserWrites(k) ==
    /\ k \notin given /\ settings.is # "broken"
    /\ settings' = Valid(settings.keys \cup {k}, settings.wired) /\ given' = given \cup {k}
    /\ UNCHANGED <<ground, skills, exclude, installers, carried, blunders, stumbles>>

Runkos(f) == IF f = Settings THEN settings.wired = "installed" ELSE skills[f] = "runko's"
Snapshot ==
    LET taken == {f \in LocalFiles : Runkos(f) /\ ~CheckIgnore(f)}
    IN  /\ ~(taken \subseteq carried) /\ carried' = carried \cup taken
        /\ blunders' = blunders \cup
               {<<"taken between", f>> :
                    f \in taken \cap UNION {HalfDone(i) : i \in DOMAIN installers}}
        /\ UNCHANGED <<ground, settings, skills, exclude, installers, given, stumbles>>

FileNext ==
    \/ \E i \in DOMAIN installers :
        \/ ReadSettings(i) \/ TruncateSettings(i) \/ WriteSettings(i) \/ ExcludeSettings(i)
        \/ Materialized(i) \/ EnsureAgentSkill(i) \/ SkillWritten(i) \/ InstallerStops(i)
    \/ \E k \in UserKeys : UserWrites(k)
    \/ Snapshot

FileSpec == FileInit /\ [][FileNext]_fileVars

-----------------------------------------------------------------------------
Blundered(why, what) == <<why, what>> \in blunders

(* "A file the tree does not own must never ride into" a Change: what runko *)
(* wrote gets into a snapshot only if that was taken, or the run stopped,   *)
(* between the write and the exclusion, or the user was warned that the     *)
(* exclusion does not hold (excludeFromSnapshots).                          *)
LocalStaysLocal ==
    \A f \in carried : \E why \in {"taken between", "stopped", "warned"} : Blundered(why, f)

(* "Foreign keys survive": what the user put into the settings is there     *)
(* whenever they can be read, unless somebody wrote them between the read   *)
(* and the write of an installer, or one stopped in its write               *)
(* (mergeAgentHooksSettings).                                               *)
ForeignKeysSurvive ==
    \/ given \subseteq settings.keys
    \/ \E i \in DOMAIN installers : InstallerAt(i, "written")
    \/ \E why \in {"written between", "stopped"} : Blundered(why, Settings)

(* "An agent that loads one and not the other gets half the teaching": once *)
(* a checkout is materialized every skill is on disk, the tree's own where  *)
(* it has one (ensureAgentSkill, coneWithAgentSkill).                       *)
WholeTeaching ==
    \A i \in DOMAIN installers :
        InstallerAt(i, "done") /\ ground.verbs[i] = "attach" =>
            \A s \in Skills : skills[s] # "none" /\ (InTree(s) => skills[s] = "tree's")

(* What runko writes for agents is whole, adds to the user's and is local.  *)
AgentFilesSound == LocalStaysLocal /\ ForeignKeysSurvive /\ WholeTeaching
=============================================================================
