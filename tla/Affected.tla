------------------------------ MODULE Affected -------------------------------
(***************************************************************************)
(* Which projects a change affects: the floor affected.Compute derives     *)
(* from the changed paths and the declared edges, and what runko-ci makes  *)
(* of it when a build-graph diff may replace an escalation.                *)
(*                                                                         *)
(* Data.  A path is the sequence of its segments and a project is known by *)
(* its name; a pattern is the set of paths it matches.  The worklist of    *)
(* the walk is a set: Go iterates the map that fills it in any order.      *)
(***************************************************************************)
EXTENDS Naturals, Sequences, SequencesExt

CONSTANTS Projects, NoProject,
          PathOf,        \* the path of each project, << >> for the root's
          ChangedPaths,  \* what may change
          RootInvalidation,  \* the ordered list of [except, refinable, paths]
          Prose,             \* the ordered list of [except, paths]
          ContractPaths,     \* the roots of each project's contract surface
          Consumes,          \* the providers each project is a client of
          Trees              \* the cases of what the manifests declare: the
                             \* edges, and whether there is a root project

IsPath(s) == s \in Seq({s[k] : k \in DOMAIN s})

\* Projects are told apart by their paths; "blunt" and "refinable" name none.
ASSUME AffectedAssumption ==
    /\ Projects \cap {NoProject, "blunt", "refinable"} = {} /\ DOMAIN PathOf = Projects
    /\ \A p \in Projects : IsPath(PathOf[p]) /\ \A q \in Projects \ {p} : PathOf[q] # PathOf[p]
    /\ \A cp \in ChangedPaths : IsPath(cp)
    /\ Trees \subseteq [dep : SUBSET (Projects \X Projects), rooted : BOOLEAN,
                        test : SUBSET (Projects \X Projects)]

VARIABLES changed,   \* the changed paths
          tree,      \* <<p, q>> in tree.dep or tree.test: p depends on q
          phase,     \* what is being computed: "floor", "handled", "refined"
          seeds, reached, walked, worklist,    \* closeOverDependents
          result     \* AffectedOutput, so far

affectedVars == <<changed, tree, phase, seeds, reached, walked, worklist, result>>
walkVars == <<seeds, reached, walked, worklist>>

----------------------------------------------------------------------------
\* MatchOrderedWhich: the first entry that matches decides.
Deciding(list, p) == SelectInSeq(list, LAMBDA e : p \in e.paths)
MatchOrdered(list, p) ==
    LET i == Deciding(list, p) IN i # 0 /\ ~list[i].except

\* The projects Scan found.
Indexed == {p \in Projects : PathOf[p] # << >> \/ tree.rooted}

RootProjects == {p \in Indexed : PathOf[p] = << >>}

\* findOwner: the longest path that is a prefix.
FindOwner(cp) ==
    LET matching == {p \in Indexed : IsPrefix(PathOf[p], cp)}
    IN  IF matching = {} THEN NoProject
        ELSE CHOOSE p \in matching :
                 \A q \in matching : Len(PathOf[q]) <= Len(PathOf[p])

\* What the loop of Compute makes of one path; handled is RefinableHandled.
Attribution(cp, handled) ==
    LET i == Deciding(RootInvalidation, cp)
        escalates == MatchOrdered(RootInvalidation, cp)
    IN  IF escalates /\ ~(RootInvalidation[i].refinable /\ handled)
          THEN IF RootInvalidation[i].refinable THEN "refinable" ELSE "blunt"
        ELSE IF RootProjects # {} /\ MatchOrdered(Prose, cp)
          THEN CHOOSE p \in RootProjects : TRUE
        ELSE IF FindOwner(cp) # NoProject THEN FindOwner(cp)
        ELSE "blunt"     \* StrictnessConservative

Attributions(handled) == {Attribution(cp, handled) : cp \in changed}
Direct(handled) == Attributions(handled) \cap Projects

\* The providers whose contract surface was touched, and their clients.
ContractTouched ==
    {p \in Indexed : \E r \in ContractPaths[p], cp \in changed : IsPrefix(r, cp)}
Clients == {p \in Indexed : Consumes[p] \cap ContractTouched # {}}

Escalated(handled) == Attributions(handled) \cap {"blunt", "refinable"} # {}
RefinableOnly == "refinable" \in Attributions(FALSE) /\ "blunt" \notin Attributions(FALSE)

----------------------------------------------------------------------------
StartWalk(s, next) ==
    /\ phase' = next /\ seeds' = s
    /\ reached' = s /\ walked' = s /\ worklist' = s

Dependents(kind, cur) == {p \in Indexed : <<p, cur>> \in tree[kind]}

\* Mutant: one set for both questions, so that who is in it is not walked.
ContinueUnreached(cur) == Dependents("dep", cur) \ reached

\* Whom the walk goes on through: propagating edges, whoever was not walked.
Continue(cur) == Dependents("dep", cur) \ walked

\* One turn of closeOverDependents.
WalkStep(cur) ==
    /\ cur \in worklist
    /\ reached' = reached \cup Dependents("dep", cur) \cup Dependents("test", cur)
    /\ walked' = walked \cup Continue(cur)
    /\ worklist' = (worklist \ {cur}) \cup Continue(cur)
    /\ UNCHANGED <<changed, tree, phase, seeds, result>>

WalkEnds == phase \in {"floor", "handled", "refined"} /\ worklist = {}

\* computeFloor: Compute at the head's tree.
ComputeFloor ==
    /\ phase = "start"
    /\ StartWalk(Direct(FALSE) \cup Clients, "floor")
    /\ result' = [everything |-> Escalated(FALSE), projects |-> {}, direct |-> Direct(FALSE),
                  refined |-> FALSE]
    /\ UNCHANGED <<changed, tree>>

\* affectedRefined without an engine, without a reason for a diff, or with a
\* diff that failed: the floor stands; rdeps that failed escalates it.
KeepFloor ==
    /\ phase = "floor" /\ WalkEnds
    /\ phase' = "done"
    /\ \E e \in {result.everything, TRUE} :
          result' = [result EXCEPT !.projects = reached, !.everything = e]
    /\ UNCHANGED <<changed, tree, walkVars>>

\* deescalate after a diff: the floor again, with refinable paths handled.
Deescalate ==
    /\ phase = "floor" /\ WalkEnds /\ result.everything /\ RefinableOnly
    /\ StartWalk(Direct(TRUE) \cup Clients, "handled")
    /\ result' = [result EXCEPT !.projects = reached]
    /\ UNCHANGED <<changed, tree>>

\* Mutant: what the diff says is all there is.
ImpactedOnly(impacted) == impacted

\* Direct members of the floor and the projects of the impacted targets.
RefinedSeeds(impacted) == Direct(TRUE) \cup impacted

\* The end of deescalate: the floor stands if it still escalates (a refinable
\* path that nobody owns); otherwise CloseOverDependentNames of RefinedSeeds.
CloseOverNames(impacted) ==
    /\ phase = "handled" /\ WalkEnds
    /\ IF Escalated(TRUE) THEN phase' = "done" /\ UNCHANGED <<walkVars, result>>
       ELSE /\ StartWalk(RefinedSeeds(impacted), "refined")
            /\ result' = [result EXCEPT !.everything = FALSE, !.direct = seeds',
                                        !.refined = TRUE]
    /\ UNCHANGED <<changed, tree>>

RefinementDone ==
    /\ phase = "refined" /\ WalkEnds
    /\ phase' = "done" /\ result' = [result EXCEPT !.projects = reached]
    /\ UNCHANGED <<changed, tree, walkVars>>

----------------------------------------------------------------------------
AffectedInit ==
    /\ changed \in SUBSET ChangedPaths /\ tree \in Trees
    /\ phase = "start"
    /\ seeds = {} /\ reached = {} /\ walked = {} /\ worklist = {}
    /\ result = [everything |-> FALSE, projects |-> {}, direct |-> {}, refined |-> FALSE]

AffectedNext ==
    \/ ComputeFloor \/ KeepFloor \/ Deescalate \/ RefinementDone
    \/ \E p \in Projects : WalkStep(p)
    \/ \E s \in SUBSET Indexed : CloseOverNames(s)

AffectedSpec == AffectedInit /\ [][AffectedNext]_affectedVars

----------------------------------------------------------------------------
(* Properties.                                                             *)

Propagated == {p \in Indexed :
    \A s \in SUBSET Indexed :
        seeds \subseteq s /\ (\A q \in s : Dependents("dep", q) \subseteq s) => p \in s}

\* ClosureExact - in whatever order the walk takes its worklist, it ends with
\* everyone who depends on a seed through propagating edges, and those who test
\* against one of them and nobody else; a project met first through a test edge
\* is still walked when a propagating edge reaches it (closeOverDependents).
ClosureExact ==
    WalkEnds => reached = Propagated \cup UNION {Dependents("test", q) : q \in Propagated}

\* NothingDropped - "fail closed to a broader run, never fail open": every
\* changed path either escalates to everything or has its owner, or the root
\* project for prose, in the answer with its direct checks, through escalation,
\* diff and de-escalation; and a client of a touched contract is in the answer,
\* unless the escalation was replaced by a diff, which forgets the clients
\* (affectedRefined, deescalate).
NothingDropped ==
    phase = "done" /\ ~result.everything =>
        /\ \A cp \in changed :
              /\ \/ FindOwner(cp) \in result.projects \cap result.direct
                 \/ /\ MatchOrdered(Prose, cp)
                    /\ RootProjects \subseteq result.projects \cap result.direct
        /\ result.refined \/ Clients \subseteq result.projects

\* AffectedExact - the closure is exact and the answer leaves out no owner of a
\* changed path (closeOverDependents, affectedRefined, deescalate).
AffectedExact == ClosureExact /\ NothingDropped
=============================================================================
