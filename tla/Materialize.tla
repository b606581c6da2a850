---------------------------- MODULE Materialize -----------------------------
(***************************************************************************)
(* The checkouts of one machine: `runko workspace create`, `attach` and    *)
(* `gc`, the registry file that says where they are, and the credential    *)
(* files of the principals they author as.  Commands run side by side; the *)
(* registry is loaded and saved without a lock, and a command may stop     *)
(* anywhere.                                                               *)
(*                                                                         *)
(* Data.  A checkout has the edits in its tree and those under HEAD, the   *)
(* branch git has in it and what is stamped into its config.  Workspaces   *)
(* stand for workspace branches.  Every control plane is an org of one     *)
(* host.  What gc proves before it removes a checkout is also the subject  *)
(* of Worktrees.                                                           *)
(***************************************************************************)
EXTENDS Naturals, FiniteSets, Sequences

CONSTANTS Spots,       \* directories
          Tasks,       \* workspaces
          Marks,     \* edits
          Tracked,     \* those to files that git tracks
          Machines     \* the cases: the commands, what is there, the orgs, and how
                       \* many edits and how many stops there are

Login == "login"       \* the invoker's own stored login
None == "none"
Nothing == [ws |-> None, owner |-> None, plane |-> None, branch |-> None,
            tree |-> {}, head |-> {}, jj |-> FALSE]
NoSnap == {"no snapshot"}

VARIABLES machine,
          disk,        \* directory -> checkout
          registry,    \* materializations.json: directory -> [ws, store]
          filed,       \* principals/: <<control plane, name>>
          remote,      \* the server's rows and snapshot refs
          cmds,        \* the commands: where each is and what it has read
          made,        \* history: the workspace an edit was made in
          strays,      \* history: what came between two steps of a command
          stops

machineVars == <<machine, disk, registry, filed, remote, cmds, made, strays, stops>>

Exists(p) == disk[p].branch # None
Command(c) == machine.commands[c]
PlaneOf(w) == machine.planes[w]
CmdStart == [pc |-> "start", rows |-> << >>, seen |-> << >>, closed |-> {}, todo |-> {},
             doomed |-> {}, recycle |-> None, old |-> None, then |-> None]

MachineInit ==
    /\ machine \in Machines
    /\ disk = machine.disk /\ registry = machine.registry /\ filed = machine.filed
    /\ remote = machine.remote
    /\ cmds = [c \in DOMAIN machine.commands |-> CmdStart]
    /\ made = [e \in Marks |-> None]
    /\ strays = {} /\ stops = 0

Go(c, pc) == cmds' = [cmds EXCEPT ![c].pc = pc]
Busy(c) == cmds[c].pc \notin {"start", "done", "failed"}
InHand(p) == \E c \in DOMAIN cmds : Busy(c) /\ p \in {Command(c).dir, cmds[c].recycle, cmds[c].old}

-----------------------------------------------------------------------------
(* create and attach, until the server has answered. --as files the         *)
(* principal's credential before anything else.                             *)
Filed(cmd) == IF cmd.as = Login THEN filed ELSE filed \cup {<<PlaneOf(cmd.ws), cmd.as>>}

WorkspaceCreate(c) ==
    LET cmd == Command(c) IN
    /\ cmd.verb = "create" /\ cmds[c].pc = "start"
    /\ filed' = Filed(cmd)
    /\ IF remote.status[cmd.ws] = None
       THEN /\ remote' = [remote EXCEPT !.status[cmd.ws] = "active"]
            /\ Go(c, IF cmd.jj THEN "make" ELSE "load")
       ELSE UNCHANGED remote /\ Go(c, "failed")
    /\ UNCHANGED <<machine, disk, registry, made, strays, stops>>

WorkspaceAttach(c) ==
    LET cmd == Command(c) IN
    /\ cmd.verb = "attach" /\ cmds[c].pc = "start"
    /\ filed' = Filed(cmd)
    /\ Go(c, IF remote.status[cmd.ws] = None THEN "failed"
             ELSE IF cmd.jj THEN "make" ELSE "load")
    /\ UNCHANGED <<machine, disk, registry, remote, made, strays, stops>>

WorkspaceGC(c) ==
    /\ Command(c).verb = "gc" /\ cmds[c].pc = "start" /\ Go(c, "load")
    /\ UNCHANGED <<machine, disk, registry, filed, remote, made, strays, stops>>

-----------------------------------------------------------------------------
(* The sweep: of every row (gc), or of the rows of this store (the others). *)
LoadMaterializations(c) ==
    /\ cmds[c].pc = "load"
    /\ cmds' = [cmds EXCEPT ![c].pc = "judge", ![c].seen = registry,
                            ![c].closed = {w \in Tasks : remote.status[w] = "closed"},
                            ![c].todo = {p \in DOMAIN registry :
                                            Command(c).verb = "gc" \/ registry[p].store}]
    /\ UNCHANGED <<machine, disk, registry, filed, remote, made, strays, stops>>

\* the checkout's work is at the server (evaluateMaterialization)
Durable(p, w) ==
    IF remote.snap[w] = NoSnap THEN disk[p].tree = {} /\ disk[p].head = {}
    ELSE disk[p].tree = remote.snap[w] /\ disk[p].head \subseteq remote.snap[w]

EvaluateMaterialization(c, p) ==
    LET w == cmds[c].seen[p].ws
        verdict == ~Exists(p) \/ (w \in cmds[c].closed /\ Durable(p, w))
        keep == /\ verdict /\ Exists(p)
                /\ Command(c).verb = "create" /\ cmds[c].recycle = None
    IN  /\ cmds[c].pc = "judge" /\ p \in cmds[c].todo
        /\ Command(c).verb # "gc" => cmds[c].doomed = {}
        /\ cmds' = [cmds EXCEPT ![c].todo = @ \ {p},
                                ![c].recycle = IF keep THEN p ELSE @,
                                ![c].doomed = IF verdict /\ ~keep
                                              THEN @ \cup {<<p, Exists(p)>>} ELSE @]
        /\ UNCHANGED <<machine, disk, registry, filed, remote, made, strays, stops>>

\* mutant: only the workspace that goes away is asked for
NobodyElse(name, plane, p) == FALSE

PrincipalStillBound(name, plane, p) ==
    \E q \in DOMAIN registry \ {p} : disk[q].owner = name /\ disk[q].plane = plane

ReleaseCheckoutPrincipal(p) ==
    LET d == disk[p]
        drop == /\ None \notin {d.owner, d.plane}
                /\ ~PrincipalStillBound(d.owner, d.plane, p)
    IN  filed' = IF drop THEN filed \ {<<d.plane, d.owner>>} ELSE filed

\* reclaimMaterialization looks again whether the directory is there, not what
\* is in it; the credential goes first, its binding is in the checkout ...
ReclaimMaterialization(c, p, found) ==
    /\ cmds[c].pc = "judge" /\ <<p, found>> \in cmds[c].doomed
    /\ Command(c).verb = "gc" => cmds[c].todo = {}
    /\ IF Exists(p) THEN ReleaseCheckoutPrincipal(p) ELSE UNCHANGED filed
    /\ strays' = strays \cup {<<"in flight", Command(o).as>> : o \in {b \in DOMAIN cmds : Busy(b)}}
    /\ cmds' = [cmds EXCEPT ![c].pc = IF Exists(p) THEN "remove" ELSE "drop",
                            ![c].old = p, ![c].then = "judge",
                            ![c].doomed = @ \ {<<p, found>>}]
    /\ UNCHANGED <<machine, disk, registry, remote, made, stops>>

\* ... then the directory, whatever is in it by now.
RemoveAll(c) ==
    /\ cmds[c].pc = "remove" /\ Go(c, "drop")
    /\ disk' = [disk EXCEPT ![cmds[c].old] = Nothing]
    /\ UNCHANGED <<machine, registry, filed, remote, made, strays, stops>>

\* The removal fails, with some of the files gone: the row stays, and the sweep
\* goes on.
RemoveAllFails(c) ==
    LET p == cmds[c].old IN
    /\ cmds[c].pc = "remove" /\ stops < machine.stops /\ stops' = stops + 1
    /\ \E kept \in SUBSET disk[p].tree : disk' = [disk EXCEPT ![p].tree = kept]
    /\ cmds' = [cmds EXCEPT ![c].pc = "judge", ![c].old = None]
    /\ strays' = strays \cup {<<"half reclaimed", p>>}
    /\ UNCHANGED <<machine, registry, filed, remote, made>>

SweepDone(c) ==
    /\ cmds[c].pc = "judge" /\ cmds[c].todo = {} /\ cmds[c].doomed = {}
    /\ Go(c, CASE Command(c).verb = "gc" -> "done"
               [] cmds[c].recycle # None -> "move"
               [] OTHER -> "make")
    /\ UNCHANGED <<machine, disk, registry, filed, remote, made, strays, stops>>

-----------------------------------------------------------------------------
(* Registry writes: load, then save what was loaded with one row changed.   *)
Saved(c, new, since) ==
    /\ registry' = new
    /\ strays' = strays \cup since \cup {<<"lost update", p>> : p \in {q \in Spots :
           IF q \in DOMAIN registry
           THEN q \notin DOMAIN cmds[c].rows \/ cmds[c].rows[q] # registry[q]
           ELSE q \in DOMAIN cmds[c].rows}}

LoadForWrite(c) ==
    /\ cmds[c].pc \in {"drop", "record", "touch"}
    /\ cmds' = [cmds EXCEPT ![c].rows = registry,
                            ![c].pc = CASE @ = "drop" -> "drop save"
                                        [] @ = "record" -> "record save"
                                        [] @ = "touch" -> "touch save"]
    /\ UNCHANGED <<machine, disk, registry, filed, remote, made, strays, stops>>

Without(rows, p) == [q \in DOMAIN rows \ {p} |-> rows[q]]

\* another command may have made a checkout there by now
DropMaterialization(c) ==
    LET p == cmds[c].old
        again == Exists(p) /\ ~(cmds[c].recycle = p /\ Command(c).dir = p)
    IN  /\ cmds[c].pc = "drop save"
        /\ Saved(c, Without(cmds[c].rows, p), IF again THEN {<<"dropped since", p>>} ELSE {})
        /\ cmds' = [cmds EXCEPT ![c].pc = cmds[c].then, ![c].old = None]
        /\ UNCHANGED <<machine, disk, filed, remote, made, stops>>

\* mutant: a row per workspace
RowPerWorkspace(rows, p, row) ==
    [q \in {o \in DOMAIN rows : rows[o].ws # row.ws} \cup {p} |-> IF q = p THEN row ELSE rows[q]]

\* upsert by path
UpsertRow(rows, p, row) == [q \in DOMAIN rows \cup {p} |-> IF q = p THEN row ELSE rows[q]]

RecordMaterialization(c) ==
    LET cmd == Command(c) IN
    /\ cmds[c].pc = "record save"
    /\ Saved(c, UpsertRow(cmds[c].rows, cmd.dir, [ws |-> cmd.ws, store |-> ~cmd.jj]), {})
    /\ Go(c, "done")
    /\ UNCHANGED <<machine, disk, filed, remote, made, stops>>

TouchMaterialization(c) ==
    /\ cmds[c].pc = "touch save"
    /\ IF cmds[c].old \in DOMAIN cmds[c].rows THEN Saved(c, cmds[c].rows, {})
       ELSE UNCHANGED <<registry, strays>>
    /\ cmds' = [cmds EXCEPT ![c].pc = cmds[c].then]
    /\ UNCHANGED <<machine, disk, filed, remote, made, stops>>

-----------------------------------------------------------------------------
(* Making the checkout.                                                     *)
\* mutant: attach starts at the base revision
StartsAtBase(w) == {}

\* the tip of the snapshot ref, or the base revision if it never snapshotted
StartPoint(w) == IF remote.snap[w] = NoSnap THEN {} ELSE remote.snap[w]

\* git refuses a branch that another worktree of the store has.
BranchInUse(w) == \E p \in Spots : Exists(p) /\ ~disk[p].jj /\ disk[p].branch = w

\* what materializeWorktree, or cloneJJCheckout and finishJJCheckout, leave
\* before the checkout is stamped
NewCheckout(cmd, start) ==
    [Nothing EXCEPT !.branch = cmd.ws, !.tree = start, !.head = start, !.jj = cmd.jj]

\* any failure of the fetch means "never snapshotted".
MaterializeWorktree(c) ==
    LET cmd == Command(c) IN
    /\ cmds[c].pc = "make"
    /\ IF Exists(cmd.dir) \/ (~cmd.jj /\ BranchInUse(cmd.ws))
       THEN Go(c, "failed") /\ UNCHANGED <<disk, strays, stops>>
       ELSE \E start \in {StartPoint(cmd.ws), {}} :
            /\ cmd.verb = "create" => start = {}
            /\ LET blind == cmd.verb = "attach" /\ start # StartPoint(cmd.ws)
               IN  /\ blind => stops < machine.stops
                   /\ stops' = IF blind THEN stops + 1 ELSE stops
                   /\ strays' = IF blind THEN strays \cup {<<"blind", cmd.ws>>} ELSE strays
            /\ disk' = [disk EXCEPT ![cmd.dir] = NewCheckout(cmd, start)]
            /\ Go(c, "stamp")
    /\ UNCHANGED <<machine, registry, filed, remote, made>>

\* rebindWorktree, git worktree move; when that cannot be, a fresh worktree
MoveWorktree(c) ==
    LET from == cmds[c].recycle
        to == Command(c).dir
    IN  /\ cmds[c].pc = "move"
        /\ IF from = to THEN UNCHANGED disk /\ Go(c, "reset")
           ELSE IF Exists(from) /\ ~Exists(to)
           THEN /\ disk' = [disk EXCEPT ![to] = disk[from], ![from] = Nothing]
                /\ Go(c, "reset")
           ELSE UNCHANGED disk /\ Go(c, "make")
        /\ UNCHANGED <<machine, registry, filed, remote, made, strays, stops>>

\* mutant: nothing is cleaned
LeavesResidue(d) == d.tree \ d.head

\* git checkout -B takes along what is modified and not committed, or refuses;
\* git clean removes what is not tracked.
Carried(d) == (d.tree \ d.head) \cap Tracked

ResetWorktree(c) ==
    LET p == Command(c).dir
        over == Carried(disk[p])
    IN  /\ cmds[c].pc = "reset"
        /\ \/ /\ Exists(p)
              /\ disk' = [disk EXCEPT ![p].branch = Command(c).ws, ![p].tree = over, ![p].head = {}]
              /\ strays' = strays \cup
                    (IF disk[p].tree \cap Tracked \subseteq disk[p].head THEN {}
                     ELSE {<<"carried", Command(c).ws>>})
              /\ Go(c, "stamp")
           \/ /\ ~Exists(p) \/ over # {}
              /\ Go(c, "failed") /\ UNCHANGED disk
              /\ strays' = strays \cup {<<"stopped", p>>}
        /\ UNCHANGED <<machine, registry, filed, remote, made, stops>>

\* stampCheckoutConfig; a recycled checkout's old row is dropped then.
StampCheckoutConfig(c) ==
    LET cmd == Command(c) IN
    /\ cmds[c].pc = "stamp"
    /\ IF Exists(cmd.dir)
       THEN /\ disk' = [disk EXCEPT ![cmd.dir].ws = cmd.ws, ![cmd.dir].owner = cmd.as]
            /\ IF cmds[c].recycle # None
               THEN cmds' = [cmds EXCEPT ![c].pc = "drop", ![c].old = cmds[c].recycle,
                                         ![c].then = "bind"]
               ELSE Go(c, "bind")
       ELSE Go(c, "failed") /\ UNCHANGED disk
    /\ UNCHANGED <<machine, registry, filed, remote, made, strays, stops>>

BindCheckoutAuthoring(c) ==
    LET cmd == Command(c) IN
    /\ cmds[c].pc = "bind"
    /\ IF Exists(cmd.dir)
       THEN disk' = [disk EXCEPT ![cmd.dir].plane = PlaneOf(cmd.ws)] /\ Go(c, "record")
       ELSE Go(c, "failed") /\ UNCHANGED disk
    /\ UNCHANGED <<machine, registry, filed, remote, made, strays, stops>>

-----------------------------------------------------------------------------
(* -w finds the checkout by the registry; `auth login -w` binds it anew.    *)
MaterializationFor(c, p) ==
    /\ Command(c).verb \in {"use", "login"} /\ cmds[c].pc = "start"
    /\ p \in DOMAIN registry /\ registry[p].ws = Command(c).ws /\ Exists(p)
    /\ cmds' = [cmds EXCEPT ![c].pc = "touch", ![c].old = p,
                            ![c].then = IF Command(c).verb = "use" THEN "done" ELSE "login"]
    /\ UNCHANGED <<machine, disk, registry, filed, remote, made, strays, stops>>

BindPrincipalToCheckout(c) ==
    LET cmd == Command(c)
        p == cmds[c].old
        plane == IF disk[p].plane = None THEN PlaneOf(cmd.ws) ELSE disk[p].plane
    IN  /\ cmds[c].pc = "login"
        /\ filed' = filed \cup {<<plane, cmd.as>>}
        /\ IF Exists(p)
           THEN disk' = [disk EXCEPT ![p].owner = cmd.as, ![p].plane = plane] /\ Go(c, "done")
           ELSE UNCHANGED disk /\ Go(c, "failed")
        /\ UNCHANGED <<machine, registry, remote, made, strays, stops>>

-----------------------------------------------------------------------------
(* What stops a command, and what people do.                                *)
CommandStops(c) ==
    /\ Busy(c) /\ stops < machine.stops /\ stops' = stops + 1 /\ Go(c, "failed")
    /\ strays' = strays \cup {<<"stopped", Command(c).dir>>}
                   \cup {<<"half reclaimed", p>> : p \in
                           IF cmds[c].pc = "remove" THEN {cmds[c].old} ELSE {}}
    /\ UNCHANGED <<machine, disk, registry, filed, remote, made>>

\* the registry is a cache: a write that fails is passed over
WriteFails(c) ==
    /\ cmds[c].pc \in {"drop save", "record save", "touch save"}
    /\ stops < machine.stops /\ stops' = stops + 1
    /\ Go(c, IF cmds[c].pc = "record save" THEN "done" ELSE cmds[c].then)
    /\ strays' = strays \cup {<<"not written", p>> : p \in {Command(c).dir, cmds[c].old}}
    /\ UNCHANGED <<machine, disk, registry, filed, remote, made>>

RemoveByHand(p) ==
    /\ Exists(p) /\ stops < machine.stops /\ stops' = stops + 1
    /\ disk' = [disk EXCEPT ![p] = Nothing]
    /\ strays' = IF disk[p].ws = None \/ disk[p].tree = remote.snap[disk[p].ws] THEN strays
                 ELSE strays \cup {<<"removed", disk[p].ws>>}
    /\ UNCHANGED <<machine, registry, filed, remote, cmds, made>>

\* a command has looked at the checkout and will remove or reuse it
Judged(p) ==
    \E c \in DOMAIN cmds : Busy(c) /\
        \/ p \in {cmds[c].recycle, cmds[c].old} \cup {d[1] : d \in cmds[c].doomed}
        \/ p = Command(c).dir /\ cmds[c].recycle # None

WorkIn(p, new) ==
    /\ Exists(p) /\ disk[p].ws # None
    /\ disk' = [disk EXCEPT ![p] = new]
    /\ strays' = IF Judged(p) THEN strays \cup {<<"worked since", disk[p].ws>>} ELSE strays
    /\ UNCHANGED <<machine, registry, filed, remote, cmds, stops>>

EditFile(p, e) ==
    /\ e \in machine.touches /\ made[e] = None /\ made' = [made EXCEPT ![e] = disk[p].ws]
    /\ WorkIn(p, [disk[p] EXCEPT !.tree = @ \cup {e}])
CommitAll(p) ==
    /\ disk[p].head # disk[p].tree /\ UNCHANGED made
    /\ WorkIn(p, [disk[p] EXCEPT !.head = disk[p].tree])

\* the forced push of `workspace watch` or `snapshot`
PushSnapshot(p) ==
    LET w == disk[p].ws IN
    /\ Exists(p) /\ w # None
    /\ remote.status[w] = "active" /\ remote.snap[w] # disk[p].tree
    /\ remote' = [remote EXCEPT !.snap[w] = disk[p].tree]
    /\ UNCHANGED <<machine, disk, registry, filed, cmds, made, strays, stops>>

TaskEnds(w) ==
    /\ remote.status[w] = "active" /\ remote' = [remote EXCEPT !.status[w] = "closed"]
    /\ UNCHANGED <<machine, disk, registry, filed, cmds, made, strays, stops>>

MachineNext ==
    \/ \E c \in DOMAIN cmds :
        \/ WorkspaceCreate(c) \/ WorkspaceAttach(c) \/ WorkspaceGC(c)
        \/ LoadMaterializations(c) \/ SweepDone(c)
        \/ \E p \in Spots : EvaluateMaterialization(c, p) \/ MaterializationFor(c, p)
        \/ \E p \in Spots, found \in BOOLEAN : ReclaimMaterialization(c, p, found)
        \/ RemoveAll(c) \/ RemoveAllFails(c)
        \/ LoadForWrite(c) \/ DropMaterialization(c) \/ RecordMaterialization(c)
        \/ TouchMaterialization(c)
        \/ MaterializeWorktree(c) \/ MoveWorktree(c) \/ ResetWorktree(c)
        \/ StampCheckoutConfig(c) \/ BindCheckoutAuthoring(c) \/ BindPrincipalToCheckout(c)
        \/ CommandStops(c) \/ WriteFails(c)
    \/ \E p \in Spots : RemoveByHand(p) \/ CommitAll(p) \/ PushSnapshot(p)
    \/ \E p \in Spots, e \in Marks : EditFile(p, e)
    \/ \E w \in Tasks : TaskEnds(w)

-----------------------------------------------------------------------------
(* Who git and the verbs authenticate as in a checkout.                     *)
\* no flag and no environment variable names anybody: the stored login
ResolveCredentialEnv == <<None, Login>>

CheckoutPrincipal(p) == {<<disk[p].plane, disk[p].owner>>} \cap filed
ResolveCredentialAt(p) ==
    IF CheckoutPrincipal(p) = {} THEN ResolveCredentialEnv
    ELSE CHOOSE f \in CheckoutPrincipal(p) : TRUE

\* git tells the helper the host only
PrincipalForHost(p) == {f \in filed : f[2] = disk[p].owner}
AuthGitCredential(p) ==
    IF Cardinality(PrincipalForHost(p)) # 1 THEN ResolveCredentialEnv
    ELSE CHOOSE f \in PrincipalForHost(p) : TRUE

Strayed(why, what) == <<why, what>> \in strays
RowMayBeMissing(p) ==
    \E why \in {"lost update", "stopped", "not written", "dropped since"} : Strayed(why, p)

(* A finished checkout authors as the principal it was bound to, from runko *)
(* and from raw git, whatever other checkouts of that principal are made    *)
(* and reclaimed - unless the row that keeps the credential was lost, not   *)
(* written, or not yet written when another checkout went, unless a sweep   *)
(* released its credential and then stopped or could not remove it, and,    *)
(* for raw git, unless two orgs of the host know that name (principal.go,   *)
(* workspacegc.go:220-228).                                                 *)
AuthorsAsBound ==
    \A p \in Spots : Exists(p) /\ disk[p].plane # None /\ disk[p].owner # Login /\ ~InHand(p) =>
        LET own == <<disk[p].plane, disk[p].owner>>
        IN  \/ /\ ResolveCredentialAt(p) = own
               /\ AuthGitCredential(p) = own \/ \E f \in filed : f[2] = own[2] /\ f[1] # own[1]
            \/ RowMayBeMissing(p)
            \/ Strayed("in flight", disk[p].owner)
            \/ Strayed("half reclaimed", p)

(* The registry is a cache of the checkouts: one that is finished has a row *)
(* and the row names its workspace, however commands overlap, except where  *)
(* two of them saved over each other, one stopped, or gc dropped the row of *)
(* a checkout made after it judged the directory (materializations.go).     *)
RegistryAgrees ==
    \A p \in Spots : Exists(p) /\ disk[p].plane # None /\ ~InHand(p) =>
        \/ p \in DOMAIN registry /\ registry[p].ws = disk[p].ws
        \/ RowMayBeMissing(p)

(* A workspace starts with nothing of another task's: recycling a checkout  *)
(* leaves no edit behind, but for the tracked files of a task that was      *)
(* parked uncommitted by `workspace watch`, or was worked on meanwhile      *)
(* (workspacegc.go rebindWorktree).                                         *)
StartsClean ==
    \A p \in Spots : disk[p].ws # None =>
        \A e \in disk[p].tree : \/ made[e] = disk[p].ws
                                \/ Strayed("carried", disk[p].ws)
                                \/ Strayed("worked since", made[e])

(* No edit is lost by create, attach and gc: it is in a checkout or in the  *)
(* snapshot of its workspace, also when two checkouts have the branch,      *)
(* unless the checkout was removed by hand before its snapshot, worked in   *)
(* after gc's verdict, or its snapshot was overwritten from one restored    *)
(* without it when the fetch failed (workspace.go:594-670, workspacegc.go). *)
EditsSurvive ==
    \A e \in Marks : made[e] # None =>
        \/ \E p \in Spots : e \in disk[p].tree
        \/ remote.snap[made[e]] # NoSnap /\ e \in remote.snap[made[e]]
        \/ \E why \in {"removed", "worked since", "blind"} : Strayed(why, made[e])

(* The checkouts of a machine keep their author, their row, their edits and    *)
(* nothing of another task's, the named strays apart.                          *)
MachineKept == AuthorsAsBound /\ RegistryAgrees /\ StartsClean /\ EditsSurvive
=============================================================================
