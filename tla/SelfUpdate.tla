----------------------------- MODULE SelfUpdate -----------------------------
(***************************************************************************)
(* `runko self-update`: the running binary is replaced by the build of the *)
(* rolling release, while the release may be republished and other updates *)
(* may run.                                                                *)
(*                                                                         *)
(* Data.  What a file holds is nothing, a download that was cut off, or a  *)
(* build; equal contents have equal checksums and no others do.  Builds    *)
(* have no order: one made from source may be anywhere, and the rolling    *)
(* release may go back.  A file name that was renamed away holds nothing.  *)
(***************************************************************************)
EXTENDS Naturals, FiniteSets

CONSTANTS Updaters,      \* the runs of the command
          Builds,
          Hosts,         \* the machines: [windows, check, installed, release]
          MaxStops       \* bound: stops and failing renames

NoFile == "none"
Torn == "torn"

ASSUME UpdateAssumption ==
    /\ NoFile \notin Builds /\ Torn \notin Builds /\ MaxStops \in Nat
    /\ Hosts \subseteq [windows : BOOLEAN, check : BOOLEAN,
                        installed : Builds, release : Builds]

VARIABLES host, shelf,   \* the machine; the release: its two files, its build
          bin,           \* the binary, the one moved aside, the downloads
          updates,       \* where each run is, and the checksum it wants
          released,      \* history: the builds whose checksums were on the shelf
          missteps,      \* history: what excuses a missing binary
          stopsLeft

updateVars == <<host, shelf, bin, updates, released, missteps, stopsLeft>>

Ended == {"updated", "up to date", "checked", "failed", "stopped"}
UpdateAt(u, at) == updates[u].at = at
UpdateGoes(u, at) == updates' = [updates EXCEPT ![u].at = at]
Misstep(what) == missteps' = missteps \cup {what}

UpdateInit ==
    /\ host \in Hosts
    /\ shelf = [asset |-> host.release, sums |-> host.release, coming |-> host.release]
    /\ released = {host.release}
    /\ bin = [exe |-> host.installed, old |-> NoFile, temp |-> [u \in Updaters |-> NoFile]]
    /\ updates = [u \in Updaters |-> [at |-> "start", want |-> NoFile]]
    /\ missteps = {} /\ stopsLeft = MaxStops

-----------------------------------------------------------------------------
(* The release: its jobs, one for each head and finishing in any order, take *)
(* it down and put up their binary and their checksums, one after the other. *)
Republish ==
    /\ \E b \in Builds : shelf' = [asset |-> NoFile, sums |-> NoFile, coming |-> b]
    /\ UNCHANGED <<host, bin, updates, released, missteps, stopsLeft>>

PutUp(f) ==
    /\ shelf[f] = NoFile
    /\ shelf' = [shelf EXCEPT ![f] = shelf.coming]
    /\ released' = released \cup {b \in {shelf.coming} : f = "sums"}
    /\ UNCHANGED <<host, bin, updates, missteps, stopsLeft>>

-----------------------------------------------------------------------------
FetchRelease(u) ==
    /\ UpdateAt(u, "start")
    /\ UpdateGoes(u, IF NoFile \in {shelf.asset, shelf.sums} THEN "failed" ELSE "sums")
    /\ UNCHANGED <<host, shelf, bin, missteps, stopsLeft>>

FetchChecksum(u) ==
    /\ UpdateAt(u, "sums")
    /\ updates' = [updates EXCEPT ![u].want = shelf.sums,
                                  ![u].at = IF shelf.sums = NoFile THEN "failed" ELSE "hash"]
    /\ UNCHANGED <<host, shelf, bin, missteps, stopsLeft>>

FileSHA256(u) ==
    /\ UpdateAt(u, "hash")
    /\ UpdateGoes(u, IF bin.exe = NoFile THEN "failed"
                     ELSE IF bin.exe = updates[u].want THEN "up to date"
                     ELSE IF host.check THEN "checked" ELSE "download")
    /\ UNCHANGED <<host, shelf, bin, missteps, stopsLeft>>

\* installAsset: beside the binary; the release may change under the download
Download(u) ==
    /\ UpdateAt(u, "download") /\ UpdateGoes(u, "verify")
    /\ \E got \in {shelf.asset, Torn} : bin' = [bin EXCEPT !.temp[u] = got]
    /\ UNCHANGED <<host, shelf, missteps, stopsLeft>>

\* mutant: the download is used as it is
Unverified(u) == bin.temp[u] # NoFile
Matches(u) == bin.temp[u] = updates[u].want
Verified(u) == Matches(u)
\* the deferred Remove takes a download that is not used
Verify(u) ==
    /\ UpdateAt(u, "verify")
    /\ IF Verified(u)
       THEN UpdateGoes(u, IF host.windows THEN "clear" ELSE "swap") /\ UNCHANGED bin
       ELSE UpdateGoes(u, "failed") /\ bin' = [bin EXCEPT !.temp[u] = NoFile]
    /\ UNCHANGED <<host, shelf, missteps, stopsLeft>>

\* the download takes the binary's name, whatever has it by now
Place(u) ==
    /\ bin' = [bin EXCEPT !.exe = bin.temp[u], !.temp[u] = NoFile]
    /\ UpdateGoes(u, "updated") /\ UNCHANGED missteps

Swap(u) == UpdateAt(u, "swap") /\ Place(u) /\ UNCHANGED <<host, shelf, stopsLeft>>

\* Windows: the old binary is moved aside first
RemoveOld(u) ==
    /\ UpdateAt(u, "clear") /\ UpdateGoes(u, "aside")
    /\ bin' = [bin EXCEPT !.old = NoFile]
    /\ IF bin.exe = NoFile THEN Misstep("overlap") ELSE UNCHANGED missteps
    /\ UNCHANGED <<host, shelf, stopsLeft>>

MoveAside(u) ==
    /\ UpdateAt(u, "aside")
    /\ IF bin.exe = NoFile
       THEN UpdateGoes(u, "failed") /\ bin' = [bin EXCEPT !.temp[u] = NoFile]
       ELSE UpdateGoes(u, "place") /\ bin' = [bin EXCEPT !.old = bin.exe, !.exe = NoFile]
    /\ UNCHANGED <<host, shelf, missteps, stopsLeft>>

PlaceAside(u) == UpdateAt(u, "place") /\ Place(u) /\ UNCHANGED <<host, shelf, stopsLeft>>

\* mutant: the error is returned with the name empty
LeftAside(u) == [bin EXCEPT !.temp[u] = NoFile]
PutBack(u) ==
    IF bin.old = NoFile THEN [bin EXCEPT !.temp[u] = NoFile]
    ELSE [bin EXCEPT !.exe = bin.old, !.old = NoFile, !.temp[u] = NoFile]
Restored(u) == PutBack(u)
\* a rename fails; after the old binary was moved, it is put back
RenameFails(u) ==
    /\ updates[u].at \in {"swap", "aside", "place"} /\ stopsLeft > 0
    /\ stopsLeft' = stopsLeft - 1 /\ UpdateGoes(u, "failed")
    /\ bin' = IF UpdateAt(u, "place") THEN Restored(u) ELSE [bin EXCEPT !.temp[u] = NoFile]
    /\ UNCHANGED <<host, shelf, missteps>>

Stop(u) ==
    /\ updates[u].at \notin Ended /\ stopsLeft > 0 /\ stopsLeft' = stopsLeft - 1
    /\ UpdateGoes(u, "stopped")
    /\ IF UpdateAt(u, "place") THEN Misstep("stopped between renames") ELSE UNCHANGED missteps
    /\ UNCHANGED <<host, shelf, bin>>

UpdateStep(u) ==
    \/ FetchRelease(u) \/ FetchChecksum(u) \/ FileSHA256(u) \/ Download(u) \/ Verify(u)
    \/ Swap(u) \/ RemoveOld(u) \/ MoveAside(u) \/ PlaceAside(u) \/ RenameFails(u) \/ Stop(u)

UpdateNext ==
    \/ Republish \/ \E f \in {"asset", "sums"} : PutUp(f)
    \/ \E u \in Updaters : UpdateStep(u) /\ UNCHANGED released

UpdateSpec == UpdateInit /\ [][UpdateNext]_updateVars

-----------------------------------------------------------------------------
(* "The swap is atomic": whenever the command is looked up there is a whole *)
(* build to run.  On Windows the name is empty between two renames; a stop  *)
(* there leaves it so, with the old binary beside it unless another update  *)
(* had begun to clear that away (update.go, swapExecutable).                *)
BinaryKept ==
    /\ bin.exe # Torn
    /\ bin.exe = NoFile =>
        /\ host.windows
        /\ bin.old \notin {NoFile, Torn} \/ "overlap" \in missteps
        /\ \/ \E u \in Updaters : UpdateAt(u, "place")
           \/ missteps \cap {"overlap", "stopped between renames"} # {}

(* What has the command's name is the build the machine began with, or one  *)
(* that a run of the command put there and that its checksums named, as     *)
(* they once were published: never part of one release and part of another, *)
(* although the checksums and the binary are read one after the other while *)
(* the release is taken down and put up again, and although other runs move *)
(* the binary meanwhile.  That it is newer than what it replaced is not     *)
(* promised: a build from source is replaced, and the release may go back   *)
(* (update.go, SelfUpdate).                                                 *)
InstalledAsPublished ==
    \A b \in {bin.exe, bin.old} \ {NoFile} :
        \/ b = host.installed
        \/ b \in released /\ \E u \in Updaters : UpdateAt(u, "updated") /\ updates[u].want = b

(* A download stays beside the binary only where the run was stopped.       *)
NoDownloadLeft ==
    \A u \in Updaters : updates[u].at \in Ended \ {"stopped"} => bin.temp[u] = NoFile

(* The installed command is whole, as published, and alone.                 *)
UpdatesSound == BinaryKept /\ InstalledAsPublished /\ NoDownloadLeft
=============================================================================
