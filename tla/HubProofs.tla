------------------------------- MODULE HubProofs -------------------------------
(***************************************************************************)
(* What an org hub serves agrees with its directory, for any callers,      *)
(* calls, agendas, lands and failures, and trunk is kept.  An org has its  *)
(* admin before it is served (CreatorEnters), and keeps them (AdminStands); *)
(* the archive map, the assembly and the saved wiring are each in step     *)
(* with the directory but for the moment between two writes of the one     *)
(* call that makes them (ArchiveInStep, OneAssembly, OneSave, MirrorArmed).*)
(* And what a mounted org answers at its doors: the same to the same       *)
(* caller behind each, under the name that was let in.                     *)
(***************************************************************************)
EXTENDS OrgHub, FrontDoors, TLAPS

Assemblies == Calls \cup {Boot}
SettingsSet == [desc : Calls \cup {NoCall}, repo : Calls \cup {NoCall}]
CallPlaces == {"idle", "done", "refused", "row", "account", "role", "join", "enter",
               "look", "seed", "ensure", "serve", "member", "workers", "mount",
               "clone", "directory", "map", "read", "write", "arm"}
CallRecords == [pc : CallPlaces, saw : SettingsSet, via : Assemblies \cup {NoCall}]
OrgRecords == [row : BOOLEAN, archived : BOOLEAN,
               desc : Calls \cup {NoCall}, repo : Calls \cup {NoCall}]
MirrorRecords == [filed : Assemblies \cup {NoCall}, running : SUBSET (Assemblies \cup {NoCall}),
                  remote : [Assemblies -> Calls \cup {NoCall}]]

\* The values the variables take.
HubType ==
    /\ agenda \in Agendas
    /\ calls \in [Calls -> CallRecords]
    /\ org \in OrgRecords
    /\ accounts \subseteq People
    /\ roles \in [People -> {"none", "member", "admin"}]
    /\ branch \in Seq(People \cup {"land"})
    /\ mount \in Assemblies \cup {NoCall}
    /\ closed \in BOOLEAN
    /\ mirrors \in MirrorRecords
    /\ hubFaults \in Nat
    /\ raced \in BOOLEAN /\ crossed \in BOOLEAN
    /\ mishaps \subseteq {"cut", "blind"}

At(c, places) == calls[c].pc \in places

Archivings == {"archive", "unarchive"}
Savings == {"put", "connect"}
Creations == {"signup", "create", "operator"}
CreationPlaces == {"ensure", "serve", "member", "workers", "mount"}
AssemblingPlaces == {"look", "seed"} \cup CreationPlaces
ArchivePlaces == {"directory", "map"}
SavePlaces == {"read", "write", "arm"}

\* A call is only where its handler takes it, and a genesis has an author.
CallFits(c) ==
    /\ At(c, {"role", "join"}) => Kind(c) = "join"
    /\ At(c, {"row", "account"}) => Kind(c) \in {"signup", "join"}
    /\ At(c, {"enter"}) => Kind(c) = "signup"
    /\ At(c, {"look", "seed"}) => /\ Kind(c) \in Creations \cup {"bootstrap"}
                                  /\ Who(c) \in People
    /\ At(c, CreationPlaces) => Kind(c) \in Creations
    /\ At(c, {"clone"}) => Kind(c) = "create"
    /\ At(c, ArchivePlaces) => Kind(c) \in Archivings
    /\ At(c, {"read", "write"}) => Kind(c) \in Savings
    /\ At(c, {"arm"}) => Kind(c) = "connect"
CallsFit == \A c \in Calls : CallFits(c)

\* An org that is served is in the directory; one that is not is neither
\* archived nor wired, and nobody joins or manages it.
RowFirst ==
    /\ Mounted => org.row
    /\ \A c \in Calls : At(c, {"serve", "member", "workers", "mount"}) => org.row
Unserved ==
    ~Mounted => /\ ~org.archived /\ ~closed /\ org.repo = NoCall
                /\ \A c \in Calls :
                      ~At(c, {"clone"} \cup ArchivePlaces \cup SavePlaces)
                      /\ (Kind(c) = "join" => CallOver(c))
ManagedHere == \A c \in Calls : At(c, ArchivePlaces \cup SavePlaces) => calls[c].via = mount

\* The admin of an org: before it is served, whoever is about to mount it.
CreatorEnters ==
    \A c \in Calls : /\ Kind(c) = "signup" /\ At(c, {"enter"} \cup AssemblingPlaces)
                           => Who(c) \in accounts
                     /\ ~Mounted /\ Kind(c) # "operator" /\ At(c, {"workers", "mount"})
                           => roles[Who(c)] = "admin"
Stands(p) ==
    /\ roles[p] = "admin"
    /\ \A c \in Calls : Who(c) = p => ~At(c, {"join"})
    /\ p \in accounts \/ \E c \in Calls : At(c, {"clone"}) /\ Who(c) = p
AdminStands ==
    Mounted /\ mishaps = {} /\ (\A c \in Calls : Kind(c) # "operator")
        => \E p \in People : Stands(p)

\* One archive call at a time keeps the map with the directory, but for the
\* moment between its two writes.
ArchiveInStep ==
    ~crossed =>
        /\ \A c, d \in Calls : At(c, ArchivePlaces) /\ At(d, ArchivePlaces) => c = d
        /\ (\A c \in Calls : ~At(c, {"map"})) => closed = org.archived
        /\ \A c \in Calls : At(c, {"map"}) => org.archived = (Kind(c) = "archive")

\* One assembly at a time is filed, armed and run, and seeds an unborn trunk.
OneAssembly ==
    ~raced =>
        /\ \A c, d \in Calls : At(c, AssemblingPlaces) /\ At(d, AssemblingPlaces) => c = d
        /\ \A c \in Calls :
              /\ At(c, AssemblingPlaces) /\ Kind(c) # "bootstrap" => ~Mounted
              /\ At(c, {"seed"}) => branch = << >>
              /\ At(c, {"member", "workers", "mount"}) =>
                    mirrors.filed = c /\ mirrors.remote[c] = org.repo
              /\ At(c, {"mount"}) => c \in mirrors.running

\* One save at a time carries the wiring forward and arms the mirror with it.
OneSave ==
    ~crossed =>
        /\ \A c, d \in Calls : At(c, SavePlaces) /\ At(d, SavePlaces) => c = d
        /\ \A c \in Calls :
              /\ At(c, {"write"}) /\ Kind(c) = "put" /\ "blind" \notin mishaps
                    => calls[c].saw.repo = org.repo
              /\ At(c, {"arm"}) => org.repo = c
MirrorArmed ==
    Mounted /\ ~raced /\ ~crossed /\ "blind" \notin mishaps =>
        /\ mount \in mirrors.running
        /\ mirrors.remote[mount] = org.repo \/ \E c \in Calls : At(c, {"arm"})

HubIInv ==
    /\ HubType /\ CallsFit
    /\ RowFirst /\ Unserved /\ ManagedHere
    /\ CreatorEnters /\ AdminStands
    /\ ArchiveInStep
    /\ OneAssembly /\ OneSave /\ MirrorArmed

----------------------------------------------------------------------------
(* What a step does to the calls.                                          *)

\* Nobody but the call c moves, and it moves to the place pc.
Only(c, pc) == /\ calls' \in [Calls -> CallRecords]
               /\ calls'[c].pc = pc
               /\ \A d \in Calls : d # c => calls'[d] = calls[d]

LEMMA Moved ==
    ASSUME HubType, NEW c \in Calls, NEW pc \in CallPlaces, To(c, pc)
    PROVE  /\ Only(c, pc)
           /\ calls'[c].saw = calls[c].saw /\ calls'[c].via = calls[c].via
  <1> DEFINE r == [calls[c] EXCEPT !.pc = pc]
  <1>1. calls[c] \in CallRecords
    BY DEF HubType
  <1>2. r \in CallRecords /\ r.pc = pc /\ r.saw = calls[c].saw /\ r.via = calls[c].via
    BY <1>1 DEF CallRecords
  <1>3. calls' = [calls EXCEPT ![c] = r]
    BY DEF To
  <1> HIDE DEF r
  <1> QED
    BY <1>2, <1>3 DEF HubType, Only

LEMMA IdleRecord == Idle \in CallRecords /\ Idle.pc = "idle"
  BY DEF Idle, NoSettings, CallRecords, SettingsSet, CallPlaces

LEMMA Finished ==
    ASSUME HubType, NEW c \in Calls, NEW how \in {"done", "refused"}, Finish(c, how)
    PROVE  Only(c, how)
  <1> DEFINE r == [Idle EXCEPT !.pc = how]
  <1>1. r \in CallRecords /\ r.pc = how
    BY IdleRecord DEF CallRecords, CallPlaces
  <1>2. calls' = [calls EXCEPT ![c] = r]
    BY DEF Finish
  <1> HIDE DEF r
  <1> QED
    BY <1>1, <1>2 DEF HubType, Only

LEMMA Failed ==
    ASSUME HubType, NEW c \in Calls, CallFails(c)
    PROVE  Only(c, "idle")
  BY IdleRecord DEF HubType, CallFails, Only

LEMMA Managed ==
    ASSUME HubType, NEW c \in Calls, ManageBegin(c), ~Finish(c, "refused")
    PROVE  LET pc == IF Kind(c) \in Archivings THEN "directory" ELSE "read" IN
           /\ Mounted /\ Only(c, pc) /\ calls'[c].via = mount
           /\ crossed' = (crossed \/ Inside(IF Kind(c) \in Archivings
                                            THEN Archivings ELSE Savings) # {})
  <1> DEFINE pc == IF Kind(c) \in Archivings THEN "directory" ELSE "read"
             r == [Idle EXCEPT !.pc = pc, !.via = mount]
  <1>1. r \in CallRecords /\ r.pc = pc /\ r.via = mount
    BY IdleRecord DEF HubType, CallRecords, CallPlaces
  <1>2. Mounted /\ calls' = [calls EXCEPT ![c] = r]
    BY DEF ManageBegin, Archivings
  <1>3. crossed' = (crossed \/ Inside(IF Kind(c) \in Archivings
                                      THEN Archivings ELSE Savings) # {})
    BY DEF ManageBegin, Archivings, Savings
  <1> HIDE DEF r
  <1> QED
    BY <1>1, <1>2, <1>3 DEF HubType, Only

LEMMA Seen ==
    ASSUME HubType, NEW c \in Calls, GetOrgSettings(c)
    PROVE  /\ Only(c, "write") /\ calls'[c].via = calls[c].via
           /\ calls'[c].saw.repo = org.repo
  <1> DEFINE s == [desc |-> org.desc, repo |-> org.repo]
             r == [calls[c] EXCEPT !.pc = "write", !.saw = s]
  <1>1. s \in SettingsSet /\ s.repo = org.repo
    BY DEF HubType, OrgRecords, SettingsSet
  <1>2. calls[c] \in CallRecords
    BY DEF HubType
  <1> HIDE DEF s
  <1>3. r \in CallRecords /\ r.pc = "write" /\ r.saw = s /\ r.via = calls[c].via
    BY <1>1, <1>2 DEF CallRecords, CallPlaces
  <1>4. calls' = [calls EXCEPT ![c] = r]
    BY DEF GetOrgSettings, s
  <1> HIDE DEF r
  <1> QED
    BY <1>1, <1>3, <1>4 DEF HubType, Only

LEMMA Reset ==
    ASSUME HubType, HubRestart, NEW c \in Calls
    PROVE  /\ calls' \in [Calls -> CallRecords]
           /\ calls'[c].pc \in {"idle", "done", "refused"}
  BY IdleRecord DEF HubType, HubRestart, CallOver

----------------------------------------------------------------------------
(* Types and places.                                                       *)

CallStep(c) ==
    \/ SignupBegin(c) \/ SignupRow(c) \/ SignupAccount(c)
    \/ JoinLook(c) \/ JoinWrite(c)
    \/ CreateBegin(c) \/ BootstrapBegin(c) \/ SeedLook(c) \/ SeedWrite(c)
    \/ EnsureOrg(c) \/ NewOrgServer(c) \/ UpsertAdmin(c)
    \/ StartOrgWorkers(c) \/ MountOrg(c) \/ CloneAccount(c)
    \/ ManageBegin(c) \/ ArchiveRow(c) \/ ArchiveMap(c)
    \/ GetOrgSettings(c) \/ UpdateOrgSettings(c) \/ ArmMirror(c)
    \/ CallFails(c) \/ LookFails(c)

LEMMA NextCases ==
    ASSUME HubNext
    PROVE  (\E c \in Calls : CallStep(c)) \/ LandOnBranch \/ HubRestart
  BY DEF HubNext, CallStep

\* Who makes a call.
LEMMA Callers ==
    ASSUME HubType, NEW c \in Calls
    PROVE  /\ Kind(c) \in Kinds /\ Who(c) \in People \cup {Anonymous}
           /\ Kind(c) \in {"signup", "join", "create", "bootstrap"} => Who(c) \in People
           /\ Anonymous \notin People
  BY HubAssumption DEF HubType, Kind, Who

\* A step of a call moves this call only, to a place that fits it.
LEMMA CallPasses ==
    ASSUME HubType, CallsFit, NEW c \in Calls, CallStep(c)
    PROVE  /\ \E pc \in CallPlaces : Only(c, pc)
           /\ CallFits(c)'
  <1> DEFINE Good == (\E pc \in CallPlaces : Only(c, pc)) /\ CallFits(c)'
  <1> USE DEF Is, At, Creations, CreationPlaces, ArchivePlaces, Archivings,
              Savings, CallPlaces, Kinds
  <1>0. /\ CallFits(c) /\ Kind(c) \in Kinds /\ calls[c].pc \in CallPlaces
        /\ Who(c) \in People \cup {Anonymous}
        /\ Kind(c) \in {"signup", "join", "create", "bootstrap"} => Who(c) \in People
    BY Callers DEF CallsFit, HubType, CallRecords
  <1>1. agenda' = agenda /\ Kind(c)' = Kind(c) /\ Who(c)' = Who(c)
    BY DEF CallStep, SignupBegin, SignupRow, SignupAccount, JoinLook, JoinWrite,
           CreateBegin, BootstrapBegin, SeedLook, SeedWrite, EnsureOrg,
           NewOrgServer, UpsertAdmin, StartOrgWorkers, MountOrg, CloneAccount,
           ManageBegin, ArchiveRow, ArchiveMap, GetOrgSettings,
           UpdateOrgSettings, ArmMirror, CallFails, LookFails, Kind, Who
  <1>2. ASSUME NEW how \in {"idle", "done", "refused"}, Only(c, how) PROVE Good
    BY <1>2 DEF Only, CallFits
  <1>3. ASSUME NEW how \in {"done", "refused"}, Finish(c, how) PROVE Good
    BY <1>2, <1>3, Finished
  <1>4. ASSUME NEW pc \in CallPlaces, To(c, pc) PROVE Only(c, pc)
    BY <1>4, Moved
  <1>a. CASE SignupBegin(c) \/ SignupRow(c) \/ SignupAccount(c)
    BY <1>0, <1>1, <1>a, <1>3, <1>4 DEF SignupBegin, SignupRow, SignupAccount, Only, CallFits
  <1>b. CASE JoinLook(c) \/ JoinWrite(c)
    BY <1>0, <1>1, <1>b, <1>3, <1>4 DEF JoinLook, JoinWrite, Only, CallFits
  <1>c. CASE CreateBegin(c) \/ BootstrapBegin(c)
    BY <1>0, <1>1, <1>c, <1>3, <1>4 DEF CreateBegin, BootstrapBegin, Only, CallFits
  <1>d. CASE SeedLook(c) \/ SeedWrite(c) \/ EnsureOrg(c) \/ NewOrgServer(c)
    BY <1>0, <1>1, <1>d, <1>2, <1>4
       DEF SeedLook, SeedWrite, EnsureOrg, NewOrgServer, AfterSeed, Only, CallFits
  <1>e. CASE UpsertAdmin(c) \/ StartOrgWorkers(c) \/ MountOrg(c) \/ CloneAccount(c)
    BY <1>0, <1>1, <1>e, <1>3, <1>4
       DEF UpsertAdmin, StartOrgWorkers, MountOrg, CloneAccount, Only, CallFits
  <1>f. CASE ManageBegin(c)
    <2>1. CASE Finish(c, "refused")
      BY <1>3, <2>1
    <2>2. CASE ~Finish(c, "refused")
      <3>1. Kind(c) \in Archivings \cup Savings
        BY <1>f DEF ManageBegin
      <3>2. Only(c, IF Kind(c) \in Archivings THEN "directory" ELSE "read")
        BY <1>f, <2>2, Managed
      <3>. QED
        BY <1>1, <3>1, <3>2 DEF Only, CallFits
    <2>. QED
      BY <2>1, <2>2
  <1>g. CASE ArchiveRow(c) \/ ArchiveMap(c) \/ ArmMirror(c)
    BY <1>0, <1>1, <1>g, <1>3, <1>4 DEF ArchiveRow, ArchiveMap, ArmMirror, Only, CallFits
  <1>h. CASE GetOrgSettings(c)
    <2>1. Only(c, "write") /\ Is(c, "read")
      BY <1>h, Seen DEF GetOrgSettings
    <2>. QED
      BY <1>0, <1>1, <2>1 DEF Only, CallFits
  <1>i. CASE UpdateOrgSettings(c)
    BY <1>0, <1>1, <1>i, <1>3, <1>4 DEF UpdateOrgSettings, Only, CallFits
  <1>j. CASE CallFails(c)
    BY <1>2, <1>j, Failed
  <1>k. CASE LookFails(c)
    BY <1>0, <1>1, <1>k, <1>4 DEF LookFails, Only, CallFits
  <1> QED
    BY <1>a, <1>b, <1>c, <1>d, <1>e, <1>f, <1>g, <1>h, <1>i, <1>j, <1>k DEF CallStep

LEMMA CallsFitKept ==
    ASSUME HubType, CallsFit, HubNext
    PROVE  CallsFit' /\ calls' \in [Calls -> CallRecords] /\ agenda' = agenda
  <1>1. CASE \E c \in Calls : CallStep(c)
    <2>1. PICK c \in Calls : CallStep(c)
      BY <1>1
    <2>2. calls' \in [Calls -> CallRecords] /\ \A d \in Calls : d # c => calls'[d] = calls[d]
      BY <2>1, CallPasses DEF Only
    <2>3. CallFits(c)'
      BY <2>1, CallPasses
    <2>4. agenda' = agenda
      BY <2>1
      DEF CallStep, SignupBegin, SignupRow, SignupAccount, JoinLook, JoinWrite,
           CreateBegin, BootstrapBegin, SeedLook, SeedWrite, EnsureOrg,
           NewOrgServer, UpsertAdmin, StartOrgWorkers, MountOrg, CloneAccount,
           ManageBegin, ArchiveRow, ArchiveMap, GetOrgSettings,
           UpdateOrgSettings, ArmMirror, CallFails, LookFails
    <2> QED
      BY <2>2, <2>3, <2>4 DEF CallsFit, CallFits, At, Kind, Who
  <1>2. CASE LandOnBranch
    BY <1>2 DEF LandOnBranch, CallsFit, CallFits, At, Kind, Who, HubType
  <1>3. CASE HubRestart
    <2>1. calls' \in [Calls -> CallRecords] /\ agenda' = agenda
      BY <1>3, Reset, IdleRecord DEF HubRestart, HubType
    <2>2. ASSUME NEW c \in Calls PROVE calls'[c].pc \in {"idle", "done", "refused"}
      BY <1>3, Reset
    <2> QED
      BY <2>1, <2>2 DEF CallsFit, CallFits, At, CreationPlaces, ArchivePlaces
  <1> QED
    BY <1>1, <1>2, <1>3, NextCases

LEMMA TypeKept ==
    ASSUME HubType, CallsFit, HubNext
    PROVE  HubType'
  <1>0. calls' \in [Calls -> CallRecords] /\ agenda' = agenda /\ agenda' \in Agendas
    BY CallsFitKept DEF HubType
  <1> DEFINE Rest == /\ org' \in OrgRecords /\ accounts' \subseteq People
                     /\ roles' \in [People -> {"none", "member", "admin"}]
                     /\ branch' \in Seq(People \cup {"land"})
                     /\ mount' \in Assemblies \cup {NoCall} /\ closed' \in BOOLEAN
                     /\ mirrors' \in MirrorRecords /\ hubFaults' \in Nat
                     /\ raced' \in BOOLEAN /\ crossed' \in BOOLEAN
                     /\ mishaps' \subseteq {"cut", "blind"}
  <1>1. ASSUME NEW c \in Calls, CallStep(c) PROVE Rest
    <2>0. /\ CallFits(c) /\ calls[c] \in CallRecords /\ Kind(c) \in Kinds
          /\ Who(c) \in People \cup {Anonymous} /\ Anonymous \notin People
          /\ Kind(c) \in {"signup", "join", "create", "bootstrap"} => Who(c) \in People
      BY Callers DEF CallsFit, HubType
    <2> USE DEF Is, At
    <2>a. CASE SignupBegin(c) \/ JoinLook(c) \/ CreateBegin(c) \/ BootstrapBegin(c)
               \/ SeedLook(c)
      BY <2>a DEF HubType, SignupBegin, JoinLook, CreateBegin, BootstrapBegin, SeedLook
    <2>b. CASE SignupRow(c) \/ EnsureOrg(c)
      BY <2>b DEF HubType, SignupRow, EnsureOrg, OrgRecords
    <2>c. CASE SignupAccount(c) \/ CloneAccount(c)
      BY <2>0, <2>c DEF HubType, SignupAccount, CloneAccount, CallFits
    <2>d. CASE JoinWrite(c) \/ UpsertAdmin(c)
      BY <2>0, <2>d DEF HubType, JoinWrite, UpsertAdmin, CallFits
    <2>e. CASE SeedWrite(c)
      <3>1. Who(c) \in People
        BY <2>0, <2>e DEF SeedWrite, CallFits
      <3> QED
        BY <2>e, <3>1 DEF SeedWrite, HubType
    <2>f. CASE NewOrgServer(c)
      BY <2>f DEF HubType, NewOrgServer, MirrorRecords, OrgRecords, Assemblies
    <2>g. CASE StartOrgWorkers(c)
      BY <2>g DEF HubType, StartOrgWorkers, MirrorRecords
    <2>h. CASE MountOrg(c)
      BY <2>h DEF HubType, MountOrg, Assemblies
    <2>i. CASE ManageBegin(c)
      BY <2>i DEF HubType, ManageBegin
    <2>j. CASE ArchiveRow(c) \/ ArchiveMap(c)
      BY <2>j DEF HubType, ArchiveRow, ArchiveMap, OrgRecords
    <2>k. CASE GetOrgSettings(c) \/ LookFails(c)
      BY <2>k DEF HubType, GetOrgSettings, LookFails, HubFault
    <2>l. CASE UpdateOrgSettings(c)
      <3> DEFINE new == IF Kind(c) = "put" THEN PutSettings(c)
                        ELSE [desc |-> calls[c].saw.desc, repo |-> c]
      <3>1. new.desc \in Calls \cup {NoCall} /\ new.repo \in Calls \cup {NoCall}
        BY <2>0 DEF PutSettings, CallRecords, SettingsSet
      <3>2. org' = [org EXCEPT !.desc = new.desc, !.repo = new.repo]
        BY <2>l DEF UpdateOrgSettings
      <3> HIDE DEF new
      <3>3. org' \in OrgRecords
        BY <3>1, <3>2 DEF HubType, OrgRecords
      <3> QED
        BY <2>l, <3>3 DEF HubType, UpdateOrgSettings
    <2>m. CASE ArmMirror(c)
      BY <2>m DEF HubType, ArmMirror, MirrorRecords
    <2>n. CASE CallFails(c)
      BY <2>n DEF HubType, CallFails, HubFault
    <2> QED
      BY <1>1, <2>a, <2>b, <2>c, <2>d, <2>e, <2>f, <2>g, <2>h, <2>i, <2>j, <2>k,
         <2>l, <2>m, <2>n DEF CallStep
  <1>2. CASE LandOnBranch
    BY <1>2 DEF LandOnBranch, HubType
  <1>3. CASE HubRestart
    <2>1. PICK repo \in {org.repo, NoCall} :
             /\ mirrors' = [filed |-> IF org.row THEN Boot ELSE NoCall,
                            running |-> IF org.row THEN {Boot} ELSE {},
                            remote |-> [a \in Calls \cup {Boot} |->
                                          IF a = Boot THEN repo ELSE NoCall]]
             /\ mishaps' = mishaps
                   \cup (IF org.row /\ Admins = {} THEN {"cut"} ELSE {})
                   \cup (IF repo # org.repo THEN {"blind"} ELSE {})
      BY <1>3 DEF HubRestart
    <2>2. repo \in Calls \cup {NoCall} /\ org.row \in BOOLEAN /\ org.archived \in BOOLEAN
      BY DEF HubType, OrgRecords
    <2>3. mirrors' \in MirrorRecords /\ mishaps' \subseteq {"cut", "blind"}
      BY <2>1, <2>2 DEF MirrorRecords, Assemblies, HubType
    <2>4. closed' \in BOOLEAN /\ mount' \in Assemblies \cup {NoCall} /\ hubFaults' \in Nat
      BY <1>3, <2>2 DEF HubRestart, HubType, Assemblies, ArchivedAtBoot, HubFault
    <2> QED
      BY <1>0, <1>3, <2>3, <2>4 DEF HubRestart, HubType
  <1>4. ASSUME NEW c \in Calls, CallStep(c) PROVE HubType'
    <2>1. Rest
      BY <1>1, <1>4
    <2> QED
      BY <1>0, <2>1 DEF HubType
  <1> QED
    BY <1>2, <1>3, <1>4, NextCases

----------------------------------------------------------------------------
(* The directory, the admin and who manages what.                          *)

\* Callers stay who they are, and no org leaves the directory.
LEMMA Steps ==
    ASSUME HubType, CallsFit, HubNext
    PROVE  /\ \A c \in Calls : Kind(c)' = Kind(c) /\ Who(c)' = Who(c)
           /\ (org.row => org'.row)
  <1>1. agenda' = agenda
    BY CallsFitKept
  <1>2. ASSUME org.row PROVE org'.row
    <2> USE DEF HubType, OrgRecords
    <2>1. ASSUME NEW c \in Calls, CallStep(c) PROVE org'.row
      BY <1>2, <2>1
      DEF CallStep, SignupBegin, SignupRow, SignupAccount, JoinLook, JoinWrite,
           CreateBegin, BootstrapBegin, SeedLook, SeedWrite, EnsureOrg,
           NewOrgServer, UpsertAdmin, StartOrgWorkers, MountOrg, CloneAccount,
           ManageBegin, ArchiveRow, ArchiveMap, GetOrgSettings,
           UpdateOrgSettings, ArmMirror, CallFails, LookFails
    <2> QED
      BY <1>2, <2>1, NextCases DEF LandOnBranch, HubRestart
  <1> QED
    BY <1>1, <1>2 DEF Kind, Who

LEMMA CallMoves ==
    ASSUME HubType, NEW c \in Calls
    PROVE  /\ \A pc \in CallPlaces : To(c, pc) =>
                 /\ Only(c, pc)
                 /\ calls'[c].saw = calls[c].saw /\ calls'[c].via = calls[c].via
           /\ \A how \in {"done", "refused"} : Finish(c, how) => Only(c, how)
           /\ calls[c].pc \in CallPlaces
  BY Moved, Finished DEF HubType, CallRecords

LEMMA RowFirstKept ==
    ASSUME HubType, CallsFit, RowFirst, HubNext
    PROVE  RowFirst'
  <1>0. org.row => org'.row
    BY Steps
  <1>1. ASSUME NEW c \in Calls, CallStep(c)
        PROVE  RowFirst'
    <2> SUFFICES /\ At(c, {"serve", "member", "workers", "mount"})' => org'.row
                 /\ mount' # NoCall => org'.row
      BY <1>0, <1>1, CallPasses DEF RowFirst, At, Mounted, Only
    <2> USE <1>0, CallMoves DEF Is, At, Only, CallPlaces, RowFirst, Mounted
    <2>a. CASE SignupBegin(c) \/ SignupRow(c) \/ SignupAccount(c) \/ JoinLook(c) \/ JoinWrite(c)
      BY <2>a DEF SignupBegin, SignupRow, SignupAccount, JoinLook, JoinWrite
    <2>b. CASE CreateBegin(c) \/ BootstrapBegin(c) \/ SeedLook(c) \/ SeedWrite(c)
      BY <2>b DEF CreateBegin, BootstrapBegin, SeedLook, SeedWrite, AfterSeed
    <2>c. CASE EnsureOrg(c)
      BY <2>c DEF EnsureOrg, HubType, OrgRecords
    <2>d. CASE NewOrgServer(c) \/ UpsertAdmin(c) \/ StartOrgWorkers(c) \/ MountOrg(c)
      BY <2>d DEF NewOrgServer, UpsertAdmin, StartOrgWorkers, MountOrg
    <2>e. CASE CloneAccount(c) \/ ArchiveRow(c) \/ ArchiveMap(c)
      BY <2>e DEF CloneAccount, ArchiveRow, ArchiveMap
    <2>f. CASE ManageBegin(c) \/ GetOrgSettings(c) \/ CallFails(c)
      BY <2>f, Managed, Seen, Failed DEF ManageBegin, GetOrgSettings, CallFails
    <2>g. CASE UpdateOrgSettings(c) \/ ArmMirror(c) \/ LookFails(c)
      BY <2>g DEF UpdateOrgSettings, ArmMirror, LookFails
    <2> QED
      BY <1>1, <2>a, <2>b, <2>c, <2>d, <2>e, <2>f, <2>g DEF CallStep
  <1>2. CASE LandOnBranch
    BY <1>2 DEF LandOnBranch, RowFirst, Mounted, At
  <1>3. CASE HubRestart
    <2>1. \A c \in Calls : calls'[c].pc \in {"idle", "done", "refused"}
      BY <1>3, Reset
    <2> QED
      BY <1>3, <2>1 DEF HubRestart, RowFirst, Mounted, At
  <1> QED
    BY <1>1, <1>2, <1>3, NextCases

\* Unserved, ManagedHere: what only a served org knows.
LEMMA UnservedKept ==
    ASSUME HubType, CallsFit, RowFirst, Unserved, ManagedHere, HubNext
    PROVE  Unserved' /\ ManagedHere'
  <1> DEFINE Manages == {"clone"} \cup ArchivePlaces \cup SavePlaces
  <1>1. ASSUME NEW c \in Calls, CallStep(c)
        PROVE  Unserved' /\ ManagedHere'
    <2>0. Kind(c)' = Kind(c) /\ CallFits(c) /\ Kind(c) \in Kinds
      BY Steps, Callers DEF CallsFit
    <2> SUFFICES /\ mount' = mount \/ ~Mounted
                 /\ mount' = NoCall =>
                       /\ ~org'.archived /\ ~closed' /\ org'.repo = NoCall
                       /\ ~At(c, Manages)'
                       /\ Kind(c) = "join" => CallOver(c)'
                 /\ At(c, ArchivePlaces \cup SavePlaces)' => calls'[c].via = mount'
      BY <2>0, <1>1, CallPasses, Steps DEF Unserved, ManagedHere, At, Mounted, Only, CallOver
    <2> USE <2>0, CallMoves DEF Is, At, Only, CallPlaces, Unserved, ManagedHere, Mounted, CallOver,
                  ArchivePlaces, SavePlaces, CallFits, HubType
    <2>a. CASE SignupBegin(c) \/ SignupRow(c) \/ SignupAccount(c) \/ JoinLook(c) \/ JoinWrite(c)
      BY <2>a DEF SignupBegin, SignupRow, SignupAccount, JoinLook, JoinWrite, OrgRecords
    <2>b. CASE CreateBegin(c) \/ BootstrapBegin(c) \/ SeedLook(c) \/ SeedWrite(c)
      BY <2>b DEF CreateBegin, BootstrapBegin, SeedLook, SeedWrite, AfterSeed
    <2>c. CASE EnsureOrg(c)
      BY <2>c DEF EnsureOrg, OrgRecords
    <2>d. CASE NewOrgServer(c) \/ UpsertAdmin(c) \/ StartOrgWorkers(c)
      BY <2>d DEF NewOrgServer, UpsertAdmin, StartOrgWorkers
    <2>e. CASE MountOrg(c) \/ CloneAccount(c)
      BY <2>e, HubAssumption DEF MountOrg, CloneAccount
    <2>f. CASE ArchiveRow(c) \/ ArchiveMap(c)
      BY <2>f DEF ArchiveRow, ArchiveMap, OrgRecords
    <2>g. CASE ManageBegin(c)
      BY <2>g, Managed DEF ManageBegin, Archivings
    <2>h. CASE GetOrgSettings(c) \/ CallFails(c)
      BY <2>h, Seen, Failed DEF GetOrgSettings, CallFails
    <2>i. CASE UpdateOrgSettings(c)
      BY <2>i DEF UpdateOrgSettings, OrgRecords
    <2>j. CASE ArmMirror(c) \/ LookFails(c)
      BY <2>j DEF ArmMirror, LookFails
    <2> QED
      BY <1>1, <2>a, <2>b, <2>c, <2>d, <2>e, <2>f, <2>g, <2>h, <2>i, <2>j DEF CallStep
  <1>2. CASE LandOnBranch
    BY <1>2 DEF LandOnBranch, Unserved, ManagedHere, Mounted, At, CallOver, Kind
  <1>3. CASE HubRestart
    <2>1. \A c \in Calls : calls'[c].pc \in {"idle", "done", "refused"}
      BY <1>3, Reset
    <2> QED
      BY <1>3, <2>1, HubAssumption
      DEF HubRestart, Unserved, RowFirst, ManagedHere, Mounted, At, CallOver,
          ArchivePlaces, SavePlaces, ArchivedAtBoot, HubType, OrgRecords
  <1> QED
    BY <1>1, <1>2, <1>3, NextCases

\* CreatorEnters: before an org is served, nobody demotes its creator.
LEMMA CreatorKept ==
    ASSUME HubType, CallsFit, Unserved, CreatorEnters, HubNext
    PROVE  CreatorEnters'
  <1>1. ASSUME NEW c \in Calls, CallStep(c)
        PROVE  CreatorEnters'
    <2>0. /\ Kind(c)' = Kind(c) /\ Who(c)' = Who(c) /\ CallFits(c) /\ Kind(c) \in Kinds
          /\ Kind(c) \in {"signup", "join", "create", "bootstrap"} => Who(c) \in People
          /\ Anonymous \notin People
      BY Steps, Callers DEF CallsFit
    <2> SUFFICES
           /\ accounts \subseteq accounts' /\ (mount' = NoCall => ~Mounted)
           /\ mount' = NoCall =>
                 \A p \in People : roles[p] = "admin" => roles'[p] = "admin"
           /\ Kind(c) = "signup" /\ At(c, {"enter"} \cup AssemblingPlaces)'
                 => Who(c) \in accounts'
           /\ mount' = NoCall /\ Kind(c) # "operator" /\ At(c, {"workers", "mount"})'
                 => roles'[Who(c)] = "admin"
      BY <1>1, <2>0, CallPasses, Steps, Callers
      DEF CreatorEnters, At, Mounted, Only, CallsFit, CallFits, CreationPlaces, Creations
    <2> USE <2>0, CallMoves DEF Is, At, Only, CallPlaces, CreatorEnters, Mounted, CallOver,
                  Unserved, AssemblingPlaces, CreationPlaces, Creations, CallFits, HubType
    <2>a. CASE SignupBegin(c) \/ SignupRow(c) \/ SignupAccount(c)
      BY <2>a DEF SignupBegin, SignupRow, SignupAccount
    <2>b. CASE JoinLook(c) \/ JoinWrite(c)
      BY <2>b DEF JoinLook, JoinWrite
    <2>c. CASE CreateBegin(c) \/ BootstrapBegin(c)
      BY <2>c DEF CreateBegin, BootstrapBegin
    <2>d. CASE SeedLook(c) \/ SeedWrite(c) \/ EnsureOrg(c) \/ NewOrgServer(c)
      BY <2>d DEF SeedLook, SeedWrite, AfterSeed, EnsureOrg, NewOrgServer
    <2>e. CASE UpsertAdmin(c)
      BY <2>e DEF UpsertAdmin
    <2>f. CASE StartOrgWorkers(c) \/ MountOrg(c) \/ CloneAccount(c)
      BY <2>f DEF StartOrgWorkers, MountOrg, CloneAccount
    <2>g. CASE ManageBegin(c) \/ GetOrgSettings(c) \/ CallFails(c)
      BY <2>g, Managed, Seen, Failed DEF ManageBegin, GetOrgSettings, CallFails
    <2>h. CASE ArchiveRow(c) \/ ArchiveMap(c) \/ UpdateOrgSettings(c) \/ ArmMirror(c)
      BY <2>h DEF ArchiveRow, ArchiveMap, UpdateOrgSettings, ArmMirror
    <2>i. CASE LookFails(c)
      BY <2>i DEF LookFails
    <2> QED
      BY <1>1, <2>a, <2>b, <2>c, <2>d, <2>e, <2>f, <2>g, <2>h, <2>i DEF CallStep
  <1>2. CASE LandOnBranch
    BY <1>2 DEF LandOnBranch, CreatorEnters, Mounted, At, Kind, Who
  <1>3. CASE HubRestart
    <2>1. \A c \in Calls : calls'[c].pc \in {"idle", "done", "refused"}
      BY <1>3, Reset
    <2> QED
      BY <1>3, <2>1 DEF HubRestart, CreatorEnters, At, AssemblingPlaces, CreationPlaces
  <1> QED
    BY <1>1, <1>2, <1>3, NextCases

\* History is not forgotten.
LEMMA MishapsStay ==
    ASSUME HubType, HubNext
    PROVE  mishaps \subseteq mishaps' /\ (raced => raced') /\ (crossed => crossed')
  <1> USE DEF HubType
  <1>1. ASSUME NEW c \in Calls, CallStep(c)
        PROVE  mishaps \subseteq mishaps' /\ (raced => raced') /\ (crossed => crossed')
    BY <1>1
    DEF CallStep, SignupBegin, SignupRow, SignupAccount, JoinLook, JoinWrite,
        CreateBegin, BootstrapBegin, SeedLook, SeedWrite, EnsureOrg,
        NewOrgServer, UpsertAdmin, StartOrgWorkers, MountOrg, CloneAccount,
        ManageBegin, ArchiveRow, ArchiveMap, GetOrgSettings,
        UpdateOrgSettings, ArmMirror, CallFails, LookFails
  <1> QED
    BY <1>1, NextCases DEF LandOnBranch, HubRestart

\* AdminStands: once served, the admin keeps their role and their account.
LEMMA AdminKept ==
    ASSUME HubType, CallsFit, Unserved, CreatorEnters, AdminStands, HubNext
    PROVE  AdminStands'
  <1> SUFFICES ASSUME Mounted', (mishaps = {})',
                      \A c \in Calls : Kind(c) # "operator"
               PROVE  \E p \in People : Stands(p)'
    BY Steps DEF AdminStands
  <1>0. /\ mount' # NoCall /\ mishaps = {} /\ mishaps' = {}
        /\ \A c \in Calls : Kind(c) # "operator"
    BY MishapsStay DEF Mounted
  <1>1. ASSUME NEW c \in Calls, CallStep(c), Mounted
        PROVE  \E p \in People : Stands(p)'
    <2>1. PICK p \in People : Stands(p)
      BY <1>0, <1>1 DEF AdminStands
    <2>2. /\ CallFits(c)
          /\ Kind(c) \in {"signup", "join", "create", "bootstrap"} => Who(c) \in People
      BY Callers DEF CallsFit
    <2> SUFFICES /\ roles'[p] = "admin" /\ accounts \subseteq accounts'
                 /\ At(c, {"join"})' => Who(c) # p
                 /\ At(c, {"clone"}) => At(c, {"clone"})' \/ Who(c) \in accounts'
      BY <2>1, <1>1, CallPasses, Steps DEF Stands, At, Only
    <2> USE <2>1, <2>2, CallMoves DEF Is, At, Only, CallPlaces, Stands, CallFits, HubType
    <2>a. CASE SignupBegin(c) \/ SignupRow(c) \/ SignupAccount(c)
      BY <2>a DEF SignupBegin, SignupRow, SignupAccount
    <2>b. CASE JoinLook(c) \/ JoinWrite(c)
      BY <2>b DEF JoinLook, JoinWrite, KeepsRole
    <2>c. CASE CreateBegin(c) \/ BootstrapBegin(c)
      BY <2>c DEF CreateBegin, BootstrapBegin
    <2>d. CASE SeedLook(c) \/ SeedWrite(c) \/ EnsureOrg(c) \/ NewOrgServer(c)
      BY <2>d DEF SeedLook, SeedWrite, AfterSeed, EnsureOrg, NewOrgServer
    <2>e. CASE UpsertAdmin(c) \/ StartOrgWorkers(c)
      BY <2>e DEF UpsertAdmin, StartOrgWorkers
    <2>f. CASE MountOrg(c) \/ CloneAccount(c)
      BY <2>f DEF MountOrg, CloneAccount
    <2>g. CASE ManageBegin(c) \/ GetOrgSettings(c)
      BY <2>g, Managed, Seen DEF ManageBegin, GetOrgSettings
    <2>h. CASE CallFails(c)
      <3>1. ~At(c, {"clone"}) /\ Only(c, "idle")
        BY <1>0, <2>h, Failed DEF CallFails
      <3> QED
        BY <2>h, <3>1 DEF CallFails
    <2>i. CASE ArchiveRow(c) \/ ArchiveMap(c) \/ UpdateOrgSettings(c) \/ ArmMirror(c)
      BY <2>i DEF ArchiveRow, ArchiveMap, UpdateOrgSettings, ArmMirror
    <2>j. CASE LookFails(c)
      BY <1>0, <2>j DEF LookFails
    <2> QED
      BY <1>1, <2>a, <2>b, <2>c, <2>d, <2>e, <2>f, <2>g, <2>h, <2>i, <2>j DEF CallStep
  <1>2. ASSUME NEW c \in Calls, CallStep(c), ~Mounted
        PROVE  \E p \in People : Stands(p)'
    <2>1. MountOrg(c)
      BY <1>0, <1>2
      DEF CallStep, SignupBegin, SignupRow, SignupAccount, JoinLook, JoinWrite,
           CreateBegin, BootstrapBegin, SeedLook, SeedWrite, EnsureOrg,
           NewOrgServer, UpsertAdmin, StartOrgWorkers, CloneAccount,
           ManageBegin, ArchiveRow, ArchiveMap, GetOrgSettings,
           UpdateOrgSettings, ArmMirror, CallFails, LookFails, Mounted
    <2>2. Is(c, "mount") /\ Kind(c) \in {"signup", "create"} /\ Who(c) \in People
      BY <1>0, <2>1, Callers DEF MountOrg, CallsFit, CallFits, At, Is, CreationPlaces, Creations
    <2>p. PICK p \in People : p = Who(c)
      BY <2>2
    <2>3. roles[p] = "admin" /\ (Kind(c) = "signup" => p \in accounts)
      BY <1>0, <1>2, <2>2, <2>p DEF CreatorEnters, At, Is, AssemblingPlaces, CreationPlaces
    <2>4. roles' = roles /\ accounts' = accounts
      BY <2>1 DEF MountOrg
    <2>5. \A d \in Calls : ~At(d, {"join"})'
      <3> SUFFICES ASSUME NEW d \in Calls PROVE ~At(d, {"join"})'
        OBVIOUS
      <3>1. CASE d = c
        BY <1>2, <2>1, <3>1, CallMoves DEF MountOrg, Only, At, CallPlaces
      <3>2. CASE d # c
        BY <1>2, <3>2, CallPasses, CallMoves DEF Unserved, At, CallOver, CallsFit, CallFits, Only
      <3> QED
        BY <3>1, <3>2
    <2>6. Kind(c) = "create" => At(c, {"clone"})' /\ Who(c)' = p
      BY <1>2, <2>1, <2>p, CallMoves, Steps DEF MountOrg, Only, At, CallPlaces
    <2>7. Stands(p)'
      BY <2>2, <2>3, <2>4, <2>5, <2>6 DEF Stands
    <2> QED
      BY <2>7
  <1>3. CASE LandOnBranch
    BY <1>0, <1>3 DEF LandOnBranch, AdminStands, Stands, Mounted, At, Kind, Who
  <1>4. CASE HubRestart
    <2>1. \A c \in Calls : calls'[c].pc \in {"idle", "done", "refused"}
      BY <1>4, Reset
    <2>2. Admins # {} /\ accounts' = accounts /\ roles' = roles
      BY <1>0, <1>4 DEF HubRestart, Mounted
    <2>3. PICK p \in accounts : roles[p] = "admin"
      BY <2>2 DEF Admins
    <2>4. Stands(p)' /\ p \in People
      BY <2>1, <2>2, <2>3 DEF Stands, At, HubType
    <2> QED
      BY <2>4
  <1> QED
    BY <1>0, <1>1, <1>2, <1>3, <1>4, NextCases

----------------------------------------------------------------------------
(* The archive map, the assemblies and the wiring.                         *)

\* ArchiveInStep: while no two archive calls cross.
LEMMA ArchiveKept ==
    ASSUME HubType, CallsFit, RowFirst, Unserved, ArchiveInStep, HubNext
    PROVE  ArchiveInStep'
  <1> SUFFICES ASSUME ~crossed' PROVE ArchiveInStep'
    BY DEF ArchiveInStep
  <1>0. ~crossed
    BY MishapsStay
  <1> DEFINE OnlyOne == \A c, d \in Calls : At(c, ArchivePlaces) /\ At(d, ArchivePlaces) => c = d
             Same == (\A c \in Calls : ~At(c, {"map"})) => closed = org.archived
             Half == \A c \in Calls : At(c, {"map"}) => org.archived = (Kind(c) = "archive")
  <1> USE DEF ArchivePlaces, At
  <1>1. ASSUME NEW c \in Calls, CallStep(c), ~At(c, ArchivePlaces),
               ~At(c, ArchivePlaces)'
        PROVE  ArchiveInStep'
    <2>1. closed' = closed /\ org'.archived = org.archived
      BY <1>1
      DEF CallStep, SignupBegin, SignupRow, SignupAccount, JoinLook, JoinWrite,
           CreateBegin, BootstrapBegin, SeedLook, SeedWrite, EnsureOrg,
           NewOrgServer, UpsertAdmin, StartOrgWorkers, MountOrg, CloneAccount,
           ManageBegin, ArchiveRow, ArchiveMap, GetOrgSettings,
           UpdateOrgSettings, ArmMirror, CallFails, LookFails, Is, HubType, OrgRecords
    <2> QED
      BY <1>0, <1>1, <2>1, CallPasses, Steps DEF ArchiveInStep, Only
  <1>2. ASSUME NEW c \in Calls, CallStep(c), ~At(c, ArchivePlaces),
               At(c, ArchivePlaces)'
        PROVE  ArchiveInStep'
    <2>1. ManageBegin(c)
      <3> USE <1>2, CallMoves DEF Only, CallPlaces
      <3>1. ~(SignupBegin(c) \/ SignupRow(c) \/ SignupAccount(c) \/ JoinLook(c) \/ JoinWrite(c))
        BY DEF SignupBegin, SignupRow, SignupAccount, JoinLook, JoinWrite
      <3>2. ~(CreateBegin(c) \/ BootstrapBegin(c) \/ SeedLook(c) \/ SeedWrite(c) \/ EnsureOrg(c))
        BY DEF CreateBegin, BootstrapBegin, SeedLook, SeedWrite, AfterSeed, EnsureOrg
      <3>3. ~(NewOrgServer(c) \/ UpsertAdmin(c) \/ StartOrgWorkers(c) \/ MountOrg(c)
              \/ CloneAccount(c))
        BY DEF NewOrgServer, UpsertAdmin, StartOrgWorkers, MountOrg, CloneAccount
      <3>4. ~(ArchiveRow(c) \/ ArchiveMap(c) \/ GetOrgSettings(c) \/ UpdateOrgSettings(c)
              \/ ArmMirror(c) \/ CallFails(c) \/ LookFails(c))
        BY Seen, Failed
        DEF ArchiveRow, ArchiveMap, GetOrgSettings, UpdateOrgSettings, ArmMirror, LookFails, Is
      <3> QED
        BY <3>1, <3>2, <3>3, <3>4 DEF CallStep
    <2>2. Kind(c) \in Archivings /\ Only(c, "directory")
          /\ crossed' = (crossed \/ Inside(Archivings) # {})
      BY <1>2, <2>1, Managed, CallMoves DEF Only
    <2>3. \A d \in Calls : ~At(d, ArchivePlaces)
      BY <1>0, <2>2 DEF Inside, CallsFit, CallFits, CallOver
    <2>4. closed' = closed /\ org' = org
      BY <2>1 DEF ManageBegin
    <2> QED
      BY <1>0, <2>2, <2>3, <2>4, Steps DEF ArchiveInStep, Only
  <1>3. ASSUME NEW c \in Calls, CallStep(c), At(c, ArchivePlaces)
        PROVE  ArchiveInStep'
    <2>0. \A d \in Calls : At(d, ArchivePlaces) => d = c
      BY <1>0, <1>3 DEF ArchiveInStep
    <2>1. CASE ArchiveRow(c)
      <3>1. Only(c, "map") /\ closed' = closed /\ org'.archived = (Kind(c) = "archive")
        BY <2>1, CallMoves DEF ArchiveRow, HubType, OrgRecords, CallPlaces
      <3> QED
        BY <2>0, <3>1, Steps DEF ArchiveInStep, Only
    <2>2. CASE ArchiveMap(c)
      <3>1. Only(c, "done") /\ closed' = (Kind(c) = "archive") /\ org' = org
        BY <2>2, CallMoves DEF ArchiveMap
      <3>2. org.archived = (Kind(c) = "archive")
        BY <1>0, <2>2 DEF ArchiveInStep, ArchiveMap, Is
      <3> QED
        BY <2>0, <3>1, <3>2, Steps DEF ArchiveInStep, Only
    <2>3. CASE CallFails(c)
      <3>1. Only(c, "idle") /\ ~At(c, {"map"}) /\ closed' = closed /\ org' = org
        BY <2>3, Failed DEF CallFails
      <3> QED
        BY <1>0, <2>0, <3>1, Steps DEF ArchiveInStep, Only
    <2>4. ArchiveRow(c) \/ ArchiveMap(c) \/ CallFails(c)
      BY <1>3
      DEF CallStep, SignupBegin, SignupRow, SignupAccount, JoinLook, JoinWrite,
           CreateBegin, BootstrapBegin, SeedLook, SeedWrite, EnsureOrg,
           NewOrgServer, UpsertAdmin, StartOrgWorkers, MountOrg, CloneAccount,
           ManageBegin, ArchiveRow, ArchiveMap, GetOrgSettings,
           UpdateOrgSettings, ArmMirror, CallFails, LookFails, Is
    <2> QED
      BY <2>1, <2>2, <2>3, <2>4
  <1>4. CASE LandOnBranch
    BY <1>0, <1>4 DEF LandOnBranch, ArchiveInStep, Kind
  <1>5. CASE HubRestart
    <2>1. \A c \in Calls : calls'[c].pc \in {"idle", "done", "refused"}
      BY <1>5, Reset
    <2>2. closed' = org.archived /\ org' = org
      BY <1>5 DEF HubRestart, ArchivedAtBoot, RowFirst, Unserved, HubType, OrgRecords
    <2> QED
      BY <2>1, <2>2 DEF ArchiveInStep
  <1> QED
    BY <1>1, <1>2, <1>3, <1>4, <1>5, NextCases

\* OneAssembly: while no two creations of the org overlap.
LEMMA AssemblyKept ==
    ASSUME HubType, CallsFit, Unserved, OneAssembly, HubNext
    PROVE  OneAssembly'
  <1> SUFFICES ASSUME ~raced' PROVE OneAssembly'
    BY DEF OneAssembly
  <1>0. ~raced /\ \A c \in Calls : Kind(c)' = Kind(c)
    BY MishapsStay, Steps
  <1> USE DEF At, AssemblingPlaces, CreationPlaces
  <1>1. ASSUME NEW c \in Calls, CallStep(c), ~At(c, AssemblingPlaces),
               ~At(c, AssemblingPlaces)'
        PROVE  OneAssembly'
    <2>1. \/ mount' = mount /\ branch' = branch /\ mirrors' = mirrors /\ org'.repo = org.repo
          \/ Is(c, "arm") /\ mount' = mount /\ branch' = branch
          \/ Is(c, "write") /\ mount' = mount /\ branch' = branch
      BY <1>1 DEF CallStep, SignupBegin, SignupRow, SignupAccount, JoinLook, JoinWrite,
           CreateBegin, BootstrapBegin, SeedLook, SeedWrite, EnsureOrg,
           NewOrgServer, UpsertAdmin, StartOrgWorkers, MountOrg, CloneAccount,
           ManageBegin, ArchiveRow, ArchiveMap, GetOrgSettings,
           UpdateOrgSettings, ArmMirror, CallFails, LookFails, Is, HubType, OrgRecords
    <2>2. Is(c, "arm") \/ Is(c, "write") => Mounted
      BY DEF Unserved, Is, SavePlaces
    <2> QED
      BY <1>0, <1>1, <2>1, <2>2, CallPasses DEF OneAssembly, Only, CallsFit, CallFits,
         Creations, Mounted
  <1>2. ASSUME NEW c \in Calls, CallStep(c), ~At(c, AssemblingPlaces),
               At(c, AssemblingPlaces)'
        PROVE  OneAssembly'
    <2>1. CreateBegin(c) \/ BootstrapBegin(c)
      <3> USE <1>2, CallMoves DEF Only, CallPlaces
      <3>1. ~(SignupBegin(c) \/ SignupRow(c) \/ SignupAccount(c) \/ JoinLook(c)
              \/ JoinWrite(c) \/ CloneAccount(c))
        BY DEF SignupBegin, SignupRow, SignupAccount, JoinLook, JoinWrite, CloneAccount
      <3>2. ~(SeedLook(c) \/ SeedWrite(c) \/ EnsureOrg(c) \/ NewOrgServer(c)
              \/ UpsertAdmin(c) \/ StartOrgWorkers(c) \/ MountOrg(c))
        BY DEF SeedLook, SeedWrite, EnsureOrg, NewOrgServer, UpsertAdmin,
               StartOrgWorkers, MountOrg, Is
      <3>3. ~ManageBegin(c)
        BY Managed
      <3>4. ~(ArchiveRow(c) \/ ArchiveMap(c) \/ GetOrgSettings(c) \/ UpdateOrgSettings(c)
              \/ ArmMirror(c) \/ CallFails(c) \/ LookFails(c))
        BY Seen, Failed
        DEF ArchiveRow, ArchiveMap, GetOrgSettings, UpdateOrgSettings, ArmMirror, LookFails, Is
      <3> QED
        BY <3>1, <3>2, <3>3, <3>4 DEF CallStep
    <2>2. /\ Assembling = {} /\ ~At(c, {"seed", "member", "workers", "mount"})'
          /\ mount' = mount /\ (Kind(c) # "bootstrap" => ~Mounted)
      BY <1>0, <1>2, <2>1, CallMoves
      DEF CreateBegin, BootstrapBegin, Only, CallPlaces, CallsFit, CallFits, Is, HubType
    <2> QED
      BY <1>0, <1>2, <2>2, CallPasses DEF OneAssembly, Only, Assembling, Mounted
  <1>3. ASSUME NEW c \in Calls, CallStep(c), At(c, AssemblingPlaces)
        PROVE  OneAssembly'
    <2>0. \A d \in Calls : d # c => ~At(d, AssemblingPlaces) /\ ~At(d, AssemblingPlaces)'
      BY <1>0, <1>3, CallPasses DEF OneAssembly, Only
    <2> SUFFICES /\ At(c, AssemblingPlaces)' /\ Kind(c) # "bootstrap" => mount' = NoCall
                 /\ At(c, {"seed"})' => branch' = << >>
                 /\ At(c, {"member", "workers", "mount"})' =>
                       mirrors'.filed = c /\ mirrors'.remote[c] = org'.repo
                 /\ At(c, {"mount"})' => c \in mirrors'.running
      BY <1>0, <2>0 DEF OneAssembly, Mounted
    <2> USE <1>0, <1>3, CallMoves DEF OneAssembly, Only, Is, CallPlaces, HubType, Mounted
    <2>a. CASE SeedLook(c) \/ SeedWrite(c)
      BY <2>a DEF SeedLook, SeedWrite, Seeds, AfterSeed
    <2>b. CASE EnsureOrg(c) \/ UpsertAdmin(c)
      BY <2>b DEF EnsureOrg, UpsertAdmin, OrgRecords
    <2>c. CASE NewOrgServer(c)
      BY <2>c DEF NewOrgServer, MirrorRecords, Assemblies
    <2>d. CASE StartOrgWorkers(c)
      BY <2>d DEF StartOrgWorkers, MirrorRecords
    <2>e. CASE MountOrg(c)
      BY <2>e DEF MountOrg
    <2>f. CASE CallFails(c)
      BY <2>f, Failed DEF CallFails
    <2>g. \/ SeedLook(c) \/ SeedWrite(c) \/ EnsureOrg(c) \/ NewOrgServer(c)
          \/ UpsertAdmin(c) \/ StartOrgWorkers(c) \/ MountOrg(c) \/ CallFails(c)
      BY <1>3 DEF CallStep, SignupBegin, SignupRow, SignupAccount, JoinLook, JoinWrite,
           CreateBegin, BootstrapBegin, SeedLook, SeedWrite, EnsureOrg,
           NewOrgServer, UpsertAdmin, StartOrgWorkers, MountOrg, CloneAccount,
           ManageBegin, ArchiveRow, ArchiveMap, GetOrgSettings,
           UpdateOrgSettings, ArmMirror, CallFails, LookFails
    <2> QED
      BY <2>a, <2>b, <2>c, <2>d, <2>e, <2>f, <2>g
  <1>4. CASE LandOnBranch
    BY <1>0, <1>4 DEF LandOnBranch, OneAssembly, Mounted
  <1>5. CASE HubRestart
    <2>1. \A c \in Calls : calls'[c].pc \in {"idle", "done", "refused"}
      BY <1>5, Reset
    <2> QED
      BY <2>1 DEF OneAssembly
  <1> QED
    BY <1>1, <1>2, <1>3, <1>4, <1>5, NextCases

\* OneSave: while no two saves of the settings cross.
LEMMA SaveKept ==
    ASSUME HubType, CallsFit, OneSave, HubNext
    PROVE  OneSave'
  <1> SUFFICES ASSUME ~crossed' PROVE OneSave'
    BY DEF OneSave
  <1>0. ~crossed /\ mishaps \subseteq mishaps' /\ \A c \in Calls : Kind(c)' = Kind(c)
    BY MishapsStay, Steps
  <1> USE DEF At, SavePlaces
  <1>1. ASSUME NEW c \in Calls, CallStep(c), ~At(c, SavePlaces), ~At(c, SavePlaces)'
        PROVE  OneSave'
    <2>1. org'.repo = org.repo
      BY <1>1 DEF CallStep, SignupBegin, SignupRow, SignupAccount, JoinLook, JoinWrite,
           CreateBegin, BootstrapBegin, SeedLook, SeedWrite, EnsureOrg,
           NewOrgServer, UpsertAdmin, StartOrgWorkers, MountOrg, CloneAccount,
           ManageBegin, ArchiveRow, ArchiveMap, GetOrgSettings,
           UpdateOrgSettings, ArmMirror, CallFails, LookFails, Is, HubType, OrgRecords
    <2> QED
      BY <1>0, <1>1, <2>1, CallPasses DEF OneSave, Only
  <1>2. ASSUME NEW c \in Calls, CallStep(c), ~At(c, SavePlaces), At(c, SavePlaces)'
        PROVE  OneSave'
    <2>1. ManageBegin(c)
      <3> USE <1>2, CallMoves DEF Only, CallPlaces
      <3>1. ~(SignupBegin(c) \/ SignupRow(c) \/ SignupAccount(c) \/ JoinLook(c) \/ JoinWrite(c))
        BY DEF SignupBegin, SignupRow, SignupAccount, JoinLook, JoinWrite
      <3>2. ~(CreateBegin(c) \/ BootstrapBegin(c) \/ SeedLook(c) \/ SeedWrite(c) \/ EnsureOrg(c))
        BY DEF CreateBegin, BootstrapBegin, SeedLook, SeedWrite, AfterSeed, EnsureOrg
      <3>3. ~(NewOrgServer(c) \/ UpsertAdmin(c) \/ StartOrgWorkers(c) \/ MountOrg(c)
              \/ CloneAccount(c))
        BY DEF NewOrgServer, UpsertAdmin, StartOrgWorkers, MountOrg, CloneAccount
      <3>4. ~(ArchiveRow(c) \/ ArchiveMap(c) \/ GetOrgSettings(c) \/ UpdateOrgSettings(c)
              \/ ArmMirror(c) \/ CallFails(c) \/ LookFails(c))
        BY Failed DEF ArchiveRow, ArchiveMap, GetOrgSettings, UpdateOrgSettings,
               ArmMirror, LookFails, Is
      <3> QED
        BY <3>1, <3>2, <3>3, <3>4 DEF CallStep
    <2>2. Kind(c) \in Savings /\ Only(c, "read")
          /\ crossed' = (crossed \/ Inside(Savings) # {})
      <3>1. ~Finish(c, "refused")
        BY <1>2, CallMoves DEF Only
      <3> QED
        BY <1>2, <2>1, <3>1, Managed DEF ManageBegin, Only, Archivings, Savings
    <2>3. \A d \in Calls : ~At(d, SavePlaces)
      BY <1>0, <2>2 DEF Inside, CallsFit, CallFits, CallOver, Savings
    <2> QED
      BY <1>0, <2>2, <2>3 DEF OneSave, Only
  <1>3. ASSUME NEW c \in Calls, CallStep(c), At(c, SavePlaces)
        PROVE  OneSave'
    <2>0. \A d \in Calls : d # c => ~At(d, SavePlaces) /\ ~At(d, SavePlaces)'
      BY <1>0, <1>3, CallPasses DEF OneSave, Only
    <2> SUFFICES /\ At(c, {"write"})' /\ Kind(c) = "put" /\ "blind" \notin mishaps'
                       => calls'[c].saw.repo = org'.repo
                 /\ At(c, {"arm"})' => org'.repo = c
      BY <1>0, <2>0 DEF OneSave
    <2> USE <1>0, <1>3, CallMoves DEF Only, Is, CallPlaces, HubType
    <2>a. CASE GetOrgSettings(c)
      BY <2>a, Seen DEF GetOrgSettings
    <2>b. CASE LookFails(c)
      BY <2>b DEF LookFails
    <2>c. CASE UpdateOrgSettings(c)
      BY <2>c DEF UpdateOrgSettings, OrgRecords
    <2>d. CASE ArmMirror(c) \/ CallFails(c)
      BY <2>d, Failed DEF ArmMirror
    <2>e. GetOrgSettings(c) \/ LookFails(c) \/ UpdateOrgSettings(c) \/ ArmMirror(c) \/ CallFails(c)
      BY <1>3 DEF CallStep, SignupBegin, SignupRow, SignupAccount, JoinLook, JoinWrite,
           CreateBegin, BootstrapBegin, SeedLook, SeedWrite, EnsureOrg,
           NewOrgServer, UpsertAdmin, StartOrgWorkers, MountOrg, CloneAccount,
           ManageBegin, ArchiveRow, ArchiveMap, GetOrgSettings,
           UpdateOrgSettings, ArmMirror, CallFails, LookFails
    <2> QED
      BY <2>a, <2>b, <2>c, <2>d, <2>e
  <1>4. CASE LandOnBranch
    BY <1>0, <1>4 DEF LandOnBranch, OneSave
  <1>5. CASE HubRestart
    <2>1. \A c \in Calls : calls'[c].pc \in {"idle", "done", "refused"}
      BY <1>5, Reset
    <2> QED
      BY <2>1 DEF OneSave
  <1> QED
    BY <1>1, <1>2, <1>3, <1>4, <1>5, NextCases

\* MirrorArmed: while neither crosses and the wiring can be read.
LEMMA ArmedKept ==
    ASSUME HubType, CallsFit, RowFirst, Unserved, ManagedHere, OneAssembly, OneSave,
           MirrorArmed, HubNext
    PROVE  MirrorArmed'
  <1> SUFFICES ASSUME mount' # NoCall, ~raced', ~crossed', "blind" \notin mishaps'
               PROVE  /\ mount' \in mirrors'.running
                      /\ \/ mirrors'.remote[mount'] = org'.repo
                         \/ \E c \in Calls : At(c, {"arm"})'
    BY DEF MirrorArmed, Mounted
  <1> DEFINE Armed == /\ mount' \in mirrors'.running
                      /\ \/ mirrors'.remote[mount'] = org'.repo
                         \/ \E c \in Calls : At(c, {"arm"})'
  <1>0. ~raced /\ ~crossed /\ "blind" \notin mishaps
    BY MishapsStay
  <1> USE DEF At, Is
  <1>1. ASSUME NEW c \in Calls, CallStep(c), ~At(c, CreationPlaces \cup SavePlaces)
        PROVE  Armed
    <2>1. mount' = mount /\ mirrors' = mirrors /\ org'.repo = org.repo
      BY <1>1 DEF CallStep, SignupBegin, SignupRow, SignupAccount, JoinLook, JoinWrite,
           CreateBegin, BootstrapBegin, SeedLook, SeedWrite, EnsureOrg,
           NewOrgServer, UpsertAdmin, StartOrgWorkers, MountOrg, CloneAccount,
           ManageBegin, ArchiveRow, ArchiveMap, GetOrgSettings,
           UpdateOrgSettings, ArmMirror, CallFails, LookFails, HubType, OrgRecords,
           CreationPlaces, SavePlaces
    <2> QED
      BY <1>0, <1>1, <2>1, CallPasses DEF MirrorArmed, Mounted, Only, SavePlaces
  <1>2. ASSUME NEW c \in Calls, CallStep(c), At(c, CreationPlaces)
        PROVE  Armed
    <2>1. ~Mounted
      BY <1>0, <1>2 DEF OneAssembly, AssemblingPlaces, CallsFit, CallFits, Creations
    <2>2. MountOrg(c)
      BY <1>2, <2>1 DEF CallStep, SignupBegin, SignupRow, SignupAccount, JoinLook, JoinWrite,
           CreateBegin, BootstrapBegin, SeedLook, SeedWrite, EnsureOrg,
           NewOrgServer, UpsertAdmin, StartOrgWorkers, MountOrg, CloneAccount,
           ManageBegin, ArchiveRow, ArchiveMap, GetOrgSettings,
           UpdateOrgSettings, ArmMirror, CallFails, LookFails, Mounted, CreationPlaces
    <2> QED
      BY <1>0, <2>1, <2>2 DEF MountOrg, OneAssembly
  <1>3. ASSUME NEW c \in Calls, CallStep(c), At(c, SavePlaces)
        PROVE  Armed
    <2>0. Mounted /\ calls[c].via = mount /\ mount \in Assemblies
      BY <1>3 DEF Unserved, ManagedHere, Mounted, HubType
    <2>1. mount \in mirrors.running
      BY <1>0, <2>0 DEF MirrorArmed
    <2>2. \A d \in Calls : d # c => ~At(d, SavePlaces)
      BY <1>0, <1>3 DEF OneSave
    <2>a. CASE GetOrgSettings(c) \/ LookFails(c)
      BY <1>0, <2>0, <2>1, <2>2, <2>a DEF GetOrgSettings, LookFails, MirrorArmed, SavePlaces
    <2>b. CASE UpdateOrgSettings(c)
      <3>1. CASE Kind(c) = "put"
        <4>1. org'.repo = org.repo
          BY <1>0, <2>b, <3>1 DEF UpdateOrgSettings, PutSettings, OneSave, HubType, OrgRecords
        <4> QED
          BY <1>0, <2>0, <2>1, <2>2, <2>b, <4>1 DEF UpdateOrgSettings, MirrorArmed, SavePlaces
      <3>2. CASE Kind(c) # "put"
        BY <2>0, <2>1, <2>b, <3>2, CallMoves DEF UpdateOrgSettings, Only, CallPlaces
      <3> QED
        BY <3>1, <3>2
    <2>c. CASE ArmMirror(c)
      <3>1. org.repo = c /\ org' = org /\ mount' = mount
        BY <1>0, <2>c DEF ArmMirror, OneSave
      <3>2. mirrors'.remote[mount] = c /\ mirrors'.running = mirrors.running
        BY <2>0, <2>c DEF ArmMirror, HubType, MirrorRecords
      <3> QED
        BY <2>1, <3>1, <3>2
    <2>d. CASE CallFails(c)
      BY <1>0, <2>0, <2>1, <2>2, <2>d DEF CallFails, MirrorArmed, SavePlaces
    <2>e. GetOrgSettings(c) \/ LookFails(c) \/ UpdateOrgSettings(c) \/ ArmMirror(c) \/ CallFails(c)
      BY <1>3 DEF CallStep, SignupBegin, SignupRow, SignupAccount, JoinLook, JoinWrite,
           CreateBegin, BootstrapBegin, SeedLook, SeedWrite, EnsureOrg,
           NewOrgServer, UpsertAdmin, StartOrgWorkers, MountOrg, CloneAccount,
           ManageBegin, ArchiveRow, ArchiveMap, GetOrgSettings,
           UpdateOrgSettings, ArmMirror, CallFails, LookFails, SavePlaces
    <2> QED
      BY <2>a, <2>b, <2>c, <2>d, <2>e
  <1>4. CASE LandOnBranch
    BY <1>0, <1>4 DEF LandOnBranch, MirrorArmed, Mounted
  <1>5. CASE HubRestart
    <2>1. PICK repo \in {org.repo, NoCall} :
             /\ mirrors' = [filed |-> IF org.row THEN Boot ELSE NoCall,
                            running |-> IF org.row THEN {Boot} ELSE {},
                            remote |-> [a \in Calls \cup {Boot} |->
                                          IF a = Boot THEN repo ELSE NoCall]]
             /\ mishaps' = mishaps
                   \cup (IF org.row /\ Admins = {} THEN {"cut"} ELSE {})
                   \cup (IF repo # org.repo THEN {"blind"} ELSE {})
      BY <1>5 DEF HubRestart
    <2>2. org' = org /\ org.row /\ mount' = Boot /\ repo = org.repo
      BY <1>5, <2>1 DEF HubRestart
    <2> QED
      BY <2>1, <2>2
  <1> QED
    BY <1>1, <1>2, <1>3, <1>4, <1>5, NextCases

----------------------------------------------------------------------------
(* The theorems.                                                           *)

LEMMA HubInitially == HubInit => HubIInv
  <1> SUFFICES ASSUME HubInit PROVE HubIInv
    OBVIOUS
  <1>1. \A c \in Calls : calls[c].pc = "idle"
    BY IdleRecord DEF HubInit
  <1>2. HubType
    <2>1. calls \in [Calls -> CallRecords]
      BY IdleRecord DEF HubInit
    <2>2. org \in OrgRecords /\ mirrors \in MirrorRecords
      BY DEF HubInit, OrgRecords, MirrorRecords, Assemblies
    <2>3. roles \in [People -> {"none", "member", "admin"}] /\ branch \in Seq(People \cup {"land"})
      BY DEF HubInit
    <2> QED
      BY <2>1, <2>2, <2>3, HubAssumption DEF HubInit, HubType
  <1>3. CallsFit /\ CreatorEnters
    BY <1>1 DEF CallsFit, CallFits, CreatorEnters, At, CreationPlaces, AssemblingPlaces,
                ArchivePlaces
  <1>4. RowFirst /\ Unserved /\ ManagedHere /\ AdminStands /\ MirrorArmed
    BY <1>1 DEF HubInit, RowFirst, Unserved, ManagedHere, AdminStands, MirrorArmed, At,
                Mounted, CallOver, ArchivePlaces, SavePlaces
  <1>5. ArchiveInStep /\ OneAssembly /\ OneSave
    BY <1>1 DEF HubInit, ArchiveInStep, OneAssembly, OneSave, At, CreationPlaces,
                AssemblingPlaces, ArchivePlaces, SavePlaces
  <1> QED
    BY <1>2, <1>3, <1>4, <1>5 DEF HubIInv

LEMMA HubKept == HubIInv /\ [HubNext]_hubVars => HubIInv'
  <1>1. ASSUME HubIInv, HubNext PROVE HubIInv'
    <2>1. HubType' /\ CallsFit'
      BY <1>1, TypeKept, CallsFitKept DEF HubIInv
    <2>2. RowFirst' /\ Unserved' /\ ManagedHere'
      BY <1>1, RowFirstKept, UnservedKept DEF HubIInv
    <2>3. CreatorEnters' /\ AdminStands'
      BY <1>1, CreatorKept, AdminKept DEF HubIInv
    <2>4. ArchiveInStep'
      BY <1>1, ArchiveKept DEF HubIInv
    <2>5. OneAssembly' /\ OneSave' /\ MirrorArmed'
      BY <1>1, AssemblyKept, SaveKept, ArmedKept DEF HubIInv
    <2> QED
      BY <2>1, <2>2, <2>3, <2>4, <2>5 DEF HubIInv
  <1>2. ASSUME HubIInv, UNCHANGED hubVars PROVE HubIInv'
    BY <1>2
    DEF hubVars, HubIInv, HubType, CallsFit, CallFits, RowFirst, Unserved,
        ManagedHere, CreatorEnters, AdminStands, Stands, ArchiveInStep, OneAssembly,
        OneSave, MirrorArmed, Mounted, At, Is, CallOver, Kind, Who
  <1> QED
    BY <1>1, <1>2

\* HubSound: what is served agrees with the directory.
THEOREM HubIsSound == HubSpec => []HubSound
  <1>1. HubIInv => HubSound
    <2> SUFFICES ASSUME HubIInv PROVE HubSound
      OBVIOUS
    <2>1. OrgHasAdmin
      BY DEF HubIInv, OrgHasAdmin, AdminStands, Stands, Admins, At, Is
    <2>2. ArchiveAgrees
      BY DEF HubIInv, ArchiveAgrees, ArchiveInStep, Inside, CallsFit, CallFits,
             CallOver, At, ArchivePlaces, Archivings
    <2>3. WiringAgrees
      BY DEF HubIInv, WiringAgrees, MirrorArmed, Inside, CallsFit, CallFits,
             CallOver, At, Is, HubType
    <2> QED
      BY <2>1, <2>2, <2>3 DEF HubSound
  <1> QED
    BY <1>1, HubInitially, HubKept, PTL DEF HubSpec

\* TrunkKept: trunk never loses a commit to a genesis while no two creations of the org
\* have overlapped (seedGenesisCommit); of creations that did nothing is claimed.
THEOREM TrunkIsKept == HubSpec => TrunkKept
  <1>1. HubIInv /\ [HubNext]_hubVars => [IsPrefix(branch, branch') \/ raced]_hubVars
    <2> SUFFICES ASSUME HubIInv, HubNext, ~raced
                 PROVE  IsPrefix(branch, branch')
      OBVIOUS
    <2>0. branch \in Seq(People \cup {"land"})
      BY DEF HubIInv, HubType
    <2>1. CASE branch' = branch
      BY <2>0, <2>1 DEF IsPrefix
    <2>2. CASE LandOnBranch
      <3>1. branch' = Append(branch, "land")
        BY <2>2 DEF LandOnBranch
      <3> QED
        BY <2>0, <3>1 DEF IsPrefix
    <2>3. ASSUME NEW c \in Calls, CallStep(c), branch' # branch
          PROVE  IsPrefix(branch, branch')
      <3>1. SeedWrite(c)
        BY <2>3 DEF CallStep, SignupBegin, SignupRow, SignupAccount, JoinLook, JoinWrite,
           CreateBegin, BootstrapBegin, SeedLook, SeedWrite, EnsureOrg,
           NewOrgServer, UpsertAdmin, StartOrgWorkers, MountOrg, CloneAccount,
           ManageBegin, ArchiveRow, ArchiveMap, GetOrgSettings,
           UpdateOrgSettings, ArmMirror, CallFails, LookFails
      <3>2. branch = << >> /\ branch' = <<Who(c)>>
        BY <3>1 DEF HubIInv, OneAssembly, SeedWrite, Is, At
      <3> QED
        BY <3>2 DEF IsPrefix
    <2> QED
      BY <2>1, <2>2, <2>3, NextCases DEF HubRestart
  <1> QED
    BY <1>1, HubInitially, HubKept, PTL DEF HubSpec, TrunkKept

----------------------------------------------------------------------------
(* The doors, from here on.                                                 *)

\* A table among others that lack the operation gives it its handler.
LEMMA OfTable ==
  ASSUME NEW tables, NEW t \in tables, NEW op \in DOMAIN t,
         \A u \in tables : op \in DOMAIN u => u = t
  PROVE  op \in DOMAIN Routed(tables) /\ Routed(tables)[op] = t[op]
  <1>1. (CHOOSE u \in tables : op \in DOMAIN u) = t
    OBVIOUS
  <1> QED
    BY <1>1 DEF Routed

\* The operations of each table.
LEMMA RestDomains ==
  /\ DOMAIN RestReads = {"GetChange", "GetAffected"}
  /\ DOMAIN RestRequirements = {"GetMergeRequirements"}
  /\ DOMAIN RestListing = {"ListChanges"}
  /\ DOMAIN RestSteps = {"Abandon", "Sync", "Rerun"}
  /\ DOMAIN RestApprove = {"Approve"}
  /\ DOMAIN RestLand = {"Land"}
  /\ DOMAIN RestReview = {"ListComments", "Comment", "Resolve", "RequestReview"}
  /\ DOMAIN RestProjects = {"ListProjects", "AffectedByPaths"}
  /\ DOMAIN RestSearch = {"SearchCode"}
  /\ DOMAIN RestReleases = {"CreateRelease", "ListReleases"}
  /\ DOMAIN RestWorkspaces = {"CreateWorkspace", "ListWorkspaces", "GetWorkspace",
     "UpdateWorkspaceBase"}
  /\ DOMAIN RestDeletes = {"DeleteWorkspace"}
  /\ DOMAIN RestDeleteProject = {"DeleteProject"}
  /\ DOMAIN RestAutomerge = {"SetAutomerge"}
  /\ DOMAIN RestLandStack = {"LandStack"}
  BY DEF RestReads, RestRequirements, RestListing, RestSteps, RestApprove, RestLand,
     RestReview, RestProjects, RestSearch, RestReleases, RestWorkspaces, RestDeletes,
     RestDeleteProject, RestAutomerge, RestLandStack

LEMMA RpcDomains ==
  /\ DOMAIN RpcReads = {"GetChange", "ListChanges", "GetChangeStack", "GetChangeDiff",
     "GetAffected", "AffectedByPaths", "GetMergeRequirements"}
  /\ DOMAIN RpcSteps = {"Approve", "Land", "LandStack", "Sync", "Abandon", "SetAutomerge"}
  /\ DOMAIN RpcReview = {"ListComments", "Comment", "Resolve", "RequestReview", "Rerun"}
  /\ DOMAIN RpcProjectReads = {"ListProjects", "GetProject", "WhoOwns"}
  /\ DOMAIN RpcProjects = {"PreviewCreate", "ListReleases", "CreateRelease",
     "CreateProject", "DeleteProject"}
  /\ DOMAIN RpcWorkspaces = {"CreateWorkspace", "ListWorkspaces", "GetWorkspace",
     "UpdateWorkspaceBase", "DeleteWorkspace"}
  /\ DOMAIN RpcSearch = {"SearchCode", "GetTree"}
  /\ DOMAIN RpcFiles = {"GetBlob", "BlameFile"}
  BY DEF RpcReads, RpcSteps, RpcReview, RpcProjectReads, RpcProjects, RpcWorkspaces,
     RpcSearch, RpcFiles

\* No operation is in two tables.
LEMMA RestValues ==
  ASSUME NEW t \in RestTables, NEW op \in DOMAIN t
  PROVE  op \in DOMAIN RestHandlers /\ RestHandlers[op] = t[op]
  <1>1. \A u \in RestTables : op \in DOMAIN u => u = t
    BY RestDomains, SMTT(60) DEF RestTables
  <1> QED
    BY <1>1, OfTable DEF RestHandlers

LEMMA RpcValues ==
  ASSUME NEW t \in RpcTables, NEW op \in DOMAIN t
  PROVE  op \in DOMAIN RpcHandlers /\ RpcHandlers[op] = t[op]
  <1>1. \A u \in RpcTables : op \in DOMAIN u => u = t
    BY RpcDomains, SMTT(60) DEF RpcTables
  <1> QED
    BY <1>1, OfTable DEF RpcHandlers

\* What an operation asks of its caller, behind whichever door.
Asked(op) ==
    IF op \in {"GetChange", "GetChangeStack", "GetChangeDiff", "GetAffected", "ListComments"} THEN Told
    ELSE IF op = "GetMergeRequirements" THEN Guard(TRUE, {"lane"})
    ELSE IF op \in {"Approve", "Sync", "Comment", "Resolve", "RequestReview"} THEN Guard(TRUE, Signed)
    ELSE IF op \in {"Land", "LandStack", "Rerun"} THEN Guard(TRUE, Both)
    ELSE IF op \in {"Abandon", "SetAutomerge", "CreateProject", "DeleteProject", "DeleteWorkspace"}
      THEN Guard(FALSE, Signed)
    ELSE IF op = "CreateRelease" THEN Guard(FALSE, Both)
    ELSE Blind

LEMMA RestEntries ==
  /\ RestReads["GetChange"] = Told
  /\ RestReads["GetAffected"] = Told
  /\ RestRequirements["GetMergeRequirements"] = Guard(TRUE, {"lane"})
  /\ RestListing["ListChanges"] = Blind
  /\ RestSteps["Abandon"] = Guard(FALSE, Signed)
  /\ RestSteps["Sync"] = Guard(TRUE, Signed)
  /\ RestSteps["Rerun"] = Guard(TRUE, Both)
  /\ RestApprove["Approve"] = Guard(TRUE, Signed)
  /\ RestLand["Land"] = Guard(TRUE, Both)
  /\ RestReview["ListComments"] = Told
  /\ RestReview["Comment"] = Guard(TRUE, Signed)
  /\ RestReview["Resolve"] = Guard(TRUE, Signed)
  /\ RestReview["RequestReview"] = Guard(TRUE, Signed)
  /\ RestProjects["ListProjects"] = Blind
  /\ RestProjects["AffectedByPaths"] = Blind
  /\ RestSearch["SearchCode"] = Blind
  /\ RestReleases["CreateRelease"] = Guard(FALSE, Both)
  /\ RestReleases["ListReleases"] = Blind
  /\ RestWorkspaces["CreateWorkspace"] = Blind
  /\ RestWorkspaces["ListWorkspaces"] = Blind
  /\ RestWorkspaces["GetWorkspace"] = Blind
  /\ RestWorkspaces["UpdateWorkspaceBase"] = Blind
  /\ RestDeletes["DeleteWorkspace"] = Guard(FALSE, Signed)
  /\ RestDeleteProject["DeleteProject"] = Guard(FALSE, Signed)
  /\ RestAutomerge["SetAutomerge"] = Guard(FALSE, Signed)
  /\ RestLandStack["LandStack"] = Guard(TRUE, Both)
  BY DEF RestReads, RestRequirements, RestListing, RestSteps, RestApprove, RestLand,
         RestReview, RestProjects, RestSearch, RestReleases, RestWorkspaces, RestDeletes,
         RestDeleteProject, RestAutomerge, RestLandStack

LEMMA RestAsked ==
  ASSUME NEW t \in RestTables, NEW op \in DOMAIN t
  PROVE  t[op] = Asked(op)
  <1>1. \A o \in DOMAIN RestReads : RestReads[o] = Asked(o)
    BY RestDomains, RestEntries DEF Asked
  <1>2. \A o \in DOMAIN RestRequirements : RestRequirements[o] = Asked(o)
    BY RestDomains, RestEntries DEF Asked
  <1>3. \A o \in DOMAIN RestListing : RestListing[o] = Asked(o)
    BY RestDomains, RestEntries DEF Asked
  <1>4. \A o \in DOMAIN RestSteps : RestSteps[o] = Asked(o)
    BY RestDomains, RestEntries DEF Asked
  <1>5. \A o \in DOMAIN RestApprove : RestApprove[o] = Asked(o)
    BY RestDomains, RestEntries DEF Asked
  <1>6. \A o \in DOMAIN RestLand : RestLand[o] = Asked(o)
    BY RestDomains, RestEntries DEF Asked
  <1>7. \A o \in DOMAIN RestReview : RestReview[o] = Asked(o)
    BY RestDomains, RestEntries DEF Asked
  <1>8. \A o \in DOMAIN RestProjects : RestProjects[o] = Asked(o)
    BY RestDomains, RestEntries DEF Asked
  <1>9. \A o \in DOMAIN RestSearch : RestSearch[o] = Asked(o)
    BY RestDomains, RestEntries DEF Asked
  <1>10. \A o \in DOMAIN RestReleases : RestReleases[o] = Asked(o)
    BY RestDomains, RestEntries DEF Asked
  <1>11. \A o \in DOMAIN RestWorkspaces : RestWorkspaces[o] = Asked(o)
    BY RestDomains, RestEntries DEF Asked
  <1>12. \A o \in DOMAIN RestDeletes : RestDeletes[o] = Asked(o)
    BY RestDomains, RestEntries DEF Asked
  <1>13. \A o \in DOMAIN RestDeleteProject : RestDeleteProject[o] = Asked(o)
    BY RestDomains, RestEntries DEF Asked
  <1>14. \A o \in DOMAIN RestAutomerge : RestAutomerge[o] = Asked(o)
    BY RestDomains, RestEntries DEF Asked
  <1>15. \A o \in DOMAIN RestLandStack : RestLandStack[o] = Asked(o)
    BY RestDomains, RestEntries DEF Asked
  <1> QED
    BY <1>1, <1>2, <1>3, <1>4, <1>5, <1>6, <1>7, <1>8, <1>9, <1>10, <1>11, <1>12, <1>13,
       <1>14, <1>15 DEF RestTables

LEMMA RpcEntries ==
  /\ RpcReads["GetChange"] = Told
  /\ RpcReads["ListChanges"] = Blind
  /\ RpcReads["GetChangeStack"] = Told
  /\ RpcReads["GetChangeDiff"] = Told
  /\ RpcReads["GetAffected"] = Told
  /\ RpcReads["AffectedByPaths"] = Blind
  /\ RpcReads["GetMergeRequirements"] = Guard(TRUE, {"lane"})
  /\ RpcSteps["Approve"] = Guard(TRUE, Signed)
  /\ RpcSteps["Land"] = Guard(TRUE, Both)
  /\ RpcSteps["LandStack"] = Guard(TRUE, Both)
  /\ RpcSteps["Sync"] = Guard(TRUE, Signed)
  /\ RpcSteps["Abandon"] = Guard(FALSE, Signed)
  /\ RpcSteps["SetAutomerge"] = Guard(FALSE, Signed)
  /\ RpcReview["ListComments"] = Told
  /\ RpcReview["Comment"] = Guard(TRUE, Signed)
  /\ RpcReview["Resolve"] = Guard(TRUE, Signed)
  /\ RpcReview["RequestReview"] = Guard(TRUE, Signed)
  /\ RpcReview["Rerun"] = Guard(TRUE, Both)
  /\ RpcProjectReads["ListProjects"] = Blind
  /\ RpcProjectReads["GetProject"] = Blind
  /\ RpcProjectReads["WhoOwns"] = Blind
  /\ RpcProjects["PreviewCreate"] = Blind
  /\ RpcProjects["ListReleases"] = Blind
  /\ RpcProjects["CreateRelease"] = Guard(FALSE, Both)
  /\ RpcProjects["CreateProject"] = Guard(FALSE, Signed)
  /\ RpcProjects["DeleteProject"] = Guard(FALSE, Signed)
  /\ RpcWorkspaces["CreateWorkspace"] = Blind
  /\ RpcWorkspaces["ListWorkspaces"] = Blind
  /\ RpcWorkspaces["GetWorkspace"] = Blind
  /\ RpcWorkspaces["UpdateWorkspaceBase"] = Blind
  /\ RpcWorkspaces["DeleteWorkspace"] = Guard(FALSE, Signed)
  /\ RpcSearch["SearchCode"] = Blind
  /\ RpcSearch["GetTree"] = Blind
  /\ RpcFiles["GetBlob"] = Blind
  /\ RpcFiles["BlameFile"] = Blind
  BY DEF RpcReads, RpcSteps, RpcReview, RpcProjectReads, RpcProjects, RpcWorkspaces,
         RpcSearch, RpcFiles

LEMMA RpcAsked ==
  ASSUME NEW t \in RpcTables, NEW op \in DOMAIN t
  PROVE  t[op] = Asked(op)
  <1>1. \A o \in DOMAIN RpcReads : RpcReads[o] = Asked(o)
    BY RpcDomains, RpcEntries DEF Asked
  <1>2. \A o \in DOMAIN RpcSteps : RpcSteps[o] = Asked(o)
    BY RpcDomains, RpcEntries DEF Asked
  <1>3. \A o \in DOMAIN RpcReview : RpcReview[o] = Asked(o)
    BY RpcDomains, RpcEntries DEF Asked
  <1>4. \A o \in DOMAIN RpcProjectReads : RpcProjectReads[o] = Asked(o)
    BY RpcDomains, RpcEntries DEF Asked
  <1>5. \A o \in DOMAIN RpcProjects : RpcProjects[o] = Asked(o)
    BY RpcDomains, RpcEntries DEF Asked
  <1>6. \A o \in DOMAIN RpcWorkspaces : RpcWorkspaces[o] = Asked(o)
    BY RpcDomains, RpcEntries DEF Asked
  <1>7. \A o \in DOMAIN RpcSearch : RpcSearch[o] = Asked(o)
    BY RpcDomains, RpcEntries DEF Asked
  <1>8. \A o \in DOMAIN RpcFiles : RpcFiles[o] = Asked(o)
    BY RpcDomains, RpcEntries DEF Asked
  <1> QED
    BY <1>1, <1>2, <1>3, <1>4, <1>5, <1>6, <1>7, <1>8 DEF RpcTables

\* An operation behind both doors asks the same of its caller at both.
LEMMA SameGuard ==
  ASSUME NEW op \in DOMAIN RestHandlers \cap DOMAIN RpcHandlers
  PROVE  RestHandlers[op] = RpcHandlers[op]
  <1>1. PICK t \in RestTables : op \in DOMAIN t
    BY DEF RestHandlers, Routed
  <1>2. PICK u \in RpcTables : op \in DOMAIN u
    BY DEF RpcHandlers, Routed
  <1> QED
    BY <1>1, <1>2, RestValues, RpcValues, RestAsked, RpcAsked

LEMMA SameReaders ==
  ASSUME NEW op \in DOMAIN RestHandlers \cap DOMAIN RpcHandlers, op # "ListComments"
  PROVE  op \in PublicRoutes <=> op \in PublicReadProcedures
  <1>1. PICK t \in RestTables : op \in DOMAIN t
    BY DEF RestHandlers, Routed
  <1>2. PICK u \in RpcTables : op \in DOMAIN u
    BY DEF RpcHandlers, Routed
  <1> QED
    BY <1>1, <1>2, RestDomains, RpcDomains, SMTT(60) DEF RestTables, RpcTables,
       PublicRoutes, PublicReadProcedures

----------------------------------------------------------------------------
\* A caller who is known is not refused as another org's.
LEMMA OneVerdict ==
  ASSUME NEW cred, NEW w
  PROVE  /\ ~(CallerForAuthHeader(cred, TRUE, w).denied /\ CallerForAuthHeader(cred, TRUE, w).ok)
         /\ cred.scheme = "none" => CallerForAuthHeader(cred, TRUE, w) = Stranger
  BY DEF CallerForAuthHeader, CallerForBearer, CallerForBasic, CrossOrgAccount, AgentByToken,
         AgentByBasic, Stranger, As, Lane, OrgDenied

LEMMA SameGate ==
  ASSUME NEW cred, NEW w, NEW op \in DOMAIN RestHandlers \cap DOMAIN RpcHandlers,
         op # "ListComments" \/ cred.scheme # "none"
  PROVE  (IF op \in PublicRoutes THEN RequireReadAuth(cred, w) ELSE RequireAuth(cred, w))
           = RpcMiddleware(op, cred, w)
  <1> DEFINE c == CallerForAuthHeader(cred, TRUE, w)
  <1>1. ~(c.denied /\ c.ok) /\ (cred.scheme = "none" => ~c.denied /\ ~c.ok)
    <2>1. ~Stranger.denied /\ ~Stranger.ok
      BY DEF Stranger
    <2> QED
      BY <2>1, OneVerdict
  <1>2. cred.scheme = "none" => (op \in PublicRoutes <=> op \in PublicReadProcedures)
    BY SameReaders
  <1> HIDE DEF c
  <1>3. RequireAuth(cred, w) = IF c.denied THEN "denied" ELSE IF ~c.ok THEN "unauthenticated" ELSE "go"
    BY DEF RequireAuth, c
  <1>4. CASE c.denied
    BY <1>1, <1>3, <1>4 DEF RequireReadAuth, RpcMiddleware, c
  <1>5. CASE c.ok
    BY <1>1, <1>3, <1>5 DEF RequireReadAuth, RpcMiddleware, c
  <1>6. CASE ~c.denied /\ ~c.ok
    BY <1>2, <1>3, <1>6 DEF RequireReadAuth, RpcMiddleware, c
  <1> QED
    BY <1>4, <1>5, <1>6

\* What clients can tell is the same in the words of either door.
LEMMA SameMeaning ==
  ASSUME NEW a
  PROVE  Meaning(Status(a)) = Meaning(ConnectErr(a))
  BY DEF Meaning, Status, ConnectErr

LEMMA TwinsAgree ==
  ASSUME NEW r, NEW w, {"door", "op", "cred"} \subseteq DOMAIN r, r = [x \in DOMAIN r |-> r[x]], r.door \in {"rest", "rpc", "git"},
         HasTwin(r), ~OneDoorOnly(r)
  PROVE  Meaning(AtOnce(r, w)) = Meaning(AtOnce(TwinDoor(r), w))
  <1> DEFINE Rest == [r EXCEPT !.door = "rest"]
             Rpc == [r EXCEPT !.door = "rpc"]
             A(q) == LET c == PrincipalFor(q, Admitted(q, w).who, w)
                     IN  IF Admit(q, w) # "go" THEN Admit(q, w)
                         ELSE IF Look(q, w) # "go" THEN Look(q, w)
                         ELSE Core(q.op, c, w.row, w)
  <1>1. /\ r.op \in DOMAIN RestHandlers \cap DOMAIN RpcHandlers /\ r.door # "git"
        /\ r.op # "ListComments" \/ r.cred.scheme # "none"
    BY DEF HasTwin, OneDoorOnly
  <1>2. PICK q1 : q1 = Rest
    OBVIOUS
  <1>3. PICK q2 : q2 = Rpc
    OBVIOUS
  <1>4. /\ q1.door = "rest" /\ q1.op = r.op /\ q1.cred = r.cred
        /\ q2.door = "rpc" /\ q2.op = r.op /\ q2.cred = r.cred
    BY <1>2, <1>3
  <1>5. \/ r = q1 /\ TwinDoor(r) = q2
        \/ r = q2 /\ TwinDoor(r) = q1
    <2>1. CASE r.door = "rest"
      <3>1. r = q1
        BY <1>2, <2>1
      <3> QED
        BY <1>3, <2>1, <3>1 DEF TwinDoor
    <2>2. CASE r.door = "rpc"
      <3>1. r = q2
        BY <1>3, <2>2
      <3> QED
        BY <1>2, <2>2, <3>1 DEF TwinDoor
    <2> QED
      BY <1>1, <2>1, <2>2
  <1>6. Admit(q1, w) = Admit(q2, w)
    <2>1. Gate(q1, w) = IF r.op \in PublicRoutes THEN RequireReadAuth(r.cred, w)
                        ELSE RequireAuth(r.cred, w)
      BY <1>4 DEF Gate
    <2>2. Gate(q2, w) = RpcMiddleware(r.op, r.cred, w)
      BY <1>4 DEF Gate
    <2> QED
      BY <1>1, <2>1, <2>2, SameGate DEF Admit
  <1>7. HandlerOf(q1.door, q1.op) = HandlerOf(q2.door, q2.op)
    BY <1>1, <1>4, SameGuard DEF HandlerOf
  <1>8. Look(q1, w) = Look(q2, w)
    BY <1>7 DEF Look
  <1>9. PrincipalFor(q1, Admitted(q1, w).who, w) = PrincipalFor(q2, Admitted(q2, w).who, w)
    BY <1>4, <1>7 DEF PrincipalFor
  <1>10. A(q1) = A(q2)
    BY <1>4, <1>6, <1>8, <1>9
  <1>11. AtOnce(q1, w) = Status(A(q1)) /\ AtOnce(q2, w) = ConnectErr(A(q2))
    BY <1>4 DEF AtOnce, AnswerAt
  <1> HIDE DEF A
  <1> QED
    BY <1>5, <1>10, <1>11, SameMeaning

\* Who was let in is found again, or nobody is ...
LEMMA NameOrNobody ==
  ASSUME NEW r, NEW v, NEW w, r.door \in {"rest", "rpc", "git"}, Admit(r, v) = "go"
  PROVE  PrincipalFor(r, Admitted(r, v).who, w).who \in {Admitted(r, v).who, Nobody}
  <1>1. CASE r.door = "git"
    BY <1>1 DEF PrincipalFor, PrincipalByName, As, Stranger
  <1>2. CASE r.door # "git"
    <2>1. LET c == CallerForAuthHeader(r.cred, TRUE, v) IN r.cred.scheme = "none" \/ c.ok
      BY <1>2 DEF Admit, Gate, RequireReadAuth, RequireAuth, RpcMiddleware, RouteOrg
    <2>2. CallerForAuthHeader(r.cred, TRUE, w).who
            \in {CallerForAuthHeader(r.cred, TRUE, v).who, Nobody}
      BY <2>1 DEF CallerForAuthHeader, CallerForBearer, CallerForBasic, CrossOrgAccount,
                  AgentByToken, AgentByBasic, Stranger, As, Lane, OrgDenied
    <2> QED
      BY <1>2, <2>2 DEF PrincipalFor, Admitted, As, Stranger
  <1> QED
    BY <1>1, <1>2

\* ... and found again as long as nothing changes.
LEMMA NameAgain ==
  ASSUME NEW r, NEW w, r.door \in {"rest", "rpc", "git"}, Admit(r, w) = "go",
         "principal" \in HandlerOf(r.door, r.op).asks
  PROVE  PrincipalFor(r, Admitted(r, w).who, w).who = Admitted(r, w).who
  <1>1. CASE r.door = "git"
    <2>1. GitCaller(r.cred, w).ok
      BY <1>1 DEF Admit, Gate, RequireGitAuth, RouteOrg
    <2>2. PrincipalByName(GitCaller(r.cred, w).who, w).who = GitCaller(r.cred, w).who
      BY <2>1 DEF GitCaller, PrincipalByName, CallerForBasic, CrossOrgAccount, AgentByBasic,
                  Stranger, As, Lane, OrgDenied, Nobody
    <2> QED
      BY <1>1, <2>2 DEF PrincipalFor, Admitted
  <1>2. CASE r.door # "git"
    BY <1>2 DEF PrincipalFor, Admitted
  <1> QED
    BY <1>1, <1>2


----------------------------------------------------------------------------
Asking ==
    /\ turns \in Nat
    /\ DOMAIN ask = {"door", "op", "cred", "at", "row", "name", "who", "answer", "act"}
    /\ ask = [x \in DOMAIN ask |-> ask[x]]
    /\ ask.door \in {"rest", "rpc", "git"} /\ ask.at \in {"route", "look", "core", "done"}

\* Nothing changed: the request is where a request that runs in one go is.
InOneGo ==
    turns = 0 =>
        /\ ask.at \in {"look", "core"} =>
               Admit(ask, world) = "go" /\ ask.who = Admitted(ask, world).who
        /\ ask.at = "core" => Look(ask, world) = "go" /\ ask.row = world.row
        /\ ask.at = "done" => ask.answer = AtOnce(ask, world)

\* Whatever changed, the caller is named as they were let in, or as nobody.
NamedAlike ==
    /\ ask.at \in {"look", "core"} =>
           /\ ask.name = ask.who /\ ask.act = "none"
           /\ \A w : PrincipalFor(ask, ask.name, w).who \in {ask.who, Nobody}
    /\ ask.at = "route" => ask.act = "none"
    /\ ActsAsAdmitted

\* What the doors ask about a request is in its door, operation and credential.
LEMMA AskedOf ==
  ASSUME NEW r, NEW q, q.door = r.door, q.op = r.op, q.cred = r.cred
  PROVE  /\ \A w : Admit(q, w) = Admit(r, w) /\ Admitted(q, w) = Admitted(r, w)
         /\ \A w : Look(q, w) = Look(r, w) /\ AtOnce(q, w) = AtOnce(r, w)
         /\ \A n, w : PrincipalFor(q, n, w) = PrincipalFor(r, n, w)
  <1>1. \A w : Admit(q, w) = Admit(r, w) /\ Admitted(q, w) = Admitted(r, w) /\ Look(q, w) = Look(r, w)
    BY DEF Admit, Gate, Admitted, Look
  <1>2. \A n, w : PrincipalFor(q, n, w) = PrincipalFor(r, n, w)
    BY DEF PrincipalFor
  <1>3. \A w : AtOnce(q, w) = AtOnce(r, w)
    BY <1>1, <1>2 DEF AtOnce
  <1> QED
    BY <1>1, <1>2, <1>3

LEMMA InitDoors == DoorInit => Asking /\ InOneGo /\ NamedAlike
  <1> SUFFICES ASSUME DoorInit PROVE Asking /\ InOneGo /\ NamedAlike
    OBVIOUS
  <1>1. PICK r \in Asks : ask = Arriving(r)
    BY DEF DoorInit, Arrivals
  <1>2. /\ DOMAIN ask = {"door", "op", "cred", "at", "row", "name", "who", "answer", "act"}
        /\ ask.door = r.door /\ ask.at = "route" /\ ask.act = "none"
        /\ ask = [x \in DOMAIN ask |-> ask[x]]
    BY <1>1 DEF Arriving
  <1> QED
    BY <1>2, DoorAssumption DEF DoorInit, Asking, InOneGo, NamedAlike, ActsAsAdmitted

LEMMA EnterKept ==
  ASSUME Asking, InOneGo, NamedAlike, Enter
  PROVE  Asking' /\ InOneGo' /\ NamedAlike'
  <1>1. ask.at = "route" /\ UNCHANGED <<world, turns>> /\ ask.act = "none"
    BY DEF Enter, NamedAlike
  <1>2. CASE Admit(ask, world) = "go"
    <2>1. ask' = [ask EXCEPT !.at = "look", !.name = Admitted(ask, world).who,
                             !.who = Admitted(ask, world).who]
      BY <1>2 DEF Enter, Passes
    <2>2. /\ ask'.door = ask.door /\ ask'.op = ask.op /\ ask'.cred = ask.cred
          /\ ask'.at = "look" /\ ask'.name = ask'.who /\ ask'.who = Admitted(ask, world).who
          /\ ask'.act = "none" /\ DOMAIN ask' = DOMAIN ask /\ ask' = [x \in DOMAIN ask' |-> ask'[x]]
      BY <1>1, <2>1 DEF Asking
    <2>3. /\ \A w : Admit(ask', w) = Admit(ask, w) /\ Admitted(ask', w) = Admitted(ask, w)
          /\ \A n, w : PrincipalFor(ask', n, w) = PrincipalFor(ask, n, w)
      BY <2>2, AskedOf
    <2>4. \A w : PrincipalFor(ask', ask'.name, w).who \in {ask'.who, Nobody}
      BY <1>2, <2>2, <2>3, NameOrNobody DEF Asking
    <2>5. Asking'
      BY <1>1, <2>2 DEF Asking
    <2>6. InOneGo'
      BY <1>1, <1>2, <2>2, <2>3 DEF InOneGo
    <2>7. NamedAlike'
      BY <2>2, <2>4 DEF NamedAlike, ActsAsAdmitted
    <2> QED
      BY <2>5, <2>6, <2>7
  <1>3. CASE Admit(ask, world) # "go"
    <2>1. ask' = [ask EXCEPT !.at = "done", !.answer = AnswerAt(ask.door, Admit(ask, world))]
      BY <1>3 DEF Enter, Passes, Ends
    <2>2. /\ ask'.door = ask.door /\ ask'.op = ask.op /\ ask'.cred = ask.cred
          /\ ask'.at = "done" /\ ask'.answer = AnswerAt(ask.door, Admit(ask, world))
          /\ ask'.act = "none" /\ DOMAIN ask' = DOMAIN ask /\ ask' = [x \in DOMAIN ask' |-> ask'[x]]
      BY <1>1, <2>1 DEF Asking
    <2>3. AtOnce(ask', world) = AnswerAt(ask.door, Admit(ask, world))
      BY <1>3, <2>2, AskedOf DEF AtOnce
    <2>4. InOneGo'
      BY <1>1, <2>2, <2>3 DEF InOneGo
    <2> QED
      BY <1>1, <2>2, <2>4 DEF Asking, NamedAlike, ActsAsAdmitted
  <1> QED
    BY <1>2, <1>3

LEMMA LookUpKept ==
  ASSUME Asking, InOneGo, NamedAlike, LookUp
  PROVE  Asking' /\ InOneGo' /\ NamedAlike'
  <1>1. /\ ask.at = "look" /\ UNCHANGED <<world, turns>> /\ ask.act = "none" /\ ask.name = ask.who
        /\ \A w : PrincipalFor(ask, ask.name, w).who \in {ask.who, Nobody}
    BY DEF LookUp, NamedAlike
  <1>2. CASE Look(ask, world) = "go"
    <2>1. ask' = [ask EXCEPT !.at = "core", !.row = world.row]
      BY <1>2 DEF LookUp, Passes
    <2>2. /\ ask'.door = ask.door /\ ask'.op = ask.op /\ ask'.cred = ask.cred
          /\ ask'.at = "core" /\ ask'.row = world.row /\ ask'.name = ask.name /\ ask'.who = ask.who
          /\ ask'.act = "none" /\ DOMAIN ask' = DOMAIN ask /\ ask' = [x \in DOMAIN ask' |-> ask'[x]]
      BY <1>1, <2>1 DEF Asking
    <2>3. /\ \A w : Admit(ask', w) = Admit(ask, w) /\ Admitted(ask', w) = Admitted(ask, w)
          /\ \A w : Look(ask', w) = Look(ask, w)
          /\ \A n, w : PrincipalFor(ask', n, w) = PrincipalFor(ask, n, w)
      BY <2>2, AskedOf
    <2>4. Asking'
      BY <1>1, <2>2 DEF Asking
    <2>5. InOneGo'
      BY <1>1, <1>2, <2>2, <2>3 DEF InOneGo
    <2>6. NamedAlike'
      BY <1>1, <2>2, <2>3 DEF NamedAlike, ActsAsAdmitted
    <2> QED
      BY <2>4, <2>5, <2>6
  <1>3. CASE Look(ask, world) # "go"
    <2>1. ask' = [ask EXCEPT !.at = "done", !.answer = AnswerAt(ask.door, Look(ask, world))]
      BY <1>3 DEF LookUp, Passes, Ends
    <2>2. /\ ask'.door = ask.door /\ ask'.op = ask.op /\ ask'.cred = ask.cred
          /\ ask'.at = "done" /\ ask'.answer = AnswerAt(ask.door, Look(ask, world))
          /\ ask'.act = "none" /\ DOMAIN ask' = DOMAIN ask /\ ask' = [x \in DOMAIN ask' |-> ask'[x]]
      BY <1>1, <2>1 DEF Asking
    <2>3. turns = 0 => AtOnce(ask', world) = AnswerAt(ask.door, Look(ask, world))
      <3>1. turns = 0 => Admit(ask, world) = "go"
        BY <1>1 DEF InOneGo
      <3>2. turns = 0 => AtOnce(ask, world) = AnswerAt(ask.door, Look(ask, world))
        BY <1>3, <3>1 DEF AtOnce
      <3> QED
        BY <2>2, <3>2, AskedOf
    <2>4. InOneGo'
      BY <1>1, <2>2, <2>3 DEF InOneGo
    <2> QED
      BY <1>1, <2>2, <2>4 DEF Asking, NamedAlike, ActsAsAdmitted
  <1> QED
    BY <1>2, <1>3

LEMMA DecideKept ==
  ASSUME Asking, InOneGo, NamedAlike, Decide
  PROVE  Asking' /\ InOneGo' /\ NamedAlike'
  <1>1. /\ ask.at = "core" /\ UNCHANGED <<world, turns>> /\ ask.name = ask.who
        /\ \A w : PrincipalFor(ask, ask.name, w).who \in {ask.who, Nobody}
    BY DEF Decide, NamedAlike
  <1>2. PICK c : c = PrincipalFor(ask, ask.name, world)
    OBVIOUS
  <1>3. PICK a : a = Core(ask.op, c, ask.row, world)
    OBVIOUS
  <1>4. ask' = [ask EXCEPT !.at = "done", !.answer = AnswerAt(ask.door, a),
                           !.act = IF a \in {"ok", "landed"} THEN c.who ELSE "none"]
    BY <1>2, <1>3 DEF Decide
  <1>5. /\ ask'.door = ask.door /\ ask'.op = ask.op /\ ask'.cred = ask.cred /\ ask'.who = ask.who
        /\ ask'.at = "done" /\ ask'.answer = AnswerAt(ask.door, a) /\ ask'.act \in {c.who, "none"}
        /\ DOMAIN ask' = DOMAIN ask /\ ask' = [x \in DOMAIN ask' |-> ask'[x]]
    BY <1>4 DEF Asking
  <1>6. turns = 0 => AtOnce(ask', world) = AnswerAt(ask.door, a)
    <2>1. turns = 0 => /\ Admit(ask, world) = "go" /\ ask.who = Admitted(ask, world).who
                       /\ Look(ask, world) = "go" /\ ask.row = world.row
      BY <1>1 DEF InOneGo
    <2>2. turns = 0 => AtOnce(ask, world) = AnswerAt(ask.door, a)
      BY <1>1, <1>2, <1>3, <2>1 DEF AtOnce
    <2> QED
      BY <1>5, <2>2, AskedOf
  <1>7. InOneGo'
    BY <1>1, <1>5, <1>6 DEF InOneGo
  <1>8. "principal" \in HandlerOf(ask.door, ask.op).asks => c.who = ask.who \/ (turns > 0 /\ c.who = Nobody)
    <2>1. turns = 0 => Admit(ask, world) = "go" /\ ask.who = Admitted(ask, world).who
      BY <1>1 DEF InOneGo
    <2>2. turns = 0 /\ "principal" \in HandlerOf(ask.door, ask.op).asks => c.who = ask.who
      BY <1>1, <1>2, <2>1, NameAgain DEF Asking
    <2>3. c.who \in {ask.who, Nobody}
      BY <1>1, <1>2
    <2> QED
      BY <2>2, <2>3 DEF Asking
  <1>9. ActsAsAdmitted'
    BY <1>1, <1>5, <1>8 DEF ActsAsAdmitted
  <1> QED
    BY <1>1, <1>5, <1>7, <1>9 DEF Asking, NamedAlike

\* What changes while a request runs leaves what is known of the request.
LEMMA TurnKept ==
  ASSUME Asking, InOneGo, NamedAlike, NEW w, Turn(w)
  PROVE  Asking' /\ InOneGo' /\ NamedAlike'
  <1>1. ask' = ask /\ turns' = turns + 1 /\ ask.at # "done"
    BY DEF Turn
  <1>2. turns' \in Nat /\ turns' > 0
    BY <1>1 DEF Asking
  <1>3. NamedAlike'
    BY <1>1, <1>2 DEF NamedAlike, ActsAsAdmitted
  <1> QED
    BY <1>1, <1>2, <1>3 DEF Asking, InOneGo

LEMMA NextDoors ==
  ASSUME Asking, InOneGo, NamedAlike, [DoorNext]_doorVars
  PROVE  Asking' /\ InOneGo' /\ NamedAlike'
  <1>1. CASE RevokeAgent \/ RemoveMember \/ ClosePublicRead \/ ArchiveOrg \/ Directory \/ ChangeEnds
    BY <1>1, TurnKept DEF RevokeAgent, RemoveMember, ClosePublicRead, ArchiveOrg, Directory, ChangeEnds
  <1>2. CASE UNCHANGED doorVars
    BY <1>2 DEF doorVars, Asking, InOneGo, NamedAlike, ActsAsAdmitted
  <1> QED
    BY <1>1, <1>2, EnterKept, LookUpKept, DecideKept DEF DoorNext

----------------------------------------------------------------------------
\* An operation means the same behind REST and Connect to the same caller while
\* nothing changes, and whatever changes, an act is recorded under the name it was let
\* in under or nobody's, for any requests and settings (rpc.go, api.go, auth.go).
THEOREM DoorsAreSound == DoorSpec => []DoorsSound
  <1>1. Asking /\ InOneGo /\ NamedAlike => DoorsSound
    <2> SUFFICES ASSUME Asking, InOneGo, NamedAlike PROVE DoorsAgree
      BY DEF NamedAlike, DoorsSound
    <2> SUFFICES ASSUME ask.at = "done", turns = 0, HasTwin(ask), ~OneDoorOnly(ask)
                 PROVE  Meaning(ask.answer) = Meaning(AtOnce(TwinDoor(ask), world))
      BY DEF DoorsAgree
    <2>1. ask.answer = AtOnce(ask, world)
      BY DEF InOneGo
    <2> QED
      BY <2>1, TwinsAgree DEF Asking
  <1> QED
    BY InitDoors, NextDoors, <1>1, PTL DEF DoorSpec
=============================================================================
