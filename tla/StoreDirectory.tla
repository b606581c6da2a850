--------------------------- MODULE StoreDirectory ---------------------------
(***************************************************************************)
(* The Store's calls about an org (its members, accounts, settings and     *)
(* agent policy), about the ephemeral agent principals and about the       *)
(* cursor of a mirrored ref, in MemStore and in PostgresStore.  Most are   *)
(* one statement; what could differ is what they do to rows that are there *)
(* already, or are not there.                                              *)
(***************************************************************************)
EXTENDS StoreCalls
----------------------------------------------------------------------------
(* One org and one principal of it.                                        *)

Org0 == [known |-> FALSE, role |-> "", account |-> "", settings |-> "",
         policy |-> "", archived |-> FALSE]

MemCreatePrincipal(m, c) ==
    IF m.account = "" THEN Gives([m EXCEPT !.account = c.hash], Ok)
    ELSE Gives(m, Refused)

\* Members need the org; accounts, settings and policies do not.
MemOrgs(m, c) ==
    CASE c.op = "ensure" -> Gives([m EXCEPT !.known = TRUE], Ok)
      [] c.op = "join" -> IF m.known THEN Gives([m EXCEPT !.role = c.role], Ok)
                          ELSE Gives(m, Refused)
      [] c.op = "leave" -> Gives([m EXCEPT !.role = ""], Ok)
      [] c.op = "account" -> MemCreatePrincipal(m, c)
      [] c.op = "settings" -> Gives([m EXCEPT !.settings = c.value], Ok)
      [] c.op = "policy" -> Gives([m EXCEPT !.policy = c.value], Ok)
      [] c.op = "archive" -> Gives([m EXCEPT !.archived = c.on], Ok)

CreateOrg(p) == IF p.known THEN Fails(p) ELSE Returns([p EXCEPT !.known = TRUE], Ok)

\* EnsureOrg: an insert that lost the race to another is an error.
PgEnsureOrg(p, s) ==
    IF s.at = "write" THEN CreateOrg(p)
    ELSE IF p.known THEN Returns(p, Ok) ELSE Goes(p, "write", 0)

\* INSERT ... SELECT FROM orgs; a taken name violates the unique key.
CreatePrincipal(p, c) ==
    IF p.known /\ p.account = "" THEN Returns([p EXCEPT !.account = c.hash], Ok)
    ELSE Fails(p)

\* Mutant: DO NOTHING on a conflict.
KeepsRole(p, c) == IF p.role = "" THEN [p EXCEPT !.role = c.role] ELSE p

UpsertOrgMember(p, c) == [p EXCEPT !.role = c.role]
DeleteOrgMember(p) == [p EXCEPT !.role = ""]
UpdateOrgSettings(p, c) == [p EXCEPT !.settings = c.value]
UpsertAgentPolicyForOrg(p, c) == [p EXCEPT !.policy = c.value]
DeleteAgentPolicyForOrg(p) == [p EXCEPT !.policy = ""]
SetOrgArchived(p, c) == [p EXCEPT !.archived = c.on]

\* Statements about an org that has no row touch nothing and are no error.
OfOrg(p, after) == IF p.known THEN Returns(after, Ok) ELSE Strays(p, Ok, "absent")

PgOrgs(p, c, s) ==
    CASE c.op = "ensure" -> PgEnsureOrg(p, s)
      [] c.op = "join" -> OfOrg(p, UpsertOrgMember(p, c))
      [] c.op = "leave" -> Returns(DeleteOrgMember(p), Ok)
      [] c.op = "account" -> CreatePrincipal(p, c)
      [] c.op = "settings" -> OfOrg(p, UpdateOrgSettings(p, c))
      [] c.op = "policy" -> OfOrg(p, IF c.value = "" THEN DeleteAgentPolicyForOrg(p)
                                     ELSE UpsertAgentPolicyForOrg(p, c))
      [] c.op = "archive" -> OfOrg(p, SetOrgArchived(p, c))

\* OrgMemberRole, GetStoredPrincipal, GetOrgSettings, GetAgentPolicy,
\* ListOrgRecords and the memberships, which leave out an archived org.
ReadOrg(m) == <<m, IF m.archived THEN "" ELSE m.role>>
----------------------------------------------------------------------------
(* One name for agents, minted for a task at a time.                       *)

NoAgent == [task |-> "", revoked |-> FALSE, old |-> FALSE]
NewAgent(c) == [NoAgent EXCEPT !.task = c.task]
IsAgent(m) == m.task # ""

\* A grace period after the expiry has passed.
Ages(m) == IF IsAgent(m) THEN [m EXCEPT !.old = TRUE] ELSE m

MemAgents(m, c) ==
    CASE c.op = "mint" -> IF IsAgent(m) THEN Gives(m, Refused) ELSE Gives(NewAgent(c), Ok)
      [] c.op = "revoke" -> IF IsAgent(m) THEN Gives([m EXCEPT !.revoked = TRUE], Ok)
                            ELSE Gives(m, Refused)
      [] c.op = "age" -> Gives(Ages(m), Ok)

\* Only this store forgets agents that expired long ago.
DeleteExpiredAgentPrincipals(p) ==
    IF p.old THEN [Goes(NoAgent, "write", 0) EXCEPT !.why = {"swept"}] ELSE Goes(p, "write", 0)

MintAgentPrincipal(p, c) == IF IsAgent(p) THEN Fails(p) ELSE Returns(NewAgent(c), Ok)

RevokeAgentPrincipal(p) ==
    IF IsAgent(p) THEN Returns([p EXCEPT !.revoked = TRUE], Ok) ELSE Strays(p, Ok, "absent")

PgAgents(p, c, s) ==
    CASE c.op = "mint" /\ s.at = "look" -> DeleteExpiredAgentPrincipals(p)
      [] c.op = "mint" /\ s.at = "write" -> MintAgentPrincipal(p, c)
      [] c.op = "revoke" -> RevokeAgentPrincipal(p)
      [] c.op = "age" -> Returns(Ages(p), Ok)
----------------------------------------------------------------------------
(* The cursor of one ref.                                                  *)

NoCursor == [known |-> FALSE, sha |-> 0, frozen |-> FALSE]

\* An upsert thaws; a freeze keeps what was synced last.
MemCursors(m, c) ==
    CASE c.op = "cursor" -> Gives([known |-> TRUE, sha |-> c.sha, frozen |-> FALSE], Ok)
      [] c.op = "freeze" -> Gives([m EXCEPT !.known = TRUE, !.frozen = TRUE], Ok)

UpsertMirrorCursor(p, c) ==
    IF p.known THEN [p EXCEPT !.sha = c.sha, !.frozen = FALSE]
    ELSE [known |-> TRUE, sha |-> c.sha, frozen |-> FALSE]

FreezeMirrorCursor(p) ==
    IF p.known THEN [p EXCEPT !.frozen = TRUE]
    ELSE [NoCursor EXCEPT !.known = TRUE, !.frozen = TRUE]

PgCursors(p, c) ==
    CASE c.op = "cursor" -> Returns(UpsertMirrorCursor(p, c), Ok)
      [] c.op = "freeze" -> Returns(FreezeMirrorCursor(p), Ok)
=============================================================================
