----------------------------- MODULE Membership -----------------------------
(* Members of one workspace (workspace/service.ts).  Each query of a handler is *)
(* a statement of its own; no transaction joins what it reads and writes.       *)
EXTENDS Naturals, FiniteSets

CONSTANTS
    People,   \* users that are or may become members
    Editors,  \* requests that add or update a member, each served once
    Founder   \* who created the workspace

ASSUME FounderAssumption == Founder \in People

VARIABLES
    member,  \* rows of workspace_memberships
    edit,    \* progress of each request
    causes   \* how active owners were lost, for the property

memberVars == <<member, edit, causes>>

Roles == {"owner", "admin", "member"}
NoRole == [role |-> "none", active |-> FALSE]
NoEdit == [pc |-> "idle"]
Replied == [pc |-> "ended"]
Edit == [pc : {"authorized", "read", "checked"}, kind : {"add", "update"},
         caller : Roles, target : People, role : Roles \cup {"kept"},
         active : {"yes", "no", "kept"},
         seen : SUBSET People]  \* the active owners it counted

MembershipTypeOK ==
    /\ member \in [People -> [role : Roles, active : BOOLEAN] \cup {NoRole}]
    /\ edit \in [Editors -> Edit \cup {NoEdit, Replied}]
    /\ causes \subseteq {"overlap", "added_again"}

MembershipInit ==
    /\ member = [p \in People |-> IF p = Founder THEN [role |-> "owner", active |-> TRUE]
                                                 ELSE NoRole]
    /\ edit = [e \in Editors |-> NoEdit]
    /\ causes = {}

------------------------------------------------------------------------------
Owners == {p \in People : member[p].role = "owner" /\ member[p].active}
Administers(p) == member[p].active /\ member[p].role \in {"owner", "admin"}
LosesOwner(e) == edit[e].role \notin {"owner", "kept"} \/ edit[e].active = "no"

(* A field the request does not name stays as it is in the row written to.      *)
Written(e) ==
    LET row == member[edit[e].target] IN
    [role |-> IF edit[e].role = "kept" THEN row.role ELSE edit[e].role,
     active |-> IF edit[e].active = "kept" THEN row.active ELSE edit[e].active = "yes"]

(* requireMembership(..., 'admin'), first in both handlers.                     *)
Authorize(e, kind, actor, target, role, active) ==
    /\ edit[e] = NoEdit
    /\ Administers(actor)
    /\ kind = "add" => active = "yes" /\ role # "kept"
    /\ edit' = [edit EXCEPT ![e] = [pc |-> "authorized", kind |-> kind,
          caller |-> member[actor].role, target |-> target, role |-> role,
          active |-> active, seen |-> {}]]
    /\ UNCHANGED <<member, causes>>

(* addMember: an upsert, whatever the member is by now.                         *)
AddMember(e) ==
    /\ edit[e].pc = "authorized" /\ edit[e].kind = "add"
    /\ causes' = IF edit[e].target \in Owners /\ LosesOwner(e)
                 THEN causes \cup {"added_again"} ELSE causes
    /\ member' = [member EXCEPT ![edit[e].target] = Written(e)]
    /\ edit' = [edit EXCEPT ![e] = Replied]

(* updateMember reads the membership and, when an owner steps back, counts the  *)
(* active owners.                                                               *)
ReadMember(e) ==
    LET t == edit[e].target IN
    /\ edit[e].pc = "authorized" /\ edit[e].kind = "update"
    /\ member[t] # NoRole
    /\ \/ /\ member[t].role = "owner" /\ LosesOwner(e)
          /\ edit' = [edit EXCEPT ![e].pc = "read"]
       \/ /\ ~(member[t].role = "owner" /\ LosesOwner(e))
          /\ edit[e].caller = "owner" \/ member[t].role # "owner"
          /\ edit' = [edit EXCEPT ![e].pc = "checked", ![e].seen = Owners]
    /\ UNCHANGED <<member, causes>>

EnoughOwnersAny == Cardinality(Owners) > 0  \* mutant: the last owner may go
EnoughOwners == Cardinality(Owners) > 1

CountOwners(e) ==
    /\ edit[e].pc = "read"
    /\ EnoughOwners
    /\ edit[e].caller = "owner"
    /\ edit' = [edit EXCEPT ![e].pc = "checked", ![e].seen = Owners]
    /\ UNCHANGED <<member, causes>>

UpdateMember(e) ==
    /\ edit[e].pc = "checked"
    /\ causes' = IF edit[e].seen # Owners THEN causes \cup {"overlap"} ELSE causes
    /\ member' = [member EXCEPT ![edit[e].target] = Written(e)]
    /\ edit' = [edit EXCEPT ![e] = Replied]

MembershipNext ==
    \E e \in Editors :
       \/ \E kind \in {"add", "update"}, actor, target \in People,
             role \in Roles \cup {"kept"}, active \in {"yes", "no", "kept"} :
             Authorize(e, kind, actor, target, role, active)
       \/ AddMember(e) \/ ReadMember(e) \/ CountOwners(e) \/ UpdateMember(e)

MembershipSpec == MembershipInit /\ [][MembershipNext]_memberVars

------------------------------------------------------------------------------
(* The workspace keeps an active owner: updateMember takes the last one away    *)
(* only when the owners changed after it counted them, and addMember only by    *)
(* adding an owner again with a lesser role.                                    *)
OwnerKept == Owners # {} \/ causes # {}
=============================================================================
