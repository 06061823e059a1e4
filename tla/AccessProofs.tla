---------------------------- MODULE AccessProofs ----------------------------
(* Proofs about the two tables that decide who may do what: the members of a    *)
(* workspace and the sessions of accounts.  Of the first, that an active owner  *)
(* is left unless requests overlapped or an owner was added again; of the       *)
(* second, that a new password ends the sessions opened with an older one.      *)
EXTENDS Accounts, Membership, FiniteSetTheorems, TLAPS

------------------------------------------------------------------------------
(* A request that adds a member names a role and activates; one that updates    *)
(* has read the row it goes on to write.                                        *)
EditNamed ==
    \A e \in Editors :
        /\ edit[e] \in Edit /\ edit[e].kind = "add" => edit[e].role # "kept" /\ edit[e].active = "yes"
        /\ edit[e] \in Edit /\ edit[e].pc \in {"read", "checked"} => member[edit[e].target] # NoRole

(* An update that takes away one of the owners it counted had counted another.  *)
OwnerCounted ==
    \A e \in Editors :
        edit[e].pc = "checked" /\ LosesOwner(e) /\ edit[e].target \in edit[e].seen =>
            \E p \in edit[e].seen : p # edit[e].target

MInv == MembershipTypeOK /\ EditNamed /\ OwnerCounted /\ OwnerKept

LEMMA EditFields ==
    ASSUME MembershipTypeOK, NEW e \in Editors, edit[e].pc \in {"authorized", "read", "checked"}
    PROVE  edit[e] \in Edit
  BY DEF MembershipTypeOK, NoEdit, Replied

(* More than one owner: there is one besides any given person.                  *)
LEMMA AnotherOwner ==
    ASSUME NEW t, EnoughOwners
    PROVE  \E p \in Owners : p # t
<1>1. CASE Owners = {}
  BY <1>1, FS_EmptySet DEF EnoughOwners
<1>2. CASE Owners = {t}
  <2>1. Cardinality({t}) = 1
    BY FS_Singleton
  <2>2. Cardinality(Owners) = 1
    BY <1>2, <2>1
  <2> QED  BY <2>2 DEF EnoughOwners
<1> QED  BY <1>1, <1>2

LEMMA MembershipInitial == MembershipInit => MInv
<1> SUFFICES ASSUME MembershipInit PROVE MInv  OBVIOUS
<1> USE DEF MembershipInit
<1>1. MembershipTypeOK
  BY FounderAssumption DEF MembershipTypeOK, Roles, NoRole, NoEdit
<1>2. \A e \in Editors : edit[e] \notin Edit /\ edit[e].pc # "checked"
  BY DEF Edit, NoEdit
<1>3. EditNamed
  BY <1>2 DEF EditNamed
<1>4. OwnerCounted
  BY <1>2 DEF OwnerCounted
<1>5. Founder \in Owners
  BY FounderAssumption DEF Owners
<1> QED  BY <1>1, <1>3, <1>4, <1>5 DEF MInv, OwnerKept

(* What an upsert or an update writes is a row.                                 *)
LEMMA WrittenRow ==
    ASSUME MembershipTypeOK, EditNamed, NEW e \in Editors, edit[e] \in Edit,
           edit[e].kind = "add" \/ edit[e].pc = "checked"
    PROVE  /\ Written(e) \in [role : Roles, active : BOOLEAN]
           /\ Written(e) # NoRole
<1> DEFINE t == edit[e].target
<1>1. t \in People /\ edit[e].role \in Roles \cup {"kept"} /\ edit[e].active \in {"yes", "no", "kept"}
      /\ edit[e].kind \in {"add", "update"}
  BY DEF Edit
<1>2. edit[e].role = "kept" => member[t].role \in Roles /\ member[t].active \in BOOLEAN
  BY <1>1 DEF EditNamed, MembershipTypeOK
<1>3. member[t] \in [role : Roles, active : BOOLEAN] \/ member[t] = NoRole
  BY <1>1 DEF MembershipTypeOK
<1>4. member[t].active \in BOOLEAN
  <2>1. CASE member[t] \in [role : Roles, active : BOOLEAN]
    BY <2>1
  <2>2. NoRole.active = FALSE
    BY DEF NoRole
  <2>3. CASE member[t] = NoRole
    BY <2>2, <2>3
  <2> QED  BY <1>3, <2>1, <2>3
<1> QED  BY <1>1, <1>2, <1>4 DEF Written, Roles, NoRole

(* A row is written by the request that stands for it, to the row it names.     *)
LEMMA WriteKeepsInv ==
    ASSUME MInv, NEW e \in Editors, edit[e] \in Edit,
           edit[e].kind = "add" \/ edit[e].pc = "checked",
           member' = [member EXCEPT ![edit[e].target] = Written(e)],
           edit' = [edit EXCEPT ![e] = Replied],
           causes' \in {causes, causes \cup {"added_again"}, causes \cup {"overlap"}}
    PROVE  MembershipTypeOK' /\ EditNamed' /\ OwnerCounted'
<1> DEFINE t == edit[e].target
<1>1. t \in People
  BY DEF Edit
<1>2. Written(e) \in [role : Roles, active : BOOLEAN] /\ Written(e) # NoRole
  BY WrittenRow DEF MInv
<1>3. MembershipTypeOK'
  <2>1. member' \in [People -> [role : Roles, active : BOOLEAN] \cup {NoRole}]
    BY <1>1, <1>2 DEF MInv, MembershipTypeOK
  <2>2. edit' \in [Editors -> Edit \cup {NoEdit, Replied}]
    BY DEF MInv, MembershipTypeOK
  <2> QED  BY <2>1, <2>2 DEF MInv, MembershipTypeOK
<1>4. \A f \in Editors : edit'[f] = edit[f] \/ (f = e /\ edit'[f] = Replied)
  BY DEF MInv, MembershipTypeOK
<1>5. Replied \notin Edit /\ Replied.pc # "checked"
  BY DEF Edit, Replied
<1>6. \A p \in People : member[p] # NoRole => member'[p] # NoRole
  BY <1>1, <1>2 DEF MInv, MembershipTypeOK
<1>7. EditNamed'
  <2> SUFFICES ASSUME NEW f \in Editors, edit'[f] \in Edit
               PROVE  /\ edit'[f].kind = "add" => edit'[f].role # "kept" /\ edit'[f].active = "yes"
                      /\ edit'[f].pc \in {"read", "checked"} => member'[edit'[f].target] # NoRole
    BY DEF EditNamed
  <2>1. edit'[f] = edit[f] /\ edit[f].target \in People
    BY <1>4, <1>5 DEF Edit
  <2> QED  BY <2>1, <1>6 DEF MInv, EditNamed
<1>8. OwnerCounted'
  <2> SUFFICES ASSUME NEW f \in Editors, edit'[f].pc = "checked", LosesOwner(f)',
                      edit'[f].target \in edit'[f].seen
               PROVE  \E p \in edit'[f].seen : p # edit'[f].target
    BY DEF OwnerCounted
  <2>1. edit'[f] = edit[f]
    BY <1>4, <1>5
  <2> QED  BY <2>1 DEF MInv, OwnerCounted, LosesOwner
<1> QED  BY <1>3, <1>7, <1>8

(* The owners that are left: those other than the member written to, and that   *)
(* one too if the request does not take its ownership away.                     *)
LEMMA OwnersLeft ==
    ASSUME MembershipTypeOK, NEW e \in Editors, edit[e] \in Edit,
           member' = [member EXCEPT ![edit[e].target] = Written(e)]
    PROVE  /\ \A p \in Owners : p # edit[e].target => p \in Owners'
           /\ edit[e].target \in Owners /\ ~LosesOwner(e) => edit[e].target \in Owners'
<1> DEFINE t == edit[e].target
<1>1. t \in People /\ edit[e].active \in {"yes", "no", "kept"}
  BY DEF Edit
<1>2. \A p \in Owners : p # t => p \in Owners'
  BY <1>1 DEF MembershipTypeOK, Owners
<1>3. ASSUME t \in Owners, ~LosesOwner(e) PROVE t \in Owners'
  <2>1. Written(e).role = "owner" /\ Written(e).active
    BY <1>1, <1>3 DEF Owners, LosesOwner, Written
  <2>2. member'[t] = Written(e)
    BY <1>1 DEF MembershipTypeOK
  <2> QED  BY <1>1, <2>1, <2>2 DEF Owners
<1> QED  BY <1>2, <1>3

LEMMA AddMemberStep ==
    ASSUME MInv, NEW e \in Editors, AddMember(e)
    PROVE  MInv'
<1> USE DEF AddMember
<1>1. edit[e] \in Edit /\ MembershipTypeOK
  BY EditFields DEF MInv
<1>2. MembershipTypeOK' /\ EditNamed' /\ OwnerCounted'
  BY <1>1, WriteKeepsInv
<1>3. OwnerKept'
  <2>1. CASE edit[e].target \in Owners /\ LosesOwner(e)
    BY <2>1 DEF OwnerKept
  <2>2. CASE ~(edit[e].target \in Owners /\ LosesOwner(e))
    BY <1>1, <2>2, OwnersLeft DEF MInv, OwnerKept
  <2> QED  BY <2>1, <2>2
<1> QED  BY <1>2, <1>3 DEF MInv

LEMMA UpdateMemberStep ==
    ASSUME MInv, NEW e \in Editors, UpdateMember(e)
    PROVE  MInv'
<1> USE DEF UpdateMember
<1>1. edit[e] \in Edit /\ MembershipTypeOK
  BY EditFields DEF MInv
<1>2. MembershipTypeOK' /\ EditNamed' /\ OwnerCounted'
  BY <1>1, WriteKeepsInv
<1>3. OwnerKept'
  <2>1. CASE edit[e].seen # Owners
    BY <2>1 DEF OwnerKept
  <2>2. CASE edit[e].seen = Owners /\ edit[e].target \in Owners /\ LosesOwner(e)
    <3>1. \E p \in Owners : p # edit[e].target
      BY <2>2 DEF MInv, OwnerCounted
    <3> QED  BY <1>1, <3>1, OwnersLeft DEF OwnerKept
  <2>3. CASE edit[e].seen = Owners /\ ~(edit[e].target \in Owners /\ LosesOwner(e))
    BY <1>1, <2>3, OwnersLeft DEF MInv, OwnerKept
  <2> QED  BY <2>1, <2>2, <2>3
<1> QED  BY <1>2, <1>3 DEF MInv

(* A request that goes on writes no row; what it goes on to is described.       *)
LEMMA EditStep ==
    ASSUME MInv, NEW e \in Editors, NEW k \in Edit,
           edit' = [edit EXCEPT ![e] = k], UNCHANGED <<member, causes>>,
           k.kind = "add" => k.role # "kept" /\ k.active = "yes",
           k.pc \in {"read", "checked"} => member[k.target] # NoRole,
           k.pc = "checked" /\ (k.role \notin {"owner", "kept"} \/ k.active = "no")
             /\ k.target \in k.seen => \E p \in k.seen : p # k.target
    PROVE  MInv'
<1>1. \A f \in Editors : edit'[f] = edit[f] \/ (f = e /\ edit'[f] = k)
  BY DEF MInv, MembershipTypeOK
<1>2. MembershipTypeOK'
  BY DEF MInv, MembershipTypeOK
<1>3. EditNamed'
  BY <1>1 DEF MInv, EditNamed
<1>4. OwnerCounted'
  BY <1>1 DEF MInv, OwnerCounted, LosesOwner
<1>5. OwnerKept'
  BY DEF MInv, OwnerKept, Owners
<1> QED  BY <1>2, <1>3, <1>4, <1>5 DEF MInv

LEMMA AuthorizeStep ==
    ASSUME MInv, NEW e \in Editors, NEW kind \in {"add", "update"}, NEW actor \in People,
           NEW target \in People, NEW role \in Roles \cup {"kept"},
           NEW active \in {"yes", "no", "kept"},
           Authorize(e, kind, actor, target, role, active)
    PROVE  MInv'
<1> DEFINE k == [pc |-> "authorized", kind |-> kind, caller |-> member[actor].role,
                 target |-> target, role |-> role, active |-> active, seen |-> {}]
<1>1. member[actor].role \in Roles
  BY DEF Authorize, Administers, Roles
<1>2. k \in Edit
  BY <1>1 DEF Edit
<1>3. edit' = [edit EXCEPT ![e] = k] /\ UNCHANGED <<member, causes>>
      /\ (kind = "add" => role # "kept" /\ active = "yes")
  BY DEF Authorize
<1> QED  BY <1>2, <1>3, EditStep

LEMMA ReadMemberStep ==
    ASSUME MInv, NEW e \in Editors, ReadMember(e)
    PROVE  MInv'
<1> DEFINE t == edit[e].target  old == edit[e]
<1>1. old \in Edit /\ edit \in [Editors -> Edit \cup {NoEdit, Replied}]
  BY EditFields DEF ReadMember, MInv, MembershipTypeOK
<1>2. member[t] # NoRole /\ UNCHANGED <<member, causes>> /\ old.kind = "update"
  BY DEF ReadMember
<1>3. CASE edit' = [edit EXCEPT ![e].pc = "read"]
  <2> DEFINE k == [old EXCEPT !.pc = "read"]
  <2>1. k \in Edit /\ k.pc = "read" /\ k.kind = "update" /\ k.target = t
    BY <1>1, <1>2 DEF Edit
  <2>2. edit' = [edit EXCEPT ![e] = k]
    BY <1>1, <1>3
  <2> HIDE DEF k
  <2> QED  BY <1>2, <2>1, <2>2, EditStep
<1>4. CASE ~(member[t].role = "owner" /\ LosesOwner(e))
           /\ edit' = [edit EXCEPT ![e].pc = "checked", ![e].seen = Owners]
  <2> DEFINE k == [old EXCEPT !.pc = "checked", !.seen = Owners]
  <2>1. k \in Edit /\ k.kind = "update" /\ k.target = t /\ k.seen = Owners
        /\ k.role = old.role /\ k.active = old.active
    BY <1>1, <1>2 DEF Edit, Owners
  <2>2. edit' = [edit EXCEPT ![e] = k]
    BY <1>1, <1>4
  <2>3. t \in Owners => ~(k.role \notin {"owner", "kept"} \/ k.active = "no")
    BY <1>4, <2>1 DEF Owners, LosesOwner
  <2> HIDE DEF k
  <2> QED  BY <1>2, <2>1, <2>2, <2>3, EditStep
<1> QED  BY <1>3, <1>4 DEF ReadMember

LEMMA CountOwnersStep ==
    ASSUME MInv, NEW e \in Editors, CountOwners(e)
    PROVE  MInv'
<1> DEFINE old == edit[e]  k == [old EXCEPT !.pc = "checked", !.seen = Owners]
<1>1. old \in Edit /\ edit \in [Editors -> Edit \cup {NoEdit, Replied}]
  BY EditFields DEF CountOwners, MInv, MembershipTypeOK
<1>2. k \in Edit /\ k.kind = old.kind /\ k.target = old.target /\ k.seen = Owners
      /\ k.role = old.role /\ k.active = old.active
  BY <1>1 DEF Edit, Owners
<1>3. edit' = [edit EXCEPT ![e] = k] /\ UNCHANGED <<member, causes>>
  BY <1>1 DEF CountOwners
<1>4. \E p \in Owners : p # old.target
  BY AnotherOwner DEF CountOwners
<1>5. member[old.target] # NoRole
      /\ (old.kind = "add" => old.role # "kept" /\ old.active = "yes")
  BY <1>1 DEF CountOwners, MInv, EditNamed
<1> HIDE DEF k
<1> QED  BY <1>2, <1>3, <1>4, <1>5, EditStep

LEMMA MembershipInductive == MInv /\ [MembershipNext]_memberVars => MInv'
<1> SUFFICES ASSUME MInv, [MembershipNext]_memberVars PROVE MInv'  OBVIOUS
<1>1. CASE UNCHANGED memberVars
  BY <1>1 DEF memberVars, MInv, MembershipTypeOK, EditNamed, OwnerCounted, OwnerKept, LosesOwner,
     Owners
<1>2. CASE MembershipNext
  <2> PICK e \in Editors :
         \/ \E kind \in {"add", "update"}, actor, target \in People,
               role \in Roles \cup {"kept"}, active \in {"yes", "no", "kept"} :
               Authorize(e, kind, actor, target, role, active)
         \/ AddMember(e) \/ ReadMember(e) \/ CountOwners(e) \/ UpdateMember(e)
    BY <1>2 DEF MembershipNext
  <2> QED  BY AuthorizeStep, AddMemberStep, ReadMemberStep, CountOwnersStep, UpdateMemberStep
<1> QED  BY <1>1, <1>2

(* The workspace is left without an active owner only when requests overlapped  *)
(* or addMember took the ownership of one it added again: updateMember never    *)
(* removes the last owner it counted.                                           *)
THEOREM WorkspaceOwned == MembershipSpec => []OwnerKept
<1>1. MInv => OwnerKept
  BY DEF MInv
<1> QED  BY MembershipInitial, MembershipInductive, <1>1, PTL DEF MembershipSpec

------------------------------------------------------------------------------
(* A reset holds the row of its user from its UPDATE to its commit.             *)
Resetting(h) == /\ auth[h] \in Auth /\ auth[h].kind = "reset"
                /\ auth[h].pc \in {"updated", "emptied"}

(* Passwords only grow: what was answered for, or is about to be, was written.  *)
ChangedWritten ==
    /\ \A u \in Emails : outcome.changed[u] <= password[u]
    /\ \A h \in AuthRequests : auth[h] \in Auth /\ auth[h].kind = "change" /\ auth[h].pc = "updated" =>
           auth[h].seen <= password[auth[h].user]

(* A reset writes the next password of an account, alone; and has deleted, or   *)
(* raced with, whatever session of the account there is when it commits.        *)
ResetAlone ==
    /\ \A h \in AuthRequests : auth[h] \in Auth /\ auth[h].kind = "reset" /\ auth[h].pc # "ended" =>
           password[auth[h].user] >= 1
    /\ \A h \in AuthRequests : Resetting(h) => auth[h].seen = password[auth[h].user] + 1
    /\ \A g, h \in AuthRequests : Resetting(g) /\ Resetting(h) /\ auth[g].user = auth[h].user => g = h
    /\ \A h \in AuthRequests, s \in sessions :
           Resetting(h) /\ auth[h].pc = "emptied" /\ s.user = auth[h].user =>
              s \in auth[h].gone \/ s.raced

AInv == AccountsTypeOK /\ ChangedWritten /\ ResetAlone /\ OldSessionsEnd

LEMMA AccountsInitial == AccountsInit => AInv
  BY DEF AccountsInit, AInv, AccountsTypeOK, ChangedWritten, ResetAlone, Resetting, OldSessionsEnd,
     Auth, NoAuth

LEMMA LockedResetting ==
    ASSUME AccountsTypeOK, NEW u
    PROVE  UserLocked(u) <=> \E h \in AuthRequests : Resetting(h) /\ auth[h].user = u
  BY DEF AccountsTypeOK, UserLocked, Resetting, Auth, NoAuth

LEMMA OpenFields ==
    ASSUME AccountsTypeOK, NEW h \in AuthRequests, Open(h) \/ auth[h] # NoAuth
    PROVE  auth[h] \in Auth
  BY DEF AccountsTypeOK, Open, NoAuth

(* A handler that begins, or goes on, without a write to the other tables.      *)
LEMMA AuthStep ==
    ASSUME AInv, NEW h \in AuthRequests, NEW k \in Auth, auth' = [auth EXCEPT ![h] = k],
           UNCHANGED <<password, admins, outcome>>,
           sessions' \subseteq sessions,
           k.kind = "change" => k.pc # "updated" \/ k.seen <= password[k.user],
           k.kind = "reset" /\ k.pc # "ended" =>
              /\ password[k.user] >= 1
              /\ k.pc \in {"updated", "emptied"} =>
                    /\ k.seen = password[k.user] + 1
                    /\ \A g \in AuthRequests \ {h} : ~(Resetting(g) /\ auth[g].user = k.user)
              /\ k.pc = "emptied" => \A s \in sessions : s.user = k.user => s \in k.gone
    PROVE  AInv'
<1>1. \A g \in AuthRequests : (g # h /\ auth'[g] = auth[g]) \/ (g = h /\ auth'[g] = k)
  BY DEF AInv, AccountsTypeOK
<1>2. AccountsTypeOK' /\ OldSessionsEnd'
  BY DEF AInv, AccountsTypeOK, OldSessionsEnd
<1>3. ChangedWritten'
  BY <1>1 DEF AInv, ChangedWritten
<1>4. ResetAlone'
  <2>1. \A g \in AuthRequests : auth'[g] \in Auth /\ auth'[g].kind = "reset" /\ auth'[g].pc # "ended" =>
           password'[auth'[g].user] >= 1
    BY <1>1 DEF AInv, ResetAlone
  <2>2. \A g \in AuthRequests : Resetting(g)' => auth'[g].seen = password'[auth'[g].user] + 1
    BY <1>1 DEF AInv, ResetAlone, Resetting
  <2>3. \A f, g \in AuthRequests : Resetting(f)' /\ Resetting(g)' /\ auth'[f].user = auth'[g].user => f = g
    BY <1>1 DEF AInv, ResetAlone, Resetting
  <2>4. \A g \in AuthRequests, s \in sessions' :
           Resetting(g)' /\ auth'[g].pc = "emptied" /\ s.user = auth'[g].user =>
              s \in auth'[g].gone \/ s.raced
    BY <1>1 DEF AInv, ResetAlone, Resetting
  <2> QED  BY <2>1, <2>2, <2>3, <2>4 DEF ResetAlone
<1> QED  BY <1>2, <1>3, <1>4 DEF AInv

LEMMA BeginStep ==
    ASSUME AInv, NEW h \in AuthRequests, NEW u \in Emails,
           NEW kind \in {"setup", "login", "change", "reset"},
           NEW pc \in {"open", "verified", "hashed"},
           Begin(h, kind, pc, u), UNCHANGED <<password, admins, sessions, outcome>>,
           kind = "reset" => password[u] >= 1
    PROVE  AInv'
<1> DEFINE k == [pc |-> pc, kind |-> kind, user |-> u, seen |-> password[u], gone |-> {}]
<1>1. k \in Auth /\ k.pc \notin {"updated", "emptied"}
  BY DEF AInv, AccountsTypeOK, Auth
<1>2. auth' = [auth EXCEPT ![h] = k] /\ k.kind = kind /\ k.user = u
  BY DEF Begin
<1> HIDE DEF k
<1> QED  BY <1>1, <1>2, AuthStep

(* The password of one user grows, by a handler that does not hold its row or   *)
(* that ends; the others are as they were.                                      *)
LEMMA GrowStep ==
    ASSUME AInv, NEW u \in Emails, password'[u] > password[u],
           \A v \in Emails : v # u => password'[v] = password[v],
           outcome' = outcome, sessions' = sessions, AccountsTypeOK',
           \A g \in AuthRequests : \/ auth'[g] = auth[g] /\ ~(Resetting(g) /\ auth[g].user = u)
                                   \/ auth'[g].kind = "login"
                                   \/ /\ auth'[g].kind = "change" /\ auth'[g].user = u
                                      /\ auth'[g].seen = password'[u]
    PROVE  AInv'
<1>1. \A v \in Emails : password'[v] \in Nat /\ password[v] \in Nat /\ password'[v] >= password[v]
                       /\ (v # u => password'[v] = password[v])
  BY DEF AInv, AccountsTypeOK
<1>2. OldSessionsEnd'
  BY DEF AInv, OldSessionsEnd
<1>3. \A v \in Emails : outcome.changed[v] \in Nat
  BY DEF AInv, AccountsTypeOK
<1>4. \A g \in AuthRequests : auth[g] \in Auth => auth[g].user \in Emails /\ auth[g].seen \in Nat
  BY DEF Auth
<1>5. ChangedWritten'
  <2>1. \A v \in Emails : outcome'.changed[v] <= password'[v]
    BY <1>1, <1>3 DEF AInv, ChangedWritten
  <2>2. ASSUME NEW g \in AuthRequests, auth'[g] \in Auth, auth'[g].kind = "change", auth'[g].pc = "updated"
        PROVE  auth'[g].seen <= password'[auth'[g].user]
    <3>1. CASE auth'[g] = auth[g]
      BY <2>2, <3>1, <1>1, <1>4 DEF AInv, ChangedWritten
    <3>2. CASE auth'[g].user = u /\ auth'[g].seen = password'[u]
      BY <3>2, <1>1 DEF AInv, AccountsTypeOK
    <3> QED  BY <2>2, <3>1, <3>2
  <2> QED  BY <2>1, <2>2 DEF ChangedWritten
<1>6. \A g \in AuthRequests : auth'[g] \in Auth /\ auth'[g].kind = "reset" =>
         auth'[g] = auth[g] /\ ~(Resetting(g) /\ auth[g].user = u)
  OBVIOUS
<1>7. ResetAlone'
  <2>1. \A g \in AuthRequests : auth'[g] \in Auth /\ auth'[g].kind = "reset" /\ auth'[g].pc # "ended" =>
           password'[auth'[g].user] >= 1
    BY <1>1, <1>4, <1>6 DEF AInv, ResetAlone
  <2>2. \A g \in AuthRequests : Resetting(g)' => auth'[g].seen = password'[auth'[g].user] + 1
    BY <1>1, <1>4, <1>6 DEF AInv, ResetAlone, Resetting
  <2>3. \A f, g \in AuthRequests : Resetting(f)' /\ Resetting(g)' /\ auth'[f].user = auth'[g].user => f = g
    BY <1>6 DEF AInv, ResetAlone, Resetting
  <2>4. \A g \in AuthRequests, s \in sessions' :
           Resetting(g)' /\ auth'[g].pc = "emptied" /\ s.user = auth'[g].user =>
              s \in auth'[g].gone \/ s.raced
    BY <1>6 DEF AInv, ResetAlone, Resetting
  <2> QED  BY <2>1, <2>2, <2>3, <2>4 DEF ResetAlone
<1> QED  BY <1>2, <1>5, <1>7 DEF AInv

LEMMA SetupCommitStep ==
    ASSUME AInv, NEW h \in AuthRequests, SetupCommit(h)
    PROVE  AInv'
<1> DEFINE old == auth[h]  u == old.user
<1>1. old \in Auth /\ old.kind = "setup" /\ u \in Emails /\ UNCHANGED <<sessions, outcome>>
  BY OpenFields DEF SetupCommit, At, AInv, Auth
<1>2. CASE password[u] # 0
  <2> DEFINE k == [old EXCEPT !.pc = "ended", !.gone = {}]
  <2>1. k \in Auth /\ k.kind = "setup"
    BY <1>1 DEF Auth
  <2>2. auth' = [auth EXCEPT ![h] = k] /\ UNCHANGED <<password, admins>>
    BY <1>2 DEF SetupCommit, Close, AInv, AccountsTypeOK
  <2> HIDE DEF k
  <2> QED  BY <1>1, <2>1, <2>2, AuthStep
<1>3. CASE password[u] = 0
  <2> DEFINE k == [old EXCEPT !.kind = "login", !.pc = "verified", !.seen = 1]
  <2>1. k \in Auth /\ k.kind = "login"
    BY <1>1 DEF Auth
  <2>2. /\ auth' = [auth EXCEPT ![h] = k]
        /\ password' = [password EXCEPT ![u] = 1] /\ admins' = admins \cup {u}
    BY <1>3 DEF SetupCommit, AInv, AccountsTypeOK
  <2> HIDE DEF k
  <2>3. AccountsTypeOK'
    BY <1>1, <2>1, <2>2 DEF AInv, AccountsTypeOK
  <2>4. \A g \in AuthRequests : ~(Resetting(g) /\ auth[g].user = u)
    BY <1>3 DEF AInv, ResetAlone, Resetting
  <2>5. \A g \in AuthRequests : auth'[g] = auth[g] \/ auth'[g].kind = "login"
    BY <2>1, <2>2 DEF AInv, AccountsTypeOK
  <2>6. password'[u] > password[u] /\ \A v \in Emails : v # u => password'[v] = password[v]
    BY <1>1, <1>3, <2>2 DEF AInv, AccountsTypeOK
  <2> QED  BY <1>1, <2>2, <2>3, <2>4, <2>5, <2>6, GrowStep
<1> QED  BY <1>2, <1>3

LEMMA CreateAccountStep ==
    ASSUME AInv, NEW s \in sessions, NEW u \in Emails, CreateAccount(s, u)
    PROVE  AInv'
<1>1. /\ password' = [password EXCEPT ![u] = 1] /\ password[u] = 0
      /\ UNCHANGED <<admins, sessions, auth, outcome>>
  BY DEF CreateAccount
<1>2. AccountsTypeOK'
  BY <1>1 DEF AInv, AccountsTypeOK
<1>3. \A g \in AuthRequests : ~(Resetting(g) /\ auth[g].user = u)
  BY <1>1 DEF AInv, ResetAlone, Resetting
<1>4. password'[u] > password[u] /\ \A v \in Emails : v # u => password'[v] = password[v]
  BY <1>1 DEF AInv, AccountsTypeOK
<1> QED  BY <1>1, <1>2, <1>3, <1>4, GrowStep

(* A login inserts a session opened with the password its user has, or one      *)
(* marked as having raced.                                                      *)
LEMMA LoginInsertStep ==
    ASSUME AInv, NEW h \in AuthRequests, LoginInsert(h)
    PROVE  AInv'
<1> DEFINE old == auth[h]  u == old.user  k == [old EXCEPT !.pc = "ended", !.gone = {}]
           new == [user |-> u, by |-> h, seen |-> old.seen,
                   raced |-> password[u] # old.seen \/ UserLocked(u)]
<1>1. old \in Auth /\ old.kind = "login" /\ u \in Emails /\ old.seen \in Nat
  BY OpenFields DEF LoginInsert, At, AInv, Auth
<1>2. /\ sessions' = sessions \cup {new} /\ UNCHANGED <<password, admins, outcome>>
      /\ auth' = [auth EXCEPT ![h] = k]
  BY DEF LoginInsert, Close, AInv, AccountsTypeOK
<1>3. k \in Auth /\ k.kind = "login"
  BY <1>1 DEF Auth
<1>4. new \in Session
  BY <1>1 DEF Session
<1>5. AccountsTypeOK'
  BY <1>2, <1>3, <1>4 DEF AInv, AccountsTypeOK
<1>6. \A g \in AuthRequests : auth'[g] = auth[g] \/ auth'[g].kind = "login"
  BY <1>2, <1>3 DEF AInv, AccountsTypeOK
<1>7. new.user = u /\ new.seen = old.seen
      /\ (new.raced <=> password[u] # old.seen \/ UserLocked(u))
  OBVIOUS
<1>8. OldSessionsEnd'
  <2>1. outcome.changed[u] \in Nat /\ password[u] \in Nat /\ outcome.changed[u] <= password[u]
    BY <1>1 DEF AInv, AccountsTypeOK, ChangedWritten
  <2>2. new.seen < outcome.changed[u] => new.raced
    BY <1>1, <1>7, <2>1
  <2> HIDE DEF new
  <2> QED  BY <1>2, <1>7, <2>2 DEF AInv, OldSessionsEnd
<1>9. ChangedWritten'
  BY <1>2, <1>6 DEF AInv, ChangedWritten
<1>10. ResetAlone'
  <2>1. \A g \in AuthRequests : Resetting(g)' => Resetting(g) /\ auth'[g] = auth[g]
    BY <1>6 DEF Resetting
  <2>2. \A g \in AuthRequests : auth'[g] \in Auth /\ auth'[g].kind = "reset" /\ auth'[g].pc # "ended" =>
           password'[auth'[g].user] >= 1
    BY <1>2, <1>6 DEF AInv, ResetAlone
  <2>3. \A g \in AuthRequests : Resetting(g)' => auth'[g].seen = password'[auth'[g].user] + 1
    BY <1>2, <2>1 DEF AInv, ResetAlone
  <2>4. \A f, g \in AuthRequests : Resetting(f)' /\ Resetting(g)' /\ auth'[f].user = auth'[g].user => f = g
    BY <2>1 DEF AInv, ResetAlone
  <2>5. \A g \in AuthRequests : Resetting(g) /\ auth[g].user = u => new.raced
    BY <1>7, LockedResetting DEF AInv
  <2> HIDE DEF new
  <2>6. \A g \in AuthRequests, s \in sessions' :
           Resetting(g)' /\ auth'[g].pc = "emptied" /\ s.user = auth'[g].user =>
              s \in auth'[g].gone \/ s.raced
    BY <1>2, <1>7, <2>1, <2>5 DEF AInv, ResetAlone
  <2> QED  BY <2>2, <2>3, <2>4, <2>6 DEF ResetAlone
<1> QED  BY <1>5, <1>8, <1>9, <1>10 DEF AInv

LEMMA LogoutStep ==
    ASSUME AInv, NEW s \in sessions, Logout(s)
    PROVE  AInv'
<1> USE DEF Logout
<1>1. AccountsTypeOK' /\ OldSessionsEnd' /\ ChangedWritten'
  BY DEF AInv, AccountsTypeOK, OldSessionsEnd, ChangedWritten
<1>2. ResetAlone'
  BY DEF AInv, ResetAlone, Resetting
<1> QED  BY <1>1, <1>2 DEF AInv

LEMMA ChangeUpdateStep ==
    ASSUME AInv, NEW h \in AuthRequests, ChangeUpdate(h)
    PROVE  AInv'
<1> DEFINE old == auth[h]  u == old.user  n == password[u] + 1
           k == [old EXCEPT !.pc = "updated", !.seen = n]
<1>1. old \in Auth /\ old.kind = "change" /\ u \in Emails /\ UNCHANGED <<admins, sessions, outcome>>
  BY OpenFields DEF ChangeUpdate, At, AInv, Auth
<1>2. password[u] \in Nat /\ n \in Nat /\ n > password[u]
  BY <1>1 DEF AInv, AccountsTypeOK
<1>3. k \in Auth /\ k.kind = "change" /\ k.user = u /\ k.seen = n
  BY <1>1, <1>2 DEF Auth
<1>4. auth' = [auth EXCEPT ![h] = k] /\ password' = [password EXCEPT ![u] = n]
  BY DEF ChangeUpdate, AInv, AccountsTypeOK
<1> HIDE DEF k, n
<1>5. AccountsTypeOK'
  BY <1>1, <1>2, <1>3, <1>4 DEF AInv, AccountsTypeOK
<1>6. \A g \in AuthRequests : ~(Resetting(g) /\ auth[g].user = u)
  BY LockedResetting DEF ChangeUpdate, AInv
<1>7. \A g \in AuthRequests : auth'[g] = auth[g] \/ auth'[g] = k
  BY <1>4 DEF AInv, AccountsTypeOK
<1>8. /\ password'[u] = n /\ password'[u] > password[u]
      /\ \A v \in Emails : v # u => password'[v] = password[v]
  BY <1>1, <1>2, <1>4 DEF AInv, AccountsTypeOK
<1>9. \A g \in AuthRequests : \/ auth'[g] = auth[g] /\ ~(Resetting(g) /\ auth[g].user = u)
                              \/ auth'[g].kind = "login"
                              \/ /\ auth'[g].kind = "change" /\ auth'[g].user = u
                                 /\ auth'[g].seen = password'[u]
  BY <1>3, <1>6, <1>7, <1>8
<1> QED  BY <1>1, <1>5, <1>8, <1>9, GrowStep

(* The later of two passwords.                                                  *)
LEMMA AnsweredChanged ==
    ASSUME AInv, NEW h \in AuthRequests, auth[h] \in Auth, Answered(h)
    PROVE  /\ outcome' \in [changed : [Emails -> Nat], crashes : Nat]
           /\ outcome'.changed[auth[h].user] \in {auth[h].seen, outcome.changed[auth[h].user]}
           /\ \A v \in Emails : v # auth[h].user => outcome'.changed[v] = outcome.changed[v]
<1>1. auth[h].user \in Emails /\ auth[h].seen \in Nat
  BY DEF Auth
<1>2. outcome \in [changed : [Emails -> Nat], crashes : Nat]
  BY DEF AInv, AccountsTypeOK
<1> DEFINE c == outcome.changed
           n == IF auth[h].seen > c[auth[h].user] THEN auth[h].seen ELSE c[auth[h].user]
<1>3. c \in [Emails -> Nat] /\ n \in {auth[h].seen, c[auth[h].user]} /\ n \in Nat
  BY <1>1, <1>2
<1>4. outcome' = [outcome EXCEPT !.changed = [c EXCEPT ![auth[h].user] = n]]
  BY <1>1, <1>2 DEF Answered
<1> HIDE DEF n
<1>5. outcome'.changed = [c EXCEPT ![auth[h].user] = n] /\ outcome'.crashes = outcome.crashes
      /\ outcome' \in [changed : [Emails -> Nat], crashes : Nat]
  BY <1>1, <1>2, <1>3, <1>4
<1> QED  BY <1>1, <1>3, <1>5

(* ChangeDelete deletes whatever session the user has; ResetCommit leaves those *)
(* that raced with it.                                                          *)
LEMMA ChangeDeleteStep ==
    ASSUME AInv, NEW h \in AuthRequests, ChangeDelete(h)
    PROVE  AInv'
<1> DEFINE old == auth[h]  u == old.user  k == [old EXCEPT !.pc = "ended", !.gone = {}]
<1>1. /\ old \in Auth /\ old.kind = "change" /\ old.pc = "updated"
      /\ u \in Emails /\ old.seen \in Nat /\ UNCHANGED <<password, admins>>
  BY OpenFields DEF ChangeDelete, At, AInv, Auth
<1>2. k \in Auth /\ k.kind = "change" /\ k.pc = "ended"
  BY <1>1 DEF Auth
<1>3. auth' = [auth EXCEPT ![h] = k] /\ sessions' = sessions \ SessionsOf(u) /\ Answered(h)
  BY DEF ChangeDelete, Close, DeletedSessions, AInv, AccountsTypeOK
<1> HIDE DEF k
<1>4. AccountsTypeOK'
  BY <1>1, <1>2, <1>3, AnsweredChanged DEF AInv, AccountsTypeOK
<1>5. \A g \in AuthRequests : auth'[g] = auth[g] \/ (auth'[g].kind = "change" /\ auth'[g].pc = "ended")
  BY <1>2, <1>3 DEF AInv, AccountsTypeOK
<1>6. OldSessionsEnd'
  <2> SUFFICES ASSUME NEW s \in sessions', s.seen < outcome'.changed[s.user]
               PROVE  s.raced
    BY DEF OldSessionsEnd
  <2>1. s \in sessions /\ s.user # u /\ s.user \in Emails
    BY <1>3 DEF SessionsOf, AInv, AccountsTypeOK, Session
  <2> QED  BY <1>1, <1>3, <2>1, AnsweredChanged DEF AInv, OldSessionsEnd
<1>7. ChangedWritten'
  <2>1. old.seen <= password[u]
    BY <1>1 DEF AInv, ChangedWritten
  <2>2. \A v \in Emails : outcome'.changed[v] <= password'[v]
    BY <1>1, <1>3, <2>1, AnsweredChanged DEF AInv, ChangedWritten
  <2> QED  BY <1>1, <1>5, <2>2 DEF AInv, ChangedWritten
<1>8. ResetAlone'
  BY <1>1, <1>3, <1>5 DEF AInv, ResetAlone, Resetting
<1> QED  BY <1>4, <1>6, <1>7, <1>8 DEF AInv

LEMMA ResetUpdateStep ==
    ASSUME AInv, NEW h \in AuthRequests, ResetUpdate(h)
    PROVE  AInv'
<1> DEFINE old == auth[h]  u == old.user  n == password[u] + 1
           k == [old EXCEPT !.pc = "updated", !.seen = n]
<1>1. /\ old \in Auth /\ old.kind = "reset" /\ old.pc = "hashed" /\ u \in Emails
      /\ UNCHANGED <<password, admins, sessions, outcome>>
  BY OpenFields DEF ResetUpdate, At, AInv, Auth
<1>2. password[u] \in Nat /\ n \in Nat
  BY <1>1 DEF AInv, AccountsTypeOK
<1>3. k \in Auth /\ k.kind = "reset" /\ k.user = u /\ k.seen = n /\ k.pc = "updated"
  BY <1>1, <1>2 DEF Auth
<1>4. auth' = [auth EXCEPT ![h] = k]
  BY DEF ResetUpdate, AInv, AccountsTypeOK
<1>5. \A g \in AuthRequests : ~(Resetting(g) /\ auth[g].user = u)
  BY LockedResetting DEF ResetUpdate, AInv
<1>6. password[u] >= 1
  BY <1>1 DEF AInv, ResetAlone
<1> HIDE DEF k
<1> QED  BY <1>1, <1>3, <1>4, <1>5, <1>6, AuthStep

LEMMA ResetDeleteStep ==
    ASSUME AInv, NEW h \in AuthRequests, ResetDelete(h)
    PROVE  AInv'
<1> DEFINE old == auth[h]  u == old.user
           k == [old EXCEPT !.pc = "emptied", !.gone = SessionsOf(u)]
<1>1. /\ old \in Auth /\ old.kind = "reset" /\ old.pc = "updated" /\ u \in Emails
      /\ UNCHANGED <<password, admins, sessions, outcome>>
  BY OpenFields DEF ResetDelete, At, AInv, Auth
<1>2. SessionsOf(u) \subseteq Session
  BY DEF SessionsOf, AInv, AccountsTypeOK
<1>3. /\ k \in Auth /\ k.kind = "reset" /\ k.user = u /\ k.seen = old.seen /\ k.pc = "emptied"
      /\ k.gone = SessionsOf(u)
  BY <1>1, <1>2 DEF Auth
<1>4. auth' = [auth EXCEPT ![h] = k]
  BY DEF ResetDelete, DeletedSessions, AInv, AccountsTypeOK
<1>5. Resetting(h)
  BY <1>1 DEF Resetting
<1>6. \A g \in AuthRequests \ {h} : ~(Resetting(g) /\ auth[g].user = u)
  BY <1>5 DEF AInv, ResetAlone
<1>7. password[u] >= 1 /\ old.seen = password[u] + 1
  BY <1>1, <1>5 DEF AInv, ResetAlone
<1>8. \A s \in sessions : s.user = u => s \in SessionsOf(u)
  BY DEF SessionsOf
<1> HIDE DEF k
<1> QED  BY <1>1, <1>3, <1>4, <1>6, <1>7, <1>8, AuthStep

LEMMA ResetCommitStep ==
    ASSUME AInv, NEW h \in AuthRequests, ResetCommit(h)
    PROVE  AInv'
<1> DEFINE old == auth[h]  u == old.user  n == old.seen  k == [old EXCEPT !.pc = "ended", !.gone = {}]
<1>1. /\ old \in Auth /\ old.kind = "reset" /\ old.pc = "emptied"
      /\ u \in Emails /\ n \in Nat /\ admins' = admins
  BY OpenFields DEF ResetCommit, At, AInv, Auth
<1>2. k \in Auth /\ k.kind = "reset" /\ k.pc = "ended"
  BY <1>1 DEF Auth
<1>3. /\ auth' = [auth EXCEPT ![h] = k] /\ sessions' = sessions \ old.gone /\ Answered(h)
      /\ password' = [password EXCEPT ![u] = n]
  BY DEF ResetCommit, Close, AInv, AccountsTypeOK
<1> HIDE DEF k
<1>4. AccountsTypeOK'
  BY <1>1, <1>2, <1>3, AnsweredChanged DEF AInv, AccountsTypeOK
<1>5. Resetting(h) /\ n = password[u] + 1
  BY <1>1 DEF Resetting, AInv, ResetAlone
<1>6. \A v \in Emails : /\ password'[v] \in Nat /\ password[v] \in Nat /\ password'[v] >= password[v]
                        /\ outcome.changed[v] \in Nat /\ outcome.changed[v] <= password[v]
                        /\ (v # u => password'[v] = password[v]) /\ password'[u] = n
  BY <1>1, <1>3, <1>5 DEF AInv, AccountsTypeOK, ChangedWritten
<1>7. \A g \in AuthRequests : /\ auth'[g] = auth[g] \/ (auth'[g].kind = "reset" /\ auth'[g].pc = "ended")
                              /\ Resetting(g)' => auth'[g] = auth[g] /\ auth[g].user # u
  <2>1. \A g \in AuthRequests : (g # h /\ auth'[g] = auth[g]) \/ (g = h /\ auth'[g] = k)
    BY <1>3 DEF AInv, AccountsTypeOK
  <2>2. \A g \in AuthRequests \ {h} : ~(Resetting(g) /\ auth[g].user = u)
    BY <1>5 DEF AInv, ResetAlone
  <2> QED  BY <1>2, <2>1, <2>2 DEF Resetting
<1>8. \A g \in AuthRequests : auth[g] \in Auth => auth[g].user \in Emails /\ auth[g].seen \in Nat
  BY DEF Auth
<1>9. OldSessionsEnd'
  <2> SUFFICES ASSUME NEW s \in sessions', s.seen < outcome'.changed[s.user]
               PROVE  s.raced
    BY DEF OldSessionsEnd
  <2>1. s \in sessions /\ s \notin old.gone /\ s.user \in Emails
    BY <1>3 DEF AInv, AccountsTypeOK, Session
  <2>2. CASE s.user = u
    BY <1>1, <1>5, <2>1, <2>2 DEF AInv, ResetAlone
  <2>3. CASE s.user # u
    BY <1>1, <1>3, <2>1, <2>3, AnsweredChanged DEF AInv, OldSessionsEnd
  <2> QED  BY <2>2, <2>3
<1>10. ChangedWritten'
  <2>1. \A v \in Emails : outcome'.changed[v] <= password'[v]
    BY <1>1, <1>3, <1>5, <1>6, AnsweredChanged
  <2>2. \A g \in AuthRequests : auth'[g] \in Auth /\ auth'[g].kind = "change" /\ auth'[g].pc = "updated" =>
           auth'[g].seen <= password'[auth'[g].user]
    BY <1>6, <1>7, <1>8 DEF AInv, ChangedWritten
  <2> QED  BY <2>1, <2>2 DEF ChangedWritten
<1>11. ResetAlone'
  <2>1. \A g \in AuthRequests : auth'[g] \in Auth /\ auth'[g].kind = "reset" /\ auth'[g].pc # "ended" =>
           password'[auth'[g].user] >= 1
    BY <1>6, <1>7, <1>8 DEF AInv, ResetAlone
  <2>2. \A g \in AuthRequests : Resetting(g)' => Resetting(g) /\ auth[g].user \in Emails
    BY <1>7, <1>8 DEF Resetting
  <2>3. \A g \in AuthRequests : Resetting(g)' => auth'[g].seen = password'[auth'[g].user] + 1
    BY <1>6, <1>7, <2>2 DEF AInv, ResetAlone
  <2>4. \A f, g \in AuthRequests : Resetting(f)' /\ Resetting(g)' /\ auth'[f].user = auth'[g].user => f = g
    BY <1>7, <2>2 DEF AInv, ResetAlone
  <2>5. \A g \in AuthRequests, s \in sessions' :
           Resetting(g)' /\ auth'[g].pc = "emptied" /\ s.user = auth'[g].user =>
              s \in auth'[g].gone \/ s.raced
    BY <1>3, <1>7, <2>2 DEF AInv, ResetAlone
  <2> QED  BY <2>1, <2>3, <2>4, <2>5 DEF ResetAlone
<1> QED  BY <1>4, <1>9, <1>10, <1>11 DEF AInv

LEMMA AuthCrashStep == AInv /\ AuthCrash => AInv'
<1> SUFFICES ASSUME AInv, AuthCrash PROVE AInv'  OBVIOUS
<1>1. \A h \in AuthRequests : auth'[h] = auth[h] \/ (auth'[h] \in Auth /\ auth'[h].pc = "ended")
  <2> SUFFICES ASSUME NEW h \in AuthRequests, Open(h)
               PROVE  auth'[h] \in Auth /\ auth'[h].pc = "ended"
    BY DEF AuthCrash
  <2>1. auth[h] \in Auth
    BY OpenFields DEF AInv
  <2> QED  BY <2>1 DEF AuthCrash, Auth
<1>2. outcome' \in [changed : [Emails -> Nat], crashes : Nat] /\ outcome'.changed = outcome.changed
  <2>1. outcome \in [changed : [Emails -> Nat], crashes : Nat]
    BY DEF AInv, AccountsTypeOK
  <2>2. outcome.crashes + 1 \in Nat
    BY <2>1
  <2> QED  BY <2>1, <2>2 DEF AuthCrash
<1>3. UNCHANGED <<password, admins, sessions>>
  BY DEF AuthCrash
<1>4. auth' \in [AuthRequests -> Auth \cup {NoAuth}]
  <2>1. \A h \in AuthRequests : auth'[h] \in Auth \cup {NoAuth}
    BY <1>1 DEF AInv, AccountsTypeOK
  <2> QED  BY <2>1 DEF AuthCrash
<1>5. AccountsTypeOK' /\ OldSessionsEnd'
  BY <1>2, <1>3, <1>4 DEF AInv, AccountsTypeOK, OldSessionsEnd
<1>6. ChangedWritten' /\ ResetAlone'
  BY <1>1, <1>2, <1>3 DEF AInv, ChangedWritten, ResetAlone, Resetting
<1> QED  BY <1>5, <1>6 DEF AInv

LEMMA AccountsInductive == AInv /\ [AccountsNext]_authVars => AInv'
<1> SUFFICES ASSUME AInv, [AccountsNext]_authVars PROVE AInv'  OBVIOUS
<1>1. CASE UNCHANGED authVars
  BY <1>1 DEF authVars, AInv, AccountsTypeOK, ChangedWritten, ResetAlone, Resetting, OldSessionsEnd
<1>2. ASSUME NEW h \in AuthRequests, NEW u \in Emails, SetupRead(h, u) \/ LoginRead(h, u)
      PROVE  AInv'
  BY <1>2, BeginStep DEF SetupRead, LoginRead
<1>3. ASSUME NEW h \in AuthRequests, NEW s \in sessions,
             ChangeRead(h, s) \/ \E u \in Emails : ResetRead(h, s, u)
      PROVE  AInv'
  <2>1. s.user \in Emails
    BY DEF AInv, AccountsTypeOK, Session
  <2>2. CASE ChangeRead(h, s)
    BY <2>1, <2>2, BeginStep DEF ChangeRead
  <2>3. ASSUME NEW u \in Emails, ResetRead(h, s, u) PROVE AInv'
    <3>1. password[u] >= 1
      BY <2>3 DEF ResetRead, AInv, AccountsTypeOK
    <3> QED  BY <2>3, <3>1, BeginStep DEF ResetRead
  <2> QED  BY <1>3, <2>2, <2>3
<1>4. ASSUME NEW h \in AuthRequests,
             \/ SetupCommit(h) \/ LoginInsert(h) \/ ChangeUpdate(h) \/ ChangeDelete(h)
             \/ ResetUpdate(h) \/ ResetDelete(h) \/ ResetCommit(h)
      PROVE  AInv'
  BY <1>4, SetupCommitStep, LoginInsertStep, ChangeUpdateStep, ChangeDeleteStep, ResetUpdateStep,
     ResetDeleteStep, ResetCommitStep
<1>5. ASSUME NEW s \in sessions, Logout(s) \/ \E u \in Emails : CreateAccount(s, u)
      PROVE  AInv'
  BY <1>5, LogoutStep, CreateAccountStep
<1> QED  BY <1>1, <1>2, <1>3, <1>4, <1>5, AuthCrashStep DEF AccountsNext

(* When a new password has been answered for, by changePassword or by           *)
(* resetPassword, no session opened with an older one is left, but for a login  *)
(* that was inserting it meanwhile.                                             *)
THEOREM SessionsEnded == AccountsSpec => []OldSessionsEnd
<1>1. AInv => OldSessionsEnd
  BY DEF AInv
<1> QED  BY AccountsInitial, AccountsInductive, <1>1, PTL DEF AccountsSpec

=============================================================================
