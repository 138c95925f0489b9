--------------------------- MODULE MembershipProofs ---------------------------
(***************************************************************************)
(* Theorems about Membership, for any number of users, invitations and     *)
(* guests.  The two about owners assume that administrative requests do    *)
(* not overlap; those of guests may, with anything.                        *)
(***************************************************************************)
EXTENDS Membership, FiniteSetTheorems, TLAPS

\* What the locals of a request refer to, by its step.
ManagerLocals ==
  \A m \in Managers :
    /\ manager[m].step \in {"checking", "committing"} =>
         /\ manager[m].target \in Users
         /\ manager[m].new \in Roles \cup {"removed"}
    /\ manager[m].step \in {"inviting", "inserting"} =>
         /\ manager[m].target \in Users
         /\ manager[m].new \in Roles
    /\ manager[m].step \in {"authorized", "inviting", "inserting"} =>
         manager[m].as \in {"OWNER", "ADMIN"}
    /\ manager[m].step = "revoking" => manager[m].item \in Invitations

GuestLocals ==
  /\ \A g \in Guests :
       guest[g].step # "idle" => /\ guest[g].item \in Invitations
                                 /\ invitation[guest[g].item].user \in Users
  /\ \A i \in Invitations :
       invitation[i].user \in Users => invitation[i].role \in Roles

TypeInv == MemberTypeOK /\ ManagerLocals /\ GuestLocals

LEMMA IdleRequestTypes == IdleManager \in ManagerType /\ IdleGuest \in GuestType
                   /\ NoInvitation \in InvitationType
BY DEF IdleManager, IdleGuest, NoInvitation, ManagerType, GuestType, InvitationType

LEMMA InitTypes == MemberInit => TypeInv
<1> SUFFICES ASSUME MemberInit
             PROVE  TypeInv
  OBVIOUS
<1>1. MemberTypeOK
  BY IdleRequestTypes DEF MemberInit, MemberTypeOK, Roles
<1>2. ManagerLocals
  BY DEF MemberInit, ManagerLocals, IdleManager
<1>3. GuestLocals
  BY NoneAssumption DEF MemberInit, GuestLocals, IdleGuest, NoInvitation
<1>4. QED
  BY <1>1, <1>2, <1>3 DEF TypeInv

\* A request that moves on to a well-typed record whose locals fit its step keeps
\* the types of the requests.
LEMMA ManageTypes ==
  ASSUME TypeInv, NEW m \in Managers, NEW next \in ManagerType, Manage(m, next),
         next.step \in {"checking", "committing"} =>
           next.target \in Users /\ next.new \in Roles \cup {"removed"},
         next.step \in {"inviting", "inserting"} => next.target \in Users /\ next.new \in Roles,
         next.step \in {"authorized", "inviting", "inserting"} => next.as \in {"OWNER", "ADMIN"},
         next.step = "revoking" => next.item \in Invitations
  PROVE  (manager \in [Managers -> ManagerType])' /\ ManagerLocals'
BY DEF TypeInv, MemberTypeOK, ManagerLocals, Manage

\* In particular one that ends.
LEMMA IdleRequestTypesKept ==
  ASSUME TypeInv, NEW m \in Managers, Manage(m, IdleManager)
  PROVE  (manager \in [Managers -> ManagerType])' /\ ManagerLocals'
BY ManageTypes, IdleRequestTypes DEF IdleManager

\* The administrative requests keep the types.
LEMMA ManagerTypes ==
  ASSUME TypeInv, NEW m \in Managers
  PROVE  /\ \A as \in {"OWNER", "ADMIN"}, key \in BOOLEAN : Authorize(m, as, key) => TypeInv'
         /\ \A u \in Users, new \in Roles \cup {"removed"} : LoadMember(m, u, new) => TypeInv'
         /\ \A u \in Users, r \in Roles : CheckInvitee(m, u, r) => TypeInv'
         /\ CheckOwners(m) => TypeInv'
         /\ CommitMember(m) => TypeInv'
         /\ CheckInvitations(m) => TypeInv'
         /\ CommitRevocation(m) => TypeInv'
         /\ \A i \in Invitations : InsertInvitation(m, i) \/ LoadInvitation(m, i) => TypeInv'
         /\ \A r \in KeyRoles : CreateKey(m, r) => TypeInv'
<1>0. manager[m] \in ManagerType
  BY DEF TypeInv, MemberTypeOK
<1>1. ASSUME NEW as \in {"OWNER", "ADMIN"}, NEW key \in BOOLEAN, Authorize(m, as, key)
      PROVE  TypeInv'
  <2> DEFINE next == [IdleManager EXCEPT !.step = "authorized", !.as = as, !.key = key]
  <2>1. next \in ManagerType
    BY <1>1 DEF Authorize, ManagerType, IdleManager, TypeInv, MemberTypeOK
  <2>2. next.step = "authorized" /\ next.as \in {"OWNER", "ADMIN"}
    BY <1>1 DEF Authorize, IdleManager
  <2>3. (manager \in [Managers -> ManagerType])' /\ ManagerLocals'
    BY <1>1, <2>1, <2>2, ManageTypes DEF Authorize
  <2>4. QED
    BY <1>1, <2>3 DEF Authorize, TypeInv, MemberTypeOK, GuestLocals
<1>2. ASSUME NEW u \in Users, NEW new \in Roles \cup {"removed"}, LoadMember(m, u, new)
      PROVE  TypeInv'
  <2> DEFINE next == [IdleManager EXCEPT !.as = manager[m].as,
       !.step = IF role[u] = "OWNER" /\ new # "OWNER" THEN "checking" ELSE "committing",
       !.target = u, !.id = rowId[u], !.seen = role[u], !.new = new]
  <2>1. role[u] \in Roles \cup {None}
    BY DEF TypeInv, MemberTypeOK
  <2>2. rowId[u] \in Nat
    BY DEF TypeInv, MemberTypeOK
  <2>3. next \in ManagerType
    BY <1>0, <2>1, <2>2 DEF ManagerType, IdleManager
  <2>4. next.step \in {"checking", "committing"} /\ next.target = u /\ next.new = new
    BY DEF IdleManager
  <2>5. Manage(m, next)
    BY <1>2 DEF LoadMember
  <2>6. (manager \in [Managers -> ManagerType])' /\ ManagerLocals'
    <3> HIDE DEF next
    <3> QED
      BY <2>3, <2>4, <2>5, ManageTypes
  <2>7. QED
    BY <1>2, <2>6 DEF LoadMember, TypeInv, MemberTypeOK, GuestLocals
<1>3. ASSUME NEW u \in Users, NEW r \in Roles, CheckInvitee(m, u, r)
      PROVE  TypeInv'
  <2> DEFINE next == [manager[m] EXCEPT !.step = "inviting", !.target = u, !.new = r]
  <2>1. next \in ManagerType
    BY <1>0 DEF ManagerType
  <2>2. /\ next.step = "inviting" /\ next.target = u /\ next.new = r
        /\ next.as \in {"OWNER", "ADMIN"}
    BY <1>0, <1>3 DEF ManagerType, CheckInvitee, TypeInv, ManagerLocals
  <2>3. Manage(m, next)
    BY <1>3 DEF CheckInvitee
  <2>4. (manager \in [Managers -> ManagerType])' /\ ManagerLocals'
    <3> HIDE DEF next
    <3> QED
      BY <2>1, <2>2, <2>3, ManageTypes
  <2>5. QED
    BY <1>3, <2>4 DEF CheckInvitee, TypeInv, MemberTypeOK, GuestLocals
<1>4. ASSUME CheckOwners(m)
      PROVE  TypeInv'
  <2> DEFINE next == [manager[m] EXCEPT !.step = "committing"]
  <2>1. /\ next \in ManagerType /\ next.step = "committing"
        /\ next.target \in Users /\ next.new \in Roles \cup {"removed"}
    BY <1>0, <1>4 DEF ManagerType, CheckOwners, TypeInv, ManagerLocals
  <2>2. Manage(m, next) \/ Manage(m, IdleManager)
    BY <1>4 DEF CheckOwners
  <2>3. (manager \in [Managers -> ManagerType])' /\ ManagerLocals'
    <3> HIDE DEF next
    <3> QED
      BY <2>1, <2>2, ManageTypes, IdleRequestTypesKept
  <2>4. QED
    BY <1>4, <2>3 DEF CheckOwners, TypeInv, MemberTypeOK, GuestLocals
<1>5. ASSUME CommitMember(m)
      PROVE  TypeInv'
  <2>1. manager[m].target \in Users /\ manager[m].new \in Roles \cup {"removed"}
    BY <1>5 DEF CommitMember, TypeInv, ManagerLocals
  <2>2. (role \in [Users -> Roles \cup {None}])'
    BY <1>5, <2>1 DEF CommitMember, TypeInv, MemberTypeOK
  <2>3. (manager \in [Managers -> ManagerType])' /\ ManagerLocals'
    BY <1>5, IdleRequestTypesKept DEF CommitMember
  <2>4. QED
    BY <1>5, <2>2, <2>3 DEF CommitMember, TypeInv, MemberTypeOK, GuestLocals
<1>6. ASSUME CheckInvitations(m)
      PROVE  TypeInv'
  <2> DEFINE next == [manager[m] EXCEPT !.step = "inserting"]
  <2>1. /\ next \in ManagerType /\ next.step = "inserting"
        /\ next.target \in Users /\ next.new \in Roles /\ next.as \in {"OWNER", "ADMIN"}
    BY <1>0, <1>6 DEF ManagerType, CheckInvitations, TypeInv, ManagerLocals
  <2>2. Manage(m, next) \/ Manage(m, IdleManager)
    BY <1>6 DEF CheckInvitations
  <2>3. (manager \in [Managers -> ManagerType])' /\ ManagerLocals'
    <3> HIDE DEF next
    <3> QED
      BY <2>1, <2>2, ManageTypes, IdleRequestTypesKept
  <2>4. QED
    BY <1>6, <2>3 DEF CheckInvitations, TypeInv, MemberTypeOK, GuestLocals
<1>7. ASSUME CommitRevocation(m)
      PROVE  TypeInv'
  <2>1. manager[m].item \in Invitations
    BY <1>7 DEF CommitRevocation, TypeInv, ManagerLocals
  <2>2. (invitation \in [Invitations -> InvitationType])' /\ GuestLocals'
    <3>1. (invitation \in [Invitations -> InvitationType])'
      BY <1>7, <2>1 DEF CommitRevocation, TypeInv, MemberTypeOK, InvitationType
    <3>2. \A i \in Invitations : /\ invitation'[i].user = invitation[i].user
                                 /\ invitation'[i].role = invitation[i].role
      BY <1>7, <2>1 DEF CommitRevocation, TypeInv, MemberTypeOK, InvitationType
    <3>3. QED
      BY <1>7, <3>1, <3>2 DEF CommitRevocation, TypeInv, GuestLocals
  <2>3. (manager \in [Managers -> ManagerType])' /\ ManagerLocals'
    BY <1>7, IdleRequestTypesKept DEF CommitRevocation
  <2>4. QED
    BY <1>7, <2>2, <2>3 DEF CommitRevocation, TypeInv, MemberTypeOK
<1>8. ASSUME NEW i \in Invitations, InsertInvitation(m, i)
      PROVE  TypeInv'
  <2> DEFINE new == [NoInvitation EXCEPT !.user = manager[m].target, !.role = manager[m].new,
                                         !.by = manager[m].as]
  <2>1. /\ manager[m].target \in Users /\ manager[m].new \in Roles
        /\ manager[m].as \in {"OWNER", "ADMIN"}
    BY <1>8 DEF InsertInvitation, TypeInv, ManagerLocals
  <2>2. new \in InvitationType /\ new.user \in Users /\ new.role \in Roles
    BY <2>1 DEF InvitationType, NoInvitation
  <2>3. invitation' = [invitation EXCEPT ![i] = new] /\ guest' = guest
    BY <1>8 DEF InsertInvitation
  <2>4. (invitation \in [Invitations -> InvitationType])' /\ GuestLocals'
    <3> HIDE DEF new
    <3> QED
      BY <2>2, <2>3 DEF TypeInv, MemberTypeOK, GuestLocals
  <2>5. (manager \in [Managers -> ManagerType])' /\ ManagerLocals'
    BY <1>8, IdleRequestTypesKept DEF InsertInvitation
  <2>6. QED
    BY <1>8, <2>4, <2>5 DEF InsertInvitation, TypeInv, MemberTypeOK
<1>9. ASSUME NEW i \in Invitations, LoadInvitation(m, i)
      PROVE  TypeInv'
  <2> DEFINE next == [IdleManager EXCEPT !.step = "revoking", !.item = i]
  <2>1. next \in ManagerType /\ next.step = "revoking" /\ next.item = i
    BY DEF ManagerType, IdleManager
  <2>2. Manage(m, next)
    BY <1>9 DEF LoadInvitation
  <2>3. (manager \in [Managers -> ManagerType])' /\ ManagerLocals'
    <3> HIDE DEF next
    <3> QED
      BY <2>1, <2>2, ManageTypes
  <2>4. QED
    BY <1>9, <2>3 DEF LoadInvitation, TypeInv, MemberTypeOK, GuestLocals
<1>10. ASSUME NEW r \in KeyRoles, CreateKey(m, r)
       PROVE  TypeInv'
  <2>1. (manager \in [Managers -> ManagerType])' /\ ManagerLocals'
    BY <1>10, IdleRequestTypesKept DEF CreateKey
  <2>2. QED
    BY <1>10, <2>1 DEF CreateKey, TypeInv, MemberTypeOK, GuestLocals
<1>11. QED
  BY <1>1, <1>2, <1>3, <1>4, <1>5, <1>6, <1>7, <1>8, <1>9, <1>10

\* So do guests and the passing of time.
LEMMA GuestTypes ==
  ASSUME TypeInv
  PROVE  /\ \A g \in Guests : CheckMember(g) => TypeInv'
         /\ \A g \in Guests : CommitAcceptance(g) => TypeInv'
         /\ \A g \in Guests, i \in Invitations : Present(g, i) => TypeInv'
         /\ \A i \in Invitations : ExpireInvitation(i) => TypeInv'
         /\ \A r \in KeyRoles : EndKeys(r) => TypeInv'
<1> USE DEF TypeInv, MemberTypeOK, GuestLocals
<1>1. ASSUME NEW g \in Guests, CheckMember(g)
      PROVE  TypeInv'
  BY <1>1 DEF CheckMember, GuestType, ManagerLocals
<1>2. ASSUME NEW g \in Guests, CommitAcceptance(g)
      PROVE  TypeInv'
  <2>1. /\ guest[g].item \in Invitations
        /\ invitation[guest[g].item].user \in Users
        /\ invitation[guest[g].item].role \in Roles
    BY <1>2 DEF CommitAcceptance
  <2>2. (role \in [Users -> Roles \cup {None}] /\ rowId \in [Users -> Nat])'
    BY <1>2, <2>1 DEF CommitAcceptance
  <2>3. (invitation \in [Invitations -> InvitationType])'
    <3> DEFINE accepted == [invitation EXCEPT ![guest[g].item].accepted = TRUE]
    <3>1. accepted \in [Invitations -> InvitationType]
      BY <2>1 DEF InvitationType
    <3>2. invitation' = accepted \/ invitation' = invitation
      BY <1>2 DEF CommitAcceptance
    <3>3. QED
      BY <3>1, <3>2
  <2>4. \A i \in Invitations : /\ invitation'[i].user = invitation[i].user
                               /\ invitation'[i].role = invitation[i].role
    BY <1>2, <2>1 DEF CommitAcceptance, InvitationType
  <2>5. (guest \in [Guests -> GuestType])' /\ GuestLocals'
    BY <1>2, <2>4, IdleRequestTypes DEF CommitAcceptance, IdleGuest
  <2>6. QED
    BY <1>2, <2>2, <2>3, <2>5 DEF CommitAcceptance, ManagerLocals
<1>3. ASSUME NEW g \in Guests, NEW i \in Invitations, Present(g, i)
      PROVE  TypeInv'
  <2>1. invitation[i].user \in Users
    BY <1>3 DEF Present, Open, Pending, InvitationType
  <2>2. [IdleGuest EXCEPT !.step = "presented", !.item = i] \in GuestType
    BY DEF IdleGuest, GuestType
  <2>3. (guest \in [Guests -> GuestType])' /\ GuestLocals'
    BY <1>3, <2>1, <2>2 DEF Present, IdleGuest
  <2>4. QED
    BY <1>3, <2>3 DEF Present, ManagerLocals
<1>4. ASSUME NEW i \in Invitations, ExpireInvitation(i)
      PROVE  TypeInv'
  BY <1>4 DEF ExpireInvitation, InvitationType, ManagerLocals
<1>5. ASSUME NEW r \in KeyRoles, EndKeys(r)
      PROVE  TypeInv'
  BY <1>5 DEF EndKeys, ManagerLocals
<1>6. QED
  BY <1>1, <1>2, <1>3, <1>4, <1>5

LEMMA TypeInvariant == MemberSpec => []TypeInv
<1>1. ASSUME TypeInv, [MemberNext]_memberVars
      PROVE  TypeInv'
  <2>1. CASE UNCHANGED memberVars
    BY <1>1, <2>1 DEF memberVars, TypeInv, MemberTypeOK, ManagerLocals, GuestLocals
  <2>2. CASE MemberNext
    BY <1>1, <2>2, ManagerTypes, GuestTypes DEF MemberNext
  <2>3. QED
    BY <1>1, <2>1, <2>2
<1>2. QED
  BY InitTypes, <1>1, PTL DEF MemberSpec

\* Rows, invitations and the locals of requests are well typed, whoever overlaps
\* with whom.
THEOREM MembershipTypes == MemberSpec => []MemberTypeOK
<1>1. TypeInv => MemberTypeOK
  BY DEF TypeInv
<1>2. QED
  BY TypeInvariant, <1>1, PTL

-----------------------------------------------------------------------------
(* Owners.  Everything a request has loaded is still so when it commits: only *)
(* administrative requests change or remove a row, and guests only add one    *)
(* for a user without.                                                        *)

TargetIsLoaded ==
  \A m \in Managers : manager[m].step \in {"checking", "committing"} =>
    /\ role[manager[m].target] = manager[m].seen
    /\ rowId[manager[m].target] = manager[m].id
    /\ manager[m].seen # None

\* Ownership is touched by role OWNER only.
GrantsAreOwners ==
  /\ \A m \in Managers :
       /\ manager[m].step \in {"checking", "committing"} =>
            ("OWNER" \in {manager[m].seen, manager[m].new} => manager[m].as = "OWNER")
       /\ manager[m].step \in {"inviting", "inserting"} =>
            (manager[m].new = "OWNER" => manager[m].as = "OWNER")
  /\ \A i \in Invitations : invitation[i].role = "OWNER" => invitation[i].by = "OWNER"

\* A request about to take ownership away has seen another owner, who is still one.
AnotherOwner ==
  \A m \in Managers :
    manager[m].step = "committing" /\ manager[m].seen = "OWNER" /\ manager[m].new # "OWNER" =>
      \E o \in Users : o # manager[m].target /\ role[o] = "OWNER"

OwnerInv == OwnerRetained /\ TargetIsLoaded /\ GrantsAreOwners /\ AnotherOwner

LEMMA InitOwners == MemberInit => OwnerInv
BY NoneAssumption
DEF MemberInit, OwnerInv, OwnerRetained, TargetIsLoaded, GrantsAreOwners, AnotherOwner,
    NoInvitation, IdleManager

\* Administrative requests, one at a time.
LEMMA ManagerOwners ==
  ASSUME TypeInv, OwnerInv, SerialManagers, NEW m \in Managers
  PROVE  /\ \A as \in {"OWNER", "ADMIN"}, key \in BOOLEAN : Authorize(m, as, key) => OwnerInv'
         /\ \A u \in Users, new \in Roles \cup {"removed"} : LoadMember(m, u, new) => OwnerInv'
         /\ \A u \in Users, r \in Roles : CheckInvitee(m, u, r) => OwnerInv'
         /\ CheckOwners(m) => OwnerInv'
         /\ CommitMember(m) => OwnerInv'
         /\ CheckInvitations(m) => OwnerInv'
         /\ CommitRevocation(m) => OwnerInv'
         /\ \A i \in Invitations : InsertInvitation(m, i) \/ LoadInvitation(m, i) => OwnerInv'
         /\ \A r \in KeyRoles : CreateKey(m, r) => OwnerInv'
<1> USE DEF OwnerInv
<1>1. /\ \A n \in Managers : n = m
      /\ manager[m] \in ManagerType
      /\ manager \in [Managers -> ManagerType]
  BY DEF SerialManagers, TypeInv, MemberTypeOK
<1>2. ASSUME NEW next, Manage(m, next)
      PROVE  \A n \in Managers : manager'[n] = next
  BY <1>1, <1>2 DEF Manage
<1>3. ASSUME Manage(m, IdleManager)
      PROVE  /\ TargetIsLoaded' /\ AnotherOwner'
             /\ \A n \in Managers : manager'[n].step = "idle"
  BY <1>2, <1>3 DEF IdleManager, TargetIsLoaded, AnotherOwner
<1>4. ASSUME NEW as \in {"OWNER", "ADMIN"}, NEW key \in BOOLEAN, Authorize(m, as, key)
      PROVE  OwnerInv'
  <2> DEFINE next == [IdleManager EXCEPT !.step = "authorized", !.as = as, !.key = key]
  <2>1. next.step = "authorized"
    BY DEF IdleManager
  <2>2. \A n \in Managers : manager'[n] = next
    BY <1>2, <1>4 DEF Authorize
  <2> HIDE DEF next
  <2>3. QED
    BY <1>4, <2>1, <2>2 DEF Authorize, OwnerRetained, TargetIsLoaded,
                            GrantsAreOwners, AnotherOwner
<1>5. ASSUME NEW u \in Users, NEW new \in Roles \cup {"removed"}, LoadMember(m, u, new)
      PROVE  OwnerInv'
  <2> DEFINE next == [IdleManager EXCEPT !.as = manager[m].as,
       !.step = IF role[u] = "OWNER" /\ new # "OWNER" THEN "checking" ELSE "committing",
       !.target = u, !.id = rowId[u], !.seen = role[u], !.new = new]
  <2>1. role[u] # None
    BY <1>5 DEF LoadMember
  <2>2. /\ next.step \in {"checking", "committing"}
        /\ next.step = "committing" => next.seen # "OWNER" \/ next.new = "OWNER"
        /\ next.target = u /\ next.id = rowId[u] /\ next.seen = role[u] /\ next.new = new
        /\ next.as = manager[m].as
    BY <1>1, <2>1 DEF IdleManager
  <2>3. "OWNER" \in {role[u], new} => manager[m].as = "OWNER"
    BY <1>5, <2>1 DEF LoadMember, MayChange
  <2>4. \A n \in Managers : manager'[n] = next
    BY <1>2, <1>5 DEF LoadMember
  <2> HIDE DEF next
  <2>5. QED
    BY <1>5, <2>1, <2>2, <2>3, <2>4 DEF LoadMember, OwnerRetained, TargetIsLoaded, GrantsAreOwners, AnotherOwner
<1>6. ASSUME NEW u \in Users, NEW r \in Roles, CheckInvitee(m, u, r)
      PROVE  OwnerInv'
  <2> DEFINE next == [manager[m] EXCEPT !.step = "inviting", !.target = u, !.new = r]
  <2>1. /\ next.step = "inviting" /\ next.new = r
        /\ next.as = manager[m].as
    BY <1>1 DEF ManagerType
  <2>2. \A n \in Managers : manager'[n] = next
    BY <1>2, <1>6 DEF CheckInvitee
  <2> HIDE DEF next
  <2>3. QED
    BY <1>6, <2>1, <2>2 DEF CheckInvitee, OwnerRetained, TargetIsLoaded,
                            GrantsAreOwners, AnotherOwner
<1>7. ASSUME CheckOwners(m)
      PROVE  OwnerInv'
  <2>1. CASE OtherOwner(manager[m].target)
    <3> DEFINE next == [manager[m] EXCEPT !.step = "committing"]
    <3>1. /\ next.step = "committing" /\ next.target = manager[m].target
          /\ next.id = manager[m].id /\ next.seen = manager[m].seen /\ next.new = manager[m].new
          /\ next.as = manager[m].as
      BY <1>1 DEF ManagerType
    <3>2. \A n \in Managers : manager'[n] = next
      BY <1>2, <1>7, <2>1 DEF CheckOwners
    <3> HIDE DEF next
    <3>3. QED
      BY <1>7, <2>1, <3>1, <3>2 DEF CheckOwners, OtherOwner, OwnerRetained, TargetIsLoaded, GrantsAreOwners, AnotherOwner
  <2>2. CASE ~ OtherOwner(manager[m].target)
    BY <1>3, <1>7, <2>2 DEF CheckOwners, OwnerRetained, GrantsAreOwners
  <2>3. QED
    BY <2>1, <2>2
<1>8. ASSUME CommitMember(m)
      PROVE  OwnerInv'
  <2> DEFINE u == manager[m].target
  <2>1. /\ u \in Users
        /\ role[u] = manager[m].seen
        /\ manager[m].seen = "OWNER" /\ manager[m].new # "OWNER" =>
             \E o \in Users : o # u /\ role[o] = "OWNER"
    BY <1>8 DEF CommitMember, TypeInv, ManagerLocals, TargetIsLoaded, AnotherOwner
  <2>2. \/ role' = role
        \/ /\ manager[m].new # manager[m].seen
           /\ \A o \in Users : o # u => role'[o] = role[o]
    BY <1>8, <2>1 DEF CommitMember, TypeInv, MemberTypeOK
  <2>3. role' # role /\ manager[m].new = "OWNER" => role'[u] = "OWNER"
    BY <1>8, <2>1 DEF CommitMember, TypeInv, MemberTypeOK
  <2>4. OwnerRetained'
    BY <2>1, <2>2, <2>3 DEF OwnerRetained
  <2>5. QED
    BY <1>3, <1>8, <2>4 DEF CommitMember, GrantsAreOwners
<1>9. ASSUME CheckInvitations(m)
      PROVE  OwnerInv'
  <2>1. CASE Invited(manager[m].target)
    BY <1>3, <1>9, <2>1 DEF CheckInvitations, OwnerRetained, GrantsAreOwners
  <2>2. CASE ~ Invited(manager[m].target)
    <3> DEFINE next == [manager[m] EXCEPT !.step = "inserting"]
    <3>1. /\ next.step = "inserting" /\ next.new = manager[m].new
          /\ next.as = manager[m].as
      BY <1>1 DEF ManagerType
    <3>2. \A n \in Managers : manager'[n] = next
      BY <1>2, <1>9, <2>2 DEF CheckInvitations
    <3> HIDE DEF next
    <3>3. QED
      BY <1>9, <3>1, <3>2 DEF CheckInvitations, OwnerRetained, TargetIsLoaded, GrantsAreOwners, AnotherOwner
  <2>3. QED
    BY <2>1, <2>2
<1>10. ASSUME CommitRevocation(m)
      PROVE  OwnerInv'
  <2>1. \A i \in Invitations : /\ invitation'[i].role = invitation[i].role
                               /\ invitation'[i].by = invitation[i].by
    BY <1>10 DEF CommitRevocation, TypeInv, MemberTypeOK, InvitationType
  <2>2. QED
    BY <1>3, <1>10, <2>1 DEF CommitRevocation, OwnerRetained, GrantsAreOwners
<1>11. ASSUME NEW i \in Invitations, InsertInvitation(m, i)
      PROVE  OwnerInv'
  <2>1. invitation'[i].role = "OWNER" => invitation'[i].by = "OWNER"
    BY <1>11 DEF InsertInvitation, NoInvitation, GrantsAreOwners, TypeInv, MemberTypeOK
  <2>2. \A k \in Invitations : k # i => invitation'[k] = invitation[k]
    BY <1>11 DEF InsertInvitation, TypeInv, MemberTypeOK
  <2>3. QED
    BY <1>3, <1>11, <2>1, <2>2 DEF InsertInvitation, OwnerRetained, GrantsAreOwners
<1>12. ASSUME NEW i \in Invitations, LoadInvitation(m, i)
      PROVE  OwnerInv'
  <2> DEFINE next == [IdleManager EXCEPT !.step = "revoking", !.item = i]
  <2>1. next.step = "revoking"
    BY DEF IdleManager
  <2>2. \A n \in Managers : manager'[n] = next
    BY <1>2, <1>12 DEF LoadInvitation
  <2> HIDE DEF next
  <2>3. QED
    BY <1>12, <2>1, <2>2 DEF LoadInvitation, OwnerRetained, TargetIsLoaded,
                             GrantsAreOwners, AnotherOwner
<1>13. ASSUME NEW r \in KeyRoles, CreateKey(m, r)
       PROVE  OwnerInv'
  BY <1>3, <1>13 DEF CreateKey, OwnerRetained, GrantsAreOwners
<1>14. QED
  BY <1>4, <1>5, <1>6, <1>7, <1>8, <1>9, <1>10, <1>11, <1>12, <1>13

\* Guests and time: a member row may appear, none changes or goes away.
LEMMA GuestOwners ==
  ASSUME TypeInv, OwnerInv
  PROVE  /\ \A g \in Guests : CheckMember(g) => OwnerInv'
         /\ \A g \in Guests : CommitAcceptance(g) => OwnerInv'
         /\ \A g \in Guests, i \in Invitations : Present(g, i) => OwnerInv'
         /\ \A i \in Invitations : ExpireInvitation(i) => OwnerInv'
         /\ \A r \in KeyRoles : EndKeys(r) => OwnerInv'
<1> USE DEF OwnerInv
<1>1. ASSUME NEW g \in Guests, CheckMember(g) \/ \E i \in Invitations : Present(g, i)
      PROVE  OwnerInv'
  <2>1. role' = role /\ rowId' = rowId /\ invitation' = invitation /\ manager' = manager
    BY <1>1 DEF CheckMember, Present
  <2>2. QED
    BY <2>1 DEF OwnerRetained, TargetIsLoaded, GrantsAreOwners, AnotherOwner
<1>2. ASSUME NEW g \in Guests, CommitAcceptance(g)
      PROVE  OwnerInv'
  <2>1. guest[g].item \in Invitations /\ invitation[guest[g].item].user \in Users
    BY <1>2 DEF CommitAcceptance, TypeInv, GuestLocals
  <2>2. \A u \in Users : role[u] # None => role'[u] = role[u] /\ rowId'[u] = rowId[u]
    BY <1>2, <2>1 DEF CommitAcceptance, TypeInv, MemberTypeOK
  <2>3. \A i \in Invitations : /\ invitation'[i].role = invitation[i].role
                               /\ invitation'[i].by = invitation[i].by
    BY <1>2, <2>1 DEF CommitAcceptance, TypeInv, MemberTypeOK, InvitationType
  <2>4. manager' = manager
    BY <1>2 DEF CommitAcceptance
  <2>5. OwnerRetained' /\ AnotherOwner'
    BY <2>2, <2>4, NoneAssumption DEF OwnerRetained, AnotherOwner
  <2>7. TargetIsLoaded'
    BY <2>2, <2>4 DEF TargetIsLoaded, TypeInv, ManagerLocals
  <2>8. QED
    BY <2>3, <2>4, <2>5, <2>7 DEF GrantsAreOwners
<1>3. ASSUME NEW i \in Invitations, ExpireInvitation(i)
      PROVE  OwnerInv'
  <2>1. \A k \in Invitations : /\ invitation'[k].role = invitation[k].role
                               /\ invitation'[k].by = invitation[k].by
    BY <1>3 DEF ExpireInvitation, TypeInv, MemberTypeOK, InvitationType
  <2>2. QED
    BY <1>3, <2>1 DEF ExpireInvitation, OwnerRetained, TargetIsLoaded, GrantsAreOwners,
                      AnotherOwner
<1>4. ASSUME NEW r \in KeyRoles, EndKeys(r)
      PROVE  OwnerInv'
  BY <1>4 DEF EndKeys, OwnerRetained, TargetIsLoaded, GrantsAreOwners, AnotherOwner
<1>5. QED
  BY <1>1, <1>2, <1>3, <1>4

LEMMA OwnerInvariant ==
  ASSUME SerialManagers
  PROVE  MemberSpec => [](TypeInv /\ OwnerInv)
<1>1. ASSUME TypeInv, OwnerInv, [MemberNext]_memberVars
      PROVE  OwnerInv'
  <2>1. CASE UNCHANGED memberVars
    BY <1>1, <2>1 DEF memberVars, OwnerInv, OwnerRetained, TargetIsLoaded,
                      GrantsAreOwners, AnotherOwner
  <2>2. CASE MemberNext
    BY <1>1, <2>2, ManagerOwners, GuestOwners DEF MemberNext
  <2>3. QED
    BY <1>1, <2>1, <2>2
<1>2. QED
  BY InitOwners, TypeInvariant, <1>1, PTL DEF MemberSpec

\* An organization never loses its last owner, whatever sequence of demotions,
\* removals, invitations and acceptances it goes through, as long as administrative
\* requests do not overlap.
THEOREM OwnersAreRetained ==
  ASSUME SerialManagers
  PROVE  MemberSpec => []OwnerRetained
<1>1. OwnerInv => OwnerRetained
  BY DEF OwnerInv
<1>2. QED
  BY OwnerInvariant, <1>1, PTL

\* Nobody becomes or stops being an owner but by role OWNER, a member's or an API key's, through
\* however many overlapping acceptances, as long as administrative requests do not overlap.
\* An ADMIN may make such a key: the theorem does not keep ownership from the ADMINs.
THEOREM OwnershipStaysWithOwners ==
  ASSUME SerialManagers
  PROVE  MemberSpec => OwnershipIsOwners
<1> DEFINE ByOwner(u) ==
      \/ \E m \in Managers : /\ manager[m].step = "committing"
                             /\ manager[m].target = u
                             /\ manager[m].as = "OWNER"
      \/ \E g \in Guests : /\ role'[u] = "OWNER"
                           /\ guest[g].step = "accepting"
                           /\ invitation[guest[g].item].user = u
                           /\ invitation[guest[g].item].by = "OWNER"
<1>1. ASSUME TypeInv, OwnerInv, [MemberNext]_memberVars, NEW u \in Users,
             (role[u] = "OWNER") # (role'[u] = "OWNER")
      PROVE  ByOwner(u)
  <2>1. \/ \E m \in Managers : CommitMember(m)
        \/ \E g \in Guests : CommitAcceptance(g)
    BY <1>1 DEF MemberNext, memberVars, Authorize, LoadMember, CheckInvitee, CheckOwners, CheckInvitations,
                CommitRevocation, InsertInvitation, LoadInvitation, CheckMember, Present, ExpireInvitation,
                CreateKey, EndKeys
  <2>2. ASSUME NEW m \in Managers, CommitMember(m)
        PROVE  ByOwner(u)
    <3>1. manager[m].step = "committing" /\ manager[m].target = u
      BY <1>1, <2>2 DEF CommitMember, TypeInv, MemberTypeOK
    <3>2. role'[u] = IF manager[m].new = "removed" THEN None ELSE manager[m].new
      BY <1>1, <2>2, <3>1 DEF CommitMember, TypeInv, MemberTypeOK
    <3>3. "OWNER" \in {manager[m].seen, manager[m].new}
      BY <1>1, <3>1, <3>2, NoneAssumption DEF OwnerInv, TargetIsLoaded
    <3>4. manager[m].as = "OWNER"
      BY <1>1, <3>1, <3>3 DEF OwnerInv, GrantsAreOwners
    <3>5. QED
      BY <3>1, <3>4
  <2>3. ASSUME NEW g \in Guests, CommitAcceptance(g)
        PROVE  ByOwner(u)
    <3>1. guest[g].item \in Invitations /\ invitation[guest[g].item].user \in Users
      BY <1>1, <2>3 DEF CommitAcceptance, TypeInv, GuestLocals
    <3>2. /\ guest[g].step = "accepting"
          /\ invitation[guest[g].item].user = u
          /\ role[u] = None
          /\ role'[u] = invitation[guest[g].item].role
      BY <1>1, <2>3, <3>1 DEF CommitAcceptance, TypeInv, MemberTypeOK
    <3>3. role'[u] = "OWNER"
      BY <1>1, <3>2, NoneAssumption
    <3>4. invitation[guest[g].item].by = "OWNER"
      BY <1>1, <3>1, <3>2, <3>3 DEF OwnerInv, GrantsAreOwners
    <3>5. QED
      BY <3>2, <3>3, <3>4
  <2>4. QED
    BY <2>1, <2>2, <2>3
<1>2. ASSUME TypeInv, OwnerInv, [MemberNext]_memberVars
      PROVE  [\A u \in Users : (role[u] = "OWNER") # (role'[u] = "OWNER") => ByOwner(u)]_memberVars
  BY <1>1, <1>2
<1>3. QED
  BY OwnerInvariant, <1>2, PTL DEF MemberSpec, OwnershipIsOwners

-----------------------------------------------------------------------------
(* Invitations.  Open ones appear by an insert only, and the insert has looked. *)

\* The administrative steps that touch no invitation and ready no insert.
LeavesInvitations(m) ==
  \/ \E as \in {"OWNER", "ADMIN"}, key \in BOOLEAN : Authorize(m, as, key)
  \/ \E u \in Users, new \in Roles \cup {"removed"} : LoadMember(m, u, new)
  \/ \E u \in Users, r \in Roles : CheckInvitee(m, u, r)
  \/ CheckOwners(m)
  \/ CommitMember(m)
  \/ \E i \in Invitations : LoadInvitation(m, i)
  \/ \E r \in KeyRoles : CreateKey(m, r)

\* The open invitations of u, and the requests between their check for one and their INSERT.
OpenFor(u)   == {i \in Invitations : Open(i) /\ invitation[i].user = u}
Inserting(u) == {m \in Managers : manager[m].step = "inserting" /\ manager[m].target = u}

\* Each request that may still insert leaves room for its invitation.
InvitationInv ==
  \A u \in Users : /\ IsFiniteSet(OpenFor(u))
                   /\ Cardinality(OpenFor(u)) + Cardinality(Inserting(u)) <= Cardinality(Managers)

LEMMA SmallerFits ==
  ASSUME NEW n \in Nat, NEW A, NEW I, IsFiniteSet(A), IsFiniteSet(I),
         Cardinality(A) + Cardinality(I) <= n, NEW B \in SUBSET A, NEW J \in SUBSET I
  PROVE  IsFiniteSet(B) /\ Cardinality(B) + Cardinality(J) <= n
<1>1. IsFiniteSet(B) /\ IsFiniteSet(J) /\ Cardinality(B) <= Cardinality(A) /\ Cardinality(J) <= Cardinality(I)
  BY FS_Subset
<1>2. Cardinality(A) \in Nat /\ Cardinality(I) \in Nat /\ Cardinality(B) \in Nat /\ Cardinality(J) \in Nat
  BY <1>1, FS_CardinalityType
<1>3. QED
  BY <1>1, <1>2

LEMMA OneMovesOver ==
  ASSUME NEW n \in Nat, NEW A, NEW I, IsFiniteSet(A), IsFiniteSet(I),
         Cardinality(A) + Cardinality(I) <= n, NEW x, NEW c \in I
  PROVE  IsFiniteSet(A \cup {x}) /\ Cardinality(A \cup {x}) + Cardinality(I \ {c}) <= n
<1>1. /\ IsFiniteSet(A \cup {x}) /\ Cardinality(A \cup {x}) \in {Cardinality(A), Cardinality(A) + 1}
      /\ Cardinality(I \ {c}) = Cardinality(I) - 1
  BY FS_AddElement, FS_RemoveElement
<1>2. Cardinality(A) \in Nat /\ Cardinality(I) \in Nat
  BY FS_CardinalityType
<1>3. QED
  BY <1>1, <1>2

LEMMA InsertingAreManagers ==
  \A u : /\ IsFiniteSet(Inserting(u)) /\ Cardinality(Inserting(u)) \in Nat
        /\ Cardinality(Inserting(u)) <= Cardinality(Managers) /\ Cardinality(Managers) \in Nat
BY ManagersAssumption, FS_Subset, FS_CardinalityType DEF Inserting

\* What may happen to the invitations of u: some close, one is inserted by a request that had
\* checked, or a request has checked and there is none.
StaysInRoom(u) ==
  \/ OpenFor(u)' \subseteq OpenFor(u) /\ Inserting(u)' \subseteq Inserting(u)
  \/ \E i, m : /\ m \in Inserting(u)
              /\ OpenFor(u)' = OpenFor(u) \cup {i} /\ Inserting(u)' = Inserting(u) \ {m}
  \/ OpenFor(u) = {} /\ OpenFor(u)' = {}

LEMMA RoomIsKept ==
  ASSUME InvitationInv, \A u \in Users : StaysInRoom(u)
  PROVE  InvitationInv'
<1>0. SUFFICES ASSUME NEW u \in Users
               PROVE  /\ IsFiniteSet(OpenFor(u)')
                      /\ Cardinality(OpenFor(u)') + Cardinality(Inserting(u)') <= Cardinality(Managers)
  BY DEF InvitationInv
<1> DEFINE A == OpenFor(u)
           I == Inserting(u)
<1>1. /\ IsFiniteSet(A) /\ IsFiniteSet(I) /\ Cardinality(Managers) \in Nat
      /\ Cardinality(A) + Cardinality(I) <= Cardinality(Managers)
  BY InsertingAreManagers DEF InvitationInv
<1>2. I' \subseteq Managers
  BY DEF Inserting
<1>3. IsFiniteSet(I') /\ Cardinality(I') \in Nat /\ Cardinality(I') <= Cardinality(Managers)
  BY <1>2, ManagersAssumption, FS_Subset, FS_CardinalityType
<1>4. \/ A' \subseteq A /\ I' \subseteq I
      \/ \E i, m : m \in I /\ A' = A \cup {i} /\ I' = I \ {m}
      \/ A = {} /\ A' = {}
  BY DEF StaysInRoom
<1> HIDE DEF A, I
<1>5. CASE A' \subseteq A /\ I' \subseteq I
  BY <1>1, <1>5, SmallerFits DEF A, I
<1>6. CASE \E i, m : m \in I /\ A' = A \cup {i} /\ I' = I \ {m}
  <2>1. PICK i, m : m \in I /\ A' = A \cup {i} /\ I' = I \ {m}
    BY <1>6
  <2>2. IsFiniteSet(A \cup {i}) /\ Cardinality(A \cup {i}) + Cardinality(I \ {m}) <= Cardinality(Managers)
    BY <1>1, <2>1, OneMovesOver
  <2>3. IsFiniteSet(A') /\ Cardinality(A') + Cardinality(I') <= Cardinality(Managers)
    BY <2>1, <2>2
  <2>4. QED
    BY <2>3 DEF A, I
<1>7. CASE A = {} /\ A' = {}
  <2>1. IsFiniteSet(A') /\ Cardinality(A') = 0
    BY <1>7, FS_EmptySet
  <2>2. QED
    BY <1>3, <2>1 DEF A, I
<1>8. QED
  BY <1>4, <1>5, <1>6, <1>7

\* Whatever opens no invitation and readies no insert keeps the invariant.
LEMMA NothingOpens ==
  ASSUME InvitationInv,
         \A i \in Invitations : Open(i)' => Open(i) /\ invitation'[i].user = invitation[i].user,
         \A m \in Managers : manager'[m].step = "inserting" =>
           manager[m].step = "inserting" /\ manager'[m].target = manager[m].target
  PROVE  InvitationInv'
<1>1. \A u \in Users : OpenFor(u)' \subseteq OpenFor(u)
  BY DEF OpenFor
<1>2. \A u \in Users : Inserting(u)' \subseteq Inserting(u)
  BY DEF Inserting
<1>3. QED
  BY <1>1, <1>2, RoomIsKept DEF StaysInRoom

\* However administrative requests, guests and time interleave, an address has no more open
\* invitations than administrative requests overlap.
THEOREM OpenInvitationsBounded == MemberSpec => []OpenInvitationsAreFew
<1>1. MemberInit => InvitationInv
  <2> SUFFICES ASSUME MemberInit, NEW u \in Users
               PROVE  /\ IsFiniteSet(OpenFor(u))
                      /\ Cardinality(OpenFor(u)) + Cardinality(Inserting(u)) <= Cardinality(Managers)
    BY DEF InvitationInv
  <2>1. OpenFor(u) = {} /\ Inserting(u) = {}
    BY DEF MemberInit, OpenFor, Inserting, Open, Pending, NoInvitation, IdleManager
  <2>2. QED
    BY <2>1, InsertingAreManagers, FS_EmptySet
<1>2. ASSUME TypeInv, InvitationInv, [MemberNext]_memberVars
      PROVE  InvitationInv'
  <2> USE <1>2
  <2>1. CASE \/ UNCHANGED memberVars
             \/ \E g \in Guests, i \in Invitations : Present(g, i)
             \/ \E g \in Guests : CheckMember(g)
             \/ \E r \in KeyRoles : EndKeys(r)
    <3>1. invitation' = invitation /\ manager' = manager
      BY <2>1 DEF memberVars, Present, CheckMember, EndKeys
    <3>2. QED
      BY <3>1, NothingOpens DEF Open, Pending
  <2>2. CASE \E g \in Guests : CommitAcceptance(g)
    <3>1. PICK g \in Guests : CommitAcceptance(g)
      BY <2>2
    <3>2. guest[g].item \in Invitations
      BY <3>1 DEF CommitAcceptance, TypeInv, GuestLocals
    <3>3. \A i \in Invitations : /\ invitation'[i].user = invitation[i].user
                                 /\ invitation'[i].revoked = invitation[i].revoked
                                 /\ invitation'[i].expired = invitation[i].expired
                                 /\ invitation[i].accepted => invitation'[i].accepted
      BY <3>1, <3>2 DEF CommitAcceptance, TypeInv, MemberTypeOK, InvitationType
    <3>4. manager' = manager
      BY <3>1 DEF CommitAcceptance
    <3>5. QED
      BY <3>3, <3>4, NothingOpens DEF Open, Pending
  <2>3. CASE \E i \in Invitations : ExpireInvitation(i)
    <3>1. PICK i \in Invitations : ExpireInvitation(i)
      BY <2>3
    <3>2. \A k \in Invitations : /\ invitation'[k].user = invitation[k].user
                                 /\ invitation'[k].revoked = invitation[k].revoked
                                 /\ invitation'[k].accepted = invitation[k].accepted
                                 /\ invitation[k].expired => invitation'[k].expired
      BY <3>1 DEF ExpireInvitation, TypeInv, MemberTypeOK, InvitationType
    <3>3. manager' = manager
      BY <3>1 DEF ExpireInvitation
    <3>4. QED
      BY <3>2, <3>3, NothingOpens DEF Open, Pending
  <2>4. ASSUME NEW m \in Managers, LeavesInvitations(m)
        PROVE  InvitationInv'
    <3>1. invitation' = invitation
      BY <2>4 DEF LeavesInvitations, Authorize, LoadMember, CheckInvitee, CheckOwners, CommitMember, LoadInvitation, CreateKey
    <3>2. manager[m] \in ManagerType /\ manager \in [Managers -> ManagerType]
      BY DEF TypeInv, MemberTypeOK
    <3>3. manager'[m].step # "inserting"
      <4>1. \A next : Manage(m, next) => manager'[m] = next
        BY <3>2 DEF Manage
      <4>2. CASE \E as \in {"OWNER", "ADMIN"}, key \in BOOLEAN : Authorize(m, as, key)
        BY <4>1, <4>2 DEF Authorize, IdleManager
      <4>3. CASE CommitMember(m) \/ \E r \in KeyRoles : CreateKey(m, r)
        <5>1. Manage(m, IdleManager)
          BY <4>3 DEF CommitMember, CreateKey
        <5>2. QED
          BY <4>1, <5>1 DEF IdleManager
      <4>4. CASE CheckOwners(m)
        <5>1. CASE OtherOwner(manager[m].target)
          BY <3>2, <4>4, <5>1 DEF CheckOwners, ManagerType, Manage
        <5>2. CASE ~ OtherOwner(manager[m].target)
          BY <3>2, <4>4, <5>2 DEF CheckOwners, IdleManager, Manage
        <5>3. QED
          BY <5>1, <5>2
      <4>5. CASE \E u \in Users, new \in Roles \cup {"removed"} : LoadMember(m, u, new)
        BY <3>2, <4>5 DEF LoadMember, IdleManager, ManagerType, Manage
      <4>6. CASE \/ \E u \in Users, r \in Roles : CheckInvitee(m, u, r)
                 \/ \E i \in Invitations : LoadInvitation(m, i)
        <5>1. CASE \E u \in Users, r \in Roles : CheckInvitee(m, u, r)
          BY <3>2, <5>1 DEF CheckInvitee, ManagerType, Manage
        <5>2. CASE \E i \in Invitations : LoadInvitation(m, i)
          BY <4>1, <5>2 DEF LoadInvitation, IdleManager
        <5>3. QED
          BY <4>6, <5>1, <5>2
      <4>7. QED
        BY <2>4, <4>2, <4>3, <4>4, <4>5, <4>6 DEF LeavesInvitations
    <3>4. \A n \in Managers : n # m => manager'[n] = manager[n]
      BY <2>4, <3>2 DEF LeavesInvitations, Authorize, LoadMember, CheckInvitee, CheckOwners,
                        CommitMember, LoadInvitation, CreateKey, Manage
    <3>5. QED
      BY <3>1, <3>3, <3>4, NothingOpens DEF Open, Pending
  <2>5. ASSUME NEW m \in Managers, CheckInvitations(m)
        PROVE  InvitationInv'
    <3>1. manager[m] \in ManagerType /\ manager \in [Managers -> ManagerType]
      BY DEF TypeInv, MemberTypeOK
    <3>2. /\ \A n \in Managers : n # m => manager'[n] = manager[n]
          /\ manager'[m].step = "inserting" =>
               manager'[m].target = manager[m].target /\ ~ Invited(manager[m].target)
      BY <2>5, <3>1 DEF CheckInvitations, Manage, IdleManager, ManagerType
    <3>3. invitation' = invitation
      BY <2>5 DEF CheckInvitations
    <3>4. ASSUME NEW u \in Users
          PROVE  StaysInRoom(u)
      <4>1. OpenFor(u)' = OpenFor(u)
        BY <3>3 DEF OpenFor, Open, Pending
      <4>2. CASE m \in Inserting(u)'
        <5>1. ~ Invited(u)
          BY <3>2, <4>2 DEF Inserting
        <5>2. OpenFor(u) = {}
          BY <5>1 DEF Invited, OpenFor
        <5>3. QED
          BY <4>1, <5>2 DEF StaysInRoom
      <4>3. CASE m \notin Inserting(u)'
        <5>1. Inserting(u)' \subseteq Inserting(u)
          BY <3>2, <4>3 DEF Inserting
        <5>2. QED
          BY <4>1, <5>1 DEF StaysInRoom
      <4>4. QED
        BY <4>2, <4>3
    <3>5. QED
      BY <3>4, RoomIsKept
  <2>6. ASSUME NEW m \in Managers, CommitRevocation(m)
        PROVE  InvitationInv'
    <3>1. manager[m].item \in Invitations
      BY <2>6 DEF CommitRevocation, TypeInv, ManagerLocals
    <3>2. \A i \in Invitations : /\ invitation'[i].user = invitation[i].user
                                 /\ invitation'[i].accepted = invitation[i].accepted
                                 /\ invitation'[i].expired = invitation[i].expired
                                 /\ invitation[i].revoked => invitation'[i].revoked
      BY <2>6, <3>1 DEF CommitRevocation, TypeInv, MemberTypeOK, InvitationType
    <3>3. \A n \in Managers : manager'[n].step = "inserting" => manager'[n] = manager[n]
      BY <2>6 DEF CommitRevocation, Manage, IdleManager, TypeInv, MemberTypeOK
    <3>4. QED
      BY <3>2, <3>3, NothingOpens DEF Open, Pending
  <2>7. ASSUME NEW m \in Managers, NEW i \in Invitations, InsertInvitation(m, i)
        PROVE  InvitationInv'
    <3>1. /\ invitation'[i].user = manager[m].target
          /\ \A k \in Invitations : k # i => invitation'[k] = invitation[k]
      BY <2>7 DEF InsertInvitation, NoInvitation, TypeInv, MemberTypeOK
    <3>2. /\ manager[m].step = "inserting" /\ manager'[m].step # "inserting"
          /\ \A n \in Managers : n # m => manager'[n] = manager[n]
      BY <2>7 DEF InsertInvitation, Manage, IdleManager, TypeInv, MemberTypeOK
    <3>3. ASSUME NEW u \in Users
          PROVE  StaysInRoom(u)
      <4>1. OpenFor(u)' \subseteq OpenFor(u) \cup {i}
        BY <3>1 DEF OpenFor, Open, Pending
      <4>2. CASE u = manager[m].target
        <5>1. Inserting(u)' = Inserting(u) \ {m} /\ m \in Inserting(u)
          BY <3>2, <4>2 DEF Inserting
        <5>2. OpenFor(u)' = OpenFor(u) \cup {i}
          <6>1. Open(i)'
            BY <2>7, <4>2, NoneAssumption
              DEF InsertInvitation, NoInvitation, Open, Pending, TypeInv, MemberTypeOK
          <6>2. \A k \in Invitations : k # i => (k \in OpenFor(u)' <=> k \in OpenFor(u))
            BY <3>1 DEF OpenFor, Open, Pending
          <6>3. i \in OpenFor(u)'
            BY <3>1, <4>2, <6>1 DEF OpenFor
          <6>4. OpenFor(u) \subseteq Invitations
            BY DEF OpenFor
          <6>5. QED
            BY <4>1, <6>2, <6>3, <6>4
        <5>3. QED
          BY <5>1, <5>2 DEF StaysInRoom
      <4>3. CASE u # manager[m].target
        <5>1. Inserting(u)' \subseteq Inserting(u)
          BY <3>2, <4>3 DEF Inserting
        <5>2. OpenFor(u)' \subseteq OpenFor(u)
          BY <3>1, <4>1, <4>3 DEF OpenFor
        <5>3. QED
          BY <5>1, <5>2 DEF StaysInRoom
      <4>4. QED
        BY <4>2, <4>3
    <3>4. QED
      BY <3>3, RoomIsKept
  <2>8. ASSUME NEW m \in Managers,
               \/ LeavesInvitations(m) \/ CheckInvitations(m) \/ CommitRevocation(m)
               \/ \E i \in Invitations : InsertInvitation(m, i)
        PROVE  InvitationInv'
    BY <2>4, <2>5, <2>6, <2>7, <2>8
  <2>9. CASE MemberNext
    <3>1. ASSUME NEW m \in Managers,
                 \/ \E as \in {"OWNER", "ADMIN"}, key \in BOOLEAN : Authorize(m, as, key)
                 \/ \E u \in Users : \/ \E new \in Roles \cup {"removed"} : LoadMember(m, u, new)
                                     \/ \E r \in Roles : CheckInvitee(m, u, r)
                 \/ CheckOwners(m) \/ CommitMember(m) \/ CheckInvitations(m)
                 \/ CommitRevocation(m)
                 \/ \E i \in Invitations : InsertInvitation(m, i) \/ LoadInvitation(m, i)
                 \/ \E r \in KeyRoles : CreateKey(m, r)
          PROVE  InvitationInv'
      <4>1. \/ LeavesInvitations(m) \/ CheckInvitations(m) \/ CommitRevocation(m)
            \/ \E i \in Invitations : InsertInvitation(m, i)
        BY <3>1 DEF LeavesInvitations
      <4>2. QED
        BY <2>8, <4>1
    <3>2. ASSUME NEW g \in Guests,
                 \/ CheckMember(g) \/ CommitAcceptance(g)
                 \/ \E i \in Invitations : Present(g, i)
          PROVE  InvitationInv'
      BY <2>1, <2>2, <3>2
    <3>3. QED
      BY <2>1, <2>3, <2>9, <3>1, <3>2 DEF MemberNext
  <2>10. QED
    BY <1>2, <2>1, <2>9
<1>3. InvitationInv => OpenInvitationsAreFew
  <2> SUFFICES ASSUME InvitationInv, NEW u \in Users
               PROVE  Cardinality(OpenFor(u)) <= Cardinality(Managers)
    BY DEF OpenInvitationsAreFew, OpenFor
  <2> DEFINE n == Cardinality(OpenFor(u))
  <2>1. n \in Nat /\ n + Cardinality(Inserting(u)) <= Cardinality(Managers)
    BY FS_CardinalityType DEF InvitationInv
  <2> HIDE DEF n
  <2>2. n <= Cardinality(Managers)
    BY <2>1, InsertingAreManagers
  <2>3. QED
    BY <2>2 DEF n
<1>4. QED
  BY TypeInvariant, <1>1, <1>2, <1>3, PTL DEF MemberSpec

=============================================================================
