------------------------------ MODULE Membership ------------------------------
(***************************************************************************)
(* Members, roles, invitations and API keys of one organization:           *)
(* app/organization_routes.py and the key routes of app/main.py, with the  *)
(* dependencies of app/authz.py.                                           *)
(*                                                                         *)
(* Managers are the requests that require_role(ADMIN) lets through, one    *)
(* session each, for a member or for an API key; Guests are requests       *)
(* accepting an invitation.  Every SELECT and COMMIT is a step.  A member  *)
(* row is known by its id: a user who is removed and invited again has     *)
(* another row, and an UPDATE or a DELETE of the old one changes nothing.  *)
(* Left out are names, mails, the deletion of an organization and the API  *)
(* keys that let nobody in here: those of a role below ADMIN and those     *)
(* made with a key.                                                        *)
(***************************************************************************)
EXTENDS Integers, FiniteSets

CONSTANTS
  Users,
  Invitations,   \* rows of the invitations table, present or not yet inserted
  Managers,      \* concurrent requests of organization administration
  Guests,        \* concurrent requests of accept
  OtherRoles,    \* roles below ADMIN, which let nobody in here
  KeyRoles,      \* the roles the API keys here are made with
  None           \* no role, no user, no invitation

ASSUME UsersAssumption == Users # {}
ASSUME ManagersAssumption == IsFiniteSet(Managers)
ASSUME KeysAssumption == KeyRoles \subseteq {"OWNER", "ADMIN"}
ASSUME OtherRolesAssumption == OtherRoles \subseteq {"DEVELOPER", "VIEWER"}
ASSUME NoneAssumption ==
  None \notin Users \cup Invitations \cup {"OWNER", "ADMIN", "DEVELOPER", "VIEWER", "removed"}

VARIABLES
  role,         \* role[u]: the role of u's member row, None without one
  rowId,        \* rowId[u]: the id of u's latest member row
  invitation,   \* the invitations, with `by`, the role of their author
  keys,         \* the roles of the API keys that members made and that are in force
  manager, guest

memberVars == <<role, rowId, invitation, keys, manager, guest>>

Roles        == {"OWNER", "ADMIN"} \cup OtherRoles
NoInvitation == [user |-> None, role |-> None, by |-> None, accepted |-> FALSE,
                 revoked |-> FALSE, expired |-> FALSE]
IdleManager  == [step |-> "idle", as |-> None, key |-> FALSE, target |-> None, id |-> 0,
                 seen |-> None, new |-> None, item |-> None]
IdleGuest    == [step |-> "idle", item |-> None, joins |-> FALSE]

InvitationType == [user : Users \cup {None}, role : Roles \cup {None},
                   by : {"OWNER", "ADMIN", None}, accepted : BOOLEAN, revoked : BOOLEAN,
                   expired : BOOLEAN]
ManagerType == [step : {"idle", "authorized", "checking", "committing", "inviting",
                        "inserting", "revoking"},
                as : {"OWNER", "ADMIN", None}, key : BOOLEAN,
                target : Users \cup {None}, id : Nat, seen : Roles \cup {None},
                new : Roles \cup {"removed", None}, item : Invitations \cup {None}]
GuestType == [step : {"idle", "presented", "accepting"}, item : Invitations \cup {None},
              joins : BOOLEAN]

Pending(i) == invitation[i].user # None /\ ~ invitation[i].accepted /\ ~ invitation[i].revoked
Open(i)    == Pending(i) /\ ~ invitation[i].expired

\* create_org: the organization starts with its creator as OWNER.
MemberInit ==
  /\ \E creator \in Users : /\ role = [u \in Users |-> IF u = creator THEN "OWNER" ELSE None]
                            /\ rowId = [u \in Users |-> IF u = creator THEN 1 ELSE 0]
  /\ invitation = [i \in Invitations |-> NoInvitation]
  /\ keys = {}
  /\ manager = [m \in Managers |-> IdleManager]
  /\ guest = [g \in Guests |-> IdleGuest]

Manage(m, next) == manager' = [manager EXCEPT ![m] = next]

\* require_role(ADMIN): the request goes by the role it loads, a member's or the one
\* its API key was made with, whatever has become of the member who made it.
Authorize(m, as, key) ==
  /\ manager[m].step = "idle"
  /\ IF key THEN as \in keys ELSE \E u \in Users : role[u] = as
  /\ Manage(m, [IdleManager EXCEPT !.step = "authorized", !.as = as, !.key = key])
  /\ UNCHANGED <<role, rowId, invitation, keys, guest>>

\* POST /api/api-keys: the route asks for ADMIN and takes any role for the key.
CreateKey(m, r) ==
  /\ manager[m].step = "authorized"
  /\ ~ manager[m].key
  /\ keys' = keys \cup {r}
  /\ Manage(m, IdleManager)
  /\ UNCHANGED <<role, rowId, invitation, guest>>

\* The last key of a role is deleted, or it expires.
EndKeys(r) ==
  /\ r \in keys
  /\ keys' = keys \ {r}
  /\ UNCHANGED <<role, rowId, invitation, manager, guest>>

-----------------------------------------------------------------------------
(* PATCH and DELETE .../members/{member_id}; `new` is a role or "removed". *)

\* Mutation of MayChange: only the role there is counts, so that an ADMIN may make an owner.
MayMakeOwners(m, seen, new) == seen = "OWNER" => manager[m].as = "OWNER"

\* Only an owner makes, changes or removes an owner.
MayChange(m, seen, new) == "OWNER" \in {seen, new} => manager[m].as = "OWNER"

LoadMember(m, u, new) ==
  /\ manager[m].step = "authorized"
  /\ role[u] # None
  /\ MayChange(m, role[u], new)
  /\ Manage(m, [IdleManager EXCEPT !.as = manager[m].as,
       !.step = IF role[u] = "OWNER" /\ new # "OWNER" THEN "checking" ELSE "committing",
       !.target = u, !.id = rowId[u], !.seen = role[u], !.new = new])
  /\ UNCHANGED <<role, rowId, invitation, keys, guest>>

\* Mutation of OtherOwner: the row itself is not excluded.
AnyOwner(u) == \E o \in Users : role[o] = "OWNER"

OtherOwner(u) == \E o \in Users \ {u} : role[o] = "OWNER"

\* "Organization must retain an owner": without another one the answer is 400.
CheckOwners(m) ==
  /\ manager[m].step = "checking"
  /\ Manage(m, IF OtherOwner(manager[m].target) THEN [manager[m] EXCEPT !.step = "committing"]
                                                ELSE IdleManager)
  /\ UNCHANGED <<role, rowId, invitation, keys, guest>>

\* Mutation of CommitMember: the removed member's row is kept, with no valid role.
CommitMemberSoftly(m) ==
  LET c == manager[m] IN
  /\ c.step = "committing"
  /\ role' = IF role[c.target] # None /\ rowId[c.target] = c.id /\ c.new # c.seen
             THEN [role EXCEPT ![c.target] = c.new]
             ELSE role
  /\ Manage(m, IdleManager)
  /\ UNCHANGED <<rowId, invitation, keys, guest>>

\* The UPDATE, if the role differs from the one loaded, or the DELETE, by id.
CommitMember(m) ==
  LET c == manager[m] IN
  /\ c.step = "committing"
  /\ role' = IF role[c.target] # None /\ rowId[c.target] = c.id /\ c.new # c.seen
             THEN [role EXCEPT ![c.target] = IF c.new = "removed" THEN None ELSE c.new]
             ELSE role
  /\ Manage(m, IdleManager)
  /\ UNCHANGED <<rowId, invitation, keys, guest>>

-----------------------------------------------------------------------------
(* POST .../invitations, DELETE .../invitations/{id}, POST /invitations/{token}/accept. *)

\* The invited address belongs to no member.  An API key has no user to invite in
\* the name of: the route fails.
CheckInvitee(m, u, r) ==
  /\ manager[m].step = "authorized"
  /\ ~ manager[m].key
  /\ r = "OWNER" => manager[m].as = "OWNER"
  /\ role[u] = None
  /\ Manage(m, [manager[m] EXCEPT !.step = "inviting", !.target = u, !.new = r])
  /\ UNCHANGED <<role, rowId, invitation, keys, guest>>

\* Mutation of Invited: `is_not` for `is_` in the test of accepted_at.
InvitedBefore(u) ==
  \E i \in Invitations : /\ invitation[i].user = u
                         /\ invitation[i].accepted /\ ~ invitation[i].revoked

Invited(u) == \E i \in Invitations : invitation[i].user = u /\ Open(i)

CheckInvitations(m) ==
  /\ manager[m].step = "inviting"
  /\ Manage(m, IF Invited(manager[m].target) THEN IdleManager
                                             ELSE [manager[m] EXCEPT !.step = "inserting"])
  /\ UNCHANGED <<role, rowId, invitation, keys, guest>>

InsertInvitation(m, i) ==
  /\ manager[m].step = "inserting"
  /\ invitation[i] = NoInvitation
  /\ invitation' = [invitation EXCEPT ![i] = [NoInvitation EXCEPT !.user = manager[m].target,
                      !.role = manager[m].new, !.by = manager[m].as]]
  /\ Manage(m, IdleManager)
  /\ UNCHANGED <<role, rowId, keys, guest>>

LoadInvitation(m, i) ==
  /\ manager[m].step = "authorized"
  /\ Pending(i)
  /\ Manage(m, [IdleManager EXCEPT !.step = "revoking", !.item = i])
  /\ UNCHANGED <<role, rowId, invitation, keys, guest>>

CommitRevocation(m) ==
  /\ manager[m].step = "revoking"
  /\ invitation' = [invitation EXCEPT ![manager[m].item].revoked = TRUE]
  /\ Manage(m, IdleManager)
  /\ UNCHANGED <<role, rowId, keys, guest>>

\* The invited user presents the token of an open invitation.
Present(g, i) ==
  /\ guest[g].step = "idle"
  /\ Open(i)
  /\ guest' = [guest EXCEPT ![g] = [IdleGuest EXCEPT !.step = "presented", !.item = i]]
  /\ UNCHANGED <<role, rowId, invitation, keys, manager>>

\* Somebody who is a member already keeps the role.
CheckMember(g) ==
  /\ guest[g].step = "presented"
  /\ guest' = [guest EXCEPT ![g].step = "accepting",
                            ![g].joins = (role[invitation[guest[g].item].user] = None)]
  /\ UNCHANGED <<role, rowId, invitation, keys, manager>>

\* Member row and accepted_at in one commit; the UNIQUE constraint fails it when the
\* user has become a member meanwhile.
CommitAcceptance(g) ==
  LET i == guest[g].item
      u == invitation[i].user IN
  /\ guest[g].step = "accepting"
  /\ \/ /\ guest[g].joins /\ role[u] = None
        /\ role' = [role EXCEPT ![u] = invitation[i].role]
        /\ rowId' = [rowId EXCEPT ![u] = @ + 1]
        /\ invitation' = [invitation EXCEPT ![i].accepted = TRUE]
     \/ /\ guest[g].joins /\ role[u] # None
        /\ UNCHANGED <<role, rowId, invitation>>
     \/ /\ ~ guest[g].joins
        /\ invitation' = [invitation EXCEPT ![i].accepted = TRUE]
        /\ UNCHANGED <<role, rowId>>
  /\ guest' = [guest EXCEPT ![g] = IdleGuest]
  /\ UNCHANGED <<keys, manager>>

\* Seven days pass.
ExpireInvitation(i) ==
  /\ Open(i)
  /\ invitation' = [invitation EXCEPT ![i].expired = TRUE]
  /\ UNCHANGED <<role, rowId, keys, manager, guest>>

-----------------------------------------------------------------------------
MemberNext ==
  \/ \E m \in Managers :
       \/ \E as \in {"OWNER", "ADMIN"}, key \in BOOLEAN : Authorize(m, as, key)
       \/ \E r \in KeyRoles : CreateKey(m, r)
       \/ \E u \in Users : \/ \E new \in Roles \cup {"removed"} : LoadMember(m, u, new)
                           \/ \E r \in Roles : CheckInvitee(m, u, r)
       \/ CheckOwners(m) \/ CommitMember(m) \/ CheckInvitations(m) \/ CommitRevocation(m)
       \/ \E i \in Invitations : InsertInvitation(m, i) \/ LoadInvitation(m, i)
  \/ \E g \in Guests : \/ CheckMember(g) \/ CommitAcceptance(g)
                       \/ \E i \in Invitations : Present(g, i)
  \/ \E i \in Invitations : ExpireInvitation(i)
  \/ \E r \in KeyRoles : EndKeys(r)

MemberSpec == MemberInit /\ [][MemberNext]_memberVars

-----------------------------------------------------------------------------
(* Properties *)

\* Types of the rows and of the locals of the requests.
MemberTypeOK ==
  /\ role \in [Users -> Roles \cup {None}]
  /\ rowId \in [Users -> Nat]
  /\ invitation \in [Invitations -> InvitationType]
  /\ keys \subseteq KeyRoles
  /\ manager \in [Managers -> ManagerType]
  /\ guest \in [Guests -> GuestType]

\* The hypothesis of what the administrative routes promise: no two of their requests
\* overlap.
SerialManagers == \A a, b \in Managers : a = b

\* An organization always has an owner: demotions, removals (of oneself too),
\* invitations and acceptances never leave it without one.  Two administrative
\* requests that overlap do.
OwnerRetained == \E u \in Users : role[u] = "OWNER"

\* Ownership is given and taken by role OWNER only: a user becomes OWNER by a request that
\* was authorized as OWNER or by an invitation that such a request wrote, and stops being one
\* only by a request authorized as OWNER, however the requests of guests mix in.  The request
\* may be one of an API key: whoever is ADMIN can make a key of role OWNER and change owners
\* with it, so that in effect an ADMIN gives and takes ownership too.
OwnershipIsOwners ==
  [][\A u \in Users : (role[u] = "OWNER") # (role'[u] = "OWNER") =>
       \/ \E m \in Managers : /\ manager[m].step = "committing"
                              /\ manager[m].target = u
                              /\ manager[m].as = "OWNER"
       \/ \E g \in Guests : /\ role'[u] = "OWNER"
                            /\ guest[g].step = "accepting"
                            /\ invitation[guest[g].item].user = u
                            /\ invitation[guest[g].item].by = "OWNER"]_memberVars

\* No more invitations of an address are open than administrative requests overlap (the
\* check of invite): one, when they do not, so that revoking it leaves no other token to
\* present.  No constraint of the table says so.
OpenInvitationsAreFew ==
  \A u \in Users :
    Cardinality({i \in Invitations : Open(i) /\ invitation[i].user = u}) <= Cardinality(Managers)

=============================================================================
