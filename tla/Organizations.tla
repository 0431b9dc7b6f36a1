--------------------------- MODULE Organizations ---------------------------
(***************************************************************************)
(* The organization plugin: organizations, their members and invitations   *)
(* over the SeaORM store.  Every handler is a series of database           *)
(* statements with no transaction around them; each statement is an action *)
(* here, so a request acts on what it read while others change it.         *)
(*                                                                         *)
(* A request slot serves one request after another.  Its inputs (which     *)
(* organization, member, invitation, role) are chosen where the handler    *)
(* first uses them.  Names, slugs, logos and metadata are data: the slug   *)
(* check answers either way.  The active organization of a session only    *)
(* names a default: every endpoint reads the membership again, so the      *)
(* column, and set-active with it, are left out.                           *)
(***************************************************************************)
EXTENDS Naturals, FiniteSets

CONSTANTS
    Orgs, Users, Members, Invites,  \* ids; a user stands for its e-mail too
    Requests,                       \* concurrent request slots
    NoOrg, NoUser, NoMember, NoInvite,
    Grants,             \* the roles (sets of role names) requests ask for
    CreatorRole,        \* config.creator_role
    OrganizationLimit, MembershipLimit, InvitationLimit,
    Ops,                \* the endpoints in use
    Faults              \* whether a statement may fail

AllOps == {"create", "delete", "leave", "remove", "update_role",
           "invite", "accept", "reject", "cancel"}

ASSUME OrgAssumption ==
    /\ NoOrg \notin Orgs /\ NoUser \notin Users
    /\ NoMember \notin Members /\ NoInvite \notin Invites
    /\ \A g \in Grants : g \subseteq STRING /\ g # {}
    /\ CreatorRole \in STRING
    /\ OrganizationLimit \in Nat /\ MembershipLimit \in Nat
    /\ InvitationLimit \in Nat
    /\ Ops \subseteq AllOps /\ Faults \in BOOLEAN

VARIABLES
    orgs,       \* organizations that have a row
    row,        \* [Members -> member row]
    invite,     \* [Invites -> invitation row]
    owned,      \* history: who has been an owner of the organization
    req         \* [Requests -> the request in the slot and its locals]

tables == <<orgs, row, invite, owned>>
vars == <<tables, req>>

Roles == Grants \cup {{CreatorRole}}

NoRow == [org |-> NoOrg, user |-> NoUser, role |-> {}]
Blank == [org |-> NoOrg, user |-> NoUser, role |-> {}, by |-> NoUser,
          status |-> "none"]
Idle == [op |-> "none", at |-> "idle", user |-> NoUser,
         org |-> NoOrg, rank |-> {}, self |-> NoMember, target |-> NoMember,
         who |-> NoUser, grant |-> {}, invite |-> NoInvite,
         raced |-> FALSE]

MemberRow == [org : Orgs, user : Users, role : Roles]
InviteRow == [org : Orgs, user : Users, role : Roles, by : Users,
              status : {"pending", "lapsed", "accepted", "rejected", "canceled"}]
Labels == {"idle", "limit", "insert_org", "insert_member", "member", "org_row",
           "delete_org", "count", "drop", "target", "write_role", "room",
           "pending", "invitee", "existing", "insert_invite", "invite_row",
           "joined", "permit", "mark"}
Request == [op : Ops \cup {"none"}, at : Labels, user : Users \cup {NoUser},
            org : Orgs \cup {NoOrg},
            rank : Roles \cup {{}}, self : Members \cup {NoMember},
            target : Members \cup {NoMember}, who : Users \cup {NoUser},
            grant : Roles \cup {{}}, invite : Invites \cup {NoInvite},
            raced : BOOLEAN]

TypeOK ==
    /\ orgs \subseteq Orgs
    /\ row \in [Members -> MemberRow \cup {NoRow}]
    /\ invite \in [Invites -> InviteRow \cup {Blank}]
    /\ owned \in [Orgs -> SUBSET Users]
    /\ req \in [Requests -> Request]

Init ==
    /\ orgs = {}
    /\ row = [m \in Members |-> NoRow]
    /\ invite = [i \in Invites |-> Blank]
    /\ owned = [o \in Orgs |-> {}]
    /\ req = [p \in Requests |-> Idle]

-----------------------------------------------------------------------------
(* Roles (rbac.rs) and queries.                                            *)

HasRole(role, name) == name \in role
IsOwner(role) == HasRole(role, CreatorRole)

\* Member update and delete, invitation create and cancel.
MayManage(role) == HasRole(role, "owner") \/ HasRole(role, "admin")
\* Organization delete.
MayDelete(role) == HasRole(role, "owner")

ValidRoles == {CreatorRole, "admin", "member"}

MembersOf(o) == {m \in Members : row[m].org = o}
Membership(o, u) == {m \in MembersOf(o) : row[m].user = u}
Owners(o) == {m \in MembersOf(o) : IsOwner(row[m].role)}

IsPending(i) == invite[i].status = "pending"
Unanswered(i) == invite[i].status \in {"pending", "lapsed"}
PendingOf(o) == {i \in Invites : invite[i].org = o /\ IsPending(i)}
PendingFor(o, u) == {i \in PendingOf(o) : invite[i].user = u}

\* A new row's id is a fresh UUID: no row and no request in flight holds it.
FreshOrg(o) ==
    /\ o \notin orgs
    /\ \A p \in Requests : req[p].org # o
FreshMember(m) ==
    /\ row[m] = NoRow
    /\ \A p \in Requests : m \notin {req[p].self, req[p].target}
FreshInvite(i) ==
    /\ invite[i] = Blank
    /\ \A p \in Requests : req[p].invite # i

-----------------------------------------------------------------------------
(* A request's control flow.                                               *)

At(p, label) == [req[p] EXCEPT !.at = label]

\* The invitation is marked next, and last.
Marks(p, i) == [Idle EXCEPT !.op = req[p].op, !.at = "mark", !.invite = i]

Relies(p) == req[p].at \notin {"idle", "org_row", "delete_org", "permit",
                               "mark"}

\* A statement that reads, and the locals the request goes on with.
Reads(p, locals) ==
    /\ req' = [req EXCEPT ![p] = locals]
    /\ UNCHANGED tables

Goto(p, label) == Reads(p, At(p, label))
Finish(p) == Reads(p, Idle)

\* A statement that changes the organization tables overtakes every other
\* request that has reads to rely on.
Overtakes(p, locals) ==
    req' = [q \in Requests |->
              IF q = p THEN locals
              ELSE [req[q] EXCEPT !.raced = @ \/ Relies(q)]]

\* require_session names the user.
Begin(p, op, u) ==
    /\ req[p].at = "idle"
    /\ op \in Ops
    /\ Reads(p, [Idle EXCEPT
          !.op = op, !.user = u,
          !.at = CASE op = "create" -> "limit"
                   [] op \in {"accept", "reject", "cancel"} -> "invite_row"
                   [] OTHER -> "member"])

-----------------------------------------------------------------------------
(* Creating and deleting organizations.                                    *)

\* create_organization_core: the limit and the slug, both read before writing.
CheckLimit(p) ==
    /\ req[p].at = "limit"
    /\ \/ /\ Cardinality({o \in Orgs : Membership(o, req[p].user) # {}})
                < OrganizationLimit
          /\ Goto(p, "insert_org")
       \/ Finish(p)

\* The slug is unique: the insert fails when another request took it meanwhile.
InsertOrg(p) ==
    /\ req[p].at = "insert_org"
    /\ \/ \E o \in Orgs :
            /\ FreshOrg(o)
            /\ orgs' = orgs \cup {o}
            /\ UNCHANGED <<row, invite, owned>>
            /\ Overtakes(p, [req[p] EXCEPT !.at = "insert_member", !.org = o,
                                           !.grant = {CreatorRole}])
       \/ Finish(p)

\* Deleting an organization: its row is read, then deleted; the foreign keys
\* cascade to members and invitations.
ReadOrg(p) ==
    /\ req[p].at = "org_row"
    /\ IF req[p].org \in orgs THEN Goto(p, "delete_org") ELSE Finish(p)

\* Seeded fault: the rows of a deleted organization stay.
DeleteOrgRowOnly(o) ==
    /\ orgs' = orgs \ {o}
    /\ owned' = [owned EXCEPT ![o] = {}]
    /\ UNCHANGED <<row, invite>>

DeleteOrgRow(o) ==
    /\ orgs' = orgs \ {o}
    /\ row' = [m \in Members |-> IF row[m].org = o THEN NoRow ELSE row[m]]
    /\ invite' = [i \in Invites |-> IF invite[i].org = o THEN Blank
                                                        ELSE invite[i]]
    /\ owned' = [owned EXCEPT ![o] = {}]

DeleteOrg(p) ==
    /\ req[p].at = "delete_org"
    /\ DeleteOrgRow(req[p].org)
    /\ Overtakes(p, Idle)

-----------------------------------------------------------------------------
(* Members.                                                                *)

\* get_member of the requester, and what each endpoint decides on it.
ReadMember(p) ==
    /\ req[p].at = "member"
    /\ \/ Finish(p)         \* no such organization, or not a member of it
       \/ \E o \in Orgs : \E m \in Membership(o, req[p].user) :
            LET role == row[m].role
                op == req[p].op
                go(label) == Reads(p, [req[p] EXCEPT !.at = label, !.org = o])
            IN
            \/ op = "delete" /\ MayDelete(role) /\ go("org_row")
            \/ /\ op = "leave"
               /\ Reads(p, [req[p] EXCEPT !.org = o, !.target = m,
                     !.at = IF IsOwner(role) THEN "count" ELSE "drop"])
            \/ /\ op = "remove" \/ (op = "update_role" /\ MayManage(role))
               /\ Reads(p, [req[p] EXCEPT !.at = "target", !.org = o,
                                            !.self = m, !.rank = role])
            \/ /\ op = "invite"
               /\ MayManage(role)
               /\ \E g \in Grants :
                    /\ g \subseteq ValidRoles
                    /\ IsOwner(g) => IsOwner(role)
                    /\ Reads(p, [req[p] EXCEPT !.at = "room", !.org = o,
                                                 !.grant = g])

\* remove_member_core: the target row, named by id or by e-mail.
ReadRemoved(p) ==
    /\ req[p].op = "remove" /\ req[p].at = "target"
    /\ \/ Finish(p)
       \/ \E m \in MembersOf(req[p].org) :
            /\ row[m].user = req[p].user \/ MayManage(req[p].rank)
            /\ Reads(p, [req[p] EXCEPT
                  !.target = m, !.self = NoMember, !.rank = {},
                  !.at = IF IsOwner(row[m].role) THEN "count" ELSE "drop"])

\* Seeded fault: any member manager may hand out or take the creator role.
MayChangeRoleFreely(rank, role, g) == TRUE

\* Only an owner touches an owner's role or makes an owner.
MayChangeRole(rank, role, g) ==
    IsOwner(g) \/ IsOwner(role) => IsOwner(rank)

\* update_member_role_core: the target row; owners are counted only when the
\* requester gives up the creator role itself.
ReadUpdated(p) ==
    /\ req[p].op = "update_role" /\ req[p].at = "target"
    /\ \/ Finish(p)
       \/ \E m \in MembersOf(req[p].org), g \in Grants :
            LET role == row[m].role IN
            /\ MayChangeRole(req[p].rank, role, g)
            /\ Reads(p, [req[p] EXCEPT
                  !.target = m, !.grant = g, !.self = NoMember, !.rank = {},
                  !.at = IF IsOwner(role) /\ req[p].self = m /\ ~ IsOwner(g)
                         THEN "count" ELSE "write_role"])

\* Seeded fault: the count includes owners only from one up.
EnoughOwnersOffByOne(o) == Cardinality(Owners(o)) >= 1

EnoughOwners(o) == Cardinality(Owners(o)) > 1

CountOwners(p) ==
    /\ req[p].at = "count"
    /\ IF EnoughOwners(req[p].org)
       THEN Goto(p, IF req[p].op = "update_role" THEN "write_role" ELSE "drop")
       ELSE Finish(p)

\* delete_member by id.
DropMember(p) ==
    /\ req[p].at = "drop"
    /\ row' = [row EXCEPT ![req[p].target] = NoRow]
    /\ UNCHANGED <<orgs, invite, owned>>
    /\ Overtakes(p, Idle)

\* update_member_role: the row is found again by id, or the call fails.
WriteRole(p) ==
    LET m == req[p].target IN
    /\ req[p].at = "write_role"
    /\ IF row[m] = NoRow
       THEN Finish(p)
       ELSE /\ row' = [row EXCEPT ![m].role = req[p].grant]
            /\ owned' = IF IsOwner(req[p].grant)
                        THEN [owned EXCEPT ![row[m].org] = @ \cup {row[m].user}]
                        ELSE owned
            /\ UNCHANGED <<orgs, invite>>
            /\ Overtakes(p, Idle)

\* What the member table's constraints accept.
Insertable(o, u) == o \in orgs /\ Membership(o, u) = {}

\* create_member, of a creator or of an invited user.
InsertMember(p) ==
    LET o == req[p].org
        u == req[p].user
        g == req[p].grant
    IN
    /\ req[p].at = "insert_member"
    /\ IF Insertable(o, u)
       THEN \E m \in Members :
              /\ FreshMember(m)
              /\ row' = [row EXCEPT ![m] = [org |-> o, user |-> u, role |-> g]]
              /\ owned' = IF IsOwner(g) THEN [owned EXCEPT ![o] = @ \cup {u}]
                                        ELSE owned
              /\ UNCHANGED <<orgs, invite>>
              /\ Overtakes(p, IF req[p].op = "accept"
                              THEN Marks(p, req[p].invite) ELSE Idle)
       ELSE Finish(p)

-----------------------------------------------------------------------------
(* Invitations.                                                            *)

\* Seeded fault: the limit is passed by one.
RoomOffByOne(o) == Cardinality(MembersOf(o)) <= MembershipLimit

Room(o) == Cardinality(MembersOf(o)) < MembershipLimit

\* invite_member_core and accept_invitation_core: the membership limit.
CheckRoom(p) ==
    /\ req[p].at = "room"
    /\ IF Room(req[p].org)
       THEN Goto(p, IF req[p].op = "invite" THEN "pending" ELSE "joined")
       ELSE Finish(p)

\* invite_member_core: the limit on pending invitations.
CheckPending(p) ==
    /\ req[p].at = "pending"
    /\ IF Cardinality(PendingOf(req[p].org)) < InvitationLimit
       THEN Goto(p, "invitee")
       ELSE Finish(p)

\* The invited address must not belong to a member.
ReadInvitee(p) ==
    /\ req[p].at = "invitee"
    /\ \E u \in Users :
          IF Membership(req[p].org, u) = {}
          THEN Reads(p, [req[p] EXCEPT !.at = "existing", !.who = u])
          ELSE Finish(p)

\* Seeded fault: an invitation the address already has is not looked for.
AlreadyInvitedNever(o, u) == FALSE

AlreadyInvited(o, u) == PendingFor(o, u) # {}

\* An invitation still pending for the address is answered instead of a new one.
ReadExisting(p) ==
    /\ req[p].at = "existing"
    /\ IF AlreadyInvited(req[p].org, req[p].who) THEN Finish(p)
       ELSE Goto(p, "insert_invite")

InsertInvite(p) ==
    LET o == req[p].org IN
    /\ req[p].at = "insert_invite"
    /\ IF o \in orgs
       THEN \E i \in Invites :
              /\ FreshInvite(i)
              /\ invite' = [invite EXCEPT ![i] =
                   [org |-> o, user |-> req[p].who, role |-> req[p].grant,
                    by |-> req[p].user, status |-> "pending"]]
              /\ UNCHANGED <<orgs, row, owned>>
              /\ Overtakes(p, Idle)
       ELSE Finish(p)

\* Time passes expires_at.
Lapse(i) ==
    /\ IsPending(i)
    /\ invite' = [invite EXCEPT ![i].status = "lapsed"]
    /\ req' = [p \in Requests |-> [req[p] EXCEPT !.raced = @ \/ Relies(p)]]
    /\ UNCHANGED <<orgs, row, owned>>

\* Seeded fault: an invitation is accepted by whoever holds its id.
AddressedToAnyone(i, u) == TRUE

AddressedTo(i, u) == invite[i].user = u

\* get_invitation_by_id, and what the three answers decide on it.
ReadInvite(p) ==
    /\ req[p].at = "invite_row"
    /\ \/ Finish(p)
       \/ \E i \in Invites :
            LET own == AddressedTo(i, req[p].user) IN
            \/ /\ req[p].op = "accept" /\ own /\ IsPending(i)
               /\ Reads(p, [req[p] EXCEPT
                     !.at = "room", !.invite = i, !.org = invite[i].org,
                     !.grant = invite[i].role])
            \/ /\ req[p].op = "reject" /\ own /\ Unanswered(i)
               /\ Reads(p, Marks(p, i))
            \/ /\ req[p].op = "cancel" /\ Unanswered(i)
               /\ Reads(p, [req[p] EXCEPT !.at = "permit", !.invite = i,
                                          !.org = invite[i].org])

\* cancel_invitation_core: the requester must be allowed to cancel.
Permit(p) ==
    /\ req[p].at = "permit"
    /\ IF \E m \in Membership(req[p].org, req[p].user) : MayManage(row[m].role)
       THEN Reads(p, Marks(p, req[p].invite))
       ELSE Finish(p)

\* accept_invitation_core: whoever is a member already only marks it accepted.
ReadJoined(p) ==
    /\ req[p].at = "joined"
    /\ IF Membership(req[p].org, req[p].user) = {}
       THEN Goto(p, "insert_member")
       ELSE Reads(p, Marks(p, req[p].invite))

\* InvitationStatus of each answer.
Answer(op) == CASE op = "accept" -> "accepted"
                [] op = "reject" -> "rejected"
                [] op = "cancel" -> "canceled"

\* update_invitation_status: whatever the status is by now, it is overwritten.
Mark(p) ==
    LET i == req[p].invite IN
    /\ req[p].at = "mark"
    /\ IF invite[i] = Blank
       THEN Finish(p)
       ELSE /\ invite' = [invite EXCEPT ![i].status = Answer(req[p].op)]
            /\ UNCHANGED <<orgs, row, owned>>
            /\ Overtakes(p, Idle)

-----------------------------------------------------------------------------
\* A statement fails, or the caller goes away, after the request has written:
\* what it wrote stays.  One that fails before is as if it had never come.
Fail(p) ==
    /\ Faults
    /\ \/ req[p].op = "create" /\ req[p].at = "insert_member"
       \/ req[p].op = "accept" /\ req[p].at = "mark"
    /\ Finish(p)

Step(p) ==
    \/ \E op \in AllOps, u \in Users : Begin(p, op, u)
    \/ CheckLimit(p) \/ InsertOrg(p) \/ ReadOrg(p) \/ DeleteOrg(p)
    \/ ReadMember(p) \/ ReadRemoved(p) \/ ReadUpdated(p) \/ CountOwners(p)
    \/ DropMember(p) \/ WriteRole(p) \/ InsertMember(p)
    \/ CheckRoom(p) \/ CheckPending(p) \/ ReadInvitee(p) \/ ReadExisting(p)
    \/ InsertInvite(p) \/ ReadInvite(p) \/ Permit(p) \/ ReadJoined(p) \/ Mark(p)
    \/ Fail(p)

Next == (\E p \in Requests : Step(p)) \/ (\E i \in Invites : Lapse(i))

Spec == Init /\ [][Next]_vars

-----------------------------------------------------------------------------
(* Properties.                                                             *)

\* A deleted organization leaves no member and no invitation behind, and none
\* appears afterwards from a request that was under way (the foreign keys
\* against delete_organization).
NothingOutlivesItsOrg ==
    /\ \A m \in Members : row[m] # NoRow => row[m].org \in orgs
    /\ \A i \in Invites : invite[i] # Blank => invite[i].org \in orgs

\* However invitations are accepted, a user is at most once a member of an
\* organization (accept_invitation_core checks it two statements earlier).
OneMembership ==
    \A o \in Orgs, u \in Users : Cardinality(Membership(o, u)) <= 1

\* The step a request takes.
Moves(p) == req[p].at # req'[p].at

\* Nobody becomes an owner but by creating the organization, by an owner's own
\* act, or by the invitation of somebody who was an owner of it: stale roles
\* and admins never add up to one more owner (update_member_role_core,
\* invite_member_core).
OwnersMakeOwners ==
    [][\A m \in Members : IsOwner(row'[m].role) /\ ~ IsOwner(row[m].role) =>
         LET o == row'[m].org
             u == row'[m].user
         IN  \E p \in Requests :
               /\ Moves(p)
               /\ \/ req[p].op = "create" /\ req[p].user = u
                  \/ req[p].op = "update_role" /\ req[p].user \in owned[o]
                  \/ /\ req[p].op = "accept"
                     /\ invite[req[p].invite].by \in owned[o]]_vars

\* A user joins an organization, its creator apart, only with an invitation
\* addressed to that user, and with the role the invitation names.
JoinsAsInvited ==
    [][\A m \in Members : row[m] = NoRow /\ row'[m] # NoRow =>
         \/ owned[row'[m].org] = {}
         \/ \E i \in Invites : /\ invite[i].org = row'[m].org
                               /\ invite[i].user = row'[m].user
                               /\ invite[i].role = row'[m].role]_vars

\* A request nobody overlaps never takes the last owner away: only two requests
\* that both saw the other's owner can (the owner counts of leave, remove and
\* update-member-role).
LastOwnerKept ==
    [][\A o \in orgs \cap orgs' : Owners(o) # {} /\ Owners(o)' = {} =>
         \E p \in Requests : Moves(p) /\ req[p].raced]_vars

\* Joining exceeds membership_limit only when the count was overtaken.
LimitKept ==
    [][\A o \in Orgs : Cardinality(MembersOf(o)') > Cardinality(MembersOf(o))
                       /\ Cardinality(MembersOf(o)') > MembershipLimit =>
         \E p \in Requests : Moves(p) /\ req[p].raced]_vars

\* Without an overlap no address is invited twice, or while it belongs to a
\* member, and invitation_limit holds.
InvitesKept ==
    [][\A i \in Invites : invite[i] = Blank /\ invite'[i] # Blank =>
         LET o == invite'[i].org
             u == invite'[i].user
         IN  \/ /\ PendingFor(o, u) = {} /\ Membership(o, u) = {}
                /\ Cardinality(PendingOf(o)) < InvitationLimit
             \/ \E p \in Requests : Moves(p) /\ req[p].raced]_vars

=============================================================================
