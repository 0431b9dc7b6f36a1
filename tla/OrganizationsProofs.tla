------------------------ MODULE OrganizationsProofs ------------------------
(* Theorems about Organizations, for every value of its constants. *)
EXTENDS Organizations, FiniteSetTheorems, TLAPS

-----------------------------------------------------------------------------
(* Type correctness.                                                       *)

\* What a request holds at each statement: the locals the statement uses are
\* set, and it is a statement of the endpoint the request called.
LocalsOK(r) ==
    /\ r.at \notin {"idle", "mark"} => r.user \in Users
    /\ r.at \in {"count", "drop", "write_role"} => r.target \in Members
    /\ r.at \in {"count", "drop", "target", "room", "joined", "pending",
                 "invitee", "existing", "insert_invite", "insert_member",
                 "permit", "org_row", "delete_org"} => r.org \in Orgs
    /\ r.at \in {"room", "joined", "pending", "invitee", "existing",
                 "insert_invite", "insert_member", "write_role"} => r.grant \in Roles
    /\ r.at = "count" /\ r.op = "update_role" => r.grant \in Roles
    /\ r.at = "target" => r.rank \in Roles /\ r.self \in Members
    /\ r.at \in {"existing", "insert_invite"} => r.who \in Users
    /\ r.at = "mark" => r.op \in {"accept", "reject", "cancel"}
    /\ r.at \in {"mark", "permit", "joined"} => r.invite \in Invites
    /\ r.at \in {"room", "insert_member"} /\ r.op = "accept" => r.invite \in Invites
    /\ r.at = "room" => r.op \in {"invite", "accept"}
    /\ r.at \in {"limit", "insert_org"} => r.op = "create"
    /\ r.at = "joined" => r.op = "accept"
    /\ r.at = "permit" => r.op = "cancel"

TypeInv == TypeOK /\ \A p \in Requests : LocalsOK(req[p])

LEMMA IdleTyped == Idle \in Request /\ LocalsOK(Idle)
  BY DEF Idle, Request, Labels, LocalsOK

LEMMA ReadsTyped ==
    ASSUME TypeInv, NEW p \in Requests, NEW r \in Request, LocalsOK(r),
           Reads(p, r)
    PROVE  TypeInv'
<1>1. /\ req' \in [Requests -> Request]
      /\ \A q \in Requests : LocalsOK(req'[q])
  BY DEF Reads, TypeInv, TypeOK
<1>2. UNCHANGED <<orgs, row, invite, owned>>
  BY DEF Reads, tables
<1> QED BY <1>1, <1>2 DEF TypeInv, TypeOK, LocalsOK

LEMMA OvertakesTyped ==
    ASSUME TypeInv, NEW p \in Requests, NEW r \in Request, LocalsOK(r),
           Overtakes(p, r)
    PROVE  /\ req' \in [Requests -> Request]
           /\ \A q \in Requests : LocalsOK(req'[q])
<1>1. ASSUME NEW q \in Requests, q # p
      PROVE  req'[q] \in Request /\ LocalsOK(req'[q])
  <2>1. req[q] \in Request /\ LocalsOK(req[q]) /\ Relies(q) \in BOOLEAN
    BY DEF TypeInv, TypeOK, Relies
  <2>2. req'[q] = [req[q] EXCEPT !.raced = @ \/ Relies(q)]
    BY <1>1 DEF Overtakes
  <2> QED BY <2>1, <2>2 DEF Request, LocalsOK
<1>2. req'[p] = r
  BY DEF Overtakes
<1>3. req' = [q \in Requests |-> req'[q]]
  BY DEF Overtakes
<1> QED BY <1>1, <1>2, <1>3


\* A statement only reads, into locals of the right kind.
ReadsWell(p) == \E r \in Request : LocalsOK(r) /\ Reads(p, r)

LEMMA FinishTyped ==
    ASSUME NEW p \in Requests, Finish(p)
    PROVE  ReadsWell(p)
  BY IdleTyped DEF Finish, ReadsWell

LEMMA MarksTyped ==
    ASSUME TypeInv, NEW p \in Requests, NEW i \in Invites,
           req[p].op \in {"accept", "reject", "cancel"}
    PROVE  Marks(p, i) \in Request /\ LocalsOK(Marks(p, i))
<1>1. Idle \in Request
  BY IdleTyped
<1>2. req[p] \in Request
  BY DEF TypeInv, TypeOK
<1>3. req[p].op \in Ops \cup {"none"}
  BY <1>2 DEF Request
<1>4. Marks(p, i) \in Request
  BY <1>1, <1>3 DEF Marks, Request, Labels
<1>5. Marks(p, i).at = "mark" /\ Marks(p, i).op = req[p].op /\ Marks(p, i).invite = i
  BY <1>1 DEF Marks, Request
<1> QED BY <1>4, <1>5 DEF LocalsOK

\* The rows found by a query are typed.
LEMMA MemberTyped ==
    ASSUME TypeInv, NEW o \in Orgs, NEW m \in MembersOf(o)
    PROVE  m \in Members /\ row[m] \in MemberRow /\ row[m].org = o
<1>1. m \in Members /\ row[m].org = o /\ row[m] \in MemberRow \cup {NoRow}
  BY DEF MembersOf, TypeInv, TypeOK
<1> QED BY <1>1, OrgAssumption DEF NoRow

LEMMA MembershipTyped ==
    ASSUME TypeInv, NEW o \in Orgs, NEW u, NEW m \in Membership(o, u)
    PROVE  m \in Members /\ row[m] \in MemberRow /\ row[m].org = o /\ row[m].user = u
           /\ m \in MembersOf(o)
<1>1. m \in MembersOf(o) /\ row[m].user = u
  BY DEF Membership
<1> QED BY <1>1, MemberTyped

LEMMA ReadMemberTyped ==
    ASSUME TypeInv, NEW p \in Requests, ReadMember(p)
    PROVE  ReadsWell(p)
<1> DEFINE r == req[p]
<1>0. r \in Request /\ LocalsOK(r) /\ r.at = "member"
  BY DEF TypeInv, TypeOK, ReadMember
<1>1. CASE Finish(p)
  BY <1>1, FinishTyped
<1>2. ASSUME NEW o \in Orgs, NEW m \in Membership(o, r.user),
             r.op = "delete",
             Reads(p, [r EXCEPT !.at = "org_row", !.org = o])
      PROVE  ReadsWell(p)
  <2> DEFINE r2 == [r EXCEPT !.at = "org_row", !.org = o]
  <2>1. r2 \in Request
    BY <1>0 DEF Request, Labels
  <2>2. r2.at = "org_row" /\ r2.org = o /\ r2.user = r.user
    BY <1>0 DEF Request
  <2>3. LocalsOK(r2)
    BY <1>0, <2>2 DEF LocalsOK
  <2> QED BY <1>2, <2>1, <2>3 DEF ReadsWell
<1>3. ASSUME NEW o \in Orgs, NEW m \in Membership(o, r.user), r.op = "leave",
             NEW l \in {"count", "drop"},
             Reads(p, [r EXCEPT !.org = o, !.target = m, !.at = l])
      PROVE  ReadsWell(p)
  <2>1. m \in Members
    BY MembershipTyped
  <2> DEFINE r2 == [r EXCEPT !.org = o, !.target = m, !.at = l]
  <2>2. r2 \in Request
    BY <1>0, <2>1 DEF Request, Labels
  <2>3. /\ r2.at = l /\ r2.org = o /\ r2.target = m
        /\ r2.user = r.user /\ r2.op = r.op
    BY <1>0 DEF Request
  <2>4. LocalsOK(r2)
    BY <1>0, <1>3, <2>1, <2>3 DEF LocalsOK
  <2> QED BY <1>3, <2>2, <2>4 DEF ReadsWell
<1>4. ASSUME NEW o \in Orgs, NEW m \in Membership(o, r.user),
             r.op \in {"remove", "update_role"},
             Reads(p, [r EXCEPT !.at = "target", !.org = o, !.self = m,
                                !.rank = row[m].role])
      PROVE  ReadsWell(p)
  <2>1. m \in Members /\ row[m].role \in Roles
    BY MembershipTyped DEF MemberRow
  <2> DEFINE r2 == [r EXCEPT !.at = "target", !.org = o, !.self = m,
                             !.rank = row[m].role]
  <2>2. r2 \in Request
    BY <1>0, <2>1 DEF Request, Labels
  <2>3. /\ r2.at = "target" /\ r2.org = o /\ r2.self = m
        /\ r2.rank = row[m].role /\ r2.user = r.user
    BY <1>0 DEF Request
  <2>4. LocalsOK(r2)
    BY <1>0, <2>1, <2>3 DEF LocalsOK
  <2> QED BY <1>4, <2>2, <2>4 DEF ReadsWell
<1>5. ASSUME NEW o \in Orgs, NEW g \in Grants, r.op = "invite",
             Reads(p, [r EXCEPT !.at = "room", !.org = o, !.grant = g])
      PROVE  ReadsWell(p)
  <2> DEFINE r2 == [r EXCEPT !.at = "room", !.org = o, !.grant = g]
  <2>1. r2 \in Request
    BY <1>0 DEF Request, Labels, Roles
  <2>2. /\ r2.at = "room" /\ r2.org = o /\ r2.grant = g
        /\ r2.user = r.user /\ r2.op = r.op
    BY <1>0 DEF Request
  <2>3. g \in Roles
    BY DEF Roles
  <2>4. LocalsOK(r2)
    BY <1>0, <1>5, <2>2, <2>3 DEF LocalsOK
  <2> QED BY <1>5, <2>1, <2>4 DEF ReadsWell
<1> QED BY <1>1, <1>2, <1>3, <1>4, <1>5 DEF ReadMember

LEMMA TargetTyped ==
    ASSUME TypeInv, NEW p \in Requests, ReadRemoved(p) \/ ReadUpdated(p)
    PROVE  ReadsWell(p)
<1> DEFINE r == req[p]
<1>0. r \in Request /\ LocalsOK(r) /\ r.at = "target" /\ r.org \in Orgs
      /\ r.user \in Users
  BY DEF TypeInv, TypeOK, ReadRemoved, ReadUpdated, LocalsOK
<1>1. CASE Finish(p)
  BY <1>1, FinishTyped
<1>2. ASSUME NEW m \in MembersOf(r.org), NEW l \in {"count", "drop"},
             r.op = "remove",
             Reads(p, [r EXCEPT !.target = m, !.self = NoMember, !.rank = {},
                                !.at = l])
      PROVE  ReadsWell(p)
  <2>1. m \in Members
    BY <1>0, MemberTyped
  <2> DEFINE r2 == [r EXCEPT !.target = m, !.self = NoMember, !.rank = {}, !.at = l]
  <2>2. r2 \in Request
    BY <1>0, <2>1 DEF Request, Labels
  <2>3. /\ r2.at = l /\ r2.org = r.org /\ r2.target = m
        /\ r2.user = r.user /\ r2.op = r.op
    BY <1>0 DEF Request
  <2>4. LocalsOK(r2)
    BY <1>0, <1>2, <2>1, <2>3 DEF LocalsOK
  <2> QED BY <1>2, <2>2, <2>4 DEF ReadsWell
<1>3. ASSUME NEW m \in MembersOf(r.org), NEW g \in Grants,
             NEW l \in {"count", "write_role"}, r.op = "update_role",
             Reads(p, [r EXCEPT !.target = m, !.grant = g, !.self = NoMember,
                                !.rank = {}, !.at = l])
      PROVE  ReadsWell(p)
  <2>1. m \in Members
    BY <1>0, MemberTyped
  <2> DEFINE r2 == [r EXCEPT !.target = m, !.grant = g, !.self = NoMember,
                             !.rank = {}, !.at = l]
  <2>2. r2 \in Request
    BY <1>0, <2>1 DEF Request, Labels, Roles
  <2>3. /\ r2.at = l /\ r2.target = m /\ r2.grant = g
        /\ r2.user = r.user /\ r2.org = r.org /\ r2.op = r.op
    BY <1>0 DEF Request
  <2>4. LocalsOK(r2)
    BY <1>0, <1>3, <2>1, <2>3 DEF LocalsOK, Roles
  <2> QED BY <1>3, <2>2, <2>4 DEF ReadsWell
<1>4. CASE ReadRemoved(p)
  BY <1>4, <1>1, <1>2 DEF ReadRemoved
<1>5. CASE ReadUpdated(p)
  BY <1>5, <1>1, <1>3 DEF ReadUpdated
<1> QED BY <1>4, <1>5

\* A request that goes on to a statement with nothing more to hold.
LEMMA GotoTyped ==
    ASSUME TypeInv, NEW p \in Requests, NEW l \in Labels, Goto(p, l),
           LocalsOK([req[p] EXCEPT !.at = l])
    PROVE  ReadsWell(p)
<1>1. req[p] \in Request
  BY DEF TypeInv, TypeOK
<1>2. [req[p] EXCEPT !.at = l] \in Request
  BY <1>1 DEF Request
<1> QED BY <1>2 DEF Goto, At, ReadsWell

LEMMA ReadInviteTyped ==
    ASSUME TypeInv, NEW p \in Requests, ReadInvite(p)
    PROVE  ReadsWell(p)
<1> DEFINE r == req[p]
<1>0. r \in Request /\ LocalsOK(r) /\ r.at = "invite_row" /\ r.user \in Users
  BY DEF TypeInv, TypeOK, ReadInvite, LocalsOK
<1>1. CASE Finish(p)
  BY <1>1, FinishTyped
<1>2. ASSUME NEW i \in Invites, r.op = "accept", IsPending(i),
             Reads(p, [r EXCEPT !.at = "room", !.invite = i,
                                !.org = invite[i].org, !.grant = invite[i].role])
      PROVE  ReadsWell(p)
  <2> DEFINE r2 == [r EXCEPT !.at = "room", !.invite = i, !.org = invite[i].org,
                             !.grant = invite[i].role]
  <2>1. invite[i] \in InviteRow
    BY <1>2 DEF IsPending, TypeInv, TypeOK, Blank
  <2>2. invite[i].org \in Orgs /\ invite[i].role \in Roles
    BY <2>1 DEF InviteRow
  <2>3. r2 \in Request
    BY <1>0, <2>2 DEF Request, Labels
  <2>4. /\ r2.at = "room" /\ r2.invite = i /\ r2.org = invite[i].org
        /\ r2.grant = invite[i].role /\ r2.user = r.user /\ r2.op = r.op
    BY <1>0 DEF Request
  <2>5. LocalsOK(r2)
    BY <1>0, <1>2, <2>2, <2>4 DEF LocalsOK
  <2> QED BY <1>2, <2>3, <2>5 DEF ReadsWell
<1>3. ASSUME NEW i \in Invites, r.op = "reject", Reads(p, Marks(p, i))
      PROVE  ReadsWell(p)
  BY <1>3, MarksTyped DEF ReadsWell
<1>4. ASSUME NEW i \in Invites, r.op = "cancel", Unanswered(i),
             Reads(p, [r EXCEPT !.at = "permit", !.invite = i,
                                !.org = invite[i].org])
      PROVE  ReadsWell(p)
  <2> DEFINE r2 == [r EXCEPT !.at = "permit", !.invite = i, !.org = invite[i].org]
  <2>1. invite[i] \in InviteRow
    BY <1>4 DEF Unanswered, TypeInv, TypeOK, Blank
  <2>2. invite[i].org \in Orgs
    BY <2>1 DEF InviteRow
  <2>3. r2 \in Request
    BY <1>0, <2>2 DEF Request, Labels
  <2>4. /\ r2.at = "permit" /\ r2.invite = i /\ r2.org = invite[i].org
        /\ r2.user = r.user /\ r2.op = r.op
    BY <1>0 DEF Request
  <2>5. LocalsOK(r2)
    BY <1>0, <1>4, <2>2, <2>4 DEF LocalsOK
  <2> QED BY <1>4, <2>3, <2>5 DEF ReadsWell
<1> QED BY <1>1, <1>2, <1>3, <1>4 DEF ReadInvite

\* The statements that read and go on.
LEMMA ReadingTyped ==
    ASSUME TypeInv, NEW p \in Requests,
           \/ CheckLimit(p) \/ ReadOrg(p) \/ CountOwners(p) \/ CheckRoom(p)
           \/ CheckPending(p) \/ ReadInvitee(p) \/ ReadExisting(p)
           \/ Permit(p) \/ ReadJoined(p) \/ Fail(p)
    PROVE  ReadsWell(p)
<1>0. req[p] \in Request /\ LocalsOK(req[p])
  BY DEF TypeInv, TypeOK
<1>f. Finish(p) => ReadsWell(p)
  BY FinishTyped
<1>g. ASSUME NEW l \in Labels, Goto(p, l), LocalsOK([req[p] EXCEPT !.at = l])
      PROVE  ReadsWell(p)
  BY <1>g, GotoTyped
<1>h. ASSUME NEW l \in Labels
      PROVE  LET r2 == [req[p] EXCEPT !.at = l] IN
             /\ r2.at = l /\ r2.user = req[p].user /\ r2.org = req[p].org
             /\ r2.target = req[p].target /\ r2.grant = req[p].grant
             /\ r2.op = req[p].op /\ r2.who = req[p].who
             /\ r2.invite = req[p].invite
  BY <1>0 DEF Request
<1>1. CASE CheckLimit(p)
  <2>1. LocalsOK([req[p] EXCEPT !.at = "insert_org"])
    BY <1>0, <1>1, <1>h DEF CheckLimit, LocalsOK, Labels
  <2> QED BY <1>1, <1>f, <1>g, <2>1 DEF CheckLimit, Labels
<1>2. CASE ReadOrg(p)
  <2>1. LocalsOK([req[p] EXCEPT !.at = "delete_org"])
    BY <1>0, <1>2, <1>h DEF ReadOrg, LocalsOK, Labels
  <2> QED BY <1>2, <1>f, <1>g, <2>1 DEF ReadOrg, Labels
<1>3. CASE CountOwners(p)
  <2>1. req[p].op = "update_role" => LocalsOK([req[p] EXCEPT !.at = "write_role"])
    BY <1>0, <1>3, <1>h DEF CountOwners, LocalsOK, Labels
  <2>2. LocalsOK([req[p] EXCEPT !.at = "drop"])
    BY <1>0, <1>3, <1>h DEF CountOwners, LocalsOK, Labels
  <2> QED BY <1>3, <1>f, <1>g, <2>1, <2>2 DEF CountOwners, Labels
<1>4. CASE CheckRoom(p)
  <2>1. req[p].op \in {"invite", "accept"}
    BY <1>0, <1>4 DEF CheckRoom, LocalsOK
  <2>2. LocalsOK([req[p] EXCEPT !.at = "pending"])
    BY <1>0, <1>4, <1>h DEF CheckRoom, LocalsOK, Labels
  <2>3. req[p].op = "accept" => LocalsOK([req[p] EXCEPT !.at = "joined"])
    BY <1>0, <1>4, <1>h DEF CheckRoom, LocalsOK, Labels
  <2> QED BY <1>4, <1>f, <1>g, <2>1, <2>2, <2>3 DEF CheckRoom, Labels
<1>5. CASE CheckPending(p)
  <2>1. LocalsOK([req[p] EXCEPT !.at = "invitee"])
    BY <1>0, <1>5, <1>h DEF CheckPending, LocalsOK, Labels
  <2> QED BY <1>5, <1>f, <1>g, <2>1 DEF CheckPending, Labels
<1>6. CASE ReadInvitee(p)
  <2>1. CASE Finish(p)
    BY <2>1, <1>f
  <2>2. ASSUME NEW u \in Users,
               Reads(p, [req[p] EXCEPT !.at = "existing", !.who = u])
        PROVE  ReadsWell(p)
    <3> DEFINE r2 == [req[p] EXCEPT !.at = "existing", !.who = u]
    <3>1. r2 \in Request
      BY <1>0 DEF Request, Labels
    <3>2. /\ r2.at = "existing" /\ r2.who = u /\ r2.user = req[p].user
          /\ r2.org = req[p].org /\ r2.grant = req[p].grant
      BY <1>0 DEF Request
    <3>3. LocalsOK(r2)
      BY <1>0, <1>6, <3>2 DEF ReadInvitee, LocalsOK
    <3> QED BY <2>2, <3>1, <3>3 DEF ReadsWell
  <2> QED BY <1>6, <2>1, <2>2 DEF ReadInvitee
<1>7. CASE ReadExisting(p)
  <2>1. LocalsOK([req[p] EXCEPT !.at = "insert_invite"])
    BY <1>0, <1>7, <1>h DEF ReadExisting, LocalsOK, Labels
  <2> QED BY <1>7, <1>f, <1>g, <2>1 DEF ReadExisting, Labels
<1>8. CASE Permit(p)
  <2>1. req[p].invite \in Invites
    BY <1>0, <1>8 DEF Permit, LocalsOK
  <2>2. CASE Finish(p)
    BY <2>2, <1>f
  <2>3. CASE Reads(p, Marks(p, req[p].invite)) /\ req[p].op = "cancel"
    BY <2>1, <2>3, MarksTyped DEF ReadsWell
  <2> QED BY <1>8, <1>0, <2>2, <2>3 DEF Permit, LocalsOK
<1>9. CASE ReadJoined(p)
  <2>1. req[p].invite \in Invites
    BY <1>0, <1>9 DEF ReadJoined, LocalsOK
  <2>2. LocalsOK([req[p] EXCEPT !.at = "insert_member"])
    BY <1>0, <1>9, <1>h DEF ReadJoined, LocalsOK, Labels
  <2>3. CASE Reads(p, Marks(p, req[p].invite)) /\ req[p].op = "accept"
    BY <2>1, <2>3, MarksTyped DEF ReadsWell
  <2> QED BY <1>9, <1>0, <1>g, <2>2, <2>3 DEF ReadJoined, Labels, LocalsOK
<1>10. CASE Fail(p)
  BY <1>10, <1>f DEF Fail
<1> QED BY <1>1, <1>2, <1>3, <1>4, <1>5, <1>6, <1>7, <1>8, <1>9, <1>10

LEMMA BeginTyped ==
    ASSUME NEW p \in Requests, NEW op \in AllOps, NEW u \in Users, Begin(p, op, u)
    PROVE  ReadsWell(p)
<1>1. PICK l \in {"limit", "invite_row", "member"} :
         /\ l = "limit" => op = "create"
         /\ Reads(p, [Idle EXCEPT !.op = op, !.user = u, !.at = l])
  BY DEF Begin
<1> DEFINE r2 == [Idle EXCEPT !.op = op, !.user = u, !.at = l]
<1>2. op \in Ops /\ Idle \in Request
  BY IdleTyped DEF Begin
<1>3. r2 \in Request
  BY <1>2 DEF Request, Labels
<1>4. r2.at = l /\ r2.user = u /\ r2.op = op
  BY <1>2 DEF Request
<1>5. LocalsOK(r2)
  BY <1>1, <1>4 DEF LocalsOK
<1> QED BY <1>1, <1>3, <1>5 DEF ReadsWell

\* A request that reads keeps the invariant; so does one that writes typed
\* tables.
LEMMA ReadsWellTyped ==
    ASSUME TypeInv, NEW p \in Requests, ReadsWell(p)
    PROVE  TypeInv'
  BY ReadsTyped DEF ReadsWell

LEMMA WritesTyped ==
    ASSUME TypeInv, NEW p \in Requests, NEW r \in Request, LocalsOK(r),
           Overtakes(p, r), orgs' \subseteq Orgs,
           row' \in [Members -> MemberRow \cup {NoRow}],
           invite' \in [Invites -> InviteRow \cup {Blank}],
           owned' \in [Orgs -> SUBSET Users]
    PROVE  TypeInv'
  BY OvertakesTyped DEF TypeInv, TypeOK, LocalsOK

\* Either a step of the request reads, or it is one of the seven that write.
LEMMA StepKinds ==
    ASSUME TypeInv, NEW p \in Requests, Step(p)
    PROVE  \/ ReadsWell(p)
           \/ InsertOrg(p) \/ DeleteOrg(p) \/ DropMember(p) \/ WriteRole(p)
           \/ InsertMember(p) \/ InsertInvite(p) \/ Mark(p)
  BY BeginTyped, ReadMemberTyped, TargetTyped, ReadInviteTyped, ReadingTyped
     DEF Step

LEMMA WritingTyped ==
    ASSUME TypeInv, NEW p \in Requests,
           \/ InsertOrg(p) \/ DeleteOrg(p) \/ DropMember(p) \/ WriteRole(p)
           \/ InsertMember(p) \/ InsertInvite(p) \/ Mark(p)
    PROVE  TypeInv'
<1>0. req[p] \in Request /\ LocalsOK(req[p])
  BY DEF TypeInv, TypeOK
<1>t. /\ orgs \subseteq Orgs
      /\ row \in [Members -> MemberRow \cup {NoRow}]
      /\ invite \in [Invites -> InviteRow \cup {Blank}]
      /\ owned \in [Orgs -> SUBSET Users]
  BY DEF TypeInv, TypeOK
<1>f. Finish(p) => TypeInv'
  BY FinishTyped, ReadsWellTyped
<1>1. CASE InsertOrg(p)
  <2>1. ASSUME NEW o \in Orgs, orgs' = orgs \cup {o},
               UNCHANGED <<row, invite, owned>>,
               Overtakes(p, [req[p] EXCEPT !.at = "insert_member", !.org = o,
                                           !.grant = {CreatorRole}])
        PROVE  TypeInv'
    <3> DEFINE r2 == [req[p] EXCEPT !.at = "insert_member", !.org = o,
                                    !.grant = {CreatorRole}]
    <3>1. r2 \in Request
      BY <1>0 DEF Request, Labels, Roles
    <3>2. /\ r2.at = "insert_member" /\ r2.org = o /\ r2.grant = {CreatorRole}
          /\ r2.user = req[p].user /\ r2.op = req[p].op
      BY <1>0 DEF Request
    <3>3. req[p].op # "accept"
      BY <1>1, <1>0 DEF InsertOrg, LocalsOK
    <3>4. LocalsOK(r2)
      BY <1>0, <1>1, <3>2, <3>3 DEF InsertOrg, LocalsOK, Roles
    <3> QED BY <2>1, <3>1, <3>4, <1>t, WritesTyped
  <2> QED BY <1>1, <1>f, <2>1 DEF InsertOrg
<1>2. CASE DeleteOrg(p)
  <2>1. Overtakes(p, Idle) /\ DeleteOrgRow(req[p].org)
    BY <1>2 DEF DeleteOrg
  <2>2. /\ orgs' \subseteq Orgs
        /\ row' \in [Members -> MemberRow \cup {NoRow}]
        /\ invite' \in [Invites -> InviteRow \cup {Blank}]
        /\ owned' \in [Orgs -> SUBSET Users]
    BY <2>1, <1>t DEF DeleteOrgRow
  <2> QED BY <2>1, <2>2, IdleTyped, WritesTyped
<1>3. CASE DropMember(p)
  BY <1>3, <1>t, IdleTyped, WritesTyped DEF DropMember
<1>4. CASE WriteRole(p)
  <2> DEFINE m == req[p].target
             g == req[p].grant
  <2>1. m \in Members /\ g \in Roles
    BY <1>0, <1>4 DEF WriteRole, LocalsOK
  <2> HIDE DEF m, g
  <2>2. ASSUME row[m] # NoRow, row' = [row EXCEPT ![m].role = g],
               \/ owned' = [owned EXCEPT ![row[m].org] = @ \cup {row[m].user}]
               \/ owned' = owned,
               UNCHANGED <<orgs, invite>>, Overtakes(p, Idle)
        PROVE  TypeInv'
    <3>1. row[m] \in MemberRow
      BY <2>1, <2>2, <1>t
    <3>2. [row[m] EXCEPT !.role = g] \in MemberRow /\ row[m].user \in Users
          /\ row[m].org \in Orgs
      BY <2>1, <3>1 DEF MemberRow
    <3>3. row' = [row EXCEPT ![m] = [row[m] EXCEPT !.role = g]]
      BY <2>2
    <3>4. row' \in [Members -> MemberRow \cup {NoRow}]
      BY <2>1, <3>2, <3>3, <1>t
    <3>5. owned' \in [Orgs -> SUBSET Users]
      BY <2>2, <3>2, <1>t
    <3> QED BY <2>2, <3>4, <3>5, <1>t, IdleTyped, WritesTyped
  <2> QED BY <1>4, <1>f, <2>2 DEF WriteRole, m, g
<1>5. CASE InsertMember(p)
  <2> DEFINE o == req[p].org
             u == req[p].user
             g == req[p].grant
  <2>1. o \in Orgs /\ u \in Users /\ g \in Roles
    BY <1>0, <1>5 DEF InsertMember, LocalsOK
  <2>2. ASSUME NEW m \in Members,
               row' = [row EXCEPT ![m] = [org |-> o, user |-> u, role |-> g]],
               owned' = [owned EXCEPT ![o] = @ \cup {u}] \/ owned' = owned,
               UNCHANGED <<orgs, invite>>,
               NEW r \in Request, LocalsOK(r), Overtakes(p, r)
        PROVE  TypeInv'
    <3>1. [org |-> o, user |-> u, role |-> g] \in MemberRow
      BY <2>1 DEF MemberRow
    <3> HIDE DEF o, u, g
    <3>2. row' \in [Members -> MemberRow \cup {NoRow}]
      BY <2>2, <3>1, <1>t
    <3>3. owned' \in [Orgs -> SUBSET Users]
      BY <2>1, <2>2, <1>t
    <3> QED BY <2>2, <3>2, <3>3, <1>t, WritesTyped
  <2>3. req[p].op = "accept" =>
          /\ Marks(p, req[p].invite) \in Request
          /\ LocalsOK(Marks(p, req[p].invite))
    <3>1. req[p].op = "accept" => req[p].invite \in Invites
      BY <1>0, <1>5 DEF InsertMember, LocalsOK
    <3> QED BY <3>1, MarksTyped
  <2> QED BY <1>5, <1>f, <2>2, <2>3, IdleTyped DEF InsertMember
<1>6. CASE InsertInvite(p)
  <2>1. req[p].org \in Orgs /\ req[p].who \in Users /\ req[p].grant \in Roles
        /\ req[p].user \in Users
    BY <1>0, <1>6 DEF InsertInvite, LocalsOK
  <2>2. ASSUME NEW i \in Invites,
               invite' = [invite EXCEPT ![i] =
                   [org |-> req[p].org, user |-> req[p].who, role |-> req[p].grant,
                    by |-> req[p].user, status |-> "pending"]],
               UNCHANGED <<orgs, row, owned>>, Overtakes(p, Idle)
        PROVE  TypeInv'
    <3>1. [org |-> req[p].org, user |-> req[p].who, role |-> req[p].grant,
           by |-> req[p].user, status |-> "pending"] \in InviteRow
      BY <2>1 DEF InviteRow
    <3>2. invite' \in [Invites -> InviteRow \cup {Blank}]
      BY <2>2, <3>1, <1>t
    <3> QED BY <2>2, <3>2, <1>t, IdleTyped, WritesTyped
  <2> QED BY <1>6, <1>f, <2>2 DEF InsertInvite
<1>7. CASE Mark(p)
  <2> DEFINE i == req[p].invite
  <2>1. i \in Invites /\ Answer(req[p].op) \in {"accepted", "rejected", "canceled"}
    BY <1>0, <1>7 DEF Mark, LocalsOK, Answer
  <2> HIDE DEF i
  <2>2. ASSUME invite[i] # Blank,
               invite' = [invite EXCEPT ![i].status = Answer(req[p].op)],
               UNCHANGED <<orgs, row, owned>>, Overtakes(p, Idle)
        PROVE  TypeInv'
    <3>1. invite[i] \in InviteRow
      BY <2>1, <2>2, <1>t
    <3>2. [invite[i] EXCEPT !.status = Answer(req[p].op)] \in InviteRow
      BY <2>1, <3>1 DEF InviteRow
    <3>3. invite' = [invite EXCEPT ![i] =
                       [invite[i] EXCEPT !.status = Answer(req[p].op)]]
      BY <2>2
    <3>4. invite' \in [Invites -> InviteRow \cup {Blank}]
      BY <2>1, <3>2, <3>3, <1>t
    <3> QED BY <2>2, <3>4, <1>t, IdleTyped, WritesTyped
  <2> QED BY <1>7, <1>f, <2>2 DEF Mark, i
<1> QED BY <1>1, <1>2, <1>3, <1>4, <1>5, <1>6, <1>7

LEMMA LapseTyped ==
    ASSUME TypeInv, NEW i \in Invites, Lapse(i)
    PROVE  TypeInv'
<1>1. \A p \in Requests : req'[p] \in Request /\ LocalsOK(req'[p])
  <2> TAKE p \in Requests
  <2>1. req[p] \in Request /\ LocalsOK(req[p]) /\ Relies(p) \in BOOLEAN
    BY DEF TypeInv, TypeOK, Relies
  <2>2. req'[p] = [req[p] EXCEPT !.raced = @ \/ Relies(p)]
    BY DEF Lapse
  <2> QED BY <2>1, <2>2 DEF Request, LocalsOK
<1>2. invite[i] \in InviteRow
  BY DEF Lapse, IsPending, TypeInv, TypeOK, Blank
<1>3. [invite[i] EXCEPT !.status = "lapsed"] \in InviteRow
  BY <1>2 DEF InviteRow
<1>4. invite' = [invite EXCEPT ![i] = [invite[i] EXCEPT !.status = "lapsed"]]
  BY DEF Lapse
<1>5. invite' \in [Invites -> InviteRow \cup {Blank}]
  BY <1>3, <1>4 DEF TypeInv, TypeOK
<1>6. req' = [p \in Requests |-> req'[p]]
  BY DEF Lapse
<1> QED BY <1>1, <1>5, <1>6 DEF Lapse, TypeInv, TypeOK

LEMMA TypeInductive == TypeInv /\ [Next]_vars => TypeInv'
<1> SUFFICES ASSUME TypeInv, [Next]_vars PROVE TypeInv'
  OBVIOUS
<1>1. ASSUME NEW p \in Requests, Step(p) PROVE TypeInv'
  BY <1>1, StepKinds, ReadsWellTyped, WritingTyped
<1>2. CASE UNCHANGED vars
  BY <1>2 DEF vars, tables, TypeInv, TypeOK, LocalsOK
<1> QED BY <1>1, <1>2, LapseTyped DEF Next

LEMMA TypeInitially == Init => TypeInv
  BY IdleTyped DEF Init, TypeInv, TypeOK

\* The type invariant: each request stands at a statement of its endpoint and
\* holds what that statement uses, and every row is whole.
THEOREM TypeCorrect == Spec => []TypeOK
<1>1. Spec => []TypeInv
  BY TypeInitially, TypeInductive, PTL DEF Spec
<1> QED BY <1>1, PTL DEF TypeInv

-----------------------------------------------------------------------------
(* What a step does to the member table.                                   *)

\* Every row of the next state is one of this state's, its role apart.
RowsKept ==
    \A m \in Members : row'[m] # NoRow =>
        /\ row[m] # NoRow
        /\ row'[m].org = row[m].org
        /\ row'[m].user = row[m].user

\* One row is added, where the table's constraints accept it.
RowAdded(o, u) ==
    /\ Insertable(o, u)
    /\ \E m \in Members, g \in Roles :
         row' = [row EXCEPT ![m] = [org |-> o, user |-> u, role |-> g]]

LEMMA WriteRoleKeeps ==
    ASSUME TypeInv, NEW p \in Requests, WriteRole(p)
    PROVE  RowsKept
<1> DEFINE m == req[p].target
<1>1. m \in Members
  BY DEF WriteRole, TypeInv, LocalsOK
<1>2. CASE row' = row
  BY <1>2 DEF RowsKept
<1>3. CASE row[m] # NoRow /\ row' = [row EXCEPT ![m].role = req[p].grant]
  <2>1. row[m] \in MemberRow
    BY <1>1, <1>3 DEF TypeInv, TypeOK
  <2>2. row'[m].org = row[m].org /\ row'[m].user = row[m].user
    BY <1>1, <1>3, <2>1 DEF MemberRow, TypeInv, TypeOK
  <2>3. \A n \in Members : n # m => row'[n] = row[n]
    BY <1>1, <1>3 DEF TypeInv, TypeOK
  <2> QED BY <1>3, <2>2, <2>3 DEF RowsKept
<1> QED BY <1>2, <1>3 DEF WriteRole, Finish, Reads, tables

LEMMA RowSteps ==
    ASSUME TypeInv, [Next]_vars
    PROVE  RowsKept \/ \E o \in Orgs, u \in Users : RowAdded(o, u)
<1>0. row \in [Members -> MemberRow \cup {NoRow}]
  BY DEF TypeInv, TypeOK
<1>1. row' = row => RowsKept
  BY DEF RowsKept
<1>2. CASE UNCHANGED vars
  BY <1>1, <1>2 DEF vars, tables
<1>3. ASSUME NEW i \in Invites, Lapse(i) PROVE RowsKept
  BY <1>1, <1>3 DEF Lapse
<1>4. ASSUME NEW p \in Requests, Step(p)
      PROVE  RowsKept \/ \E o \in Orgs, u \in Users : RowAdded(o, u)
  <2>1. CASE ReadsWell(p)
    BY <2>1, <1>1 DEF ReadsWell, Reads, tables
  <2>2. CASE InsertOrg(p) \/ InsertInvite(p) \/ Mark(p)
    BY <2>2, <1>1 DEF InsertOrg, InsertInvite, Mark, Finish, Reads, tables
  <2>3. CASE DeleteOrg(p)
    BY <2>3 DEF DeleteOrg, DeleteOrgRow, RowsKept
  <2>4. CASE DropMember(p)
    BY <2>4, <1>0 DEF DropMember, RowsKept
  <2>5. CASE WriteRole(p)
    BY <2>5, WriteRoleKeeps
  <2>6. CASE InsertMember(p)
    <3>1. req[p].org \in Orgs /\ req[p].user \in Users /\ req[p].grant \in Roles
      BY <2>6 DEF InsertMember, TypeInv, LocalsOK
    <3>2. CASE row' = row
      BY <3>2, <1>1
    <3>3. CASE RowAdded(req[p].org, req[p].user)
      BY <3>1, <3>3
    <3> QED
      BY <2>6, <3>1, <3>2, <3>3
         DEF InsertMember, RowAdded, Finish, Reads, tables
  <2> QED BY <1>4, StepKinds, <2>1, <2>2, <2>3, <2>4, <2>5, <2>6
<1> QED BY <1>2, <1>3, <1>4 DEF Next

-----------------------------------------------------------------------------
(* At most one membership.                                                 *)

\* Two rows of the same user in the same organization are one row.
Unique ==
    \A m, n \in Members :
        row[m] # NoRow /\ row[m].org = row[n].org /\ row[m].user = row[n].user
          => m = n

LEMMA UniqueInductive == TypeInv /\ Unique /\ [Next]_vars => Unique'
<1> SUFFICES ASSUME TypeInv, Unique, [Next]_vars,
                    NEW m \in Members, NEW n \in Members,
                    row'[m] # NoRow, row'[m].org = row'[n].org,
                    row'[m].user = row'[n].user
             PROVE  m = n
  BY DEF Unique
<1>t. /\ row \in [Members -> MemberRow \cup {NoRow}]
      /\ row' \in [Members -> MemberRow \cup {NoRow}]
  BY TypeInductive DEF TypeInv, TypeOK
<1>n. row'[n] # NoRow
  BY <1>t, OrgAssumption DEF MemberRow, NoRow
<1>1. CASE RowsKept
  BY <1>1, <1>n DEF Unique, RowsKept
<1>2. ASSUME NEW o \in Orgs, NEW u \in Users, RowAdded(o, u) PROVE m = n
  <2>1. PICK k \in Members, g \in Roles :
          row' = [row EXCEPT ![k] = [org |-> o, user |-> u, role |-> g]]
    BY <1>2 DEF RowAdded
  <2>2. \A x \in Members : x # k => row'[x] = row[x]
    BY <2>1, <1>t
  <2>3. row'[k].org = o /\ row'[k].user = u
    BY <2>1, <1>t
  <2>4. \A x \in Members : ~ (row[x].org = o /\ row[x].user = u)
    BY <1>2 DEF RowAdded, Insertable, Membership, MembersOf
  <2>5. CASE m = k /\ n # k
    BY <2>2, <2>3, <2>4, <2>5
  <2>6. CASE m # k /\ n = k
    BY <2>2, <2>3, <2>4, <2>6
  <2>7. CASE m # k /\ n # k
    <3>1. row'[m] = row[m] /\ row'[n] = row[n]
      BY <2>2, <2>7
    <3>2. row[m] # NoRow /\ row[m].org = row[n].org /\ row[m].user = row[n].user
      BY <3>1
    <3> QED BY <3>2 DEF Unique
  <2> QED BY <2>5, <2>6, <2>7
<1> QED BY <1>1, <1>2, RowSteps

LEMMA UniqueIsOne ==
    ASSUME TypeInv, Unique
    PROVE  OneMembership
<1> SUFFICES ASSUME NEW o \in Orgs, NEW u \in Users
             PROVE  Cardinality(Membership(o, u)) <= 1
  BY DEF OneMembership
<1>1. CASE Membership(o, u) = {}
  BY <1>1, FS_EmptySet
<1>2. ASSUME NEW m \in Membership(o, u) PROVE Membership(o, u) = {m}
  <2>1. \A n \in Membership(o, u) : /\ n \in Members
                                    /\ row[n] # NoRow
                                    /\ row[n].org = o /\ row[n].user = u
    BY OrgAssumption DEF Membership, MembersOf, NoRow
  <2> QED BY <1>2, <2>1 DEF Unique
<1>3. CASE Membership(o, u) # {}
  <2>1. PICK m \in Membership(o, u) : TRUE
    BY <1>3
  <2>2. Membership(o, u) = {m}
    BY <1>2, <2>1
  <2>3. Cardinality({m}) = 1
    BY FS_Singleton
  <2> QED BY <2>2, <2>3
<1> QED BY <1>1, <1>3

\* However requests interleave, nobody is twice a member of an organization:
\* the check in accept_invitation_core may be stale, the unique index is not.
THEOREM OneMembershipAlways == Spec => []OneMembership
<1>1. Init => Unique
  BY DEF Init, Unique
<1>2. Spec => [](TypeInv /\ Unique)
  BY <1>1, TypeInitially, TypeInductive, UniqueInductive, PTL DEF Spec
<1> QED BY <1>2, UniqueIsOne, PTL

-----------------------------------------------------------------------------
(* The foreign keys.                                                       *)

LEMMA KeysInductive ==
    TypeInv /\ NothingOutlivesItsOrg /\ [Next]_vars => NothingOutlivesItsOrg'
<1> SUFFICES ASSUME TypeInv, NothingOutlivesItsOrg, [Next]_vars
             PROVE  NothingOutlivesItsOrg'
  OBVIOUS
<1>t. /\ row \in [Members -> MemberRow \cup {NoRow}]
      /\ invite \in [Invites -> InviteRow \cup {Blank}]
  BY DEF TypeInv, TypeOK
<1>s. orgs \subseteq orgs' /\ row' = row /\ invite' = invite
        => NothingOutlivesItsOrg'
  BY DEF NothingOutlivesItsOrg
<1>r. orgs' = orgs /\ RowsKept /\ invite' = invite => NothingOutlivesItsOrg'
  BY DEF NothingOutlivesItsOrg, RowsKept
<1>1. CASE UNCHANGED vars
  BY <1>1, <1>s DEF vars, tables
<1>2. ASSUME NEW i \in Invites, Lapse(i) PROVE NothingOutlivesItsOrg'
  <2>1. invite[i] # Blank /\ invite[i] \in InviteRow
    BY <1>2, <1>t DEF Lapse, IsPending, Blank
  <2>2. invite'[i].org = invite[i].org
    BY <1>2, <2>1, <1>t DEF Lapse, InviteRow
  <2>3. \A j \in Invites : j # i => invite'[j] = invite[j]
    BY <1>2, <1>t DEF Lapse
  <2>4. UNCHANGED <<orgs, row>>
    BY <1>2 DEF Lapse
  <2> QED BY <2>1, <2>2, <2>3, <2>4 DEF NothingOutlivesItsOrg
<1>3. ASSUME NEW p \in Requests, Step(p) PROVE NothingOutlivesItsOrg'
  <2>l. req[p] \in Request /\ LocalsOK(req[p])
    BY DEF TypeInv, TypeOK
  <2>1. CASE ReadsWell(p)
    BY <2>1, <1>s DEF ReadsWell, Reads, tables
  <2>2. CASE InsertOrg(p)
    BY <2>2, <1>s DEF InsertOrg, Finish, Reads, tables
  <2>3. CASE DeleteOrg(p)
    BY <2>3 DEF DeleteOrg, DeleteOrgRow, NothingOutlivesItsOrg
  <2>4. CASE DropMember(p)
    <3>1. RowsKept
      BY <2>4, <1>t DEF DropMember, RowsKept
    <3> QED BY <2>4, <3>1, <1>r DEF DropMember
  <2>5. CASE WriteRole(p)
    BY <2>5, WriteRoleKeeps, <1>r DEF WriteRole, Finish, Reads, tables
  <2>6. CASE InsertMember(p)
    <3>1. CASE Finish(p)
      BY <3>1, <1>s DEF Finish, Reads, tables
    <3>2. ASSUME NEW m \in Members, req[p].org \in orgs,
                 row' = [row EXCEPT ![m] = [org |-> req[p].org,
                          user |-> req[p].user, role |-> req[p].grant]],
                 UNCHANGED <<orgs, invite>>
          PROVE  NothingOutlivesItsOrg'
      <4>1. row'[m].org = req[p].org
        BY <3>2, <1>t
      <4>2. \A n \in Members : n # m => row'[n] = row[n]
        BY <3>2, <1>t
      <4> QED BY <3>2, <4>1, <4>2 DEF NothingOutlivesItsOrg
    <3> QED BY <2>6, <3>1, <3>2 DEF InsertMember, Insertable
  <2>7. CASE InsertInvite(p)
    <3>1. CASE Finish(p)
      BY <3>1, <1>s DEF Finish, Reads, tables
    <3>2. ASSUME NEW i \in Invites, req[p].org \in orgs,
                 invite' = [invite EXCEPT ![i] =
                   [org |-> req[p].org, user |-> req[p].who,
                    role |-> req[p].grant, by |-> req[p].user,
                    status |-> "pending"]],
                 UNCHANGED <<orgs, row>>
          PROVE  NothingOutlivesItsOrg'
      <4>1. invite'[i].org = req[p].org
        BY <3>2, <1>t
      <4>2. \A j \in Invites : j # i => invite'[j] = invite[j]
        BY <3>2, <1>t
      <4> QED BY <3>2, <4>1, <4>2 DEF NothingOutlivesItsOrg
    <3> QED BY <2>7, <3>1, <3>2 DEF InsertInvite
  <2>8. CASE Mark(p)
    <3>1. CASE Finish(p)
      BY <3>1, <1>s DEF Finish, Reads, tables
    <3> DEFINE i == req[p].invite
    <3>2. ASSUME invite[i] # Blank,
                 invite' = [invite EXCEPT ![i].status = Answer(req[p].op)],
                 UNCHANGED <<orgs, row>>
          PROVE  NothingOutlivesItsOrg'
      <4>1. i \in Invites
        BY <2>8, <2>l DEF Mark, LocalsOK
      <4>2. invite[i] \in InviteRow
        BY <3>2, <4>1, <1>t
      <4>3. invite'[i].org = invite[i].org
        BY <3>2, <4>1, <4>2, <1>t DEF InviteRow
      <4>4. \A j \in Invites : j # i => invite'[j] = invite[j]
        BY <3>2, <4>1, <1>t
      <4> QED BY <3>2, <4>3, <4>4 DEF NothingOutlivesItsOrg
    <3> QED BY <2>8, <3>1, <3>2 DEF Mark
  <2> QED BY <1>3, StepKinds, <2>1, <2>2, <2>3, <2>4, <2>5, <2>6, <2>7, <2>8
<1> QED BY <1>1, <1>2, <1>3 DEF Next

\* A deleted organization leaves nothing behind and nothing comes back: a
\* request that read it before writes no row after (the foreign keys of
\* member and invitation against delete_organization).
THEOREM NothingOutlives == Spec => []NothingOutlivesItsOrg
<1>1. Init => NothingOutlivesItsOrg
  BY DEF Init, NothingOutlivesItsOrg
<1>2. Spec => [](TypeInv /\ NothingOutlivesItsOrg)
  BY <1>1, TypeInitially, TypeInductive, KeysInductive, PTL DEF Spec
<1> QED BY <1>2, PTL

-----------------------------------------------------------------------------
(* The last owner.                                                         *)

\* Somebody else owns the organization, if this member does.
Spare(o, m) == IsOwner(row[m].role) => \E n \in Owners(o) : n # m

\* The statements a request can take an owner away with, and those it decides
\* that on.
Near == {"target", "count", "drop", "write_role"}

\* What a request nobody has overtaken still knows.
Knows(r) == ~ r.raced =>
    /\ r.at = "target" => row[r.self].org = r.org /\ row[r.self].role = r.rank
    /\ r.at = "count" => row[r.target].org = r.org
    /\ r.at = "drop" \/ (r.at = "write_role" /\ ~ IsOwner(r.grant))
         => row[r.target].org = r.org /\ Spare(r.org, r.target)

KnowInv == \A p \in Requests : Knows(req[p])

LEMMA KnowsReads ==
    ASSUME TypeInv, KnowInv, NEW p \in Requests, NEW r, Knows(r), Reads(p, r)
    PROVE  KnowInv'
<1>1. row' = row /\ \A q \in Requests : req'[q] = IF q = p THEN r ELSE req[q]
  BY DEF Reads, tables, TypeInv, TypeOK
<1>2. \A q \in Requests : Knows(req'[q])
  BY <1>1 DEF KnowInv
<1> QED BY <1>1, <1>2 DEF KnowInv, Knows, Spare, Owners, MembersOf

LEMMA KnowsOvertaken ==
    ASSUME TypeInv, NEW q \in Requests,
           req'[q] = [req[q] EXCEPT !.raced = @ \/ Relies(q)]
    PROVE  Knows(req[q])'
<1>1. req[q] \in Request
  BY DEF TypeInv, TypeOK
<1>2. req'[q].raced = (req[q].raced \/ Relies(q)) /\ req'[q].at = req[q].at
  BY <1>1 DEF Request
<1>3. ~ req'[q].raced => req'[q].at \notin Near
  BY <1>2 DEF Relies, Near
<1> QED BY <1>3 DEF Knows, Near

LEMMA KnowsWrites ==
    ASSUME TypeInv, NEW p \in Requests, NEW r, r.at \notin Near, Overtakes(p, r)
    PROVE  KnowInv'
<1>1. Knows(req[p])'
  BY DEF Overtakes, Knows, Near
<1>2. ASSUME NEW q \in Requests, q # p PROVE Knows(req[q])'
  BY <1>2, KnowsOvertaken DEF Overtakes
<1> QED BY <1>1, <1>2 DEF KnowInv

\* A request that comes to no statement near.
ReadsFar(p) == \E r : r.at \notin Near /\ Reads(p, r)

LEMMA FinishFar == ASSUME NEW p \in Requests, Finish(p) PROVE ReadsFar(p)
  BY DEF Finish, ReadsFar, Near, Idle

LEMMA GotoFar ==
    ASSUME TypeInv, NEW p \in Requests, NEW l, l \notin Near, Goto(p, l)
    PROVE  ReadsFar(p)
<1>1. At(p, l).at = l
  BY DEF At, TypeInv, TypeOK, Request
<1> QED BY <1>1 DEF Goto, ReadsFar

LEMMA MarksFar ==
    ASSUME NEW p \in Requests, NEW i PROVE Marks(p, i).at \notin Near
  BY DEF Marks, Idle, Near

LEMMA FarStatements ==
    ASSUME TypeInv, NEW p \in Requests,
           \/ \E op \in AllOps, u \in Users : Begin(p, op, u)
           \/ CheckLimit(p) \/ ReadOrg(p) \/ CheckRoom(p) \/ CheckPending(p)
           \/ ReadInvitee(p) \/ ReadExisting(p) \/ ReadInvite(p)
           \/ Permit(p) \/ ReadJoined(p) \/ Fail(p)
    PROVE  ReadsFar(p)
<1>0. req[p] \in Request /\ Idle \in Request
  BY IdleTyped DEF TypeInv, TypeOK
<1>f. Finish(p) => ReadsFar(p)
  BY FinishFar
<1>g. \A l : l \notin Near /\ Goto(p, l) => ReadsFar(p)
  BY GotoFar
<1>m. \A i : Reads(p, Marks(p, i)) => ReadsFar(p)
  BY MarksFar DEF ReadsFar
<1>1. ASSUME NEW op \in AllOps, NEW u \in Users, Begin(p, op, u)
      PROVE  ReadsFar(p)
  <2>1. PICK l \in {"limit", "invite_row", "member"} :
          Reads(p, [Idle EXCEPT !.op = op, !.user = u, !.at = l])
    BY <1>1 DEF Begin
  <2>2. [Idle EXCEPT !.op = op, !.user = u, !.at = l].at = l
    BY <1>0 DEF Request
  <2> QED BY <2>1, <2>2 DEF ReadsFar, Near
<1>2. CASE CheckLimit(p) \/ ReadOrg(p) \/ CheckRoom(p) \/ CheckPending(p)
           \/ ReadExisting(p)
  BY <1>2, <1>f, <1>g
     DEF CheckLimit, ReadOrg, CheckRoom, CheckPending, ReadExisting, Near
<1>3. CASE ReadInvitee(p)
  <2>1. ASSUME NEW u \in Users,
               Reads(p, [req[p] EXCEPT !.at = "existing", !.who = u])
        PROVE  ReadsFar(p)
    <3>1. [req[p] EXCEPT !.at = "existing", !.who = u].at = "existing"
      BY <1>0 DEF Request
    <3> QED BY <2>1, <3>1 DEF ReadsFar, Near
  <2> QED BY <1>3, <2>1, <1>f DEF ReadInvitee
<1>4. CASE ReadInvite(p)
  <2>1. ASSUME NEW i \in Invites, NEW o, NEW g,
               Reads(p, [req[p] EXCEPT !.at = "room", !.invite = i, !.org = o,
                                       !.grant = g])
        PROVE  ReadsFar(p)
    <3>1. [req[p] EXCEPT !.at = "room", !.invite = i, !.org = o,
                         !.grant = g].at = "room"
      BY <1>0 DEF Request
    <3> QED BY <2>1, <3>1 DEF ReadsFar, Near
  <2>2. ASSUME NEW i \in Invites, NEW o,
               Reads(p, [req[p] EXCEPT !.at = "permit", !.invite = i, !.org = o])
        PROVE  ReadsFar(p)
    <3>1. [req[p] EXCEPT !.at = "permit", !.invite = i, !.org = o].at = "permit"
      BY <1>0 DEF Request
    <3> QED BY <2>2, <3>1 DEF ReadsFar, Near
  <2> QED BY <1>4, <1>f, <1>m, <2>1, <2>2 DEF ReadInvite
<1>5. CASE Permit(p) \/ ReadJoined(p) \/ Fail(p)
  BY <1>5, <1>f, <1>g, <1>m DEF Permit, ReadJoined, Fail, Near
<1> QED BY <1>1, <1>2, <1>3, <1>4, <1>5

\* Two owners are more than any one of them.
LEMMA EnoughSpare ==
    ASSUME NEW o \in Orgs, EnoughOwners(o), NEW m
    PROVE  \E n \in Owners(o) : n # m
<1>1. CASE Owners(o) \subseteq {m}
  <2>1. Owners(o) = {} \/ Owners(o) = {m}
    BY <1>1
  <2>2. Cardinality({}) = 0 /\ Cardinality({m}) = 1
    BY FS_EmptySet, FS_Singleton
  <2>3. Cardinality(Owners(o)) = 0 \/ Cardinality(Owners(o)) = 1
    BY <2>1, <2>2
  <2> QED BY <2>3 DEF EnoughOwners
<1> QED BY <1>1

\* What a request learns at each statement that comes near.
LEMMA NearMember ==
    ASSUME TypeInv, NEW p \in Requests, ReadMember(p)
    PROVE  \E r : Knows(r) /\ Reads(p, r)
<1>0. req[p] \in Request
  BY DEF TypeInv, TypeOK
<1>f. ReadsFar(p) => \E r : Knows(r) /\ Reads(p, r)
  BY DEF ReadsFar, Knows, Near
<1>1. CASE Finish(p)
  BY <1>1, <1>f, FinishFar
<1>2. ASSUME NEW o \in Orgs, Reads(p, [req[p] EXCEPT !.at = "org_row", !.org = o])
      PROVE  ReadsFar(p)
  <2>1. [req[p] EXCEPT !.at = "org_row", !.org = o].at = "org_row"
    BY <1>0 DEF Request
  <2> QED BY <1>2, <2>1 DEF ReadsFar, Near
<1>3. ASSUME NEW o \in Orgs, NEW m \in Membership(o, req[p].user),
             NEW l \in {"count", "drop"}, l = "drop" => ~ IsOwner(row[m].role),
             Reads(p, [req[p] EXCEPT !.org = o, !.target = m, !.at = l])
      PROVE  \E r : Knows(r) /\ Reads(p, r)
  <2> DEFINE r2 == [req[p] EXCEPT !.org = o, !.target = m, !.at = l]
  <2>1. r2.at = l /\ r2.org = o /\ r2.target = m
    BY <1>0 DEF Request
  <2>2. row[m].org = o
    BY MembershipTyped
  <2>3. Knows(r2)
    BY <1>3, <2>1, <2>2 DEF Knows, Spare
  <2> QED BY <1>3, <2>3
<1>4. ASSUME NEW o \in Orgs, NEW m \in Membership(o, req[p].user),
             Reads(p, [req[p] EXCEPT !.at = "target", !.org = o, !.self = m,
                                     !.rank = row[m].role])
      PROVE  \E r : Knows(r) /\ Reads(p, r)
  <2> DEFINE r2 == [req[p] EXCEPT !.at = "target", !.org = o, !.self = m,
                                  !.rank = row[m].role]
  <2>1. /\ r2.at = "target" /\ r2.org = o /\ r2.self = m
        /\ r2.rank = row[m].role
    BY <1>0 DEF Request
  <2>2. row[m].org = o
    BY MembershipTyped
  <2>3. Knows(r2)
    BY <2>1, <2>2 DEF Knows
  <2> QED BY <1>4, <2>3
<1>5. ASSUME NEW o \in Orgs, NEW g,
             Reads(p, [req[p] EXCEPT !.at = "room", !.org = o, !.grant = g])
      PROVE  ReadsFar(p)
  <2>1. [req[p] EXCEPT !.at = "room", !.org = o, !.grant = g].at = "room"
    BY <1>0 DEF Request
  <2> QED BY <1>5, <2>1 DEF ReadsFar, Near
<1> QED BY <1>1, <1>2, <1>3, <1>4, <1>5, <1>f DEF ReadMember

LEMMA NearRemoved ==
    ASSUME TypeInv, NEW p \in Requests, ReadRemoved(p)
    PROVE  \E r : Knows(r) /\ Reads(p, r)
<1>0. req[p] \in Request
  BY DEF TypeInv, TypeOK
<1>1. CASE Finish(p)
  BY <1>1, FinishFar DEF ReadsFar, Knows, Near
<1>2. ASSUME NEW m \in MembersOf(req[p].org), NEW l \in {"count", "drop"},
             l = "drop" => ~ IsOwner(row[m].role),
             Reads(p, [req[p] EXCEPT !.target = m, !.self = NoMember,
                                     !.rank = {}, !.at = l])
      PROVE  \E r : Knows(r) /\ Reads(p, r)
  <2> DEFINE r2 == [req[p] EXCEPT !.target = m, !.self = NoMember, !.rank = {},
                                  !.at = l]
  <2>1. r2.at = l /\ r2.org = req[p].org /\ r2.target = m
    BY <1>0 DEF Request
  <2>2. row[m].org = req[p].org
    BY DEF MembersOf
  <2>3. Knows(r2)
    BY <1>2, <2>1, <2>2 DEF Knows, Spare
  <2> QED BY <1>2, <2>3
<1> QED BY <1>1, <1>2 DEF ReadRemoved

LEMMA NearUpdated ==
    ASSUME TypeInv, KnowInv, NEW p \in Requests, ReadUpdated(p)
    PROVE  \E r : Knows(r) /\ Reads(p, r)
<1>0. /\ req[p] \in Request /\ Knows(req[p])
      /\ req[p].at = "target" /\ req[p].self \in Members
  BY DEF TypeInv, TypeOK, KnowInv, ReadUpdated, LocalsOK
<1>1. CASE Finish(p)
  BY <1>1, FinishFar DEF ReadsFar, Knows, Near
<1>2. ASSUME NEW m \in MembersOf(req[p].org), NEW g \in Grants,
             NEW l \in {"count", "write_role"},
             MayChangeRole(req[p].rank, row[m].role, g),
             l = "write_role" => ~ (IsOwner(row[m].role) /\ req[p].self = m
                                    /\ ~ IsOwner(g)),
             Reads(p, [req[p] EXCEPT !.target = m, !.grant = g,
                                     !.self = NoMember, !.rank = {}, !.at = l])
      PROVE  \E r : Knows(r) /\ Reads(p, r)
  <2> DEFINE r2 == [req[p] EXCEPT !.target = m, !.grant = g, !.self = NoMember,
                                  !.rank = {}, !.at = l]
  <2>1. /\ r2.at = l /\ r2.org = req[p].org /\ r2.target = m /\ r2.grant = g
        /\ r2.raced = req[p].raced
    BY <1>0 DEF Request
  <2>2. row[m].org = req[p].org
    BY DEF MembersOf
  <2>3. ASSUME ~ req[p].raced, l = "write_role", ~ IsOwner(g)
        PROVE  Spare(req[p].org, m)
    <3>1. SUFFICES ASSUME IsOwner(row[m].role)
                   PROVE  \E n \in Owners(req[p].org) : n # m
      BY DEF Spare
    <3>2. IsOwner(req[p].rank) /\ req[p].self # m
      BY <1>2, <2>3, <3>1 DEF MayChangeRole
    <3>3. row[req[p].self].org = req[p].org /\ row[req[p].self].role = req[p].rank
      BY <1>0, <2>3 DEF Knows
    <3>4. req[p].self \in Owners(req[p].org)
      BY <1>0, <3>2, <3>3 DEF Owners, MembersOf
    <3> QED BY <3>2, <3>4
  <2>4. Knows(r2)
    BY <2>1, <2>2, <2>3 DEF Knows
  <2> QED BY <1>2, <2>4
<1> QED BY <1>1, <1>2 DEF ReadUpdated

LEMMA NearCount ==
    ASSUME TypeInv, KnowInv, NEW p \in Requests, CountOwners(p)
    PROVE  \E r : Knows(r) /\ Reads(p, r)
<1>0. /\ req[p] \in Request /\ Knows(req[p])
      /\ req[p].at = "count" /\ req[p].org \in Orgs
  BY DEF TypeInv, TypeOK, KnowInv, CountOwners, LocalsOK
<1>1. CASE Finish(p)
  BY <1>1, FinishFar DEF ReadsFar, Knows, Near
<1>2. ASSUME EnoughOwners(req[p].org), NEW l \in {"write_role", "drop"},
             Reads(p, [req[p] EXCEPT !.at = l])
      PROVE  \E r : Knows(r) /\ Reads(p, r)
  <2> DEFINE r2 == [req[p] EXCEPT !.at = l]
  <2>1. /\ r2.at = l /\ r2.org = req[p].org /\ r2.target = req[p].target
        /\ r2.raced = req[p].raced
    BY <1>0 DEF Request
  <2>2. Spare(req[p].org, req[p].target)
    BY <1>0, <1>2, EnoughSpare DEF Spare
  <2>3. Knows(r2)
    BY <1>0, <2>1, <2>2 DEF Knows
  <2> QED BY <1>2, <2>3
<1> QED BY <1>1, <1>2 DEF CountOwners, Goto, At

LEMMA KnowWriting ==
    ASSUME TypeInv, KnowInv, NEW p \in Requests,
           \/ InsertOrg(p) \/ DeleteOrg(p) \/ DropMember(p) \/ WriteRole(p)
           \/ InsertMember(p) \/ InsertInvite(p) \/ Mark(p)
    PROVE  KnowInv'
<1>0. req[p] \in Request /\ Idle.at \notin Near
  BY DEF TypeInv, TypeOK, Idle, Near
<1>f. Finish(p) => KnowInv'
  BY FinishFar, KnowsReads DEF ReadsFar, Knows, Near
<1>1. CASE InsertOrg(p)
  <2>1. ASSUME NEW o \in Orgs,
               Overtakes(p, [req[p] EXCEPT !.at = "insert_member", !.org = o,
                                           !.grant = {CreatorRole}])
        PROVE  KnowInv'
    <3>1. [req[p] EXCEPT !.at = "insert_member", !.org = o,
                         !.grant = {CreatorRole}].at = "insert_member"
      BY <1>0 DEF Request
    <3> QED BY <2>1, <3>1, KnowsWrites DEF Near
  <2> QED BY <1>1, <1>f, <2>1 DEF InsertOrg
<1>2. CASE InsertMember(p)
  BY <1>2, <1>0, <1>f, MarksFar, KnowsWrites DEF InsertMember
<1>3. CASE DeleteOrg(p) \/ DropMember(p) \/ WriteRole(p) \/ InsertInvite(p) \/ Mark(p)
  BY <1>3, <1>0, <1>f, KnowsWrites
     DEF DeleteOrg, DropMember, WriteRole, InsertInvite, Mark
<1> QED BY <1>1, <1>2, <1>3

LEMMA KnowInductive == TypeInv /\ KnowInv /\ [Next]_vars => KnowInv'
<1> SUFFICES ASSUME TypeInv, KnowInv, [Next]_vars PROVE KnowInv'
  OBVIOUS
<1>1. CASE UNCHANGED vars
  BY <1>1 DEF vars, tables, KnowInv, Knows, Spare, Owners, MembersOf
<1>2. ASSUME NEW i \in Invites, Lapse(i) PROVE KnowInv'
  BY <1>2, KnowsOvertaken DEF Lapse, KnowInv
<1>3. ASSUME NEW p \in Requests, Step(p) PROVE KnowInv'
  <2>1. CASE ReadsFar(p)
    BY <2>1, KnowsReads DEF ReadsFar, Knows, Near
  <2>2. CASE \E r : Knows(r) /\ Reads(p, r)
    BY <2>2, KnowsReads
  <2> QED BY <1>3, <2>1, <2>2, KnowWriting, FarStatements, NearMember,
             NearRemoved, NearUpdated, NearCount DEF Step
<1> QED BY <1>1, <1>2, <1>3 DEF Next

\* No step but a request's that drops a member or rewrites a role takes an
\* owner away from an organization that stays.
LEMMA OwnersStay ==
    ASSUME TypeInv, KnowInv, NEW p \in Requests, Step(p),
           NEW o \in orgs \cap orgs', Owners(o) # {}, Owners(o)' = {}
    PROVE  /\ DropMember(p) \/ (WriteRole(p) /\ ~ Finish(p))
           /\ req'[p].at = "idle"
<1>t. o \in Orgs /\ row \in [Members -> MemberRow \cup {NoRow}]
  BY DEF TypeInv, TypeOK
<1>r. ASSUME UNCHANGED row PROVE FALSE
  BY <1>r DEF Owners, MembersOf
<1>1. ~ ReadsWell(p)
  BY <1>r DEF ReadsWell, Reads, tables
<1>f. ~ Finish(p)
  BY <1>r DEF Finish, Reads, tables
<1>2. ~ (InsertOrg(p) \/ InsertInvite(p) \/ Mark(p))
  BY <1>r, <1>f DEF InsertOrg, InsertInvite, Mark
<1>3. ASSUME DeleteOrg(p) PROVE FALSE
  <2>1. o # req[p].org
    BY <1>3 DEF DeleteOrg, DeleteOrgRow
  <2>2. \A m \in MembersOf(o) : row'[m] = row[m]
    BY <1>3, <2>1 DEF DeleteOrg, DeleteOrgRow, MembersOf
  <2> QED BY <2>2 DEF Owners, MembersOf
<1>4. ASSUME InsertMember(p) PROVE FALSE
  <2>1. PICK m \in Members : row[m] = NoRow /\ \E x : row' = [row EXCEPT ![m] = x]
    BY <1>4, <1>f DEF InsertMember, FreshMember
  <2>2. \A n \in Members : n # m => row'[n] = row[n]
    BY <2>1, <1>t
  <2>3. m \notin Owners(o)
    BY <2>1, <1>t, OrgAssumption DEF Owners, MembersOf, NoRow
  <2> QED BY <2>2, <2>3 DEF Owners, MembersOf
<1>5. DropMember(p) \/ WriteRole(p)
  BY <1>1, <1>2, <1>3, <1>4, StepKinds
<1>6. Overtakes(p, Idle)
  BY <1>5, <1>f DEF DropMember, WriteRole
<1> QED BY <1>5, <1>6, <1>f DEF Overtakes, Idle

LEMMA LastOwnerTaken ==
    ASSUME TypeInv, KnowInv, NEW p \in Requests, Step(p),
           NEW o \in orgs \cap orgs', Owners(o) # {}, Owners(o)' = {}
    PROVE  req[p].raced
<1>t. /\ o \in Orgs /\ row \in [Members -> MemberRow \cup {NoRow}]
      /\ Knows(req[p]) /\ req[p] \in Request
  BY DEF TypeInv, TypeOK, KnowInv
<1> SUFFICES ASSUME ~ req[p].raced PROVE FALSE
  BY <1>t DEF Request
<1> DEFINE m == req[p].target
<1>1. /\ DropMember(p) \/ (WriteRole(p) /\ ~ Finish(p))
      /\ m \in Members
  BY OwnersStay DEF DropMember, WriteRole, TypeInv, LocalsOK
<1>2. \A n \in Members : n # m => row'[n] = row[n]
  BY <1>1, <1>t DEF DropMember, WriteRole
<1>3. Owners(o) = {m}
  BY <1>2 DEF Owners, MembersOf
<1>4. row[m].org = o /\ IsOwner(row[m].role)
  BY <1>3 DEF Owners, MembersOf
<1>5. ASSUME WriteRole(p), ~ Finish(p), IsOwner(req[p].grant) PROVE FALSE
  <2>1. row[m] \in MemberRow
    BY <1>1, <1>5, <1>t DEF WriteRole
  <2>2. row'[m] = [row[m] EXCEPT !.role = req[p].grant]
    BY <1>1, <1>5, <1>t DEF WriteRole
  <2>3. row'[m].org = o /\ row'[m].role = req[p].grant
    BY <2>1, <2>2, <1>4 DEF MemberRow
  <2> QED BY <1>1, <1>5, <2>3 DEF Owners, MembersOf
<1>6. row[m].org = req[p].org /\ Spare(req[p].org, m)
  BY <1>1, <1>5, <1>t DEF Knows, DropMember, WriteRole
<1> QED BY <1>3, <1>4, <1>6 DEF Spare

\* A request nobody overlaps never takes an organization's last owner away: the
\* counts in leave_organization_core, remove_member_core and
\* update_member_role_core are enough for it.
THEOREM LastOwnerKeptAlways == Spec => LastOwnerKept
<1>1. ASSUME TypeInv, KnowInv, [Next]_vars
      PROVE  [\A o \in orgs \cap orgs' : Owners(o) # {} /\ Owners(o)' = {} =>
                \E p \in Requests : Moves(p) /\ req[p].raced]_vars
  <2> SUFFICES ASSUME Next, NEW o \in orgs \cap orgs', Owners(o) # {},
                      Owners(o)' = {}
               PROVE  \E p \in Requests : Moves(p) /\ req[p].raced
    BY <1>1
  <2>1. ASSUME NEW i \in Invites, Lapse(i) PROVE FALSE
    BY <2>1 DEF Lapse, Owners, MembersOf
  <2>2. PICK p \in Requests : Step(p)
    BY <2>1 DEF Next
  <2>3. req[p].raced
    BY <1>1, <2>2, LastOwnerTaken
  <2>4. req'[p].at = "idle" /\ (DropMember(p) \/ WriteRole(p))
    BY <1>1, <2>2, OwnersStay
  <2>5. Moves(p)
    BY <2>4 DEF Moves, DropMember, WriteRole
  <2> QED BY <2>3, <2>5
<1>2. Init => KnowInv
  BY DEF Init, KnowInv, Knows, Idle
<1>3. Spec => [](TypeInv /\ KnowInv)
  BY <1>2, TypeInitially, TypeInductive, KnowInductive, PTL DEF Spec
<1> QED BY <1>1, <1>3, PTL DEF Spec, LastOwnerKept

-----------------------------------------------------------------------------
(* Who may make an owner, and who may join.                                *)

\* A request on its way to hand out the creator role: the requester's role is
\* judged at ReadMember and again at ReadUpdated, and rewritten by others after.
MakesOwner(r) ==
    \/ r.op = "update_role" /\ r.at = "target" /\ IsOwner(r.rank)
    \/ r.op = "update_role" /\ r.at \in {"count", "write_role"} /\ IsOwner(r.grant)
    \/ r.op = "invite" /\ r.at = "room" /\ IsOwner(r.grant)
    \/ /\ r.at \in {"pending", "invitee", "existing", "insert_invite"}
       /\ IsOwner(r.grant)

\* A request on its way to accept an invitation, and the invitation it read.
Accepts(r) == r.op = "accept" /\ r.at \in {"room", "joined", "insert_member"}

Read(r) ==
    /\ invite[r.invite] # Blank
    /\ invite[r.invite].org = r.org
    /\ invite[r.invite].user = r.user
    /\ invite[r.invite].role = r.grant

\* What a request goes on.  As long as its organization is there, whoever is
\* about to hand out the creator role had it once, and an invitation being
\* accepted is the one that was read.
Backed(r) ==
    /\ r.at = "insert_member" => r.op \in {"create", "accept"}
    /\ r.at = "write_role" => r.op = "update_role"
    /\ r.at \in {"count", "drop", "write_role"} =>
          row[r.target] = NoRow \/ row[r.target].org = r.org
    /\ r.org \in orgs /\ MakesOwner(r) => r.user \in owned[r.org]
    /\ r.org \in orgs /\ Accepts(r) => Read(r)

\* An organization whose creator is no member yet: nobody has anything to do
\* with it.
Founds(r) == r.op = "create" /\ r.at = "insert_member"

Founding(p) == Founds(req[p]) =>
    /\ owned[req[p].org] = {}
    /\ \A m \in Members : row[m].org # req[p].org
    /\ \A i \in Invites : invite[i].org # req[p].org
    /\ \A q \in Requests \ {p} : req[q].org # req[p].org

\* Owners, and whoever invited an owner, are on record.
Recorded ==
    /\ \A m \in Members : row[m] # NoRow /\ IsOwner(row[m].role) =>
          row[m].user \in owned[row[m].org]
    /\ \A i \in Invites : invite[i] # Blank /\ IsOwner(invite[i].role) =>
          invite[i].by \in owned[invite[i].org]
    /\ \A o \in Orgs \ orgs : owned[o] = {}

AllBacked == \A p \in Requests : Backed(req[p]) /\ Founding(p)

OwnInv == TypeInv /\ NothingOutlivesItsOrg /\ Recorded /\ AllBacked

\* A request that reads and goes on with locals that are backed, and with an
\* organization it had already, or found in a row.
Grounded(p, r) ==
    /\ Backed(r) /\ ~ Founds(r)
    /\ \/ r.org \in {NoOrg, req[p].org}
       \/ \E m \in Members : row[m].org = r.org
       \/ \E i \in Invites : invite[i].org = r.org

ReadsBacked(p) == \E r : Grounded(p, r) /\ Reads(p, r)

LEMMA BackedReads ==
    ASSUME OwnInv, NEW p \in Requests, NEW r, Grounded(p, r), Reads(p, r)
    PROVE  Recorded' /\ AllBacked'
<1>1. UNCHANGED <<orgs, row, invite, owned>>
  BY DEF Reads, tables
<1>2. \A q \in Requests : req'[q] = IF q = p THEN r ELSE req[q]
  BY DEF Reads, OwnInv, TypeInv, TypeOK
<1>3. Recorded'
  BY <1>1 DEF OwnInv, Recorded
<1>4. ASSUME NEW q \in Requests PROVE Backed(req[q])'
  <2>1. Backed(req'[q])
    BY <1>2 DEF OwnInv, AllBacked, Grounded
  <2> QED BY <1>1, <2>1 DEF Backed, Read
<1>5. ASSUME NEW q \in Requests PROVE Founding(q)'
  <2>1. CASE q = p
    BY <2>1, <1>2 DEF Founding, Grounded
  <2>2. CASE q # p
    <3> DEFINE o == req[q].org
    <3>1. req'[q] = req[q] /\ Founding(q)
      BY <2>2, <1>2 DEF OwnInv, AllBacked
    <3> SUFFICES ASSUME Founds(req[q]) PROVE Founding(q)'
      BY <3>1 DEF Founding
    <3>2. o \in Orgs
      BY DEF Founds, OwnInv, TypeInv, LocalsOK
    <3>3. /\ owned[o] = {}
          /\ \A m \in Members : row[m].org # o
          /\ \A i \in Invites : invite[i].org # o
          /\ \A s \in Requests \ {q} : req[s].org # o
      BY <3>1 DEF Founding
    <3>4. r.org # o
      BY <2>2, <3>2, <3>3, OrgAssumption DEF Grounded
    <3>5. \A s \in Requests \ {q} : req'[s].org # o
      BY <1>2, <3>3, <3>4
    <3> QED BY <1>1, <3>1, <3>3, <3>5 DEF Founding
  <2> QED BY <2>1, <2>2
<1> QED BY <1>3, <1>4, <1>5 DEF AllBacked

LEMMA IdleGrounded ==
    ASSUME TypeInv, NEW p \in Requests, Finish(p)
    PROVE  ReadsBacked(p)
<1>1. Idle.at = "idle" /\ Idle.org = NoOrg /\ Idle.op = "none"
  BY DEF Idle
<1>2. NoOrg \notin orgs
  BY OrgAssumption DEF TypeInv, TypeOK
<1>3. Grounded(p, Idle)
  BY <1>1, <1>2 DEF Grounded, Backed, Founds
<1> QED BY <1>3 DEF Finish, ReadsBacked

LEMMA MarksBacked ==
    ASSUME TypeInv, NEW p \in Requests, NEW i
    PROVE  Grounded(p, Marks(p, i)) /\ ~ Founds(Marks(p, i))
<1>1. Marks(p, i).at = "mark" /\ Marks(p, i).org = NoOrg
  BY DEF Marks, Idle
<1>2. NoOrg \notin orgs
  BY OrgAssumption DEF TypeInv, TypeOK
<1> QED BY <1>1, <1>2 DEF Grounded, Backed, Founds

\* A statement that changes none of the locals that matter, and comes to no
\* write.
LEMMA GoesOnBacked ==
    ASSUME OwnInv, NEW p \in Requests, NEW r, Reads(p, r),
           r.org = req[p].org, r.user = req[p].user, r.grant = req[p].grant,
           r.invite = req[p].invite,
           r.at \notin {"insert_member", "write_role", "count", "drop"},
           MakesOwner(r) => MakesOwner(req[p]),
           Accepts(r) => Accepts(req[p])
    PROVE  ReadsBacked(p)
<1>1. Backed(req[p])
  BY DEF OwnInv, AllBacked
<1>2. Grounded(p, r)
  BY <1>1 DEF Grounded, Backed, Founds, Read
<1> QED BY <1>2 DEF ReadsBacked

LEMMA GoingOnBacked ==
    ASSUME OwnInv, NEW p \in Requests,
           \/ CheckLimit(p) \/ ReadOrg(p) \/ CheckRoom(p) \/ CheckPending(p)
           \/ ReadInvitee(p) \/ ReadExisting(p) \/ Permit(p) \/ Fail(p)
    PROVE  ReadsBacked(p)
<1>0. req[p] \in Request /\ LocalsOK(req[p]) /\ TypeInv
  BY DEF OwnInv, TypeInv, TypeOK
<1>f. Finish(p) => ReadsBacked(p)
  BY <1>0, IdleGrounded
<1>h. ASSUME NEW l
      PROVE  /\ At(p, l).at = l /\ At(p, l).org = req[p].org
             /\ At(p, l).user = req[p].user /\ At(p, l).grant = req[p].grant
             /\ At(p, l).invite = req[p].invite /\ At(p, l).op = req[p].op
  BY <1>0 DEF At, Request
<1>1. CASE CheckLimit(p) \/ ReadOrg(p)
  <2>1. ASSUME NEW l \in {"insert_org", "delete_org"}, Reads(p, At(p, l))
        PROVE  ReadsBacked(p)
    BY <2>1, <1>h, GoesOnBacked DEF MakesOwner, Accepts
  <2> QED BY <1>1, <1>f, <2>1 DEF CheckLimit, ReadOrg, Goto
<1>2. CASE CheckRoom(p)
  <2>1. req[p].at = "room" /\ req[p].op \in {"invite", "accept"}
    BY <1>2, <1>0 DEF CheckRoom, LocalsOK
  <2>2. CASE Reads(p, At(p, "pending")) /\ req[p].op = "invite"
    BY <2>1, <2>2, <1>h, GoesOnBacked DEF MakesOwner, Accepts
  <2>3. CASE Reads(p, At(p, "joined")) /\ req[p].op = "accept"
    BY <2>1, <2>3, <1>h, GoesOnBacked DEF MakesOwner, Accepts
  <2> QED BY <1>2, <1>f, <2>1, <2>2, <2>3 DEF CheckRoom, Goto
<1>3. CASE CheckPending(p) \/ ReadExisting(p)
  <2>1. ASSUME NEW l \in {"invitee", "insert_invite"}, Reads(p, At(p, l)),
               req[p].at \in {"pending", "existing"}
        PROVE  ReadsBacked(p)
    BY <2>1, <1>h, GoesOnBacked DEF MakesOwner, Accepts
  <2> QED BY <1>3, <1>f, <2>1 DEF CheckPending, ReadExisting, Goto
<1>4. CASE ReadInvitee(p)
  <2>1. ASSUME NEW u \in Users,
               Reads(p, [req[p] EXCEPT !.at = "existing", !.who = u])
        PROVE  ReadsBacked(p)
    <3> DEFINE r == [req[p] EXCEPT !.at = "existing", !.who = u]
    <3>1. /\ r.at = "existing" /\ r.org = req[p].org /\ r.user = req[p].user
          /\ r.grant = req[p].grant /\ r.invite = req[p].invite
          /\ r.op = req[p].op
      BY <1>0 DEF Request
    <3> HIDE DEF r
    <3>2. Reads(p, r)
      BY <2>1 DEF r
    <3>3. req[p].at = "invitee"
      BY <1>4 DEF ReadInvitee
    <3> QED BY <3>1, <3>2, <3>3, GoesOnBacked DEF MakesOwner, Accepts
  <2> QED BY <1>4, <1>f, <2>1 DEF ReadInvitee
<1>5. CASE Permit(p) \/ Fail(p)
  <2>1. \A i : Reads(p, Marks(p, i)) => ReadsBacked(p)
    BY <1>0, MarksBacked DEF ReadsBacked
  <2> QED BY <1>5, <1>f, <2>1 DEF Permit, Fail
<1> QED BY <1>1, <1>2, <1>3, <1>4, <1>5

LEMMA BeginBacked ==
    ASSUME OwnInv, NEW p \in Requests, NEW op \in AllOps, NEW u \in Users,
           Begin(p, op, u)
    PROVE  ReadsBacked(p)
<1>1. PICK l \in {"limit", "invite_row", "member"} :
         Reads(p, [Idle EXCEPT !.op = op, !.user = u, !.at = l])
  BY DEF Begin
<1> DEFINE r == [Idle EXCEPT !.op = op, !.user = u, !.at = l]
<1>2. r.at = l /\ r.org = NoOrg
  BY DEF Idle
<1>3. NoOrg \notin orgs
  BY OrgAssumption DEF OwnInv, TypeInv, TypeOK
<1>4. Grounded(p, r)
  BY <1>2, <1>3 DEF Grounded, Backed, Founds
<1> QED BY <1>1, <1>4 DEF ReadsBacked

LEMMA ReadMemberBacked ==
    ASSUME OwnInv, NEW p \in Requests, ReadMember(p)
    PROVE  ReadsBacked(p)
<1> DEFINE r == req[p]
<1>0. r \in Request /\ TypeInv
  BY DEF OwnInv, TypeInv, TypeOK
<1>1. CASE Finish(p)
  BY <1>0, <1>1, IdleGrounded
<1>m. ASSUME NEW o \in Orgs, NEW m \in Membership(o, r.user)
      PROVE  /\ m \in Members /\ row[m].org = o
             /\ IsOwner(row[m].role) => r.user \in owned[o]
  <2>1. m \in Members /\ row[m] \in MemberRow /\ row[m].org = o
        /\ row[m].user = r.user
    BY <1>0, MembershipTyped
  <2>2. row[m] # NoRow
    BY <2>1, OrgAssumption DEF MemberRow, NoRow
  <2> QED BY <2>1, <2>2 DEF OwnInv, Recorded
<1>2. ASSUME NEW o \in Orgs, NEW m \in Membership(o, r.user), r.op = "delete",
             Reads(p, [r EXCEPT !.at = "org_row", !.org = o])
      PROVE  ReadsBacked(p)
  <2> DEFINE r2 == [r EXCEPT !.at = "org_row", !.org = o]
  <2>1. r2.at = "org_row" /\ r2.org = o /\ r2.op = r.op
    BY <1>0 DEF Request
  <2>2. m \in Members /\ row[m].org = o
    BY <1>m
  <2>3. Grounded(p, r2)
    BY <2>1, <2>2 DEF Grounded, Backed, Founds, MakesOwner, Accepts
  <2> QED BY <1>2, <2>3 DEF ReadsBacked
<1>3. ASSUME NEW o \in Orgs, NEW m \in Membership(o, r.user), r.op = "leave",
             NEW l \in {"count", "drop"},
             Reads(p, [r EXCEPT !.org = o, !.target = m, !.at = l])
      PROVE  ReadsBacked(p)
  <2> DEFINE r2 == [r EXCEPT !.org = o, !.target = m, !.at = l]
  <2>1. r2.at = l /\ r2.org = o /\ r2.target = m /\ r2.op = r.op
    BY <1>0 DEF Request
  <2>2. m \in Members /\ row[m].org = o
    BY <1>m
  <2>3. Grounded(p, r2)
    BY <1>3, <2>1, <2>2 DEF Grounded, Backed, Founds, MakesOwner, Accepts
  <2> QED BY <1>3, <2>3 DEF ReadsBacked
<1>4. ASSUME NEW o \in Orgs, NEW m \in Membership(o, r.user),
             r.op \in {"remove", "update_role"},
             Reads(p, [r EXCEPT !.at = "target", !.org = o, !.self = m,
                                !.rank = row[m].role])
      PROVE  ReadsBacked(p)
  <2> DEFINE r2 == [r EXCEPT !.at = "target", !.org = o, !.self = m,
                             !.rank = row[m].role]
  <2>1. /\ r2.at = "target" /\ r2.org = o /\ r2.rank = row[m].role
        /\ r2.user = r.user /\ r2.op = r.op
    BY <1>0 DEF Request
  <2>2. m \in Members /\ row[m].org = o
        /\ (IsOwner(row[m].role) => r.user \in owned[o])
    BY <1>m
  <2>3. Grounded(p, r2)
    BY <2>1, <2>2 DEF Grounded, Backed, Founds, MakesOwner, Accepts
  <2> QED BY <1>4, <2>3 DEF ReadsBacked
<1>5. ASSUME NEW o \in Orgs, NEW m \in Membership(o, r.user), NEW g \in Grants,
             r.op = "invite", IsOwner(g) => IsOwner(row[m].role),
             Reads(p, [r EXCEPT !.at = "room", !.org = o, !.grant = g])
      PROVE  ReadsBacked(p)
  <2> DEFINE r2 == [r EXCEPT !.at = "room", !.org = o, !.grant = g]
  <2>1. /\ r2.at = "room" /\ r2.org = o /\ r2.grant = g
        /\ r2.user = r.user /\ r2.op = r.op
    BY <1>0 DEF Request
  <2>2. m \in Members /\ row[m].org = o
        /\ (IsOwner(row[m].role) => r.user \in owned[o])
    BY <1>m
  <2>3. Grounded(p, r2)
    BY <1>5, <2>1, <2>2 DEF Grounded, Backed, Founds, MakesOwner, Accepts
  <2> QED BY <1>5, <2>3 DEF ReadsBacked
<1> QED BY <1>1, <1>2, <1>3, <1>4, <1>5 DEF ReadMember

LEMMA TargetBacked ==
    ASSUME OwnInv, NEW p \in Requests, ReadRemoved(p) \/ ReadUpdated(p)
    PROVE  ReadsBacked(p)
<1> DEFINE r == req[p]
<1>0. r \in Request /\ TypeInv /\ Backed(r) /\ r.at = "target"
  BY DEF OwnInv, AllBacked, TypeInv, TypeOK, ReadRemoved, ReadUpdated
<1>1. CASE Finish(p)
  BY <1>0, <1>1, IdleGrounded
<1>2. ASSUME NEW m \in MembersOf(r.org), NEW l \in {"count", "drop"},
             r.op = "remove",
             Reads(p, [r EXCEPT !.target = m, !.self = NoMember, !.rank = {},
                                !.at = l])
      PROVE  ReadsBacked(p)
  <2> DEFINE r2 == [r EXCEPT !.target = m, !.self = NoMember, !.rank = {}, !.at = l]
  <2>1. r2.at = l /\ r2.org = r.org /\ r2.target = m /\ r2.op = r.op
    BY <1>0 DEF Request
  <2>2. row[m].org = r.org
    BY DEF MembersOf
  <2>3. Grounded(p, r2)
    BY <1>2, <2>1, <2>2 DEF Grounded, Backed, Founds, MakesOwner, Accepts
  <2> QED BY <1>2, <2>3 DEF ReadsBacked
<1>3. ASSUME NEW m \in MembersOf(r.org), NEW g \in Grants,
             NEW l \in {"count", "write_role"}, r.op = "update_role",
             MayChangeRole(r.rank, row[m].role, g),
             Reads(p, [r EXCEPT !.target = m, !.grant = g, !.self = NoMember,
                                !.rank = {}, !.at = l])
      PROVE  ReadsBacked(p)
  <2> DEFINE r2 == [r EXCEPT !.target = m, !.grant = g, !.self = NoMember,
                             !.rank = {}, !.at = l]
  <2>1. /\ r2.at = l /\ r2.org = r.org /\ r2.target = m /\ r2.grant = g
        /\ r2.user = r.user /\ r2.op = r.op
    BY <1>0 DEF Request
  <2>2. row[m].org = r.org
    BY DEF MembersOf
  <2>3. r.org \in orgs /\ IsOwner(g) => r.user \in owned[r.org]
    BY <1>0, <1>3 DEF Backed, MakesOwner, MayChangeRole
  <2>4. Grounded(p, r2)
    BY <1>3, <2>1, <2>2, <2>3 DEF Grounded, Backed, Founds, MakesOwner, Accepts
  <2> QED BY <1>3, <2>4 DEF ReadsBacked
<1>4. CASE ReadRemoved(p)
  BY <1>4, <1>1, <1>2 DEF ReadRemoved
<1>5. CASE ReadUpdated(p)
  BY <1>5, <1>1, <1>3 DEF ReadUpdated
<1> QED BY <1>4, <1>5

LEMMA CountBacked ==
    ASSUME OwnInv, NEW p \in Requests, CountOwners(p)
    PROVE  ReadsBacked(p)
<1> DEFINE r == req[p]
<1>0. r \in Request /\ TypeInv /\ Backed(r) /\ r.at = "count"
  BY DEF OwnInv, AllBacked, TypeInv, TypeOK, CountOwners
<1>1. CASE Finish(p)
  BY <1>0, <1>1, IdleGrounded
<1>2. ASSUME NEW l \in {"write_role", "drop"}, Reads(p, At(p, l)),
             l = "write_role" <=> r.op = "update_role"
      PROVE  ReadsBacked(p)
  <2>1. /\ At(p, l).at = l /\ At(p, l).org = r.org /\ At(p, l).op = r.op
        /\ At(p, l).target = r.target /\ At(p, l).grant = r.grant
        /\ At(p, l).user = r.user
    BY <1>0 DEF At, Request
  <2>2. Grounded(p, At(p, l))
    BY <1>0, <1>2, <2>1 DEF Grounded, Backed, Founds, MakesOwner, Accepts
  <2> QED BY <1>2, <2>2 DEF ReadsBacked
<1> QED BY <1>1, <1>2 DEF CountOwners, Goto

LEMMA AnswerBacked ==
    ASSUME OwnInv, NEW p \in Requests, ReadInvite(p) \/ ReadJoined(p)
    PROVE  ReadsBacked(p)
<1> DEFINE r == req[p]
<1>0. r \in Request /\ LocalsOK(r) /\ TypeInv /\ Backed(r)
  BY DEF OwnInv, AllBacked, TypeInv, TypeOK
<1>1. CASE Finish(p)
  BY <1>0, <1>1, IdleGrounded
<1>m. ASSUME NEW i, Reads(p, Marks(p, i)) PROVE ReadsBacked(p)
  BY <1>0, <1>m, MarksBacked DEF ReadsBacked
<1>2. ASSUME NEW i \in Invites, r.op = "accept", AddressedTo(i, r.user),
             IsPending(i),
             Reads(p, [r EXCEPT !.at = "room", !.invite = i,
                                !.org = invite[i].org, !.grant = invite[i].role])
      PROVE  ReadsBacked(p)
  <2> DEFINE r2 == [r EXCEPT !.at = "room", !.invite = i,
                             !.org = invite[i].org, !.grant = invite[i].role]
  <2>1. /\ r2.at = "room" /\ r2.invite = i /\ r2.org = invite[i].org
        /\ r2.grant = invite[i].role /\ r2.user = r.user /\ r2.op = r.op
    BY <1>0 DEF Request
  <2>2. invite[i] # Blank /\ invite[i].user = r.user
    BY <1>2 DEF IsPending, AddressedTo, Blank
  <2>3. Grounded(p, r2)
    BY <1>2, <2>1, <2>2 DEF Grounded, Backed, Founds, MakesOwner, Accepts, Read
  <2> QED BY <1>2, <2>3 DEF ReadsBacked
<1>3. ASSUME NEW i \in Invites,
             Reads(p, [r EXCEPT !.at = "permit", !.invite = i,
                                !.org = invite[i].org])
      PROVE  ReadsBacked(p)
  <2> DEFINE r2 == [r EXCEPT !.at = "permit", !.invite = i, !.org = invite[i].org]
  <2>1. r2.at = "permit" /\ r2.org = invite[i].org
    BY <1>0 DEF Request
  <2>2. Grounded(p, r2)
    BY <2>1 DEF Grounded, Backed, Founds, MakesOwner, Accepts
  <2> QED BY <1>3, <2>2 DEF ReadsBacked
<1>4. CASE ReadInvite(p)
  BY <1>4, <1>1, <1>m, <1>2, <1>3 DEF ReadInvite
<1>5. CASE ReadJoined(p)
  <2>1. r.at = "joined" /\ r.op = "accept"
    BY <1>5, <1>0 DEF ReadJoined, LocalsOK
  <2>2. CASE Reads(p, At(p, "insert_member"))
    <3> DEFINE r2 == At(p, "insert_member")
    <3>1. /\ r2.at = "insert_member" /\ r2.org = r.org /\ r2.op = r.op
          /\ r2.invite = r.invite /\ r2.grant = r.grant /\ r2.user = r.user
      BY <1>0 DEF At, Request
    <3> HIDE DEF r2
    <3>2. Grounded(p, r2)
      BY <1>0, <2>1, <3>1
         DEF Grounded, Backed, Founds, MakesOwner, Accepts, Read
    <3> QED BY <2>2, <3>2 DEF ReadsBacked, r2
  <2> QED BY <1>5, <1>m, <2>2 DEF ReadJoined, Goto
<1> QED BY <1>4, <1>5

\* A step of a request reads and goes on, or writes.
LEMMA BackedKinds ==
    ASSUME OwnInv, NEW p \in Requests, Step(p)
    PROVE  \/ ReadsBacked(p)
           \/ InsertOrg(p) \/ DeleteOrg(p) \/ DropMember(p) \/ WriteRole(p)
           \/ InsertMember(p) \/ InsertInvite(p) \/ Mark(p)
  BY BeginBacked, ReadMemberBacked, TargetBacked, CountBacked, AnswerBacked,
     GoingOnBacked DEF Step

\* A write leaves a request what it goes on: its organization's owners stay on
\* record, the member it names keeps its organization and the invitation it
\* holds its terms.
SameTerms(i) ==
    /\ invite'[i] # Blank
    /\ invite'[i].org = invite[i].org /\ invite'[i].user = invite[i].user
    /\ invite'[i].role = invite[i].role /\ invite'[i].by = invite[i].by

Steady(q) ==
    LET o == req[q].org
        m == req[q].target
        i == req[q].invite
    IN
    /\ o \in orgs' => o \in orgs /\ owned[o] \subseteq owned'[o]
    /\ m \in Members =>
          row'[m] = NoRow \/ (row[m] # NoRow /\ row'[m].org = row[m].org)
    /\ i \in Invites /\ invite[i] # Blank /\ invite[i].org \in orgs' => SameTerms(i)

\* A write does nothing to an organization that is not its own.
Apart(o) ==
    /\ owned[o] = {} => owned'[o] = {}
    /\ \A m \in Members : row[m].org # o => row'[m].org # o
    /\ \A i \in Invites : invite[i].org # o => invite'[i].org # o

\* What the other requests of an overtaken slot see of it.
Overtaken(q) == req'[q] = [req[q] EXCEPT !.raced = @ \/ Relies(q)]

LEMMA OvertakenBacked ==
    ASSUME OwnInv, NEW q \in Requests, Overtaken(q), Steady(q)
    PROVE  Backed(req[q])'
<1>0. req[q] \in Request /\ LocalsOK(req[q]) /\ Backed(req[q])
  BY DEF OwnInv, AllBacked, TypeInv, TypeOK
<1> DEFINE r == req[q]
           s == req'[q]
<1>1. /\ s.at = r.at /\ s.op = r.op /\ s.user = r.user /\ s.org = r.org
      /\ s.rank = r.rank /\ s.target = r.target /\ s.grant = r.grant
      /\ s.invite = r.invite
  BY <1>0 DEF Overtaken, Request
<1>2. /\ s.at = "insert_member" => s.op \in {"create", "accept"}
      /\ s.at = "write_role" => s.op = "update_role"
  BY <1>0, <1>1 DEF Backed
<1>3. s.at \in {"count", "drop", "write_role"} =>
        row'[s.target] = NoRow \/ row'[s.target].org = s.org
  <2>1. r.at \in {"count", "drop", "write_role"} => r.target \in Members
    BY <1>0 DEF LocalsOK
  <2> QED BY <1>0, <1>1, <2>1 DEF Backed, Steady
<1>4. s.org \in orgs' /\ MakesOwner(s) => s.user \in owned'[s.org]
  <2>1. MakesOwner(s) => MakesOwner(r)
    BY <1>1 DEF MakesOwner
  <2> QED BY <1>0, <1>1, <2>1 DEF Backed, Steady
<1>5. s.org \in orgs' /\ Accepts(s) =>
        /\ invite'[s.invite] # Blank
        /\ invite'[s.invite].org = s.org
        /\ invite'[s.invite].user = s.user
        /\ invite'[s.invite].role = s.grant
  <2> SUFFICES ASSUME s.org \in orgs', Accepts(s)
               PROVE  /\ invite'[r.invite] # Blank
                      /\ invite'[r.invite].org = r.org
                      /\ invite'[r.invite].user = r.user
                      /\ invite'[r.invite].role = r.grant
    BY <1>1
  <2>1. Accepts(r) /\ r.invite \in Invites
    BY <1>0, <1>1 DEF Accepts, LocalsOK
  <2>2. r.org \in orgs' /\ r.org \in orgs
    BY <1>1 DEF Steady
  <2>3. Read(r)
    BY <1>0, <2>1, <2>2 DEF Backed
  <2>4. SameTerms(r.invite)
    BY <2>1, <2>2, <2>3 DEF Steady, Read
  <2> QED BY <2>3, <2>4 DEF Read, SameTerms
<1> QED BY <1>2, <1>3, <1>4, <1>5
        DEF Backed, MakesOwner, Accepts, Read

\* A write by p: what is left to show is p's own part and what the write does
\* to the tables.
LEMMA BackedWrites ==
    ASSUME OwnInv, NEW p \in Requests, NEW r, Overtakes(p, r),
           Backed(req[p])', Founding(p)',
           \A q \in Requests \ {p} : Steady(q),
           \A q \in Requests \ {p} : Founds(req[q]) =>
               Apart(req[q].org) /\ r.org # req[q].org
    PROVE  AllBacked'
<1>1. req'[p] = r /\ \A q \in Requests \ {p} : Overtaken(q)
  BY DEF Overtakes, Overtaken
<1>2. ASSUME NEW q \in Requests PROVE Backed(req[q])'
  BY <1>1, OvertakenBacked
<1>3. ASSUME NEW q \in Requests \ {p} PROVE Founding(q)'
  <2>1. \A s \in Requests \ {p} : req'[s].org = req[s].org /\ req'[s].op = req[s].op
                                  /\ req'[s].at = req[s].at
    <3> TAKE s \in Requests \ {p}
    <3>1. Overtaken(s) /\ req[s] \in Request
      BY <1>1 DEF OwnInv, TypeInv, TypeOK
    <3> QED BY <3>1 DEF Overtaken, Request
  <2> SUFFICES ASSUME Founds(req[q]) PROVE Founding(q)'
    BY <2>1 DEF Founding, Founds
  <2> DEFINE o == req[q].org
  <2>2. /\ owned[o] = {}
        /\ \A m \in Members : row[m].org # o
        /\ \A i \in Invites : invite[i].org # o
        /\ \A s \in Requests \ {q} : req[s].org # o
    BY DEF OwnInv, AllBacked, Founding
  <2>3. Apart(o) /\ r.org # o
    OBVIOUS
  <2>4. /\ owned'[o] = {}
        /\ \A m \in Members : row'[m].org # o
        /\ \A i \in Invites : invite'[i].org # o
    BY <2>2, <2>3 DEF Apart
  <2>5. \A s \in Requests \ {q} : req'[s].org # o
    BY <1>1, <2>1, <2>2, <2>3
  <2> QED BY <2>1, <2>4, <2>5 DEF Founding
<1> QED BY <1>2, <1>3 DEF AllBacked

\* Whoever goes on to the end, or to the marking of an invitation, holds nothing.
LEMMA DoneBacked ==
    ASSUME OwnInv, NEW p \in Requests, NEW r, Overtakes(p, r),
           r.at \in {"idle", "mark"}, r.org = NoOrg,
           \A q \in Requests \ {p} : Steady(q),
           \A q \in Requests \ {p} : Founds(req[q]) => Apart(req[q].org)
    PROVE  AllBacked'
<1>1. req'[p] = r
  BY DEF Overtakes
<1>2. NoOrg \notin Orgs
  BY OrgAssumption
<1>3. Founding(p)'
  BY <1>1 DEF Founding, Founds
<1>4. Backed(req[p])'
  BY <1>1 DEF Backed, MakesOwner, Accepts
<1>5. \A q \in Requests : Founds(req[q]) => req[q].org \in Orgs
  BY DEF Founds, OwnInv, TypeInv, LocalsOK
<1>6. \A q \in Requests \ {p} : Founds(req[q]) => Apart(req[q].org) /\ r.org # req[q].org
  BY <1>2, <1>5
<1> QED BY <1>3, <1>4, <1>6, BackedWrites

LEMMA IdleOrMarks ==
    /\ Idle.at \in {"idle", "mark"} /\ Idle.org = NoOrg
    /\ \A p \in Requests : \A i :
          Marks(p, i).at \in {"idle", "mark"} /\ Marks(p, i).org = NoOrg
  BY DEF Idle, Marks

\* What Founding says of another request, for a write of p.
LEMMA OtherFounds ==
    ASSUME OwnInv, NEW p \in Requests, NEW q \in Requests \ {p}, Founds(req[q])
    PROVE  /\ req[q].org \in Orgs /\ owned[req[q].org] = {}
           /\ \A m \in Members : row[m].org # req[q].org
           /\ \A i \in Invites : invite[i].org # req[q].org
           /\ req[p].org # req[q].org
  BY DEF OwnInv, AllBacked, Founding, Founds, TypeInv, LocalsOK

LEMMA FinishBacked ==
    ASSUME OwnInv, NEW p \in Requests, Finish(p)
    PROVE  Recorded' /\ AllBacked'
<1>1. TypeInv
  BY DEF OwnInv
<1> QED BY <1>1, IdleGrounded, BackedReads DEF ReadsBacked

LEMMA InsertOrgBacked ==
    ASSUME OwnInv, NEW p \in Requests, InsertOrg(p)
    PROVE  Recorded' /\ AllBacked'
<1>0. req[p] \in Request /\ LocalsOK(req[p]) /\ req[p].at = "insert_org"
  BY DEF OwnInv, TypeInv, TypeOK, InsertOrg
<1>1. CASE Finish(p)
  BY <1>1, FinishBacked
<1>2. ASSUME NEW o \in Orgs, FreshOrg(o), orgs' = orgs \cup {o},
             UNCHANGED <<row, invite, owned>>,
             Overtakes(p, [req[p] EXCEPT !.at = "insert_member", !.org = o,
                                         !.grant = {CreatorRole}])
      PROVE  Recorded' /\ AllBacked'
  <2> DEFINE r == [req[p] EXCEPT !.at = "insert_member", !.org = o,
                                 !.grant = {CreatorRole}]
  <2>1. r.at = "insert_member" /\ r.org = o /\ r.op = "create"
    BY <1>0 DEF Request, LocalsOK
  <2>2. Recorded'
    BY <1>2 DEF OwnInv, Recorded
  <2>3. /\ owned[o] = {}
        /\ \A m \in Members : row[m].org # o
        /\ \A i \in Invites : invite[i].org # o
        /\ \A q \in Requests : req[q].org # o
    <3>1. o \notin orgs /\ \A q \in Requests : req[q].org # o
      BY <1>2 DEF FreshOrg
    <3>2. owned[o] = {}
      BY <3>1 DEF OwnInv, Recorded
    <3>3. NoRow.org # o /\ Blank.org # o
      BY OrgAssumption DEF NoRow, Blank
    <3> QED BY <3>1, <3>2, <3>3 DEF OwnInv, NothingOutlivesItsOrg
  <2> HIDE DEF r
  <2>4. Overtakes(p, r) /\ req'[p] = r
    BY <1>2 DEF Overtakes, r
  <2>5. Backed(req[p])'
    BY <2>1, <2>4 DEF Backed, MakesOwner, Accepts
  <2>6. \A q \in Requests \ {p} : req'[q].org # o
    <3> TAKE q \in Requests \ {p}
    <3>1. req'[q] = [req[q] EXCEPT !.raced = @ \/ Relies(q)] /\ req[q] \in Request
      BY <2>4 DEF Overtakes, OwnInv, TypeInv, TypeOK
    <3>2. req'[q].org = req[q].org
      BY <3>1 DEF Request
    <3> QED BY <3>2, <2>3
  <2>7. Founding(p)'
    BY <1>2, <2>1, <2>3, <2>4, <2>6 DEF Founding
  <2>8. ASSUME NEW q \in Requests \ {p} PROVE Steady(q)
    BY <1>2, <2>3 DEF Steady, SameTerms
  <2>9. ASSUME NEW q \in Requests \ {p}
        PROVE  Apart(req[q].org) /\ r.org # req[q].org
    BY <1>2, <2>1, <2>3 DEF Apart
  <2>10. AllBacked'
    BY <2>4, <2>5, <2>7, <2>8, <2>9, BackedWrites
  <2> QED BY <2>2, <2>10
<1> QED BY <1>1, <1>2 DEF InsertOrg

LEMMA DeleteOrgBacked ==
    ASSUME OwnInv, NEW p \in Requests, DeleteOrg(p)
    PROVE  Recorded' /\ AllBacked'
<1> DEFINE o == req[p].org
<1>1. /\ orgs' = orgs \ {o}
      /\ \A m \in Members : row'[m] = IF row[m].org = o THEN NoRow ELSE row[m]
      /\ \A i \in Invites : invite'[i] = IF invite[i].org = o THEN Blank ELSE invite[i]
      /\ \A x \in Orgs : owned'[x] = IF x = o THEN {} ELSE owned[x]
      /\ Overtakes(p, Idle)
  BY DEF DeleteOrg, DeleteOrgRow, OwnInv, TypeInv, TypeOK
<1>t. /\ orgs \subseteq Orgs
      /\ \A m \in Members : row[m] # NoRow => row[m].org \in orgs
      /\ \A i \in Invites : invite[i] # Blank => invite[i].org \in orgs
  BY DEF OwnInv, TypeInv, TypeOK, NothingOutlivesItsOrg
<1> HIDE DEF o
<1>2. Recorded'
  <2>1. ASSUME NEW m \in Members, row'[m] # NoRow, IsOwner(row'[m].role)
        PROVE  row'[m].user \in owned'[row'[m].org]
    <3>1. row'[m] = row[m] /\ row[m].org # o /\ row[m].org \in Orgs
      BY <1>1, <1>t, <2>1
    <3> QED BY <1>1, <2>1, <3>1 DEF OwnInv, Recorded
  <2>2. ASSUME NEW i \in Invites, invite'[i] # Blank, IsOwner(invite'[i].role)
        PROVE  invite'[i].by \in owned'[invite'[i].org]
    <3>1. invite'[i] = invite[i] /\ invite[i].org # o /\ invite[i].org \in Orgs
      BY <1>1, <1>t, <2>2
    <3> QED BY <1>1, <2>2, <3>1 DEF OwnInv, Recorded
  <2>3. \A x \in Orgs \ orgs' : owned'[x] = {}
    BY <1>1 DEF OwnInv, Recorded
  <2> QED BY <2>1, <2>2, <2>3 DEF Recorded
<1>3. ASSUME NEW q \in Requests PROVE Steady(q)
  BY <1>1, <1>t DEF Steady, SameTerms
<1>4. ASSUME NEW q \in Requests \ {p}, Founds(req[q]) PROVE Apart(req[q].org)
  <2>1. req[q].org \in Orgs
    BY <1>4, OtherFounds
  <2>2. NoRow.org # req[q].org /\ Blank.org # req[q].org
    BY <2>1, OrgAssumption DEF NoRow, Blank
  <2> QED BY <1>1, <2>1, <2>2 DEF Apart
<1> QED BY <1>1, <1>2, <1>3, <1>4, IdleOrMarks, DoneBacked

LEMMA DropMemberBacked ==
    ASSUME OwnInv, NEW p \in Requests, DropMember(p)
    PROVE  Recorded' /\ AllBacked'
<1>1. /\ \A m \in Members : row'[m] = NoRow \/ row'[m] = row[m]
      /\ UNCHANGED <<orgs, invite, owned>> /\ Overtakes(p, Idle)
  BY DEF DropMember, OwnInv, TypeInv, TypeOK
<1>2. Recorded'
  BY <1>1 DEF OwnInv, Recorded
<1>3. ASSUME NEW q \in Requests PROVE Steady(q)
  BY <1>1 DEF Steady, SameTerms
<1>4. ASSUME NEW q \in Requests \ {p}, Founds(req[q]) PROVE Apart(req[q].org)
  <2>1. NoRow.org # req[q].org
    BY <1>4, OtherFounds, OrgAssumption DEF NoRow
  <2> QED BY <1>1, <2>1 DEF Apart
<1> QED BY <1>1, <1>2, <1>3, <1>4, IdleOrMarks, DoneBacked

\* What a write of a role does, when it finds the row.
LEMMA WriteRoleEffect ==
    ASSUME TypeInv, NEW p \in Requests, WriteRole(p), ~ Finish(p)
    PROVE  LET m == req[p].target
               g == req[p].grant
           IN
           /\ m \in Members /\ row[m] \in MemberRow /\ row[m] # NoRow
           /\ row'[m] = [row[m] EXCEPT !.role = g]
           /\ row'[m].org = row[m].org /\ row'[m].user = row[m].user
           /\ row'[m].role = g
           /\ \A n \in Members : n # m => row'[n] = row[n]
           /\ \A o \in Orgs : owned'[o] =
                IF IsOwner(g) /\ o = row[m].org THEN owned[o] \cup {row[m].user}
                                                ELSE owned[o]
           /\ UNCHANGED <<orgs, invite>> /\ Overtakes(p, Idle)
<1> DEFINE m == req[p].target
           g == req[p].grant
<1>1. m \in Members
  BY DEF WriteRole, TypeInv, LocalsOK
<1>t. /\ row \in [Members -> MemberRow \cup {NoRow}]
      /\ owned \in [Orgs -> SUBSET Users]
  BY DEF TypeInv, TypeOK
<1>2. /\ row[m] # NoRow
      /\ row' = [row EXCEPT ![m].role = g]
      /\ owned' = IF IsOwner(g)
                  THEN [owned EXCEPT ![row[m].org] = @ \cup {row[m].user}]
                  ELSE owned
      /\ UNCHANGED <<orgs, invite>> /\ Overtakes(p, Idle)
  BY DEF WriteRole
<1> HIDE DEF m, g
<1>3. row[m] \in MemberRow
  BY <1>1, <1>2, <1>t
<1>4. row'[m] = [row[m] EXCEPT !.role = g]
  BY <1>1, <1>2, <1>t
<1>5. row'[m].org = row[m].org /\ row'[m].user = row[m].user /\ row'[m].role = g
  BY <1>3, <1>4 DEF MemberRow
<1>6. \A n \in Members : n # m => row'[n] = row[n]
  BY <1>2, <1>t
<1>7. \A o \in Orgs : owned'[o] =
         IF IsOwner(g) /\ o = row[m].org THEN owned[o] \cup {row[m].user}
                                         ELSE owned[o]
  BY <1>2, <1>t
<1> QED BY <1>1, <1>2, <1>3, <1>4, <1>5, <1>6, <1>7 DEF m, g

LEMMA WriteRoleBacked ==
    ASSUME OwnInv, NEW p \in Requests, WriteRole(p)
    PROVE  Recorded' /\ AllBacked'
<1>1. CASE Finish(p)
  BY <1>1, FinishBacked
<1>2. CASE ~ Finish(p)
  <2> DEFINE m == req[p].target
             g == req[p].grant
             c == row[m].org
  <2>1. /\ m \in Members /\ row[m] \in MemberRow /\ row[m] # NoRow
        /\ row'[m].org = row[m].org /\ row'[m].user = row[m].user
        /\ row'[m].role = g
        /\ \A n \in Members : n # m => row'[n] = row[n]
        /\ \A o \in Orgs : owned'[o] =
             IF IsOwner(g) /\ o = c THEN owned[o] \cup {row[m].user} ELSE owned[o]
        /\ UNCHANGED <<orgs, invite>> /\ Overtakes(p, Idle)
    BY <1>2, WriteRoleEffect DEF OwnInv
  <2>t. /\ row' \in [Members -> MemberRow \cup {NoRow}]
        /\ invite \in [Invites -> InviteRow \cup {Blank}]
        /\ orgs \subseteq Orgs
        /\ req[p] \in Request
    <3>1. TypeInv'
      BY WritingTyped DEF OwnInv
    <3> QED BY <3>1 DEF OwnInv, TypeInv, TypeOK
  <2>2. c \in orgs /\ \A o \in Orgs : owned[o] \subseteq owned'[o]
    BY <2>1 DEF OwnInv, NothingOutlivesItsOrg
  <2> HIDE DEF m, g, c
  <2>3. ASSUME NEW n \in Members, row'[n] # NoRow, IsOwner(row'[n].role)
        PROVE  row'[n].user \in owned'[row'[n].org]
    <3>1. CASE n = m
      <4>1. row'[n].org = c /\ c \in Orgs /\ row'[n].user = row[m].user
        BY <2>1, <2>2, <2>t, <3>1 DEF c
      <4>2. IsOwner(g)
        BY <2>1, <2>3, <3>1
      <4> QED BY <2>1, <4>1, <4>2
    <3>2. CASE n # m
      <4>1. row'[n] = row[n] /\ row[n].user \in owned[row[n].org]
        BY <2>1, <2>3, <3>2 DEF OwnInv, Recorded
      <4>2. row[n].org \in Orgs
        BY <2>3, <2>t, <4>1 DEF MemberRow
      <4> QED BY <2>2, <4>1, <4>2
    <3> QED BY <3>1, <3>2
  <2>4. ASSUME NEW i \in Invites, invite[i] # Blank, IsOwner(invite[i].role)
        PROVE  invite[i].by \in owned'[invite[i].org]
    <3>1. invite[i].by \in owned[invite[i].org] /\ invite[i].org \in Orgs
      BY <2>4, <2>t DEF OwnInv, Recorded, InviteRow
    <3> QED BY <2>2, <3>1
  <2>5. \A o \in Orgs \ orgs : owned'[o] = {}
    BY <2>1, <2>2 DEF OwnInv, Recorded
  <2>6. Recorded'
    BY <2>1, <2>3, <2>4, <2>5 DEF Recorded
  <2>7. ASSUME NEW q \in Requests PROVE Steady(q)
    <3>1. \A n \in Members : row'[n] = NoRow \/ (row[n] # NoRow /\ row'[n].org = row[n].org)
      BY <2>1
    <3> QED BY <2>1, <2>2, <2>t, <3>1 DEF Steady, SameTerms
  <2>8. ASSUME NEW q \in Requests \ {p}, Founds(req[q]) PROVE Apart(req[q].org)
    <3>1. c # req[q].org /\ req[q].org \in Orgs
      BY <2>1, <2>8, OtherFounds DEF c
    <3>2. owned'[req[q].org] = owned[req[q].org]
      BY <2>1, <3>1
    <3>3. \A n \in Members : row'[n].org = row[n].org
      BY <2>1
    <3> QED BY <2>1, <3>2, <3>3 DEF Apart
  <2>9. AllBacked'
    BY <2>1, <2>7, <2>8, IdleOrMarks, DoneBacked
  <2> QED BY <2>6, <2>9
<1> QED BY <1>1, <1>2

\* What the creation of a member does, when the constraints accept it.
LEMMA InsertMemberEffect ==
    ASSUME TypeInv, NEW p \in Requests, InsertMember(p), ~ Finish(p)
    PROVE  LET o == req[p].org
               u == req[p].user
               g == req[p].grant
           IN
           /\ o \in orgs /\ o \in Orgs /\ u \in Users
           /\ \E m \in Members :
                /\ FreshMember(m)
                /\ row'[m] = [org |-> o, user |-> u, role |-> g]
                /\ \A n \in Members : n # m => row'[n] = row[n]
           /\ \A x \in Orgs : owned'[x] =
                IF IsOwner(g) /\ x = o THEN owned[o] \cup {u} ELSE owned[x]
           /\ UNCHANGED <<orgs, invite>>
           /\ \E r : /\ Overtakes(p, r)
                     /\ r.at \in {"idle", "mark"} /\ r.org = NoOrg
<1> DEFINE o == req[p].org
           u == req[p].user
           g == req[p].grant
<1>t. /\ row \in [Members -> MemberRow \cup {NoRow}]
      /\ owned \in [Orgs -> SUBSET Users]
      /\ orgs \subseteq Orgs
  BY DEF TypeInv, TypeOK
<1>1. o \in orgs /\ u \in Users
  BY DEF InsertMember, Insertable, TypeInv, LocalsOK
<1>2. PICK m \in Members :
         /\ FreshMember(m)
         /\ row' = [row EXCEPT ![m] = [org |-> o, user |-> u, role |-> g]]
         /\ owned' = IF IsOwner(g) THEN [owned EXCEPT ![o] = @ \cup {u}] ELSE owned
         /\ UNCHANGED <<orgs, invite>>
         /\ Overtakes(p, IF req[p].op = "accept"
                         THEN Marks(p, req[p].invite) ELSE Idle)
  BY DEF InsertMember
<1>3. \E r : Overtakes(p, r) /\ r.at \in {"idle", "mark"} /\ r.org = NoOrg
  BY <1>2, IdleOrMarks
<1> HIDE DEF o, u, g
<1>4. /\ row'[m] = [org |-> o, user |-> u, role |-> g]
      /\ \A n \in Members : n # m => row'[n] = row[n]
  BY <1>2, <1>t
<1>5. \A x \in Orgs : owned'[x] =
         IF IsOwner(g) /\ x = o THEN owned[o] \cup {u} ELSE owned[x]
  BY <1>2, <1>t
<1> QED BY <1>1, <1>2, <1>3, <1>4, <1>5, <1>t DEF o, u, g

LEMMA InsertMemberBacked ==
    ASSUME OwnInv, NEW p \in Requests, InsertMember(p)
    PROVE  Recorded' /\ AllBacked'
<1>1. CASE Finish(p)
  BY <1>1, FinishBacked
<1>2. CASE ~ Finish(p)
  <2> DEFINE o == req[p].org
             u == req[p].user
             g == req[p].grant
  <2>1. /\ o \in orgs /\ o \in Orgs
        /\ \A x \in Orgs : owned'[x] =
             IF IsOwner(g) /\ x = o THEN owned[o] \cup {u} ELSE owned[x]
        /\ UNCHANGED <<orgs, invite>>
    BY <1>2, InsertMemberEffect DEF OwnInv
  <2>2. PICK m \in Members :
          /\ FreshMember(m)
          /\ row'[m] = [org |-> o, user |-> u, role |-> g]
          /\ \A n \in Members : n # m => row'[n] = row[n]
    BY <1>2, InsertMemberEffect DEF OwnInv
  <2>3. PICK r : Overtakes(p, r) /\ r.at \in {"idle", "mark"} /\ r.org = NoOrg
    BY <1>2, InsertMemberEffect DEF OwnInv
  <2>o. \A q \in Requests \ {p} : Founds(req[q]) =>
           req[q].org \in Orgs /\ o # req[q].org
    BY OtherFounds
  <2> HIDE DEF o, u, g
  <2>t. /\ row \in [Members -> MemberRow \cup {NoRow}]
        /\ invite \in [Invites -> InviteRow \cup {Blank}]
        /\ orgs \subseteq Orgs
    BY DEF OwnInv, TypeInv, TypeOK
  <2>4. \A x \in Orgs : owned[x] \subseteq owned'[x]
    BY <2>1
  <2>5. ASSUME NEW n \in Members, row'[n] # NoRow, IsOwner(row'[n].role)
        PROVE  row'[n].user \in owned'[row'[n].org]
    <3>1. CASE n = m
      <4>1. row'[n].org = o /\ row'[n].user = u /\ row'[n].role = g
        BY <2>2, <3>1
      <4> QED BY <2>1, <2>5, <4>1
    <3>2. CASE n # m
      <4>1. row'[n] = row[n] /\ row[n].user \in owned[row[n].org]
        BY <2>2, <2>5, <3>2 DEF OwnInv, Recorded
      <4>2. row[n].org \in Orgs
        BY <2>5, <2>t, <4>1 DEF MemberRow
      <4> QED BY <2>4, <4>1, <4>2
    <3> QED BY <3>1, <3>2
  <2>6. ASSUME NEW i \in Invites, invite[i] # Blank, IsOwner(invite[i].role)
        PROVE  invite[i].by \in owned'[invite[i].org]
    <3>1. invite[i].by \in owned[invite[i].org] /\ invite[i].org \in Orgs
      BY <2>6, <2>t DEF OwnInv, Recorded, InviteRow
    <3> QED BY <2>4, <3>1
  <2>7. \A x \in Orgs \ orgs : owned'[x] = {}
    BY <2>1 DEF OwnInv, Recorded
  <2>8. Recorded'
    BY <2>1, <2>5, <2>6, <2>7 DEF Recorded
  <2>9. ASSUME NEW q \in Requests PROVE Steady(q)
    <3>1. req[q].target # m
      BY <2>2 DEF FreshMember
    <3>2. req[q].target \in Members => row'[req[q].target] = row[req[q].target]
      BY <2>2, <3>1
    <3> QED BY <2>1, <2>4, <2>t, <3>2 DEF Steady, SameTerms
  <2>10. ASSUME NEW q \in Requests \ {p}, Founds(req[q]) PROVE Apart(req[q].org)
    <3>1. o # req[q].org /\ req[q].org \in Orgs
      BY <2>10, <2>o
    <3>2. owned'[req[q].org] = owned[req[q].org]
      BY <2>1, <3>1
    <3>3. \A n \in Members : row'[n].org = row[n].org \/ row'[n].org = o
      BY <2>2
    <3> QED BY <2>1, <3>1, <3>2, <3>3 DEF Apart
  <2>11. AllBacked'
    BY <2>3, <2>9, <2>10, DoneBacked
  <2> QED BY <2>8, <2>11
<1> QED BY <1>1, <1>2

LEMMA InsertInviteBacked ==
    ASSUME OwnInv, NEW p \in Requests, InsertInvite(p)
    PROVE  Recorded' /\ AllBacked'
<1> DEFINE o == req[p].org
<1>1. CASE Finish(p)
  BY <1>1, FinishBacked
<1>2. ASSUME NEW i \in Invites, o \in orgs, FreshInvite(i),
             invite' = [invite EXCEPT ![i] =
                 [org |-> o, user |-> req[p].who, role |-> req[p].grant,
                  by |-> req[p].user, status |-> "pending"]],
             UNCHANGED <<orgs, row, owned>>, Overtakes(p, Idle)
      PROVE  Recorded' /\ AllBacked'
  <2>1. invite \in [Invites -> InviteRow \cup {Blank}]
    BY DEF OwnInv, TypeInv, TypeOK
  <2>2. IsOwner(req[p].grant) => req[p].user \in owned[o]
    BY <1>2 DEF OwnInv, AllBacked, Backed, MakesOwner, InsertInvite
  <2>o. \A q \in Requests \ {p} : Founds(req[q]) => o # req[q].org
    BY OtherFounds
  <2> HIDE DEF o
  <2>3. /\ invite'[i].org = o /\ invite'[i].role = req[p].grant
        /\ invite'[i].by = req[p].user
        /\ \A j \in Invites : j # i => invite'[j] = invite[j]
    BY <1>2, <2>1
  <2>4. Recorded'
    BY <1>2, <2>2, <2>3 DEF OwnInv, Recorded
  <2>5. ASSUME NEW q \in Requests PROVE Steady(q)
    <3>1. req[q].invite # i
      BY <1>2 DEF FreshInvite
    <3> QED BY <1>2, <2>3, <3>1 DEF Steady, SameTerms
  <2>6. ASSUME NEW q \in Requests \ {p}, Founds(req[q]) PROVE Apart(req[q].org)
    BY <1>2, <2>3, <2>6, <2>o DEF Apart
  <2>7. AllBacked'
    BY <1>2, <2>5, <2>6, IdleOrMarks, DoneBacked
  <2> QED BY <2>4, <2>7
<1> QED BY <1>1, <1>2 DEF InsertInvite

\* A change of an invitation's status.
Restatus(i, s) ==
    /\ i \in Invites /\ invite[i] # Blank
    /\ invite' = [invite EXCEPT ![i].status = s]
    /\ UNCHANGED <<orgs, row, owned>>

LEMMA RestatusBacked ==
    ASSUME OwnInv, NEW i, NEW s, Restatus(i, s)
    PROVE  /\ Recorded' /\ \A q \in Requests : Steady(q)
           /\ \A o : Apart(o)
<1>1. invite \in [Invites -> InviteRow \cup {Blank}] /\ i \in Invites
      /\ invite[i] \in InviteRow
  BY DEF OwnInv, TypeInv, TypeOK, Restatus
<1>2. /\ \A j \in Invites : j # i => invite'[j] = invite[j]
      /\ invite'[i] = [invite[i] EXCEPT !.status = s]
  BY <1>1 DEF Restatus
<1>3. /\ invite'[i].org = invite[i].org /\ invite'[i].user = invite[i].user
      /\ invite'[i].role = invite[i].role /\ invite'[i].by = invite[i].by
      /\ invite[i].org \in Orgs
  BY <1>1, <1>2 DEF InviteRow
<1>4. invite'[i] # Blank
  BY <1>3, OrgAssumption DEF Blank
<1>5. \A j \in Invites : invite[j] # Blank => SameTerms(j)
  BY <1>2, <1>3, <1>4 DEF SameTerms
<1>6. UNCHANGED <<orgs, row, owned>>
  BY DEF Restatus
<1>7. Recorded'
  <2>1. ASSUME NEW j \in Invites, invite'[j] # Blank, IsOwner(invite'[j].role)
        PROVE  invite'[j].by \in owned[invite'[j].org]
    <3>1. invite[j] # Blank
      BY <1>2, <2>1 DEF Restatus
    <3> QED BY <1>5, <2>1, <3>1 DEF SameTerms, OwnInv, Recorded
  <2> QED BY <1>6, <2>1 DEF OwnInv, Recorded
<1>8. \A q \in Requests : Steady(q)
  BY <1>5, <1>6 DEF Steady
<1>9. \A o : Apart(o)
  BY <1>2, <1>3, <1>6 DEF Apart
<1> QED BY <1>7, <1>8, <1>9

LEMMA MarkBacked ==
    ASSUME OwnInv, NEW p \in Requests, Mark(p)
    PROVE  Recorded' /\ AllBacked'
<1>1. CASE Finish(p)
  BY <1>1, FinishBacked
<1>2. CASE invite[req[p].invite] # Blank
  <2>1. req[p].invite \in Invites
    BY DEF Mark, OwnInv, TypeInv, LocalsOK
  <2>2. Restatus(req[p].invite, Answer(req[p].op)) /\ Overtakes(p, Idle)
    BY <1>2, <2>1 DEF Mark, Restatus
  <2> QED BY <2>2, RestatusBacked, IdleOrMarks, DoneBacked
<1> QED BY <1>1, <1>2 DEF Mark

LEMMA LapseBacked ==
    ASSUME OwnInv, NEW i \in Invites, Lapse(i)
    PROVE  Recorded' /\ AllBacked'
<1>1. Restatus(i, "lapsed")
  BY DEF Lapse, Restatus, IsPending, Blank
<1>2. Recorded' /\ (\A q \in Requests : Steady(q)) /\ \A o : Apart(o)
  BY <1>1, RestatusBacked
<1>3. \A q \in Requests : Overtaken(q)
  BY DEF Lapse, Overtaken
<1>4. \A q \in Requests : Backed(req[q])'
  BY <1>2, <1>3, OvertakenBacked
<1>5. \A q \in Requests : req'[q].org = req[q].org /\ req'[q].op = req[q].op
                          /\ req'[q].at = req[q].at
  <2> TAKE q \in Requests
  <2>1. Overtaken(q) /\ req[q] \in Request
    BY <1>3 DEF OwnInv, TypeInv, TypeOK
  <2> QED BY <2>1 DEF Overtaken, Request
<1>6. ASSUME NEW q \in Requests PROVE Founding(q)'
  <2> SUFFICES ASSUME Founds(req[q]) PROVE Founding(q)'
    BY <1>5 DEF Founding, Founds
  <2>1. Founding(q) /\ Apart(req[q].org)
    BY <1>2 DEF OwnInv, AllBacked
  <2> QED BY <1>5, <2>1 DEF Founding, Apart
<1> QED BY <1>2, <1>4, <1>6 DEF AllBacked

LEMMA OwnInductive == OwnInv /\ [Next]_vars => OwnInv'
<1> SUFFICES ASSUME OwnInv, [Next]_vars PROVE OwnInv'
  OBVIOUS
<1>1. TypeInv' /\ NothingOutlivesItsOrg'
  BY TypeInductive, KeysInductive DEF OwnInv
<1>2. CASE UNCHANGED vars
  BY <1>2 DEF vars, tables, OwnInv, TypeInv, TypeOK, LocalsOK,
              NothingOutlivesItsOrg, Recorded, AllBacked, Backed, Founding,
              Founds, MakesOwner, Accepts, Read
<1>3. ASSUME NEW i \in Invites, Lapse(i) PROVE OwnInv'
  BY <1>1, <1>3, LapseBacked DEF OwnInv
<1>4. ASSUME NEW p \in Requests, Step(p) PROVE OwnInv'
  <2>1. ReadsBacked(p) => Recorded' /\ AllBacked'
    BY BackedReads DEF ReadsBacked
  <2> QED BY <1>1, <1>4, <2>1, BackedKinds, InsertOrgBacked, DeleteOrgBacked,
             DropMemberBacked, WriteRoleBacked, InsertMemberBacked,
             InsertInviteBacked, MarkBacked DEF OwnInv
<1> QED BY <1>2, <1>3, <1>4 DEF Next

LEMMA OwnInitially == Init => OwnInv
<1> SUFFICES ASSUME Init PROVE OwnInv
  OBVIOUS
<1>1. TypeInv
  BY TypeInitially
<1>2. NothingOutlivesItsOrg /\ Recorded
  BY DEF Init, NothingOutlivesItsOrg, Recorded
<1>3. Idle.at = "idle" /\ Idle.op = "none"
  BY DEF Idle
<1>4. AllBacked
  BY <1>3 DEF Init, AllBacked, Backed, Founding, Founds, MakesOwner, Accepts
<1> QED BY <1>1, <1>2, <1>4 DEF OwnInv

\* A row appears, or a role is raised, only when a request writes the role of a
\* member it found or creates a member.
LEMMA RowsChange ==
    ASSUME TypeInv, [Next]_vars, NEW m \in Members, row'[m] # row[m],
           row'[m] # NoRow
    PROVE  \E p \in Requests :
             \/ WriteRole(p) /\ ~ Finish(p) /\ m = req[p].target
             \/ InsertMember(p) /\ ~ Finish(p)
<1>t. row \in [Members -> MemberRow \cup {NoRow}]
  BY DEF TypeInv, TypeOK
<1>1. PICK p \in Requests : Step(p)
  BY DEF vars, tables, Next, Lapse
<1>2. ~ Finish(p)
  BY DEF Finish, Reads, tables
<1>3. ~ ReadsWell(p)
  BY DEF ReadsWell, Reads, tables
<1>4. ~ (InsertOrg(p) \/ InsertInvite(p) \/ Mark(p))
  BY <1>2 DEF InsertOrg, InsertInvite, Mark
<1>5. ~ DeleteOrg(p)
  BY DEF DeleteOrg, DeleteOrgRow
<1>6. ~ DropMember(p)
  BY <1>t DEF DropMember
<1>7. WriteRole(p) => m = req[p].target
  BY <1>2, WriteRoleEffect
<1> QED BY <1>1, <1>2, <1>3, <1>4, <1>5, <1>6, <1>7, StepKinds

LEMMA OwnersByOwners ==
    ASSUME OwnInv, [Next]_vars, NEW m \in Members,
           IsOwner(row'[m].role), ~ IsOwner(row[m].role)
    PROVE  LET o == row'[m].org
               u == row'[m].user
           IN  \E p \in Requests :
                 /\ Moves(p)
                 /\ \/ req[p].op = "create" /\ req[p].user = u
                    \/ req[p].op = "update_role" /\ req[p].user \in owned[o]
                    \/ /\ req[p].op = "accept"
                       /\ invite[req[p].invite].by \in owned[o]
<1>1. row'[m] # NoRow /\ row'[m] # row[m]
  BY DEF IsOwner, HasRole, NoRow
<1>2. PICK p \in Requests :
         \/ WriteRole(p) /\ ~ Finish(p) /\ m = req[p].target
         \/ InsertMember(p) /\ ~ Finish(p)
  BY <1>1, RowsChange DEF OwnInv
<1>b. Backed(req[p]) /\ TypeInv /\ LocalsOK(req[p])
  BY DEF OwnInv, AllBacked, TypeInv
<1>3. CASE WriteRole(p) /\ ~ Finish(p) /\ m = req[p].target
  <2>1. /\ row[m] # NoRow /\ row'[m].org = row[m].org
        /\ row'[m].role = req[p].grant /\ Overtakes(p, Idle)
    BY <1>b, <1>3, WriteRoleEffect
  <2>2. req[p].at = "write_role" /\ req[p].op = "update_role"
    BY <1>b, <1>3 DEF WriteRole, Backed
  <2>3. row[m].org = req[p].org /\ row[m].org \in orgs
    BY <1>b, <1>3, <2>1, <2>2 DEF Backed, OwnInv, NothingOutlivesItsOrg
  <2>4. req[p].user \in owned[req[p].org]
    BY <1>b, <2>1, <2>2, <2>3 DEF Backed, MakesOwner
  <2>5. Moves(p)
    BY <2>1, <2>2 DEF Moves, Overtakes, Idle
  <2> QED BY <2>1, <2>2, <2>3, <2>4, <2>5
<1>4. CASE InsertMember(p) /\ ~ Finish(p)
  <2>1. /\ req[p].org \in orgs
        /\ row'[m] = [org |-> req[p].org, user |-> req[p].user,
                      role |-> req[p].grant]
    BY <1>1, <1>b, <1>4, InsertMemberEffect
  <2>2. PICK r : Overtakes(p, r) /\ r.at \in {"idle", "mark"}
    BY <1>b, <1>4, InsertMemberEffect
  <2>3. req[p].at = "insert_member" /\ req[p].op \in {"create", "accept"}
    BY <1>b, <1>4 DEF InsertMember, Backed
  <2>4. Moves(p)
    BY <2>2, <2>3 DEF Moves, Overtakes
  <2>5. /\ row'[m].org = req[p].org /\ row'[m].user = req[p].user
        /\ row'[m].role = req[p].grant
    BY <2>1
  <2>6. CASE req[p].op = "accept"
    <3>1. req[p].invite \in Invites
      BY <1>b, <2>3, <2>6 DEF LocalsOK
    <3>2. Read(req[p])
      BY <1>b, <2>1, <2>3, <2>6 DEF Backed, Accepts
    <3>3. invite[req[p].invite].by \in owned[req[p].org]
      BY <2>5, <3>1, <3>2 DEF Read, OwnInv, Recorded
    <3> QED BY <2>4, <2>5, <2>6, <3>3
  <2> QED BY <2>3, <2>4, <2>5, <2>6
<1> QED BY <1>2, <1>3, <1>4

\* Nobody becomes an owner but the creator, by the act of somebody who was an
\* owner, or by an invitation of somebody who was: the requester's role, read
\* by update_member_role_core and invite_member_core statements before the
\* write, may be stale, but no chain of stale roles makes one owner more.
THEOREM OnlyOwnersMakeOwners == Spec => OwnersMakeOwners
<1>1. ASSUME OwnInv, [Next]_vars
      PROVE  [\A m \in Members : IsOwner(row'[m].role) /\ ~ IsOwner(row[m].role) =>
                LET o == row'[m].org
                    u == row'[m].user
                IN  \E p \in Requests :
                      /\ Moves(p)
                      /\ \/ req[p].op = "create" /\ req[p].user = u
                         \/ req[p].op = "update_role" /\ req[p].user \in owned[o]
                         \/ /\ req[p].op = "accept"
                            /\ invite[req[p].invite].by \in owned[o]]_vars
  BY <1>1, OwnersByOwners
<1>2. Spec => []OwnInv
  BY OwnInitially, OwnInductive, PTL DEF Spec
<1> QED BY <1>1, <1>2, PTL DEF Spec, OwnersMakeOwners

LEMMA JoinedByInvitation ==
    ASSUME OwnInv, [Next]_vars, NEW m \in Members, row[m] = NoRow,
           row'[m] # NoRow
    PROVE  \/ owned[row'[m].org] = {}
           \/ \E i \in Invites : /\ invite[i].org = row'[m].org
                                 /\ invite[i].user = row'[m].user
                                 /\ invite[i].role = row'[m].role
<1>t. TypeInv
  BY DEF OwnInv
<1>1. PICK p \in Requests :
         \/ WriteRole(p) /\ ~ Finish(p) /\ m = req[p].target
         \/ InsertMember(p) /\ ~ Finish(p)
  BY <1>t, RowsChange
<1>2. InsertMember(p) /\ ~ Finish(p)
  BY <1>1, <1>t, WriteRoleEffect
<1>3. /\ req[p].org \in orgs
      /\ row'[m] = [org |-> req[p].org, user |-> req[p].user,
                    role |-> req[p].grant]
  BY <1>2, <1>t, InsertMemberEffect
<1>4. /\ row'[m].org = req[p].org /\ row'[m].user = req[p].user
      /\ row'[m].role = req[p].grant
  BY <1>3
<1>5. /\ Backed(req[p]) /\ Founding(p) /\ LocalsOK(req[p])
      /\ req[p].at = "insert_member"
  BY <1>2 DEF OwnInv, AllBacked, TypeInv, InsertMember
<1>6. CASE req[p].op = "create"
  BY <1>4, <1>5, <1>6 DEF Founding, Founds
<1>7. CASE req[p].op = "accept"
  <2>1. req[p].invite \in Invites
    BY <1>5, <1>7 DEF LocalsOK
  <2>2. Read(req[p])
    BY <1>3, <1>5, <1>7 DEF Backed, Accepts
  <2> QED BY <1>4, <2>1, <2>2 DEF Read
<1> QED BY <1>5, <1>6, <1>7 DEF Backed

\* A user joins an organization that has had an owner only by an invitation
\* addressed to that user and with the role it names, however long ago
\* accept_invitation_core read it and whatever became of its status since.
THEOREM OnlyInvitedJoin == Spec => JoinsAsInvited
<1>1. ASSUME OwnInv, [Next]_vars
      PROVE  [\A m \in Members : row[m] = NoRow /\ row'[m] # NoRow =>
                \/ owned[row'[m].org] = {}
                \/ \E i \in Invites : /\ invite[i].org = row'[m].org
                                      /\ invite[i].user = row'[m].user
                                      /\ invite[i].role = row'[m].role]_vars
  BY <1>1, JoinedByInvitation
<1>2. Spec => []OwnInv
  BY OwnInitially, OwnInductive, PTL DEF Spec
<1> QED BY <1>1, <1>2, PTL DEF Spec, JoinsAsInvited

-----------------------------------------------------------------------------
(* The limits, and invitations of the same address.                        *)

\* The statements at which a request goes on what it has counted and found.
Decides(r) ==
    \/ r.at \in {"joined", "invitee", "existing", "insert_invite"}
    \/ r.op = "accept" /\ r.at = "insert_member"

\* What a request nobody has overtaken still knows there.
Informed(r) == ~ r.raced =>
    /\ r.at = "joined" \/ (r.op = "accept" /\ r.at = "insert_member")
          => Room(r.org)
    /\ r.at \in {"invitee", "existing", "insert_invite"}
          => Cardinality(PendingOf(r.org)) < InvitationLimit
    /\ r.at \in {"existing", "insert_invite"} => Membership(r.org, r.who) = {}
    /\ r.at = "insert_invite" => PendingFor(r.org, r.who) = {}

InformInv == \A p \in Requests : Informed(req[p])

LEMMA InformReads ==
    ASSUME TypeInv, InformInv, NEW p \in Requests, NEW r, Informed(r), Reads(p, r)
    PROVE  InformInv'
<1>1. UNCHANGED <<row, invite>> /\ \A q \in Requests : req'[q] = IF q = p THEN r ELSE req[q]
  BY DEF Reads, tables, TypeInv, TypeOK
<1>2. \A q \in Requests : Informed(req'[q])
  BY <1>1 DEF InformInv
<1> QED BY <1>1, <1>2 DEF InformInv, Informed, Room, Membership, MembersOf,
                          PendingFor, PendingOf, IsPending

LEMMA InformOvertaken ==
    ASSUME TypeInv, NEW q \in Requests, Overtaken(q)
    PROVE  Informed(req[q])'
<1>1. req[q] \in Request
  BY DEF TypeInv, TypeOK
<1>2. req'[q].raced = (req[q].raced \/ Relies(q)) /\ req'[q].at = req[q].at
  BY <1>1 DEF Overtaken, Request
<1>3. ~ req'[q].raced =>
        req'[q].at \notin {"joined", "invitee", "existing", "insert_invite",
                           "insert_member"}
  BY <1>2 DEF Relies
<1> QED BY <1>3 DEF Informed

LEMMA InformWrites ==
    ASSUME TypeInv, NEW p \in Requests, NEW r, ~ Decides(r), Overtakes(p, r)
    PROVE  InformInv'
<1>1. Informed(req[p])'
  BY DEF Overtakes, Informed, Decides
<1>2. ASSUME NEW q \in Requests, q # p PROVE Informed(req[q])'
  BY <1>2, InformOvertaken DEF Overtakes, Overtaken
<1> QED BY <1>1, <1>2 DEF InformInv

ReadsInformed(p) == \E r : Informed(r) /\ Reads(p, r)

LEMMA FinishInformed ==
    /\ Informed(Idle) /\ ~ Decides(Idle)
    /\ \A p \in Requests : \A i : Informed(Marks(p, i)) /\ ~ Decides(Marks(p, i))
    /\ \A p \in Requests : Finish(p) => ReadsInformed(p)
<1>1. Informed(Idle) /\ ~ Decides(Idle)
  BY DEF Idle, Informed, Decides
<1>2. \A p \in Requests : \A i : Informed(Marks(p, i)) /\ ~ Decides(Marks(p, i))
  BY DEF Marks, Idle, Informed, Decides
<1>3. \A p \in Requests : Finish(p) => ReadsInformed(p)
  BY <1>1 DEF Finish, ReadsInformed
<1> QED BY <1>1, <1>2, <1>3

LEMMA NearInformed ==
    ASSUME TypeInv, NEW p \in Requests,
           ReadMember(p) \/ ReadRemoved(p) \/ ReadUpdated(p) \/ CountOwners(p)
    PROVE  ReadsInformed(p)
<1> DEFINE r == req[p]
<1>0. r \in Request
  BY DEF TypeInv, TypeOK
<1>f. Finish(p) => ReadsInformed(p)
  BY FinishInformed
<1>1. ASSUME NEW o, Reads(p, [r EXCEPT !.at = "org_row", !.org = o])
      PROVE  ReadsInformed(p)
  <2>1. [r EXCEPT !.at = "org_row", !.org = o].at = "org_row"
    BY <1>0 DEF Request
  <2> QED BY <1>1, <2>1 DEF ReadsInformed, Informed
<1>2. ASSUME NEW o, NEW m, NEW l \in {"count", "drop"},
             Reads(p, [r EXCEPT !.org = o, !.target = m, !.at = l])
      PROVE  ReadsInformed(p)
  <2>1. [r EXCEPT !.org = o, !.target = m, !.at = l].at = l
    BY <1>0 DEF Request
  <2> QED BY <1>2, <2>1 DEF ReadsInformed, Informed
<1>3. ASSUME NEW o, NEW m, NEW k,
             Reads(p, [r EXCEPT !.at = "target", !.org = o, !.self = m, !.rank = k])
      PROVE  ReadsInformed(p)
  <2>1. [r EXCEPT !.at = "target", !.org = o, !.self = m, !.rank = k].at = "target"
    BY <1>0 DEF Request
  <2> QED BY <1>3, <2>1 DEF ReadsInformed, Informed
<1>4. ASSUME NEW o, NEW g, Reads(p, [r EXCEPT !.at = "room", !.org = o, !.grant = g])
      PROVE  ReadsInformed(p)
  <2>1. [r EXCEPT !.at = "room", !.org = o, !.grant = g].at = "room"
    BY <1>0 DEF Request
  <2> QED BY <1>4, <2>1 DEF ReadsInformed, Informed
<1>5. ASSUME NEW m, NEW l \in {"count", "drop"},
             Reads(p, [r EXCEPT !.target = m, !.self = NoMember, !.rank = {},
                                !.at = l])
      PROVE  ReadsInformed(p)
  <2>1. [r EXCEPT !.target = m, !.self = NoMember, !.rank = {}, !.at = l].at = l
    BY <1>0 DEF Request
  <2> QED BY <1>5, <2>1 DEF ReadsInformed, Informed
<1>6. ASSUME NEW m, NEW g, NEW l \in {"count", "write_role"},
             Reads(p, [r EXCEPT !.target = m, !.grant = g, !.self = NoMember,
                                !.rank = {}, !.at = l])
      PROVE  ReadsInformed(p)
  <2>1. [r EXCEPT !.target = m, !.grant = g, !.self = NoMember, !.rank = {},
                  !.at = l].at = l
    BY <1>0 DEF Request
  <2> QED BY <1>6, <2>1 DEF ReadsInformed, Informed
<1>7. ASSUME NEW l \in {"write_role", "drop"}, Goto(p, l)
      PROVE  ReadsInformed(p)
  <2>1. At(p, l).at = l
    BY <1>0 DEF At, Request
  <2> QED BY <1>7, <2>1 DEF Goto, ReadsInformed, Informed
<1>8. CASE ReadMember(p)
  BY <1>8, <1>f, <1>1, <1>2, <1>3, <1>4 DEF ReadMember
<1>9. CASE ReadRemoved(p)
  BY <1>9, <1>f, <1>5 DEF ReadRemoved
<1>10. CASE ReadUpdated(p)
  BY <1>10, <1>f, <1>6 DEF ReadUpdated
<1>11. CASE CountOwners(p)
  BY <1>11, <1>f, <1>7 DEF CountOwners
<1> QED BY <1>8, <1>9, <1>10, <1>11

LEMMA CountingInformed ==
    ASSUME TypeInv, InformInv, NEW p \in Requests,
           \/ CheckRoom(p) \/ CheckPending(p) \/ ReadInvitee(p)
           \/ ReadExisting(p) \/ ReadJoined(p)
    PROVE  ReadsInformed(p)
<1> DEFINE r == req[p]
<1>0. r \in Request /\ Informed(r) /\ LocalsOK(r)
  BY DEF TypeInv, TypeOK, InformInv
<1>f. Finish(p) => ReadsInformed(p)
  BY FinishInformed
<1>h. ASSUME NEW l
      PROVE  /\ At(p, l).at = l /\ At(p, l).org = r.org /\ At(p, l).op = r.op
             /\ At(p, l).who = r.who /\ At(p, l).raced = r.raced
  BY <1>0 DEF At, Request
<1>1. CASE CheckRoom(p)
  <2>1. Room(r.org) => Informed(At(p, "pending")) /\ Informed(At(p, "joined"))
    BY <1>h DEF Informed
  <2> QED BY <1>1, <1>f, <2>1 DEF CheckRoom, Goto, ReadsInformed
<1>2. CASE CheckPending(p)
  <2>1. Cardinality(PendingOf(r.org)) < InvitationLimit => Informed(At(p, "invitee"))
    BY <1>h DEF Informed
  <2> QED BY <1>2, <1>f, <2>1 DEF CheckPending, Goto, ReadsInformed
<1>3. CASE ReadInvitee(p)
  <2>1. ASSUME NEW u \in Users, Membership(r.org, u) = {},
               Reads(p, [r EXCEPT !.at = "existing", !.who = u])
        PROVE  ReadsInformed(p)
    <3> DEFINE s == [r EXCEPT !.at = "existing", !.who = u]
    <3>1. /\ s.at = "existing" /\ s.who = u /\ s.org = r.org
          /\ s.raced = r.raced
      BY <1>0 DEF Request
    <3>2. r.at = "invitee"
      BY <1>3 DEF ReadInvitee
    <3>3. Informed(s)
      BY <1>0, <2>1, <3>1, <3>2 DEF Informed
    <3> QED BY <2>1, <3>3 DEF ReadsInformed
  <2> QED BY <1>3, <1>f, <2>1 DEF ReadInvitee
<1>4. CASE ReadExisting(p)
  <2>1. PendingFor(r.org, r.who) = {} => Informed(At(p, "insert_invite"))
    BY <1>0, <1>4, <1>h DEF ReadExisting, Informed
  <2> QED BY <1>4, <1>f, <2>1
          DEF ReadExisting, AlreadyInvited, Goto, ReadsInformed
<1>5. CASE ReadJoined(p)
  <2>1. Informed(At(p, "insert_member"))
    BY <1>0, <1>5, <1>h DEF ReadJoined, Informed
  <2>2. \A i : Reads(p, Marks(p, i)) => ReadsInformed(p)
    BY FinishInformed DEF ReadsInformed
  <2> QED BY <1>5, <2>1, <2>2 DEF ReadJoined, Goto, ReadsInformed
<1> QED BY <1>1, <1>2, <1>3, <1>4, <1>5

LEMMA OtherInformed ==
    ASSUME TypeInv, NEW p \in Requests,
           \/ \E op \in AllOps, u \in Users : Begin(p, op, u)
           \/ CheckLimit(p) \/ ReadOrg(p) \/ ReadInvite(p) \/ Permit(p) \/ Fail(p)
    PROVE  ReadsInformed(p)
<1> DEFINE r == req[p]
<1>0. r \in Request /\ Idle \in Request
  BY IdleTyped DEF TypeInv, TypeOK
<1>f. Finish(p) => ReadsInformed(p)
  BY FinishInformed
<1>m. \A i : Reads(p, Marks(p, i)) => ReadsInformed(p)
  BY FinishInformed DEF ReadsInformed
<1>1. ASSUME NEW op \in AllOps, NEW u \in Users, Begin(p, op, u)
      PROVE  ReadsInformed(p)
  <2>1. PICK l \in {"limit", "invite_row", "member"} :
          Reads(p, [Idle EXCEPT !.op = op, !.user = u, !.at = l])
    BY <1>1 DEF Begin
  <2>2. [Idle EXCEPT !.op = op, !.user = u, !.at = l].at = l
    BY <1>0 DEF Request
  <2> QED BY <2>1, <2>2 DEF ReadsInformed, Informed
<1>2. CASE CheckLimit(p) \/ ReadOrg(p)
  <2>1. ASSUME NEW l \in {"insert_org", "delete_org"}, Goto(p, l)
        PROVE  ReadsInformed(p)
    <3>1. At(p, l).at = l
      BY <1>0 DEF At, Request
    <3> QED BY <2>1, <3>1 DEF Goto, ReadsInformed, Informed
  <2> QED BY <1>2, <1>f, <2>1 DEF CheckLimit, ReadOrg
<1>3. CASE ReadInvite(p)
  <2>1. ASSUME NEW i, NEW o, NEW g,
               Reads(p, [r EXCEPT !.at = "room", !.invite = i, !.org = o,
                                  !.grant = g])
        PROVE  ReadsInformed(p)
    <3>1. [r EXCEPT !.at = "room", !.invite = i, !.org = o, !.grant = g].at = "room"
      BY <1>0 DEF Request
    <3> QED BY <2>1, <3>1 DEF ReadsInformed, Informed
  <2>2. ASSUME NEW i, NEW o,
               Reads(p, [r EXCEPT !.at = "permit", !.invite = i, !.org = o])
        PROVE  ReadsInformed(p)
    <3>1. [r EXCEPT !.at = "permit", !.invite = i, !.org = o].at = "permit"
      BY <1>0 DEF Request
    <3> QED BY <2>2, <3>1 DEF ReadsInformed, Informed
  <2> QED BY <1>3, <1>f, <1>m, <2>1, <2>2 DEF ReadInvite
<1>4. CASE Permit(p) \/ Fail(p)
  BY <1>4, <1>f, <1>m DEF Permit, Fail
<1> QED BY <1>1, <1>2, <1>3, <1>4

LEMMA InformWriting ==
    ASSUME TypeInv, InformInv, NEW p \in Requests,
           \/ InsertOrg(p) \/ DeleteOrg(p) \/ DropMember(p) \/ WriteRole(p)
           \/ InsertMember(p) \/ InsertInvite(p) \/ Mark(p)
    PROVE  InformInv'
<1>0. req[p] \in Request /\ LocalsOK(req[p])
  BY DEF TypeInv, TypeOK
<1>f. Finish(p) => InformInv'
  BY FinishInformed, InformReads DEF ReadsInformed
<1>1. CASE InsertOrg(p)
  <2>1. ASSUME NEW o \in Orgs,
               Overtakes(p, [req[p] EXCEPT !.at = "insert_member", !.org = o,
                                           !.grant = {CreatorRole}])
        PROVE  InformInv'
    <3> DEFINE r == [req[p] EXCEPT !.at = "insert_member", !.org = o,
                                   !.grant = {CreatorRole}]
    <3>1. r.at = "insert_member" /\ r.op = "create"
      BY <1>0, <1>1 DEF Request, InsertOrg, LocalsOK
    <3>2. ~ Decides(r)
      BY <3>1 DEF Decides
    <3> QED BY <2>1, <3>2, InformWrites
  <2> QED BY <1>1, <1>f, <2>1 DEF InsertOrg
<1>2. CASE InsertMember(p)
  BY <1>2, <1>f, FinishInformed, InformWrites DEF InsertMember
<1>3. CASE DeleteOrg(p) \/ DropMember(p) \/ WriteRole(p) \/ InsertInvite(p) \/ Mark(p)
  BY <1>3, <1>f, FinishInformed, InformWrites
     DEF DeleteOrg, DropMember, WriteRole, InsertInvite, Mark
<1> QED BY <1>1, <1>2, <1>3

LEMMA InformInductive == TypeInv /\ InformInv /\ [Next]_vars => InformInv'
<1> SUFFICES ASSUME TypeInv, InformInv, [Next]_vars PROVE InformInv'
  OBVIOUS
<1>1. CASE UNCHANGED vars
  BY <1>1 DEF vars, tables, InformInv, Informed, Room, Membership, MembersOf,
              PendingFor, PendingOf, IsPending
<1>2. ASSUME NEW i \in Invites, Lapse(i) PROVE InformInv'
  BY <1>2, InformOvertaken DEF Lapse, Overtaken, InformInv
<1>3. ASSUME NEW p \in Requests, Step(p) PROVE InformInv'
  <2>1. ReadsInformed(p) => InformInv'
    BY InformReads DEF ReadsInformed
  <2> QED BY <1>3, <2>1, OtherInformed, NearInformed, CountingInformed,
             InformWriting DEF Step
<1> QED BY <1>1, <1>2, <1>3 DEF Next

\* An invitation appears only when a request creates it.
LEMMA InviteAppears ==
    ASSUME TypeInv, [Next]_vars, NEW i \in Invites, invite[i] = Blank,
           invite'[i] # Blank
    PROVE  \E p \in Requests :
             /\ req[p].at = "insert_invite"
             /\ invite'[i].org = req[p].org /\ invite'[i].user = req[p].who
             /\ Overtakes(p, Idle)
<1>t. invite \in [Invites -> InviteRow \cup {Blank}]
  BY DEF TypeInv, TypeOK
<1>1. ASSUME NEW j \in Invites, Lapse(j) PROVE FALSE
  <2>1. j # i
    BY <1>1 DEF Lapse, IsPending, Blank
  <2> QED BY <1>1, <1>t, <2>1 DEF Lapse
<1>2. PICK p \in Requests : Step(p)
  BY <1>1 DEF vars, tables, Next
<1>3. ~ Finish(p)
  BY DEF Finish, Reads, tables
<1>4. ~ ReadsWell(p)
  BY DEF ReadsWell, Reads, tables
<1>5. ~ (InsertOrg(p) \/ DropMember(p) \/ WriteRole(p) \/ InsertMember(p))
  BY <1>3 DEF InsertOrg, DropMember, WriteRole, InsertMember
<1>6. ~ DeleteOrg(p)
  BY DEF DeleteOrg, DeleteOrgRow
<1>7. ASSUME Mark(p) PROVE FALSE
  <2>1. req[p].invite # i
    BY <1>3, <1>7 DEF Mark
  <2> QED BY <1>3, <1>7, <1>t, <2>1 DEF Mark
<1>8. InsertInvite(p)
  BY <1>2, <1>4, <1>5, <1>6, <1>7, StepKinds
<1>9. PICK j \in Invites :
         /\ invite' = [invite EXCEPT ![j] =
               [org |-> req[p].org, user |-> req[p].who, role |-> req[p].grant,
                by |-> req[p].user, status |-> "pending"]]
         /\ Overtakes(p, Idle)
  BY <1>3, <1>8 DEF InsertInvite
<1>10. i = j
  BY <1>9, <1>t
<1>11. invite'[i].org = req[p].org /\ invite'[i].user = req[p].who
  BY <1>9, <1>10, <1>t
<1> QED BY <1>8, <1>9, <1>11 DEF InsertInvite

LEMMA InvitedOnce ==
    ASSUME TypeInv, InformInv, [Next]_vars, NEW i \in Invites,
           invite[i] = Blank, invite'[i] # Blank
    PROVE  LET o == invite'[i].org
               u == invite'[i].user
           IN  \/ /\ PendingFor(o, u) = {} /\ Membership(o, u) = {}
                  /\ Cardinality(PendingOf(o)) < InvitationLimit
               \/ \E p \in Requests : Moves(p) /\ req[p].raced
<1>1. PICK p \in Requests :
         /\ req[p].at = "insert_invite"
         /\ invite'[i].org = req[p].org /\ invite'[i].user = req[p].who
         /\ Overtakes(p, Idle)
  BY InviteAppears
<1>2. Moves(p)
  BY <1>1 DEF Moves, Overtakes, Idle
<1>3. req[p].raced \in BOOLEAN
  BY DEF TypeInv, TypeOK, Request
<1>4. CASE ~ req[p].raced
  BY <1>1, <1>4 DEF InformInv, Informed
<1> QED BY <1>2, <1>3, <1>4

\* Without an overlap no address is invited twice, or while it is a member's,
\* and invitation_limit holds: the three reads of invite_member_core still
\* hold when it writes.
THEOREM InvitesKeptAlways == Spec => InvitesKept
<1>1. ASSUME TypeInv, InformInv, [Next]_vars
      PROVE  [\A i \in Invites : invite[i] = Blank /\ invite'[i] # Blank =>
                LET o == invite'[i].org
                    u == invite'[i].user
                IN  \/ /\ PendingFor(o, u) = {} /\ Membership(o, u) = {}
                       /\ Cardinality(PendingOf(o)) < InvitationLimit
                    \/ \E p \in Requests : Moves(p) /\ req[p].raced]_vars
  BY <1>1, InvitedOnce
<1>2. Init => InformInv
  BY FinishInformed DEF Init, InformInv
<1>3. Spec => [](TypeInv /\ InformInv)
  BY <1>2, TypeInitially, TypeInductive, InformInductive, PTL DEF Spec
<1> QED BY <1>1, <1>3, PTL DEF Spec, InvitesKept

\* However many ids there are, an organization has finitely many members.
FiniteRows == \A o \in Orgs : IsFiniteSet(MembersOf(o))

LEMMA FiniteInductive == TypeInv /\ FiniteRows /\ [Next]_vars => FiniteRows'
<1> SUFFICES ASSUME TypeInv, FiniteRows, [Next]_vars, NEW o \in Orgs
             PROVE  IsFiniteSet(MembersOf(o)')
  BY DEF FiniteRows
<1>t. row \in [Members -> MemberRow \cup {NoRow}]
  BY DEF TypeInv, TypeOK
<1>1. PICK m \in Members \cup {NoMember} : MembersOf(o)' \subseteq MembersOf(o) \cup {m}
  <2>1. CASE RowsKept
    <3>1. \A n \in Members : row'[n].org = o => row'[n] # NoRow
      BY OrgAssumption DEF NoRow
    <3> QED BY <2>1, <3>1 DEF RowsKept, MembersOf
  <2>2. ASSUME NEW x \in Orgs, NEW u \in Users, RowAdded(x, u)
        PROVE  \E m \in Members : MembersOf(o)' \subseteq MembersOf(o) \cup {m}
    <3>1. PICK m \in Members : \E r : row' = [row EXCEPT ![m] = r]
      BY <2>2 DEF RowAdded
    <3>2. \A n \in Members : n # m => row'[n] = row[n]
      BY <3>1, <1>t
    <3> QED BY <3>2 DEF MembersOf
  <2> QED BY <2>1, <2>2, RowSteps
<1>2. IsFiniteSet(MembersOf(o) \cup {m})
  BY FS_AddElement DEF FiniteRows
<1> QED BY <1>1, <1>2, FS_Subset

\* A step that leaves an organization with more members than before creates one.
LEMMA MembersGrow ==
    ASSUME TypeInv, FiniteRows, [Next]_vars, NEW o \in Orgs,
           Cardinality(MembersOf(o)') > Cardinality(MembersOf(o))
    PROVE  \E p \in Requests :
             /\ InsertMember(p) /\ ~ Finish(p) /\ req[p].org = o
             /\ Cardinality(MembersOf(o)') = Cardinality(MembersOf(o)) + 1
<1>f. IsFiniteSet(MembersOf(o)) /\ Cardinality(MembersOf(o)) \in Nat
  BY FS_CardinalityType DEF FiniteRows
<1>1. ~ (MembersOf(o)' \subseteq MembersOf(o))
  <2> SUFFICES ASSUME MembersOf(o)' \subseteq MembersOf(o) PROVE FALSE
    OBVIOUS
  <2>1. Cardinality(MembersOf(o)') <= Cardinality(MembersOf(o))
        /\ Cardinality(MembersOf(o)') \in Nat
    BY <1>f, FS_Subset, FS_CardinalityType
  <2> QED BY <1>f, <2>1
<1>2. PICK m \in Members : row'[m].org = o /\ row[m].org # o
  BY <1>1 DEF MembersOf
<1>3. row'[m] # row[m] /\ row'[m] # NoRow
  BY <1>2, OrgAssumption DEF NoRow
<1>4. PICK p \in Requests :
         \/ WriteRole(p) /\ ~ Finish(p) /\ m = req[p].target
         \/ InsertMember(p) /\ ~ Finish(p)
  BY <1>3, RowsChange
<1>5. InsertMember(p) /\ ~ Finish(p)
  BY <1>2, <1>4, WriteRoleEffect
<1>6. PICK n \in Members :
         /\ row'[n] = [org |-> req[p].org, user |-> req[p].user,
                       role |-> req[p].grant]
         /\ \A k \in Members : k # n => row'[k] = row[k]
  BY <1>5, InsertMemberEffect
<1>7. n = m /\ req[p].org = o
  BY <1>2, <1>3, <1>6
<1>8. MembersOf(o)' = MembersOf(o) \cup {m} /\ m \notin MembersOf(o)
  BY <1>2, <1>6, <1>7 DEF MembersOf
<1>9. Cardinality(MembersOf(o) \cup {m}) = Cardinality(MembersOf(o)) + 1
  BY <1>f, <1>8, FS_AddElement
<1> QED BY <1>5, <1>7, <1>8, <1>9

LEMMA LimitOvertaken ==
    ASSUME OwnInv, InformInv, FiniteRows, MembershipLimit > 0, [Next]_vars,
           NEW o \in Orgs,
           Cardinality(MembersOf(o)') > Cardinality(MembersOf(o)),
           Cardinality(MembersOf(o)') > MembershipLimit
    PROVE  \E p \in Requests : Moves(p) /\ req[p].raced
<1>t. TypeInv /\ MembershipLimit \in Nat
  BY OrgAssumption DEF OwnInv
<1>1. PICK p \in Requests :
         /\ InsertMember(p) /\ ~ Finish(p) /\ req[p].org = o
         /\ Cardinality(MembersOf(o)') = Cardinality(MembersOf(o)) + 1
  BY <1>t, MembersGrow
<1>2. PICK r : Overtakes(p, r) /\ r.at \in {"idle", "mark"}
  BY <1>1, <1>t, InsertMemberEffect
<1>3. /\ req[p].at = "insert_member" /\ req[p].op \in {"create", "accept"}
      /\ req[p].raced \in BOOLEAN /\ Informed(req[p]) /\ Founding(p)
  BY <1>1 DEF OwnInv, TypeInv, TypeOK, Request, AllBacked, Backed,
              InsertMember, InformInv
<1>4. Moves(p)
  BY <1>2, <1>3 DEF Moves, Overtakes
<1>5. Cardinality(MembersOf(o)) \in Nat
  BY FS_CardinalityType DEF FiniteRows
<1>6. CASE req[p].op = "accept" /\ ~ req[p].raced
  <2>1. Cardinality(MembersOf(o)) < MembershipLimit
    BY <1>1, <1>3, <1>6 DEF Informed, Room
  <2> QED BY <1>t, <1>1, <1>5, <2>1
<1>7. CASE req[p].op = "create"
  <2>1. MembersOf(o) = {}
    BY <1>1, <1>3, <1>7 DEF Founding, Founds, MembersOf
  <2>2. Cardinality(MembersOf(o)) = 0
    BY <2>1, FS_EmptySet
  <2> QED BY <1>t, <1>1, <2>2
<1> QED BY <1>3, <1>4, <1>6, <1>7

\* Joining exceeds membership_limit only when accept_invitation_core's count was
\* overtaken.  A limit of 0 is left out: create_organization_core does not ask
\* for room, and its creator is one member.
THEOREM LimitKeptAlways == MembershipLimit > 0 /\ Spec => LimitKept
<1> SUFFICES ASSUME MembershipLimit > 0 PROVE Spec => LimitKept
  OBVIOUS
<1>1. ASSUME OwnInv, InformInv, FiniteRows, [Next]_vars
      PROVE  [\A o \in Orgs : Cardinality(MembersOf(o)') > Cardinality(MembersOf(o))
                              /\ Cardinality(MembersOf(o)') > MembershipLimit =>
                \E p \in Requests : Moves(p) /\ req[p].raced]_vars
  BY <1>1, LimitOvertaken
<1>2. Init => InformInv
  BY FinishInformed DEF Init, InformInv
<1>3. Init => FiniteRows
  <2> SUFFICES ASSUME Init, NEW o \in Orgs PROVE IsFiniteSet(MembersOf(o))
    BY DEF FiniteRows
  <2>1. MembersOf(o) = {}
    BY OrgAssumption DEF Init, MembersOf, NoRow
  <2> QED BY <2>1, FS_EmptySet
<1>4. OwnInv => TypeInv
  BY DEF OwnInv
<1>5. Spec => [](OwnInv /\ InformInv /\ FiniteRows)
  BY <1>2, <1>3, <1>4, OwnInitially, OwnInductive, InformInductive,
     FiniteInductive, PTL DEF Spec
<1> QED BY <1>1, <1>5, PTL DEF Spec, LimitKept
=============================================================================
