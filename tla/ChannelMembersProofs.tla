------------------------ MODULE ChannelMembersProofs ------------------------
(***************************************************************************)
(* What ChannelMembers.tla keeps for any number of accounts and of         *)
(* concurrent requests.  The inductive invariant IInv is made of parts:    *)
(*                                                                         *)
(*   TypeOK      the types;                                                *)
(*   OneOwner    who has the owner's role is the account `channels` names; *)
(*   Powerless   who is not a member has no permissions;                   *)
(*   Overtaken   a departure under way is an owner's only if a transfer    *)
(*               came after its checks;                                    *)
(*   ShutOut     a join under way at a suspended channel was checked       *)
(*               before the suspension;                                    *)
(*   Offered     a subscription under way has its offer's row;             *)
(*   Counted     the number shown is at most the number of members.        *)
(***************************************************************************)
EXTENDS ChannelMembers, FiniteSetTheorems, TLAPS

Powerless == \A a \in Accounts : member[a].role = "none" => member[a].perms = {}

Overtaken ==
    \A r \in Requests :
        /\ req[r].op = "leave" => req[r].whom = req[r].by
        /\ /\ req[r].op \in {"leave", "remove"}
           /\ member[req[r].whom].role = "owner"
           => req[r].late

ShutOut == chan.suspended => \A r \in Requests : req[r].op = "join" => req[r].late

Offered == \A r \in Requests :
    req[r].op \in {"subscribe", "count"} => offer[req[r].by] # "none"

Counted == CountNeverOverstates

IInv == TypeOK /\ OneOwner /\ Powerless /\ Overtaken /\ ShutOut /\ Offered /\ Counted

-----------------------------------------------------------------------------
(* The types                                                               *)

\* What an action may bring in: roles and requests of the right type.
LEMMA Values == Nobody \in Row /\ Owner \in Row /\ Reader \in Row /\ Idle \in Request
  BY MembersAssumption DEF Nobody, Owner, Reader, Idle, Row, Request, Roles, Ops

\* The members are a finite set, so that they can be counted.
LEMMA MembersFinite == IsFiniteSet(Members) /\ Cardinality(Members) \in Nat
  BY MembersAssumption, FS_Subset, FS_CardinalityType DEF Members

LEMMA TypeInit == Init => TypeOK
  <1> SUFFICES ASSUME Init PROVE TypeOK
    OBVIOUS
  <1>1. chan \in Channel
    BY MembersFinite, MembersAssumption DEF Init, Channel
  <1>2. member \in [Accounts -> Row]
    <2>1. \A g \in Grants : [role |-> "admin", perms |-> g] \in Row
      BY MembersAssumption DEF Row, Roles
    <2> QED
      BY <2>1, Values DEF Init
  <1>3. req \in [Requests -> Request]
    BY Values DEF Init
  <1>4. /\ waiting \subseteq Accounts /\ keyAsked \subseteq Accounts
        /\ offer \in [Accounts -> {"none", "offered", "left"}]
        /\ official \in BOOLEAN
    BY DEF Init
  <1>5. MaxRequests \in Nat /\ made = 0
    BY MembersAssumption DEF Init
  <1> QED
    BY <1>1, <1>2, <1>3, <1>4, <1>5 DEF TypeOK

\* A request that begins, goes on, ends, or is overtaken.
LEMMA TypeBegin ==
  ASSUME TypeOK, NEW r \in Requests, NEW op \in Ops, NEW a \in Accounts, NEW w \in Accounts,
         NEW link \in BOOLEAN, Begin(r, op, a, w, link)
  PROVE  TypeOK'
  <1>1. [op |-> op, by |-> a, whom |-> w, link |-> link, late |-> FALSE] \in Request
    BY DEF Request
  <1> QED
    BY <1>1, MembersAssumption DEF TypeOK, Begin

LEMMA TypeGoOn ==
  ASSUME TypeOK, NEW r \in Requests, NEW op \in Ops, GoOn(r, op)
  PROVE  req' \in [Requests -> Request]
  <1>1. [req[r] EXCEPT !.op = op] \in Request
    BY DEF TypeOK, Request
  <1> QED
    BY <1>1 DEF TypeOK, GoOn

LEMMA TypeFinish ==
  ASSUME TypeOK, NEW r \in Requests, Finish(r)
  PROVE  req' \in [Requests -> Request]
  BY Values DEF TypeOK, Finish

LEMMA TypeOvertake ==
  ASSUME TypeOK, NEW S, Overtake(S)
  PROVE  req' \in [Requests -> Request]
  <1>1. \A r \in Requests : [req[r] EXCEPT !.late = TRUE] \in Request
    BY DEF TypeOK, Request
  <1> QED
    BY <1>1 DEF TypeOK, Overtake

\* The counters of the channel's row.
LEMMA Counters ==
  ASSUME NEW c \in Channel
  PROVE  c.count \in Nat /\ c.epoch \in Nat /\ c.uses \in Nat /\ c.code \in Nat
  BY DEF Channel

LEMMA CountersSet ==
  ASSUME NEW c \in Channel, NEW n \in Nat, NEW m \in Nat
  PROVE  /\ [c EXCEPT !.count = n, !.epoch = m] \in Channel
         /\ [c EXCEPT !.count = n, !.uses = m] \in Channel
         /\ [c EXCEPT !.code = n, !.uses = m] \in Channel
  BY DEF Channel

\* What letting somebody in, and letting somebody go, does to the two tables.
LEMMA TypeAdmit ==
  ASSUME TypeOK, NEW a \in Accounts, NEW link \in BOOLEAN, Admit(a, link)
  PROVE  member' \in [Accounts -> Row] /\ chan' \in Channel
  <1> DEFINE m == IF link THEN chan.uses + 1 ELSE chan.uses
  <1>1. chan.count + 1 \in Nat /\ m \in Nat
    BY Counters DEF TypeOK
  <1>2. member' \in [Accounts -> Row]
    BY Values DEF TypeOK, Admit
  <1>3. chan' \in {chan, [chan EXCEPT !.count = chan.count + 1, !.uses = m]}
    BY DEF Admit
  <1> HIDE DEF m
  <1>4. [chan EXCEPT !.count = chan.count + 1, !.uses = m] \in Channel
    BY <1>1, CountersSet DEF TypeOK
  <1> QED
    BY <1>2, <1>3, <1>4 DEF TypeOK

LEMMA TypeDepart ==
  ASSUME TypeOK, NEW a \in Accounts, Depart(a)
  PROVE  member' \in [Accounts -> Row] /\ chan' \in Channel
  <1> DEFINE n == IF chan.count > 0 THEN chan.count - 1 ELSE 0
  <1>1. n \in Nat /\ chan.epoch + 1 \in Nat
    BY Counters DEF TypeOK
  <1>2. member' \in [Accounts -> Row]
    BY Values DEF TypeOK, Depart
  <1>3. chan' = [chan EXCEPT !.count = n, !.epoch = chan.epoch + 1]
    BY DEF Depart
  <1> HIDE DEF n
  <1> QED
    BY <1>1, <1>2, <1>3, CountersSet DEF TypeOK

\* A request whose checks passed: the ten that begin with Begin, and the offer.
LEMMA TypeChecked ==
  ASSUME TypeOK, NEW r \in Requests, Checked(r)
  PROVE  TypeOK'
  <1>1. ASSUME NEW a \in Accounts, NEW link \in BOOLEAN, Join(r, a, link)
        PROVE  TypeOK'
    <2>1. (IF link /\ chan.approval THEN "knock" ELSE "join") \in Ops
      BY DEF Ops
    <2> QED
      BY <1>1, <2>1, TypeBegin DEF Join
  <1>2. ASSUME NEW a \in Accounts, Offer(r, a)
        PROVE  TypeOK'
    <2>1. [op |-> "subscribe", by |-> a, whom |-> a, link |-> FALSE, late |-> FALSE]
            \in Request
      BY DEF Request, Ops
    <2> QED
      BY <1>2, <2>1, MembersAssumption DEF Offer, AtOnce, TypeOK
  <1>3. ASSUME NEW a \in Accounts, NEW w \in Accounts,
               \/ Leave(r, a) \/ SetInvite(r, a) \/ RotateInvite(r, a)
               \/ DeleteChannel(r, a) \/ Remove(r, a, w) \/ Add(r, a, w)
               \/ Approve(r, a, w) \/ Refuse(r, a, w)
        PROVE  TypeOK'
    <2>1. \E op \in Ops, x \in Accounts, link \in BOOLEAN : Begin(r, op, a, x, link)
      BY <1>3 DEF Leave, SetInvite, RotateInvite, DeleteChannel, Remove, Add, Approve, Refuse,
                  Ops
    <2> QED
      BY <2>1, TypeBegin
  <1> QED
    BY <1>1, <1>2, <1>3 DEF Checked

LEMMA TypeContinues ==
  ASSUME TypeOK, NEW r \in Requests, Continues(r)
  PROVE  TypeOK'
  <1>0. /\ req[r].by \in Accounts /\ req[r].whom \in Accounts /\ req[r].link \in BOOLEAN
        /\ {"joined", "present", "left", "removed", "count"} \subseteq Ops
    BY DEF TypeOK, Request, Ops
  <1>1. CASE KnockRow(r) \/ RefuseRow(r) \/ RemoveRecord(r)
    BY <1>0, <1>1, TypeFinish DEF KnockRow, RefuseRow, RemoveRecord, TypeOK
  <1>2. CASE JoinTx(r)
    BY <1>0, <1>2, TypeAdmit, TypeGoOn DEF JoinTx, TypeOK
  <1>3. CASE JoinRecord(r)
    BY <1>0, <1>3, TypeFinish DEF JoinRecord, TypeOK
  <1>4. CASE ApproveTx(r)
    <2>1. member' \in [Accounts -> Row] /\ chan' \in Channel
      BY <1>0, <1>4, TypeAdmit DEF ApproveTx, TypeOK
    <2> QED
      BY <2>1, <1>0, <1>4, TypeFinish DEF ApproveTx, TypeOK
  <1>5. CASE AddTx(r)
    BY <1>0, <1>5, TypeAdmit, TypeFinish DEF AddTx, TypeOK
  <1>6. CASE LeaveTx(r)
    BY <1>0, <1>6, TypeDepart, TypeGoOn DEF LeaveTx, TypeOK
  <1>7. CASE LeaveRecord(r)
    BY <1>0, <1>7, TypeFinish DEF LeaveRecord, TypeOK
  <1>8. CASE RemoveTx(r)
    BY <1>0, <1>8, TypeDepart, TypeGoOn, TypeFinish DEF RemoveTx, TypeOK
  <1>9. CASE RotateInviteRow(r) \/ DeleteChannelRow(r)
    <2>1. chan' \in {chan, [chan EXCEPT !.code = @ + 1, !.uses = 0], [chan EXCEPT !.deleted = TRUE]}
      BY <1>9 DEF RotateInviteRow, DeleteChannelRow
    <2>2. [chan EXCEPT !.code = @ + 1, !.uses = 0] \in Channel
      <3>1. chan.code + 1 \in Nat
        BY Counters DEF TypeOK
      <3> QED
        BY <3>1, CountersSet DEF TypeOK
    <2>3. [chan EXCEPT !.deleted = TRUE] \in Channel
      BY DEF TypeOK, Channel
    <2> QED
      BY <2>1, <2>2, <2>3, <1>9, TypeFinish DEF RotateInviteRow, DeleteChannelRow, TypeOK
  <1>10. CASE SubscribeRow(r)
    BY <1>0, <1>10, TypeFinish, TypeGoOn, Values DEF SubscribeRow, TypeOK
  <1>11. CASE SubscribeCount(r)
    <2>1. chan' \in Channel
      BY <1>11 DEF SubscribeCount, TypeOK, Channel
    <2> QED
      BY <2>1, <1>11, TypeFinish DEF SubscribeCount, TypeOK
  <1>12. ASSUME NEW limit \in Limits, NEW ask \in BOOLEAN,
                NEW expiry \in {"none", "set", "passed"}, SetInviteRow(r, limit, ask, expiry)
         PROVE  TypeOK'
    <2>1. chan' \in Channel
      BY <1>12 DEF SetInviteRow, TypeOK, Channel
    <2> QED
      BY <2>1, <1>12, TypeFinish DEF SetInviteRow, TypeOK
  <1> QED
    BY <1>1, <1>2, <1>3, <1>4, <1>5, <1>6, <1>7, <1>8, <1>9, <1>10, <1>11, <1>12 DEF Continues

\* What one step does: a transaction of the request, or an operator's hand.
LEMMA TypeAtOnce ==
  ASSUME TypeOK
  PROVE  /\ \A a, w \in Accounts : Transfer(a, w) => TypeOK'
         /\ \A a, w \in Accounts, role \in {"subscriber", "admin"}, g \in SUBSET Permissions :
              SetRole(a, w, role, g) => TypeOK'
         /\ InviteExpires \/ Suspend \/ Reinstate \/ Designate \/ ClearOfficial => TypeOK'
  <1>0. AtOnce => made' \in 0..MaxRequests
    BY MembersAssumption DEF AtOnce, TypeOK
  <1>1. ASSUME NEW a \in Accounts, NEW w \in Accounts, Transfer(a, w)
        PROVE  TypeOK'
    <2>1. [role |-> "admin", perms |-> Permissions \ {"canDeleteChannel"}] \in Row
      BY DEF Row, Roles
    <2>2. chan' \in Channel
      BY <1>1 DEF Transfer, TypeOK, Channel
    <2> QED
      BY <1>0, <1>1, <2>1, <2>2, TypeOvertake, Values DEF Transfer, TypeOK
  <1>2. ASSUME NEW a \in Accounts, NEW w \in Accounts, NEW role \in {"subscriber", "admin"},
               NEW g \in SUBSET Permissions, SetRole(a, w, role, g)
        PROVE  TypeOK'
    <2>1. [role |-> role, perms |-> IF role = "subscriber" THEN {} ELSE g] \in Row
      BY DEF Row, Roles
    <2> QED
      BY <1>0, <1>2, <2>1 DEF SetRole, TypeOK
  <1>3. CASE InviteExpires \/ Suspend \/ Reinstate
    <2>1. chan' \in Channel
      BY <1>3 DEF InviteExpires, Suspend, Reinstate, TypeOK, Channel
    <2>2. req' \in [Requests -> Request]
      BY <1>3, TypeOvertake DEF InviteExpires, Suspend, Reinstate, TypeOK
    <2> QED
      BY <1>0, <1>3, <2>1, <2>2 DEF InviteExpires, Suspend, Reinstate, TypeOK
  <1>4. CASE Designate \/ ClearOfficial
    BY <1>0, <1>4 DEF Designate, ClearOfficial, TypeOK
  <1> QED
    BY <1>1, <1>2, <1>3, <1>4

LEMMA TypeNext == TypeOK /\ [Next]_vars => TypeOK'
  <1> SUFFICES ASSUME TypeOK, [Next]_vars PROVE TypeOK'
    OBVIOUS
  <1>1. CASE UNCHANGED vars
    BY <1>1 DEF vars, TypeOK
  <1>2. CASE \E r \in Requests : Checked(r) \/ Continues(r)
    BY <1>2, TypeChecked, TypeContinues
  <1>3. CASE \E a, w \in Accounts :
               \/ Transfer(a, w)
               \/ SetRole(a, w, "subscriber", {})
               \/ \E g \in Grants \cup {AdminDefault} : SetRole(a, w, "admin", g)
    BY <1>3, TypeAtOnce, MembersAssumption
  <1>4. CASE InviteExpires \/ Suspend \/ Reinstate \/ Designate \/ ClearOfficial
    BY <1>4, TypeAtOnce
  <1> QED
    BY <1>1, <1>2, <1>3, <1>4 DEF Next

\* The rows keep their types, whatever requests run (channels.ts, throughout).
THEOREM TypeCorrect == Spec => []TypeOK
  <1>1. Init => TypeOK
    BY TypeInit
  <1>2. TypeOK /\ [Next]_vars => TypeOK'
    BY TypeNext
  <1> QED
    BY <1>1, <1>2, PTL DEF Spec

-----------------------------------------------------------------------------
(* What a step can do to the roles, and to the requests under way          *)

Enters(a) == a \in Accounts \ Members /\ member' = [member EXCEPT ![a] = Reader]

\* The departure a request carries out: the one who asked, or the one removed.
Goes(r) ==
    \/ req[r].op = "leave" /\ member' = [member EXCEPT ![req[r].by] = Nobody]
    \/ req[r].op = "remove" /\ member' = [member EXCEPT ![req[r].whom] = Nobody]

Appoints(a, w) ==
    \E role \in {"subscriber", "admin"}, g \in SUBSET Permissions : SetRole(a, w, role, g)

\* Roles change by a transfer, an appointment, an arrival or a departure.
LEMMA RoleSteps ==
  ASSUME TypeOK, [Next]_vars
  PROVE  \/ \E a, w \in Accounts : Transfer(a, w)
         \/ /\ chan'.owner = chan.owner
            /\ \/ UNCHANGED member
               \/ \E a \in Accounts : Enters(a)
               \/ \E r \in Requests : Goes(r)
               \/ \E a, w \in Accounts : Appoints(a, w)
  <1> DEFINE Roles2 == \/ UNCHANGED member
                       \/ \E a \in Accounts : Enters(a)
                       \/ \E r \in Requests : Goes(r)
                       \/ \E a, w \in Accounts : Appoints(a, w)
  <1>0. \A a \in Accounts, link \in BOOLEAN : Admit(a, link) =>
          chan'.owner = chan.owner /\ (UNCHANGED member \/ Enters(a))
    BY DEF Admit, Enters, TypeOK, Channel
  <1>1. CASE UNCHANGED vars
    BY <1>1 DEF vars
  <1>2. ASSUME NEW r \in Requests, Checked(r) PROVE UNCHANGED <<chan, member>>
    BY <1>2 DEF Checked, Join, Leave, Offer, SetInvite, RotateInvite, DeleteChannel, Remove,
                Add, Approve, Refuse, Begin
  <1>3. ASSUME NEW r \in Requests, Continues(r) PROVE chan'.owner = chan.owner /\ Roles2
    <2>0. req[r].by \in Accounts /\ req[r].whom \in Accounts /\ req[r].link \in BOOLEAN
      BY DEF TypeOK, Request
    <2>1. CASE KnockRow(r) \/ RefuseRow(r) \/ JoinRecord(r) \/ LeaveRecord(r) \/ RemoveRecord(r)
      BY <2>1 DEF KnockRow, RefuseRow, JoinRecord, LeaveRecord, RemoveRecord
    <2>2. CASE JoinTx(r)
      BY <2>0, <2>2, <1>0 DEF JoinTx
    <2>3. CASE ApproveTx(r)
      BY <2>0, <2>3, <1>0 DEF ApproveTx
    <2>4. CASE AddTx(r)
      BY <2>0, <2>4, <1>0 DEF AddTx
    <2>5. CASE LeaveTx(r)
      BY <2>5 DEF LeaveTx, Depart, Goes, TypeOK, Channel
    <2>6. CASE RemoveTx(r)
      BY <2>6 DEF RemoveTx, Depart, Goes, TypeOK, Channel
    <2>7. CASE RotateInviteRow(r) \/ DeleteChannelRow(r) \/ SubscribeCount(r)
      BY <2>7 DEF RotateInviteRow, DeleteChannelRow, SubscribeCount, TypeOK, Channel
    <2>8. CASE SubscribeRow(r)
      BY <2>0, <2>8 DEF SubscribeRow, Enters
    <2>9. ASSUME NEW limit \in Limits, NEW ask \in BOOLEAN,
                 NEW expiry \in {"none", "set", "passed"}, SetInviteRow(r, limit, ask, expiry)
          PROVE  chan'.owner = chan.owner /\ Roles2
      BY <2>9 DEF SetInviteRow, TypeOK, Channel
    <2> QED
      BY <1>3, <2>1, <2>2, <2>3, <2>4, <2>5, <2>6, <2>7, <2>8, <2>9 DEF Continues
  <1>4. ASSUME NEW a \in Accounts, NEW w \in Accounts, NEW g \in SUBSET Permissions,
               NEW role \in {"subscriber", "admin"}, SetRole(a, w, role, g)
        PROVE  chan'.owner = chan.owner /\ Roles2
    BY <1>4 DEF SetRole, Appoints
  <1>5. CASE InviteExpires \/ Suspend \/ Reinstate \/ Designate \/ ClearOfficial
    BY <1>5 DEF InviteExpires, Suspend, Reinstate, Designate, ClearOfficial, TypeOK, Channel
  <1> QED
    BY <1>1, <1>2, <1>3, <1>4, <1>5, MembersAssumption DEF Next

\* The owner is one account: a transfer moves the role and the row together, and
\* nothing else gives it.
LEMMA OwnerNext ==
  ASSUME TypeOK, OneOwner, [Next]_vars
  PROVE  OneOwner'
  <1>1. ASSUME NEW a \in Accounts, NEW w \in Accounts, Transfer(a, w)
        PROVE  OneOwner'
    BY <1>1 DEF Transfer, OneOwner, TypeOK, Channel, Owner
  <1>2. CASE chan'.owner = chan.owner /\ \E a \in Accounts : Enters(a)
    BY <1>2 DEF Enters, Reader, OneOwner, TypeOK
  <1>3. CASE chan'.owner = chan.owner /\ \E r \in Requests : Goes(r)
    BY <1>3 DEF Goes, Nobody, OneOwner, TypeOK
  <1>4. CASE chan'.owner = chan.owner /\ \E a, w \in Accounts : Appoints(a, w)
    BY <1>4 DEF Appoints, SetRole, OneOwner, TypeOK
  <1> QED
    BY <1>1, <1>2, <1>3, <1>4, RoleSteps DEF OneOwner

LEMMA PowerlessNext ==
  ASSUME TypeOK, Powerless, [Next]_vars
  PROVE  Powerless'
  <1>1. ASSUME NEW a \in Accounts, NEW w \in Accounts, Transfer(a, w)
        PROVE  Powerless'
    BY <1>1 DEF Transfer, Powerless, TypeOK, Owner
  <1>2. CASE \E a \in Accounts : Enters(a)
    BY <1>2 DEF Enters, Reader, Powerless, TypeOK
  <1>3. CASE \E r \in Requests : Goes(r)
    BY <1>3 DEF Goes, Nobody, Powerless, TypeOK
  <1>4. CASE \E a, w \in Accounts : Appoints(a, w)
    BY <1>4 DEF Appoints, SetRole, Powerless, TypeOK
  <1> QED
    BY <1>1, <1>2, <1>3, <1>4, RoleSteps DEF Powerless

Begins(r) ==
    \E op \in Ops \ {"count"}, a, w \in Accounts, link \in BOOLEAN :
        /\ req' = [req EXCEPT ![r] = [op |-> op, by |-> a, whom |-> w,
                                      link |-> link, late |-> FALSE]]
        /\ UNCHANGED <<chan, member>>
        /\ op = "leave" => w = a
        /\ op \in {"leave", "remove"} => member[w].role # "owner"
        /\ op = "join" => ~chan.suspended
        /\ op = "subscribe" => offer'[a] # "none"

GoesOn(r) ==
    \/ \E op \in {"joined", "present", "left", "removed"} : GoOn(r, op)
    \/ req[r].op = "subscribe" /\ GoOn(r, "count")

\* A request begins with what its checks saw, goes on, ends or is overtaken.
LEMMA RequestSteps ==
  ASSUME TypeOK, [Next]_vars
  PROVE  \/ UNCHANGED req
         \/ \E r \in Requests : Begins(r) \/ GoesOn(r) \/ Finish(r)
         \/ \E S \in SUBSET Requests : Overtake(S)
  <1>1. CASE UNCHANGED vars
    BY <1>1 DEF vars
  <1>2. ASSUME NEW r \in Requests, Checked(r) PROVE Begins(r)
    <2>0. ASSUME NEW op \in Ops \ {"count", "subscribe"}, NEW a \in Accounts,
                 NEW w \in Accounts, NEW link \in BOOLEAN, Begin(r, op, a, w, link),
                 op = "leave" => w = a,
                 op \in {"leave", "remove"} => member[w].role # "owner",
                 op = "join" => ~chan.suspended
          PROVE  Begins(r)
      BY <2>0 DEF Begin, Begins
    <2>1. ASSUME NEW a \in Accounts, NEW link \in BOOLEAN, Join(r, a, link)
          PROVE  Begins(r)
      <3> DEFINE op == IF link /\ chan.approval THEN "knock" ELSE "join"
      <3>1. op \in Ops \ {"count", "subscribe"} /\ op \notin {"leave", "remove"}
        BY DEF Ops
      <3>2. Begin(r, op, a, a, link) /\ ~chan.suspended
        BY <2>1 DEF Join
      <3> HIDE DEF op
      <3> QED
        BY <2>0, <3>1, <3>2
    <2>2. ASSUME NEW a \in Accounts, Offer(r, a)
          PROVE  Begins(r)
      <3>1. "subscribe" \in Ops \ {"count"} /\ offer'[a] # "none"
        BY <2>2 DEF Offer, Ops, TypeOK
      <3>2. /\ req' = [req EXCEPT ![r] = [op |-> "subscribe", by |-> a, whom |-> a,
                                          link |-> FALSE, late |-> FALSE]]
            /\ UNCHANGED <<chan, member>>
        BY <2>2 DEF Offer
      <3> QED
        BY <3>1, <3>2 DEF Begins
    <2>3. ASSUME NEW a \in Accounts, NEW w \in Accounts,
                 \/ Leave(r, a) \/ SetInvite(r, a) \/ RotateInvite(r, a)
                 \/ DeleteChannel(r, a) \/ Remove(r, a, w) \/ Add(r, a, w)
                 \/ Approve(r, a, w) \/ Refuse(r, a, w)
          PROVE  Begins(r)
      <3>1. {"leave", "invite", "rotate", "delete", "remove", "add", "approve", "refuse"}
              \subseteq Ops \ {"count", "subscribe"}
        BY DEF Ops
      <3>2. CASE Leave(r, a)
        BY <2>0, <3>1, <3>2 DEF Leave
      <3>3. CASE Remove(r, a, w)
        BY <2>0, <3>1, <3>3 DEF Remove
      <3>4. CASE \/ SetInvite(r, a) \/ RotateInvite(r, a) \/ DeleteChannel(r, a)
                 \/ Add(r, a, w) \/ Approve(r, a, w) \/ Refuse(r, a, w)
        BY <2>0, <3>1, <3>4 DEF SetInvite, RotateInvite, DeleteChannel, Add, Approve, Refuse
      <3> QED
        BY <2>3, <3>2, <3>3, <3>4
    <2> QED
      BY <1>2, <2>1, <2>2, <2>3 DEF Checked
  <1>3. ASSUME NEW r \in Requests, Continues(r) PROVE GoesOn(r) \/ Finish(r)
    BY <1>3 DEF Continues, KnockRow, JoinTx, JoinRecord, ApproveTx, RefuseRow, AddTx, LeaveTx,
                LeaveRecord, RemoveTx, RemoveRecord, RotateInviteRow, DeleteChannelRow,
                SubscribeRow, SubscribeCount, SetInviteRow, GoesOn
  <1>4. ASSUME NEW a \in Accounts, NEW w \in Accounts, Transfer(a, w)
        PROVE  \E S \in SUBSET Requests : Overtake(S)
    BY <1>4 DEF Transfer
  <1>5. ASSUME NEW a \in Accounts, NEW w \in Accounts, NEW g, NEW role,
               SetRole(a, w, role, g)
        PROVE  UNCHANGED req
    BY <1>5 DEF SetRole
  <1>6. CASE InviteExpires \/ Suspend \/ Reinstate \/ Designate \/ ClearOfficial
    BY <1>6 DEF InviteExpires, Suspend, Reinstate, Designate, ClearOfficial
  <1> QED
    BY <1>1, <1>2, <1>3, <1>4, <1>5, <1>6 DEF Next

LEMMA NoOtherOwner ==
  ASSUME TypeOK, [Next]_vars
  PROVE  \/ \E a, w \in Accounts : Transfer(a, w)
         \/ \A x \in Accounts : member'[x].role = "owner" => member[x].role = "owner"
  <1>1. CASE \E a \in Accounts : Enters(a)
    BY <1>1 DEF Enters, Reader, TypeOK
  <1>2. CASE \E r \in Requests : Goes(r)
    BY <1>2 DEF Goes, Nobody, TypeOK
  <1>3. CASE \E a, w \in Accounts : Appoints(a, w)
    BY <1>3 DEF Appoints, SetRole, TypeOK
  <1> QED
    BY <1>1, <1>2, <1>3, RoleSteps

\* A departure is checked against the roles of its time; whoever becomes owner
\* later does so by a transfer, which marks it.
LEMMA OvertakenNext ==
  ASSUME TypeOK, Overtaken, [Next]_vars
  PROVE  Overtaken'
  <1>1. ASSUME NEW a \in Accounts, NEW w \in Accounts, Transfer(a, w)
        PROVE  Overtaken'
    <2> SUFFICES ASSUME NEW r \in Requests
                 PROVE  /\ req'[r].op = "leave" => req'[r].whom = req'[r].by
                        /\ /\ req'[r].op \in {"leave", "remove"}
                           /\ member'[req'[r].whom].role = "owner"
                           => req'[r].late
      BY DEF Overtaken
    <2>1. /\ req'[r].op = req[r].op /\ req'[r].by = req[r].by /\ req'[r].whom = req[r].whom
          /\ req[r].late => req'[r].late
          /\ req[r].op \in {"leave", "remove"} /\ req[r].whom = w => req'[r].late
      BY <1>1 DEF Transfer, Overtake, TypeOK, Request
    <2>2. \A x \in Accounts \ {w} : member'[x].role = "owner" => member[x].role = "owner"
      BY <1>1 DEF Transfer, TypeOK
    <2>3. req[r].whom \in Accounts
      BY DEF TypeOK, Request
    <2> QED
      BY <2>1, <2>2, <2>3 DEF Overtaken
  <1>2. CASE \A x \in Accounts : member'[x].role = "owner" => member[x].role = "owner"
    <2>1. \A r \in Requests : req[r].whom \in Accounts
      BY DEF TypeOK, Request
    <2>2. CASE UNCHANGED req
      BY <1>2, <2>1, <2>2 DEF Overtaken
    <2>3. ASSUME NEW r \in Requests, Begins(r) PROVE Overtaken'
      BY <2>1, <2>3 DEF Begins, Overtaken, TypeOK
    <2>4. ASSUME NEW r \in Requests, GoesOn(r) \/ Finish(r) PROVE Overtaken'
      BY <1>2, <2>1, <2>4 DEF GoesOn, GoOn, Finish, Idle, Overtaken, TypeOK, Request
    <2>5. ASSUME NEW S \in SUBSET Requests, Overtake(S) PROVE Overtaken'
      BY <1>2, <2>1, <2>5 DEF Overtake, Overtaken, TypeOK, Request
    <2> QED
      BY <2>2, <2>3, <2>4, <2>5, RequestSteps
  <1> QED
    BY <1>1, <1>2, NoOtherOwner

-----------------------------------------------------------------------------
(* Suspension and the official channel                                     *)

\* A channel is suspended by an operator and stays so through everything else.
LEMMA SuspendedBySuspend ==
  ASSUME TypeOK, [Next]_vars
  PROVE  Suspend \/ chan'.suspended = chan.suspended \/ ~chan'.suspended
  <1>1. CASE UNCHANGED vars
    BY <1>1 DEF vars
  <1>2. ASSUME NEW r \in Requests, Checked(r) PROVE chan' = chan
    BY <1>2 DEF Checked, Join, Leave, Offer, SetInvite, RotateInvite, DeleteChannel, Remove,
                Add, Approve, Refuse, Begin
  <1>3. ASSUME NEW r \in Requests, Continues(r) PROVE chan'.suspended = chan.suspended
    BY <1>3 DEF Continues, KnockRow, JoinTx, JoinRecord, ApproveTx, RefuseRow, AddTx, LeaveTx,
                LeaveRecord, RemoveTx, RemoveRecord, RotateInviteRow, DeleteChannelRow,
                SubscribeRow, SubscribeCount, SetInviteRow, Admit, Depart, TypeOK, Channel
  <1>4. ASSUME NEW a \in Accounts, NEW w \in Accounts, NEW g, NEW role,
               Transfer(a, w) \/ SetRole(a, w, role, g)
        PROVE  chan'.suspended = chan.suspended
    BY <1>4 DEF Transfer, SetRole, TypeOK, Channel
  <1>5. CASE InviteExpires \/ Reinstate \/ Designate \/ ClearOfficial
    BY <1>5 DEF InviteExpires, Reinstate, Designate, ClearOfficial, TypeOK, Channel
  <1> QED
    BY <1>1, <1>2, <1>3, <1>4, <1>5 DEF Next

LEMMA ShutOutNext ==
  ASSUME TypeOK, ShutOut, [Next]_vars
  PROVE  ShutOut'
  <1>1. CASE Suspend
    BY <1>1 DEF Suspend, Overtake, ShutOut, TypeOK, Request
  <1>2. CASE chan'.suspended = chan.suspended
    <2>1. CASE UNCHANGED req
      BY <1>2, <2>1 DEF ShutOut
    <2>2. ASSUME NEW r \in Requests, Begins(r) PROVE ShutOut'
      BY <2>2 DEF Begins, ShutOut, TypeOK
    <2>3. ASSUME NEW r \in Requests, GoesOn(r) \/ Finish(r) PROVE ShutOut'
      BY <1>2, <2>3 DEF GoesOn, GoOn, Finish, Idle, ShutOut, TypeOK, Request
    <2>4. ASSUME NEW S \in SUBSET Requests, Overtake(S) PROVE ShutOut'
      BY <1>2, <2>4 DEF Overtake, ShutOut, TypeOK, Request
    <2> QED
      BY <2>1, <2>2, <2>3, <2>4, RequestSteps
  <1>3. CASE ~chan'.suspended
    BY <1>3 DEF ShutOut
  <1> QED
    BY <1>1, <1>2, <1>3, SuspendedBySuspend

\* An offer's row is never taken back.
LEMMA OffersStay ==
  ASSUME TypeOK, [Next]_vars
  PROVE  \A a \in Accounts : offer[a] # "none" => offer'[a] # "none"
  <1>1. CASE UNCHANGED vars
    BY <1>1 DEF vars
  <1>2. ASSUME NEW r \in Requests, Checked(r)
        PROVE  \A a \in Accounts : offer[a] # "none" => offer'[a] # "none"
    BY <1>2 DEF Checked, Join, Leave, Offer, SetInvite, RotateInvite, DeleteChannel, Remove,
                Add, Approve, Refuse, Begin, TypeOK
  <1>3. ASSUME NEW r \in Requests, Continues(r)
        PROVE  \A a \in Accounts : offer[a] # "none" => offer'[a] # "none"
    <2>1. CASE JoinRecord(r)
      BY <2>1 DEF JoinRecord, TypeOK
    <2>2. CASE LeaveRecord(r)
      BY <2>2 DEF LeaveRecord, TypeOK
    <2> QED
      BY <1>3, <2>1, <2>2 DEF Continues, KnockRow, JoinTx, ApproveTx, RefuseRow, AddTx, LeaveTx,
                RemoveTx, RemoveRecord, RotateInviteRow, DeleteChannelRow, SubscribeRow,
                SubscribeCount, SetInviteRow
  <1>4. ASSUME NEW a \in Accounts, NEW w \in Accounts, NEW g, NEW role,
               Transfer(a, w) \/ SetRole(a, w, role, g)
        PROVE  offer' = offer
    BY <1>4 DEF Transfer, SetRole
  <1>5. CASE InviteExpires \/ Suspend \/ Reinstate \/ Designate \/ ClearOfficial
    BY <1>5 DEF InviteExpires, Suspend, Reinstate, Designate, ClearOfficial
  <1> QED
    BY <1>1, <1>2, <1>3, <1>4, <1>5 DEF Next

LEMMA OfferedNext ==
  ASSUME TypeOK, Offered, [Next]_vars
  PROVE  Offered'
  <1>0. \A r \in Requests : req[r].by \in Accounts
    BY DEF TypeOK, Request
  <1>1. CASE UNCHANGED req
    BY <1>0, <1>1, OffersStay DEF Offered
  <1>2. ASSUME NEW r \in Requests, Begins(r) PROVE Offered'
    BY <1>0, <1>2, OffersStay DEF Begins, Offered, TypeOK
  <1>3. ASSUME NEW r \in Requests, GoesOn(r) \/ Finish(r) PROVE Offered'
    BY <1>0, <1>3, OffersStay DEF GoesOn, GoOn, Finish, Idle, Offered, TypeOK, Request
  <1>4. ASSUME NEW S \in SUBSET Requests, Overtake(S) PROVE Offered'
    BY <1>0, <1>4, OffersStay DEF Overtake, Offered, TypeOK, Request
  <1> QED
    BY <1>1, <1>2, <1>3, <1>4, RequestSteps

-----------------------------------------------------------------------------
(* The number of members shown                                             *)

\* The count moves with the members, down whether or not somebody went; only the
\* official subscription counts by itself.
LEMMA CountSteps ==
  ASSUME TypeOK, Offered, [Next]_vars
  PROVE  \/ chan'.count = chan.count /\ Members \subseteq Members'
         \/ \E a \in Accounts \ Members :
               chan'.count = chan.count + 1 /\ Members' = Members \cup {a}
         \/ \E a \in Accounts :
               /\ chan'.count = IF chan.count > 0 THEN chan.count - 1 ELSE 0
               /\ Members' = Members \ {a}
         \/ \E a \in Accounts : offer[a] # "none"
  <1> DEFINE Same == chan'.count = chan.count /\ Members \subseteq Members'
             More == \E a \in Accounts \ Members :
                       chan'.count = chan.count + 1 /\ Members' = Members \cup {a}
             Less == \E a \in Accounts :
                       /\ chan'.count = IF chan.count > 0 THEN chan.count - 1 ELSE 0
                       /\ Members' = Members \ {a}
  <1>0. \A r \in Requests :
          req[r].by \in Accounts /\ req[r].whom \in Accounts /\ req[r].link \in BOOLEAN
    BY DEF TypeOK, Request
  <1>1. ASSUME UNCHANGED member PROVE Members' = Members
    BY <1>1 DEF Members
  <1>2. ASSUME NEW a \in Accounts, NEW link \in BOOLEAN, Admit(a, link)
        PROVE  Same \/ More
    <2>1. CASE a \in Members
      BY <1>2, <2>1, <1>1 DEF Admit
    <2>2. CASE a \notin Members
      <3>1. Members' = Members \cup {a}
        BY <1>2, <2>2 DEF Admit, Members, Reader, TypeOK
      <3>2. chan'.count = chan.count + 1
        BY <1>2, <2>2 DEF Admit, TypeOK, Channel
      <3> QED
        BY <2>2, <3>1, <3>2
    <2> QED
      BY <2>1, <2>2
  <1>3. ASSUME NEW a \in Accounts, Depart(a) PROVE Less
    <2>1. Members' = Members \ {a}
      BY <1>3 DEF Depart, Members, Nobody, TypeOK
    <2>2. chan'.count = IF chan.count > 0 THEN chan.count - 1 ELSE 0
      BY <1>3 DEF Depart, TypeOK, Channel
    <2> QED
      BY <2>1, <2>2
  <1>4. CASE UNCHANGED vars
    BY <1>1, <1>4 DEF vars
  <1>5. ASSUME NEW r \in Requests, Checked(r) PROVE Same
    <2>1. UNCHANGED <<chan, member>>
      BY <1>5 DEF Checked, Join, Leave, Offer, SetInvite, RotateInvite, DeleteChannel, Remove,
                  Add, Approve, Refuse, Begin
    <2> QED
      BY <1>1, <2>1
  <1>6. ASSUME NEW r \in Requests, Continues(r)
        PROVE  Same \/ More \/ Less \/ \E a \in Accounts : offer[a] # "none"
    <2>1. CASE JoinTx(r) \/ AddTx(r)
      BY <1>0, <1>2, <2>1 DEF JoinTx, AddTx
    <2>2. CASE ApproveTx(r)
      BY <1>0, <1>1, <1>2, <2>2 DEF ApproveTx
    <2>3. CASE LeaveTx(r)
      BY <1>0, <1>3, <2>3 DEF LeaveTx
    <2>4. CASE RemoveTx(r)
      BY <1>0, <1>1, <1>3, <2>4 DEF RemoveTx
    <2>5. CASE SubscribeRow(r)
      <3>1. Members \subseteq Members' /\ chan' = chan
        BY <2>5 DEF SubscribeRow, Members, Reader, TypeOK
      <3> QED
        BY <3>1
    <2>6. CASE SubscribeCount(r)
      BY <1>0, <2>6 DEF SubscribeCount, Offered
    <2>7. CASE KnockRow(r) \/ RefuseRow(r) \/ JoinRecord(r) \/ LeaveRecord(r) \/ RemoveRecord(r)
      BY <1>1, <2>7 DEF KnockRow, RefuseRow, JoinRecord, LeaveRecord, RemoveRecord
    <2>8. CASE \/ RotateInviteRow(r) \/ DeleteChannelRow(r)
               \/ \E limit \in Limits, ask \in BOOLEAN, expiry \in {"none", "set", "passed"} :
                    SetInviteRow(r, limit, ask, expiry)
      <3>1. chan'.count = chan.count /\ UNCHANGED member
        BY <2>8 DEF RotateInviteRow, DeleteChannelRow, SetInviteRow, TypeOK, Channel
      <3> QED
        BY <1>1, <3>1
    <2> QED
      BY <1>6, <2>1, <2>2, <2>3, <2>4, <2>5, <2>6, <2>7, <2>8 DEF Continues
  <1>7. ASSUME NEW a \in Accounts, NEW w \in Accounts, Transfer(a, w) PROVE Same
    <2>1. chan'.count = chan.count
      BY <1>7 DEF Transfer, TypeOK, Channel
    <2>2. Members \subseteq Members'
      BY <1>7 DEF Transfer, Members, Owner, TypeOK
    <2> QED
      BY <2>1, <2>2
  <1>8. ASSUME NEW a \in Accounts, NEW w \in Accounts, NEW g,
               NEW role \in {"subscriber", "admin"}, SetRole(a, w, role, g)
        PROVE  Same
    BY <1>8 DEF SetRole, Members, TypeOK
  <1>9. CASE InviteExpires \/ Suspend \/ Reinstate \/ Designate \/ ClearOfficial
    <2>1. chan'.count = chan.count /\ UNCHANGED member
      BY <1>9 DEF InviteExpires, Suspend, Reinstate, Designate, ClearOfficial, TypeOK, Channel
    <2> QED
      BY <1>1, <2>1
  <1> QED
    BY <1>4, <1>5, <1>6, <1>7, <1>8, <1>9 DEF Next

LEMMA CountedNext ==
  ASSUME TypeOK, Offered, Counted, [Next]_vars
  PROVE  Counted'
  <1> SUFFICES ASSUME \A a \in Accounts : offer'[a] = "none"
               PROVE  chan'.count <= Cardinality(Members')
    BY DEF Counted, CountNeverOverstates
  <1>1. \A a \in Accounts : offer[a] = "none"
    BY OffersStay
  <1>2. chan.count <= Cardinality(Members) /\ chan.count \in Nat
    BY <1>1, Counters DEF Counted, CountNeverOverstates, TypeOK
  <1>3. IsFiniteSet(Members) /\ Cardinality(Members) \in Nat
    BY MembersFinite
  <1>4. IsFiniteSet(Members') /\ Cardinality(Members') \in Nat
    BY MembersFinite, MembersAssumption, FS_Subset, FS_CardinalityType DEF Members
  <1>5. CASE chan'.count = chan.count /\ Members \subseteq Members'
    <2>1. Cardinality(Members) <= Cardinality(Members')
      BY <1>4, <1>5, FS_Subset
    <2> QED
      BY <1>2, <1>3, <1>4, <1>5, <2>1
  <1>6. ASSUME NEW a \in Accounts \ Members,
               chan'.count = chan.count + 1, Members' = Members \cup {a}
        PROVE  chan'.count <= Cardinality(Members')
    <2>1. Cardinality(Members') = Cardinality(Members) + 1
      BY <1>3, <1>6, FS_AddElement
    <2> QED
      BY <1>2, <1>3, <1>6, <2>1
  <1>7. ASSUME NEW a \in Accounts,
               chan'.count = IF chan.count > 0 THEN chan.count - 1 ELSE 0,
               Members' = Members \ {a}
        PROVE  chan'.count <= Cardinality(Members')
    <2>1. Cardinality(Members') = IF a \in Members THEN Cardinality(Members) - 1
                                                  ELSE Cardinality(Members)
      BY <1>3, <1>7, FS_RemoveElement
    <2> QED
      BY <1>2, <1>3, <1>4, <1>7, <2>1
  <1> QED
    BY <1>1, <1>5, <1>6, <1>7, CountSteps

-----------------------------------------------------------------------------
(* The theorems                                                            *)

LEMMA Invariant == Spec => []IInv
  <1>1. Init => IInv
    <2> SUFFICES ASSUME Init PROVE IInv
      OBVIOUS
    <2>1. TypeOK
      BY TypeInit
    <2>2. OneOwner
      BY DEF Init, OneOwner, Owner, Nobody, Reader
    <2>3. Powerless
      BY DEF Init, Powerless, Owner, Nobody, Reader
    <2>4. Overtaken /\ ShutOut /\ Offered
      BY DEF Init, Overtaken, ShutOut, Offered, Idle
    <2>5. Counted
      BY MembersFinite DEF Init, Counted, CountNeverOverstates
    <2> QED
      BY <2>1, <2>2, <2>3, <2>4, <2>5 DEF IInv
  <1>2. IInv /\ [Next]_vars => IInv'
    BY TypeNext, OwnerNext, PowerlessNext, OvertakenNext, ShutOutNext, OfferedNext, CountedNext
       DEF IInv
  <1> QED
    BY <1>1, <1>2, PTL DEF Spec

\* A channel never has two owners (POST owner, PUT role).
THEOREM OneOwnerAtMost == Spec => []OneOwner
  <1>1. IInv => OneOwner
    BY DEF IInv
  <1> QED
    BY <1>1, Invariant, PTL

\* Of a channel never offered at sign-in, the member count is not too high
\* (POST join, leave, members; approvals).
THEOREM CountIsModest == Spec => []CountNeverOverstates
  <1>1. IInv => CountNeverOverstates
    BY DEF IInv, Counted
  <1> QED
    BY <1>1, Invariant, PTL

\* An owner's row goes only in a departure whose request had passed its checks
\* before the transfer that made them owner (DELETE members, POST leave).
THEOREM OwnersGoOvertaken == Spec => OwnerGoesOnlyOvertaken
  <1> DEFINE A == \A a \in Accounts :
                    member[a].role = "owner" /\ member'[a].role = "none"
                      => \E r \in Running("leave") \cup Running("remove") :
                           req[r].late /\ req[r].whom = a
  <1>1. IInv /\ [Next]_vars => [A]_vars
    <2> SUFFICES ASSUME IInv, [Next]_vars, NEW a \in Accounts,
                        member[a].role = "owner", member'[a].role = "none"
                 PROVE  \E r \in Running("leave") \cup Running("remove") :
                          req[r].late /\ req[r].whom = a
      OBVIOUS
    <2>0. TypeOK /\ Overtaken
      BY DEF IInv
    <2>1. ASSUME NEW b \in Accounts, NEW w \in Accounts, Transfer(b, w) PROVE FALSE
      <3>1. member'[a] \in {member[a], Owner,
                           [role |-> "admin", perms |-> Permissions \ {"canDeleteChannel"}]}
        BY <2>0, <2>1 DEF Transfer, TypeOK
      <3> QED
        BY <3>1 DEF Owner
    <2>2. ~ \E b \in Accounts : Enters(b)
      BY <2>0 DEF Enters, Reader, TypeOK
    <2>3. ~ \E b, w \in Accounts : Appoints(b, w)
      BY <2>0 DEF Appoints, SetRole, TypeOK
    <2>4. member' # member
      OBVIOUS
    <2>5. PICK r \in Requests : Goes(r)
      BY <2>0, <2>1, <2>2, <2>3, <2>4, RoleSteps
    <2>6. req[r].op \in {"leave", "remove"} /\ req[r].whom = a
      BY <2>0, <2>5 DEF Goes, Overtaken, TypeOK
    <2> QED
      BY <2>0, <2>6 DEF Overtaken, Running
  <1> QED
    BY <1>1, Invariant, PTL DEF Spec, OwnerGoesOnlyOvertaken

\* A member's rights change only by an appointment of somebody else who holds the
\* right to appoint and everything given and taken (PUT role), or by a transfer.
THEOREM RightsAreGranted == Spec => RightsComeFromAbove
  <1> DEFINE A ==
        chan.owner = chan.owner' =>
          \A a \in Members : member[a] # member'[a] /\ member'[a].role # "none" =>
            \E b \in Members \ {a} :
              /\ WithinAuthority(member[b].perms, member[a].perms \cup member'[a].perms)
              /\ (IF member'[a].role = "admin" THEN "canAppointAdmins"
                                              ELSE "canManageMembers") \in member[b].perms
  <1>1. IInv /\ [Next]_vars => [A]_vars
    <2> SUFFICES ASSUME IInv, [Next]_vars, chan.owner = chan.owner', NEW a \in Members,
                        member[a] # member'[a], member'[a].role # "none"
                 PROVE  \E b \in Members \ {a} :
                          /\ WithinAuthority(member[b].perms,
                                             member[a].perms \cup member'[a].perms)
                          /\ (IF member'[a].role = "admin" THEN "canAppointAdmins"
                              ELSE "canManageMembers") \in member[b].perms
      OBVIOUS
    <2>0. TypeOK /\ OneOwner /\ Powerless /\ a \in Accounts
      BY DEF IInv, Members
    <2>1. ASSUME NEW b \in Accounts, NEW w \in Accounts, Transfer(b, w) PROVE FALSE
      <3>1. chan'.owner = w /\ b # w
        BY <2>0, <2>1 DEF Transfer, TypeOK, Channel
      <3>2. chan.owner = b
        BY <2>0, <2>1 DEF Transfer, OneOwner
      <3> QED
        BY <3>1, <3>2
    <2>2. ~ \E b \in Accounts : Enters(b)
      BY <2>0 DEF Enters, TypeOK
    <2>3. ~ \E r \in Requests : Goes(r)
      BY <2>0 DEF Goes, Nobody, TypeOK
    <2>4. PICK b \in Accounts, w \in Accounts : Appoints(b, w)
      BY <2>0, <2>1, <2>2, <2>3, RoleSteps
    <2>5. PICK role \in {"subscriber", "admin"}, g \in SUBSET Permissions :
            SetRole(b, w, role, g)
      BY <2>4 DEF Appoints
    <2>6. w = a /\ b # a
      BY <2>0, <2>5 DEF SetRole, TypeOK
    <2>7. member'[a].role = role /\ member'[a].perms = IF role = "subscriber" THEN {} ELSE g
      BY <2>0, <2>5, <2>6 DEF SetRole, TypeOK
    <2>8. WithinAuthority(member[b].perms, member[a].perms \cup member'[a].perms)
      BY <2>5, <2>6, <2>7 DEF SetRole, WithinAuthority
    <2>9. (IF role = "admin" THEN "canAppointAdmins" ELSE "canManageMembers")
            \in member[b].perms
      BY <2>5 DEF SetRole, May
    <2>10. b \in Members
      BY <2>0, <2>9 DEF Powerless, Members
    <2> QED
      BY <2>6, <2>7, <2>8, <2>9, <2>10
  <1> QED
    BY <1>1, Invariant, PTL DEF Spec, RightsComeFromAbove

\* Into a suspended channel people come by an administrator's hand, by the
\* subscription at sign-in or in a join checked before (POST join, members,
\* approvals; ensureSubscribed).
THEOREM SuspendedIsClosed == Spec => SuspensionClosesTheDoor
  <1> DEFINE A ==
        chan.suspended =>
          \A a \in Accounts \ Members : member'[a].role # "none" =>
            \/ \E r \in Running("add") : req[r].whom = a
            \/ \E r \in Running("approve") : req[r].whom = a /\ a \in waiting
            \/ \E r \in Running("subscribe") : req[r].by = a
            \/ \E r \in Running("join") : req[r].by = a /\ req[r].late
  <1>1. IInv /\ [Next]_vars => [A]_vars
    <2> SUFFICES ASSUME IInv, [Next]_vars, chan.suspended, NEW a \in Accounts \ Members,
                        member'[a].role # "none"
                 PROVE  \/ \E r \in Running("add") : req[r].whom = a
                        \/ \E r \in Running("approve") : req[r].whom = a /\ a \in waiting
                        \/ \E r \in Running("subscribe") : req[r].by = a
                        \/ \E r \in Running("join") : req[r].by = a /\ req[r].late
      OBVIOUS
    <2>0. TypeOK /\ ShutOut /\ member[a].role = "none" /\ member' # member
      BY DEF IInv, Members
    <2>1. ASSUME NEW b, NEW link, Admit(b, link) PROVE b = a
      BY <2>0, <2>1 DEF Admit, TypeOK
    <2>2. ASSUME NEW b, Depart(b) PROVE FALSE
      BY <2>0, <2>2 DEF Depart, Nobody, TypeOK
    <2>3. PICK r \in Requests : Continues(r)
      <3>1. ASSUME NEW r \in Requests, Checked(r) PROVE FALSE
        BY <2>0, <3>1 DEF Checked, Join, Leave, Offer, SetInvite, RotateInvite, DeleteChannel, Remove,
                    Add, Approve, Refuse, Begin
      <3>2. ~ \E b, w \in Accounts : Transfer(b, w)
        BY <2>0 DEF Transfer, IsMember, Members, TypeOK
      <3>3. ASSUME NEW b \in Accounts, NEW w \in Accounts, NEW g, NEW role,
                   SetRole(b, w, role, g)
            PROVE  FALSE
        BY <2>0, <3>3 DEF SetRole, Members, TypeOK
      <3>4. ~(UNCHANGED vars \/ InviteExpires \/ Suspend \/ Reinstate \/ Designate
                \/ ClearOfficial)
        BY <2>0 DEF vars, InviteExpires, Suspend, Reinstate, Designate, ClearOfficial
      <3> QED
        BY <3>1, <3>2, <3>3, <3>4 DEF Next
    <2>4. CASE JoinTx(r)
      BY <2>0, <2>1, <2>4 DEF JoinTx, ShutOut, Running
    <2>5. CASE ApproveTx(r)
      BY <2>0, <2>1, <2>5 DEF ApproveTx, Running
    <2>6. CASE AddTx(r)
      BY <2>1, <2>6 DEF AddTx, Running
    <2>7. CASE SubscribeRow(r)
      BY <2>0, <2>7 DEF SubscribeRow, Running, TypeOK
    <2>8. ~(LeaveTx(r) \/ RemoveTx(r))
      BY <2>0, <2>2 DEF LeaveTx, RemoveTx
    <2> QED
      BY <2>0, <2>3, <2>4, <2>5, <2>6, <2>7, <2>8
         DEF Continues, KnockRow, JoinRecord, RefuseRow, LeaveRecord, RemoveRecord,
             RotateInviteRow, DeleteChannelRow, SubscribeCount, SetInviteRow
  <1> QED
    BY <1>1, Invariant, PTL DEF Spec, SuspensionClosesTheDoor

=============================================================================
