--------------------------- MODULE ChannelMembers ---------------------------
(***************************************************************************)
(* Who is in a channel, in which role, and how they get in and out:        *)
(* src/server/src/routes/channels.ts, services/channel_permissions.ts,     *)
(* services/official_channel.ts and the moderation routes of admin.ts.     *)
(*                                                                         *)
(* One channel.  A request runs in the steps its awaits divide it into: it *)
(* is checked against rows read on the pool, and later one transaction (or *)
(* one UPDATE) does the work under whatever locks it takes.  A transaction *)
(* that holds the channel's row lock, or a single statement, is one step;  *)
(* what was read before it may be out of date by then.  A refusal changes  *)
(* nothing and is not an action.                                           *)
(***************************************************************************)
EXTENDS Naturals, FiniteSets

CONSTANTS
    Accounts,      \* people
    Creator,       \* the account that created the channel
    Permissions,   \* the permission flags the model tells apart
    AdminDefault,  \* DEFAULT_ADMIN_PERMISSIONS, of those
    Grants,        \* permission sets a PUT role may name
    MayAdd,        \* <<adder, person>>: the person's settings let the adder add them
    Private,       \* TRUE for a private channel
    Limits,        \* values invite_max_uses may be given; Unlimited is one
    Unlimited,     \* NULL in invite_max_uses
    Requests,      \* concurrent requests
    MaxRequests    \* bound: requests ever made

ASSUME MembersAssumption ==
    /\ IsFiniteSet(Accounts) /\ Creator \in Accounts
    /\ {"canManageMembers", "canAppointAdmins", "canDeleteChannel"} \subseteq Permissions
    /\ AdminDefault \subseteq Permissions
    /\ Grants \subseteq SUBSET Permissions
    /\ Private \in BOOLEAN
    /\ Unlimited \notin Nat /\ Limits \subseteq Nat \cup {Unlimited}
    /\ MaxRequests \in Nat

VARIABLES
    chan,      \* the row of `channels`
    member,    \* rows of `channel_members`, by account
    waiting,   \* rows of `channel_join_requests`
    keyAsked,  \* rows of `key_requests`
    offer,     \* rows of `official_channel_offers`, by account
    official,  \* the channel is the designated official one
    req,       \* requests between two of their steps
    made       \* requests made so far

vars == <<chan, member, waiting, keyAsked, offer, official, req, made>>

Nobody == [role |-> "none", perms |-> {}]
Owner  == [role |-> "owner", perms |-> Permissions]
Reader == [role |-> "subscriber", perms |-> {}]

Members == {a \in Accounts : member[a].role # "none"}

\* `membership` and `requirePermission`: nobody has a role in a deleted channel.
May(a, p) == ~chan.deleted /\ p \in member[a].perms
IsMember(a) == ~chan.deleted /\ a \in Members

WithinAuthority(holder, granted) == granted \subseteq holder

Roles == {"none", "subscriber", "admin", "owner"}
Idle  == [op |-> "idle", by |-> Creator, whom |-> Creator, link |-> FALSE, late |-> FALSE]
Ops   == {"idle", "join", "joined", "present", "knock", "leave", "left", "remove",
          "removed", "approve", "refuse", "add", "invite", "rotate", "delete",
          "subscribe", "count"}

Row     == [role : Roles, perms : SUBSET Permissions]
Request == [op : Ops, by : Accounts, whom : Accounts, link : BOOLEAN, late : BOOLEAN]
Channel == [owner : Accounts, count : Nat, epoch : Nat, code : Nat, uses : Nat,
            maxUses : Limits, expiry : {"none", "set", "passed"}, approval : BOOLEAN,
            suspended : BOOLEAN, deleted : BOOLEAN]

TypeOK ==
    /\ chan \in Channel
    /\ member \in [Accounts -> Row]
    /\ waiting \subseteq Accounts
    /\ keyAsked \subseteq Accounts
    /\ offer \in [Accounts -> {"none", "offered", "left"}]
    /\ official \in BOOLEAN
    /\ req \in [Requests -> Request]
    /\ made \in 0..MaxRequests

\* A channel its creator has been running for a while: the others were added,
\* appointed or neither, and the link may be limited or ask first.
Init ==
    /\ member \in [Accounts -> {Nobody, Owner, Reader}
                                 \cup {[role |-> "admin", perms |-> g] : g \in Grants}]
    /\ \A a \in Accounts : member[a] = Owner <=> a = Creator
    /\ \E m \in Limits, ask \in BOOLEAN :
         chan = [owner |-> Creator, count |-> Cardinality(Members), epoch |-> 1,
                 code |-> 0, uses |-> 0, maxUses |-> m, expiry |-> "none",
                 approval |-> ask, suspended |-> FALSE, deleted |-> FALSE]
    /\ waiting = {} /\ keyAsked = {}
    /\ offer = [a \in Accounts |-> "none"]
    /\ official = FALSE
    /\ req = [r \in Requests |-> Idle]
    /\ made = 0

-----------------------------------------------------------------------------
(* Requests *)

Begin(r, op, a, w, link) ==
    /\ req[r].op = "idle"
    /\ made < MaxRequests
    /\ made' = made + 1
    /\ req' = [req EXCEPT ![r] = [op |-> op, by |-> a, whom |-> w,
                                  link |-> link, late |-> FALSE]]
    /\ UNCHANGED <<chan, member, waiting, keyAsked, offer, official>>

\* A request that is one step: its checks run in the transaction that writes.
AtOnce == made < MaxRequests /\ made' = made + 1

GoOn(r, op) == req' = [req EXCEPT ![r].op = op]
Finish(r)   == req' = [req EXCEPT ![r] = Idle]

\* History: the requests under way that were checked before something happened
\* that their checks would have seen.
Overtake(S) == req' = [r \in Requests |-> IF r \in S THEN [req[r] EXCEPT !.late = TRUE]
                                                     ELSE req[r]]

Depart(a) ==
    /\ member' = [member EXCEPT ![a] = Nobody]
    /\ chan' = [chan EXCEPT !.count = IF @ > 0 THEN @ - 1 ELSE 0, !.epoch = @ + 1]

\* Mutant of Admit: counts whoever comes, a member or not.
AdmitCounting(a, byLink) ==
    /\ member' = IF a \in Members THEN member ELSE [member EXCEPT ![a] = Reader]
    /\ chan' = [chan EXCEPT !.count = @ + 1, !.uses = IF byLink THEN @ + 1 ELSE @]

Admit(a, byLink) ==
    IF a \in Members
    THEN UNCHANGED <<member, chan>>
    ELSE /\ member' = [member EXCEPT ![a] = Reader]
         /\ chan' = [chan EXCEPT !.count = @ + 1, !.uses = IF byLink THEN @ + 1 ELSE @]

-----------------------------------------------------------------------------
(* Joining *)

LinkIsGood ==
    /\ chan.expiry # "passed"
    /\ chan.maxUses # Unlimited => chan.uses < chan.maxUses

\* Mutant of Join: whether the channel is suspended is not asked.
JoinSuspended(r, a, link) ==
    /\ ~chan.deleted
    /\ Private => link
    /\ a \notin Members
    /\ link => LinkIsGood
    /\ Begin(r, IF link /\ chan.approval THEN "knock" ELSE "join", a, a, link)

\* POST join, up to its writes: everything is read on the pool.  Who comes on a
\* link that asks first is put in the queue.
Join(r, a, link) ==
    /\ ~chan.deleted /\ ~chan.suspended
    /\ Private => link
    /\ a \notin Members
    /\ link => LinkIsGood
    /\ Begin(r, IF link /\ chan.approval THEN "knock" ELSE "join", a, a, link)

KnockRow(r) ==
    /\ req[r].op = "knock"
    /\ waiting' = waiting \cup {req[r].by}
    /\ Finish(r)
    /\ UNCHANGED <<chan, member, keyAsked, offer, official, made>>

\* INSERT ... ON CONFLICT DO NOTHING, and the counters if it inserted.
JoinTx(r) ==
    /\ req[r].op = "join"
    /\ Admit(req[r].by, req[r].link)
    /\ GoOn(r, IF req[r].by \in Members THEN "present" ELSE "joined")
    /\ UNCHANGED <<waiting, keyAsked, offer, official, made>>

\* recordKeyRequest, and noteRejoined if this request inserted the row.
JoinRecord(r) ==
    LET a == req[r].by IN
    /\ req[r].op \in {"joined", "present"}
    /\ keyAsked' = keyAsked \cup {a}
    /\ offer' = IF req[r].op = "joined" /\ official
                THEN [offer EXCEPT ![a] = "offered"] ELSE offer
    /\ Finish(r)
    /\ UNCHANGED <<chan, member, waiting, official, made>>

Approve(r, a, w) ==
    /\ May(a, "canManageInvites")
    /\ Begin(r, "approve", a, w, TRUE)

\* The queue's row and the membership change hands in one transaction.
ApproveTx(r) ==
    LET w == req[r].whom IN
    /\ req[r].op = "approve"
    /\ IF w \in waiting
       THEN Admit(w, TRUE) /\ waiting' = waiting \ {w}
       ELSE UNCHANGED <<member, chan, waiting>>
    /\ Finish(r)
    /\ UNCHANGED <<keyAsked, offer, official, made>>

Refuse(r, a, w) ==
    /\ May(a, "canManageInvites")
    /\ Begin(r, "refuse", a, w, FALSE)

RefuseRow(r) ==
    /\ req[r].op = "refuse"
    /\ waiting' = waiting \ {req[r].whom}
    /\ Finish(r)
    /\ UNCHANGED <<chan, member, keyAsked, offer, official, made>>

\* POST members: permission and the person's own settings, both read before.
Add(r, a, w) ==
    /\ May(a, "canManageMembers")
    /\ <<a, w>> \in MayAdd
    /\ Begin(r, "add", a, w, FALSE)

AddTx(r) ==
    /\ req[r].op = "add"
    /\ Admit(req[r].whom, FALSE)
    /\ Finish(r)
    /\ UNCHANGED <<waiting, keyAsked, offer, official, made>>

-----------------------------------------------------------------------------
(* Leaving and being removed *)

\* Mutant of Leave: the owner may go as well.
LeaveOwner(r, a) ==
    /\ IsMember(a)
    /\ Begin(r, "leave", a, a, FALSE)

Leave(r, a) ==
    /\ IsMember(a)
    /\ member[a].role # "owner"
    /\ Begin(r, "leave", a, a, FALSE)

\* Under the channel's lock; nothing is looked at again, and the count and the
\* epoch move whether or not the DELETE found a row.
LeaveTx(r) ==
    /\ req[r].op = "leave"
    /\ Depart(req[r].by)
    /\ GoOn(r, "left")
    /\ UNCHANGED <<waiting, keyAsked, offer, official, made>>

\* clearKeyRequestsFor and noteLeft, which updates the offer's row if there is one.
LeaveRecord(r) ==
    LET a == req[r].by IN
    /\ req[r].op = "left"
    /\ keyAsked' = keyAsked \ {a}
    /\ offer' = IF official /\ offer[a] = "offered" THEN [offer EXCEPT ![a] = "left"] ELSE offer
    /\ Finish(r)
    /\ UNCHANGED <<chan, member, waiting, official, made>>

Remove(r, a, w) ==
    /\ May(a, "canManageMembers")
    /\ w \in Members
    /\ member[w].role # "owner"
    /\ WithinAuthority(member[a].perms, member[w].perms)
    /\ Begin(r, "remove", a, w, FALSE)

\* Only that there is still a row is checked again under the lock.
RemoveTx(r) ==
    LET w == req[r].whom IN
    /\ req[r].op = "remove"
    /\ IF w \in Members
       THEN Depart(w) /\ GoOn(r, "removed")
       ELSE UNCHANGED <<chan, member>> /\ Finish(r)
    /\ UNCHANGED <<waiting, keyAsked, offer, official, made>>

RemoveRecord(r) ==
    /\ req[r].op = "removed"
    /\ keyAsked' = keyAsked \ {req[r].whom}
    /\ Finish(r)
    /\ UNCHANGED <<chan, member, waiting, offer, official, made>>

-----------------------------------------------------------------------------
(* Roles *)

\* Mutant of SetRole: what the other one holds already is not compared.
SetRoleOfAnyone(a, w, role, asked) ==
    LET granted == IF role = "subscriber" THEN {} ELSE asked IN
    /\ a # w
    /\ May(a, IF role = "admin" THEN "canAppointAdmins" ELSE "canManageMembers")
    /\ w \in Members /\ member[w].role # "owner"
    /\ WithinAuthority(member[a].perms, granted)
    /\ member' = [member EXCEPT ![w] = [role |-> role, perms |-> granted]]
    /\ AtOnce
    /\ UNCHANGED <<chan, waiting, keyAsked, offer, official, req>>

\* PUT role: all of it inside the transaction that holds the channel's lock.
SetRole(a, w, role, asked) ==
    LET granted == IF role = "subscriber" THEN {} ELSE asked IN
    /\ a # w
    /\ May(a, IF role = "admin" THEN "canAppointAdmins" ELSE "canManageMembers")
    /\ w \in Members /\ member[w].role # "owner"
    /\ WithinAuthority(member[a].perms, member[w].perms)
    /\ WithinAuthority(member[a].perms, granted)
    /\ member' = [member EXCEPT ![w] = [role |-> role, perms |-> granted]]
    /\ AtOnce
    /\ UNCHANGED <<chan, waiting, keyAsked, offer, official, req>>

\* Mutant of Transfer: the one who hands over gets the role groups have.
TransferToMember(a, w) ==
    /\ a # w
    /\ IsMember(a) /\ member[a].role = "owner"
    /\ IsMember(w)
    /\ member' = [member EXCEPT ![w] = Owner, ![a] = [role |-> "member", perms |-> {}]]
    /\ chan' = [chan EXCEPT !.owner = w]
    /\ AtOnce
    /\ UNCHANGED <<waiting, keyAsked, offer, official, req>>

\* Mutant of Transfer: the one who hands over keeps the role.
TransferSharing(a, w) ==
    /\ a # w
    /\ IsMember(a) /\ member[a].role = "owner"
    /\ IsMember(w)
    /\ member' = [member EXCEPT ![w] = Owner]
    /\ chan' = [chan EXCEPT !.owner = w]
    /\ Overtake({r \in Requests : req[r].op \in {"leave", "remove"} /\ req[r].whom = w})
    /\ AtOnce
    /\ UNCHANGED <<waiting, keyAsked, offer, official>>

\* POST owner: likewise.  A removal or a departure of the new owner that was
\* checked before is overtaken.
Transfer(a, w) ==
    /\ a # w
    /\ IsMember(a) /\ member[a].role = "owner"
    /\ IsMember(w)
    /\ member' = [member EXCEPT ![w] = Owner,
                                ![a] = [role |-> "admin",
                                        perms |-> Permissions \ {"canDeleteChannel"}]]
    /\ chan' = [chan EXCEPT !.owner = w]
    /\ Overtake({r \in Requests : req[r].op \in {"leave", "remove"} /\ req[r].whom = w})
    /\ AtOnce
    /\ UNCHANGED <<waiting, keyAsked, offer, official>>

-----------------------------------------------------------------------------
(* The link and the channel itself *)

SetInvite(r, a) ==
    /\ May(a, "canManageInvites")
    /\ Begin(r, "invite", a, a, FALSE)

\* Each of the three settings is left alone or replaced.
SetInviteRow(r, limit, ask, expiry) ==
    /\ req[r].op = "invite"
    /\ expiry \in {"none", "set", chan.expiry}
    /\ chan' = IF chan.deleted THEN chan
               ELSE [chan EXCEPT !.maxUses = limit, !.approval = ask, !.expiry = expiry]
    /\ Finish(r)
    /\ UNCHANGED <<member, waiting, keyAsked, offer, official, made>>

RotateInvite(r, a) ==
    /\ May(a, "canManageInvites")
    /\ Begin(r, "rotate", a, a, FALSE)

RotateInviteRow(r) ==
    /\ req[r].op = "rotate"
    /\ chan' = IF chan.deleted THEN chan ELSE [chan EXCEPT !.code = @ + 1, !.uses = 0]
    /\ Finish(r)
    /\ UNCHANGED <<member, waiting, keyAsked, offer, official, made>>

\* invite_expires_at passes.
InviteExpires ==
    /\ chan.expiry = "set"
    /\ chan' = [chan EXCEPT !.expiry = "passed"]
    /\ AtOnce
    /\ UNCHANGED <<member, waiting, keyAsked, offer, official, req>>

DeleteChannel(r, a) ==
    /\ May(a, "canDeleteChannel")
    /\ Begin(r, "delete", a, a, FALSE)

DeleteChannelRow(r) ==
    /\ req[r].op = "delete"
    /\ chan' = [chan EXCEPT !.deleted = TRUE]
    /\ Finish(r)
    /\ UNCHANGED <<member, waiting, keyAsked, offer, official, made>>

\* An operator suspends a public channel (admin.ts); a join checked before is
\* overtaken.
Suspend ==
    /\ ~Private /\ ~chan.deleted /\ ~chan.suspended
    /\ chan' = [chan EXCEPT !.suspended = TRUE]
    /\ Overtake({r \in Requests : req[r].op = "join"})
    /\ AtOnce
    /\ UNCHANGED <<member, waiting, keyAsked, offer, official>>

Reinstate ==
    /\ ~chan.deleted /\ chan.suspended
    /\ chan' = [chan EXCEPT !.suspended = FALSE]
    /\ AtOnce
    /\ UNCHANGED <<member, waiting, keyAsked, offer, official, req>>

-----------------------------------------------------------------------------
(* The official channel *)

Designate ==
    /\ ~Private /\ ~official /\ ~chan.deleted
    /\ official' = TRUE
    /\ AtOnce
    /\ UNCHANGED <<chan, member, waiting, keyAsked, offer, req>>

ClearOfficial ==
    /\ official
    /\ official' = FALSE
    /\ AtOnce
    /\ UNCHANGED <<chan, member, waiting, keyAsked, offer, req>>

\* ensureSubscribed at a sign-in: the offer's row is claimed first.
Offer(r, a) ==
    /\ official
    /\ offer[a] = "none"
    /\ req[r].op = "idle" /\ AtOnce
    /\ offer' = [offer EXCEPT ![a] = "offered"]
    /\ req' = [req EXCEPT ![r] = [op |-> "subscribe", by |-> a, whom |-> a,
                                  link |-> FALSE, late |-> FALSE]]
    /\ UNCHANGED <<chan, member, waiting, keyAsked, official>>

\* ... then the membership, and in a third statement the count.
SubscribeRow(r) ==
    LET a == req[r].by IN
    /\ req[r].op = "subscribe"
    /\ IF a \in Members \/ chan.deleted
       THEN UNCHANGED member /\ Finish(r)
       ELSE member' = [member EXCEPT ![a] = Reader] /\ GoOn(r, "count")
    /\ UNCHANGED <<chan, waiting, keyAsked, offer, official, made>>

SubscribeCount(r) ==
    /\ req[r].op = "count"
    /\ chan' = [chan EXCEPT !.count = @ + 1]
    /\ Finish(r)
    /\ UNCHANGED <<member, waiting, keyAsked, offer, official, made>>

-----------------------------------------------------------------------------

Checked(r) ==
    \/ \E a \in Accounts :
         \/ \E link \in BOOLEAN : Join(r, a, link)
         \/ Leave(r, a) \/ Offer(r, a)
         \/ SetInvite(r, a) \/ RotateInvite(r, a) \/ DeleteChannel(r, a)
    \/ \E a, w \in Accounts :
         Remove(r, a, w) \/ Add(r, a, w) \/ Approve(r, a, w) \/ Refuse(r, a, w)

Continues(r) ==
    \/ KnockRow(r) \/ JoinTx(r) \/ JoinRecord(r) \/ ApproveTx(r) \/ RefuseRow(r) \/ AddTx(r)
    \/ LeaveTx(r) \/ LeaveRecord(r) \/ RemoveTx(r) \/ RemoveRecord(r)
    \/ RotateInviteRow(r) \/ DeleteChannelRow(r)
    \/ SubscribeRow(r) \/ SubscribeCount(r)
    \/ \E limit \in Limits, ask \in BOOLEAN, expiry \in {"none", "set", "passed"} :
         SetInviteRow(r, limit, ask, expiry)

Next ==
    \/ \E r \in Requests : Checked(r) \/ Continues(r)
    \/ \E a, w \in Accounts :
         \/ Transfer(a, w)
         \/ SetRole(a, w, "subscriber", {})
         \/ \E g \in Grants \cup {AdminDefault} : SetRole(a, w, "admin", g)
    \/ InviteExpires \/ Suspend \/ Reinstate \/ Designate \/ ClearOfficial

Spec == Init /\ [][Next]_vars

-----------------------------------------------------------------------------
(* What is promised *)

Running(op) == {r \in Requests : req[r].op = op}

\* A channel has at most one owner, and it is the account its own row names:
\* however transfers and role changes interleave, two people never both hold
\* the rights nobody can take away (POST owner, PUT role).
OneOwner == \A a \in Accounts : member[a].role = "owner" => a = chan.owner

\* The owner's row goes only if the request that deleted it had passed its
\* checks before that account was made owner: "cannot be removed, and cannot
\* walk out" (docs/security-model.md) is broken by that race and nothing else.
OwnerGoesOnlyOvertaken ==
    [][\A a \in Accounts :
         member[a].role = "owner" /\ member'[a].role = "none"
           => \E r \in Running("leave") \cup Running("remove") :
                req[r].late /\ req[r].whom = a]_vars

\* What the documentation says without that exception: as long as the channel
\* exists its owner is in it (docs/security-model.md:503).
AlwaysOwned == \E a \in Accounts : member[a].role = "owner"

\* Of a channel that was never offered at sign-in the number of members shown
\* is never more than there are.  It may be less: leaving decrements it again
\* when a removal came first, and stops at 0.  (The official subscription counts
\* in a statement of its own, so departures in between can leave it too high.)
CountNeverOverstates ==
    (\A a \in Accounts : offer[a] = "none") => chan.count <= Cardinality(Members)

\* Nobody's rights change but by the hand of somebody else who, at that moment,
\* holds all they had and all they get, and the right the change takes.  With
\* two admins who demote each other at once the second one finds its own rights
\* gone (PUT role checks under the lock).  A transfer is the owner's own act.
RightsComeFromAbove ==
    [][chan.owner = chan.owner' =>
         \A a \in Members : member[a] # member'[a] /\ member'[a].role # "none" =>
           \E b \in Members \ {a} :
             /\ WithinAuthority(member[b].perms, member[a].perms \cup member'[a].perms)
             /\ (IF member'[a].role = "admin" THEN "canAppointAdmins"
                                             ELSE "canManageMembers") \in member[b].perms]_vars

\* A suspended channel gains members only by an administrator's hand (somebody
\* waiting is let in, somebody is added) or the operator's own subscription, or
\* through a join that was past its checks when the suspension came.
SuspensionClosesTheDoor ==
    [][chan.suspended =>
         \A a \in Accounts \ Members : member'[a].role # "none" =>
           \/ \E r \in Running("add") : req[r].whom = a
           \/ \E r \in Running("approve") : req[r].whom = a /\ a \in waiting
           \/ \E r \in Running("subscribe") : req[r].by = a
           \/ \E r \in Running("join") : req[r].by = a /\ req[r].late]_vars

=============================================================================
