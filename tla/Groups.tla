------------------------------- MODULE Groups -------------------------------
(***************************************************************************)
(* Who is in a group, who administers it and who still waits for its key:  *)
(* src/server/src/routes/groups.ts, services/group_membership.ts and       *)
(* services/key_requests.ts.                                               *)
(*                                                                         *)
(* One group.  No route takes a lock: a request reads what its checks need *)
(* on the pool, one statement after another, and writes in statements of   *)
(* their own; an INSERT of a member passes the guard of migration 032.     *)
(* A refusal changes nothing and is not an action.                         *)
(***************************************************************************)
EXTENDS Naturals, FiniteSets, Sequences

CONSTANTS
    Accounts,    \* people
    Creator,     \* of them, the one who made the group
    Willing,     \* those whose settings and blocks let the admins add them
    MaxMembers,  \* MAX_MEMBERS, and the guard's number
    Requests,    \* concurrent requests
    MaxRequests  \* bound: requests ever made

VARIABLES
    role,      \* rows of `group_members`: "none" without one
    since,     \* members in the order of added_at
    code,      \* groups.invite_code, numbered
    deleted,   \* groups.deleted_at is set
    keyAsked,  \* rows of `key_requests`
    req,       \* requests between two of their steps
    made,      \* requests made so far
    \* history
    unkeyed,   \* joined by the link and not yet sent the key
    wiped,     \* lost their request to the clean-up after an earlier removal
    raced,     \* an administrator stepped down or was demoted on a stale check
    emptied    \* the last member has left

vars == <<role, since, code, deleted, keyAsked, req, made, unkeyed, wiped, raced,
          emptied>>
history == <<unkeyed, wiped, raced, emptied>>

Members == {a \in Accounts : role[a] # "none"}
Administrators == {a \in Accounts : role[a] = "admin"}

\* requireGroupMembership
IsMember(a) == ~deleted /\ a \in Members
IsAdmin(a)  == ~deleted /\ a \in Administrators

Idle == [op |-> "idle", by |-> Creator, whom |-> Creator, to |-> "member", late |-> FALSE]
Ops  == {"idle", "add", "join", "ask", "remove", "clear", "promote", "role", "rotate",
         "acknowledge", "delete"}

TypeOK ==
    /\ role \in [Accounts -> {"none", "member", "admin"}]
    /\ {since[i] : i \in DOMAIN since} = Members /\ Len(since) = Cardinality(Members)
    /\ code \in 0..MaxRequests /\ made \in 0..MaxRequests
    /\ deleted \in BOOLEAN /\ raced \in BOOLEAN /\ emptied \in BOOLEAN
    /\ keyAsked \subseteq Accounts /\ unkeyed \subseteq Accounts /\ wiped \subseteq Accounts
    /\ req \in [Requests -> [op : Ops, by : Accounts, whom : Accounts,
                             to : {"member", "admin"}, late : BOOLEAN]]

\* POST groups: the creator, and of the people named those who may be added.
\* Whether they have been made administrators since is left open.
Init ==
    /\ \E invited \in SUBSET (Willing \ {Creator}) :
         /\ Cardinality(invited) < MaxMembers
         /\ role \in [Accounts -> {"none", "member", "admin"}]
         /\ Members = invited \cup {Creator} /\ role[Creator] = "admin"
    /\ since \in {s \in [1..Cardinality(Members) -> Members] :
                    s[1] = Creator /\ {s[i] : i \in DOMAIN s} = Members}
    /\ code = 0 /\ deleted = FALSE /\ keyAsked = {}
    /\ req = [r \in Requests |-> Idle] /\ made = 0
    /\ unkeyed = {} /\ wiped = {} /\ raced = FALSE /\ emptied = FALSE

-----------------------------------------------------------------------------
(* Requests *)

Begin(r, op, a, w, to) ==
    /\ req[r].op = "idle"
    /\ made < MaxRequests /\ made' = made + 1
    /\ req' = [req EXCEPT ![r] = [Idle EXCEPT !.op = op, !.by = a, !.whom = w, !.to = to]]
    /\ UNCHANGED <<role, since, code, deleted, keyAsked, history>>

\* The request goes on, and those in S were checked before what it did.
Proceed(r, op, S) ==
    req' = [q \in Requests |->
              IF q = r THEN (IF op = "idle" THEN Idle ELSE [req[r] EXCEPT !.op = op])
              ELSE IF q \in S THEN [req[q] EXCEPT !.late = TRUE] ELSE req[q]]

Running(ops) == {r \in Requests : req[r].op \in ops}

\* Mutant of Enter: without the guard of migration 032.
EnterUnguarded(r, a, next) ==
    IF a \in Members
    THEN UNCHANGED <<role, since>> /\ Proceed(r, next, {})
    ELSE role' = [role EXCEPT ![a] = "member"] /\ since' = Append(since, a) /\ Proceed(r, next, {})

\* INSERT ... ON CONFLICT DO NOTHING, under the guard's lock: a group that has
\* filled up since the request looked leaves the newcomer out without a word.
Enter(r, a, next) ==
    /\ IF a \notin Members /\ Cardinality(Members) < MaxMembers
       THEN role' = [role EXCEPT ![a] = "member"] /\ since' = Append(since, a)
       ELSE UNCHANGED <<role, since>>
    /\ Proceed(r, next, {})

-----------------------------------------------------------------------------
(* In *)

Add(r, a, w) ==
    /\ IsAdmin(a)
    /\ Cardinality(Members) + 1 <= MaxMembers
    /\ Begin(r, "add", a, w, "member")

\* The INSERT selects those who are willing, and leaves a row that is there.
AddRow(r) ==
    LET w == req[r].whom IN
    /\ req[r].op = "add"
    /\ IF w \in Willing THEN Enter(r, w, "idle")
                         ELSE UNCHANGED <<role, since>> /\ Proceed(r, "idle", {})
    /\ UNCHANGED <<code, deleted, keyAsked, made, history>>

\* POST join: the code, then the size.
Join(r, a) ==
    /\ ~deleted
    /\ Cardinality(Members) < MaxMembers
    /\ Begin(r, "join", a, a, "member")

\* Mutant of JoinRow: does not ask for the key.
JoinRowSilent(r) ==
    LET a == req[r].by IN
    /\ req[r].op = "join"
    /\ Enter(r, a, "idle")
    /\ unkeyed' = IF a \notin Members /\ role'[a] # "none" THEN unkeyed \cup {a} ELSE unkeyed
    /\ UNCHANGED <<code, deleted, keyAsked, made, wiped, raced, emptied>>

JoinRow(r) ==
    LET a == req[r].by IN
    /\ req[r].op = "join"
    /\ Enter(r, a, "ask")
    /\ unkeyed' = IF a \notin Members /\ role'[a] # "none" THEN unkeyed \cup {a} ELSE unkeyed
    /\ UNCHANGED <<code, deleted, keyAsked, made, wiped, raced, emptied>>

\* POST key-requests; a join goes on the same way.
AskForKey(r, a) == IsMember(a) /\ Begin(r, "ask", a, a, "member")

\* recordKeyRequest, and a wake-up for those who hold the key.
AskRow(r) ==
    /\ req[r].op = "ask"
    /\ keyAsked' = keyAsked \cup {req[r].by}
    /\ wiped' = wiped \ {req[r].by}
    /\ Proceed(r, "idle", {})
    /\ UNCHANGED <<role, since, code, deleted, made, unkeyed, raced, emptied>>

\* pendingKeyRequests: those of members.
Pending == keyAsked \cap Members

\* Some holder has sent the key to somebody it finds listed, whose device says
\* so: only that device may (plugins/auth.ts).
Acknowledge(r, a) ==
    /\ IsMember(a) /\ a \in Pending /\ Members # {a}
    /\ Begin(r, "acknowledge", a, a, "member")

\* clearKeyRequest
AcknowledgeRow(r) ==
    LET w == req[r].by IN
    /\ req[r].op = "acknowledge"
    /\ keyAsked' = keyAsked \ {w}
    /\ unkeyed' = unkeyed \ {w}
    /\ Proceed(r, "idle", {})
    /\ UNCHANGED <<role, since, code, deleted, made, wiped, raced, emptied>>

-----------------------------------------------------------------------------
(* Out *)

Remove(r, a, w) ==
    /\ IF a = w THEN IsMember(a) ELSE IsAdmin(a)
    /\ Begin(r, "remove", a, w, "member")

\* The order without w.
Without(w) ==
    LET at == CHOOSE i \in DOMAIN since : since[i] = w
    IN IF w \in Members THEN SubSeq(since, 1, at - 1) \o SubSeq(since, at + 1, Len(since)) ELSE since

\* DELETE ... and 404 if there is no such row.
RemoveRow(r) ==
    LET w == req[r].whom IN
    /\ req[r].op = "remove"
    /\ role' = [role EXCEPT ![w] = "none"]
    /\ since' = Without(w)
    /\ unkeyed' = unkeyed \ {w}
    /\ emptied' = (emptied \/ Members \ {w} = {})
    /\ Proceed(r, IF w \in Members THEN "clear" ELSE "idle",
               IF w \in Administrators THEN Running({"role"}) ELSE {})
    /\ UNCHANGED <<code, deleted, keyAsked, made, wiped, raced>>

\* clearKeyRequestsFor, whoever has come back in the meantime.
RemoveClear(r) ==
    LET w == req[r].whom IN
    /\ req[r].op = "clear"
    /\ keyAsked' = keyAsked \ {w}
    /\ wiped' = IF w \in unkeyed THEN wiped \cup {w} ELSE wiped
    /\ Proceed(r, "promote", {})
    /\ UNCHANGED <<role, since, code, deleted, made, unkeyed, raced, emptied>>

\* Nobody administers the group: the one who has been in it longest does.
RemovePromote(r) ==
    /\ req[r].op = "promote"
    /\ role' = IF Administrators = {} /\ Members # {}
               THEN [role EXCEPT ![since[1]] = "admin"] ELSE role
    /\ Proceed(r, "idle", {})
    /\ UNCHANGED <<since, code, deleted, keyAsked, made, history>>

-----------------------------------------------------------------------------
(* Roles, the link, the group *)

\* Mutant of SetRole: whether somebody else is left is not asked.
SetRoleLast(r, a, w, to) ==
    /\ IsAdmin(a)
    /\ Begin(r, "role", a, w, to)

\* PUT role: who steps down must not be the only one left.
SetRole(r, a, w, to) ==
    /\ IsAdmin(a)
    /\ (a = w /\ to = "member") => Cardinality(Administrators) > 1
    /\ Begin(r, "role", a, w, to)

\* The UPDATE, or 404.  It takes an administrator away who was counted on by the
\* role changes under way.
SetRoleRow(r) ==
    LET w    == req[r].whom
        down == w \in Administrators /\ req[r].to = "member" IN
    /\ req[r].op = "role"
    /\ role' = IF w \in Members THEN [role EXCEPT ![w] = req[r].to] ELSE role
    /\ raced' = (raced \/ (down /\ req[r].late))
    /\ Proceed(r, "idle", IF down THEN Running({"role"}) ELSE {})
    /\ UNCHANGED <<since, code, deleted, keyAsked, made, unkeyed, wiped, emptied>>

Rotate(r, a) == IsAdmin(a) /\ Begin(r, "rotate", a, a, "member")

\* A join that has read the old code goes on.
RotateRow(r) ==
    /\ req[r].op = "rotate"
    /\ code' = code + 1
    /\ Proceed(r, "idle", {})
    /\ UNCHANGED <<role, since, deleted, keyAsked, made, history>>

DeleteGroup(r, a) == IsAdmin(a) /\ Begin(r, "delete", a, a, "member")

DeleteGroupRow(r) ==
    /\ req[r].op = "delete"
    /\ deleted' = TRUE
    /\ Proceed(r, "idle", {})
    /\ UNCHANGED <<role, since, code, keyAsked, made, history>>

-----------------------------------------------------------------------------

Checked(r) ==
    \E a \in Accounts :
      \/ Join(r, a) \/ AskForKey(r, a) \/ Acknowledge(r, a) \/ Rotate(r, a) \/ DeleteGroup(r, a)
      \/ \E w \in Accounts :
           \/ Add(r, a, w) \/ Remove(r, a, w)
           \/ \E to \in {"member", "admin"} : SetRole(r, a, w, to)

Continues(r) ==
    \/ AddRow(r) \/ JoinRow(r) \/ AskRow(r) \/ AcknowledgeRow(r)
    \/ RemoveRow(r) \/ RemoveClear(r) \/ RemovePromote(r)
    \/ SetRoleRow(r) \/ RotateRow(r) \/ DeleteGroupRow(r)

Next == \E r \in Requests : Checked(r) \/ Continues(r)

Spec == Init /\ [][Next]_vars

-----------------------------------------------------------------------------
(* What is promised *)

\* A group with members has an administrator, or a removal is about to promote
\* one ("never strand a group without an admin").  Two things break it: two who
\* step down at once, each counting the other, and a join by the link after the
\* last member has left, for nobody is promoted but by a removal.
AdministeredUnlessRaced ==
    Members # {} /\ Administrators = {} =>
        raced \/ emptied \/ Running({"clear", "promote"}) # {}

\* The same without the exceptions, as groups.ts:348 has it.
NeverStranded ==
    Members # {} /\ Administrators = {} => Running({"clear", "promote"}) # {}

\* However many look at the size at once, a group never has more members than it
\* may hold ("COUNT -> INSERT is not atomic", migration 032).
NeverOverfull == Cardinality(Members) <= MaxMembers

\* Whoever came in by the link and has not had the key is on the list the
\* holders answer, or about to be: only the clean-up after an earlier removal
\* takes a request away that was made since.
WaitingIsListed ==
    \A a \in unkeyed : \/ a \in Pending
                       \/ \E r \in Running({"ask"}) : req[r].by = a
                       \/ a \in wiped

=============================================================================
