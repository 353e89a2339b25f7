----------------------------- MODULE Operators -----------------------------
(***************************************************************************)
(* The operators of a server: their roles, sessions and second factors.    *)
(* src/server/src/routes/admin.ts and services/admin_auth.ts.              *)
(*                                                                         *)
(* A request resolves its session, which reads the role as it is now, and  *)
(* then reads, counts and writes in statements of their own; hashing takes *)
(* its time in between.  Roles other than owner differ in what they may    *)
(* show and moderate, never in what they may do to operators: one stands   *)
(* for them.  The log of what was done is written and never read, and left *)
(* out.  A refusal changes nothing and is not an action.                   *)
(***************************************************************************)
EXTENDS Naturals, FiniteSets

CONSTANTS
    People,       \* operators there may be
    First,        \* the one create-admin made
    MaxSessions,  \* bound: sign-ins ever
    Requests,     \* concurrent requests
    MaxRequests   \* bound: requests ever made

VARIABLES
    operator,  \* rows of `admin_users`
    signed,    \* rows of `admin_sessions`, in the order they came
    sessions,  \* how many there are
    req,       \* requests between two of their steps
    made,      \* requests made so far
    \* history
    era,       \* how often an operator's sessions have had to end
    opened,    \* the era a session's sign-in had seen, or that it brought about
    stray,     \* sessions whose sign-in overlapped the end of all the others
    minted,    \* secrets there have been
    proven,    \* those a code has been shown for
    raced      \* an owner went by a count another removal had overtaken

vars == <<operator, signed, sessions, req, made, era, opened, stray, minted, proven, raced>>
history == <<era, opened, stray, minted, proven, raced>>

Nobody == [known |-> FALSE, role |-> "other", disabled |-> FALSE, secret |-> 0, enabled |-> FALSE]
Roles  == {"owner", "other"}
Ids    == 1..MaxSessions

Idle == [op |-> "idle", as |-> 0, who |-> First, role |-> "same", turn |-> "same",
         secret |-> 0, late |-> FALSE]
Ops  == {"idle", "login", "create", "patch", "row", "end", "password", "others",
         "setup", "enable"}

Running(ops) == {r \in Requests : req[r].op \in ops}

IsOwner(o) == operator[o].known /\ operator[o].role = "owner" /\ ~operator[o].disabled
Owners     == {o \in People : IsOwner(o)}

\* resolveAdminSession
Usable(s) == signed[s].live /\ ~operator[signed[s].of].disabled

\* requireAdmin, and actor for 'operators'
MayOperators(s) == Usable(s) /\ operator[signed[s].of].role = "owner"

TypeOK ==
    /\ operator \in [People -> [known : BOOLEAN, role : Roles, disabled : BOOLEAN,
                                secret : 0..minted, enabled : BOOLEAN]]
    /\ \A o \in People : operator[o].known \/ operator[o] = Nobody
    /\ signed \in [Ids -> [of : People, live : BOOLEAN]] /\ sessions \in 1..MaxSessions
    /\ req \in [Requests -> [op : Ops, as : Ids \cup {0}, who : People, role : Roles \cup {"same"},
                             turn : {"same", "off", "on"}, secret : 0..minted, late : BOOLEAN]]
    /\ made \in 0..MaxRequests /\ raced \in BOOLEAN
    /\ era \in [People -> 0..MaxRequests] /\ opened \in [Ids -> 0..MaxRequests]
    /\ stray \subseteq Ids /\ minted \in 0..MaxRequests /\ proven \subseteq 1..minted

\* The owner create-admin made, signed in, and others there may be by now.
Init ==
    /\ operator \in [People -> [known : BOOLEAN, role : Roles, disabled : BOOLEAN, secret : {0},
                                enabled : BOOLEAN]]
    /\ \A o \in People : /\ ~operator[o].disabled /\ ~operator[o].enabled
                         /\ operator[o].known \/ operator[o] = Nobody
    /\ IsOwner(First)
    /\ signed = [s \in Ids |-> [of |-> First, live |-> s = 1]] /\ sessions = 1
    /\ req = [r \in Requests |-> Idle] /\ made = 0
    /\ era = [o \in People |-> 0] /\ opened = [s \in Ids |-> 0] /\ stray = {}
    /\ minted = 0 /\ proven = {} /\ raced = FALSE

-----------------------------------------------------------------------------
(* Requests *)

Begin(r, started) ==
    /\ req[r].op = "idle" /\ made < MaxRequests
    /\ made' = made + 1
    /\ req' = [req EXCEPT ![r] = started]

\* The request goes on as q, and those in S were checked before what it did.
Proceed(r, q, S) ==
    req' = [s \in Requests |-> IF s = r THEN q
                               ELSE IF s \in S THEN [req[s] EXCEPT !.late = TRUE]
                               ELSE req[s]]

Asked(op, s) == [Idle EXCEPT !.op = op, !.as = s, !.who = signed[s].of]

\* Sign-ins of o that have read its row and not yet written a session.
SigningIn(o) == {r \in Running({"login"}) : req[r].who = o}

-----------------------------------------------------------------------------
(* Signing in and out *)

\* login: the row is read once; the right password, and a code where one is due.
Login(r, o) ==
    /\ operator[o].known /\ ~operator[o].disabled
    /\ Begin(r, [Idle EXCEPT !.op = "login", !.who = o])
    /\ UNCHANGED <<operator, signed, sessions, history>>

LoginSession(r) ==
    /\ req[r].op = "login" /\ sessions < MaxSessions
    /\ sessions' = sessions + 1
    /\ signed' = [signed EXCEPT ![sessions + 1] = [of |-> req[r].who, live |-> TRUE]]
    /\ opened' = [opened EXCEPT ![sessions + 1] = era[req[r].who]]
    /\ stray' = IF req[r].late THEN stray \cup {sessions + 1} ELSE stray
    /\ Proceed(r, Idle, {})
    /\ UNCHANGED <<operator, made, era, minted, proven, raced>>

\* DELETE current
Logout(s) ==
    /\ Usable(s) /\ made < MaxRequests /\ made' = made + 1
    /\ signed' = [signed EXCEPT ![s].live = FALSE]
    /\ UNCHANGED <<operator, sessions, req, history>>

\* POST me/password: the old one is verified ...
ChangePassword(r, s) ==
    /\ Usable(s)
    /\ Begin(r, Asked("password", s))
    /\ UNCHANGED <<operator, signed, sessions, history>>

\* ... the new one written ...
PasswordRow(r) ==
    LET o == req[r].who IN
    /\ req[r].op = "password"
    /\ era' = [era EXCEPT ![o] = @ + 1]
    /\ opened' = [opened EXCEPT ![req[r].as] = era[o] + 1]
    /\ Proceed(r, [req[r] EXCEPT !.op = "others"], SigningIn(o))
    /\ UNCHANGED <<operator, signed, sessions, made, stray, minted, proven, raced>>

\* ... and every other session ended.
EndOthers(r) ==
    /\ req[r].op = "others"
    /\ signed' = [s \in Ids |-> [signed[s] EXCEPT !.live = @ /\ (signed[s].of # req[r].who \/ s = req[r].as)]]
    /\ Proceed(r, Idle, {})
    /\ UNCHANGED <<operator, sessions, made, history>>

-----------------------------------------------------------------------------
(* The second factor *)

TotpSetup(r, s) ==
    /\ Usable(s) /\ ~operator[signed[s].of].enabled
    /\ Begin(r, Asked("setup", s))
    /\ UNCHANGED <<operator, signed, sessions, history>>

TotpSetupRow(r) ==
    /\ req[r].op = "setup"
    /\ minted' = minted + 1
    /\ operator' = [operator EXCEPT ![req[r].who].secret = minted + 1, ![req[r].who].enabled = FALSE]
    /\ Proceed(r, Idle, {q \in Running({"enable"}) : req[q].who = req[r].who})
    /\ UNCHANGED <<signed, sessions, made, era, opened, stray, proven, raced>>

\* A code of the secret in the row that was read.
TotpEnable(r, s) ==
    LET secret == operator[signed[s].of].secret IN
    /\ Usable(s) /\ secret # 0
    /\ Begin(r, [Asked("enable", s) EXCEPT !.secret = secret])
    /\ proven' = proven \cup {secret}
    /\ UNCHANGED <<operator, signed, sessions, era, opened, stray, minted, raced>>

TotpEnableRow(r) ==
    /\ req[r].op = "enable"
    /\ operator' = [operator EXCEPT ![req[r].who].enabled = TRUE]
    /\ Proceed(r, Idle, {q \in Running({"setup"}) : req[q].who = req[r].who})
    /\ UNCHANGED <<signed, sessions, made, history>>

-----------------------------------------------------------------------------
(* Operators *)

\* POST operators: hashing takes its time between the check and the INSERT.
Create(r, s, o, role) ==
    /\ MayOperators(s)
    /\ Begin(r, [Asked("create", s) EXCEPT !.who = o, !.role = role])
    /\ UNCHANGED <<operator, signed, sessions, history>>

\* A name that is taken is refused.
CreateRow(r) ==
    LET o == req[r].who IN
    /\ req[r].op = "create"
    /\ operator' = IF operator[o].known THEN operator
                   ELSE [operator EXCEPT ![o] = [Nobody EXCEPT !.known = TRUE, !.role = req[r].role]]
    /\ Proceed(r, Idle, {})
    /\ UNCHANGED <<signed, sessions, made, history>>

\* PATCH operators: another's role or disabled_at, or one's own if nothing is lost.
Patch(r, s, o, role, turn) ==
    /\ MayOperators(s) /\ operator[o].known
    /\ role # "same" \/ turn # "same"
    /\ o = signed[s].of => turn # "off" /\ role # "other"
    /\ Begin(r, [Asked("patch", s) EXCEPT !.who = o, !.role = role, !.turn = turn])
    /\ UNCHANGED <<operator, signed, sessions, history>>

\* Mutant of PatchCheck: assertAnotherOwnerRemains counts the target too.
PatchCheckAll(r) ==
    /\ req[r].op = "patch"
    /\ IF operator[req[r].who].role = "owner" /\ (req[r].role = "other" \/ req[r].turn = "off") /\ Owners = {}
       THEN Proceed(r, Idle, {}) ELSE Proceed(r, [req[r] EXCEPT !.op = "row"], {})
    /\ UNCHANGED <<operator, signed, sessions, made, history>>

\* adminById, and for an owner who would be one no more assertAnotherOwnerRemains.
PatchCheck(r) ==
    LET o    == req[r].who
        goes == operator[o].role = "owner" /\ (req[r].role = "other" \/ req[r].turn = "off")
    IN
    /\ req[r].op = "patch"
    /\ IF goes /\ Owners \ {o} = {}
       THEN Proceed(r, Idle, {})
       ELSE Proceed(r, [req[r] EXCEPT !.op = "row"], {})
    /\ UNCHANGED <<operator, signed, sessions, made, history>>

\* The UPDATE: what was not asked for stays as it is by now.
PatchRow(r) ==
    LET o     == req[r].who
        role  == IF req[r].role = "same" THEN operator[o].role ELSE req[r].role
        shut  == CASE req[r].turn = "off" -> TRUE
                   [] req[r].turn = "on" -> FALSE
                   [] OTHER -> operator[o].disabled
        goes  == IsOwner(o) /\ (role # "owner" \/ shut)
    IN
    /\ req[r].op = "row"
    /\ operator' = [operator EXCEPT ![o].role = role, ![o].disabled = shut]
    /\ era' = [era EXCEPT ![o] = @ + 1]
    /\ raced' = (raced \/ (goes /\ req[r].late))
    /\ Proceed(r, [req[r] EXCEPT !.op = "end"],
               SigningIn(o) \cup (IF goes THEN Running({"row"}) ELSE {}))
    /\ UNCHANGED <<signed, sessions, made, opened, stray, minted, proven>>

\* Mutant of EndAll: an operator that was only disabled keeps the sessions.
EndAllOfDemoted(r) ==
    /\ req[r].op = "end"
    /\ signed' = [s \in Ids |-> [signed[s] EXCEPT !.live = @ /\ (signed[s].of # req[r].who \/ req[r].role = "same")]]
    /\ Proceed(r, Idle, {})
    /\ UNCHANGED <<operator, sessions, made, history>>

\* revokeAllAdminSessions
EndAll(r) ==
    /\ req[r].op = "end"
    /\ signed' = [s \in Ids |-> [signed[s] EXCEPT !.live = @ /\ signed[s].of # req[r].who]]
    /\ Proceed(r, Idle, {})
    /\ UNCHANGED <<operator, sessions, made, history>>

-----------------------------------------------------------------------------

Checked(r) ==
    \/ \E o \in People : Login(r, o)
    \/ \E s \in Ids :
         \/ ChangePassword(r, s) \/ TotpSetup(r, s) \/ TotpEnable(r, s)
         \/ \E o \in People :
              \/ \E q \in Roles : Create(r, s, o, q)
              \/ \E q \in Roles \cup {"same"}, t \in {"same", "off", "on"} : Patch(r, s, o, q, t)

Continues(r) ==
    \/ LoginSession(r) \/ PasswordRow(r) \/ EndOthers(r) \/ TotpSetupRow(r) \/ TotpEnableRow(r)
    \/ CreateRow(r) \/ PatchCheck(r) \/ PatchRow(r) \/ EndAll(r)

Next ==
    \/ \E r \in Requests : Checked(r) \/ Continues(r)
    \/ \E s \in Ids : Logout(s)

Spec == Init /\ [][Next]_vars

-----------------------------------------------------------------------------
(* What is promised *)

\* "A server nobody can administer" (admin.ts:714) comes about only by two who
\* remove each other at once, each counting the one the other removes.
AnOwnerRemainsUnlessRaced == Owners = {} => raced

\* An operator who was disabled or given another role, or who changed the
\* password, has no session left from before ("exactly the window somebody being
\* demoted would use", admin.ts:718), but for one whose sign-in overlapped it.
StandingSignIns ==
    \A s \in Ids \ stray :
        Usable(s) /\ opened[s] # era[signed[s].of] =>
            \E r \in Running({"end", "others"}) :
                req[r].who = signed[s].of /\ (req[r].op = "end" \/ req[r].as # s)

\* A factor is switched on only with a secret somebody has shown a code of, and
\* never off again or to another secret, unless a set-up and a proof overlap.
FactorChangesByProof ==
    [][\A o \in People :
         LET row == operator[o]  new == operator'[o]  late(op) == \E r \in Running({op}) : req[r].late
         IN  /\ new.enabled /\ ~row.enabled => new.secret \in proven \/ late("enable")
             /\ row.enabled => (new.enabled /\ new.secret = row.secret) \/ late("setup")]_vars

=============================================================================
