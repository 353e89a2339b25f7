------------------------------ MODULE Accounts ------------------------------
(***************************************************************************)
(* Who is signed in to an account: its password, its second factor, its    *)
(* duress code, its devices with their sessions, and the licence that says *)
(* how many there may be.  src/server/src/routes/accounts.ts,              *)
(* services/accounts.ts, services/sessions.ts, services/devices.ts,        *)
(* services/licenses.ts, plugins/auth.ts.                                  *)
(*                                                                         *)
(* One account.  A request reads the account's row once and checks against *)
(* what it read; hashing takes its time, and every write is a statement of *)
(* its own, by id.  Only the registration of a device and the wipe are     *)
(* transactions, the first with the account's row locked throughout.  A    *)
(* refusal changes nothing and is not an action.                           *)
(***************************************************************************)
EXTENDS Naturals, FiniteSets

CONSTANTS
    Passwords,    \* what may be typed as a password or a duress code
    None,         \* NULL
    MaxId,        \* bound: devices ever registered
    Keys,         \* licence keys, each issued for an order of its own
    Me, Others,   \* the account, and those who may redeem a key before it does
    MaxDevices,   \* licenses.max_devices, by key
    DefaultLimit, \* DEFAULT_DEVICE_LIMIT
    Requests,     \* concurrent requests
    MaxRequests   \* bound: requests ever made

ASSUME AccountsAssumption ==
    /\ MaxId \in Nat \ {0}
    /\ None \notin Passwords /\ Passwords # {}
    /\ Me \notin Others /\ None \notin Others \cup {Me}
    /\ DefaultLimit \in Nat \ {0} /\ MaxDevices \in [Keys -> Nat \ {0}]

VARIABLES
    account,  \* the row of `accounts`
    device,   \* rows of `devices`, by id
    session,  \* rows of `sessions`, by the device the sign-in registered
    licence,  \* rows of `licenses`, by key
    req,      \* requests between two of their steps
    made,     \* requests made so far
    \* history
    version,  \* how often the password has been changed
    opened,   \* the version a device's sign-in had proven, or that it set itself
    stray,    \* devices whose sign-in overlapped a revocation of all the others
    wiped,    \* devices there were when a wipe began that has been committed
    minted,   \* secrets there have been
    proven,   \* those a code has been shown for
    most      \* the highest device limit there has been

vars == <<account, device, session, licence, req, made, version, opened, stray, wiped,
          minted, proven, most>>
history == <<version, opened, stray, wiped, minted, proven, most>>

\* Ids of devices, in the order of registration.
Ids == 1..MaxId

Idle == [op |-> "idle", as |-> 0, word |-> None, secret |-> 0, id |-> 0, ver |-> 0,
         doomed |-> {}, bye |-> FALSE, late |-> FALSE]
Ops  == {"idle", "signin", "counted", "session", "password", "revoke", "end", "duress",
         "setup", "enable", "off", "wipe", "wiping", "tombstone"}

Existing == {d \in Ids : device[d].state # "none"}
Live     == {d \in Ids : device[d].state = "live"}

\* resolveSession
Usable(d) == session[d] = "live" /\ d \in Live /\ ~account.deleted

\* deviceLimitFor
Mine  == {k \in Keys : licence[k].by = Me}
Limit == IF \E k \in Mine : licence[k].status = "active"
         THEN MaxDevices[CHOOSE k \in Mine : licence[k].status = "active"]
         ELSE DefaultLimit

Running(ops) == {r \in Requests : req[r].op \in ops}

\* The row of `accounts` is locked by a registration under way.
RowLocked == Running({"counted"}) # {}

\* Rows a wipe under way has deleted and not yet committed.
Doomed == UNION {req[r].doomed : r \in Requests}

TypeOK ==
    /\ account \in [password : Passwords \cup {None}, duress : Passwords \cup {None},
                    secret : Nat, enabled : BOOLEAN, deleted : BOOLEAN]
    /\ device \in [Ids -> [state : {"none", "live", "revoked"}, index : Nat]]
    /\ session \in [Ids -> {"none", "live", "revoked"}]
    /\ licence \in [Keys -> [status : {"none", "active", "revoked"}, by : Others \cup {Me, None}]]
    /\ req \in [Requests -> [op : Ops, as : Ids \cup {0}, word : Passwords \cup {None},
                             secret : Nat, id : Ids \cup {0}, ver : Nat,
                             doomed : SUBSET Ids, bye : BOOLEAN, late : BOOLEAN]]
    /\ made \in 0..MaxRequests /\ version \in Nat /\ most \in Nat
    /\ opened \in [Ids -> Nat] /\ stray \subseteq Ids /\ wiped \subseteq Ids 
    /\ minted \in Nat /\ proven \subseteq 1..minted

\* POST accounts: the account with its first device, signed in.
Init ==
    /\ \E w \in Passwords : account = [password |-> w, duress |-> None, secret |-> 0,
                                       enabled |-> FALSE, deleted |-> FALSE]
    /\ device = [d \in Ids |-> IF d = 1 THEN [state |-> "live", index |-> 1]
                                        ELSE [state |-> "none", index |-> 0]]
    /\ session = [d \in Ids |-> IF d = 1 THEN "live" ELSE "none"]
    /\ licence = [k \in Keys |-> [status |-> "none", by |-> None]]
    /\ req = [r \in Requests |-> Idle] /\ made = 0
    /\ version = 0 /\ opened = [d \in Ids |-> 0] /\ stray = {} /\ wiped = {} /\ minted = 0 /\ proven = {}
    /\ most = DefaultLimit

-----------------------------------------------------------------------------
(* Requests *)

AtOnce == made < MaxRequests /\ made' = made + 1

Begin(r, started) ==
    /\ req[r].op = "idle" /\ AtOnce
    /\ req' = [req EXCEPT ![r] = started]
    /\ UNCHANGED <<account, device, session, licence>>

Asked(op, s) == [Idle EXCEPT !.op = op, !.as = s]

\* The request goes on as q, and those in S were checked before what it did.
Proceed(r, q, S) ==
    /\ req' = [x \in Requests |-> IF x = r THEN q
                                  ELSE IF x \in S THEN [req[x] EXCEPT !.late = TRUE] ELSE req[x]]
    /\ UNCHANGED made
Finish(r) == Proceed(r, Idle, {})

SigningIn == Running({"signin", "counted", "session"})
Password(w) == ~account.deleted /\ w = account.password

-----------------------------------------------------------------------------
(* Signing in *)

\* POST sessions: the password, and a code if there is a factor to show one of.
SignIn(r, w, code) ==
    /\ Password(w)
    /\ account.enabled /\ account.secret # 0 => code = account.secret
    /\ Begin(r, [Asked("signin", 0) EXCEPT !.ver = version])
    /\ UNCHANGED history

\* The duress code in the password's place.
SignInUnderDuress(r, w) ==
    /\ ~account.deleted /\ w # account.password /\ w = account.duress
    /\ Begin(r, Asked("wipe", 0))
    /\ UNCHANGED history

\* Mutant of SignInCount: the account's row is read without FOR UPDATE.
SignInCountUnlocked(r) ==
    /\ req[r].op = "signin"
    /\ IF Cardinality(Live) < Limit THEN Proceed(r, [req[r] EXCEPT !.op = "counted"], {})
                                    ELSE Finish(r)
    /\ UNCHANGED <<account, device, session, licence, history>>

\* registerDevice, from its SELECT ... FOR UPDATE on.
SignInCount(r) ==
    /\ req[r].op = "signin" /\ ~RowLocked
    /\ IF Cardinality(Live) < Limit THEN Proceed(r, [req[r] EXCEPT !.op = "counted"], {})
                                    ELSE Finish(r)
    /\ UNCHANGED <<account, device, session, licence, history>>

\* nextDeviceIndex counts what has been revoked, for as long as there is a row.
NextIndex ==
    1 + CHOOSE n \in 0..Cardinality(Ids) :
          /\ \A d \in Existing : device[d].index <= n
          /\ n # 0 => \E d \in Existing : device[d].index = n

\* The next id: rows that are gone keep the index they had, for the record.
IsNext(d) == device[d].index = 0 /\ \A e \in 1..(d - 1) : device[e].index # 0

\* ... to the end of its transaction.
SignInRegister(r) ==
    /\ req[r].op = "counted"
    /\ \E d \in Ids :
         /\ IsNext(d)
         /\ device' = [device EXCEPT ![d] = [state |-> "live", index |-> NextIndex]]
         /\ opened' = [opened EXCEPT ![d] = req[r].ver]
         /\ stray' = IF req[r].late THEN stray \cup {d} ELSE stray
         /\ Proceed(r, [req[r] EXCEPT !.op = "session", !.id = d], {})
    /\ UNCHANGED <<account, session, licence, version, wiped, minted, proven, most>>

\* createSession: the row hangs off the device's.
SignInSession(r) ==
    LET d == req[r].id IN
    /\ req[r].op = "session" /\ d \notin Doomed
    /\ session' = IF d \in Existing THEN [session EXCEPT ![d] = "live"] ELSE session
    /\ stray' = IF req[r].late THEN stray \cup {d} ELSE stray
    /\ Finish(r)
    /\ UNCHANGED <<account, device, licence, version, opened, wiped, minted, proven, most>>

-----------------------------------------------------------------------------
(* Signing out *)

\* DELETE sessions/current
SignOut(s) ==
    /\ Usable(s) /\ s \notin Doomed
    /\ session' = [session EXCEPT ![s] = "revoked"]
    /\ AtOnce
    /\ UNCHANGED <<account, device, licence, req, history>>

\* POST sessions/revoke-all
RevokeAll(r, s) ==
    /\ Usable(s)
    /\ Begin(r, Asked("revoke", s))
    /\ UNCHANGED history

\* Mutant of RevokeRow: also keeps the sessions of devices that are newer.
RevokeRowOlder(r) ==
    /\ req[r].op = "revoke" /\ Doomed = {}
    /\ session' = [d \in Ids |-> IF session[d] = "live" /\ d < req[r].as
                                 THEN "revoked" ELSE session[d]]
    /\ Proceed(r, Idle, SigningIn)
    /\ UNCHANGED <<account, device, licence, history>>

\* revokeAllSessions but one's own; who is still signing in has no row to revoke.
RevokeRow(r) ==
    /\ req[r].op = "revoke" /\ Doomed = {}
    /\ session' = [d \in Ids |-> IF session[d] = "live" /\ d # req[r].as
                                 THEN "revoked" ELSE session[d]]
    /\ Proceed(r, Idle, SigningIn)
    /\ UNCHANGED <<account, device, licence, history>>

\* DELETE devices/:id, and its sessions in a second statement.
RemoveDevice(r, s, d) ==
    /\ Usable(s) /\ d \in Live \ Doomed
    /\ req[r].op = "idle" /\ AtOnce
    /\ device' = [device EXCEPT ![d].state = "revoked"]
    /\ req' = [req EXCEPT ![r] = [Asked("end", s) EXCEPT !.id = d]]
    /\ UNCHANGED <<account, session, licence, history>>

RemoveDeviceSessions(r) ==
    LET d == req[r].id IN
    /\ req[r].op = "end" /\ d \notin Doomed
    /\ session' = IF session[d] = "live" THEN [session EXCEPT ![d] = "revoked"] ELSE session
    /\ Finish(r)
    /\ UNCHANGED <<account, device, licence, history>>

-----------------------------------------------------------------------------
(* The password and the duress code *)

\* POST password.  The new one may be any but is not compared with the duress code.
ChangePassword(r, s, w, new) ==
    /\ Usable(s) /\ Password(w)
    /\ Begin(r, [Asked("password", s) EXCEPT !.word = new])
    /\ UNCHANGED history

PasswordRow(r) ==
    LET s == req[r].as IN
    /\ req[r].op = "password" /\ ~RowLocked
    /\ account' = [account EXCEPT !.password = req[r].word]
    /\ version' = version + 1
    /\ opened' = [opened EXCEPT ![s] = version + 1]
    /\ Proceed(r, [req[r] EXCEPT !.op = "revoke"], {})
    /\ UNCHANGED <<device, session, licence, stray, wiped, minted, proven, most>>

\* PUT duress-code: must differ from the password that was read.
SetDuress(r, s, w, code) ==
    /\ Usable(s) /\ Password(w) /\ code # w
    /\ Begin(r, [Asked("duress", s) EXCEPT !.word = code])
    /\ UNCHANGED history

DuressRow(r) ==
    /\ req[r].op = "duress" /\ ~RowLocked
    /\ account' = [account EXCEPT !.duress = req[r].word]
    /\ Finish(r)
    /\ UNCHANGED <<device, session, licence, history>>

-----------------------------------------------------------------------------
(* The second factor *)

TotpSetup(r, s) ==
    /\ Usable(s) /\ ~account.enabled
    /\ Begin(r, Asked("setup", s))
    /\ UNCHANGED history

\* A new secret each time; setup and enable do not see each other's writes.
TotpSetupRow(r) ==
    /\ req[r].op = "setup" /\ ~RowLocked
    /\ account' = [account EXCEPT !.secret = minted + 1, !.enabled = FALSE]
    /\ minted' = minted + 1
    /\ Proceed(r, Idle, Running({"enable"}))
    /\ UNCHANGED <<device, session, licence, version, opened, stray, wiped, proven, most>>

\* Mutant of TotpEnable: any code will do.
TotpEnableUnproven(r, s, code) ==
    /\ Usable(s) /\ account.secret # 0
    /\ Begin(r, [Asked("enable", s) EXCEPT !.secret = code])
    /\ proven' = proven \cup {code}
    /\ UNCHANGED <<version, opened, stray, wiped, minted, most>>

TotpEnable(r, s, code) ==
    /\ Usable(s) /\ account.secret # 0 /\ code = account.secret
    /\ Begin(r, [Asked("enable", s) EXCEPT !.secret = code])
    /\ proven' = proven \cup {code}
    /\ UNCHANGED <<version, opened, stray, wiped, minted, most>>

\* By id: whatever secret the row holds by then.
TotpEnableRow(r) ==
    /\ req[r].op = "enable" /\ ~RowLocked
    /\ account' = [account EXCEPT !.enabled = TRUE]
    /\ Proceed(r, Idle, Running({"setup"}))
    /\ UNCHANGED <<device, session, licence, history>>

TotpOff(r, s, w) ==
    /\ Usable(s) /\ Password(w)
    /\ Begin(r, Asked("off", s))
    /\ UNCHANGED history

TotpOffRow(r) ==
    /\ req[r].op = "off" /\ ~RowLocked
    /\ account' = [account EXCEPT !.secret = 0, !.enabled = FALSE]
    /\ Proceed(r, Idle, Running({"enable"}))
    /\ UNCHANGED <<device, session, licence, history>>

-----------------------------------------------------------------------------
(* Wiping and deleting *)

\* POST wipe, from the lock screen.
Wipe(r, s, w) ==
    /\ Usable(s) /\ w = account.duress
    /\ Begin(r, Asked("wipe", s))
    /\ UNCHANGED history

\* DELETE me: the same, and then a tombstone.
DeleteAccount(r, s, w) ==
    /\ Usable(s) /\ Password(w)
    /\ Begin(r, [Asked("wipe", s) EXCEPT !.bye = TRUE])
    /\ UNCHANGED history

\* wipeAccount deletes the devices there are when its first statement runs ...
WipeDevices(r) ==
    /\ req[r].op = "wipe" /\ Doomed = {}
    /\ Proceed(r, [req[r] EXCEPT !.op = "wiping", !.doomed = Existing], {})
    /\ UNCHANGED <<account, device, session, licence, history>>

\* ... and the account's row at its end, once nobody has it locked.  Sessions go
\* with their devices.
WipeCommit(r) ==
    LET gone == req[r].doomed IN
    /\ req[r].op = "wiping" /\ ~RowLocked
    /\ device' = [d \in Ids |-> IF d \in gone THEN [device[d] EXCEPT !.state = "none"] ELSE device[d]]
    /\ session' = [d \in Ids |-> IF d \in gone THEN "none" ELSE session[d]]
    /\ account' = [account EXCEPT !.duress = None, !.secret = 0, !.enabled = FALSE]
    /\ wiped' = wiped \cup gone
    /\ Proceed(r, IF req[r].bye THEN [req[r] EXCEPT !.op = "tombstone", !.doomed = {}] ELSE Idle,
               Running({"enable"}))
    /\ UNCHANGED <<licence, version, opened, stray, minted, proven, most>>

\* deleteAccount's second statement.
Tombstone(r) ==
    /\ req[r].op = "tombstone" /\ ~RowLocked
    /\ account' = [account EXCEPT !.deleted = TRUE, !.password = None]
    /\ Finish(r)
    /\ UNCHANGED <<device, session, licence, history>>

-----------------------------------------------------------------------------
(* The licence *)

\* issueLicense for an order; a retry finds the row and gets nothing.
Issue(k) ==
    /\ licence[k].status = "none"
    /\ licence' = [licence EXCEPT ![k].status = "active"]
    /\ AtOnce
    /\ UNCHANGED <<account, device, session, req, history>>

\* redeem: one UPDATE.  The unique index is on redeemed_by, whatever the status.
Redeem(k, a) ==
    /\ licence[k] = [status |-> "active", by |-> None]
    /\ \A l \in Keys : licence[l].by # a
    /\ a = Me => \E s \in Ids : Usable(s)
    /\ licence' = [licence EXCEPT ![k].by = a]
    /\ most' = IF a = Me /\ MaxDevices[k] > most THEN MaxDevices[k] ELSE most
    /\ AtOnce
    /\ UNCHANGED <<account, device, session, req, version, opened, stray, wiped, minted, proven>>

\* revokeByPayment, revokeById
RevokeLicence(k) ==
    /\ licence[k].status = "active"
    /\ licence' = [licence EXCEPT ![k].status = "revoked"]
    /\ AtOnce
    /\ UNCHANGED <<account, device, session, req, history>>

-----------------------------------------------------------------------------

Checked(r) ==
    \/ \E w \in Passwords : SignInUnderDuress(r, w) \/ \E code \in 0..minted : SignIn(r, w, code)
    \/ \E s \in Ids :
         \/ RevokeAll(r, s) \/ TotpSetup(r, s)
         \/ \E d \in Ids : RemoveDevice(r, s, d)
         \/ \E code \in 1..minted : TotpEnable(r, s, code)
         \/ \E w \in Passwords :
              \/ TotpOff(r, s, w) \/ Wipe(r, s, w) \/ DeleteAccount(r, s, w)
              \/ \E new \in Passwords : ChangePassword(r, s, w, new)
              \/ \E code \in Passwords \cup {None} : SetDuress(r, s, w, code)

Continues(r) ==
    \/ SignInCount(r) \/ SignInRegister(r) \/ SignInSession(r)
    \/ RevokeRow(r) \/ RemoveDeviceSessions(r)
    \/ PasswordRow(r) \/ DuressRow(r) \/ TotpSetupRow(r) \/ TotpEnableRow(r) \/ TotpOffRow(r)
    \/ WipeDevices(r) \/ WipeCommit(r) \/ Tombstone(r)

Next ==
    \/ \E r \in Requests : Checked(r) \/ Continues(r)
    \/ \E s \in Ids : SignOut(s)
    \/ \E k \in Keys : Issue(k) \/ RevokeLicence(k) \/ \E a \in Others \cup {Me} : Redeem(k, a)

Spec == Init /\ [][Next]_vars

-----------------------------------------------------------------------------
(* What is promised *)

\* A session that still opens the account was signed in with the password the
\* account has now, or set it, or is about to be revoked by whoever changed it
\* ("every other session is revoked", POST password), and no device is left of
\* those a wipe found.  Only a sign-in that overlapped the revocation gets past
\* it: it was checked before, and its session's row comes after.
StandingSignIns ==
    /\ \A d \in Ids \ stray :
         Usable(d) /\ opened[d] # version => \E r \in Running({"revoke"}) : req[r].as # d
    /\ Existing \cap wiped = {}

\* A factor is switched on only with a secret somebody has shown a code of, and
\* off only by password, by the wipe or by a set-up: none of the other writes
\* touches it, unless two of those requests overlap.
FactorChangesByProof ==
    [][/\ account'.enabled /\ ~account.enabled =>
            \/ account'.secret \in proven
            \/ \E r \in Running({"enable"}) : req[r].late
       /\ account.enabled /\ ~account'.enabled =>
            \/ Running({"off", "wiping"}) # {}
            \/ \E r \in Running({"setup"}) : req[r].late
       /\ account.enabled /\ account'.enabled => account'.secret = account.secret]_vars

\* There are never more devices in use than some licence of the account, or the
\* default, has allowed: sign-ins at the same moment are counted one after the
\* other (registerDevice locks the account's row).
DevicesWithinLimit == Cardinality(Live) <= most

\* "A duress code equal to the password is refused" (README.md:1416).
DuressDiffers == account.duress = None \/ account.duress # account.password

\* No index is given to two devices: "reusing a retired index would let an old
\* Signal session address a new device" (services/devices.ts:98).
IndexIsNeverReused ==
    \A d, e \in Ids : device[d].index # 0 /\ device[d].index = device[e].index => d = e

=============================================================================
