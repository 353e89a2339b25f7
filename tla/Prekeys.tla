------------------------------ MODULE Prekeys ------------------------------
(***************************************************************************)
(* One device's public keys, where they are kept and where they are handed *)
(* out: maintainPreKeys and rotateSignedPreKeyIfDue of the app's           *)
(* services/messaging_service.dart, with crypto/privio_crypto.dart and     *)
(* crypto/privio_signal_store.dart, and the server's routes/devices.ts     *)
(* with services/devices.ts.                                               *)
(*                                                                         *)
(* The app works on its keys once per start, the server's statements are   *)
(* atomic one by one, and a message sealed to a bundle may arrive days     *)
(* after the bundle was fetched.                                           *)
(***************************************************************************)
EXTENDS Naturals, FiniteSets

CONSTANTS
    Asks,        \* concurrent requests for bundles
    Batch,       \* preKeyBatchSize
    LowWater,    \* preKeyLowWaterMark
    MaxOneTime,  \* MAX_ONE_TIME_PREKEYS
    Lifetime,    \* signedPreKeyLifetime, in days
    Grace,       \* signedPreKeyGrace, in days
    MaxKeys,     \* bound: one-time keys ever made
    MaxAsks,     \* bound: bundles ever asked for
    MaxDay       \* bound: days

VARIABLES
    day,       \* the clock
    own,       \* one-time keys in the device's keystore
    signed,    \* signed keys in the keystore
    stage,     \* where maintainKeys is
    short,     \* one-time keys it is about to make
    pool,      \* rows of one_time_prekeys
    offered,   \* the row of signed_prekeys
    uploads,   \* uploads of one-time keys that the server has not finished
    renewal,   \* the signed key of an upload under way
    ask,       \* requests for bundles between two of their statements
    asked,     \* bundles asked for so far
    letters,   \* bundles handed out whose message has not been opened yet
    serial     \* one-time keys made so far: an id may come back, a serial does not

device == <<own, signed, stage, short, serial>>
server == <<pool, offered, uploads, renewal>>
demand == <<ask, asked, letters>>
vars   == <<day, own, signed, stage, short, pool, offered, uploads, renewal,
            ask, asked, letters, serial>>

NoKey  == [id |-> 0, serial |-> 0]
NoSign == [made |-> MaxDay + 1]

Top(K)    == IF K = {} THEN NoKey ELSE CHOOSE k \in K : \A j \in K : j.id <= k.id
Lowest(K) == IF K = {} THEN NoKey ELSE CHOOSE k \in K : \A j \in K : k.id <= j.id
Newest(S) == CHOOSE s \in S : \A t \in S : t.made <= s.made

\* Storing under an id overwrites what was there.
Store(K, new) == {k \in K : \A n \in new : n.id # k.id} \cup new

NoAsk == [step |-> "none", consume |-> FALSE, signed |-> NoSign]

TypeOK ==
    LET Key  == [id : 1..MaxKeys, serial : 1..MaxKeys]
        Sign == [made : 0..MaxDay] IN
    /\ day \in 0..MaxDay /\ serial \in 0..MaxKeys /\ short \in 0..Batch
    /\ own \subseteq Key /\ pool \subseteq Key
    /\ \A j, k \in own : j.id = k.id => j = k
    /\ signed \subseteq Sign /\ offered \in Sign
    /\ stage \in {"idle", "make", "uploading", "signed", "publishing", "prune"}
    /\ uploads \subseteq [keys : SUBSET Key, step : {"insert", "trim"}, awaited : BOOLEAN]
    /\ renewal \in Sign \cup {NoSign}
    /\ asked \in 0..MaxAsks
    /\ ask \in [Asks -> [step : {"none", "list", "take"}, consume : BOOLEAN,
                         signed : Sign \cup {NoSign}]]
    /\ letters \subseteq [one : Key \cup {NoKey}, signed : Sign]

\* registerDevice, with what buildRegistration made.
Init ==
    /\ day = 0 /\ serial = Batch /\ short = 0 /\ stage = "idle"
    /\ own = {[id |-> i, serial |-> i] : i \in 1..Batch} /\ pool = own
    /\ signed = {[made |-> 0]} /\ offered = [made |-> 0]
    /\ uploads = {} /\ renewal = NoSign
    /\ ask = [r \in Asks |-> NoAsk] /\ asked = 0 /\ letters = {}

-----------------------------------------------------------------------------
(* The app's side: once per start *)

\* maintainPreKeys: how many the server has left.
Count ==
    /\ stage = "idle"
    /\ IF Cardinality(pool) <= LowWater
       THEN stage' = "make" /\ short' = Batch - Cardinality(pool)
       ELSE stage' = "signed" /\ short' = 0
    /\ UNCHANGED <<day, own, signed, serial, server, demand>>

MakeFrom(start, n) ==
    LET new == {[id |-> start + i, serial |-> serial + i] : i \in 1..n} IN
    /\ own' = Store(own, new)
    /\ serial' = serial + n
    /\ uploads' = uploads \cup {[keys |-> new, step |-> "insert", awaited |-> TRUE]}
    /\ stage' = "uploading" /\ short' = 0
    /\ UNCHANGED <<day, signed, pool, offered, renewal, demand>>

\* Mutant of Make: ids continue from the number of keys kept, not from the
\* highest of them.
MakeFromCount ==
    /\ stage = "make" /\ serial + short <= MaxKeys
    /\ MakeFrom(Cardinality(own), short)

\* _generatePreKeys: from the highest id that is still kept.
Make ==
    /\ stage = "make" /\ serial + short <= MaxKeys
    /\ MakeFrom(Top(own).id, short)

\* The upload fails, or seems to: rotation waits for the next start.
UploadFails ==
    /\ stage = "uploading" /\ stage' = "idle"
    /\ uploads' \in {{[u EXCEPT !.awaited = FALSE] : u \in uploads},
                     {u \in uploads : ~ u.awaited \/ u.step = "trim"}}
    /\ UNCHANGED <<day, own, signed, short, serial, pool, offered, renewal, demand>>

\* rotateSignedPreKeyIfDue: kept here before it is sent.
Rotate ==
    /\ stage = "signed"
    /\ IF day - Newest(signed).made >= Lifetime
       THEN /\ signed' = signed \cup {[made |-> day]}
            /\ renewal' = [made |-> day] /\ stage' = "publishing"
       ELSE stage' = "idle" /\ UNCHANGED <<signed, renewal>>
    /\ UNCHANGED <<day, own, short, serial, pool, offered, uploads, demand>>

RotateFails ==
    /\ stage = "publishing" /\ stage' = "idle"
    /\ renewal' \in {renewal, NoSign}
    /\ UNCHANGED <<day, own, signed, short, serial, pool, offered, uploads, demand>>

\* pruneSignedPreKeys: past the grace, counted from when each was made.
Prune ==
    /\ stage = "prune" /\ stage' = "idle"
    /\ signed' = {s \in signed : s = Newest(signed) \/ day - s.made < Grace}
    /\ UNCHANGED <<day, own, short, serial, server, demand>>

\* The process ends.  What was sent is on its way.
Kill ==
    /\ stage # "idle" /\ stage' = "idle" /\ short' = 0
    /\ uploads' = {[u EXCEPT !.awaited = FALSE] : u \in uploads}
    /\ UNCHANGED <<day, own, signed, serial, pool, offered, renewal, demand>>

\* A message sealed to a bundle is opened, which uses its one-time key up.
Open(l) ==
    /\ l.one \in own \cup {NoKey} /\ l.signed \in signed
    /\ own' = own \ {l.one}
    /\ letters' = letters \ {l}
    /\ UNCHANGED <<day, signed, stage, short, serial, server, ask, asked>>

-----------------------------------------------------------------------------
(* The server's side *)

\* storeOneTimePreKeys: insert what is not there ...
InsertKeys(u) ==
    /\ u.step = "insert"
    /\ pool' = pool \cup {k \in u.keys : \A p \in pool : p.id # k.id}
    /\ uploads' = (uploads \ {u}) \cup {[u EXCEPT !.step = "trim"]}
    /\ UNCHANGED <<day, device, offered, renewal, demand>>

\* ... and keep the highest ids.
TrimKeys(u) ==
    /\ u.step = "trim"
    /\ pool' = {k \in pool : Cardinality({j \in pool : j.id > k.id}) < MaxOneTime}
    /\ uploads' = uploads \ {u}
    /\ stage' = IF u.awaited THEN "signed" ELSE stage
    /\ UNCHANGED <<day, own, signed, short, serial, offered, renewal, demand>>

\* storeSignedPreKey
RotateRow ==
    /\ renewal # NoSign
    /\ offered' = renewal /\ renewal' = NoSign
    /\ stage' = IF stage = "publishing" THEN "prune" ELSE stage
    /\ UNCHANGED <<day, own, signed, short, serial, pool, uploads, demand>>

\* GET /v1/keys/:username: whether the owner has blocked who asks, and if so
\* the bundle comes without a one-time key ...
Ask(r, isBlocked) ==
    /\ ask[r].step = "none" /\ asked < MaxAsks
    /\ asked' = asked + 1
    /\ ask' = [ask EXCEPT ![r] = [NoAsk EXCEPT !.step = "list", !.consume = ~ isBlocked]]
    /\ UNCHANGED <<day, device, server, letters>>

\* ... the devices with their signed keys ...
List(r) ==
    /\ ask[r].step = "list"
    /\ ask' = [ask EXCEPT ![r].step = "take", ![r].signed = offered]
    /\ UNCHANGED <<day, device, server, asked, letters>>

Hand(r, one) ==
    /\ letters' = letters \cup {[one |-> one, signed |-> ask[r].signed]}
    /\ ask' = [ask EXCEPT ![r] = NoAsk]

\* ... and one DELETE ... RETURNING of the lowest one-time key.
Take(r) ==
    LET one == IF ask[r].consume THEN Lowest(pool) ELSE NoKey IN
    /\ ask[r].step = "take"
    /\ Hand(r, one)
    /\ pool' = pool \ {one}
    /\ UNCHANGED <<day, device, offered, uploads, renewal, asked>>

\* A day goes by.  No request lasts that long; a message may.
Tick ==
    /\ day < MaxDay /\ uploads = {} /\ renewal = NoSign
    /\ \A r \in Asks : ask[r].step = "none"
    /\ stage \in {"idle", "make", "signed"}
    /\ day' = day + 1 /\ stage' = "idle" /\ short' = 0
    /\ UNCHANGED <<own, signed, serial, server, demand>>

Next ==
    \/ Count \/ Make \/ UploadFails \/ Rotate \/ RotateFails \/ Prune \/ Kill
    \/ \E l \in letters : Open(l)
    \/ \E u \in uploads : InsertKeys(u) \/ TrimKeys(u)
    \/ RotateRow
    \/ \E r \in Asks : List(r) \/ Take(r) \/ \E isBlocked \in BOOLEAN : Ask(r, isBlocked)
    \/ Tick

Spec == Init /\ [][Next]_vars

-----------------------------------------------------------------------------
(* What is promised *)

\* Whatever was handed out can be opened when the message comes: its one-time
\* key is the one kept under that id, and is nobody else's, however uploads
\* are lost, late or cut short and whatever ids are made again; its signed key
\* is kept until it is Grace days old; and what the server offers now is always
\* kept ("there is no moment where the server offers a key this device cannot
\* open", messaging_service.dart:1275).
BundlesOpen ==
    /\ offered \in signed
    /\ \A l \in letters : /\ l.one \in (own \ pool) \cup {NoKey}
                          /\ l.signed \in signed \/ day - l.signed.made >= Grace

=============================================================================
