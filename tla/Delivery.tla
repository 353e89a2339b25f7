------------------------------ MODULE Delivery ------------------------------
(***************************************************************************)
(* The server's store-and-forward core: the send endpoints of              *)
(* server/src/routes/messages.ts and routes/sealed_sender.ts, the queue of *)
(* services/delivery.ts, the retention sweep of services/cleanup.ts and    *)
(* the part of device removal that touches the queue.                      *)
(*                                                                         *)
(* A request is a handler that awaits one SQL statement after another, so  *)
(* every await is a place where any other step may come in between, and    *)
(* where the process may die or the database may refuse.  An envelope row  *)
(* gets its id from a sequence while its INSERT runs and becomes visible   *)
(* when the INSERT commits: two different moments, and two rows may pass   *)
(* them in opposite orders.                                                *)
(***************************************************************************)
EXTENDS Naturals, FiniteSets

CONSTANTS
    Accounts,         \* accounts
    Devices,          \* devices, each belonging to one account
    Owner,            \* Owner[d] is the account of device d
    Group,            \* the one group (not an account)
    Messages,         \* messages clients send; a resend is the same message
    Author,           \* Author[m] is the device that sends m
    Target,           \* Target[m] is an account, or Group
    Keyed,            \* messages sent with an idempotency key
    Sealed,           \* messages sent through POST /v1/messages/sealed
    Ephemeral,        \* messages of envelope type 'typing'
    Timed,            \* messages sent with expiresInSeconds
    Handlers,         \* requests the server works on at the same time
    Batch,            \* LIMIT of one fetch
    Relinked,         \* bound: devices that are linked or removed on the way
    Joinable,         \* bound: accounts whose membership changes
    Blockable,        \* bound: pairs <<owner, candidate>> whose block changes
    Ageing,           \* bound: messages whose rows may get to ENVELOPE_TTL_DAYS
    MaxId,            \* bound: how far the id sequence may run
    None              \* no message

ASSUME DeliveryAssumption ==
    /\ IsFiniteSet(Devices)
    /\ Owner \in [Devices -> Accounts]
    /\ Author \in [Messages -> Devices]
    /\ Target \in [Messages -> Accounts \cup {Group}]
    /\ Group \notin Accounts
    /\ Keyed \subseteq Messages
    /\ Sealed \subseteq {m \in Messages \ Keyed : Target[m] # Group}
    /\ Ephemeral \subseteq Messages \ Sealed
    /\ Timed \subseteq Messages
    /\ Batch \in Nat \ {0}
    /\ Relinked \subseteq Devices
    /\ Joinable \subseteq Accounts
    /\ Blockable \subseteq {p \in Accounts \X Accounts : p[1] # p[2]}
    /\ Ageing \subseteq Messages
    /\ MaxId \in Nat
    /\ None \notin Messages

VARIABLES
    device,       \* devices: lifecycle of each row
    members,      \* group_members of the group
    blocks,       \* blocks: <<owner, blocked account>>
    sequence,     \* last value drawn from envelopes_id_seq
    envelopes,    \* envelopes: the committed rows
    keys,         \* sent_message_keys: messages whose key is claimed
    expired,      \* rows whose expires_at has passed
    pc,           \* where each handler is
    sending,      \* the message a handler carries
    fanout,       \* the recipient devices it computed
    drawn,        \* the rows of its open INSERT
    reply,        \* what it answered
    stored,       \* history: every row that was ever committed
    handed,       \* history: every row a fetch returned to its device
    acked,        \* history: every row an acknowledgement deleted
    aged,         \* history: rows the sweep removed for their age
    late,         \* history: rows that committed after a higher id was handed out
    forgotten     \* history: messages whose key the sweep removed

tables   == <<device, members, blocks, sequence, envelopes, keys, expired>>
requests == <<pc, sending, fanout, drawn, reply>>
history  == <<stored, handed, acked, aged, late, forgotten>>
vars     == <<device, members, blocks, sequence, envelopes, keys, expired,
              pc, sending, fanout, drawn, reply,
              stored, handed, acked, aged, late, forgotten>>

Row == [id : 1..MaxId, device : Devices, message : Messages]

-----------------------------------------------------------------------------
(* Reads                                                                   *)

activeDeviceIds == {d \in Devices : device[d] = "active"}

isBlockedBy(owner, candidate) == <<owner, candidate>> \in blocks

\* The devices a send of m must be sealed for.  The sending device never gets
\* a copy, except on the sealed route, which does not know who is sending;
\* members who blocked the author drop out of a group's fan-out.
expectedDevices(m) ==
    IF Target[m] = Group
      THEN {d \in activeDeviceIds :
              /\ Owner[d] \in members
              /\ d # Author[m]
              /\ ~ isBlockedBy(Owner[d], Owner[Author[m]])}
      ELSE {d \in activeDeviceIds :
              /\ Owner[d] = Target[m]
              /\ m \in Sealed \/ d # Author[m]}

\* A direct message to someone who blocked the author goes nowhere, and the
\* author is told it was accepted.
goesNowhere(m) ==
    /\ m \notin Sealed
    /\ Target[m] # Group
    /\ Target[m] # Owner[Author[m]]
    /\ isBlockedBy(Target[m], Owner[Author[m]])

\* The sealed route is the one that does not know who is asking.
mayAsk(m) == m \in Sealed \/ device[Author[m]] = "active"

maySend(m) == Target[m] = Group => Owner[Author[m]] \in members

Free(h) == pc[h] \in {"idle", "answered"}

\* A success, with what the request carried kept for the sender to rely on.
answer(h, r) ==
    /\ pc' = [pc EXCEPT ![h] = "answered"]
    /\ reply' = [reply EXCEPT ![h] = r]

\* An error: nothing of the request remains but what it had committed.
abandon(h) ==
    /\ pc' = [pc EXCEPT ![h] = "idle"]
    /\ sending' = [sending EXCEPT ![h] = None]
    /\ fanout' = [fanout EXCEPT ![h] = {}]
    /\ drawn' = [drawn EXCEPT ![h] = {}]
    /\ reply' = [reply EXCEPT ![h] = "none"]

-----------------------------------------------------------------------------
(* The send endpoints                                                      *)

\* The request is authenticated; whatever the handler carried before is gone.
Ask(h, m) ==
    /\ Free(h)
    /\ mayAsk(m)
    /\ sending' = [sending EXCEPT ![h] = m]
    /\ fanout' = [fanout EXCEPT ![h] = {}]
    /\ reply' = [reply EXCEPT ![h] = "none"]
    /\ pc' = [pc EXCEPT ![h] = "asked"]
    /\ UNCHANGED <<tables, drawn, history>>

\* The block check of a direct send, the membership check of a group send; a
\* sealed send has neither.
Screen(h) ==
    /\ pc[h] = "asked"
    /\ \/ /\ goesNowhere(sending[h])
          /\ answer(h, "accepted")
       \/ /\ ~ goesNowhere(sending[h])
          /\ maySend(sending[h])
          /\ pc' = [pc EXCEPT ![h] = "listing"]
          /\ UNCHANGED reply
    /\ UNCHANGED <<tables, sending, fanout, drawn, history>>

\* Mutant of ReadDevices: a key is claimed whether or not the client sent one.
ReadDevicesAlwaysClaims(h) ==
    LET m == sending[h] IN
    /\ pc[h] = "listing"
    /\ Target[m] # Group => expectedDevices(m) # {}
    /\ fanout' = [fanout EXCEPT ![h] = expectedDevices(m)]
    /\ pc' = [pc EXCEPT ![h] = "claiming"]
    /\ UNCHANGED <<tables, sending, drawn, reply, history>>

\* The devices are read, and the client's list names every one of them.
ReadDevices(h) ==
    LET m == sending[h] IN
    /\ pc[h] = "listing"
    /\ Target[m] # Group => expectedDevices(m) # {}
    /\ fanout' = [fanout EXCEPT ![h] = expectedDevices(m)]
    /\ pc' = [pc EXCEPT ![h] = IF m \in Keyed THEN "claiming" ELSE "inserting"]
    /\ UNCHANGED <<tables, sending, drawn, reply, history>>

\* Licence, rate limit, unknown target, not a member, no devices, a stale
\* device list: the request ends before anything is written.
Refuse(h) ==
    /\ pc[h] \in {"asked", "listing"}
    /\ abandon(h)
    /\ UNCHANGED <<tables, history>>

\* Mutant of claimIdempotencyKey: ON CONFLICT DO UPDATE, so every attempt wins.
claimIdempotencyKeyAgain(h) ==
    /\ pc[h] = "claiming"
    /\ keys' = keys \cup {sending[h]}
    /\ pc' = [pc EXCEPT ![h] = "inserting"]
    /\ UNCHANGED <<device, members, blocks, sequence, envelopes, expired,
                   sending, fanout, drawn, reply, history>>

\* INSERT ... ON CONFLICT DO NOTHING, committed on its own: the winner goes on
\* to enqueue, a later attempt is answered with the first one's result.
claimIdempotencyKey(h) ==
    /\ pc[h] = "claiming"
    /\ \/ /\ sending[h] \notin keys
          /\ keys' = keys \cup {sending[h]}
          /\ pc' = [pc EXCEPT ![h] = "inserting"]
          /\ UNCHANGED reply
       \/ /\ sending[h] \in keys
          /\ answer(h, "duplicate")
          /\ UNCHANGED keys
    /\ UNCHANGED <<device, members, blocks, sequence, envelopes, expired,
                   sending, fanout, drawn, history>>

\* enqueue: the multi-row INSERT starts and draws one id per row.
BeginInsert(h) ==
    LET n == Cardinality(fanout[h]) IN
    /\ pc[h] = "inserting"
    /\ sending[h] \notin Ephemeral /\ fanout[h] # {}
    /\ sequence + n <= MaxId
    /\ \E id \in [fanout[h] -> (sequence + 1)..(sequence + n)] :
         /\ \A d, e \in fanout[h] : id[d] = id[e] => d = e
         /\ drawn' = [drawn EXCEPT ![h] =
              {[id |-> id[d], device |-> d, message |-> sending[h]] : d \in fanout[h]}]
    /\ sequence' = sequence + n
    /\ pc' = [pc EXCEPT ![h] = "committing"]
    /\ UNCHANGED <<device, members, blocks, envelopes, keys, expired,
                   sending, fanout, reply, history>>

\* Mutant of SkipInsert: the INSERT is started and not awaited.
SkipInsertUnawaited(h) ==
    /\ pc[h] = "inserting"
    /\ pc' = [pc EXCEPT ![h] = "publishing"]
    /\ UNCHANGED <<tables, sending, fanout, drawn, reply, history>>

\* Ephemeral envelopes are not stored: the send goes straight to the wake-ups,
\* as does a group send that is left with no device.
SkipInsert(h) ==
    /\ pc[h] = "inserting"
    /\ sending[h] \in Ephemeral \/ fanout[h] = {}
    /\ pc' = [pc EXCEPT ![h] = "publishing"]
    /\ UNCHANGED <<tables, sending, fanout, drawn, reply, history>>

\* Nothing orders the commits of two requests: a row may become visible after a
\* row of its device with a higher id was handed out.
CommitInsert(h) ==
    /\ pc[h] = "committing"
    /\ envelopes' = envelopes \cup drawn[h]
    /\ stored' = stored \cup drawn[h]
    /\ late' = late \cup {r \in drawn[h] :
                            \E q \in handed : q.device = r.device /\ q.id > r.id}
    /\ drawn' = [drawn EXCEPT ![h] = {}]
    /\ pc' = [pc EXCEPT ![h] = "publishing"]
    /\ UNCHANGED <<device, members, blocks, sequence, keys, expired,
                   sending, fanout, reply, handed, acked, aged, forgotten>>

\* Bus and push are told (Realtime.tla), and the sender gets its answer.
Accept(h) ==
    /\ pc[h] = "publishing"
    /\ answer(h, "accepted")
    /\ UNCHANGED <<tables, sending, fanout, drawn, history>>

\* The process dies, the database refuses or the bus rejects: what was
\* committed stays, an open INSERT is rolled back, the ids it drew are lost.
Fail(h) ==
    /\ ~ Free(h)
    /\ abandon(h)
    /\ UNCHANGED <<tables, history>>

-----------------------------------------------------------------------------
(* The recipient's side                                                    *)

live(d) == {r \in envelopes : r.device = d /\ r \notin expired}

\* Mutant of isOldest: a LIMIT without an ORDER BY.
isOldestUnordered(B, Q) == B \subseteq Q

\* ORDER BY id: nothing outside the batch is older than anything in it.
isOldest(B, Q) == \A r \in B, q \in Q \ B : r.id < q.id

\* The session is checked when the request comes in, so a device removed since
\* may still be answered.
fetch(d) ==
    /\ device[d] # "unlinked"
    /\ \E B \in SUBSET live(d) :
         /\ B # {} /\ Cardinality(B) <= Batch
         /\ B = live(d) \/ Cardinality(B) = Batch
         /\ isOldest(B, live(d))
         /\ handed' = handed \cup B
    /\ UNCHANGED <<tables, requests, stored, acked, aged, late, forgotten>>

\* Mutant of upTo: the DELETE forgets the device.
upToAnyDevice(d, top) == {r \in envelopes : r.id <= top}

\* Cumulative: everything of this device up to an id it was handed.
upTo(d, top) == {r \in envelopes : r.device = d /\ r.id <= top}

acknowledge(d) ==
    /\ device[d] # "unlinked"
    /\ \E top \in {r.id : r \in {q \in handed : q.device = d}} :
         /\ envelopes' = envelopes \ upTo(d, top)
         /\ acked' = acked \cup upTo(d, top)
    /\ UNCHANGED <<device, members, blocks, sequence, keys, expired,
                   requests, stored, handed, aged, late, forgotten>>

-----------------------------------------------------------------------------
(* Retention                                                               *)

\* expires_at is fixed before the INSERT and may pass before it commits.
inFlight == UNION {drawn[h] : h \in Handlers}

TimerRunsOut(r) ==
    /\ r \in (envelopes \cup inFlight) \ expired
    /\ r.message \in Timed
    /\ expired' = expired \cup {r}
    /\ UNCHANGED <<device, members, blocks, sequence, envelopes, keys,
                   requests, history>>

\* Whatever has run out goes, and whatever is older than ENVELOPE_TTL_DAYS;
\* nothing else looks at a row's age.
sweepEnvelopes ==
    \E old \in SUBSET {r \in envelopes : r.message \in Ageing} :
        /\ (envelopes \cap expired) \cup old # {}
        /\ envelopes' = envelopes \ (expired \cup old)
        /\ aged' = aged \cup old
        /\ UNCHANGED <<device, members, blocks, sequence, keys, expired,
                       requests, stored, handed, acked, late, forgotten>>

\* Keys older than a day; no request runs that long, so none is in use.
sweepKeys ==
    \E K \in SUBSET keys :
        /\ K # {}
        /\ \A h \in Handlers : ~ Free(h) => sending[h] \notin K
        /\ keys' = keys \ K
        /\ forgotten' = forgotten \cup K
        /\ UNCHANGED <<device, members, blocks, sequence, envelopes, expired,
                       requests, stored, handed, acked, aged, late>>

-----------------------------------------------------------------------------
(* Devices, blocks and membership                                          *)

registerDevice(d) ==
    /\ device[d] = "unlinked"
    /\ device' = [device EXCEPT ![d] = "active"]
    /\ UNCHANGED <<members, blocks, sequence, envelopes, keys, expired,
                   requests, history>>

\* DELETE /v1/devices/:id revokes the row first ...
revokeDevice(d) ==
    /\ device[d] = "active"
    /\ device' = [device EXCEPT ![d] = "revoking"]
    /\ UNCHANGED <<members, blocks, sequence, envelopes, keys, expired,
                   requests, history>>

\* ... and deletes what is queued for it two statements later.
purgeQueue(d) ==
    /\ device[d] = "revoking"
    /\ device' = [device EXCEPT ![d] = "revoked"]
    /\ envelopes' = {r \in envelopes : r.device # d}
    /\ UNCHANGED <<members, blocks, sequence, keys, expired,
                   requests, history>>

changeMembership(a) ==
    /\ members' = IF a \in members THEN members \ {a} ELSE members \cup {a}
    /\ UNCHANGED <<device, blocks, sequence, envelopes, keys, expired,
                   requests, history>>

changeBlock(owner, candidate) ==
    /\ blocks' = IF isBlockedBy(owner, candidate)
                   THEN blocks \ {<<owner, candidate>>}
                   ELSE blocks \cup {<<owner, candidate>>}
    /\ UNCHANGED <<device, members, sequence, envelopes, keys, expired,
                   requests, history>>

-----------------------------------------------------------------------------
(* Behaviours                                                              *)

Init ==
    /\ device \in [Devices -> {"active", "unlinked"}]
    /\ \A d \in Devices \ Relinked : device[d] = "active"
    /\ members = Accounts
    /\ blocks = {}
    /\ sequence = 0
    /\ envelopes = {} /\ keys = {} /\ expired = {}
    /\ pc = [h \in Handlers |-> "idle"]
    /\ sending = [h \in Handlers |-> None]
    /\ fanout = [h \in Handlers |-> {}]
    /\ drawn = [h \in Handlers |-> {}]
    /\ reply = [h \in Handlers |-> "none"]
    /\ stored = {} /\ handed = {} /\ acked = {} /\ aged = {} /\ late = {} /\ forgotten = {}

HandlerStep(h) ==
    \/ \E m \in Messages : Ask(h, m)
    \/ Screen(h)
    \/ ReadDevices(h)
    \/ Refuse(h)
    \/ claimIdempotencyKey(h)
    \/ BeginInsert(h)
    \/ SkipInsert(h)
    \/ CommitInsert(h)
    \/ Accept(h)
    \/ Fail(h)

DeviceStep(d) ==
    \/ fetch(d)
    \/ acknowledge(d)
    \/ d \in Relinked /\ (registerDevice(d) \/ revokeDevice(d) \/ purgeQueue(d))

RetentionStep ==
    \/ \E r \in envelopes \cup inFlight : TimerRunsOut(r)
    \/ sweepEnvelopes
    \/ sweepKeys

Next ==
    \/ \E h \in Handlers : HandlerStep(h)
    \/ \E d \in Devices : DeviceStep(d)
    \/ RetentionStep
    \/ \E a \in Joinable : changeMembership(a)
    \/ \E p \in Blockable : changeBlock(p[1], p[2])

Spec == Init /\ [][Next]_vars

-----------------------------------------------------------------------------
(* Properties                                                              *)

\* Every variable has its type, and a handler's open INSERT holds rows of the
\* message and the devices it is sending to.
TypeOK ==
    /\ device \in [Devices -> {"unlinked", "active", "revoking", "revoked"}]
    /\ members \subseteq Accounts
    /\ blocks \subseteq Accounts \X Accounts
    /\ sequence \in 0..MaxId
    /\ envelopes \subseteq Row
    /\ keys \subseteq Keyed
    /\ expired \subseteq Row
    /\ pc \in [Handlers -> {"idle", "asked", "listing", "claiming", "inserting",
                           "committing", "publishing", "answered"}]
    /\ sending \in [Handlers -> Messages \cup {None}]
    /\ fanout \in [Handlers -> SUBSET Devices]
    /\ drawn \in [Handlers -> SUBSET Row]
    /\ reply \in [Handlers -> {"none", "accepted", "duplicate"}]
    /\ stored \subseteq Row
    /\ handed \subseteq Row
    /\ acked \subseteq Row
    /\ aged \subseteq Row
    /\ late \subseteq Row
    /\ forgotten \subseteq Keyed

\* A cumulative acknowledgement deletes a row its device was never handed in
\* exactly two cases: the row's disappearing timer had run out, or the row
\* committed after a higher id of the same device was already handed out.
\* Oldest-first batches are what rules out every other case.
LostOnlyIfLate == acked \ handed \subseteq late \cup expired

\* However many times a keyed message is sent, retried or raced by its own
\* retry, no device is left with two rows of it while the key is remembered.
AtMostOnce ==
    \A r, q \in stored :
        (/\ r.message = q.message /\ r.device = q.device
         /\ r.message \in Keyed \ forgotten) => r = q

\* A sender that is told "accepted" can drop its copy: every device the server
\* fanned out to has a committed row.
AcceptedIsStored ==
    \A h \in Handlers :
        (reply[h] = "accepted" /\ sending[h] \notin Ephemeral) =>
            \A d \in fanout[h] : \E r \in stored : r.device = d /\ r.message = sending[h]

\* The mailbox a recipient device can count on: envelopes are handed out oldest
\* first, nothing leaves unhanded unless its time is up, its device is gone or it
\* arrived behind an envelope already handed out, and nothing that left comes back.
MB == INSTANCE Mailbox WITH
        Envelopes <- Row,
        waiting   <- envelopes,
        overdue   <- expired \cup aged,
        closed    <- {d \in Devices : device[d] # "active"},
        overtaken <- late,
        gone      <- stored \ envelopes

ImplementsMailbox == MB!Spec

\* What delivery.ts:216 and docs/architecture.md:122 say of acknowledgement:
\* delivery is at-least-once until the acknowledgement lands.
AtLeastOnce == acked \subseteq handed \cup expired

\* What messages.ts:180 says to a sender that is answered "duplicate": the
\* first attempt got through.
DuplicateIsStored ==
    \A h \in Handlers :
        (reply[h] = "duplicate" /\ sending[h] \notin Ephemeral) =>
            \/ \E r \in stored : r.message = sending[h]
            \/ \E t \in Handlers \ {h} : ~ Free(t) /\ sending[t] = sending[h]
=============================================================================
