# Verification of the Privio messenger

Privio is an end-to-end encrypted messenger: a TypeScript server (`src/server`,
Fastify on Postgres, optionally Redis) that stores sealed envelopes and forwards
them, and a Flutter client (`src/app`) that seals, opens and keeps them. This
directory holds TLA+ models of its message delivery, its channels and what
belongs to a person's account, the TLC configurations that check them, and
TLAPS proofs. What is modelled was translated from the
code; the line ranges are in `PROJECT.json` under `map`.

## 1. The system

### Components, state, interaction

| component | code | state it keeps | talks to |
|---|---|---|---|
| send endpoints | `routes/messages.ts`, `routes/sealed_sender.ts` | `sent_message_keys`; one request's local variables | queue, device and block tables |
| queue | `services/delivery.ts` | `envelopes`, `envelopes_id_seq` | bus, push |
| retention sweep | `services/cleanup.ts` | none (an hourly timer) | `envelopes`, `sent_message_keys`, media |
| WebSocket delivery | `routes/ws.ts` | per connection: `draining`, `queuedWake`, `revoked`, a timer, a bus listener | queue, bus, sessions |
| wake-up bus | `services/bus.ts` | none of its own; an emitter or Redis pub/sub | every process |
| sessions, revocation | `services/sessions.ts`, `services/revocation.ts` | `sessions` | bus |
| devices, prekeys | `routes/devices.ts`, `services/devices.ts` | `devices`, `one_time_prekeys` | queue, sessions |
| contacts, blocks | `routes/contacts.ts` | `blocks` | send endpoints |
| groups | `routes/groups.ts`, `services/group_membership.ts`, `services/key_requests.ts` | `groups`, `group_members`, `key_requests` | send endpoints, bus |
| channels, polls, keys | `routes/channels.ts`, `services/channel_*.ts`, `services/official_channel.ts` | members, key epochs, posts, comments, reactions, votes, bans, the inbox, the live room | bus, push |
| accounts, licences | `routes/accounts.ts`, `services/accounts.ts`, `services/licenses.ts` | `accounts`, `licenses` | devices, sessions |
| phone numbers | `routes/phone.ts`, `services/phone.ts` | `phone_verifications`, `phone_links` | an SMS provider |
| operators | `routes/admin.ts`, `services/admin_auth.ts` | `admin_users`, `admin_sessions` | accounts, channels |
| media, stickers, backup | `routes/media.ts`, `stickers.ts`, `backup.ts`, `services/storage.ts` | `media_objects`, `sticker_packs`, `sticker_items`, `backups`; files | sweep, accounts, channels, groups |
| app socket | `services/realtime_connection.dart` | the connection, a back-off | `ws.ts` |
| app receive path | `services/messaging_service.dart` | `_handledThrough`, `_decrypting` | ratchet, queue (HTTP) |
| app send path | `services/messaging_service.dart` | known devices | send endpoints (HTTP), ratchet |
| conversation controller | `core/conversation_controller.dart` | store, `_outbox`, `_unsentTexts`, the running flush, debounce timer, poll timer | send and receive path, archive |
| ratchet, archive | `crypto/`, `data/archive.dart` | session records; the sealed history | storage |

A message travels: a sender's request checks blocks or membership, reads the
recipient's devices, claims its idempotency key, inserts one row per device and
publishes a wake. The device's WebSocket handler is woken, fetches the oldest
rows and writes a frame; a poll over HTTP fetches the same rows every two
minutes. The app opens envelopes in the ratchet, one batch at a time whichever
channel it came on, files the messages, and acknowledges with the highest id:
the server deletes *everything up to it*.

### What is hard

* Every `await` is a point where other requests, wakes, acknowledgements,
  revocations and hang-ups get in; nearly nothing runs in a transaction.
* Ids are drawn from a sequence before their row commits, and acknowledgement
  is cumulative over ids.
* Two channels deliver the same rows; the ratchet opens an envelope once.
* Wakes are best effort, revocations are announced best effort.
* Requests are retried; the app's process may end at any moment, with its
  ratchet written through and its history written 400 ms later.
* The app sends on two roads at once, a call per text and one flush for what
  waits, and the person may drop a message while either awaits an answer.
* Most routes check on the pool and write in statements of their own, a few in a
  transaction under a lock of one row: what a request has checked may be
  overtaken before it writes, by a second request of the same kind as well.
* Passwords and codes are verified by a hash that takes its time, between the
  read of the row and the writes that follow from it.
* A file and the row that names it are stored and removed one after the other,
  and the process may end in between.

What makes each part correct: an accepted send is stored for every device of
its fan-out; a retry stores nothing twice; a row leaves only after it was
handed over, ran out, lost its device, or arrived behind a later one that was
read; wakes are not lost to a drain that is
already running; an ended session is cut off; an envelope that both channels
deliver is filed once and never called unreadable; what a bubble claims the
server has, what looks owed is somewhere it will be sent from, and what was
dropped stays home. A channel has one owner, rights come from those who hold
them, and nothing is sealed under a key that somebody who was removed holds; a
session outlives no revocation, limits hold, somebody is in charge, a number was
proved, a bundle can be opened, and a picture lives as long as it is in use.
`PROJECT.json` lists the hazards with their lines and the property aimed at each.

## 2. Modules

| module | what it is |
|---|---|
| `Mailbox` | what a recipient device is promised: the abstract specification |
| `Delivery` | send endpoints, queue, sweep, device removal, statement by statement |
| `DeliveryProofs` | the inductive invariant of `Delivery`, and that it implements `Mailbox` |
| `Realtime` | WebSocket handler, bus, sessions, app socket and poll of one device |
| `RealtimeProofs` | its inductive invariant |
| `Receiver` | the app between queue and archive: two channels, one ratchet |
| `ReceiverProofs` | its inductive invariant |
| `Outbox` | how the app sends: texts, recordings, receipts, the archive |
| `OutboxProofs` | the inductive invariants behind what a bubble claims, and behind what is owed |
| `ChannelMembers` | who is in a channel, as what, by which link |
| `ChannelMembersProofs` | its inductive invariant |
| `ChannelContent` | what is said in a channel, under which key: epochs, posts, comments, polls, silence, the broadcast |
| `ChannelContentProofs` | its inductive invariant |
| `Groups` | who is in a group, who administers it, who waits for its key |
| `Accounts` | who is signed in: passwords, second factor, duress code, devices, sessions, licences, the wipe |
| `Prekeys` | a device's public keys, in its keystore and on the server |
| `Phone` | the number attached to an account |
| `Operators` | the operators of a server, their sessions and factors |
| `Media` | rows, files and what points at them |
| `Channels` | `ChannelMembers` and `ChannelContent` as two views of one channel, and what is promised of both |
| `ChannelsProofs` | the two views' theorems, carried over to the whole |
| `People` | `Accounts`, `Groups`, `Prekeys`, `Phone`, `Operators` and `Media` side by side, and what is promised of them |
| `PeopleProofs` | an inductive invariant of each of the six, and the theorems about all |
| `MCDelivery`, `MCRealtime`, `MCReceiver`, `MCOutbox`, `MCChannels`, `MCPeople` | the small instances |

`Mailbox` is implemented by `Delivery`. `Realtime` starts where `Delivery` puts a
row, `Receiver` where `Realtime` delivers it. `Channels` and `People` put
modules next to each other that do not read each other's state: a behaviour
picks one part at the start and follows it, so a run visits the sum of the
parts' states, and a property of several parts says the same thing of each
(`SessionsStand` of accounts and of operators, `LimitsHold` of devices and of
groups).

In all the modules from `ChannelMembers` on, a request is `req[r]`: what it has
read and decided, between two of its steps. Actions with a name of their own
(`Leave`) are the checks and reads; `…Row` and `…Tx` are the statements and
transactions that follow. `late` and its like are history: they record that
something a request had checked has changed since. A mutant sits before the
action it replaces and is used by no specification.

### Delivery

A request is a handler whose `pc` says which statement it awaits:
`asked` (authenticated) → `listing` (block or membership check passed) →
`claiming` (devices read, key present) → `inserting` → `committing` (ids drawn)
→ `publishing` → `answered`. The direct, group and sealed endpoints are one
sequence with different guards: `goesNowhere` is the silent 202 for a blocked
sender, `maySend` the membership check, `expectedDevices` the three device
queries, `Refuse` every 4xx before anything is written. `Fail` is the process
dying, or a query or publish rejecting, at any of these points; it keeps what
was committed and loses the open INSERT.

`BeginInsert` draws the ids, `CommitInsert` makes the rows visible. Nothing in
the code orders the commits of two requests, so any order happens, in every run
and every proof. A row that commits after a later one of its device was handed
out is `late`.

`Mailbox` is the promise to a recipient device, with no server in sight: envelopes
are handed out oldest first, and one stays until it was handed out, its time has
run out or its device is gone, and never comes back. What the code cannot promise
is part of it and named: an envelope that is put in behind one its device was
already handed is `overtaken`, and may leave unseen with that one. Which
envelopes these are is determined by what was handed out as they came, so nothing
else can hide there; `late` is mapped to it.

`fetch` takes the `Batch` lowest live ids; `acknowledge` deletes up to any id
that was handed to the device. The client only ever sends such an id. Rows that
have run out (`expired`, which only disappearing messages do) are invisible to
`fetch` and deleted by `sweepEnvelopes`; that action may also take any set of
rows of the messages in `Ageing` for their age (`aged`), because
`ENVELOPE_TTL_DAYS` relates to nothing else in the model. `Ageing` bounds which
messages a run lets grow that old; the proofs hold for any choice of it. `revokeDevice` and `purgeQueue` are the two statements of a remote
logout that matter here. `stored`, `handed`, `acked`, `late`, `aged` and
`forgotten` are history variables: they are written only, except that the
history itself looks at `handed` and that an acknowledged id is one of `handed`.

### Realtime

One recipient device; its rows are named by their ids. A connection goes `none`
→ `resolving` → `opening` (handlers attached, first revalidation awaited) →
`open` → `stopped`. The first await hides a case of its own: when the client
hangs up during it, the close event is over before a listener for it exists,
and the bus listener and the timer stay behind (`lost`, then `leaked`) until a
revalidation or a revocation takes them down. `draining` and `queuedWake` are
the handler's flags, `batch` what a fetch returned before the second check of
`revoked` and `readyState`. `bus[s]` holds the wakes on their way to one
listener. The acknowledgement of a frame is a DELETE that is awaited
(`acking`); when it is refused, nobody catches the rejection and the process
ends (`acknowledgeFails`). `Restart` brings back an empty process.

Left out: ping and key-request frames, which have no state. Overlapping
revalidations of one connection are folded into one: they do the same thing.
The client may present a token at any time; the app stops doing so once it is
told `unauthorized`, which only removes behaviours. Rows commit in id order
here; the other order is `Delivery`'s subject.

### Receiver

The poll and the pushed frames are channels that read the oldest rows, queue
for the ratchet (`turns`), pass over what `_handledThrough` covers, open the
rest, and then file and acknowledge: the poll acknowledges inside `receive()`
and files afterwards, a pushed frame is filed first. `consumed` is the ratchet
and survives a crash, `saved` is the archive, `filed` the store in memory.
`dropped` records what an interruption discarded after it was opened, `orphaned`
what the ratchet had opened when a process died. Filing one message is one
step, whatever kind of payload it is; what each kind does to the store is not
modelled. An envelope that opens yields a message; one that the ratchet refuses
is a failure, and here the ratchet refuses exactly what it has opened before.

### Outbox

`step[s]`, `sending[s]` and `reached[s]` say what a sender awaits: the upload,
the copy for the recipient (and whether the server has accepted it, the answer
still on its way), or the copy for the account's own devices (`sync`). Senders
are the calls of `send` and `retry`, and `Runner`, the one `_runFlush` there is.
`flushing` is where that is: `drain` works `_outbox` from the front
(`drainQueue`, `uploadAnswered`, `mediaSent`, `mediaWaits`), `texts` works
`waiting`, the copy of `_unsentTexts` made as the loop began
(`sendWaitingTexts`); `runFlush` is its `while` and `finally`. `flushOutbox`
asks a running flush for another pass. A text's answer is `textSent`,
`textWaits` (transient: it joins `unsent`, and a flush breaks off) or
`textRefused`. What fails without having to is counted (`MaxFailures`); what is
in `Barred` is refused always. `DeliveryState` is the enum, in its order, which
is what `applyReceipt` compares.

`chat`, `deleted`, `state`, `outbox` and `uploaded` are what the archive keeps;
`save` is the debounce timer, `flush` the app going to the background, `restore`
the end of a process and the start of the next with a flush. A copy that was on
its way as the process ended is accepted or not. `unsent` is not kept: `restore`
rebuilds it from the bubbles (`waitsAgain`). `taken` and `known` are history
variables. What `removeWhere` and the loop of `restore` leave of a list is `Only`
(and `Without`, of one message): the members of a set, in their order, each found
by its rank.

`deleteForMe` and `deleteForEveryone` of a text need no `~isQueued`: the menu
reads it as it opens and acts when a choice is made (`mayDelete`). The deletion
notice is a send of its own and not followed. A conversation with oneself,
groups, message timers (they start when a message is sent, and only remove
bubbles) and attachments that bypass the outbox are left out.

### ChannelMembers

One channel, its link with a limit, an expiry and an approval, and the operator's
hold on it. `member` is the table, role and rights together; `chan` the channel's
row, with `count` the number of members shown; `waiting` the join requests;
`offer` what the official subscription remembers. `Join` reads the link and the
channel's state on the pool, as the code does, and `JoinTx` inserts and spends a
use under the channel's lock; `JoinRecord`, `LeaveRecord`, `RemoveRecord` are the
statements after a commit. `Transfer` and `SetRole` check under the lock they
write under and are one step. `MayAdd` says who lets whom add them, `WithinAuthority`
is the function of that name in `channel_permissions.ts`. Suspending and
designating are steps of the operator. Mutes, previews and lists are left out.

### ChannelContent

Admins and the others are constants and people come and go, because what changes
roles is the other module's. `Unlocked` and `Excluding = {}` are `lockChannel` FOR
UPDATE and FOR SHARE: a publisher is in `Sharing` from its checks to its insert, so
`Depart` waits for it. `keys`, `won` and `holders` follow the epochs; `meta` holds
the epoch that is recorded for the channel's name next to the one it is sealed
under. A post has a time (`due`: none, to come, past) and `notified`. Telling of
it takes two statements of the detached half of a request: `Announce` claims the
post, `Wake` reads the members and tells them. `Sweep` claims a batch, puts it into
`sweeping`, and `SweepWakes` tells of one post after the other, while requests or
another sweep go on. `AnnounceFails` and `SweepFails` are queries that fail in
between, `ServerStops` the end of the process; `hushed` marks the posts that were in
hand then, `told` counts how often people were told. Comments, reactions and votes
are checked in one step and written in another; `VoteRead` and `VoteWrite` are two
statements of one transaction without a lock. `told`, `raced`,
`hushed`, `doubled`, `late` are history. The model has no rooms of other channels and no views or pins.

### Groups

`role` and `since` are the rows in the order of `added_at`, which decides whom
`RemovePromote` promotes; `Enter` is the insert with the guard of migration 032;
`keyAsked` is `key_requests`, `unkeyed` who came in by the link and waits. A removal
is three statements (`RemoveRow`, `RemoveClear`, `RemovePromote`), a join two.

### Accounts

A request reads the account's row into `req[r]`, hashes, and writes. `SignIn…`
actions register a device in a transaction (the account's row locked, the devices
counted, the session inserted after it); password, duress code and factor are
changed by id. `version` counts passwords and `opened[d]` is the version a
device's sign-in had proven. A wipe takes everything in one transaction;
`most` is the highest limit a licence has allowed.

### Prekeys

The app's `maintainPreKeys` as a sequence (`stage`): count, make, store, upload,
prune. `own` and `signed` are its keystore, `pool` and `offered` the server's rows,
`letters` bundles handed out whose message is still to come, perhaps days later.
Uploads may be lost, cut short or land after the next one; the app may end
anywhere.

### Phone

`pending` is the row of `phone_verifications`, `link` that of `phone_links`; a text
is a code that was sent to a number (`texts`). Starting, entering and removing wait
for the provider or the digest in between. `agreed` is the number a person last
asked to be found by.

### Operators

`operator`, `signed` are the two tables; a change counts the owners, then writes,
then ends the sessions, each a statement. `era` counts how often an operator's
sessions have had to end.

### Media

One account that owns a channel, a group and a pack. `object[k]` is the row of blob
`k` with its kind and how long it lives (`till`), `blobs` the files. `Uses(k)` are
the pointers to it that give it a life of its own: the avatars of the account and of
a channel that is not deleted, and stickers, those of a deleted pack among them,
because they stay in other people's conversations (`docs/stickers.md:86`). A group's
picture (`face`) has no such life and does not count. A pack counts its rows without
a lock before it takes one more, so overlapping additions overfill it; `Items` are
as many rows as two requests can fill a pack of `ItemsPerPack` = 1 with.
Adopting a picture extends its life, releasing an old one expires it, in requests
of their own; a sweep deletes what has run out, the rows first and then the files.
A sticker's image cannot be deleted while the sticker is there (ON DELETE
RESTRICT). `excused` names the objects two uses, or a use and a crash, have crossed
over.

## 3. Runs

| run | bounds | asks | result |
|---|---|---|---|
| `DeliveryRetries` | 2 requests, 2 devices, a keyed message that may age and a disappearing one, 3 ids, fetch of 1 | `TypeOK`, `LostOnlyIfLate`, `AtMostOnce` | holds |
| `DeliveryMailbox` | 2 requests, 3 devices (one removed), group, sealed and typing messages, all of which may age, leaving and blocking, 2 ids | `AcceptedIsStored`, `ImplementsMailbox` | holds |
| `DeliveryAtLeastOnce` | as `DeliveryRetries`, nothing ages | `AtLeastOnce` | violated |
| `Realtime` | 1 socket and the poll, frames of 1; 3 rows while nothing fails, 2 with every fault; the session may end | `TypeOK`, `RemovedWasReceived`, `StoppedStaysSilent`, `EveryRowArrives`, `RevokedIsCut`, `EveryRowIsPushed` | holds |
| `Receiver` | poll and 2 frames, 2 envelopes, batches of 2, every fault, crashes | `TypeOK`, `NothingLost`, `NoFalseAlarm`, `EveryRowIsKept` | holds |
| `ReceiverHttp` | poll and 1 frame, 1 envelope, HTTP fails | `InterruptionCostsARedelivery` | violated |
| `OutboxRestarts` | a text, a recording, 1 call, read receipts, 1 failure of any kind, 1 end of the process | `TypeOK`, `SentIsTaken`, `NothingStranded`, `MediaIsSaved`, `UploadedOnce` | holds |
| `OutboxQueues` | a text, 2 recordings (one always refused), 1 call, 2 failures of the network or by refusal | `OutboxIsVisible`, `OnlyUploadsOutliveTheirBubble`, `EveryMessageSettles` | holds |
| `OutboxDropped` | a text, a recording, nothing fails | `DroppedDoesNotGoOut` | violated |
| `Channels` | 3 people, 2 requests in flight, 3 made, 2 posts, a poll of 2 options with 1 choice, 3 epochs | `TypesOK`, `OneOwner`, `CountNeverOverstates`, `OneKeyPerEpoch`, `OverlapsLeaveNoTrace`, `OwnerGoesOnlyOvertaken`, `RightsComeFromAbove`, `NothingForTheRemoved`, `ModerationHolds` | holds |
| `People` | 2 requests in flight; an account with 3 devices, 2 passwords, 2 licences; a group of 2 out of 3; 4 prekeys over 2 days; 2 accounts and 2 numbers; 2 operators; 2 blobs of 3 kinds | `TypesOK`, `SessionsStand`, `LimitsHold`, `SomebodyIsInCharge`, `KeysAreWithinReach`, `NumberIsProved`, `MediaLivesAsUsed`, `FactorsChangeByProof` | holds |
| `PeopleWipe` | as `People` | `WipeErasesMedia` | violated |

Why the bounds are enough. Two requests are what it takes for a lower id to
commit after a higher one, and for a retry to race its first attempt; three ids
let a row pass in between. A fetch of one row makes "oldest first" and
"cumulative" matter with two rows. Three rows make the socket go round its loop,
with a rest to fetch after the acknowledgement. Two pushed frames and the poll
are three batches that may hold the same envelope, one of them in the ratchet,
one behind it and one acknowledged. One socket slot is taken again after every
hang-up, so old frames and acknowledgements meet a new connection; two
connections at once are not among the runs. In `Outbox`, one call next to the
flush can send the same text twice at once. Two recordings, one of which is
refused whenever it is sent, and a text fill both queues: the refused one may be
ahead of the other or behind it, be dropped while it is on its way, and keep the
flush busy while the text waits for its turn. One failure is a retry, two are a retry that fails again; the process ends once, and what
would be saved after that is never read and is left out.

The races of `Channels` and `People` are between two requests, one that has
checked and one that changes what it checked; the third request made sets the
scene (a promotion, a rejoin, a second vote), or comes after. In `ChannelMembers`
three people are an owner, somebody the ownership goes to, and somebody who is
neither; every assignment of roles is an initial state. In `ChannelContent` one
post is there and one is to come. A group of two is full with one more person at
the door; two licences of one and two devices and a default of two let the
third sign-in be refused. Four one-time keys are two batches, two days are
longer than a signed key's life and as long as its grace. Two blobs let a picture
be replaced, and a quota of two be reached. Handlers, requests, people and
whatever else no property tells apart are symmetric in the runs without
liveness.

Deadlock is checked in the runs of `Delivery`, `Realtime` and `Outbox` (where a
flush can always be asked for). In `Receiver` an empty queue, everything saved and
`MaxId` reached is where the app waits for mail; in `Channels` and `People` the
bound on requests made is reached and nobody asks for anything more: there it is
not.

### Disagreements with the code's own words

Four properties state what a comment or a document says, and TLC refutes them:

1. `AtLeastOnce` (`delivery.ts:216`): a row with a lower id that commits after a
   higher one was handed out is deleted by the cumulative acknowledgement.
2. `InterruptionCostsARedelivery` (`messaging_service.dart:738`): a failed
   acknowledgement request discards opened messages; their redelivery is passed
   over and deleted.
3. `DroppedDoesNotGoOut` (`conversation_controller.dart:1832`,
   `chat_screen.dart:637`): `_deliver` does not look at the queue again once the
   upload is answered, so a recording dropped meanwhile is sent. A text that was
   deleted for everyone while it was queued or on its way stays in
   `_unsentTexts`, and its tombstone goes out as an empty text.
4. `WipeErasesMedia` (`services/accounts.ts:110`): the image of a sticker cannot be
   deleted while the sticker's row is there, so the wipe of an account that ever
   made one is refused as a whole. Nothing is erased, and a duress sign-in is
   answered with an error where the README promises that it looks like a
   mistyped password.

Six more are written down in the modules as definitions that the code does not
keep, without a run:

* `Delivery.DuplicateIsStored` (`messages.ts:178`): a first attempt that fails
  between its key and its INSERT makes every retry "accepted" with nothing stored.
* `ChannelMembers.AlwaysOwned` (`docs/security-model.md:503`): a leave that was
  checked before a transfer takes the new owner with it.
* `ChannelContent.NameStaysForward` (`channels.ts:1095`): a slow re-seal replaces the
  name's bytes while the epoch recorded for it stays, so the two differ.
* `Groups.NeverStranded` (`groups.ts:348`): two administrators who step down at
  once each count the other; and a join by the link after the last member has left
  finds a group nobody administers.
* `Accounts.DuressDiffers` (`README.md:1416`): changing the password does not look
  at the duress code, which may then be the same.
* `Accounts.IndexIsNeverReused` (`services/devices.ts:98`): the next index is the
  highest there is plus one, and a wipe takes the rows away.

`NothingLost`, `NoFalseAlarm`, `LostOnlyIfLate`, `OnlyUploadsOutliveTheirBubble`,
`OwnerGoesOnlyOvertaken`, `AdministeredUnlessRaced`, `PicturesLiveAsUsed` and
`OverlapsLeaveNoTrace` are the other side of these and the following: they name
the overlap that breaks a promise and say that nothing *else* does.

What the models show besides, each a short behaviour of theirs:

* The poll acknowledges before it files, while `api_client.dart:493` says after; a
  sender lookup that fails with anything but an `ApiException` cuts the batch short,
  against `conversation_controller.dart:4074`; after a crash between ratchet and
  acknowledgement an opened envelope is reported unreadable, the symptom
  `docs/architecture.md:129` describes.
* A send that had read the device list queues an envelope behind the purge of a
  remote logout, against `devices.ts:59`. A DELETE the database refuses on a socket
  ends the server process (`ws.ts:157`, against `db/pool.ts:28`).
* A receipt that overtakes an answer is walked back until the next one, against
  `message_store.dart:573`; a text on its way is only in the archive once something
  else is saved, against `conversation_controller.dart:477`.
* A channel: leaving and being removed at once rotates twice and counts down twice;
  the use limit of a link is read before the transaction that spends a use, although
  `channels.ts:654` speaks of the race as closed; approvals spend none. Approving,
  adding and the official subscription do not look at a suspension.
* Its contents: an edit, a comment or a reaction that had found its post writes
  after the deletion; two votes of one account together exceed `max_choices`;
  a scheduled post that its author moves to "now" is announced by nobody
  (`docs/channels.md:121`). A post is claimed before its members are woken, so a
  query that fails or a process that ends in between leaves it claimed and nobody
  told, for a sweep the rest of its batch; no later sweep finds it. The comment at
  `channel_notifications.ts:69` accepts a missed push only of a sweep that has
  stopped running.
* An account: a sign-in that overlaps a password change, a revocation or a wipe
  outlives it (`accounts.ts:361`); enabling a factor after a concurrent `off`
  leaves it enabled without a secret; an account whose licence was revoked cannot
  redeem another, whose refusal calls it active (`licenses.ts:179`).
* The grace of a replaced signed prekey is counted from when it was made, not from
  when it was replaced (`privio_crypto.dart:229`); ids of one-time keys come back
  (against `privio_signal_store.dart:372`), which `BundlesOpen` shows to be harmless.
* Two overlapping verifications of one account put the code sent to one number on
  the row of the other (`phone.ts:165`); a code entered after the number was
  removed attaches it again.
* Two owners who remove each other leave a server without one (`admin.ts:748`).
* What the image of a deleted pack's sticker becomes: `docs/stickers.md:86` keeps it
  on purpose, `stickers.ts:133` says it stops being downloadable. The model keeps it,
  as the code does.
* A recording the server refuses for good goes back in front of the outbox
  (`conversation_controller.dart:3012`): it never says so, and the recordings behind
  it wait until the person drops it. Texts do not wait for it.
* One expired image that is still a sticker makes the sweep's DELETE fail, and the
  statements after it do not run (`cleanup.ts:12`); a group's picture is neither
  kept nor released; two changes of one picture may expire the current one; two
  uploads may pass a quota together.

### Fairness

* `FairPush`: promises that are awaited resolve and wakes are dispatched (weak
  fairness of each continuation, per connection), because the event loop runs
  them; a client whose socket is gone connects again, because `_dropAndRetry`
  always arms a timer. Resolving a token gets strong fairness: the revalidation
  timer repeats it for as long as the connection listens.
* `FairPoll`: the app's poll timer fires whether or not a socket is up, so a
  request that can get through again and again does (strong fairness of `Poll`
  and `PollAck`), and the supervisor restarts a dead server.
* `FairSpec` of `Outbox`: a flush is asked for (`start`, the reconnect listener
  and `drain` do, again and again) and goes on, and a request whose failures are
  used up is answered, that for a message in `Barred` with its refusal. Nobody has to retry or drop anything, and nobody's
  failure is fair; weak fairness suffices because failures are bounded.
* `FairSpec` of `Receiver`: the poll fires, futures that can complete do, and
  the debounced save runs.

Nothing is assumed of senders, of revocations, of faults or of the sweep: none
of them has to happen. `EveryRowIsPushed` asks nothing of the poll while nothing
has failed, so the socket has to do it alone. The channel and account modules
state no liveness: their requests either finish or the process ends, which the
models allow at every await, and what must follow a crash is said by invariants
(`NoPostIsForgotten`, `NothingDangles`).

## 4. Proofs

`DeliveryProofs` proves, for any finite set of devices and any accounts,
messages, requests, fetch limit and id bound that satisfy `DeliveryAssumption`:

* `TypeCorrect`: `Spec => []TypeOK`;
* `NothingElseIsLost`: `Spec => []LostOnlyIfLate`;
* `NoDuplicates`: `Spec => []AtMostOnce`;
* `AcceptanceIsDurable`: `Spec => []AcceptedIsStored`;
* `QueueIsMailbox`: `Spec => ImplementsMailbox`.

None of the properties is inductive by itself. The invariant `IInv` adds what
each needs: `Carried` ties what a handler holds to where it is; `Ids` says that
ids are unique over stored rows and open INSERTs together and bounded by the
sequence; `Once` says that a remembered key has one holder between claim and
commit, and none once a row of the message is stored, which is why a second
attempt adds nothing; `Order` says that a queued row older than a handed one was
handed too unless it is late or expired, which turns "delete up to an id" into
"delete what was read"; `Placed` follows a fan-out from its ids to its rows. Each part is preserved with the help of the earlier
ones, one lemma per part and one step per action; `Invariance` puts them
together and the temporal steps are propositional.

For the refinement, `envelopes` is what waits, `expired` and `aged` are what is
overdue, `late` is what came overtaken, and what was stored and is no longer there
is gone. `CommitInsert` is `Put`, `fetch` is `Hand`, `acknowledge`, the sweep and
`purgeQueue` are `Leave`, and everything else is a stutter or a move of clock and
devices. It assumes no order of commits. A mailbox in which nothing comes overtaken
is not what the code implements, by `DeliveryAtLeastOnce`.

`RealtimeProofs` proves, for any sockets and sessions, any frame size, any bounds and
any faults that satisfy `RealtimeAssumption`:

* `TypeCorrect`: `Spec => []TypeOK`;
* `ReceivedFirst`: `Spec => []RemovedWasReceived`;
* `RevokedFallsSilent`: `Spec => StoppedStaysSilent`.

An acknowledgement names one id and removes all before it, so what has to be
invariant is that nothing is passed over: `Unbroken` says that a fetch, a frame or
what is on the wire starts at the oldest row the device has not received, and
`Vouched` that an id in an acknowledgement, wherever it is on its way, was received
with everything before it. `FetchFromOldest` is why a LIMIT over an order leaves no
gap; `Newest`, that a frame has a newest row, is the well-foundedness of the naturals.
That connections come and go and that several sockets and a poll acknowledge the
same rows does not enter, because both parts speak of each set by itself.

`ReceiverProofs` proves, for any pushed frames, batch size, bound and faults that
satisfy `ReceiverAssumption`:

* `TypeCorrect`: `Spec => []TypeOK`;
* `NothingSkipped`: `Spec => []NothingLost`;
* `OpenedOnce`: `Spec => []NoFalseAlarm`.

`OpenedOnce` needs `Turns` (a batch queues once, and only while it decrypts),
`Ascending` (a batch is worked through from its oldest envelope) and `Opened`: what
this process has opened lies behind `handledThrough` or behind the batch in turn, so
what the batch meets next is new unless an earlier process opened it. `NothingSkipped`
needs `NoGap` (what lies behind a mark, or is gone, was opened), `InHand` (when a batch
may hold messages) and `Kept` (what was opened is filed, in hand or was dropped by an
interruption).

`OutboxProofs` proves, for any texts, media, calls, receipts and faults that satisfy
`OutboxAssumption`:

* `ClaimsAreBacked`: `Spec => []SentIsTaken`;
* `NothingIsStranded`: `Spec => []NothingStranded`;
* `RecordingsAreSaved`: `Spec => []MediaIsSaved`;
* `TheOutboxIsVisible`: `Spec => []OutboxIsVisible`;
* `TypesAreKept`: `Spec => []TypeOK`;
* `UploadsAreNotRepeated`: `Spec => UploadedOnce`;
* `OnlyUploadsGoOn`: `Spec => OnlyUploadsOutliveTheirBubble`.

For the first, `Accepted` follows a request past its answer, and `Backed` says the
same of the archive as of the screen, for a restored bubble claims what was saved;
the queues play no part in it. The others are about the queues and share the
invariant `Waits`. `Tidy` relates chat, tombstones, words and outbox, and says so of
the archive as well, because a restore may put any archived state on the screen.
`Asks` says what a sender may have under way; the part of it that is easily missed is
that a recording under way is in the outbox, or has lost its bubble, or is a
tombstone: without it a late failure could write "queued" over a message whose entry
is not there. `Knows` says that an entry in the outbox whose upload is known carries
it, and `Owed` that a text that says it waits is in the queue or under way, whoever
else is sending it too. `OnlyThose` is what the steps need to know of `Only`: the
ranks of the members that stay are, by counting, one-to-one with `1..n`, so nothing
is lost and nothing is added; no induction over the list is needed. `Begins`
lists the steps in which a sender starts to await something, from which both
action properties follow.

`ChannelMembersProofs` proves, for any finite set of accounts, any permissions
and grants, any requests and any settings of the link that satisfy
`MembersAssumption`:

* `TypeCorrect`: `Spec => []TypeOK`;
* `OneOwnerAtMost`: `Spec => []OneOwner`;
* `CountIsModest`: `Spec => []CountNeverOverstates`;
* `OwnersGoOvertaken`: `Spec => OwnerGoesOnlyOvertaken`;
* `RightsAreGranted`: `Spec => RightsComeFromAbove`;
* `SuspendedIsClosed`: `Spec => SuspensionClosesTheDoor`, a part of `ModerationHolds`.

The invariant adds `Overtaken` (a departure under way that would take the owner is
marked as overtaken by the transfer that made them owner: the checks refuse an
owner, so only a transfer can have come in between), `ShutOut` (the same of a join
and a suspension), `Powerless` (no rights without a row, so that the rights of
somebody who comes back come from the row they are given) and `Offered` (a
subscription under way has its row in `official_channel_offers`, which is why the
count is safe for a channel that was never offered).

`ChannelContentProofs` proves, for any accounts, posts and requests and any finite
set of options, from `Parameters` (which the run of `Channels` evaluates):

* `OneKey`: `Spec => []OneKeyPerEpoch`;
* `RemovedAreShutOut`: `Spec => NothingForTheRemoved`;
* `NoTrace`: `Spec => OverlapsLeaveNoTrace`, all five parts of it;
* `SilencedAreSilent`: `Spec => SilencedSaysNothing`, a part of `ModerationHolds`.

`Locked` says what the lock gives: whatever is being sealed is sealed under the
current epoch, and one request at a time goes live, having seen the room there is.
With `Current` (who holds the current key is a member) it makes a stored post
unreadable to whoever was removed. `Keyed` ties `won` to `keys` and puts an
abandoned epoch in the past, where no live post is. For `NoTrace`, `Placed` keeps
two requests from publishing one post; `Blank` says of a post that is neither there
nor deleted under a request that had found it that nothing hangs off it, and that
every edit, comment or reaction under way is about one that is; `Claimed` says that
a claimed post is in the hands of one request or one sweep until it has been told
of, `Followed` that it stays in somebody's hands until then or was cut short there,
and `Awaited` that what is not claimed is about to be; `Counted` says that
a vote about to be written has seen every answer of its account, unless another
vote of theirs has been written since. `Hushed` says that what a silenced account
still has under way is marked as checked before the silence. The lemmas before them
(`KeySteps`, `PostSteps`, `RowSteps`, `NoticeSteps`, `VoteSteps`) say once which steps
touch what, so that each part looks only at the steps it fears.

`ChannelsProofs` carries this over to `Channels`, whose properties are those the run
checks, from `MembersAssumption` and `ContentAssumption`:

* `TypesAreKept`: `Spec2 => []TypesOK`;
* `EpochsHaveOneKey`: `Spec2 => []OneKeyPerEpoch`;
* `NoTraceIsLeft`: `Spec2 => OverlapsLeaveNoTrace`;
* `TheRemovedGetNothing`: `Spec2 => NothingForTheRemoved`;
* `ModerationIsKept`: `Spec2 => ModerationHolds`.

A step of the whole is a step of one view and a stutter of the other, so what it does
to each view's variables is a behaviour of that view (`Viewed`, `Said`). The content
occurs twice, as the instance that `Channels` promises something of and inside the
instance of the module its theorems are in; the lemmas `Same…` say, action by action,
that these are the same.

`PeopleProofs` proves of `People`, from `AccountsAssumption` and `PeopleAssumption`,
for any accounts, operators, keys, numbers, stickers and requests:

* `PeopleTypesAreKept`: `Spec6 => []TypesOK`;
* `SessionsAreRevoked`: `Spec6 => []SessionsStand`;
* `LimitsAreKept`: `Spec6 => []LimitsHold`;
* `SomebodyIsAlwaysInCharge`: `Spec6 => []SomebodyIsInCharge`;
* `KeysStayWithinReach`: `Spec6 => []KeysAreWithinReach`;
* `NumbersAreProved`: `Spec6 => []NumberIsProved`;
* `FilesAreKept`: `Spec6 => []MediaLivesAsUsed`;
* `FactorsAreProved`: `Spec6 => FactorsChangeByProof`.

Each of the six modules has an inductive invariant of its own, since none reads
another's state:

* `PhoneInv`: every row, link and request that names a number carries a code that was
  sent to it (`RowsFit`, `LinksFit`, `AsksFit`), unless two verifications of that
  account crossed; a number has one holder; and a link is discoverable only by
  `Consent`. `NumberIsProved` looks at the link alone; a link comes from a request,
  which comes from a row.
* `GroupInv`: `Ordered` (the order of `added_at` lists each member once), without which
  `RemovePromote` might find nobody to promote in a group that has members; `Listed`
  (whoever waits for the key is a member); `Counted` (a demotion past its check, if
  nothing overlapped it, leaves another administrator); `Led`.
* `StaffInv`: the same of owners (`OwnersCounted`), `StaffKnown` (sessions and requests
  are of operators there are) and `FactorsAsked` (who switches a factor on has shown
  a code of the secret that is in the row, or something came in between).
* `AccountInv`: `CountedIn` (who has been counted in, under the lock, is alone, and there
  is room), `Numbered` (ids are given in order), `SignInsChecked` (a sign-in on its way
  has proved the password there is, or is late, or a revocation is about to end what it
  opens) and `FactorChecked`. `SignInsChecked` needs its last alternative because a
  password change writes the row first and ends the sessions afterwards.
* `MediaInv`: `Filed` (what a request has stored is a file that no row names yet and no
  other request holds; what it is about to unlink no row names any more) and `Used` (an
  object in use lives long or a request is about to make it so, nobody is about to let
  it go, and it has one use), for every object that no overlap has `excused`.
* `PrekeyInv`: `Kept` (every one-time key that is offered, about to be offered, or handed
  out has its private half, and these three do not overlap) and `Signs` (a letter's
  signed key is kept or its grace is over; the one on offer is kept).

Types need more than types: that `code`, `era` and `secrets` stay within their bounds
holds because each request counts them up at most once. `Within(n, W, m)` says that
with the requests `W` that will still count one up, `n` is at most `m`, the requests made.
That the next device index or the oldest prekey exists is the well-foundedness of the
naturals (`LeastNumber`), which the library states without an operator parameter.

The assumptions on the constants are what the modules need to make sense: the creator is
an account, the first operator an operator, "no number" is no number, the app uploads
at least as many keys as the level it refills at, bounds are naturals. TLC evaluates all
of them.

With this, every invariant and every action property that a passing run checks is
also a theorem, for every value of the constants. Left to TLC are:

* liveness (`EveryRowIsPushed`, `EveryRowArrives`, `RevokedIsCut`, `EveryRowIsKept`,
  `EveryMessageSettles`): fairness and `ENABLED` are beyond the prover;
* the four violations, which are counterexamples and need no proof. The definitions
  without a run listed above are not kept by the code, so there is nothing to prove;
* induction over data. No proof here needed it: lists are handled by what they contain
  and by rank, sets by their cardinality.

## 5. Not modelled

Cryptography (libsignal is vendored; the models use that an envelope opens once
and that a message under a key needs it), push vendors, SMS providers and checkout
of licences, the lists and the log of the administration, calls, statuses, the
passcode on the device, screens. What the app does with a channel's keys is left
open: any administrator may claim or give up an epoch at any time. Message contents
do not appear: a message is a model value. Time is a choice: a timer may run out, a
date may pass, a sweep may find a row old. A SQL statement is one atomic step,
except the INSERT of `enqueue`, whose drawing of ids and commit are two; a
transaction is one step unless it reads before it locks, or takes no lock that
matters, and then its statements are steps of their own. Deadlocks between a join
and an addition, which take the same two locks in opposite order (`channels.ts:184`),
are resolved by the database and would be a refusal. Rate limits are left out: they
refuse. One process serves the requests of each model, which loses nothing where
requests share only tables; the official channel's cache, which each process has for
itself, is not modelled.

## 6. Plan

In order of importance:

1. `Outbox` composed with `Delivery` and a recipient: a message the app shows as
   sent is stored, and filed once by the recipient however often it was sent (a
   sealed send carries no key, so only the client id tells). Message timers and
   groups in `Outbox`.
2. `Receiver` fed with rows that commit out of order, composing the first and
   second disagreement; the archive with overlapping saves.
3. The app's side of channel keys: claiming, wrapping, asking and answering, next to
   `ChannelContent`.
4. The sweep as one sequence of statements over `Delivery` and `Media`; liveness of
   announcements and of key requests under the sweeper's timer.
5. `Calls`, `Passcode`.

Proofs planned: that `Receiver` implements a recipient who files each message once, and
the composition of item 1 as a refinement; and stronger forms of what is proved, where an
excuse is wider than it has to be (`late` in `Accounts`, `excused` in `Media`).
