------------------------------- MODULE Outbox -------------------------------
(***************************************************************************)
(* How the app sends: send, sendVoice, retry, discard, deleteForEveryone,  *)
(* deleteForMe, flushOutbox and what they call, _applyReceipt, _persist    *)
(* and restore of app/lib/core/conversation_controller.dart, over          *)
(* sendPayload of app/lib/services/messaging_service.dart and the message  *)
(* store of app/lib/data/message_store.dart.                               *)
(*                                                                         *)
(* Texts and media take two roads.  A text is sent by whoever asked for    *)
(* it, and only a failure puts it in _unsentTexts; a recording or a photo  *)
(* always goes through the outbox, uploaded first.  One flush at a time    *)
(* works both queues.  Every request is an await, and at every await the   *)
(* person may drop the message, a receipt may arrive, the history may be   *)
(* saved, or the process may end.                                          *)
(*                                                                         *)
(* The conversation is a direct one.  What the server does with a copy,    *)
(* and with the same copy again, is the subject of Delivery.               *)
(***************************************************************************)
EXTENDS Naturals, FiniteSets, Sequences, SequencesExt

CONSTANTS
    Texts,       \* text messages
    Media,       \* recordings and photos
    Calls,       \* sends and retries of texts that may be under way at once
    None,        \* no message: what an idle sender sends
    Runner,      \* _runFlush, of which there is one
    Barred,      \* messages the server refuses whenever it is asked
    Receipts,    \* what the recipient tells: a subset of {"delivered", "read"}
    Faults,      \* what may go wrong: a subset of {"network", "refusal", "crash"}
    MaxFailures, \* bound: how many requests fail that need not
    MaxCrashes   \* bound: how often the process ends

Messages == Texts \cup Media
Senders  == Calls \cup {Runner}

ASSUME OutboxAssumption ==
    /\ Texts \cap Media = {}
    /\ Runner \notin Calls /\ None \notin Messages
    /\ Barred \subseteq Messages
    /\ Receipts \subseteq {"delivered", "read"}
    /\ Faults \subseteq {"network", "refusal", "crash"}
    /\ MaxFailures \in Nat /\ MaxCrashes \in Nat

VARIABLES
    chat,        \* the bubbles of the conversation, oldest first
    deleted,     \* bubbles that are tombstones
    state,       \* what each message's bubble says; "none" before there is one, then "gone"
    outbox,      \* _outbox: media that wait
    uploaded,    \* those of them whose entry has a mediaId
    unsent,      \* _unsentTexts, in the order of its keys
    flushing,    \* where _runFlush is; "idle" when _flushing is null
    flushAgain,  \* _flushAgain
    waiting,     \* the texts this pass of the flush still has to send
    step,        \* which request each sender awaits
    sending,     \* the message it is for
    reached,     \* whether the server has accepted it
    scheduled,   \* _saveDebounce is running
    disk,        \* the archive; survives the process
    failures,    \* how many requests failed that need not have
    crashes,     \* how often the process ended
    taken,       \* history: messages the server has accepted
    known        \* history: media whose uploaded blob the app got, and has not lost since

screen  == <<chat, deleted, state>>
queues  == <<outbox, uploaded, unsent>>
pass    == <<flushing, flushAgain, waiting>>
request == <<step, sending, reached>>
archive == <<scheduled, disk>>
faults  == <<failures, crashes>>
vars    == <<chat, deleted, state, outbox, uploaded, unsent, flushing, flushAgain, waiting,
             step, sending, reached, scheduled, disk, failures, crashes, taken, known>>

DeliveryState == <<"queued", "sending", "sent", "delivered", "read", "failed">>

memory == [chat |-> chat, deleted |-> deleted, state |-> state,
           outbox |-> outbox, uploaded |-> uploaded]

Init ==
    /\ chat = <<>> /\ deleted = {} /\ state = [m \in Messages |-> "none"]
    /\ outbox = <<>> /\ uploaded = {} /\ unsent = <<>>
    /\ flushing = "idle" /\ flushAgain = FALSE /\ waiting = <<>>
    /\ step = [s \in Senders |-> "idle"]
    /\ sending = [s \in Senders |-> None]
    /\ reached = [s \in Senders |-> FALSE]
    /\ scheduled = FALSE /\ disk = memory
    /\ failures = 0 /\ crashes = 0
    /\ taken = {} /\ known = {}

-----------------------------------------------------------------------------
(* The store and the queues.                                               *)

onScreen(m) == Contains(chat, m)

updateState(m, s) == state' = IF onScreen(m) THEN [state EXCEPT ![m] = s] ELSE state

isUnsentText(m) == m \in Texts /\ onScreen(m) /\ m \notin deleted /\ state[m] \in {"failed", "queued"}

isQueued(m) == Contains(outbox, m) \/ Contains(unsent, m) \/ isUnsentText(m)

\* The members of S in s, in their order: SelectSeq, of which nothing can be proved.
Only(s, S) ==
    LET at     == {i \in DOMAIN s : s[i] \in S}
        nth(k) == CHOOSE i \in at : Cardinality({j \in at : j <= i}) = k
    IN  [k \in 1..Cardinality(at) |-> s[nth(k)]]

Without(s, m) == IF Contains(s, m) THEN Only(s, Messages \ {m}) ELSE s

\* A map keeps the place of a key that is set again.
wait(m) == unsent' = IF Contains(unsent, m) THEN unsent ELSE Append(unsent, m)

\* The bubble goes, and what it said with it.
removeBubble(m) ==
    /\ chat' = Without(chat, m)
    /\ state' = [state EXCEPT ![m] = "gone"]
    /\ deleted' = deleted \ {m}

-----------------------------------------------------------------------------
(* Requests.  A transient failure is the network, or a server that is down *)
(* or busy; a refusal is every other one, and may come before anything was *)
(* sent, from the key that was pinned.                                     *)

await(s, what, m) ==
    /\ step' = [step EXCEPT ![s] = what]
    /\ sending' = [sending EXCEPT ![s] = m]
    /\ reached' = [reached EXCEPT ![s] = FALSE]

return(s) == await(s, "idle", None)

\* flushOutbox: a flush that is running is asked for another pass.
flushOutbox ==
    IF flushing = "idle"
    THEN flushing' = "drain" /\ flushAgain' = FALSE
    ELSE flushing' = flushing /\ flushAgain' = TRUE

-----------------------------------------------------------------------------
(* What the person does.                                                   *)

send(m, c) ==
    /\ m \in Texts /\ state[m] = "none" /\ step[c] = "idle"
    /\ chat' = Append(chat, m)
    /\ state' = [state EXCEPT ![m] = "sending"]
    /\ await(c, "send", m)
    /\ UNCHANGED <<deleted, queues, pass, archive, faults, taken, known>>

\* Mutant of sendVoice: the recording is left for the next save.
sendVoiceUnsaved(m) ==
    /\ m \in Media /\ state[m] = "none"
    /\ chat' = Append(chat, m)
    /\ state' = [state EXCEPT ![m] = "sending"]
    /\ outbox' = Append(outbox, m)
    /\ flushOutbox
    /\ UNCHANGED <<deleted, uploaded, unsent, waiting, request, archive, faults, taken, known>>

\* sendVoice, and sendPhotos of one photo.
sendVoice(m) ==
    /\ m \in Media /\ state[m] = "none"
    /\ chat' = Append(chat, m)
    /\ state' = [state EXCEPT ![m] = "sending"]
    /\ outbox' = Append(outbox, m)
    /\ scheduled' = TRUE
    /\ flushOutbox
    /\ UNCHANGED <<deleted, uploaded, unsent, waiting, request, disk, faults, taken, known>>

retryMedia(m) ==
    /\ Contains(outbox, m)
    /\ updateState(m, "sending")
    /\ flushOutbox
    /\ UNCHANGED <<chat, deleted, queues, waiting, request, archive, faults, taken, known>>

\* A text is sent by the call itself, whatever a flush is doing.
retryText(m, c) ==
    /\ step[c] = "idle" /\ onScreen(m)
    /\ Contains(unsent, m) \/ isUnsentText(m)
    /\ wait(m)
    /\ updateState(m, "sending")
    /\ await(c, "send", m)
    /\ UNCHANGED <<chat, deleted, outbox, uploaded, pass, archive, faults, taken, known>>

\* Mutant of discard: only the bubble is removed.
discardBubble(m) ==
    /\ onScreen(m) /\ isQueued(m)
    /\ removeBubble(m)
    /\ scheduled' = TRUE
    /\ UNCHANGED <<queues, pass, request, disk, faults, taken, known>>

\* Offered for what is queued.
discard(m) ==
    /\ onScreen(m) /\ isQueued(m)
    /\ outbox' = Without(outbox, m) /\ uploaded' = uploaded \ {m}
    /\ unsent' = Without(unsent, m)
    /\ removeBubble(m)
    /\ scheduled' = TRUE
    /\ UNCHANGED <<pass, request, disk, faults, taken, known>>

\* Offered for what is not queued as the menu opens: a text may be by the time
\* it is chosen, a recording is in the outbox from its first moment or not again.
mayDelete(m) == onScreen(m) /\ m \notin deleted /\ (m \in Texts \/ ~isQueued(m))

deleteForMe(m) ==
    /\ mayDelete(m)
    /\ removeBubble(m)
    /\ scheduled' = TRUE
    /\ UNCHANGED <<queues, pass, request, disk, faults, taken, known>>

deleteForEveryone(m) ==
    /\ mayDelete(m)
    /\ deleted' = deleted \cup {m}
    /\ outbox' = Without(outbox, m) /\ uploaded' = uploaded \ {m}
    /\ scheduled' = TRUE
    /\ UNCHANGED <<chat, state, unsent, pass, request, disk, faults, taken, known>>

-----------------------------------------------------------------------------
(* The flush.  Its steps are told apart where the code awaits; a pass      *)
(* sends the media, then the texts that waited when it got to them.        *)

\* A timer, a reconnect or a drain asks for a flush.
poll ==
    /\ flushOutbox
    /\ UNCHANGED <<screen, queues, waiting, request, archive, faults, taken, known>>

startTexts == flushing' = "texts" /\ waiting' = unsent

drainQueue ==
    /\ flushing = "drain" /\ step[Runner] = "idle"
    /\ IF outbox = <<>>
       THEN startTexts /\ UNCHANGED request
       ELSE LET pending == Head(outbox)
            IN await(Runner, IF pending \in uploaded THEN "send" ELSE "upload", pending)
               /\ UNCHANGED <<flushing, waiting>>
    /\ UNCHANGED <<screen, queues, flushAgain, archive, faults, taken, known>>

\* Mutant of sendWaitingTexts: what waited as the pass began is sent.
sendWaitingTextsUnchecked ==
    /\ flushing = "texts" /\ step[Runner] = "idle" /\ waiting # <<>>
    /\ waiting' = Tail(waiting)
    /\ updateState(Head(waiting), "sending")
    /\ await(Runner, "send", Head(waiting))
    /\ UNCHANGED <<chat, deleted, queues, flushing, flushAgain, archive, faults, taken, known>>

\* A text whose bubble is gone is dropped here; a tombstone is a bubble.
sendWaitingTexts ==
    /\ flushing = "texts" /\ step[Runner] = "idle" /\ waiting # <<>>
    /\ waiting' = Tail(waiting)
    /\ updateState(Head(waiting), "sending")
    /\ IF onScreen(Head(waiting))
       THEN await(Runner, "send", Head(waiting)) /\ UNCHANGED unsent
       ELSE unsent' = Without(unsent, Head(waiting)) /\ UNCHANGED request
    /\ UNCHANGED <<chat, deleted, outbox, uploaded, flushing, flushAgain, archive, faults, taken, known>>

\* Mutant of runFlush: the loop ends and _flushing is not given back.
runFlushUnreleased ==
    /\ flushing = "texts" /\ step[Runner] = "idle" /\ waiting = <<>>
    /\ IF flushAgain /\ (outbox # <<>> \/ unsent # <<>>)
       THEN flushing' = "drain" /\ flushAgain' = FALSE /\ UNCHANGED scheduled
       ELSE flushing' = "over" /\ scheduled' = TRUE /\ UNCHANGED flushAgain
    /\ UNCHANGED <<screen, queues, waiting, request, disk, faults, taken, known>>

runFlush ==
    /\ flushing = "texts" /\ step[Runner] = "idle" /\ waiting = <<>>
    /\ IF flushAgain /\ (outbox # <<>> \/ unsent # <<>>)
       THEN flushing' = "drain" /\ flushAgain' = FALSE /\ UNCHANGED scheduled
       ELSE flushing' = "idle" /\ scheduled' = TRUE /\ UNCHANGED flushAgain
    /\ UNCHANGED <<screen, queues, waiting, request, disk, faults, taken, known>>

-----------------------------------------------------------------------------
(* Answers.  sendPayload is two requests: the copy for the recipient, and  *)
(* the one for this account's own devices, of which a refusal is swallowed.*)

\* Mutant of uploadAnswered: nobody looks whether the entry is still there.
uploadAnsweredUnchecked ==
    /\ step[Runner] = "upload"
    /\ uploaded' = uploaded \cup {sending[Runner]}
    /\ known' = known \cup {sending[Runner]}
    /\ await(Runner, "send", sending[Runner])
    /\ UNCHANGED <<screen, outbox, unsent, pass, archive, faults, taken>>

\* _deliver: the entry, if it is still there, learns what was uploaded.
uploadAnswered ==
    /\ step[Runner] = "upload"
    /\ uploaded' = IF Contains(outbox, sending[Runner])
                   THEN uploaded \cup {sending[Runner]} ELSE uploaded
    /\ known' = known \cup {sending[Runner]}
    /\ await(Runner, "send", sending[Runner])
    /\ UNCHANGED <<screen, outbox, unsent, pass, archive, faults, taken>>

\* The server accepts the copy; the answer is still on its way.
accept(s) ==
    /\ step[s] = "send" /\ ~reached[s] /\ sending[s] \notin Barred
    /\ reached' = [reached EXCEPT ![s] = TRUE]
    /\ taken' = taken \cup {sending[s]}
    /\ UNCHANGED <<screen, queues, pass, step, sending, archive, faults, known>>

\* Mutant of answered: the send is not awaited.
answeredUnawaited(s) ==
    /\ step[s] = "send"
    /\ step' = [step EXCEPT ![s] = "sync"]
    /\ UNCHANGED <<screen, queues, pass, sending, reached, archive, faults, taken, known>>

answered(s) ==
    /\ step[s] = "send" /\ reached[s]
    /\ step' = [step EXCEPT ![s] = "sync"]
    /\ UNCHANGED <<screen, queues, pass, sending, reached, archive, faults, taken, known>>

\* _sendText returns, and _markSent has run.
textSent(s) ==
    /\ step[s] = "sync" /\ sending[s] \in Texts
    /\ unsent' = Without(unsent, sending[s])
    /\ updateState(sending[s], "sent")
    /\ scheduled' = TRUE
    /\ return(s)
    /\ UNCHANGED <<chat, deleted, outbox, uploaded, pass, disk, faults, taken, known>>

\* _deliver returns, and _attachDelivered has run.
mediaSent ==
    /\ step[Runner] = "sync" /\ sending[Runner] \in Media
    /\ outbox' = Without(outbox, sending[Runner])
    /\ uploaded' = uploaded \ {sending[Runner]}
    /\ updateState(sending[Runner], "sent")
    /\ return(Runner)
    /\ UNCHANGED <<chat, deleted, unsent, pass, archive, faults, taken, known>>

\* What fails without having to is counted.
fails == failures < MaxFailures /\ failures' = failures + 1

connectionFails == "network" \in Faults /\ fails

\* Until it is accepted a copy can be refused; the copy for one's own devices
\* ends the send where a pinned key has changed, which is no ApiException.
isRefused(s) ==
    \/ /\ step[s] \in {"upload", "send"} /\ ~reached[s]
       /\ sending[s] \in Barred /\ UNCHANGED failures
    \/ /\ step[s] = "sync" \/ ~reached[s]
       /\ "refusal" \in Faults /\ fails

\* The text waits; a flush goes no further.
textWaits(s) ==
    /\ step[s] # "idle" /\ sending[s] \in Texts
    /\ connectionFails
    /\ wait(sending[s])
    /\ updateState(sending[s], "queued")
    /\ scheduled' = TRUE
    /\ return(s)
    /\ waiting' = IF s = Runner THEN <<>> ELSE waiting
    /\ UNCHANGED <<chat, deleted, outbox, uploaded, flushing, flushAgain, disk, crashes,
                   taken, known>>

textRefused(s) ==
    /\ step[s] # "idle" /\ sending[s] \in Texts
    /\ isRefused(s)
    /\ unsent' = Without(unsent, sending[s])
    /\ updateState(sending[s], "failed")
    /\ scheduled' = TRUE
    /\ return(s)
    /\ UNCHANGED <<chat, deleted, outbox, uploaded, pass, disk, crashes, taken, known>>

\* Mutant of mediaWaits: the entry is put back as it was before the upload.
mediaWaitsStale ==
    /\ step[Runner] # "idle" /\ sending[Runner] \in Media
    /\ connectionFails \/ isRefused(Runner)
    /\ uploaded' = uploaded \ {sending[Runner]}
    /\ updateState(sending[Runner], "queued")
    /\ return(Runner)
    /\ startTexts
    /\ UNCHANGED <<chat, deleted, outbox, unsent, flushAgain, archive, crashes, taken, known>>

\* Mutant of mediaWaits: the pass tries the same entry again before any text.
mediaWaitsRetrying ==
    /\ step[Runner] # "idle" /\ sending[Runner] \in Media
    /\ connectionFails \/ isRefused(Runner)
    /\ updateState(sending[Runner], "queued")
    /\ return(Runner)
    /\ UNCHANGED <<chat, deleted, queues, pass, archive, crashes, taken, known>>

\* Whatever went wrong, the entry stays in front and the pass goes on to the texts.
mediaWaits ==
    /\ step[Runner] # "idle" /\ sending[Runner] \in Media
    /\ connectionFails \/ isRefused(Runner)
    /\ updateState(sending[Runner], "queued")
    /\ return(Runner)
    /\ startTexts
    /\ UNCHANGED <<chat, deleted, queues, flushAgain, archive, crashes, taken, known>>

\* Receipts come in any order, as soon as the server has the message, and again.
applyReceipt(m, s) ==
    /\ m \in taken /\ onScreen(m)
    /\ SelectInSeq(DeliveryState, LAMBDA d : d = state[m])
           < SelectInSeq(DeliveryState, LAMBDA d : d = s)
    /\ state' = [state EXCEPT ![m] = s]
    /\ scheduled' = TRUE
    /\ UNCHANGED <<chat, deleted, queues, pass, request, disk, faults, taken, known>>

-----------------------------------------------------------------------------
(* The archive, and the end of the process.  What is saved when no process *)
(* will end any more is never read, and is left out.                       *)

save ==
    /\ scheduled /\ crashes < MaxCrashes
    /\ disk' = memory /\ scheduled' = FALSE
    /\ UNCHANGED <<screen, queues, pass, request, faults, taken, known>>

\* The app goes to the background: saved at once, whether or not a save is due.
flush ==
    /\ disk # memory /\ ~scheduled /\ crashes < MaxCrashes
    /\ disk' = memory
    /\ UNCHANGED <<screen, queues, pass, request, scheduled, faults, taken, known>>

\* Mutant of waitsAgain: a text on its way is not queued again.
waitsAgainIfQueued ==
    Only(disk.chat, {m \in Texts \ disk.deleted : disk.state[m] = "queued"})

\* Texts that were queued or on their way as the archive was written.
waitsAgain ==
    Only(disk.chat, {m \in Texts \ disk.deleted : disk.state[m] \in {"queued", "sending"}})

\* The process ends and a new one restores the archive, and a flush begins.  A
\* request that was out may have been, or may yet be, accepted.
restore ==
    /\ "crash" \in Faults /\ crashes < MaxCrashes
    /\ crashes' = crashes + 1
    /\ chat' = disk.chat /\ deleted' = disk.deleted
    /\ outbox' = disk.outbox /\ uploaded' = disk.uploaded
    /\ state' = [m \in Messages |-> IF Contains(disk.chat, m) THEN disk.state[m]
                                    ELSE IF state[m] = "none" THEN "none" ELSE "gone"]
    /\ unsent' = waitsAgain
    /\ flushing' = "drain" /\ flushAgain' = FALSE /\ waiting' = <<>>
    /\ step' = [s \in Senders |-> "idle"]
    /\ sending' = [s \in Senders |-> None]
    /\ reached' = [s \in Senders |-> FALSE]
    /\ \E out \in SUBSET {sending[s] : s \in {s \in Senders : step[s] = "send"}} :
          taken' = taken \cup (out \ Barred)
    /\ known' = disk.uploaded
    /\ scheduled' = FALSE
    /\ UNCHANGED <<disk, failures>>

-----------------------------------------------------------------------------

Person ==
    \/ \E m \in Texts, c \in Calls : send(m, c) \/ retryText(m, c)
    \/ \E m \in Media : sendVoice(m) \/ retryMedia(m)
    \/ \E m \in Messages : discard(m) \/ deleteForMe(m) \/ deleteForEveryone(m)

Answer(s) ==
    \/ accept(s) \/ answered(s) \/ textSent(s) \/ textWaits(s) \/ textRefused(s)

Next ==
    \/ Person
    \/ poll \/ drainQueue \/ sendWaitingTexts \/ runFlush
    \/ uploadAnswered \/ mediaSent \/ mediaWaits
    \/ \E s \in Senders : Answer(s)
    \/ \E m \in Messages, s \in Receipts : applyReceipt(m, s)
    \/ save \/ flush \/ restore

Spec == Init /\ [][Next]_vars

\* Flushes are asked for and go on, and a request that does not fail is answered,
\* if only by a refusal.
Fairness ==
    /\ WF_vars(poll)
    /\ WF_vars(drainQueue \/ sendWaitingTexts \/ runFlush)
    /\ WF_vars(uploadAnswered \/ mediaSent \/ (mediaWaits /\ UNCHANGED failures))
    /\ \A s \in Senders : WF_vars(accept(s) \/ answered(s) \/ textSent(s) \/ textRefused(s))

FairSpec == Spec /\ Fairness

-----------------------------------------------------------------------------
(* Properties.                                                             *)

TypeOK ==
    /\ chat \in Seq(Messages) /\ outbox \in Seq(Media) /\ unsent \in Seq(Texts)
    /\ waiting \in Seq(Texts)
    /\ deleted \subseteq ToSet(chat) /\ uploaded \subseteq ToSet(outbox)
    /\ state \in [Messages -> ToSet(DeliveryState) \cup {"none", "gone"}]
    /\ \A m \in Messages : onScreen(m) <=> state[m] \notin {"none", "gone"}
    /\ flushing \in {"idle", "drain", "texts"} /\ flushAgain \in BOOLEAN
    /\ step \in [Senders -> {"idle", "upload", "send", "sync"}]
    /\ sending \in [Senders -> Messages \cup {None}]
    /\ \A s \in Senders : step[s] = "idle" <=> sending[s] = None
    /\ reached \in [Senders -> BOOLEAN]
    /\ scheduled \in BOOLEAN /\ failures \in 0..MaxFailures /\ crashes \in 0..MaxCrashes
    /\ taken \subseteq Messages /\ known \subseteq Media

\* What the bubble claims the server can back up (conversation_controller.dart:908).
SentIsTaken ==
    \A m \in Messages : state[m] \in {"sent", "delivered", "read"} => m \in taken

underWay(m) == \E s \in Senders : sending[s] = m

\* A message that says it waits or is on its way is in a queue or in a request:
\* nothing that looks owed has been forgotten.
NothingStranded ==
    \A m \in Messages \ deleted :
        state[m] \in {"queued", "sending"}
            => Contains(outbox, m) \/ Contains(unsent, m) \/ underWay(m)

\* What waits in the outbox has a bubble to drop it by.
OutboxIsVisible == \A m \in Media : Contains(outbox, m) => onScreen(m) /\ m \notin deleted

\* A recording is in the archive, or about to be, from the moment it is in the
\* chat: it "has to survive until there is signal again" (outbox.dart:8).
MediaIsSaved == \A m \in Media : Contains(outbox, m) => Contains(disk.outbox, m) \/ scheduled

begins(s, what) == step[s] # what /\ step'[s] = what

\* Once its upload is known a recording is not uploaded again, whatever failed
\* since; only the end of the process forgets (outbox.dart:66).
UploadedOnce == [][begins(Runner, "upload") => sending'[Runner] \notin known]_vars

\* A copy of a message whose bubble is gone only goes out when its upload was
\* under way as the bubble went; a text's only as a tombstone.
OnlyUploadsOutliveTheirBubble ==
    [][\A s \in Senders : begins(s, "send") => Contains(chat', sending'[s]) \/ step[s] = "upload"]_vars

\* "Anything still queued for this message should not go out now"
\* (conversation_controller.dart:1832); "Removing only the bubble would leave the
\* message to arrive later out of a queue the person thought was empty"
\* (chat_screen.dart:637).
DroppedDoesNotGoOut ==
    [][\A s \in Senders : begins(s, "send")
           => Contains(chat', sending'[s]) /\ sending'[s] \notin deleted']_vars

settled(m) == m \in taken \cup deleted \/ state[m] \in {"failed", "gone"}

\* A recording the server refuses stays in front of the outbox
\* (conversation_controller.dart:3012-3026): it waits for ever, and so does
\* every recording behind it, until the person drops it.
heldUp(m) == \E i, j \in DOMAIN outbox : i <= j /\ outbox[i] \in Barred /\ outbox[j] = m

\* Every message is accepted in the end, refused, or dropped, once the network
\* has stopped failing, or held up by a recording the server refuses.  A text is
\* never held up: no recording, however often it is refused, keeps one waiting.
EveryMessageSettles == \A m \in Messages : onScreen(m) ~> settled(m) \/ heldUp(m)

=============================================================================
