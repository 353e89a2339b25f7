------------------------------ MODULE Receiver ------------------------------
(***************************************************************************)
(* What the app does with envelopes between the queue and the screen:      *)
(* receive, decryptEnvelopes and _decryptBatch of                          *)
(* app/lib/services/messaging_service.dart, and drain, _onPushedEnvelopes, *)
(* _fileResult and _persist of app/lib/core/conversation_controller.dart.  *)
(*                                                                         *)
(* Batches come down two channels at once, the poll and the socket, and    *)
(* may hold the same envelopes.  They take turns in the ratchet, which     *)
(* opens every envelope once and never again; everything before and after  *)
(* that turn interleaves.  The ratchet's state is written through at once, *)
(* the history only when a timer gets to it.                               *)
(***************************************************************************)
EXTENDS Naturals, FiniteSets, Sequences

CONSTANTS
    Poll,      \* the fallback poll: one drain at a time
    Pushes,    \* frames of the socket that may be in the app at once
    Batch,     \* envelopes in one batch
    MaxId,     \* bound: envelopes that are ever queued
    Faults     \* what may go wrong: a subset of {"socket", "http", "lookup", "crash"}

ASSUME ReceiverAssumption ==
    /\ Poll \notin Pushes
    /\ Batch \in Nat \ {0}
    /\ MaxId \in Nat
    /\ Faults \subseteq {"socket", "http", "lookup", "crash"}

Channels == Pushes \cup {Poll}
Ids      == 1..MaxId

VARIABLES
    last,            \* id of the newest envelope
    queue,           \* ids the server still has
    phase,           \* where each channel's batch is
    batch,           \* envelopes of the batch not looked at yet
    highestHandled,  \* highest id of the batch looked at
    messages,        \* opened, not filed
    failures,        \* would not open, not reported
    turns,           \* channels queued for the ratchet, the first one in it
    handledThrough,  \* _handledThrough
    consumed,        \* envelopes the ratchet has opened; survives a crash
    filed,           \* envelopes whose message is in the store
    saved,           \* what the archive holds of it; survives a crash
    reported,        \* history: envelopes reported as unreadable
    dropped,         \* history: opened messages that an interruption discarded
    orphaned,        \* history: what the ratchet had opened when a process died
    faults           \* what may go wrong in this behaviour, Faults or only the socket

server  == <<last, queue>>
task    == <<phase, batch, highestHandled, messages, failures>>
ratchet == <<turns, handledThrough, consumed>>
shown   == <<filed, saved, reported>>
history == <<dropped, orphaned, faults>>
vars    == <<last, queue, phase, batch, highestHandled, messages, failures, turns,
             handledThrough, consumed, filed, saved, reported, dropped, orphaned,
             faults>>

upTo(n) == {r \in queue : r <= n}

oldest == {r \in queue : Cardinality({q \in queue : q <= r}) <= Batch}

\* The batch's future ends, with whatever it still held.
done(c) ==
    /\ phase' = [phase EXCEPT ![c] = "idle"]
    /\ batch' = [batch EXCEPT ![c] = {}]
    /\ highestHandled' = [highestHandled EXCEPT ![c] = 0]
    /\ messages' = [messages EXCEPT ![c] = {}]
    /\ failures' = [failures EXCEPT ![c] = {}]

goTo(c, p) ==
    /\ phase' = [phase EXCEPT ![c] = p]
    /\ UNCHANGED <<batch, highestHandled, messages, failures>>

-----------------------------------------------------------------------------
(* Towards the ratchet                                                     *)

Arrive ==
    /\ last < MaxId
    /\ last' = last + 1
    /\ queue' = queue \cup {last + 1}
    /\ UNCHANGED <<task, ratchet, shown, history>>

\* The server reads the oldest rows, for a poll or for a frame.
Read(c) ==
    /\ phase[c] = "idle" /\ queue # {}
    /\ phase' = [phase EXCEPT ![c] = "coming"]
    /\ batch' = [batch EXCEPT ![c] = oldest]
    /\ UNCHANGED <<server, highestHandled, messages, failures, ratchet, shown, history>>

NeverComes(c) ==
    /\ (IF c = Poll THEN "http" ELSE "socket") \in faults
    /\ phase[c] = "coming"
    /\ done(c)
    /\ UNCHANGED <<server, ratchet, shown, history>>

\* decryptEnvelopes: queue behind whatever batch is already in the ratchet.
decryptEnvelopes(c) ==
    /\ phase[c] = "coming"
    /\ goTo(c, "decrypting")
    /\ turns' = Append(turns, c)
    /\ UNCHANGED <<server, handledThrough, consumed, shown, history>>

\* Mutant of decryptNext: batches do not wait for one another.
decryptNextTogether(c) ==
    /\ phase[c] = "decrypting"
    /\ batch[c] # {}
    /\ \E r \in batch[c] :
         /\ \A q \in batch[c] : r <= q
         /\ batch' = [batch EXCEPT ![c] = @ \ {r}]
         /\ highestHandled' = [highestHandled EXCEPT ![c] = r]
         /\ \/ /\ r > handledThrough /\ r \notin consumed
               /\ messages' = [messages EXCEPT ![c] = @ \cup {r}]
               /\ consumed' = consumed \cup {r}
               /\ UNCHANGED failures
            \/ /\ r > handledThrough /\ r \in consumed
               /\ failures' = [failures EXCEPT ![c] = @ \cup {r}]
               /\ UNCHANGED <<messages, consumed>>
            \/ r <= handledThrough /\ UNCHANGED <<messages, failures, consumed>>
    /\ UNCHANGED <<server, phase, turns, handledThrough, shown, history>>

\* _decryptBatch, one envelope.  What was opened on the other channel is
\* passed over; the ratchet refuses what it has opened before.
decryptNext(c) ==
    /\ turns # <<>> /\ Head(turns) = c
    /\ batch[c] # {}
    /\ \E r \in batch[c] :
         /\ \A q \in batch[c] : r <= q
         /\ batch' = [batch EXCEPT ![c] = @ \ {r}]
         /\ highestHandled' = [highestHandled EXCEPT ![c] = r]
         /\ \/ /\ r <= handledThrough
               /\ UNCHANGED <<messages, failures, consumed>>
            \/ /\ r > handledThrough /\ r \notin consumed
               /\ messages' = [messages EXCEPT ![c] = @ \cup {r}]
               /\ consumed' = consumed \cup {r}
               /\ UNCHANGED failures
            \/ /\ r > handledThrough /\ r \in consumed
               /\ failures' = [failures EXCEPT ![c] = @ \cup {r}]
               /\ UNCHANGED <<messages, consumed>>
    /\ UNCHANGED <<server, phase, turns, handledThrough, shown, history>>

\* The end of a turn: h is the new handledThrough, t the turns that are left, p
\* where the batch goes.
endTurn(c, h, t, p) ==
    /\ turns # <<>> /\ Head(turns) = c
    /\ batch[c] = {}
    /\ handledThrough' = h /\ turns' = t
    /\ goTo(c, p)
    /\ UNCHANGED <<server, consumed, shown, history>>

highest(c) ==
    IF highestHandled[c] > handledThrough THEN highestHandled[c] ELSE handledThrough

\* Mutant of decrypted: the next batch starts one envelope too far.
decryptedOffByOne(c) ==
    endTurn(c, highest(c) + 1, Tail(turns), IF c = Poll THEN "acking" ELSE "filing")

\* Mutant of decrypted: the turn is not given back.
decryptedKeepsTurn(c) ==
    endTurn(c, highest(c), turns, IF c = Poll THEN "acking" ELSE "filing")

\* Mutant of decrypted: a pushed batch is acknowledged, and done with, unfiled.
decryptedAcksFirst(c) == endTurn(c, highest(c), Tail(turns), "acking")

\* The turn passes on.  A poll acknowledges next; a pushed batch is filed first.
decrypted(c) ==
    endTurn(c, highest(c), Tail(turns), IF c = Poll THEN "acking" ELSE "filing")

-----------------------------------------------------------------------------
(* Acknowledging                                                           *)

\* DELETE /v1/messages, awaited inside receive().
acknowledge ==
    /\ phase[Poll] = "acking"
    /\ queue' = queue \ upTo(highestHandled[Poll])
    /\ goTo(Poll, "filing")
    /\ UNCHANGED <<last, ratchet, shown, history>>

\* The request or its answer is lost: receive() throws, and the result it had
\* in hand goes with it.
acknowledgeFails ==
    /\ "http" \in faults
    /\ phase[Poll] = "acking"
    /\ queue' \in {queue, queue \ upTo(highestHandled[Poll])}
    /\ dropped' = dropped \cup messages[Poll]
    /\ done(Poll)
    /\ UNCHANGED <<last, ratchet, shown, orphaned, faults>>

\* The ack frame on the socket, which nobody answers.
acknowledgeOnSocket(c) ==
    /\ c \in Pushes /\ phase[c] = "acking"
    /\ \/ queue' = queue \ upTo(highestHandled[c])
       \/ "socket" \in faults /\ UNCHANGED queue
    /\ done(c)
    /\ UNCHANGED <<last, ratchet, shown, history>>

-----------------------------------------------------------------------------
(* Filing                                                                  *)

fileIncoming(c) ==
    /\ phase[c] = "filing"
    /\ \E r \in messages[c] :
         /\ \A q \in messages[c] : r <= q
         /\ messages' = [messages EXCEPT ![c] = @ \ {r}]
         /\ filed' = filed \cup {r}
    /\ UNCHANGED <<server, phase, batch, highestHandled, failures, ratchet, saved, reported,
                   history>>

\* _resolveSender asks the server who a stranger is, and only an answer that
\* says no is caught: anything else ends the batch.
fileIncomingFails(c) ==
    /\ "lookup" \in faults
    /\ phase[c] = "filing" /\ messages[c] # {}
    /\ dropped' = dropped \cup messages[c]
    /\ done(c)
    /\ UNCHANGED <<server, ratchet, shown, orphaned, faults>>

\* _handleFailures, then the end of drain or the acknowledgement of a push.
fileResult(c) ==
    /\ phase[c] = "filing" /\ messages[c] = {}
    /\ reported' = reported \cup failures[c]
    /\ IF c = Poll THEN done(c) ELSE goTo(c, "acking")
    /\ UNCHANGED <<server, ratchet, filed, saved, history>>

\* The debounced archive write of _persist, or flush.
save ==
    /\ saved # filed
    /\ saved' = filed
    /\ UNCHANGED <<server, task, ratchet, filed, reported, history>>

\* The process ends and is started again.
Crash ==
    /\ "crash" \in faults
    /\ phase' = [c \in Channels |-> "idle"]
    /\ batch' = [c \in Channels |-> {}]
    /\ highestHandled' = [c \in Channels |-> 0]
    /\ messages' = [c \in Channels |-> {}]
    /\ failures' = [c \in Channels |-> {}]
    /\ turns' = <<>> /\ handledThrough' = 0
    /\ filed' = saved
    /\ dropped' = dropped \cup (UNION {messages[c] : c \in Channels}) \cup (filed \ saved)
    /\ orphaned' = consumed
    /\ UNCHANGED <<server, consumed, saved, reported, faults>>

-----------------------------------------------------------------------------
(* Behaviours                                                              *)

Init ==
    /\ last = 0 /\ queue = {}
    /\ phase = [c \in Channels |-> "idle"]
    /\ batch = [c \in Channels |-> {}]
    /\ highestHandled = [c \in Channels |-> 0]
    /\ messages = [c \in Channels |-> {}]
    /\ failures = [c \in Channels |-> {}]
    /\ turns = <<>> /\ handledThrough = 0 /\ consumed = {}
    /\ filed = {} /\ saved = {} /\ reported = {}
    /\ dropped = {} /\ orphaned = {}
    /\ faults \in {Faults, Faults \cap {"socket"}}

\* What the app's event loop gets round to without anything new from outside.
AppStep(c) ==
    \/ decryptEnvelopes(c) \/ decryptNext(c) \/ decrypted(c)
    \/ acknowledgeOnSocket(c) \/ fileIncoming(c) \/ fileResult(c)
    \/ c = Poll /\ acknowledge

Next ==
    \/ Arrive
    \/ \E c \in Channels : Read(c) \/ NeverComes(c) \/ AppStep(c) \/ fileIncomingFails(c)
    \/ acknowledgeFails
    \/ save
    \/ Crash

Spec == Init /\ [][Next]_vars

\* The poll's timer keeps firing, and futures that can complete do.
FairSpec ==
    /\ Spec
    /\ WF_vars(Read(Poll))
    /\ \A c \in Channels : WF_vars(AppStep(c))
    /\ WF_vars(save)

-----------------------------------------------------------------------------
(* Properties                                                              *)

gone == (1..last) \ queue
held == UNION {messages[c] : c \in Channels}

TypeOK ==
    /\ last \in 0..MaxId
    /\ queue \subseteq 1..last
    /\ phase \in [Channels -> {"idle", "coming", "decrypting", "acking", "filing"}]
    /\ batch \in [Channels -> SUBSET (1..last)]
    /\ highestHandled \in [Channels -> 0..last]
    /\ messages \in [Channels -> SUBSET (1..last)]
    /\ failures \in [Channels -> SUBSET (1..last)]
    /\ turns \in Seq(Channels)
    /\ handledThrough \in 0..last
    /\ consumed \subseteq 1..last
    /\ filed \subseteq 1..last /\ saved \subseteq filed /\ reported \subseteq 1..last
    /\ dropped \subseteq 1..last /\ orphaned \subseteq consumed
    /\ faults \subseteq Faults

\* An envelope is deleted from the server only when its message is in the
\* store or in the hands of a batch about to be filed -- also when the other
\* channel acknowledged it, having skipped it as already opened.  What breaks
\* this is a batch cut short after the ratchet, and nothing else.
NothingLost == gone \subseteq filed \cup held \cup dropped

\* An envelope that both channels deliver is never taken for unreadable: within
\* the life of a process the ratchet sees each envelope once, whatever order
\* the batches come in, are lost or fail.
NoFalseAlarm == reported \cup (UNION {failures[c] : c \in Channels}) \subseteq orphaned

\* Every envelope is filed and archived in the end, with the poll alone if the
\* socket loses frames and acknowledgements.
EveryRowIsKept ==
    \A r \in Ids : (faults \subseteq {"socket"} /\ r \in queue) ~> (r \in saved)

\* What services/messaging_service.dart:738 says of receive: an envelope stays
\* on the server until this device has opened it, so what interrupts a batch
\* costs a redelivery rather than a lost message.
InterruptionCostsARedelivery == gone \subseteq filed \cup held
=============================================================================
