--------------------------- MODULE ReceiverProofs ---------------------------
(***************************************************************************)
(* What Receiver.tla keeps for every number of pushed frames, every batch  *)
(* size and every set of faults.  The inductive invariant is made of parts,*)
(* and each is proved with the help of those before it:                    *)
(*                                                                         *)
(*   TypeOK     the types;                                                 *)
(*   Turns      a batch queues for the ratchet once, while it decrypts;    *)
(*   Ascending  a batch is worked through from its oldest envelope on;     *)
(*   Opened     what this process opened is behind the mark or the turn;   *)
(*   Alarms     what would not open was opened by a process that ended;    *)
(*   NoGap      what lies behind a mark, or is deleted, has been opened;   *)
(*   InHand     a batch holds messages only between opening and filing;    *)
(*   Kept       an opened message is filed, about to be, or interrupted.   *)
(***************************************************************************)
EXTENDS Receiver, FiniteSetTheorems, TLAPS

\* _ratchet hands the turn on in the order the batches came to it.
Turns ==
    /\ \A i \in 1..Len(turns) : phase[turns[i]] = "decrypting"
    /\ \A i, j \in 1..Len(turns) : turns[i] = turns[j] => i = j

\* Nothing of a batch is looked at before its turn, and then the oldest first.
Ascending ==
    \A c \in Channels :
        /\ phase[c] \in {"idle", "coming"} => highestHandled[c] = 0
        /\ \A r \in batch[c] : highestHandled[c] < r

\* Why skipping up to handledThrough is enough to open nothing twice.
Opened ==
    \A x \in consumed \ orphaned :
        \/ x <= handledThrough
        \/ turns # <<>> /\ x <= highestHandled[Head(turns)]

\* An envelope that would not open is one the ratchet opened in an earlier life.
Alarms ==
    /\ reported \subseteq orphaned
    /\ \A c \in Channels : failures[c] \subseteq orphaned

\* Why acknowledging up to an id deletes nothing unopened: batches are the oldest
\* rows of the queue, and the queue loses rows from its old end only.
NoGap ==
    /\ gone \subseteq consumed
    /\ \A r \in 1..last : r <= handledThrough => r \in consumed
    /\ \A c \in Channels, r \in 1..last : r <= highestHandled[c] => r \in consumed
    /\ \A c \in Channels : \A b \in batch[c], r \in 1..last :
          r < b => r \in batch[c] \cup consumed

\* The poll acknowledges what it holds; a pushed batch first files it.
InHand ==
    \A c \in Channels :
        phase[c] \in {"idle", "coming"} \/ (c # Poll /\ phase[c] = "acking") => messages[c] = {}

\* What the ratchet has opened it cannot open again, so it must be somewhere.
Kept == consumed \subseteq filed \cup held \cup dropped

-----------------------------------------------------------------------------
(* Types                                                                   *)

\* Nothing is queued, opened or stored at first.
LEMMA TypeInit == Init => TypeOK
  BY ReceiverAssumption DEF Init, TypeOK, ReceiverAssumption

\* The poll is one of the channels.
LEMMA PollIsAChannel == Poll \in Channels
  BY DEF Channels

\* A batch that ends leaves the types as they are.
LEMMA DoneType ==
  ASSUME TypeOK, NEW c \in Channels, done(c), last' = last
  PROVE  /\ phase' \in [Channels -> {"idle", "coming", "decrypting", "acking", "filing"}]
         /\ batch' \in [Channels -> SUBSET (1..last')]
         /\ highestHandled' \in [Channels -> 0..last']
         /\ messages' \in [Channels -> SUBSET (1..last')]
         /\ failures' \in [Channels -> SUBSET (1..last')]
  BY DEF TypeOK, done

\* Every step of every channel keeps the types.
LEMMA TypeNext == TypeOK /\ [Next]_vars => TypeOK'
<1> SUFFICES ASSUME TypeOK, [Next]_vars PROVE TypeOK'
  OBVIOUS
<1> USE PollIsAChannel
<1>1. CASE Arrive
  <2>1. /\ last' \in 0..MaxId /\ 1..last \subseteq 1..last' /\ 0..last \subseteq 0..last'
        /\ last' \in 1..last'
    BY <1>1, ReceiverAssumption DEF Arrive, TypeOK, ReceiverAssumption
  <2>2. /\ batch' \in [Channels -> SUBSET (1..last')]
        /\ messages' \in [Channels -> SUBSET (1..last')]
        /\ failures' \in [Channels -> SUBSET (1..last')]
        /\ highestHandled' \in [Channels -> 0..last']
    BY <1>1, <2>1 DEF Arrive, TypeOK, task
  <2> QED
    BY <1>1, <2>1, <2>2 DEF Arrive, TypeOK, task, ratchet, shown, history
<1>2. ASSUME NEW c \in Channels, Read(c) PROVE TypeOK'
  <2>1. oldest \subseteq 1..last
    BY DEF TypeOK, oldest
  <2> QED
    BY <1>2, <2>1 DEF Read, TypeOK, server, ratchet, shown, history
<1>3. ASSUME NEW c \in Channels, NeverComes(c) PROVE TypeOK'
  BY <1>3, DoneType DEF NeverComes, TypeOK, server, ratchet, shown, history
<1>4. ASSUME NEW c \in Channels, decryptEnvelopes(c) PROVE TypeOK'
  BY <1>4 DEF decryptEnvelopes, goTo, TypeOK, server, shown, history
<1>5. ASSUME NEW c \in Channels, decryptNext(c) PROVE TypeOK'
  <2>1. PICK r \in batch[c] :
          /\ batch' = [batch EXCEPT ![c] = @ \ {r}]
          /\ highestHandled' = [highestHandled EXCEPT ![c] = r]
          /\ messages' \in {messages, [messages EXCEPT ![c] = @ \cup {r}]}
          /\ failures' \in {failures, [failures EXCEPT ![c] = @ \cup {r}]}
          /\ consumed' \in {consumed, consumed \cup {r}}
    BY <1>5 DEF decryptNext
  <2>2. r \in 1..last /\ r \in 0..last
    BY DEF TypeOK
  <2>3. /\ batch' \in [Channels -> SUBSET (1..last)]
        /\ highestHandled' \in [Channels -> 0..last]
    BY <2>1, <2>2 DEF TypeOK
  <2>4. messages' \in [Channels -> SUBSET (1..last)]
    BY <2>1, <2>2 DEF TypeOK
  <2>5. failures' \in [Channels -> SUBSET (1..last)]
    BY <2>1, <2>2 DEF TypeOK
  <2>6. consumed' \subseteq 1..last /\ orphaned \subseteq consumed'
    BY <2>1, <2>2 DEF TypeOK
  <2>7. UNCHANGED <<last, queue, phase, turns, handledThrough, filed, saved, reported,
                    dropped, orphaned, faults>>
    BY <1>5 DEF decryptNext, server, shown, history
  <2> QED
    BY <2>3, <2>4, <2>5, <2>6, <2>7 DEF TypeOK
<1>6. ASSUME NEW c \in Channels, decrypted(c) PROVE TypeOK'
  <2>1. highest(c) \in 0..last
    BY DEF highest, TypeOK
  <2>2. Tail(turns) \in Seq(Channels)
    BY <1>6 DEF decrypted, endTurn, TypeOK
  <2> QED
    BY <1>6, <2>1, <2>2 DEF decrypted, endTurn, goTo, TypeOK, server, shown, history
<1>7. ASSUME NEW c \in Channels, acknowledgeOnSocket(c) PROVE TypeOK'
  BY <1>7, DoneType DEF acknowledgeOnSocket, TypeOK, ratchet, shown, history
<1>8. ASSUME NEW c \in Channels, fileIncoming(c) PROVE TypeOK'
  BY <1>8 DEF fileIncoming, TypeOK, server, ratchet, history
<1>9. ASSUME NEW c \in Channels, fileResult(c) PROVE TypeOK'
  <2>1. CASE c = Poll
    BY <1>9, <2>1, DoneType DEF fileResult, TypeOK, server, ratchet, history
  <2>2. CASE c # Poll
    BY <1>9, <2>2 DEF fileResult, goTo, TypeOK, server, ratchet, history
  <2> QED
    BY <2>1, <2>2
<1>10. CASE acknowledge
  BY <1>10 DEF acknowledge, goTo, TypeOK, ratchet, shown, history
<1>11. ASSUME NEW c \in Channels, fileIncomingFails(c) PROVE TypeOK'
  BY <1>11, DoneType DEF fileIncomingFails, TypeOK, server, ratchet, shown
<1>12. CASE acknowledgeFails
  BY <1>12, DoneType DEF acknowledgeFails, TypeOK, ratchet, shown
<1>13. CASE save
  BY <1>13 DEF save, TypeOK, server, task, ratchet, history
<1>14. CASE Crash
  <2>1. held \subseteq 1..last
    BY DEF TypeOK, held
  <2>2. dropped' \subseteq 1..last
    BY <1>14, <2>1 DEF Crash, held, TypeOK
  <2>3. UNCHANGED <<last, queue, consumed, saved, reported, faults>>
    BY <1>14 DEF Crash, server
  <2>4. turns' \in Seq(Channels) /\ handledThrough' \in 0..last
    BY <1>14 DEF Crash, TypeOK
  <2> QED
    BY <1>14, <2>2, <2>3, <2>4 DEF Crash, TypeOK
<1>15. CASE UNCHANGED vars
  BY <1>15 DEF vars, TypeOK
<1> QED
  BY <1>1, <1>2, <1>3, <1>4, <1>5, <1>6, <1>7, <1>8, <1>9, <1>10, <1>11, <1>12, <1>13,
     <1>14, <1>15 DEF Next, AppStep

-----------------------------------------------------------------------------
(* Taking turns                                                            *)

\* The steps of _decryptBatch on one envelope, with what it did to the state.
LEMMA OneOpened ==
  ASSUME TypeOK, NEW c \in Channels, decryptNext(c)
  PROVE  /\ turns # <<>> /\ Head(turns) = c
         /\ \E r \in batch[c] :
              /\ \A q \in batch[c] : r <= q
              /\ r \in 1..last
              /\ batch' = [batch EXCEPT ![c] = @ \ {r}]
              /\ highestHandled' = [highestHandled EXCEPT ![c] = r]
              /\ \/ /\ r <= handledThrough
                    /\ UNCHANGED <<messages, failures, consumed>>
                 \/ /\ r > handledThrough /\ r \notin consumed
                    /\ messages' = [messages EXCEPT ![c] = @ \cup {r}]
                    /\ consumed' = consumed \cup {r}
                    /\ UNCHANGED failures
                 \/ /\ r > handledThrough /\ r \in consumed
                    /\ failures' = [failures EXCEPT ![c] = @ \cup {r}]
                    /\ UNCHANGED <<messages, consumed>>
         /\ UNCHANGED <<last, queue, phase, turns, handledThrough, filed, saved, reported,
                        dropped, orphaned, faults>>
<1>1. batch[c] \subseteq 1..last
  BY DEF TypeOK
<1> QED
  BY <1>1 DEF decryptNext, server, shown, history

\* The channel whose turn it is, is a decrypting one.
LEMMA InTurn ==
  ASSUME TypeOK, Turns, turns # <<>>
  PROVE  Head(turns) \in Channels /\ phase[Head(turns)] = "decrypting"
<1>1. 1 \in 1..Len(turns) /\ Head(turns) = turns[1] /\ turns[1] \in Channels
  BY DEF TypeOK
<1> QED
  BY <1>1 DEF Turns

\* A channel that changes its phase elsewhere is not in the queue for the ratchet.
LEMMA ElsewhereKeepsTurns ==
  ASSUME TypeOK, Turns, NEW c \in Channels, phase[c] # "decrypting", UNCHANGED turns,
         \A d \in Channels \ {c} : phase'[d] = phase[d]
  PROVE  Turns'
<1>1. turns \in Seq(Channels)
  BY DEF TypeOK
<1>2. \A i \in 1..Len(turns) : turns[i] \in Channels
  BY <1>1
<1>3. \A i \in 1..Len(turns) : turns[i] # c
  BY DEF Turns
<1> QED
  BY <1>2, <1>3 DEF Turns

\* Nobody is queued at first.
LEMMA TurnsInit == Init => Turns
  BY DEF Init, Turns

\* The queue for the ratchet keeps its discipline through every step.
LEMMA TurnsNext == TypeOK /\ Turns /\ [Next]_vars => Turns'
<1> SUFFICES ASSUME TypeOK, Turns, [Next]_vars PROVE Turns'
  OBVIOUS
<1> USE PollIsAChannel
<1>1. CASE Arrive
  BY <1>1 DEF Arrive, Turns, task, ratchet
<1>2. ASSUME NEW c \in Channels, Read(c) PROVE Turns'
  BY <1>2, ElsewhereKeepsTurns DEF Read, ratchet, TypeOK
<1>3. ASSUME NEW c \in Channels, NeverComes(c) PROVE Turns'
  BY <1>3, ElsewhereKeepsTurns DEF NeverComes, done, ratchet, TypeOK
<1>4. ASSUME NEW c \in Channels, decryptEnvelopes(c) PROVE Turns'
  <2>1. /\ turns' = Append(turns, c)
        /\ phase' = [phase EXCEPT ![c] = "decrypting"]
        /\ phase[c] = "coming"
    BY <1>4 DEF decryptEnvelopes, goTo
  <2>2. /\ Len(turns') = Len(turns) + 1 /\ Len(turns) \in Nat
        /\ turns'[Len(turns) + 1] = c
        /\ \A i \in 1..Len(turns) : turns'[i] = turns[i] /\ turns[i] \in Channels
    BY <2>1 DEF TypeOK
  <2>3. \A i \in 1..Len(turns) : phase[turns[i]] = "decrypting" /\ turns[i] # c
    BY <2>1 DEF Turns
  <2>4. \A i \in 1..Len(turns') : i \in 1..Len(turns) \/ i = Len(turns) + 1
    BY <2>2
  <2>5. \A i \in 1..Len(turns') : phase'[turns'[i]] = "decrypting"
    BY <2>1, <2>2, <2>3, <2>4 DEF TypeOK
  <2>6. \A i, j \in 1..Len(turns') : turns'[i] = turns'[j] => i = j
    BY <2>2, <2>3, <2>4 DEF Turns
  <2> QED
    BY <2>5, <2>6 DEF Turns
<1>5. ASSUME NEW c \in Channels, decryptNext(c) PROVE Turns'
  BY <1>5, OneOpened DEF Turns
<1>6. ASSUME NEW c \in Channels, decrypted(c) PROVE Turns'
  <2>1. /\ turns # <<>> /\ Head(turns) = c /\ turns' = Tail(turns)
        /\ \A d \in Channels \ {c} : phase'[d] = phase[d]
    BY <1>6 DEF decrypted, endTurn, goTo, TypeOK
  <2>2. /\ turns[1] = c /\ 1 \in 1..Len(turns)
        /\ Len(turns') = Len(turns) - 1 /\ Len(turns) \in Nat
        /\ \A i \in 1..Len(turns') : turns'[i] = turns[i + 1] /\ turns[i + 1] \in Channels
    BY <2>1 DEF TypeOK
  <2>3. \A i \in 1..Len(turns') : i + 1 \in 1..Len(turns) /\ i + 1 # 1
    BY <2>2
  <2>4. \A i \in 1..Len(turns') : turns[i + 1] # c /\ phase[turns[i + 1]] = "decrypting"
    BY <2>2, <2>3 DEF Turns
  <2>5. \A i \in 1..Len(turns') : phase'[turns'[i]] = "decrypting"
    BY <2>1, <2>2, <2>4
  <2>6. \A i, j \in 1..Len(turns') : turns'[i] = turns'[j] => i = j
    BY <2>2, <2>3 DEF Turns
  <2> QED
    BY <2>5, <2>6 DEF Turns
<1>7. ASSUME NEW c \in Channels, acknowledgeOnSocket(c) PROVE Turns'
  BY <1>7, ElsewhereKeepsTurns DEF acknowledgeOnSocket, done, ratchet, TypeOK
<1>8. ASSUME NEW c \in Channels, fileIncoming(c) PROVE Turns'
  BY <1>8 DEF fileIncoming, ratchet, Turns
<1>9. ASSUME NEW c \in Channels, fileResult(c) PROVE Turns'
  BY <1>9, ElsewhereKeepsTurns DEF fileResult, done, goTo, ratchet, TypeOK
<1>10. CASE acknowledge
  BY <1>10, ElsewhereKeepsTurns DEF acknowledge, goTo, ratchet, TypeOK
<1>11. ASSUME NEW c \in Channels, fileIncomingFails(c) PROVE Turns'
  BY <1>11, ElsewhereKeepsTurns DEF fileIncomingFails, done, ratchet, TypeOK
<1>12. CASE acknowledgeFails
  BY <1>12, ElsewhereKeepsTurns DEF acknowledgeFails, done, ratchet, TypeOK
<1>13. CASE save
  BY <1>13 DEF save, Turns, task, ratchet
<1>14. CASE Crash
  BY <1>14 DEF Crash, Turns
<1>15. CASE UNCHANGED vars
  BY <1>15 DEF vars, Turns
<1> QED
  BY <1>1, <1>2, <1>3, <1>4, <1>5, <1>6, <1>7, <1>8, <1>9, <1>10, <1>11, <1>12, <1>13,
     <1>14, <1>15 DEF Next, AppStep

-----------------------------------------------------------------------------
(* Opening nothing twice                                                   *)

\* No batch is held at first.
LEMMA AscendingInit == Init => Ascending
  BY DEF Init, Ascending

\* A batch that ended is empty; the others are as they were.
LEMMA DoneAscends ==
  ASSUME TypeOK, Ascending, NEW c \in Channels, done(c)
  PROVE  Ascending'
<1>1. /\ phase'[c] = "idle" /\ batch'[c] = {} /\ highestHandled'[c] = 0
      /\ \A d \in Channels \ {c} :
            phase'[d] = phase[d] /\ batch'[d] = batch[d] /\ highestHandled'[d] = highestHandled[d]
  BY DEF done, TypeOK
<1> QED
  BY <1>1 DEF Ascending

\* A batch that goes on past its arrival is still worked through in order.
LEMMA OnwardAscends ==
  ASSUME TypeOK, Ascending, NEW c \in Channels, NEW p, p \notin {"idle", "coming"}, goTo(c, p)
  PROVE  Ascending'
  BY DEF goTo, TypeOK, Ascending

\* Every batch is worked through in order, whatever step is taken.
LEMMA AscendingNext == TypeOK /\ Turns /\ Ascending /\ [Next]_vars => Ascending'
<1> SUFFICES ASSUME TypeOK, Turns, Ascending, [Next]_vars PROVE Ascending'
  OBVIOUS
<1> USE PollIsAChannel
<1>1. CASE Arrive
  BY <1>1 DEF Arrive, Ascending, task
<1>2. ASSUME NEW c \in Channels, Read(c) PROVE Ascending'
  <2>1. highestHandled[c] = 0 /\ \A r \in oldest : 0 < r
    BY <1>2 DEF Read, Ascending, oldest, TypeOK
  <2>2. /\ phase'[c] = "coming" /\ batch'[c] = oldest
        /\ \A d \in Channels \ {c} : phase'[d] = phase[d] /\ batch'[d] = batch[d]
        /\ highestHandled' = highestHandled
    BY <1>2 DEF Read, TypeOK
  <2> QED
    BY <2>1, <2>2 DEF Ascending
<1>3. ASSUME NEW c \in Channels, NeverComes(c) PROVE Ascending'
  BY <1>3, DoneAscends DEF NeverComes
<1>4. ASSUME NEW c \in Channels, decryptEnvelopes(c) PROVE Ascending'
  BY <1>4, OnwardAscends DEF decryptEnvelopes
<1>5. ASSUME NEW c \in Channels, decryptNext(c) PROVE Ascending'
  <2>1. PICK r \in batch[c] :
          /\ \A q \in batch[c] : r <= q
          /\ batch' = [batch EXCEPT ![c] = @ \ {r}]
          /\ highestHandled' = [highestHandled EXCEPT ![c] = r]
    BY <1>5 DEF decryptNext
  <2>2. phase[c] = "decrypting" /\ phase' = phase
    BY <1>5, OneOpened, InTurn
  <2>3. /\ batch'[c] = batch[c] \ {r} /\ highestHandled'[c] = r
        /\ \A d \in Channels \ {c} :
              batch'[d] = batch[d] /\ highestHandled'[d] = highestHandled[d]
    BY <2>1 DEF TypeOK
  <2>4. batch[c] \subseteq Nat
    BY DEF TypeOK
  <2>5. \A q \in batch[c] \ {r} : r < q
    BY <2>1, <2>4
  <2> QED
    BY <2>2, <2>3, <2>5 DEF Ascending
<1>6. ASSUME NEW c \in Channels, decrypted(c) PROVE Ascending'
  BY <1>6, OnwardAscends DEF decrypted, endTurn
<1>7. ASSUME NEW c \in Channels, acknowledgeOnSocket(c) PROVE Ascending'
  BY <1>7, DoneAscends DEF acknowledgeOnSocket
<1>8. ASSUME NEW c \in Channels, fileIncoming(c) PROVE Ascending'
  BY <1>8 DEF fileIncoming, Ascending
<1>9. ASSUME NEW c \in Channels, fileResult(c) PROVE Ascending'
  BY <1>9, DoneAscends, OnwardAscends DEF fileResult
<1>10. CASE acknowledge
  BY <1>10, OnwardAscends DEF acknowledge
<1>11. ASSUME NEW c \in Channels, fileIncomingFails(c) PROVE Ascending'
  BY <1>11, DoneAscends DEF fileIncomingFails
<1>12. CASE acknowledgeFails
  BY <1>12, DoneAscends DEF acknowledgeFails
<1>13. CASE save
  BY <1>13 DEF save, Ascending, task
<1>14. CASE Crash
  BY <1>14 DEF Crash, Ascending
<1>15. CASE UNCHANGED vars
  BY <1>15 DEF vars, Ascending
<1> QED
  BY <1>1, <1>2, <1>3, <1>4, <1>5, <1>6, <1>7, <1>8, <1>9, <1>10, <1>11, <1>12, <1>13,
     <1>14, <1>15 DEF Next, AppStep

\* Nothing has been opened at first.
LEMMA OpenedInit == Init => Opened
  BY DEF Init, Opened

\* A step of a batch that is not in the ratchet leaves the marks of the one that is.
LEMMA ElsewhereKeepsOpened ==
  ASSUME TypeOK, Turns, Opened, NEW c \in Channels, phase[c] # "decrypting",
         UNCHANGED <<turns, handledThrough, consumed, orphaned>>,
         \A d \in Channels \ {c} : highestHandled'[d] = highestHandled[d]
  PROVE  Opened'
<1>1. CASE turns = <<>>
  BY <1>1 DEF Opened
<1>2. CASE turns # <<>>
  BY <1>2, InTurn DEF Opened
<1> QED
  BY <1>1, <1>2

\* What this process opened stays behind handledThrough or behind the batch in turn.
LEMMA OpenedNext == TypeOK /\ Turns /\ Ascending /\ Opened /\ [Next]_vars => Opened'
<1> SUFFICES ASSUME TypeOK, Turns, Ascending, Opened, [Next]_vars PROVE Opened'
  OBVIOUS
<1> USE PollIsAChannel
<1>1. CASE Arrive
  BY <1>1 DEF Arrive, Opened, task, ratchet, history
<1>2. ASSUME NEW c \in Channels, Read(c) PROVE Opened'
  BY <1>2 DEF Read, Opened, ratchet, history
<1>3. ASSUME NEW c \in Channels, NeverComes(c) PROVE Opened'
  BY <1>3, ElsewhereKeepsOpened DEF NeverComes, done, ratchet, history, TypeOK
<1>4. ASSUME NEW c \in Channels, decryptEnvelopes(c) PROVE Opened'
  <2>1. /\ turns' = Append(turns, c) /\ turns \in Seq(Channels)
        /\ UNCHANGED <<handledThrough, consumed, orphaned, highestHandled>>
    BY <1>4 DEF decryptEnvelopes, goTo, history, TypeOK
  <2>2. turns # <<>> => turns' # <<>> /\ Head(turns') = Head(turns)
    BY <2>1
  <2> QED
    BY <2>1, <2>2 DEF Opened
<1>5. ASSUME NEW c \in Channels, decryptNext(c) PROVE Opened'
  <2>1. PICK r \in batch[c] :
          /\ highestHandled' = [highestHandled EXCEPT ![c] = r]
          /\ consumed' \subseteq consumed \cup {r}
    BY <1>5 DEF decryptNext
  <2>2. /\ turns # <<>> /\ Head(turns) = c
        /\ UNCHANGED <<turns, handledThrough, orphaned>>
    BY <1>5, OneOpened
  <2>3. /\ highestHandled'[c] = r /\ highestHandled[c] < r
        /\ r \in Nat /\ highestHandled[c] \in Nat /\ consumed \subseteq Nat
    BY <2>1 DEF Ascending, TypeOK
  <2>4. ASSUME NEW x \in consumed' \ orphaned PROVE x <= handledThrough \/ x <= r
    BY <2>1, <2>2, <2>3 DEF Opened
  <2> QED
    BY <2>2, <2>3, <2>4 DEF Opened
<1>6. ASSUME NEW c \in Channels, decrypted(c) PROVE Opened'
  <2>1. /\ turns # <<>> /\ Head(turns) = c
        /\ handledThrough' = highest(c)
        /\ UNCHANGED <<consumed, orphaned, highestHandled>>
    BY <1>6 DEF decrypted, endTurn, goTo, history
  <2>2. /\ handledThrough \in Nat /\ highestHandled[c] \in Nat /\ consumed \subseteq Nat
    BY DEF TypeOK
  <2>3. handledThrough <= highest(c) /\ highestHandled[c] <= highest(c) /\ highest(c) \in Nat
    BY <2>2 DEF highest
  <2> QED
    BY <2>1, <2>2, <2>3 DEF Opened
<1>7. ASSUME NEW c \in Channels, acknowledgeOnSocket(c) PROVE Opened'
  BY <1>7, ElsewhereKeepsOpened DEF acknowledgeOnSocket, done, ratchet, history, TypeOK
<1>8. ASSUME NEW c \in Channels, fileIncoming(c) PROVE Opened'
  BY <1>8 DEF fileIncoming, ratchet, history, Opened
<1>9. ASSUME NEW c \in Channels, fileResult(c) PROVE Opened'
  BY <1>9, ElsewhereKeepsOpened DEF fileResult, done, goTo, ratchet, history, TypeOK
<1>10. CASE acknowledge
  BY <1>10 DEF acknowledge, goTo, ratchet, history, Opened
<1>11. ASSUME NEW c \in Channels, fileIncomingFails(c) PROVE Opened'
  BY <1>11, ElsewhereKeepsOpened DEF fileIncomingFails, done, ratchet, TypeOK
<1>12. CASE acknowledgeFails
  BY <1>12, ElsewhereKeepsOpened DEF acknowledgeFails, done, ratchet, TypeOK
<1>13. CASE save
  BY <1>13 DEF save, Opened, task, ratchet, history
<1>14. CASE Crash
  BY <1>14 DEF Crash, Opened
<1>15. CASE UNCHANGED vars
  BY <1>15 DEF vars, Opened
<1> QED
  BY <1>1, <1>2, <1>3, <1>4, <1>5, <1>6, <1>7, <1>8, <1>9, <1>10, <1>11, <1>12, <1>13,
     <1>14, <1>15 DEF Next, AppStep

\* Nothing has been reported at first.
LEMMA AlarmsInit == Init => Alarms
  BY DEF Init, Alarms

\* An envelope that a batch could not open was opened by a process that ended: in
\* this one it would be behind the mark, or behind this batch's own.
LEMMA AlarmsNext == TypeOK /\ Ascending /\ Opened /\ Alarms /\ [Next]_vars => Alarms'
<1> SUFFICES ASSUME TypeOK, Ascending, Opened, Alarms, [Next]_vars PROVE Alarms'
  OBVIOUS
<1> USE PollIsAChannel
<1>1. CASE Arrive
  BY <1>1 DEF Arrive, Alarms, task, shown, history
<1>2. ASSUME NEW c \in Channels, Read(c) PROVE Alarms'
  BY <1>2 DEF Read, Alarms, shown, history
<1>3. ASSUME NEW c \in Channels, NeverComes(c) PROVE Alarms'
  BY <1>3 DEF NeverComes, done, Alarms, shown, history, TypeOK
<1>4. ASSUME NEW c \in Channels, decryptEnvelopes(c) PROVE Alarms'
  BY <1>4 DEF decryptEnvelopes, goTo, Alarms, shown, history
<1>5. ASSUME NEW c \in Channels, decryptNext(c) PROVE Alarms'
  <2>1. PICK r \in batch[c] :
          \/ UNCHANGED failures
          \/ /\ r > handledThrough /\ r \in consumed
             /\ failures' = [failures EXCEPT ![c] = @ \cup {r}]
    BY <1>5 DEF decryptNext
  <2>2. /\ turns # <<>> /\ Head(turns) = c
        /\ UNCHANGED <<reported, orphaned>>
    BY <1>5, OneOpened
  <2>3. /\ highestHandled[c] < r
        /\ r \in Nat /\ highestHandled[c] \in Nat /\ handledThrough \in Nat
    BY DEF Ascending, TypeOK
  <2>4. r > handledThrough /\ r \in consumed => r \in orphaned
    BY <2>2, <2>3 DEF Opened
  <2>5. \A d \in Channels : failures'[d] \subseteq orphaned
    BY <2>1, <2>4 DEF Alarms, TypeOK
  <2> QED
    BY <2>2, <2>5 DEF Alarms
<1>6. ASSUME NEW c \in Channels, decrypted(c) PROVE Alarms'
  BY <1>6 DEF decrypted, endTurn, goTo, Alarms, shown, history
<1>7. ASSUME NEW c \in Channels, acknowledgeOnSocket(c) PROVE Alarms'
  BY <1>7 DEF acknowledgeOnSocket, done, Alarms, shown, history, TypeOK
<1>8. ASSUME NEW c \in Channels, fileIncoming(c) PROVE Alarms'
  BY <1>8 DEF fileIncoming, Alarms, history
<1>9. ASSUME NEW c \in Channels, fileResult(c) PROVE Alarms'
  <2>1. reported' = reported \cup failures[c] /\ orphaned' = orphaned
    BY <1>9 DEF fileResult, history
  <2>2. \A d \in Channels : failures'[d] \subseteq failures[d]
    BY <1>9 DEF fileResult, done, goTo, TypeOK
  <2> QED
    BY <2>1, <2>2 DEF Alarms
<1>10. CASE acknowledge
  BY <1>10 DEF acknowledge, goTo, Alarms, shown, history
<1>11. ASSUME NEW c \in Channels, fileIncomingFails(c) PROVE Alarms'
  BY <1>11 DEF fileIncomingFails, done, Alarms, shown, TypeOK
<1>12. CASE acknowledgeFails
  BY <1>12 DEF acknowledgeFails, done, Alarms, shown, TypeOK
<1>13. CASE save
  BY <1>13 DEF save, Alarms, task, history
<1>14. CASE Crash
  BY <1>14 DEF Crash, Alarms, TypeOK
<1>15. CASE UNCHANGED vars
  BY <1>15 DEF vars, Alarms
<1> QED
  BY <1>1, <1>2, <1>3, <1>4, <1>5, <1>6, <1>7, <1>8, <1>9, <1>10, <1>11, <1>12, <1>13,
     <1>14, <1>15 DEF Next, AppStep

-----------------------------------------------------------------------------
(* Deleting nothing unopened                                               *)

\* A batch has no gap: the queue's rows older than one of a batch are in it too.
LEMMA OldestFirst ==
  ASSUME TypeOK, NEW b \in oldest, NEW r \in queue, r < b
  PROVE  r \in oldest
<1> DEFINE older(n) == {q \in queue : q <= n}
<1>1. last \in Nat /\ queue \subseteq 1..last
  BY ReceiverAssumption DEF TypeOK, ReceiverAssumption
<1>2. IsFiniteSet(1..last)
  BY <1>1, FS_Interval
<1>3. older(b) \in SUBSET (1..last)
  BY <1>1
<1>4. IsFiniteSet(older(b))
  BY <1>2, <1>3, FS_Subset
<1>5. older(r) \in SUBSET older(b)
  <2>1. b \in 1..last /\ r \in 1..last
    BY <1>1 DEF oldest
  <2>2. \A q \in 1..last : q <= r => q <= b
    BY <1>1, <2>1
  <2> QED
    BY <1>1, <2>2
<1>6. IsFiniteSet(older(r)) /\ Cardinality(older(r)) <= Cardinality(older(b))
  BY <1>4, <1>5, FS_Subset
<1>7. Cardinality(older(r)) \in Nat /\ Cardinality(older(b)) \in Nat
  BY <1>4, <1>6, FS_CardinalityType
<1>8. Cardinality(older(b)) <= Batch /\ Batch \in Nat
  BY ReceiverAssumption DEF oldest, ReceiverAssumption
<1>9. Cardinality(older(r)) <= Batch
  BY <1>6, <1>7, <1>8
<1> QED
  BY <1>9 DEF oldest

\* A step that looks at no envelope keeps NoGap, whichever batches it ends, if what
\* it deletes was opened.
LEMMA QuietKeepsNoGap ==
  ASSUME TypeOK, NoGap, UNCHANGED last, handledThrough' \in {handledThrough, 0},
         UNCHANGED consumed, gone' \subseteq consumed,
         \A d \in Channels : /\ batch'[d] \in {batch[d], {}}
                             /\ highestHandled'[d] \in {highestHandled[d], 0}
  PROVE  NoGap'
<1>1. \A r \in 1..last : ~(r <= 0)
  BY DEF TypeOK
<1>2. \A r \in 1..last : r <= handledThrough' => r \in consumed
  BY <1>1 DEF NoGap
<1>3. \A c \in Channels, r \in 1..last : r <= highestHandled'[c] => r \in consumed
  BY <1>1 DEF NoGap
<1>4. \A c \in Channels : \A b \in batch'[c], r \in 1..last :
        r < b => r \in batch'[c] \cup consumed
  BY DEF NoGap
<1> QED
  BY <1>2, <1>3, <1>4 DEF NoGap

\* What an acknowledgement deletes has been opened.
LEMMA AckedIsOpened ==
  ASSUME TypeOK, NoGap, NEW c \in Channels, UNCHANGED last,
         queue' \in {queue, queue \ upTo(highestHandled[c])}
  PROVE  gone' \subseteq consumed
  BY DEF gone, upTo, NoGap, TypeOK

\* An ended batch lies behind no mark.
LEMMA DoneIsEmpty ==
  ASSUME TypeOK, NEW c \in Channels, done(c)
  PROVE  \A d \in Channels : /\ batch'[d] \in {batch[d], {}}
                            /\ highestHandled'[d] \in {highestHandled[d], 0}
  BY DEF done, TypeOK

\* There is nothing to open at first.
LEMMA NoGapInit == Init => NoGap
  BY DEF Init, NoGap, gone

\* No step leaves an unopened envelope behind a mark, or deletes it.
LEMMA NoGapNext == TypeOK /\ NoGap /\ [Next]_vars => NoGap'
<1> SUFFICES ASSUME TypeOK, NoGap, [Next]_vars PROVE NoGap'
  OBVIOUS
<1> USE PollIsAChannel
<1>1. CASE Arrive
  <2>1. /\ last \in Nat /\ last' = last + 1 /\ queue' = queue \cup {last + 1}
        /\ UNCHANGED <<batch, highestHandled, handledThrough, consumed>>
    BY <1>1, ReceiverAssumption DEF Arrive, task, ratchet, TypeOK, ReceiverAssumption
  <2>2. gone' \subseteq gone
    BY <2>1 DEF gone
  <2>3. /\ handledThrough \in 0..last
        /\ \A c \in Channels : highestHandled[c] \in 0..last /\ batch[c] \subseteq 1..last
    BY DEF TypeOK
  <2>4. \A r \in 1..last' : r \in 1..last \/ r = last + 1
    BY <2>1
  <2>5. \A r \in 1..last' : r <= handledThrough => r \in consumed
    BY <2>1, <2>3, <2>4 DEF NoGap
  <2>6. \A c \in Channels, r \in 1..last' : r <= highestHandled[c] => r \in consumed
    BY <2>1, <2>3, <2>4 DEF NoGap
  <2>7. ASSUME NEW c \in Channels, NEW b \in batch[c], NEW r \in 1..last', r < b
        PROVE  r \in batch[c] \cup consumed
    <3>1. r \in 1..last
      BY <2>1, <2>3, <2>4, <2>7
    <3> QED
      BY <2>7, <3>1 DEF NoGap
  <2> QED
    BY <2>1, <2>2, <2>5, <2>6, <2>7 DEF NoGap
<1>2. ASSUME NEW c \in Channels, Read(c) PROVE NoGap'
  <2>1. /\ batch' = [batch EXCEPT ![c] = oldest]
        /\ UNCHANGED <<last, queue, highestHandled, handledThrough, consumed>>
    BY <1>2 DEF Read, server, ratchet
  <2>2. ASSUME NEW b \in oldest, NEW r \in 1..last, r < b PROVE r \in oldest \cup consumed
    BY <2>2, OldestFirst DEF NoGap, gone
  <2>3. ASSUME NEW d \in Channels, NEW b \in batch'[d], NEW r \in 1..last, r < b
        PROVE  r \in batch'[d] \cup consumed
    <3>1. CASE d = c
      BY <2>1, <2>2, <2>3, <3>1 DEF TypeOK
    <3>2. CASE d # c
      BY <2>1, <2>3, <3>2 DEF TypeOK, NoGap
    <3> QED
      BY <3>1, <3>2
  <2> QED
    BY <2>1, <2>3 DEF NoGap, gone
<1>3. ASSUME NEW c \in Channels, NeverComes(c) PROVE NoGap'
  BY <1>3, DoneIsEmpty, QuietKeepsNoGap DEF NeverComes, server, ratchet, gone, NoGap
<1>4. ASSUME NEW c \in Channels, decryptEnvelopes(c) PROVE NoGap'
  BY <1>4 DEF decryptEnvelopes, goTo, server, NoGap, gone
<1>5. ASSUME NEW c \in Channels, decryptNext(c) PROVE NoGap'
  <2>1. PICK r \in batch[c] :
          /\ r \in 1..last
          /\ \A q \in batch[c] : r <= q
          /\ batch' = [batch EXCEPT ![c] = @ \ {r}]
          /\ highestHandled' = [highestHandled EXCEPT ![c] = r]
          /\ \/ r <= handledThrough /\ consumed' = consumed
             \/ r \notin consumed /\ consumed' = consumed \cup {r}
             \/ r \in consumed /\ consumed' = consumed
    BY <1>5, OneOpened
  <2>2. UNCHANGED <<last, queue, handledThrough>>
    BY <1>5, OneOpened
  <2>3. r \in consumed' /\ consumed \subseteq consumed'
    BY <2>1 DEF NoGap
  <2>4. /\ batch'[c] = batch[c] \ {r} /\ highestHandled'[c] = r
        /\ \A d \in Channels \ {c} :
              batch'[d] = batch[d] /\ highestHandled'[d] = highestHandled[d]
    BY <2>1 DEF TypeOK
  <2>5. ASSUME NEW q \in 1..last, q <= r PROVE q \in consumed'
    <3>1. batch[c] \subseteq Nat
      BY DEF TypeOK
    <3>2. q = r \/ (q < r /\ q \notin batch[c])
      BY <2>1, <2>5, <3>1
    <3> QED
      BY <2>3, <3>2 DEF NoGap
  <2>6. \A d \in Channels, q \in 1..last : q <= highestHandled'[d] => q \in consumed'
    BY <2>3, <2>4, <2>5 DEF NoGap
  <2>7. \A d \in Channels : \A b \in batch'[d], q \in 1..last :
          q < b => q \in batch'[d] \cup consumed'
    BY <2>3, <2>4 DEF NoGap
  <2> QED
    BY <2>2, <2>3, <2>6, <2>7 DEF NoGap, gone
<1>6. ASSUME NEW c \in Channels, decrypted(c) PROVE NoGap'
  <2>1. /\ handledThrough' \in {handledThrough, highestHandled[c]}
        /\ UNCHANGED <<last, queue, consumed, batch, highestHandled>>
    BY <1>6 DEF decrypted, endTurn, highest, goTo, server
  <2> QED
    BY <2>1 DEF NoGap, gone
<1>7. ASSUME NEW c \in Channels, acknowledgeOnSocket(c) PROVE NoGap'
  <2>1. /\ queue' \in {queue, queue \ upTo(highestHandled[c])} /\ done(c)
        /\ UNCHANGED <<last, handledThrough, consumed>>
    BY <1>7 DEF acknowledgeOnSocket, ratchet
  <2> QED
    BY <2>1, AckedIsOpened, DoneIsEmpty, QuietKeepsNoGap
<1>8. ASSUME NEW c \in Channels, fileIncoming(c) PROVE NoGap'
  BY <1>8 DEF fileIncoming, server, ratchet, NoGap, gone
<1>9. ASSUME NEW c \in Channels, fileResult(c) PROVE NoGap'
  <2>1. UNCHANGED <<last, queue, handledThrough, consumed>>
    BY <1>9 DEF fileResult, server, ratchet
  <2>2. CASE c = Poll
    BY <1>9, <2>1, <2>2, DoneIsEmpty, QuietKeepsNoGap DEF fileResult, gone, NoGap
  <2>3. CASE c # Poll
    BY <1>9, <2>1, <2>3 DEF fileResult, goTo, gone, NoGap
  <2> QED
    BY <2>2, <2>3
<1>10. CASE acknowledge
  <2>1. /\ queue' \in {queue, queue \ upTo(highestHandled[Poll])}
        /\ UNCHANGED <<last, handledThrough, consumed, batch, highestHandled>>
    BY <1>10 DEF acknowledge, goTo, ratchet
  <2> QED
    BY <2>1, AckedIsOpened, QuietKeepsNoGap
<1>11. ASSUME NEW c \in Channels, fileIncomingFails(c) PROVE NoGap'
  BY <1>11, DoneIsEmpty, QuietKeepsNoGap DEF fileIncomingFails, server, ratchet, gone, NoGap
<1>12. CASE acknowledgeFails
  <2>1. /\ queue' \in {queue, queue \ upTo(highestHandled[Poll])} /\ done(Poll)
        /\ UNCHANGED <<last, handledThrough, consumed>>
    BY <1>12 DEF acknowledgeFails, ratchet
  <2> QED
    BY <2>1, AckedIsOpened, DoneIsEmpty, QuietKeepsNoGap
<1>13. CASE save
  BY <1>13 DEF save, server, task, ratchet, NoGap, gone
<1>14. CASE Crash
  <2>1. \A d \in Channels : batch'[d] = {} /\ highestHandled'[d] = 0
    BY <1>14 DEF Crash
  <2>2. handledThrough' = 0 /\ UNCHANGED <<last, queue, consumed>>
    BY <1>14 DEF Crash, server
  <2> QED
    BY <2>1, <2>2, QuietKeepsNoGap DEF gone, NoGap
<1>15. CASE UNCHANGED vars
  BY <1>15 DEF vars, NoGap, gone
<1> QED
  BY <1>1, <1>2, <1>3, <1>4, <1>5, <1>6, <1>7, <1>8, <1>9, <1>10, <1>11, <1>12, <1>13,
     <1>14, <1>15 DEF Next, AppStep

-----------------------------------------------------------------------------
(* Keeping what was opened                                                 *)

\* Nobody holds anything at first.
LEMMA InHandInit == Init => InHand
  BY DEF Init, InHand

\* An ended batch holds nothing; the others are as they were.
LEMMA DoneLetsGo ==
  ASSUME TypeOK, InHand, NEW c \in Channels, done(c)
  PROVE  InHand'
<1>1. /\ messages'[c] = {}
      /\ \A d \in Channels \ {c} : phase'[d] = phase[d] /\ messages'[d] = messages[d]
  BY DEF done, TypeOK
<1> QED
  BY <1>1 DEF InHand

\* A batch that moves on to where it may hold messages, or holds none.
LEMMA OnwardInHand ==
  ASSUME TypeOK, InHand, NEW c \in Channels, NEW p, goTo(c, p),
         p \notin {"idle", "coming"},
         (c # Poll /\ p = "acking") => messages[c] = {}
  PROVE  InHand'
<1>1. /\ phase'[c] = p /\ messages' = messages
      /\ \A d \in Channels \ {c} : phase'[d] = phase[d]
  BY DEF goTo, TypeOK
<1> QED
  BY <1>1 DEF InHand

\* Messages stay between the opening of a batch and its filing.
LEMMA InHandNext == TypeOK /\ Turns /\ InHand /\ [Next]_vars => InHand'
<1> SUFFICES ASSUME TypeOK, Turns, InHand, [Next]_vars PROVE InHand'
  OBVIOUS
<1> USE PollIsAChannel
<1>1. CASE Arrive
  BY <1>1 DEF Arrive, InHand, task
<1>2. ASSUME NEW c \in Channels, Read(c) PROVE InHand'
  BY <1>2 DEF Read, InHand, TypeOK
<1>3. ASSUME NEW c \in Channels, NeverComes(c) PROVE InHand'
  BY <1>3, DoneLetsGo DEF NeverComes
<1>4. ASSUME NEW c \in Channels, decryptEnvelopes(c) PROVE InHand'
  BY <1>4, OnwardInHand DEF decryptEnvelopes
<1>5. ASSUME NEW c \in Channels, decryptNext(c) PROVE InHand'
  <2>1. phase[c] = "decrypting" /\ phase' = phase
    BY <1>5, OneOpened, InTurn
  <2>2. \A d \in Channels \ {c} : messages'[d] = messages[d]
    BY <1>5, OneOpened DEF TypeOK
  <2> QED
    BY <2>1, <2>2 DEF InHand
<1>6. ASSUME NEW c \in Channels, decrypted(c) PROVE InHand'
  BY <1>6, OnwardInHand DEF decrypted, endTurn
<1>7. ASSUME NEW c \in Channels, acknowledgeOnSocket(c) PROVE InHand'
  BY <1>7, DoneLetsGo DEF acknowledgeOnSocket
<1>8. ASSUME NEW c \in Channels, fileIncoming(c) PROVE InHand'
  <2>1. \A d \in Channels : messages'[d] \subseteq messages[d]
    BY <1>8 DEF fileIncoming, TypeOK
  <2> QED
    BY <1>8, <2>1 DEF fileIncoming, InHand
<1>9. ASSUME NEW c \in Channels, fileResult(c) PROVE InHand'
  BY <1>9, DoneLetsGo, OnwardInHand DEF fileResult
<1>10. CASE acknowledge
  BY <1>10, OnwardInHand DEF acknowledge
<1>11. ASSUME NEW c \in Channels, fileIncomingFails(c) PROVE InHand'
  BY <1>11, DoneLetsGo DEF fileIncomingFails
<1>12. CASE acknowledgeFails
  BY <1>12, DoneLetsGo DEF acknowledgeFails
<1>13. CASE save
  BY <1>13 DEF save, InHand, task
<1>14. CASE Crash
  BY <1>14 DEF Crash, InHand
<1>15. CASE UNCHANGED vars
  BY <1>15 DEF vars, InHand
<1> QED
  BY <1>1, <1>2, <1>3, <1>4, <1>5, <1>6, <1>7, <1>8, <1>9, <1>10, <1>11, <1>12, <1>13,
     <1>14, <1>15 DEF Next, AppStep

\* Nothing has been opened at first.
LEMMA KeptInit == Init => Kept
  BY DEF Init, Kept

\* A batch that ends takes only its own messages out of hand.
LEMMA DoneDrops ==
  ASSUME TypeOK, NEW c \in Channels, done(c)
  PROVE  held \subseteq held' \cup messages[c]
<1>1. \A d \in Channels \ {c} : messages'[d] = messages[d]
  BY DEF done, TypeOK
<1> QED
  BY <1>1 DEF held

\* No step loses sight of a message the ratchet has opened.
LEMMA KeptNext == TypeOK /\ InHand /\ Kept /\ [Next]_vars => Kept'
<1> SUFFICES ASSUME TypeOK, InHand, Kept, [Next]_vars PROVE Kept'
  OBVIOUS
<1> USE PollIsAChannel
<1>1. CASE Arrive
  BY <1>1 DEF Arrive, Kept, held, task, ratchet, shown, history
<1>2. ASSUME NEW c \in Channels, Read(c) PROVE Kept'
  BY <1>2 DEF Read, Kept, held, ratchet, shown, history
<1>3. ASSUME NEW c \in Channels, NeverComes(c) PROVE Kept'
  <2>1. messages[c] = {}
    BY <1>3 DEF NeverComes, InHand
  <2> QED
    BY <1>3, <2>1, DoneDrops DEF NeverComes, Kept, ratchet, shown, history
<1>4. ASSUME NEW c \in Channels, decryptEnvelopes(c) PROVE Kept'
  BY <1>4 DEF decryptEnvelopes, goTo, Kept, held, shown, history
<1>5. ASSUME NEW c \in Channels, decryptNext(c) PROVE Kept'
  <2>1. PICK r \in batch[c] :
          \/ UNCHANGED <<messages, consumed>>
          \/ /\ messages' = [messages EXCEPT ![c] = @ \cup {r}]
             /\ consumed' = consumed \cup {r}
    BY <1>5, OneOpened
  <2>2. UNCHANGED <<filed, dropped>>
    BY <1>5, OneOpened
  <2>3. CASE UNCHANGED <<messages, consumed>>
    BY <2>2, <2>3 DEF Kept, held
  <2>4. CASE /\ messages' = [messages EXCEPT ![c] = @ \cup {r}]
             /\ consumed' = consumed \cup {r}
    <3>1. r \in messages'[c] /\ \A d \in Channels : messages[d] \subseteq messages'[d]
      BY <2>4 DEF TypeOK
    <3>2. held \cup {r} \subseteq held'
      BY <3>1 DEF held
    <3> QED
      BY <2>2, <2>4, <3>2 DEF Kept
  <2> QED
    BY <2>1, <2>3, <2>4
<1>6. ASSUME NEW c \in Channels, decrypted(c) PROVE Kept'
  BY <1>6 DEF decrypted, endTurn, goTo, Kept, held, shown, history
<1>7. ASSUME NEW c \in Channels, acknowledgeOnSocket(c) PROVE Kept'
  <2>1. messages[c] = {}
    BY <1>7, ReceiverAssumption DEF acknowledgeOnSocket, InHand, ReceiverAssumption
  <2> QED
    BY <1>7, <2>1, DoneDrops DEF acknowledgeOnSocket, Kept, ratchet, shown, history
<1>8. ASSUME NEW c \in Channels, fileIncoming(c) PROVE Kept'
  <2>1. PICK r \in messages[c] :
          /\ messages' = [messages EXCEPT ![c] = @ \ {r}]
          /\ filed' = filed \cup {r}
    BY <1>8 DEF fileIncoming
  <2>2. \A d \in Channels : messages[d] \subseteq messages'[d] \cup {r}
    BY <2>1 DEF TypeOK
  <2>3. held \subseteq held' \cup {r}
    BY <2>2 DEF held
  <2> QED
    BY <1>8, <2>1, <2>3 DEF fileIncoming, Kept, ratchet, history
<1>9. ASSUME NEW c \in Channels, fileResult(c) PROVE Kept'
  <2>1. messages[c] = {} /\ UNCHANGED <<consumed, filed, dropped>>
    BY <1>9 DEF fileResult, ratchet, history
  <2>2. held \subseteq held'
    BY <1>9, <2>1, DoneDrops DEF fileResult, goTo, held
  <2> QED
    BY <2>1, <2>2 DEF Kept
<1>10. CASE acknowledge
  BY <1>10 DEF acknowledge, goTo, Kept, held, ratchet, shown, history
<1>11. ASSUME NEW c \in Channels, fileIncomingFails(c) PROVE Kept'
  BY <1>11, DoneDrops DEF fileIncomingFails, Kept, ratchet, shown
<1>12. CASE acknowledgeFails
  BY <1>12, DoneDrops DEF acknowledgeFails, Kept, ratchet, shown
<1>13. CASE save
  BY <1>13 DEF save, Kept, held, task, ratchet, history
<1>14. CASE Crash
  <2>1. dropped' = dropped \cup held \cup (filed \ saved) /\ filed' = saved
    BY <1>14 DEF Crash, held
  <2> QED
    BY <1>14, <2>1 DEF Crash, Kept
<1>15. CASE UNCHANGED vars
  BY <1>15 DEF vars, Kept, held
<1> QED
  BY <1>1, <1>2, <1>3, <1>4, <1>5, <1>6, <1>7, <1>8, <1>9, <1>10, <1>11, <1>12, <1>13,
     <1>14, <1>15 DEF Next, AppStep

-----------------------------------------------------------------------------
(* Theorems                                                                *)

\* The inductive invariant.
IInv ==
    /\ TypeOK
    /\ Turns
    /\ Ascending
    /\ Opened
    /\ Alarms
    /\ NoGap
    /\ InHand
    /\ Kept

\* What holds of every reachable state of the receive path.
LEMMA Invariance == Spec => []IInv
<1>1. Init => IInv
  BY TypeInit, TurnsInit, AscendingInit, OpenedInit, AlarmsInit, NoGapInit, InHandInit, KeptInit
     DEF IInv
<1>2. IInv /\ [Next]_vars => IInv'
  BY TypeNext, TurnsNext, AscendingNext, OpenedNext, AlarmsNext, NoGapNext, InHandNext, KeptNext
     DEF IInv
<1> QED
  BY <1>1, <1>2, PTL DEF Spec

\* Every reachable state of the poll, the pushed frames, the ratchet and the store
\* is well typed.
THEOREM TypeCorrect == Spec => []TypeOK
<1>1. IInv => TypeOK
  BY DEF IInv
<1> QED
  BY Invariance, <1>1, PTL

\* However many frames come while the poll is under way, whatever is lost or
\* interrupted, an envelope the server has deleted is in the store, in the hands of
\* a batch, or was opened by one that was interrupted.
THEOREM NothingSkipped == Spec => []NothingLost
<1>1. IInv => NothingLost
  BY DEF IInv, NoGap, Kept, NothingLost
<1> QED
  BY Invariance, <1>1, PTL

\* No envelope that came down both channels is reported as unreadable, unless a
\* process that opened it has ended since.
THEOREM OpenedOnce == Spec => []NoFalseAlarm
<1>1. IInv => NoFalseAlarm
  BY DEF IInv, Alarms, NoFalseAlarm
<1> QED
  BY Invariance, <1>1, PTL

=============================================================================
