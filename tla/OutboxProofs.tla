---------------------------- MODULE OutboxProofs ----------------------------
(***************************************************************************)
(* What Outbox.tla keeps for every number of messages and of sends under   *)
(* way, every way a request may fail and every end of the process.         *)
(*                                                                         *)
(* A bubble never claims more than the server can back up (IInv):          *)
(*                                                                         *)
(*   Shapes    which functions the requests and the bubbles' words are;    *)
(*   Accepted  a request past its answer is of a message that was taken;   *)
(*   Backed    what a bubble claims, on the screen or in the archive, is   *)
(*             of a message that was taken.                                *)
(*                                                                         *)
(* Nothing that looks owed is forgotten, sent twice or sent unseen (Waits):*)
(*                                                                         *)
(*   Lists     which messages the queues hold;                             *)
(*   Tidy      the chat, the tombstones, the words and the outbox agree:   *)
(*             on the screen, and in the archive, from which they may all  *)
(*             come back;                                                  *)
(*   Asks      what each sender may have under way: the answer to an       *)
(*             upload may say "queued" of a recording only while its entry *)
(*             is there;                                                   *)
(*   Knows     a recording whose upload is known has an entry that says so;*)
(*   Owed      a text that says it waits is in the queue or under way.     *)
(***************************************************************************)
EXTENDS Outbox, FiniteSetTheorems, TLAPS

States == {"none", "gone", "queued", "sending", "sent", "delivered", "read", "failed"}

Shapes ==
    /\ state \in [Messages -> States]
    /\ disk.state \in [Messages -> States]
    /\ step = [s \in Senders |-> step[s]]
    /\ sending = [s \in Senders |-> sending[s]]
    /\ reached \in [Senders -> BOOLEAN]

Accepted ==
    \A s \in Senders : /\ step[s] = "sync" => reached[s]
                       /\ reached[s] => sending[s] \in taken

Claimed == {"sent", "delivered", "read"}

Backed == \A m \in Messages : state[m] \in Claimed \/ disk.state[m] \in Claimed => m \in taken

-----------------------------------------------------------------------------
(* Requests and words                                                      *)

\* A new request has been accepted by nobody; the others are as they were.
LEMMA AwaitAccepted ==
  ASSUME Shapes, Accepted, NEW s \in Senders, NEW what, what # "sync", NEW m,
         await(s, what, m), taken \subseteq taken'
  PROVE  /\ step' = [t \in Senders |-> step'[t]]
         /\ sending' = [t \in Senders |-> sending'[t]]
         /\ reached' \in [Senders -> BOOLEAN]
         /\ Accepted'
<1>1. /\ step' = [step EXCEPT ![s] = what]
      /\ sending' = [sending EXCEPT ![s] = m]
      /\ reached' = [reached EXCEPT ![s] = FALSE]
  BY DEF await
<1>2. /\ step' = [t \in Senders |-> step'[t]]
      /\ sending' = [t \in Senders |-> sending'[t]]
      /\ reached' \in [Senders -> BOOLEAN]
  BY <1>1 DEF Shapes
<1>3. ~ reached'[s] /\ step'[s] = what
  BY <1>1 DEF Shapes
<1>4. \A t \in Senders \ {s} :
        step'[t] = step[t] /\ sending'[t] = sending[t] /\ reached'[t] = reached[t]
  BY <1>1 DEF Shapes
<1> QED
  BY <1>2, <1>3, <1>4 DEF Accepted

\* A bubble may say anything that is no claim, and a claim of what was taken.
LEMMA UpdateBacked ==
  ASSUME Shapes, Backed, NEW m, NEW w \in States, w \in Claimed => m \in taken,
         updateState(m, w), UNCHANGED <<disk, taken>>
  PROVE  state' \in [Messages -> States] /\ Backed'
<1>1. state' = state \/ state' = [state EXCEPT ![m] = w]
  BY DEF updateState
<1> QED
  BY <1>1 DEF Shapes, Backed

\* A bubble that goes claims nothing.
LEMMA RemoveBacked ==
  ASSUME Shapes, Backed, NEW m, removeBubble(m), UNCHANGED <<disk, taken>>
  PROVE  state' \in [Messages -> States] /\ Backed'
<1>1. state' = [state EXCEPT ![m] = "gone"]
  BY DEF removeBubble
<1> QED
  BY <1>1 DEF Shapes, Backed, States, Claimed

IInv == Shapes /\ Accepted /\ Backed

\* Nothing has been sent, and the archive says so.
LEMMA InitInv == Init => IInv
  BY DEF Init, memory, IInv, Shapes, Accepted, Backed, States, Claimed

-----------------------------------------------------------------------------
(* Steps                                                                   *)

\* The runner is one of the senders.
LEMMA RunnerSends == Runner \in Senders
  BY DEF Senders

\* What the person does claims nothing: a message is sent, waits again or goes.
LEMMA PersonNext == IInv /\ Person => IInv'
<1> SUFFICES ASSUME IInv, Person PROVE IInv'
  OBVIOUS
<1> USE DEF IInv
<1>0. "sending" \in States \ Claimed
  BY DEF States, Claimed
<1>1. ASSUME NEW m \in Texts, NEW c \in Calls, send(m, c) PROVE IInv'
  <2>1. c \in Senders /\ await(c, "send", m) /\ UNCHANGED <<disk, taken>>
        /\ state' = [state EXCEPT ![m] = "sending"]
    BY <1>1 DEF send, Senders, archive
  <2>2. state' \in [Messages -> States] /\ Backed'
    BY <1>0, <2>1 DEF Shapes, Backed
  <2> QED
    BY <2>1, <2>2, AwaitAccepted DEF Shapes
<1>2. ASSUME NEW m \in Texts, NEW c \in Calls, retryText(m, c) PROVE IInv'
  <2>1. c \in Senders /\ await(c, "send", m) /\ UNCHANGED <<disk, taken>>
        /\ updateState(m, "sending")
    BY <1>2 DEF retryText, Senders, archive
  <2>2. state' \in [Messages -> States] /\ Backed'
    BY <1>0, <2>1, UpdateBacked
  <2> QED
    BY <2>1, <2>2, AwaitAccepted DEF Shapes
<1>3. ASSUME NEW m \in Media, sendVoice(m) PROVE IInv'
  <2>1. /\ state' = [state EXCEPT ![m] = "sending"]
        /\ UNCHANGED <<step, sending, reached, disk, taken>>
    BY <1>3 DEF sendVoice, request
  <2> QED
    BY <1>0, <2>1 DEF Shapes, Accepted, Backed
<1>4. ASSUME NEW m \in Media, retryMedia(m) PROVE IInv'
  <2>1. updateState(m, "sending") /\ UNCHANGED <<step, sending, reached, disk, taken>>
    BY <1>4 DEF retryMedia, request, archive
  <2>2. state' \in [Messages -> States] /\ Backed'
    BY <1>0, <2>1, UpdateBacked
  <2> QED
    BY <2>1, <2>2 DEF Shapes, Accepted
<1>5. ASSUME NEW m \in Messages, discard(m) \/ deleteForMe(m) PROVE IInv'
  <2>1. removeBubble(m) /\ UNCHANGED <<step, sending, reached, disk, taken>>
    BY <1>5 DEF discard, deleteForMe, request
  <2>2. state' \in [Messages -> States] /\ Backed'
    BY <2>1, RemoveBacked
  <2> QED
    BY <2>1, <2>2 DEF Shapes, Accepted
<1>6. ASSUME NEW m \in Messages, deleteForEveryone(m) PROVE IInv'
  BY <1>6 DEF deleteForEveryone, request, Shapes, Accepted, Backed
<1> QED
  BY <1>1, <1>2, <1>3, <1>4, <1>5, <1>6 DEF Person

\* The steps of the flush begin requests and claim nothing.
LEMMA FlushNext ==
  IInv /\ (poll \/ drainQueue \/ sendWaitingTexts \/ runFlush) => IInv'
<1> SUFFICES ASSUME IInv, poll \/ drainQueue \/ sendWaitingTexts \/ runFlush PROVE IInv'
  OBVIOUS
<1> USE RunnerSends DEF IInv
<1>1. CASE poll \/ runFlush
  BY <1>1 DEF poll, runFlush, screen, request, archive, Shapes, Accepted, Backed
<1>2. CASE drainQueue
  <2>1. UNCHANGED <<state, disk, taken>>
    BY <1>2 DEF drainQueue, screen, archive
  <2>2. CASE UNCHANGED request
    BY <2>1, <2>2 DEF request, Shapes, Accepted, Backed
  <2>3. CASE \E what \in {"send", "upload"}, m \in {Head(outbox)} : await(Runner, what, m)
    <3>1. PICK what \in {"send", "upload"}, m \in {Head(outbox)} : await(Runner, what, m)
      BY <2>3
    <3>2. what # "sync"
      OBVIOUS
    <3> QED
      BY <2>1, <3>1, <3>2, AwaitAccepted DEF Shapes, Backed
  <2> QED
    BY <1>2, <2>2, <2>3 DEF drainQueue
<1>3. CASE sendWaitingTexts
  <2>1. updateState(Head(waiting), "sending") /\ UNCHANGED <<disk, taken>>
    BY <1>3 DEF sendWaitingTexts, archive
  <2>2. state' \in [Messages -> States] /\ Backed'
    BY <2>1, UpdateBacked DEF States, Claimed
  <2>3. CASE UNCHANGED request
    BY <2>1, <2>2, <2>3 DEF request, Shapes, Accepted
  <2>4. CASE await(Runner, "send", Head(waiting))
    BY <2>1, <2>2, <2>4, AwaitAccepted DEF Shapes
  <2> QED
    BY <1>3, <2>3, <2>4 DEF sendWaitingTexts
<1> QED
  BY <1>1, <1>2, <1>3

\* Only an answer to a request that was accepted lets a bubble claim anything.
LEMMA AnswerNext ==
  ASSUME IInv, NEW s \in Senders, Answer(s)
  PROVE  IInv'
<1> USE DEF IInv
<1>1. CASE accept(s)
  <2>1. /\ reached' = [reached EXCEPT ![s] = TRUE]
        /\ taken' = taken \cup {sending[s]}
        /\ UNCHANGED <<state, step, sending, disk>>
    BY <1>1 DEF accept, screen, archive
  <2> QED
    BY <2>1 DEF Shapes, Accepted, Backed
<1>2. CASE answered(s)
  <2>1. /\ reached[s] /\ step' = [step EXCEPT ![s] = "sync"]
        /\ UNCHANGED <<state, sending, reached, disk, taken>>
    BY <1>2 DEF answered, screen, archive
  <2> QED
    BY <2>1 DEF Shapes, Accepted, Backed
<1>3. CASE textSent(s)
  <2>1. /\ updateState(sending[s], "sent") /\ await(s, "idle", None)
        /\ UNCHANGED <<disk, taken>>
    BY <1>3 DEF textSent, return
  <2>2. sending[s] \in taken
    BY <1>3 DEF textSent, Accepted
  <2>3. state' \in [Messages -> States] /\ Backed'
    BY <2>1, <2>2, UpdateBacked DEF States
  <2> QED
    BY <2>1, <2>3, AwaitAccepted DEF Shapes
<1>4. CASE textWaits(s) \/ textRefused(s)
  <2>1. PICK w \in {"queued", "failed"} : updateState(sending[s], w)
    BY <1>4 DEF textWaits, textRefused
  <2>2. await(s, "idle", None) /\ UNCHANGED <<disk, taken>>
    BY <1>4 DEF textWaits, textRefused, return
  <2>3. state' \in [Messages -> States] /\ Backed'
    BY <2>1, <2>2, UpdateBacked DEF States, Claimed
  <2> QED
    BY <2>2, <2>3, AwaitAccepted DEF Shapes
<1> QED
  BY <1>1, <1>2, <1>3, <1>4 DEF Answer

\* The same of a recording.
LEMMA MediaNext == IInv /\ (uploadAnswered \/ mediaSent \/ mediaWaits) => IInv'
<1> SUFFICES ASSUME IInv, uploadAnswered \/ mediaSent \/ mediaWaits PROVE IInv'
  OBVIOUS
<1> USE RunnerSends DEF IInv
<1>1. CASE uploadAnswered
  <2>1. await(Runner, "send", sending[Runner]) /\ UNCHANGED <<state, disk, taken>>
    BY <1>1 DEF uploadAnswered, screen, archive
  <2> QED
    BY <2>1, AwaitAccepted DEF Shapes, Backed
<1>2. CASE mediaSent
  <2>1. /\ updateState(sending[Runner], "sent") /\ await(Runner, "idle", None)
        /\ UNCHANGED <<disk, taken>>
    BY <1>2 DEF mediaSent, return, archive
  <2>2. sending[Runner] \in taken
    BY <1>2 DEF mediaSent, Accepted
  <2>3. state' \in [Messages -> States] /\ Backed'
    BY <2>1, <2>2, UpdateBacked DEF States
  <2> QED
    BY <2>1, <2>3, AwaitAccepted DEF Shapes
<1>3. CASE mediaWaits
  <2>1. /\ updateState(sending[Runner], "queued") /\ await(Runner, "idle", None)
        /\ UNCHANGED <<disk, taken>>
    BY <1>3 DEF mediaWaits, return, archive
  <2>2. state' \in [Messages -> States] /\ Backed'
    BY <2>1, UpdateBacked DEF States, Claimed
  <2> QED
    BY <2>1, <2>2, AwaitAccepted DEF Shapes
<1> QED
  BY <1>1, <1>2, <1>3

\* A receipt is of a message the server has.
LEMMA ReceiptNext ==
  ASSUME IInv, NEW m \in Messages, NEW w \in Receipts, applyReceipt(m, w)
  PROVE  IInv'
<1>1. /\ m \in taken /\ state' = [state EXCEPT ![m] = w]
      /\ UNCHANGED <<step, sending, reached, disk, taken>>
  BY DEF applyReceipt, request
<1>2. w \in States
  BY OutboxAssumption DEF OutboxAssumption, States
<1> QED
  BY <1>1, <1>2 DEF IInv, Shapes, Accepted, Backed

\* What is archived was claimed before, and what is restored was archived.
LEMMA ArchiveNext == IInv /\ (save \/ flush \/ restore) => IInv'
<1> SUFFICES ASSUME IInv, save \/ flush \/ restore PROVE IInv'
  OBVIOUS
<1> USE DEF IInv
<1>1. CASE save \/ flush
  <2>1. disk'.state = state /\ UNCHANGED <<state, step, sending, reached, taken>>
    BY <1>1 DEF save, flush, memory, screen, request
  <2> QED
    BY <2>1 DEF Shapes, Accepted, Backed
<1>2. CASE restore
  <2>1. /\ taken \subseteq taken' /\ disk' = disk
        /\ step' = [s \in Senders |-> "idle"]
        /\ sending' = [s \in Senders |-> None]
        /\ reached' = [s \in Senders |-> FALSE]
    BY <1>2 DEF restore
  <2>2. /\ state' = [m \in Messages |-> state'[m]]
        /\ \A m \in Messages : state'[m] \in {disk.state[m], "none", "gone"}
    BY <1>2 DEF restore
  <2>3. state' \in [Messages -> States]
    BY <2>2 DEF Shapes, States
  <2>4. \A m \in Messages : state'[m] \in Claimed => state'[m] = disk.state[m]
    BY <2>2 DEF Claimed
  <2> QED
    BY <2>1, <2>3, <2>4 DEF Shapes, Accepted, Backed
<1> QED
  BY <1>1, <1>2

-----------------------------------------------------------------------------
(* Theorem                                                                 *)

\* A bubble that says sent, delivered or read is of a message the server accepted:
\* also when the process ends with the answer under way, when the message is retried
\* by hand while a flush sends it, or when a receipt overtakes the answer.
THEOREM ClaimsAreBacked == Spec => []SentIsTaken
<1>1. IInv /\ [Next]_vars => IInv'
  <2>1. IInv /\ Next => IInv'
    BY PersonNext, FlushNext, AnswerNext, MediaNext, ReceiptNext, ArchiveNext DEF Next
  <2>2. IInv /\ UNCHANGED vars => IInv'
    BY DEF vars, IInv, Shapes, Accepted, Backed
  <2> QED
    BY <2>1, <2>2
<1>2. IInv => SentIsTaken
  BY DEF IInv, Backed, Claimed, SentIsTaken
<1> QED
  BY InitInv, <1>1, <1>2, PTL DEF Spec

-----------------------------------------------------------------------------
(* Queues                                                                  *)

\* What is left of a sequence are those of its members that are in S, and a place
\* for each: its rank among them is one-to-one, so there are as many ranks as places.
LEMMA OnlyThose ==
  ASSUME NEW A, NEW s \in Seq(A), NEW S
  PROVE  /\ Only(s, S) \in Seq(A \cap S)
         /\ \A m : Contains(Only(s, S), m) <=> Contains(s, m) /\ m \in S
<1> DEFINE at   == {i \in DOMAIN s : s[i] \in S}
           c    == Cardinality(at)
           upto(i) == {j \in at : j <= i}
           rank == [i \in at |-> Cardinality(upto(i))]
           nth(k) == CHOOSE i \in at : Cardinality(upto(i)) = k
           o == Only(s, S)
<1>1. /\ Len(s) \in Nat /\ DOMAIN s = 1..Len(s)
      /\ IsFiniteSet(at) /\ c \in Nat
      /\ \A i \in at : i \in Nat /\ s[i] \in A \cap S
  <2>1. Len(s) \in Nat /\ DOMAIN s = 1..Len(s) /\ at \subseteq 1..Len(s)
    OBVIOUS
  <2>2. IsFiniteSet(1..Len(s))
    BY <2>1, FS_Interval
  <2>3. IsFiniteSet(at) /\ c \in Nat
    BY <2>1, <2>2, FS_Subset, FS_CardinalityType
  <2>4. \A i \in at : i \in Nat /\ s[i] \in A \cap S
    BY <2>1
  <2> QED
    BY <2>1, <2>3, <2>4
<1> HIDE DEF at
<1>2. \A i \in at : upto(i) \subseteq at /\ IsFiniteSet(upto(i)) /\ Cardinality(upto(i)) \in 1..c
  <2> TAKE i \in at
  <2>1. upto(i) \subseteq at /\ i \in upto(i)
    BY <1>1
  <2> HIDE DEF upto
  <2>2. IsFiniteSet(upto(i)) /\ Cardinality(upto(i)) \in Nat /\ Cardinality(upto(i)) <= c
    BY <1>1, <2>1, FS_Subset, FS_CardinalityType
  <2>3. Cardinality(upto(i)) # 0
    BY <2>1, <2>2, FS_EmptySet
  <2> QED
    BY <1>1, <2>1, <2>2, <2>3
<1>3. \A i, j \in at : i < j => Cardinality(upto(i)) < Cardinality(upto(j))
  <2> SUFFICES ASSUME NEW i \in at, NEW j \in at, i < j PROVE Cardinality(upto(i)) < Cardinality(upto(j))
    OBVIOUS
  <2>1. upto(i) \subseteq upto(j) \ {j} /\ j \in upto(j)
    BY <1>1
  <2>2. /\ IsFiniteSet(upto(i)) /\ IsFiniteSet(upto(j))
        /\ Cardinality(upto(i)) \in Nat /\ Cardinality(upto(j)) \in Nat
    BY <1>2, FS_CardinalityType
  <2> HIDE DEF upto
  <2>3. /\ IsFiniteSet(upto(j) \ {j})
        /\ Cardinality(upto(j) \ {j}) = Cardinality(upto(j)) - 1
    BY <2>1, <2>2, FS_RemoveElement
  <2>4. Cardinality(upto(i)) <= Cardinality(upto(j) \ {j})
    BY <2>1, <2>3, FS_Subset
  <2> QED
    BY <2>2, <2>3, <2>4
<1> HIDE DEF upto
<1>4. \A i, j \in at : Cardinality(upto(i)) = Cardinality(upto(j)) => i = j
  <2> SUFFICES ASSUME NEW i \in at, NEW j \in at, i # j
               PROVE  Cardinality(upto(i)) # Cardinality(upto(j))
    OBVIOUS
  <2>1. i < j \/ j < i
    BY <1>1
  <2>2. Cardinality(upto(i)) \in Nat /\ Cardinality(upto(j)) \in Nat
    BY <1>2
  <2> QED
    BY <1>3, <2>1, <2>2
<1>5. rank \in Injection(at, 1..c)
  BY <1>2, <1>4 DEF Injection, IsInjective
<1>6. rank \in Surjection(at, 1..c)
  <2>1. IsFiniteSet(1..c) /\ Cardinality(1..c) = c
    BY <1>1, FS_Interval
  <2> QED
    BY <1>5, <2>1, FS_Injection
<1>7. \A k \in 1..c : nth(k) \in at /\ Cardinality(upto(nth(k))) = k
  <2> TAKE k \in 1..c
  <2>1. \E i \in at : Cardinality(upto(i)) = k
    BY <1>6 DEF Surjection
  <2> QED
    BY <2>1
<1>8. o = [k \in 1..c |-> s[nth(k)]]
  BY DEF Only, at, upto
<1> HIDE DEF nth, o, rank
<1>9. o \in Seq(A \cap S) /\ Len(o) = c
  <2>1. o \in [1..c -> A \cap S]
    BY <1>1, <1>7, <1>8
  <2> QED
    BY <1>1, <2>1
<1>10. ASSUME NEW m, Contains(o, m) PROVE Contains(s, m) /\ m \in S
  <2>1. PICK k \in 1..c : o[k] = m
    BY <1>9, <1>10 DEF Contains
  <2>2. nth(k) \in at /\ s[nth(k)] = m
    BY <1>7, <1>8, <2>1
  <2> QED
    BY <1>1, <2>2 DEF Contains, at
<1>11. ASSUME NEW m \in S, Contains(s, m) PROVE Contains(o, m)
  <2>1. PICK i \in 1..Len(s) : s[i] = m
    BY <1>11 DEF Contains
  <2>2. i \in at
    BY <1>1, <2>1 DEF at
  <2>3. PICK k \in 1..c : k = Cardinality(upto(i))
    BY <1>2, <2>2
  <2>4. nth(k) = i
    BY <1>4, <1>7, <2>2, <2>3
  <2>5. o[k] = m
    BY <1>8, <2>1, <2>3, <2>4
  <2> QED
    BY <1>9, <2>3, <2>5 DEF Contains
<1> QED
  BY <1>9, <1>10, <1>11 DEF o

LEMMA WithoutIt ==
  ASSUME NEW A, A \subseteq Messages, NEW s \in Seq(A), NEW m
  PROVE  /\ Without(s, m) \in Seq(A)
         /\ \A n : Contains(Without(s, m), n) <=> Contains(s, n) /\ n # m
<1> DEFINE o == Only(s, Messages \ {m})
<1>1. /\ o \in Seq(A \cap (Messages \ {m}))
      /\ \A n : Contains(o, n) <=> Contains(s, n) /\ n \in Messages \ {m}
  BY OnlyThose
<1>2. \A n : Contains(s, n) => n \in Messages
  BY DEF Contains
<1>3. o \in Seq(A)
  BY <1>1
<1>4. Without(s, m) = o \/ (Without(s, m) = s /\ ~ Contains(s, m))
  BY DEF Without
<1> HIDE DEF o
<1> QED
  BY <1>1, <1>2, <1>3, <1>4

LEMMA Appended ==
  ASSUME NEW A, NEW s \in Seq(A), NEW m \in A
  PROVE  /\ Append(s, m) \in Seq(A)
         /\ \A n : Contains(Append(s, m), n) <=> Contains(s, n) \/ n = m
<1>1. /\ Append(s, m) \in Seq(A) /\ Len(s) \in Nat /\ Len(Append(s, m)) = Len(s) + 1
      /\ Append(s, m)[Len(s) + 1] = m
      /\ \A i \in 1..Len(s) : Append(s, m)[i] = s[i]
  OBVIOUS
<1>2. 1..(Len(s) + 1) = 1..Len(s) \cup {Len(s) + 1}
  BY <1>1
<1> QED
  BY <1>1, <1>2 DEF Contains

LEMMA EmptyHasNothing == \A m : ~ Contains(<<>>, m)
  BY DEF Contains

-----------------------------------------------------------------------------
(* What waits                                                              *)

Lists ==
    /\ chat \in Seq(Messages) /\ outbox \in Seq(Media) /\ unsent \in Seq(Texts)
    /\ waiting \in Seq(Texts) /\ state \in [Messages -> States]
    /\ disk.chat \in Seq(Messages) /\ disk.outbox \in Seq(Media)
    /\ disk.state \in [Messages -> States]

\* A bubble is in the chat c while its word is one, and only then a tombstone; a
\* recording in the outbox o has a bubble, and one that says it waits is there.
Tidy(c, d, w, o, u) ==
    /\ \A m \in Messages : Contains(c, m) <=> w[m] \notin {"none", "gone"}
    /\ d \subseteq Messages /\ \A m \in d : Contains(c, m)
    /\ u \subseteq Media /\ \A m \in u : Contains(o, m)
    /\ \A m \in Media : Contains(o, m) => Contains(c, m) /\ m \notin d
    /\ \A m \in Media \ d : w[m] \in {"queued", "sending"} => Contains(o, m)

TidyNow    == Tidy(chat, deleted, state, outbox, uploaded)
TidyOnDisk == Tidy(disk.chat, disk.deleted, disk.state, disk.outbox, disk.uploaded)

\* Calls send texts; a recording that is under way waits in the outbox, or has lost
\* its bubble, or is a tombstone.
InPlace(m) == Contains(outbox, m) \/ ~ onScreen(m) \/ m \in deleted

Asks ==
    /\ step \in [Senders -> {"idle", "upload", "send", "sync"}]
    /\ sending \in [Senders -> Messages \cup {None}]
    /\ \A s \in Senders :
          /\ step[s] = "idle" <=> sending[s] = None
          /\ sending[s] # None => state[sending[s]] # "none"
          /\ s # Runner => step[s] # "upload" /\ sending[s] \in Texts \cup {None}
    /\ step[Runner] = "upload" => sending[Runner] \in Media
    /\ \A m \in Media : sending[Runner] = m => InPlace(m)

\* What was uploaded has a bubble, or had; while it waits its entry says so.
Knows ==
    /\ known \subseteq Media
    /\ \A m \in known : state[m] # "none" /\ (Contains(outbox, m) => m \in uploaded)

\* A text that says it waits is in the queue or under way.
Owed == \A m \in Texts \ deleted :
            state[m] \in {"queued", "sending"} => Contains(unsent, m) \/ underWay(m)

Waits == Lists /\ TidyNow /\ TidyOnDisk /\ Asks /\ Knows /\ Owed

\* A bubble that is there says something else.
LEMMA Reworded ==
  ASSUME Lists, TidyNow, NEW m \in Messages, NEW w \in States \ {"none", "gone"}, updateState(m, w)
  PROVE  /\ state' \in [Messages -> States]
         /\ \A n \in Messages : /\ state'[n] = IF n = m /\ onScreen(m) THEN w ELSE state[n]
                                /\ state'[n] \in {"none", "gone"} <=> state[n] \in {"none", "gone"}
                                /\ state[n] # "none" => state'[n] # "none"
<1>1. state \in [Messages -> States] /\ (onScreen(m) => state[m] \notin {"none", "gone"})
  BY DEF Lists, TidyNow, Tidy, onScreen
<1>2. state' = IF onScreen(m) THEN [state EXCEPT ![m] = w] ELSE state
  BY DEF updateState
<1> QED
  BY <1>1, <1>2

\* A bubble goes.
LEMMA Removed ==
  ASSUME Lists, TidyNow, NEW m \in Messages, removeBubble(m)
  PROVE  /\ state' \in [Messages -> States] /\ chat' \in Seq(Messages) /\ deleted' = deleted \ {m}
         /\ \A n : Contains(chat', n) <=> Contains(chat, n) /\ n # m
         /\ \A n \in Messages : state'[n] = IF n = m THEN "gone" ELSE state[n]
<1>1. state' = [state EXCEPT ![m] = "gone"] /\ chat' = Without(chat, m) /\ deleted' = deleted \ {m}
  BY DEF removeBubble
<1>2. "gone" \in States
  BY DEF States
<1> QED
  BY <1>1, <1>2, WithoutIt DEF Lists

\* A request begins, or is over.
LEMMA Requested ==
  ASSUME Asks, NEW s \in Senders, NEW m \in Messages \cup {None},
         NEW what \in {"idle", "upload", "send"}, await(s, what, m)
  PROVE  /\ step' \in [Senders -> {"idle", "upload", "send", "sync"}]
         /\ sending' \in [Senders -> Messages \cup {None}]
         /\ step'[s] = what /\ sending'[s] = m
         /\ \A t \in Senders \ {s} : step'[t] = step[t] /\ sending'[t] = sending[t]
BY DEF await, Asks

LEMMA AsksRequested ==
  ASSUME Asks, NEW s \in Senders, NEW m \in Messages \cup {None},
         NEW what \in {"idle", "upload", "send"}, await(s, what, m),
         what = "idle" <=> m = None,
         m # None => state'[m] # "none",
         s # Runner => what # "upload" /\ m \in Texts \cup {None},
         what = "upload" => m \in Media,
         \A n \in Messages : state[n] # "none" => state'[n] # "none",
         \A n \in Media : s = Runner /\ m = n => InPlace(n)',
         s # Runner => \A n \in Media : InPlace(n) => InPlace(n)'
  PROVE  Asks'
<1>1. /\ step' \in [Senders -> {"idle", "upload", "send", "sync"}]
      /\ sending' \in [Senders -> Messages \cup {None}]
      /\ step'[s] = what /\ sending'[s] = m
      /\ \A t \in Senders \ {s} : step'[t] = step[t] /\ sending'[t] = sending[t]
  BY Requested
<1>2. ASSUME NEW t \in Senders
      PROVE  /\ step'[t] = "idle" <=> sending'[t] = None
             /\ sending'[t] # None => state'[sending'[t]] # "none"
             /\ t # Runner => step'[t] # "upload" /\ sending'[t] \in Texts \cup {None}
  <2>1. CASE t = s
    BY <1>1, <2>1
  <2>2. CASE t # s
    BY <1>1, <2>2 DEF Asks
  <2> QED
    BY <2>1, <2>2
<1>3. step'[Runner] = "upload" => sending'[Runner] \in Media
  BY <1>1, RunnerSends DEF Asks
<1>4. \A n \in Media : sending'[Runner] = n => InPlace(n)'
  <2> TAKE n \in Media
  <2>1. CASE s = Runner
    BY <1>1, <2>1
  <2>2. CASE s # Runner
    BY <1>1, <2>2, RunnerSends DEF Asks
  <2> QED
    BY <2>1, <2>2
<1> QED
  BY <1>1, <1>2, <1>3, <1>4 DEF Asks

LEMMA AsksStill ==
  ASSUME Asks, UNCHANGED <<step, sending>>,
         \A n \in Messages : state[n] # "none" => state'[n] # "none",
         \A n \in Media : InPlace(n) => InPlace(n)'
  PROVE  Asks'
<1>1. \A s \in Senders : sending[s] # None => state'[sending[s]] # "none"
  BY DEF Asks
<1>2. \A n \in Media : sending'[Runner] = n => InPlace(n)'
  BY DEF Asks
<1> QED
  BY <1>1, <1>2 DEF Asks

\* Nothing that waits changes.
LEMMA WaitsStill ==
  ASSUME Waits, waiting' \in Seq(Texts),
         UNCHANGED <<chat, deleted, state, outbox, uploaded, unsent, step, sending, disk, known>>
  PROVE  Waits'
<1>1. Lists' /\ TidyNow' /\ TidyOnDisk' /\ Knows' /\ Owed'
  BY DEF Waits, Lists, TidyNow, Tidy, TidyOnDisk, Knows, Owed, onScreen, underWay
<1>2. Asks'
  BY DEF Waits, Asks, InPlace, onScreen
<1> QED
  BY <1>1, <1>2 DEF Waits

\* Facts of every state that the steps keep needing.
LEMMA Facts ==
  ASSUME Waits
  PROVE  /\ Texts \cap Media = {} /\ Runner \notin Calls /\ None \notin Messages
         /\ Messages = Texts \cup Media
         /\ \A m \in Messages : onScreen(m) <=> state[m] \notin {"none", "gone"}
         /\ deleted \subseteq Messages /\ \A m \in deleted : onScreen(m)
         /\ \A m \in Media : Contains(outbox, m) => onScreen(m) /\ m \notin deleted
         /\ \A s \in Senders : step[s] = "idle" <=> sending[s] = None
         /\ \A c \in Calls : c \in Senders /\ c # Runner
BY OutboxAssumption DEF Messages, Waits, TidyNow, Tidy, onScreen, Asks, Senders

\* A text is sent, or sent again, by the call itself.
LEMMA WaitsSend ==
  ASSUME Waits, NEW m \in Texts, NEW c \in Calls, send(m, c) \/ retryText(m, c)
  PROVE  Waits'
<1> USE Facts DEF Waits
<1>0. m \in Messages /\ m # None /\ c \in Senders /\ "sending" \in States \ {"none", "gone"}
  BY DEF States
<1>1. /\ step[c] = "idle" /\ await(c, "send", m)
      /\ UNCHANGED <<deleted, outbox, uploaded, waiting, disk, known>>
  BY DEF send, retryText, queues, pass, archive
<1>2. /\ chat' \in Seq(Messages) /\ unsent' \in Seq(Texts) /\ state' \in [Messages -> States]
      /\ onScreen(m)'
      /\ \A n \in Messages : /\ onScreen(n)' <=> onScreen(n) \/ n = m
                             /\ state'[n] = IF n = m THEN "sending" ELSE state[n]
                             /\ Contains(unsent, n) => Contains(unsent', n)
  <2>1. CASE send(m, c)
    <3>1. chat' = Append(chat, m) /\ state' = [state EXCEPT ![m] = "sending"] /\ unsent' = unsent
      BY <2>1 DEF send, queues
    <3> QED
      BY <1>0, <3>1, Appended DEF Lists, onScreen
  <2>2. CASE retryText(m, c)
    <3>1. chat' = chat /\ wait(m) /\ updateState(m, "sending") /\ onScreen(m)
      BY <2>2 DEF retryText
    <3>2. unsent' \in Seq(Texts) /\ \A n : Contains(unsent, n) => Contains(unsent', n)
      BY <3>1, Appended DEF wait, Lists
    <3>3. state' \in [Messages -> States]
          /\ \A n \in Messages : state'[n] = IF n = m THEN "sending" ELSE state[n]
      BY <1>0, <3>1, Reworded
    <3> QED
      BY <3>1, <3>2, <3>3 DEF Lists, onScreen
  <2> QED
    BY <2>1, <2>2
<1>3. \A s \in Senders : /\ s # c => sending'[s] = sending[s]
                         /\ s = c => sending'[s] = m /\ sending[s] = None
  BY <1>0, <1>1, Requested
<1>4. Lists'
  BY <1>1, <1>2 DEF Lists
<1>5. TidyNow'
  <2>1. \A n \in Messages : Contains(chat', n) <=> state'[n] \notin {"none", "gone"}
    BY <1>0, <1>2 DEF onScreen
  <2>2. \A n \in Media : state'[n] = state[n] /\ (Contains(chat, n) => Contains(chat', n))
    BY <1>0, <1>2 DEF onScreen
  <2>3. \A n \in deleted : Contains(chat', n)
    BY <1>2 DEF onScreen
  <2> QED
    BY <1>1, <2>1, <2>2, <2>3 DEF TidyNow, Tidy
<1>6. TidyOnDisk'
  BY <1>1 DEF TidyOnDisk
<1>7. Asks'
  <2>1. \A n \in Messages : state[n] # "none" => state'[n] # "none"
    BY <1>2
  <2>2. \A n \in Media : InPlace(n) => InPlace(n)'
    <3> TAKE n \in Media
    <3>1. n # m /\ n \in Messages
      BY <1>0
    <3> QED
      BY <1>1, <1>2, <3>1 DEF InPlace
  <2>3. state'[m] # "none"
    BY <1>0, <1>2
  <2> QED
    BY <1>0, <1>1, <2>1, <2>2, <2>3, AsksRequested
<1>8. Knows'
  BY <1>1, <1>2 DEF Knows
<1>9. Owed'
  <2> SUFFICES ASSUME NEW n \in Texts \ deleted, state'[n] \in {"queued", "sending"}
               PROVE  Contains(unsent', n) \/ underWay(n)'
    BY <1>1 DEF Owed
  <2>1. CASE n = m
    BY <1>0, <1>3, <2>1 DEF underWay
  <2>2. CASE n # m
    <3>1. Contains(unsent, n) \/ underWay(n)
      BY <1>2, <2>2 DEF Owed
    <3>2. n # None /\ n \in Messages
      OBVIOUS
    <3> QED
      BY <1>2, <1>3, <3>1, <3>2 DEF underWay
  <2> QED
    BY <2>1, <2>2
<1> QED
  BY <1>4, <1>5, <1>6, <1>7, <1>8, <1>9

\* A recording waits in the outbox from the first, and again when it is retried.
LEMMA WaitsMedia ==
  ASSUME Waits, NEW m \in Media, sendVoice(m) \/ retryMedia(m)
  PROVE  Waits'
<1> USE Facts DEF Waits
<1>0. m \in Messages /\ "sending" \in States \ {"none", "gone"}
  BY DEF States
<1>1. UNCHANGED <<deleted, uploaded, unsent, waiting, step, sending, disk, known>>
  BY DEF sendVoice, retryMedia, queues, request, archive
<1>2. /\ chat' \in Seq(Messages) /\ outbox' \in Seq(Media) /\ state' \in [Messages -> States]
      /\ Contains(outbox', m) /\ onScreen(m)' /\ m \notin deleted
      /\ \A n \in Messages : /\ onScreen(n)' <=> onScreen(n) \/ n = m
                             /\ state'[n] = IF n = m THEN "sending" ELSE state[n]
                             /\ Contains(outbox', n) <=> Contains(outbox, n) \/ n = m
      /\ m \in known => Contains(outbox, m)
  <2>1. CASE sendVoice(m)
    <3>1. /\ chat' = Append(chat, m) /\ state' = [state EXCEPT ![m] = "sending"]
          /\ outbox' = Append(outbox, m) /\ state[m] = "none"
      BY <2>1 DEF sendVoice
    <3>2. m \notin deleted /\ m \notin known
      <4>1. \A n \in deleted : state[n] \notin {"none", "gone"}
        OBVIOUS
      <4>2. Knows /\ state[m] = "none"
        BY <3>1
      <4>3. m \notin known
        BY <4>2 DEF Knows
      <4> QED
        BY <4>1, <4>2, <4>3
    <3> QED
      BY <1>0, <3>1, <3>2, Appended DEF Lists, onScreen
  <2>2. CASE retryMedia(m)
    <3>1. /\ chat' = chat /\ outbox' = outbox /\ updateState(m, "sending")
          /\ Contains(outbox, m)
      BY <2>2 DEF retryMedia, queues
    <3>2. onScreen(m) /\ m \notin deleted
      BY <3>1
    <3>3. state' \in [Messages -> States]
          /\ \A n \in Messages : state'[n] = IF n = m THEN "sending" ELSE state[n]
      BY <1>0, <3>1, <3>2, Reworded
    <3> QED
      BY <3>1, <3>2, <3>3 DEF Lists, onScreen
  <2> QED
    BY <2>1, <2>2
<1>3. Lists'
  BY <1>1, <1>2 DEF Lists
<1>4. TidyNow'
  <2>1. \A n \in Messages : Contains(chat', n) <=> state'[n] \notin {"none", "gone"}
    BY <1>0, <1>2 DEF onScreen
  <2>2. \A n \in deleted : Contains(chat', n)
    BY <1>2 DEF onScreen
  <2>3. \A n \in uploaded : Contains(outbox', n)
    BY <1>2 DEF TidyNow, Tidy
  <2>4. \A n \in Media : Contains(outbox', n) => Contains(chat', n) /\ n \notin deleted
    BY <1>2 DEF onScreen
  <2>5. \A n \in Media \ deleted : state'[n] \in {"queued", "sending"} => Contains(outbox', n)
    BY <1>2 DEF TidyNow, Tidy
  <2> QED
    BY <1>1, <2>1, <2>2, <2>3, <2>4, <2>5 DEF TidyNow, Tidy
<1>5. TidyOnDisk'
  BY <1>1 DEF TidyOnDisk
<1>6. Asks'
  <2>1. \A n \in Messages : state[n] # "none" => state'[n] # "none"
    BY <1>2
  <2>2. \A n \in Media : InPlace(n) => InPlace(n)'
    BY <1>1, <1>2 DEF InPlace
  <2> QED
    BY <1>1, <2>1, <2>2, AsksStill
<1>7. Knows'
  BY <1>0, <1>1, <1>2 DEF Knows
<1>8. Owed'
  <2>1. \A n \in Texts : state'[n] = state[n]
    BY <1>0, <1>2
  <2> QED
    BY <1>1, <2>1 DEF Owed, underWay
<1> QED
  BY <1>3, <1>4, <1>5, <1>6, <1>7, <1>8

\* A bubble goes: a recording that still waits goes out of the outbox with it.
LEMMA WaitsDrop ==
  ASSUME Waits, NEW m \in Messages, discard(m) \/ deleteForMe(m)
  PROVE  Waits'
<1> USE Facts DEF Waits
<1>1. removeBubble(m) /\ UNCHANGED <<waiting, step, sending, disk, known>>
  BY DEF discard, deleteForMe, pass, request
<1>2. /\ outbox' \in Seq(Media) /\ unsent' \in Seq(Texts)
      /\ \A n \in Messages : /\ Contains(outbox', n) <=> Contains(outbox, n) /\ n # m
                             /\ n # m => (Contains(unsent', n) <=> Contains(unsent, n))
                             /\ n # m => (n \in uploaded' <=> n \in uploaded)
      /\ uploaded' \subseteq uploaded /\ m \notin uploaded'
  <2>1. CASE discard(m)
    <3>1. /\ outbox' = Without(outbox, m) /\ unsent' = Without(unsent, m)
          /\ uploaded' = uploaded \ {m}
      BY <2>1 DEF discard
    <3> QED
      BY <3>1, WithoutIt DEF Lists
  <2>2. CASE deleteForMe(m)
    <3>1. UNCHANGED <<outbox, unsent, uploaded>> /\ mayDelete(m)
      BY <2>2 DEF deleteForMe, queues
    <3>2. m \in Media => ~ Contains(outbox, m)
      BY <3>1 DEF mayDelete, isQueued
    <3>3. \A n : Contains(outbox, n) => n \in Media
      BY DEF Lists, Contains
    <3>4. m \notin uploaded
      BY <3>2, <3>3 DEF TidyNow, Tidy
    <3> QED
      BY <3>1, <3>2, <3>3, <3>4 DEF Lists
  <2> QED
    BY <2>1, <2>2
<1>3. /\ state' \in [Messages -> States] /\ chat' \in Seq(Messages) /\ deleted' = deleted \ {m}
      /\ \A n : Contains(chat', n) <=> Contains(chat, n) /\ n # m
      /\ \A n \in Messages : state'[n] = IF n = m THEN "gone" ELSE state[n]
  BY <1>1, Removed
<1>4. Lists'
  BY <1>1, <1>2, <1>3 DEF Lists
<1>5. TidyNow'
  <2>1. \A n \in Messages : Contains(chat', n) <=> state'[n] \notin {"none", "gone"}
    BY <1>3 DEF onScreen
  <2>2. deleted' \subseteq Messages /\ \A n \in deleted' : Contains(chat', n)
    BY <1>3 DEF onScreen
  <2>3. uploaded' \subseteq Media /\ \A n \in uploaded' : Contains(outbox', n)
    BY <1>2 DEF TidyNow, Tidy
  <2>4. \A n \in Media : Contains(outbox', n) => Contains(chat', n) /\ n \notin deleted'
    BY <1>2, <1>3 DEF onScreen
  <2>5. \A n \in Media \ deleted' : state'[n] \in {"queued", "sending"} => Contains(outbox', n)
    BY <1>2, <1>3 DEF TidyNow, Tidy
  <2> QED
    BY <2>1, <2>2, <2>3, <2>4, <2>5 DEF TidyNow, Tidy
<1>6. TidyOnDisk'
  BY <1>1 DEF TidyOnDisk
<1>7. Asks'
  <2>1. \A n \in Messages : state[n] # "none" => state'[n] # "none"
    BY <1>3
  <2>2. \A n \in Media : InPlace(n) => InPlace(n)'
    BY <1>2, <1>3 DEF InPlace, onScreen
  <2> QED
    BY <1>1, <2>1, <2>2, AsksStill
<1>8. Knows'
  BY <1>1, <1>2, <1>3 DEF Knows
<1>9. Owed'
  BY <1>1, <1>2, <1>3 DEF Owed, underWay
<1> QED
  BY <1>4, <1>5, <1>6, <1>7, <1>8, <1>9

\* A bubble becomes a tombstone.
LEMMA WaitsDelete ==
  ASSUME Waits, NEW m \in Messages, deleteForEveryone(m)
  PROVE  Waits'
<1> USE Facts DEF Waits
<1>1. /\ deleted' = deleted \cup {m} /\ outbox' = Without(outbox, m) /\ uploaded' = uploaded \ {m}
      /\ onScreen(m) /\ UNCHANGED <<chat, state, unsent, waiting, step, sending, disk, known>>
  BY DEF deleteForEveryone, mayDelete, pass, request
<1>2. outbox' \in Seq(Media) /\ \A n : Contains(outbox', n) <=> Contains(outbox, n) /\ n # m
  BY <1>1, WithoutIt DEF Lists
<1>3. Lists' /\ TidyOnDisk'
  BY <1>1, <1>2 DEF Lists, TidyOnDisk
<1>4. TidyNow'
  BY <1>1, <1>2 DEF TidyNow, Tidy, onScreen
<1>5. Asks'
  <2>1. \A n \in Media : InPlace(n) => InPlace(n)'
    BY <1>1, <1>2 DEF InPlace, onScreen
  <2> QED
    BY <1>1, <2>1, AsksStill
<1>6. Knows' /\ Owed'
  BY <1>1, <1>2 DEF Knows, Owed, underWay
<1> QED
  BY <1>3, <1>4, <1>5, <1>6

-----------------------------------------------------------------------------
(* The flush and the answers                                               *)

\* A message that is under way, or about to be, says something else, and its bubble
\* stays.
LEMMA TidyReworded ==
  ASSUME Waits, NEW m \in Messages, NEW w \in States \ {"none", "gone"}, updateState(m, w),
         UNCHANGED <<chat, deleted, outbox, uploaded>>,
         m \in Texts \/ InPlace(m) \/ w \notin {"queued", "sending"}
  PROVE  /\ TidyNow'
         /\ \A n \in Messages : state[n] # "none" => state'[n] # "none"
         /\ \A n \in Media : InPlace(n) => InPlace(n)'
<1> USE Facts DEF Waits
<1>1. /\ state' \in [Messages -> States]
      /\ \A n \in Messages : /\ state'[n] = IF n = m /\ onScreen(m) THEN w ELSE state[n]
                             /\ state'[n] \in {"none", "gone"} <=> state[n] \in {"none", "gone"}
                             /\ state[n] # "none" => state'[n] # "none"
  BY Reworded
<1>2. \A n \in Messages : Contains(chat', n) <=> state'[n] \notin {"none", "gone"}
  BY <1>1 DEF onScreen
<1>3. ASSUME NEW n \in Media \ deleted, state'[n] \in {"queued", "sending"}
      PROVE  Contains(outbox', n)
  <2>1. CASE n = m /\ onScreen(m)
    BY <1>1, <1>3, <2>1 DEF InPlace
  <2>2. CASE ~(n = m /\ onScreen(m))
    BY <1>1, <1>3, <2>2 DEF TidyNow, Tidy
  <2> QED
    BY <2>1, <2>2
<1>4. TidyNow'
  BY <1>2, <1>3 DEF TidyNow, Tidy
<1>5. \A n \in Media : InPlace(n) => InPlace(n)'
  BY DEF InPlace, onScreen
<1> QED
  BY <1>1, <1>4, <1>5

\* The media are worked off one at a time: the one in front is asked for.
LEMMA WaitsDrain ==
  ASSUME Waits, drainQueue
  PROVE  Waits'
<1> USE Facts, RunnerSends DEF Waits
<1>1. UNCHANGED <<chat, deleted, state, outbox, uploaded, unsent, disk, known>>
  BY DEF drainQueue, screen, queues, archive
<1>2. CASE outbox = <<>>
  <2>1. waiting' = unsent /\ UNCHANGED <<step, sending>>
    BY <1>2 DEF drainQueue, startTexts, request
  <2>2. waiting' \in Seq(Texts)
    BY <2>1 DEF Lists
  <2> QED
    BY <1>1, <2>1, <2>2, WaitsStill
<1>3. CASE outbox # <<>>
  <2> DEFINE m == Head(outbox)
             what == IF m \in uploaded THEN "send" ELSE "upload"
  <2>1. /\ await(Runner, what, m) /\ waiting' = waiting /\ step[Runner] = "idle"
    BY <1>3 DEF drainQueue
  <2>2. m \in Media /\ m \in Messages /\ m # None /\ Contains(outbox, m)
    <3>1. Len(outbox) \in Nat /\ Len(outbox) # 0 /\ m = outbox[1] /\ outbox[1] \in Media
      BY <1>3 DEF Lists
    <3> QED
      BY <3>1 DEF Contains, Messages
  <2>3. onScreen(m) /\ state[m] # "none"
    BY <2>2
  <2>4. what \in {"idle", "upload", "send"} /\ what # "idle"
    OBVIOUS
  <2> HIDE DEF m, what
  <2>5. Lists' /\ TidyNow' /\ TidyOnDisk' /\ Knows'
    BY <1>1, <2>1 DEF Lists, TidyNow, Tidy, TidyOnDisk, Knows
  <2>6. Asks'
    <3>1. \A n \in Messages : state[n] # "none" => state'[n] # "none"
      BY <1>1
    <3>2. \A n \in Media : m = n => InPlace(n)'
      BY <1>1, <2>2 DEF InPlace
    <3>3. state'[m] # "none"
      BY <1>1, <2>3
    <3> QED
      BY <2>1, <2>2, <2>4, <3>1, <3>2, <3>3, AsksRequested
  <2>7. Owed'
    <3>1. \A s \in Senders : s # Runner => sending'[s] = sending[s]
      BY <2>1, <2>2, <2>4, Requested
    <3>2. sending[Runner] = None
      BY <2>1
    <3> QED
      BY <1>1, <3>1, <3>2 DEF Owed, underWay
  <2> QED
    BY <2>5, <2>6, <2>7
<1> QED
  BY <1>2, <1>3

\* A text that waited is sent, or is dropped because its bubble is gone.
LEMMA WaitsTexts ==
  ASSUME Waits, sendWaitingTexts
  PROVE  Waits'
<1> USE Facts, RunnerSends DEF Waits
<1> DEFINE m == Head(waiting)
<1>1. /\ step[Runner] = "idle" /\ waiting' = Tail(waiting) /\ updateState(m, "sending")
      /\ \/ onScreen(m) /\ await(Runner, "send", m) /\ unsent' = unsent
         \/ ~ onScreen(m) /\ unsent' = Without(unsent, m) /\ UNCHANGED <<step, sending>>
      /\ UNCHANGED <<chat, deleted, outbox, uploaded, disk, known>>
  BY DEF sendWaitingTexts, request, archive
<1>2. /\ m \in Texts /\ m \in Messages /\ m # None /\ waiting' \in Seq(Texts)
      /\ "sending" \in States \ {"none", "gone"}
  <2>1. waiting \in Seq(Texts) /\ waiting # <<>>
    BY DEF Lists, sendWaitingTexts
  <2> QED
    BY <1>1, <2>1 DEF States
<1> HIDE DEF m
<1>3. /\ state' \in [Messages -> States]
      /\ \A n \in Messages : /\ state'[n] = IF n = m /\ onScreen(m) THEN "sending" ELSE state[n]
                             /\ state[n] # "none" => state'[n] # "none"
  BY <1>1, <1>2, Reworded
<1>4. TidyNow' /\ \A n \in Media : InPlace(n) => InPlace(n)'
  BY <1>1, <1>2, TidyReworded
<1>5. /\ unsent' \in Seq(Texts)
      /\ \A n : n # m \/ onScreen(m) => (Contains(unsent, n) => Contains(unsent', n))
  <2>1. unsent \in Seq(Texts) /\ Texts \subseteq Messages
    BY DEF Lists
  <2>2. /\ Without(unsent, m) \in Seq(Texts)
        /\ \A n : Contains(Without(unsent, m), n) <=> Contains(unsent, n) /\ n # m
    BY <2>1, WithoutIt
  <2> QED
    BY <1>1, <2>1, <2>2
<1>6. Lists' /\ TidyOnDisk' /\ Knows'
  BY <1>1, <1>2, <1>3, <1>5 DEF Lists, TidyOnDisk, Knows
<1>7. CASE onScreen(m)
  <2>1. await(Runner, "send", m)
    BY <1>1, <1>7
  <2>2. /\ \A s \in Senders : s # Runner => sending'[s] = sending[s]
        /\ sending'[Runner] = m /\ sending[Runner] = None
    BY <1>1, <1>2, <2>1, Requested
  <2>3. Asks'
    <3>1. \A n \in Messages : state[n] # "none" => state'[n] # "none"
      BY <1>3
    <3>2. \A n \in Media : m # n
      BY <1>2
    <3>3. state'[m] # "none"
      BY <1>2, <1>3, <1>7
    <3> QED
      BY <1>2, <2>1, <3>1, <3>2, <3>3, AsksRequested
  <2>4. Owed'
    <3> SUFFICES ASSUME NEW n \in Texts \ deleted, state'[n] \in {"queued", "sending"}
                 PROVE  Contains(unsent', n) \/ underWay(n)'
      BY <1>1 DEF Owed
    <3>1. CASE n = m
      BY <2>2, <3>1 DEF underWay
    <3>2. CASE n # m
      <4>1. n \in Messages /\ n # None
        OBVIOUS
      <4>2. Contains(unsent, n) \/ underWay(n)
        BY <1>3, <3>2, <4>1 DEF Owed
      <4> QED
        BY <1>5, <2>2, <3>2, <4>1, <4>2 DEF underWay
    <3> QED
      BY <3>1, <3>2
  <2> QED
    BY <1>4, <1>6, <2>3, <2>4
<1>8. CASE ~ onScreen(m)
  <2>1. UNCHANGED <<step, sending>> /\ state' = state
    BY <1>1, <1>8 DEF updateState
  <2>2. Asks'
    BY <1>4, <2>1, AsksStill
  <2>3. Owed'
    <3>1. state[m] \notin {"queued", "sending"}
      BY <1>2, <1>8
    <3> QED
      BY <1>1, <1>5, <2>1, <3>1 DEF Owed, underWay
  <2> QED
    BY <1>4, <1>6, <2>2, <2>3
<1> QED
  BY <1>7, <1>8

\* A text is answered for, whatever the answer; one that failed to go out waits.
LEMMA WaitsAnswer ==
  ASSUME Waits, NEW s \in Senders, textSent(s) \/ textWaits(s) \/ textRefused(s)
  PROVE  Waits'
<1> USE Facts DEF Waits
<1> DEFINE m == sending[s]
<1>1. /\ m \in Texts /\ m \in Messages /\ m # None /\ Texts \subseteq Messages
      /\ await(s, "idle", None)
      /\ UNCHANGED <<chat, deleted, outbox, uploaded, disk, known>>
  BY DEF textSent, textWaits, textRefused, return, pass
<1>2. waiting' \in Seq(Texts)
  <2>1. waiting' = waiting \/ waiting' = <<>>
    BY DEF textSent, textWaits, textRefused, pass
  <2>2. waiting \in Seq(Texts) /\ <<>> \in Seq(Texts)
    BY DEF Lists
  <2> QED
    BY <2>1, <2>2
<1>3. PICK w \in {"sent", "queued", "failed"} :
        /\ updateState(m, w)
        /\ w = "queued" => wait(m)
        /\ w # "queued" => unsent' = Without(unsent, m)
  BY DEF textSent, textWaits, textRefused
<1>4. w \in States \ {"none", "gone"}
  BY DEF States
<1>5. /\ \A t \in Senders : t # s => sending'[t] = sending[t]
      /\ sending'[s] = None
  BY <1>1, Requested
<1> HIDE DEF m
<1>6. /\ unsent' \in Seq(Texts)
      /\ \A n : n # m /\ Contains(unsent, n) => Contains(unsent', n)
      /\ w = "queued" => Contains(unsent', m)
  <2>1. unsent \in Seq(Texts)
    BY DEF Lists
  <2>2. CASE w = "queued"
    <3>1. unsent' = IF Contains(unsent, m) THEN unsent ELSE Append(unsent, m)
      BY <1>3, <2>2 DEF wait
    <3> QED
      BY <1>1, <2>1, <3>1, Appended
  <2>3. CASE w # "queued"
    <3>1. unsent' = Without(unsent, m)
      BY <1>3, <2>3
    <3>2. /\ Without(unsent, m) \in Seq(Texts)
          /\ \A n : Contains(Without(unsent, m), n) <=> Contains(unsent, n) /\ n # m
      BY <1>1, <2>1, WithoutIt
    <3> QED
      BY <2>3, <3>1, <3>2
  <2> QED
    BY <2>2, <2>3
<1>7. /\ state' \in [Messages -> States]
      /\ \A n \in Messages : /\ state'[n] = IF n = m /\ onScreen(m) THEN w ELSE state[n]
                             /\ state[n] # "none" => state'[n] # "none"
  BY <1>1, <1>3, <1>4, Reworded
<1>8. TidyNow' /\ \A n \in Media : InPlace(n) => InPlace(n)'
  BY <1>1, <1>3, <1>4, TidyReworded
<1>9. Lists' /\ TidyOnDisk' /\ Knows'
  BY <1>1, <1>2, <1>6, <1>7 DEF Lists, TidyOnDisk, Knows
<1>10. Asks'
  <2>1. \A n \in Messages : state[n] # "none" => state'[n] # "none"
    BY <1>7
  <2>2. \A n \in Media : None # n
    OBVIOUS
  <2> QED
    BY <1>1, <1>8, <2>1, <2>2, AsksRequested
<1>11. Owed'
  <2> SUFFICES ASSUME NEW n \in Texts \ deleted, state'[n] \in {"queued", "sending"}
               PROVE  Contains(unsent', n) \/ underWay(n)'
    BY <1>1 DEF Owed
  <2>1. CASE n = m
    <3>1. onScreen(m) => w = "queued"
      BY <1>1, <1>7, <2>1
    <3>2. onScreen(m)
      BY <1>1, <1>7, <2>1
    <3> QED
      BY <1>6, <2>1, <3>1, <3>2
  <2>2. CASE n # m
    <3>1. Contains(unsent, n) \/ underWay(n)
      BY <1>1, <1>7, <2>2 DEF Owed
    <3>2. underWay(n) => underWay(n)'
      BY <1>5, <2>2 DEF underWay, m
    <3> QED
      BY <1>6, <2>2, <3>1, <3>2
  <2> QED
    BY <2>1, <2>2
<1> QED
  BY <1>8, <1>9, <1>10, <1>11

\* What is uploaded is known, and its entry, if there still is one, says so.
LEMMA WaitsUploaded ==
  ASSUME Waits, uploadAnswered
  PROVE  Waits'
<1> USE Facts, RunnerSends DEF Waits
<1> DEFINE m == sending[Runner]
<1>1. /\ step[Runner] = "upload" /\ await(Runner, "send", m) /\ known' = known \cup {m}
      /\ uploaded' = IF Contains(outbox, m) THEN uploaded \cup {m} ELSE uploaded
      /\ UNCHANGED <<chat, deleted, state, outbox, unsent, waiting, disk>>
  BY DEF uploadAnswered, screen, pass, archive
<1>2. m \in Media /\ m \in Messages /\ m # None /\ state[m] # "none" /\ InPlace(m)
  BY <1>1 DEF Asks
<1>3. \A t \in Senders : sending'[t] = sending[t]
  BY <1>1, <1>2, Requested
<1> HIDE DEF m
<1>4. Lists' /\ TidyOnDisk'
  BY <1>1 DEF Lists, TidyOnDisk
<1>5. TidyNow'
  BY <1>1, <1>2 DEF TidyNow, Tidy
<1>6. Asks'
  <2>1. \A n \in Messages : state[n] # "none" => state'[n] # "none"
    BY <1>1
  <2>2. \A n \in Media : m = n => InPlace(n)'
    BY <1>1, <1>2 DEF InPlace, onScreen
  <2>3. state'[m] # "none"
    BY <1>1, <1>2
  <2> QED
    BY <1>1, <1>2, <2>1, <2>2, <2>3, AsksRequested
<1>7. Knows'
  BY <1>1, <1>2 DEF Knows
<1>8. Owed'
  BY <1>1, <1>3 DEF Owed, underWay
<1> QED
  BY <1>4, <1>5, <1>6, <1>7, <1>8

\* A recording is accepted, and leaves the outbox.
LEMMA WaitsMediaSent ==
  ASSUME Waits, mediaSent
  PROVE  Waits'
<1> USE Facts, RunnerSends DEF Waits
<1> DEFINE m == sending[Runner]
<1>1. /\ m \in Media /\ await(Runner, "idle", None) /\ updateState(m, "sent")
      /\ outbox' = Without(outbox, m) /\ uploaded' = uploaded \ {m}
      /\ UNCHANGED <<chat, deleted, unsent, waiting, disk, known>>
  BY DEF mediaSent, return, pass, archive
<1>2. m \in Messages /\ m \notin Texts /\ Media \subseteq Messages
      /\ "sent" \in States \ {"none", "gone"}
  BY <1>1 DEF States
<1>3. \A t \in Senders : t # Runner => sending'[t] = sending[t]
  BY <1>1, Requested
<1>4. outbox' \in Seq(Media) /\ \A n : Contains(outbox', n) <=> Contains(outbox, n) /\ n # m
  <2>1. outbox \in Seq(Media)
    BY DEF Lists
  <2> QED
    BY <1>1, <1>2, <2>1, WithoutIt
<1>5. /\ state' \in [Messages -> States]
      /\ \A n \in Messages : /\ state'[n] = IF n = m /\ onScreen(m) THEN "sent" ELSE state[n]
                             /\ state'[n] \in {"none", "gone"} <=> state[n] \in {"none", "gone"}
                             /\ state[n] # "none" => state'[n] # "none"
  BY <1>1, <1>2, Reworded
<1>6. \A n \in Texts : state'[n] = state[n] /\ (underWay(n) => underWay(n)')
  BY <1>2, <1>3, <1>5 DEF underWay, m
<1> HIDE DEF m
<1>7. Lists' /\ TidyOnDisk' /\ Knows'
  BY <1>1, <1>4, <1>5 DEF Lists, TidyOnDisk, Knows
<1>8. TidyNow'
  <2>1. \A n \in Messages : Contains(chat', n) <=> state'[n] \notin {"none", "gone"}
    BY <1>1, <1>5 DEF onScreen
  <2>2. ASSUME NEW n \in Media \ deleted, state'[n] \in {"queued", "sending"}
        PROVE  Contains(outbox', n)
    <3>1. n # m
      BY <1>1, <1>2, <1>5, <2>2
    <3> QED
      BY <1>1, <1>4, <1>5, <2>2, <3>1 DEF TidyNow, Tidy
  <2> QED
    BY <1>1, <1>4, <2>1, <2>2 DEF TidyNow, Tidy
<1>9. Asks'
  <2>1. \A n \in Messages : state[n] # "none" => state'[n] # "none"
    BY <1>5
  <2>2. \A n \in Media : None # n
    OBVIOUS
  <2> QED
    BY <1>1, <2>1, <2>2, AsksRequested
<1>10. Owed'
  BY <1>1, <1>6 DEF Owed
<1> QED
  BY <1>7, <1>8, <1>9, <1>10

\* A recording that failed to go out stays in front, and says that it waits.
LEMMA WaitsMediaFailed ==
  ASSUME Waits, mediaWaits
  PROVE  Waits'
<1> USE Facts, RunnerSends DEF Waits
<1> DEFINE m == sending[Runner]
<1>1. /\ m \in Media /\ await(Runner, "idle", None) /\ updateState(m, "queued")
      /\ waiting' = unsent
      /\ UNCHANGED <<chat, deleted, outbox, uploaded, unsent, disk, known>>
  BY DEF mediaWaits, return, startTexts, queues, archive
<1>2. /\ m \in Messages /\ m \notin Texts /\ InPlace(m)
      /\ "queued" \in States \ {"none", "gone"}
  BY <1>1 DEF States, Asks
<1>3. \A t \in Senders : t # Runner => sending'[t] = sending[t]
  BY <1>1, Requested
<1>4. /\ state' \in [Messages -> States]
      /\ \A n \in Messages : /\ state'[n] = IF n = m /\ onScreen(m) THEN "queued" ELSE state[n]
                             /\ state[n] # "none" => state'[n] # "none"
  BY <1>1, <1>2, Reworded
<1>5. TidyNow' /\ \A n \in Media : InPlace(n) => InPlace(n)'
  BY <1>1, <1>2, TidyReworded
<1>6. \A n \in Texts : state'[n] = state[n] /\ (underWay(n) => underWay(n)')
  BY <1>2, <1>3, <1>4 DEF underWay, m
<1> HIDE DEF m
<1>7. Lists' /\ TidyOnDisk' /\ Knows'
  BY <1>1, <1>4 DEF Lists, TidyOnDisk, Knows
<1>8. Asks'
  <2>1. \A n \in Messages : state[n] # "none" => state'[n] # "none"
    BY <1>4
  <2>2. \A n \in Media : None # n
    OBVIOUS
  <2> QED
    BY <1>1, <2>1, <2>2, AsksRequested
<1>9. Owed'
  BY <1>1, <1>6 DEF Owed
<1> QED
  BY <1>5, <1>7, <1>8, <1>9

\* An answer that is on its way is no other request.
LEMMA WaitsAnswered ==
  ASSUME Waits, NEW s \in Senders, answered(s)
  PROVE  Waits'
<1> USE Facts DEF Waits
<1>1. /\ step[s] = "send" /\ step' = [step EXCEPT ![s] = "sync"]
      /\ UNCHANGED <<chat, deleted, state, outbox, uploaded, unsent, waiting, sending, disk, known>>
  BY DEF answered, screen, queues, pass, archive
<1>2. Lists' /\ TidyNow' /\ TidyOnDisk' /\ Knows' /\ Owed'
  BY <1>1 DEF Lists, TidyNow, Tidy, TidyOnDisk, Knows, Owed, underWay
<1>3. Asks'
  <2>1. /\ step' \in [Senders -> {"idle", "upload", "send", "sync"}]
        /\ step'[s] = "sync" /\ \A t \in Senders \ {s} : step'[t] = step[t]
    BY <1>1 DEF Asks
  <2>2. \A n \in Media : sending'[Runner] = n => InPlace(n)'
    BY <1>1 DEF Asks, InPlace, onScreen
  <2>3. step'[Runner] = "upload" => sending'[Runner] \in Media
    BY <1>1, <2>1, RunnerSends DEF Asks
  <2>4. ASSUME NEW t \in Senders
        PROVE  /\ step'[t] = "idle" <=> sending'[t] = None
               /\ sending'[t] # None => state'[sending'[t]] # "none"
               /\ t # Runner => step'[t] # "upload" /\ sending'[t] \in Texts \cup {None}
    <3>1. CASE t = s
      BY <1>1, <2>1, <3>1 DEF Asks
    <3>2. CASE t # s
      BY <1>1, <2>1, <3>2 DEF Asks
    <3> QED
      BY <3>1, <3>2
  <2> QED
    BY <1>1, <2>1, <2>2, <2>3, <2>4 DEF Asks
<1> QED
  BY <1>2, <1>3

\* What a receipt says is of no message that waits.
LEMMA WaitsReceipt ==
  ASSUME Waits, NEW m \in Messages, NEW w \in Receipts, applyReceipt(m, w)
  PROVE  Waits'
<1> USE Facts DEF Waits
<1>1. /\ onScreen(m) /\ state' = [state EXCEPT ![m] = w]
      /\ UNCHANGED <<chat, deleted, outbox, uploaded, unsent, waiting, step, sending, disk, known>>
  BY DEF applyReceipt, queues, pass, request
<1>2. w \in {"delivered", "read"} /\ w \in States \ {"none", "gone"} /\ updateState(m, w)
  BY <1>1, OutboxAssumption DEF OutboxAssumption, States, updateState
<1>3. /\ state' \in [Messages -> States]
      /\ \A n \in Messages : /\ state'[n] = IF n = m /\ onScreen(m) THEN w ELSE state[n]
                             /\ state[n] # "none" => state'[n] # "none"
  BY <1>2, Reworded
<1>4. TidyNow' /\ \A n \in Media : InPlace(n) => InPlace(n)'
  BY <1>1, <1>2, TidyReworded
<1>5. Lists' /\ TidyOnDisk' /\ Knows'
  BY <1>1, <1>3 DEF Lists, TidyOnDisk, Knows
<1>6. Asks'
  <2>1. \A n \in Messages : state[n] # "none" => state'[n] # "none"
    BY <1>3
  <2> QED
    BY <1>1, <1>4, <2>1, AsksStill
<1>7. Owed'
  <2> SUFFICES ASSUME NEW n \in Texts \ deleted, state'[n] \in {"queued", "sending"}
               PROVE  Contains(unsent, n) \/ underWay(n)
    BY <1>1 DEF Owed, underWay
  <2>1. n # m
    BY <1>1, <1>2, <1>3
  <2> QED
    BY <1>3, <2>1 DEF Owed
<1> QED
  BY <1>4, <1>5, <1>6, <1>7

-----------------------------------------------------------------------------
(* The archive                                                             *)

\* What is archived is what is on the screen.
LEMMA WaitsSave ==
  ASSUME Waits, save \/ flush
  PROVE  Waits'
<1> USE DEF Waits
<1>1. /\ disk' = memory
      /\ UNCHANGED <<chat, deleted, state, outbox, uploaded, unsent, waiting, step, sending, known>>
  BY DEF save, flush, screen, queues, pass, request
<1>2. /\ disk'.chat = chat /\ disk'.deleted = deleted /\ disk'.state = state
      /\ disk'.outbox = outbox /\ disk'.uploaded = uploaded
  BY <1>1 DEF memory
<1>3. Lists'
  BY <1>1, <1>2 DEF Lists
<1>4. TidyNow'
  BY <1>1 DEF TidyNow, Tidy
<1>5. TidyOnDisk'
  BY <1>2 DEF TidyNow, TidyOnDisk, Tidy
<1>6. Knows' /\ Owed'
  BY <1>1 DEF Knows, Owed, underWay
<1>7. Asks'
  BY <1>1 DEF Asks, InPlace, onScreen
<1> QED
  BY <1>3, <1>4, <1>5, <1>6, <1>7

\* What is restored is what was archived, and the texts that were owed wait again.
LEMMA WaitsRestore ==
  ASSUME Waits, restore
  PROVE  Waits'
<1> USE Facts, RunnerSends DEF Waits
<1> DEFINE S == {m \in Texts \ disk.deleted : disk.state[m] \in {"queued", "sending"}}
<1>1. /\ chat' = disk.chat /\ deleted' = disk.deleted
      /\ outbox' = disk.outbox /\ uploaded' = disk.uploaded
      /\ unsent' = Only(disk.chat, S) /\ waiting' = <<>>
      /\ step' = [s \in Senders |-> "idle"] /\ sending' = [s \in Senders |-> None]
      /\ known' = disk.uploaded /\ disk' = disk
  BY DEF restore, waitsAgain
<1>2. state' = [m \in Messages |-> IF Contains(disk.chat, m) THEN disk.state[m]
                                   ELSE IF state[m] = "none" THEN "none" ELSE "gone"]
  BY DEF restore
<1>3. /\ state' \in [Messages -> States]
      /\ \A m \in Messages : /\ Contains(disk.chat, m) => state'[m] = disk.state[m]
                             /\ ~ Contains(disk.chat, m) => state'[m] \in {"none", "gone"}
  BY <1>2 DEF Lists, States
<1>4. /\ unsent' \in Seq(Texts)
      /\ \A m : Contains(unsent', m) <=> Contains(disk.chat, m) /\ m \in S
  <2>1. disk.chat \in Seq(Messages) /\ Messages \cap S \subseteq Texts
    BY DEF Lists
  <2> HIDE DEF S
  <2>2. /\ Only(disk.chat, S) \in Seq(Messages \cap S)
        /\ \A m : Contains(Only(disk.chat, S), m) <=> Contains(disk.chat, m) /\ m \in S
    BY <2>1, OnlyThose
  <2> QED
    BY <1>1, <2>1, <2>2
<1>5. Tidy(disk.chat, disk.deleted, disk.state, disk.outbox, disk.uploaded)
  BY DEF TidyOnDisk
<1>6. Lists'
  <2>1. waiting' \in Seq(Texts)
    BY <1>1
  <2> QED
    BY <1>1, <1>3, <1>4, <2>1 DEF Lists
<1>7. TidyNow'
  <2>1. \A m \in Messages : Contains(disk.chat, m) <=> state'[m] \notin {"none", "gone"}
    BY <1>3, <1>5 DEF Tidy
  <2>2. \A m \in Media \ disk.deleted : state'[m] \in {"queued", "sending"} => Contains(disk.outbox, m)
    BY <1>3, <1>5 DEF Tidy
  <2> QED
    BY <1>1, <1>5, <2>1, <2>2 DEF TidyNow, Tidy
<1>8. TidyOnDisk'
  BY <1>1 DEF TidyOnDisk
<1>9. Asks'
  BY <1>1 DEF Asks
<1>10. Knows'
  <2>1. \A m \in disk.uploaded : m \in Media /\ Contains(disk.chat, m)
    BY <1>5 DEF Tidy
  <2>2. \A m \in disk.uploaded : state'[m] \notin {"none", "gone"}
    BY <1>3, <1>5, <2>1 DEF Tidy
  <2> QED
    BY <1>1, <2>1, <2>2 DEF Knows
<1>11. Owed'
  <2> SUFFICES ASSUME NEW m \in Texts \ disk.deleted, state'[m] \in {"queued", "sending"}
               PROVE  Contains(unsent', m)
    BY <1>1 DEF Owed
  <2>1. Contains(disk.chat, m) /\ disk.state[m] \in {"queued", "sending"}
    BY <1>3
  <2> QED
    BY <1>4, <2>1
<1> QED
  BY <1>6, <1>7, <1>8, <1>9, <1>10, <1>11

\* Nothing has been said.
LEMMA InitWaits == Init => Waits
<1> SUFFICES ASSUME Init PROVE Waits
  OBVIOUS
<1>1. /\ chat = <<>> /\ deleted = {} /\ outbox = <<>> /\ uploaded = {} /\ unsent = <<>>
      /\ waiting = <<>> /\ known = {} /\ disk = memory
      /\ state = [m \in Messages |-> "none"]
      /\ step = [s \in Senders |-> "idle"] /\ sending = [s \in Senders |-> None]
  BY DEF Init
<1>2. /\ disk.chat = chat /\ disk.deleted = deleted /\ disk.state = state
      /\ disk.outbox = outbox /\ disk.uploaded = uploaded
  BY <1>1 DEF memory
<1>3. state \in [Messages -> States] /\ \A m \in Messages : state[m] = "none"
  BY <1>1 DEF States
<1>4. /\ chat \in Seq(Messages) /\ outbox \in Seq(Media) /\ unsent \in Seq(Texts)
      /\ waiting \in Seq(Texts)
  BY <1>1
<1>5. Lists
  BY <1>2, <1>3, <1>4 DEF Lists
<1>6. TidyNow
  BY <1>1, <1>3, EmptyHasNothing DEF TidyNow, Tidy, Messages
<1>7. TidyOnDisk
  BY <1>2, <1>6 DEF TidyNow, TidyOnDisk
<1>8. Asks
  BY <1>1, RunnerSends, OutboxAssumption DEF Asks, OutboxAssumption, Messages
<1>9. Knows /\ Owed
  BY <1>1, <1>3 DEF Knows, Owed, Messages
<1> QED
  BY <1>5, <1>6, <1>7, <1>8, <1>9 DEF Waits

LEMMA WaitsNext == Waits /\ [Next]_vars => Waits'
<1> SUFFICES ASSUME Waits, [Next]_vars PROVE Waits'
  OBVIOUS
<1>1. ASSUME Person PROVE Waits'
  BY <1>1, WaitsSend, WaitsMedia, WaitsDrop, WaitsDelete DEF Person
<1>2. CASE UNCHANGED vars \/ poll \/ runFlush \/ \E s \in Senders : accept(s)
  <2>1. UNCHANGED <<chat, deleted, state, outbox, uploaded, unsent, waiting, step, sending, disk, known>>
    BY <1>2 DEF vars, poll, runFlush, accept, screen, queues, pass, request, archive
  <2>2. waiting' \in Seq(Texts)
    BY <2>1 DEF Waits, Lists
  <2> QED
    BY <2>1, <2>2, WaitsStill
<1>3. ASSUME NEW s \in Senders, Answer(s), ~ accept(s) PROVE Waits'
  BY <1>3, WaitsAnswered, WaitsAnswer DEF Answer
<1> QED
  BY <1>1, <1>2, <1>3, WaitsDrain, WaitsTexts, WaitsUploaded, WaitsMediaSent, WaitsMediaFailed,
     WaitsReceipt, WaitsSave, WaitsRestore DEF Next

-----------------------------------------------------------------------------
(* What is saved, and what is counted                                      *)

\* A recording in the outbox is in the archive, or a save is due.
Saved == Waits /\ MediaIsSaved

LEMMA SavedNext == Saved /\ [Next]_vars => Saved'
<1> SUFFICES ASSUME Saved, [Next]_vars PROVE Saved'
  OBVIOUS
<1> USE Facts DEF Saved
<1>0. Waits'
  BY WaitsNext
<1>1. CASE scheduled'
  BY <1>0, <1>1 DEF MediaIsSaved
<1>2. CASE disk' = disk /\ scheduled' = scheduled /\ \A m \in Media : Contains(outbox', m) => Contains(outbox, m)
  BY <1>0, <1>2 DEF MediaIsSaved
<1>3. CASE save \/ flush \/ restore
  <2>1. disk'.outbox = outbox'
    BY <1>3 DEF save, flush, restore, memory, queues
  <2> QED
    BY <1>0, <2>1 DEF MediaIsSaved
<1>4. ASSUME NEW m \in Messages, outbox' = Without(outbox, m)
      PROVE  \A n \in Media : Contains(outbox', n) => Contains(outbox, n)
  <2>1. outbox \in Seq(Media) /\ Media \subseteq Messages
    BY DEF Waits, Lists
  <2> QED
    BY <1>4, <2>1, WithoutIt
<1>5. ASSUME Person PROVE scheduled' \/ (disk' = disk /\ scheduled' = scheduled /\ outbox' = outbox)
  <2>1. ASSUME NEW m \in Messages, discard(m) \/ deleteForMe(m) \/ deleteForEveryone(m) PROVE scheduled'
    BY <2>1 DEF discard, deleteForMe, deleteForEveryone
  <2>2. ASSUME NEW m \in Media, sendVoice(m) PROVE scheduled'
    BY <2>2 DEF sendVoice
  <2>3. ASSUME NEW m \in Media, retryMedia(m)
        PROVE  disk' = disk /\ scheduled' = scheduled /\ outbox' = outbox
    BY <2>3 DEF retryMedia, archive, queues
  <2>4. ASSUME NEW m \in Texts, NEW c \in Calls, send(m, c) \/ retryText(m, c)
        PROVE  disk' = disk /\ scheduled' = scheduled /\ outbox' = outbox
    BY <2>4 DEF send, retryText, archive, queues
  <2> QED
    BY <1>5, <2>1, <2>2, <2>3, <2>4 DEF Person
<1>6. ASSUME UNCHANGED vars \/ poll \/ drainQueue \/ sendWaitingTexts \/ uploadAnswered \/ mediaWaits
      PROVE  disk' = disk /\ scheduled' = scheduled /\ outbox' = outbox
  BY <1>6 DEF vars, poll, drainQueue, sendWaitingTexts, uploadAnswered, mediaWaits, archive, queues
<1>7. ASSUME runFlush PROVE scheduled' \/ (disk' = disk /\ scheduled' = scheduled /\ outbox' = outbox)
  BY <1>7 DEF runFlush, queues
<1>8. ASSUME mediaSent
      PROVE  disk' = disk /\ scheduled' = scheduled /\ outbox' = Without(outbox, sending[Runner])
             /\ sending[Runner] \in Messages
  BY <1>8 DEF mediaSent, archive
<1>9. ASSUME NEW s \in Senders, Answer(s)
      PROVE  scheduled' \/ (disk' = disk /\ scheduled' = scheduled /\ outbox' = outbox)
  BY <1>9 DEF Answer, accept, answered, textSent, textWaits, textRefused, archive, queues
<1>10. ASSUME NEW m \in Messages, NEW w \in Receipts, applyReceipt(m, w) PROVE scheduled'
  BY <1>10 DEF applyReceipt
<1> QED
  BY <1>1, <1>2, <1>3, <1>4, <1>5, <1>6, <1>7, <1>8, <1>9, <1>10 DEF Next

\* How far what is counted goes, and where the flush is.
Counted ==
    /\ flushing \in {"idle", "drain", "texts"} /\ flushAgain \in BOOLEAN
    /\ reached \in [Senders -> BOOLEAN]
    /\ scheduled \in BOOLEAN /\ failures \in 0..MaxFailures /\ crashes \in 0..MaxCrashes
    /\ taken \subseteq Messages

LEMMA Stepped ==
  ASSUME Counted, NEW s \in Senders, NEW what, NEW m, await(s, what, m)
  PROVE  reached' \in [Senders -> BOOLEAN]
BY DEF Counted, await

LEMMA Failing ==
  ASSUME Counted, NEW s \in Senders, connectionFails \/ isRefused(s)
  PROVE  failures' \in 0..MaxFailures
<1>1. failures' = failures \/ (failures < MaxFailures /\ failures' = failures + 1)
  BY DEF connectionFails, isRefused, fails
<1> QED
  BY <1>1, OutboxAssumption DEF OutboxAssumption, Counted

LEMMA CountedNext == Saved /\ Counted /\ [Next]_vars => Counted'
<1> SUFFICES ASSUME Saved, Counted, [Next]_vars PROVE Counted'
  OBVIOUS
<1> USE RunnerSends
<1>1. ASSUME Person PROVE Counted'
  <2>1. UNCHANGED <<failures, crashes, taken>>
    BY <1>1 DEF Person, send, retryText, sendVoice, retryMedia, discard, deleteForMe,
                deleteForEveryone, faults
  <2>2. scheduled' \in BOOLEAN
    BY <1>1 DEF Person, send, retryText, sendVoice, retryMedia, discard, deleteForMe,
                deleteForEveryone, archive, Counted
  <2>3. flushing' \in {"idle", "drain", "texts"} /\ flushAgain' \in BOOLEAN
    <3>1. flushOutbox \/ UNCHANGED pass
      BY <1>1 DEF Person, send, retryText, sendVoice, retryMedia, discard, deleteForMe,
                  deleteForEveryone
    <3> QED
      BY <3>1 DEF flushOutbox, pass, Counted
  <2>4. reached' \in [Senders -> BOOLEAN]
    <3>1. (\E m \in Texts, c \in Calls : await(c, "send", m)) \/ reached' = reached
      BY <1>1 DEF Person, send, retryText, sendVoice, retryMedia, discard, deleteForMe,
                  deleteForEveryone, request
    <3>2. Calls \subseteq Senders
      BY DEF Senders
    <3> QED
      BY <3>1, <3>2, Stepped DEF Counted
  <2> QED
    BY <2>1, <2>2, <2>3, <2>4 DEF Counted
<1>2. CASE UNCHANGED vars
  BY <1>2 DEF vars, Counted
<1>3. ASSUME poll \/ drainQueue \/ sendWaitingTexts \/ runFlush PROVE Counted'
  <2>1. UNCHANGED <<failures, crashes, taken>>
    BY <1>3 DEF poll, drainQueue, sendWaitingTexts, runFlush, faults
  <2>2. scheduled' \in BOOLEAN
    BY <1>3 DEF poll, drainQueue, sendWaitingTexts, runFlush, archive, Counted
  <2>3. flushing' \in {"idle", "drain", "texts"} /\ flushAgain' \in BOOLEAN
    BY <1>3 DEF poll, drainQueue, sendWaitingTexts, runFlush, flushOutbox, startTexts, Counted
  <2>4. reached' \in [Senders -> BOOLEAN]
    <3>1. (\E what, m : await(Runner, what, m)) \/ reached' = reached
      BY <1>3 DEF poll, drainQueue, sendWaitingTexts, runFlush, request
    <3> QED
      BY <3>1, Stepped DEF Counted
  <2> QED
    BY <2>1, <2>2, <2>3, <2>4 DEF Counted
<1>4. ASSUME uploadAnswered \/ mediaSent \/ mediaWaits PROVE Counted'
  <2>1. UNCHANGED <<crashes, taken, scheduled>>
    BY <1>4 DEF uploadAnswered, mediaSent, mediaWaits, faults, archive
  <2>2. failures' \in 0..MaxFailures
    <3>1. failures' = failures \/ connectionFails \/ isRefused(Runner)
      BY <1>4 DEF uploadAnswered, mediaSent, mediaWaits, faults
    <3> QED
      BY <3>1, Failing DEF Counted
  <2>3. flushing' \in {"idle", "drain", "texts"} /\ flushAgain' \in BOOLEAN
    BY <1>4 DEF uploadAnswered, mediaSent, mediaWaits, pass, startTexts, Counted
  <2>4. \E what, m : await(Runner, what, m)
    BY <1>4 DEF uploadAnswered, mediaSent, mediaWaits, return
  <2> QED
    BY <2>1, <2>2, <2>3, <2>4, Stepped DEF Counted
<1>5. ASSUME NEW s \in Senders, Answer(s) PROVE Counted'
  <2>1. UNCHANGED <<flushing, flushAgain, crashes>>
    BY <1>5 DEF Answer, accept, answered, textSent, textWaits, textRefused, pass, faults
  <2>2. scheduled' \in BOOLEAN
    BY <1>5 DEF Answer, accept, answered, textSent, textWaits, textRefused, archive, Counted
  <2>3. failures' \in 0..MaxFailures
    <3>1. failures' = failures \/ connectionFails \/ isRefused(s)
      BY <1>5 DEF Answer, accept, answered, textSent, textWaits, textRefused, faults
    <3> QED
      BY <3>1, Failing DEF Counted
  <2>4. reached' \in [Senders -> BOOLEAN]
    <3>1. \/ \E what, m : await(s, what, m)
          \/ reached' = reached
          \/ reached' = [reached EXCEPT ![s] = TRUE]
      BY <1>5 DEF Answer, accept, answered, textSent, textWaits, textRefused, return
    <3> QED
      BY <3>1, Stepped DEF Counted
  <2>5. taken' \subseteq Messages
    <3>1. CASE accept(s)
      <4>1. step[s] = "send" /\ taken' = taken \cup {sending[s]}
        BY <3>1 DEF accept
      <4>2. sending[s] \in Messages
        BY <4>1 DEF Saved, Waits, Asks
      <4> QED
        BY <4>1, <4>2 DEF Counted
    <3>2. CASE ~ accept(s)
      <4>1. taken' = taken
        BY <1>5, <3>2 DEF Answer, answered, textSent, textWaits, textRefused
      <4> QED
        BY <4>1 DEF Counted
    <3> QED
      BY <3>1, <3>2
  <2> QED
    BY <2>1, <2>2, <2>3, <2>4, <2>5 DEF Counted
<1>6. ASSUME NEW m \in Messages, NEW w \in Receipts, applyReceipt(m, w) PROVE Counted'
  BY <1>6 DEF applyReceipt, pass, request, faults, Counted
<1>7. ASSUME save \/ flush PROVE Counted'
  BY <1>7 DEF save, flush, pass, request, faults, Counted
<1>8. ASSUME restore PROVE Counted'
  <2>1. /\ crashes < MaxCrashes /\ crashes' = crashes + 1
        /\ flushing' = "drain" /\ flushAgain' = FALSE /\ scheduled' = FALSE
        /\ reached' = [s \in Senders |-> FALSE] /\ failures' = failures
    BY <1>8 DEF restore
  <2>2. crashes' \in 0..MaxCrashes
    BY <2>1, OutboxAssumption DEF OutboxAssumption, Counted
  <2>3. taken' \subseteq Messages
    <3>1. PICK out \in SUBSET {sending[s] : s \in {s \in Senders : step[s] = "send"}} :
             taken' = taken \cup (out \ Barred)
      BY <1>8 DEF restore
    <3>2. \A s \in Senders : step[s] = "send" => sending[s] \in Messages
      BY DEF Saved, Waits, Asks
    <3>3. out \subseteq Messages
      BY <3>1, <3>2
    <3> QED
      BY <3>1, <3>3 DEF Counted
  <2> QED
    BY <2>1, <2>2, <2>3 DEF Counted
<1> QED
  BY <1>1, <1>2, <1>3, <1>4, <1>5, <1>6, <1>7, <1>8, ZenonT(30) DEF Next

LEMMA SavedAlways == Spec => [](Saved /\ Counted)
<1>1. Init => Saved /\ Counted
  <2> SUFFICES ASSUME Init PROVE Saved /\ Counted
    OBVIOUS
  <2>1. MediaIsSaved
    BY EmptyHasNothing DEF Init, MediaIsSaved
  <2>2. Counted
    <3>1. /\ flushing = "idle" /\ flushAgain = FALSE /\ scheduled = FALSE
          /\ reached = [s \in Senders |-> FALSE]
          /\ failures = 0 /\ crashes = 0 /\ taken = {}
      BY DEF Init
    <3>2. failures \in 0..MaxFailures /\ crashes \in 0..MaxCrashes
      BY <3>1, OutboxAssumption DEF OutboxAssumption
    <3> QED
      BY <3>1, <3>2 DEF Counted
  <2> QED
    BY <2>1, <2>2, InitWaits DEF Saved
<1>2. Saved /\ Counted /\ [Next]_vars => (Saved /\ Counted)'
  BY SavedNext, CountedNext
<1> QED
  BY <1>1, <1>2, PTL DEF Spec

-----------------------------------------------------------------------------
(* Theorems                                                                *)

\* A recording is in the archive, or about to be, for as long as it waits.
THEOREM RecordingsAreSaved == Spec => []MediaIsSaved
<1>1. Saved => MediaIsSaved
  BY DEF Saved
<1> QED
  BY SavedAlways, <1>1, PTL

\* What waits in the outbox can be seen, and dropped.
THEOREM TheOutboxIsVisible == Spec => []OutboxIsVisible
<1>1. Saved => OutboxIsVisible
  BY DEF Saved, Waits, TidyNow, Tidy, OutboxIsVisible, onScreen
<1> QED
  BY SavedAlways, <1>1, PTL

\* Nothing that looks owed has been forgotten: not when a message is dropped or
\* retried while it is under way, when two senders answer for it, or when the
\* process ends and what was archived is restored.
THEOREM NothingIsStranded == Spec => []NothingStranded
<1>1. Saved => NothingStranded
  <2> SUFFICES ASSUME Saved, NEW m \in Messages \ deleted, state[m] \in {"queued", "sending"}
               PROVE  Contains(outbox, m) \/ Contains(unsent, m) \/ underWay(m)
    BY DEF NothingStranded
  <2>1. CASE m \in Texts
    BY <2>1 DEF Saved, Waits, Owed
  <2>2. CASE m \in Media
    BY <2>2 DEF Saved, Waits, TidyNow, Tidy
  <2> QED
    BY <2>1, <2>2 DEF Messages
<1> QED
  BY SavedAlways, <1>1, PTL

\* The queues hold what their names say, bubbles and words agree, a sender that
\* awaits nothing sends nothing, and the bounds are bounds.
THEOREM TypesAreKept == Spec => []TypeOK
<1>1. Saved /\ Counted => TypeOK
  <2> SUFFICES ASSUME Saved, Counted PROVE TypeOK
    OBVIOUS
  <2>1. \A s, m : Contains(s, m) => m \in ToSet(s)
    BY DEF Contains, ToSet
  <2>2. deleted \subseteq ToSet(chat) /\ uploaded \subseteq ToSet(outbox)
    BY <2>1 DEF Saved, Waits, TidyNow, Tidy
  <2>3. state \in [Messages -> ToSet(DeliveryState) \cup {"none", "gone"}]
    <3>1. /\ DeliveryState \in Seq(States) /\ Len(DeliveryState) = 6
          /\ DeliveryState[1] = "queued" /\ DeliveryState[2] = "sending"
          /\ DeliveryState[3] = "sent" /\ DeliveryState[4] = "delivered"
          /\ DeliveryState[5] = "read" /\ DeliveryState[6] = "failed"
      BY DEF DeliveryState, States
    <3>2. \A i \in 1..6 : DeliveryState[i] \in ToSet(DeliveryState)
      BY <3>1 DEF ToSet
    <3>3. States \subseteq ToSet(DeliveryState) \cup {"none", "gone"}
      BY <3>1, <3>2 DEF States
    <3> QED
      BY <3>3 DEF Saved, Waits, Lists
  <2>4. \A m \in Messages : onScreen(m) <=> state[m] \notin {"none", "gone"}
    BY DEF Saved, Waits, TidyNow, Tidy, onScreen
  <2>5. /\ step \in [Senders -> {"idle", "upload", "send", "sync"}]
        /\ sending \in [Senders -> Messages \cup {None}]
        /\ \A s \in Senders : step[s] = "idle" <=> sending[s] = None
    BY DEF Saved, Waits, Asks
  <2>6. known \subseteq Media
    BY DEF Saved, Waits, Knows
  <2>7. /\ chat \in Seq(Messages) /\ outbox \in Seq(Media) /\ unsent \in Seq(Texts)
        /\ waiting \in Seq(Texts)
    BY DEF Saved, Waits, Lists
  <2> QED
    BY <2>2, <2>3, <2>4, <2>5, <2>6, <2>7 DEF Counted, TypeOK
<1> QED
  BY SavedAlways, <1>1, PTL

\* A sender begins what it did not await before only in these steps.
LEMMA Begins ==
  ASSUME Saved, [Next]_vars, NEW s \in Senders, NEW what \in {"upload", "send"}, begins(s, what)
  PROVE  \/ /\ \E m \in Texts, c \in Calls : s = c /\ (send(m, c) \/ retryText(m, c))
            /\ what = "send"
         \/ s = Runner /\ drainQueue
         \/ s = Runner /\ sendWaitingTexts /\ what = "send"
         \/ s = Runner /\ uploadAnswered /\ what = "send"
<1> USE Facts, RunnerSends DEF Saved
<1>1. ASSUME NEW t \in Senders, NEW w, NEW m, await(t, w, m), t # s \/ w # what PROVE FALSE
  BY <1>1 DEF await, begins, Waits, Asks
<1>2. step' # step
  BY DEF begins
<1>3. ASSUME Person
      PROVE  \E m \in Texts, c \in Calls : s = c /\ (send(m, c) \/ retryText(m, c)) /\ what = "send"
  <2>1. PICK m \in Texts, c \in Calls : send(m, c) \/ retryText(m, c)
    BY <1>2, <1>3 DEF Person, sendVoice, retryMedia, discard, deleteForMe, deleteForEveryone, request
  <2>2. await(c, "send", m)
    BY <2>1 DEF send, retryText
  <2> QED
    BY <1>1, <2>1, <2>2
<1>4. ASSUME drainQueue PROVE s = Runner
  <2>1. \E w, m : await(Runner, w, m)
    BY <1>2, <1>4 DEF drainQueue, request
  <2> QED
    BY <1>1, <2>1
<1>5. ASSUME sendWaitingTexts PROVE s = Runner /\ what = "send"
  <2>1. await(Runner, "send", Head(waiting))
    BY <1>2, <1>5 DEF sendWaitingTexts, request
  <2> QED
    BY <1>1, <2>1
<1>6. ASSUME uploadAnswered PROVE s = Runner /\ what = "send"
  <2>1. await(Runner, "send", sending[Runner])
    BY <1>6 DEF uploadAnswered
  <2> QED
    BY <1>1, <2>1
<1>7. ~ (UNCHANGED vars \/ poll \/ runFlush \/ save \/ flush)
  BY <1>2 DEF vars, poll, runFlush, save, flush, request
<1>8. ~ (mediaSent \/ mediaWaits)
  <2> SUFFICES ASSUME mediaSent \/ mediaWaits PROVE FALSE
    OBVIOUS
  <2>1. await(Runner, "idle", None)
    BY DEF mediaSent, mediaWaits, return
  <2> QED
    BY <1>1, <2>1
<1>9. ASSUME NEW t \in Senders, Answer(t) PROVE FALSE
  <2>1. CASE accept(t)
    BY <1>2, <2>1 DEF accept
  <2>2. CASE answered(t)
    BY <2>2 DEF answered, begins, Waits, Asks
  <2>3. CASE textSent(t) \/ textWaits(t) \/ textRefused(t)
    <3>1. await(t, "idle", None)
      BY <2>3 DEF textSent, textWaits, textRefused, return
    <3> QED
      BY <1>1, <3>1
  <2> QED
    BY <1>9, <2>1, <2>2, <2>3 DEF Answer
<1>10. ASSUME NEW m \in Messages, NEW w \in Receipts, applyReceipt(m, w) PROVE FALSE
  BY <1>2, <1>10 DEF applyReceipt, request
<1>11. ~ restore
  BY DEF restore, begins
<1> QED
  BY <1>3, <1>4, <1>5, <1>6, <1>7, <1>8, <1>9, <1>10, <1>11 DEF Next

\* Once its upload is known a recording is not uploaded again, however often it is
\* retried, as long as the process lives.
THEOREM UploadsAreNotRepeated == Spec => UploadedOnce
<1>1. Saved /\ [Next]_vars => [begins(Runner, "upload") => sending'[Runner] \notin known]_vars
  <2> SUFFICES ASSUME Saved, [Next]_vars, begins(Runner, "upload")
               PROVE  sending'[Runner] \notin known
    OBVIOUS
  <2> USE Facts, RunnerSends DEF Saved
  <2>1. drainQueue
    <3>1. Runner \notin Calls /\ "upload" # "send"
      OBVIOUS
    <3> QED
      BY <3>1, Begins
  <2> DEFINE m == Head(outbox)
  <2>2. outbox # <<>> /\ m \notin uploaded /\ sending'[Runner] = m
    <3>1. outbox # <<>>
      BY <2>1 DEF drainQueue, request, begins
    <3>2. await(Runner, IF m \in uploaded THEN "send" ELSE "upload", m)
      BY <2>1, <3>1 DEF drainQueue
    <3> QED
      BY <3>1, <3>2 DEF await, begins, Waits, Asks
  <2>3. Contains(outbox, m)
    <3>1. Len(outbox) \in Nat /\ Len(outbox) # 0 /\ m = outbox[1]
      BY <2>2 DEF Waits, Lists
    <3> QED
      BY <3>1 DEF Contains
  <2> QED
    BY <2>2, <2>3 DEF Waits, Knows
<1> QED
  BY SavedAlways, <1>1, PTL DEF Spec, UploadedOnce

\* Nothing begins to go out once its bubble is gone, but what was being uploaded then.
THEOREM OnlyUploadsGoOn == Spec => OnlyUploadsOutliveTheirBubble
<1>1. Saved /\ [Next]_vars
      => [\A s \in Senders : begins(s, "send")
             => Contains(chat', sending'[s]) \/ step[s] = "upload"]_vars
  <2> SUFFICES ASSUME Saved, [Next]_vars, NEW s \in Senders, begins(s, "send")
               PROVE  Contains(chat', sending'[s]) \/ step[s] = "upload"
    OBVIOUS
  <2> USE Facts, RunnerSends DEF Saved
  <2>1. CASE \E m \in Texts, c \in Calls : s = c /\ (send(m, c) \/ retryText(m, c))
    <3>1. PICK m \in Texts, c \in Calls : s = c /\ (send(m, c) \/ retryText(m, c))
      BY <2>1
    <3>2. await(s, "send", m)
      BY <3>1 DEF send, retryText
    <3>3. sending'[s] = m
      BY <3>2 DEF await, Waits, Asks
    <3>4. Contains(chat', m)
      <4>1. chat \in Seq(Messages) /\ m \in Messages
        BY DEF Waits, Lists
      <4>2. chat' = Append(chat, m) \/ (chat' = chat /\ onScreen(m))
        BY <3>1 DEF send, retryText
      <4>3. Contains(Append(chat, m), m)
        BY <4>1, Appended
      <4> QED
        BY <4>2, <4>3 DEF onScreen
    <3> QED
      BY <3>3, <3>4
  <2>2. CASE s = Runner /\ drainQueue
    <3>1. outbox # <<>> /\ chat' = chat
      BY <2>2 DEF drainQueue, request, begins, screen
    <3>2. sending'[s] = Head(outbox)
      BY <2>2, <3>1 DEF drainQueue, await, Waits, Asks
    <3>3. Head(outbox) \in Media /\ Contains(outbox, Head(outbox))
      <4>1. Len(outbox) \in Nat /\ Len(outbox) # 0 /\ Head(outbox) = outbox[1] /\ outbox[1] \in Media
        BY <3>1 DEF Waits, Lists
      <4> QED
        BY <4>1 DEF Contains
    <3> QED
      BY <3>1, <3>2, <3>3 DEF onScreen
  <2>3. CASE s = Runner /\ sendWaitingTexts
    <3>1. onScreen(Head(waiting)) /\ await(Runner, "send", Head(waiting)) /\ chat' = chat
      BY <2>3 DEF sendWaitingTexts, request, begins
    <3>2. sending'[s] = Head(waiting)
      BY <2>3, <3>1 DEF await, Waits, Asks
    <3> QED
      BY <3>1, <3>2 DEF onScreen
  <2>4. CASE s = Runner /\ uploadAnswered
    BY <2>4 DEF uploadAnswered
  <2> QED
    BY <2>1, <2>2, <2>3, <2>4, Begins
<1> QED
  BY SavedAlways, <1>1, PTL DEF Spec, OnlyUploadsOutliveTheirBubble

=============================================================================
