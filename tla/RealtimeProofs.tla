--------------------------- MODULE RealtimeProofs ---------------------------
(***************************************************************************)
(* What Realtime.tla keeps for every number of connections and sessions,   *)
(* every size of frame and every set of faults.  The inductive invariant   *)
(* is made of parts:                                                       *)
(*                                                                         *)
(*   TypeOK    the types;                                                  *)
(*   Counted   no more is waiting to be published than was stored;         *)
(*   Unbroken  a frame, a fetch or a poll starts at the oldest row that    *)
(*             the device has not received;                                *)
(*   Vouched   an acknowledgement is of a row that was received with all   *)
(*             rows before it.                                             *)
(***************************************************************************)
EXTENDS Realtime, FiniteSetTheorems, WellFoundedInduction, TLAPS

\* Each publish that is owed is owed by a row of its own.
Counted == unpublished <= last

\* The device received row n and every row before it.
Through(n) == \A r \in 1..last : r <= n => r \in seen

\* Before a row of R come only rows of R and rows the device received.
StartsAtOldest(R) == \A b \in R, r \in 1..last : r < b => r \in R \cup seen

Unbroken ==
    /\ (1..last) \ queue \subseteq seen
    /\ \A s \in Sockets : StartsAtOldest(batch[s]) /\ StartsAtOldest(wire[s])

Vouched ==
    /\ \A s \in Sockets : \A n \in acks[s] \cup acking[s] : Through(n)
    /\ \A n \in polled : Through(n)

-----------------------------------------------------------------------------
(* Fetching and acknowledging                                              *)

\* The newest row of a frame is one of the frame.
LEMMA Newest ==
  ASSUME NEW n \in Nat, NEW R \in SUBSET (1..n), R # {}
  PROVE  newest(R) \in R /\ \A r \in R : r <= newest(R)
<1> DEFINE T == {n - r : r \in R}
<1>1. T \subseteq Nat /\ T # {}
  OBVIOUS
<1> DEFINE less == OpToRel(<, Nat)
<1>2. IsWellFoundedOn(less, Nat)
  BY NatLessThanWellFounded
<1>3. \A i, j \in Nat : i < j => <<i, j>> \in less
  BY DEF OpToRel
<1> HIDE DEF less
<1>4. PICK x \in T : \A y \in T : ~ (<<y, x>> \in less)
  <2> HIDE DEF T
  <2> QED
    BY <1>1, <1>2, WFMin
<1>5. PICK r \in R : x = n - r
  OBVIOUS
<1>6. ASSUME NEW y \in R PROVE y <= r
  <2>1. n - y \in T /\ n - y \in Nat /\ x \in Nat
    BY <1>1
  <2>2. ~ (n - y < x)
    BY <1>3, <1>4, <2>1
  <2> QED
    BY <1>5, <2>2
<1>7. \E m \in R : \A y \in R : y <= m
  BY <1>6
<1> QED
  BY <1>7 DEF newest

\* The last id is a natural number, whichever of the bounds applies.
LEMMA LastId ==
  ASSUME TypeOK
  PROVE  last \in Nat /\ MaxId \in Nat /\ queue \subseteq Nat
  BY RealtimeAssumption DEF TypeOK, RealtimeAssumption, MaxId

\* A fetch skips nothing: what is older than one of its rows is one of them.
LEMMA FetchFromOldest ==
  ASSUME TypeOK, NEW b \in fetch(queue), NEW r \in queue, r < b
  PROVE  r \in fetch(queue)
<1> DEFINE older(n) == {q \in queue : q <= n}
<1>1. last \in Nat /\ queue \subseteq 1..last
  BY LastId DEF TypeOK
<1>2. IsFiniteSet(1..last)
  BY <1>1, FS_Interval
<1>3. older(b) \in SUBSET (1..last)
  BY <1>1
<1>4. IsFiniteSet(older(b))
  BY <1>2, <1>3, FS_Subset
<1>5. older(r) \in SUBSET older(b)
  <2>1. b \in 1..last /\ r \in 1..last
    BY <1>1 DEF fetch
  <2>2. \A q \in 1..last : q <= r => q <= b
    BY <1>1, <2>1
  <2> QED
    BY <1>1, <2>2
<1>6. IsFiniteSet(older(r)) /\ Cardinality(older(r)) <= Cardinality(older(b))
  BY <1>4, <1>5, FS_Subset
<1>7. Cardinality(older(r)) \in Nat /\ Cardinality(older(b)) \in Nat
  BY <1>4, <1>6, FS_CardinalityType
<1>8. Cardinality(older(b)) <= Batch /\ Batch \in Nat
  BY RealtimeAssumption DEF fetch, RealtimeAssumption
<1>9. Cardinality(older(r)) <= Batch
  BY <1>6, <1>7, <1>8
<1> QED
  BY <1>9 DEF fetch

-----------------------------------------------------------------------------
(* Types                                                                   *)

\* The tables are empty, nothing is connected.
LEMMA TypeInit == Init => TypeOK
  BY RealtimeAssumption DEF Init, TypeOK, PerSocket, RealtimeAssumption, MaxId

\* The types of what is stored, and of the messages under way, as their tables.
Rows ==
    /\ last \in 0..MaxId /\ calm \in BOOLEAN
    /\ queue \subseteq 1..last /\ seen \subseteq 1..last /\ polled \subseteq 1..last
    /\ batch \in PerSocket(SUBSET (1..last))
    /\ wire \in PerSocket(SUBSET (1..last))
    /\ acks \in PerSocket(SUBSET (1..last))
    /\ acking \in PerSocket(SUBSET (1..last))

\* The types of the process, its connections and its wakes.
Process ==
    /\ live \in [Sessions -> BOOLEAN]
    /\ unpublished \in 0..MaxId /\ announcing \subseteq Sessions
    /\ bus \in PerSocket(Seq({"envelopes", "revoked"}))
    /\ sock \in PerSocket({"none", "resolving", "lost", "leaked", "opening", "open", "stopped"})
    /\ check \in PerSocket({"none", "good", "bad"})
    /\ draining \in PerSocket({"off", "fetching", "fetched"})
    /\ queuedWake \in PerSocket(BOOLEAN)
    /\ up \in BOOLEAN

\* What the rows and their acknowledgements are made of.
rows == <<last, queue, seen, batch, wire, acks, acking, polled, calm>>

\* Steps of sessions, wakes and connections.
Aside ==
    \/ Publish
    \/ \E X \in SUBSET Revocable : Revoke(X)
    \/ \E x \in Sessions : Announce(x)
    \/ \E s \in Sockets :
          \/ Connect(s) \/ resolveSession(s) \/ resolveFails(s) \/ Attach(s)
          \/ Revalidated(s) \/ onWake(s) \/ drainFails(s)
    \/ Restart
    \/ UNCHANGED vars

\* They leave the rows alone.
LEMMA AsideKeepsRows ==
  ASSUME Aside
  PROVE  UNCHANGED rows
<1>1. CASE Publish
  BY <1>1 DEF Publish, rows, table, pipe, net
<1>2. ASSUME NEW X \in SUBSET Revocable, Revoke(X) PROVE UNCHANGED rows
  BY <1>2 DEF Revoke, rows, table, pipe, net
<1>3. ASSUME NEW x \in Sessions, Announce(x) PROVE UNCHANGED rows
  BY <1>3 DEF Announce, rows, table, pipe, net
<1>4. ASSUME NEW s \in Sockets, Connect(s) PROVE UNCHANGED rows
  BY <1>4 DEF Connect, rows, table, pipe, net
<1>5. ASSUME NEW s \in Sockets, resolveSession(s) \/ resolveFails(s) PROVE UNCHANGED rows
  BY <1>5 DEF resolveSession, resolveFails, rows, table, pipe, net
<1>6. ASSUME NEW s \in Sockets, Attach(s) PROVE UNCHANGED rows
  BY <1>6 DEF Attach, rows, table, pipe, net
<1>7. ASSUME NEW s \in Sockets, Revalidated(s) PROVE UNCHANGED rows
  BY <1>7 DEF Revalidated, rows, table, pipe, net
<1>8. ASSUME NEW s \in Sockets, onWake(s) PROVE UNCHANGED rows
  BY <1>8 DEF onWake, rows, table, pipe, net
<1>9. ASSUME NEW s \in Sockets, drainFails(s) PROVE UNCHANGED rows
  BY <1>9 DEF drainFails, rows, table, net
<1>10. CASE Restart
  BY <1>10 DEF Restart, rows, table, pipe, net
<1>11. CASE UNCHANGED vars
  BY <1>11 DEF vars, rows
<1> QED
  BY <1>1, <1>2, <1>3, <1>4, <1>5, <1>6, <1>7, <1>8, <1>9, <1>10, <1>11 DEF Aside

\* The steps that are left.
LEMMA RowSteps ==
  ASSUME [Next]_vars
  PROVE  \/ Aside
         \/ Store \/ Poll \/ PollAck \/ PollAckLost
         \/ \E s \in Sockets :
               \/ drainFetch(s) \/ drainSend(s) \/ Receive(s) \/ Close(s)
               \/ SomeAck(s) \/ SomeAcknowledged(s) \/ acknowledgeFails(s)
  BY DEF Next, SocketStep, Aside

\* A row id, a fetch and the newest of a nonempty set of ids are ids that exist.
LEMMA RowsNext == TypeOK /\ [Next]_vars => Rows'
<1> SUFFICES ASSUME TypeOK, [Next]_vars PROVE Rows'
  OBVIOUS
<1> USE DEF PerSocket
<1>1. CASE Aside
  <2>1. UNCHANGED <<last, queue, seen, batch, wire, acks, acking, polled, calm>>
    BY <1>1, AsideKeepsRows DEF rows
  <2>2. MaxId' = MaxId
    BY <2>1 DEF MaxId
  <2> QED
    BY <2>1, <2>2 DEF Rows, TypeOK
<1>2. CASE Store
  <2>1. /\ last' = last + 1 /\ queue' = queue \cup {last + 1} /\ last < MaxId
        /\ UNCHANGED <<seen, batch, wire, acks, acking, polled, calm>>
    BY <1>2 DEF Store, pipe, net
  <2>2. /\ last' \in 0..MaxId /\ 1..last \subseteq 1..last' /\ last' \in 1..last'
        /\ MaxId' = MaxId
    BY <2>1, LastId DEF TypeOK, MaxId
  <2>3. /\ batch' \in [Sockets -> SUBSET (1..last')] /\ wire' \in [Sockets -> SUBSET (1..last')]
        /\ acks' \in [Sockets -> SUBSET (1..last')] /\ acking' \in [Sockets -> SUBSET (1..last')]
    BY <2>1, <2>2 DEF TypeOK
  <2> QED
    BY <2>1, <2>2, <2>3 DEF TypeOK, Rows
<1>3. CASE Poll
  BY <1>3 DEF Poll, fetch, pipe, net, TypeOK, Rows, MaxId
<1>4. CASE PollAck
  BY <1>4 DEF PollAck, pipe, net, TypeOK, Rows, MaxId
<1>5. CASE PollAckLost
  BY <1>5 DEF PollAckLost, table, pipe, net, TypeOK, Rows, MaxId
<1>6. ASSUME NEW s \in Sockets, drainFetch(s) PROVE Rows'
  <2>1. fetch(queue) \subseteq 1..last
    BY DEF fetch, TypeOK
  <2> QED
    BY <1>6, <2>1 DEF drainFetch, table, net, TypeOK, Rows, MaxId
<1>7. ASSUME NEW s \in Sockets, drainSend(s) PROVE Rows'
  <2>1. wire' \in [Sockets -> SUBSET (1..last)] /\ batch' \in [Sockets -> SUBSET (1..last)]
    BY <1>7 DEF drainSend, TypeOK
  <2> QED
    BY <1>7, <2>1 DEF drainSend, table, TypeOK, Rows, MaxId
<1>8. ASSUME NEW s \in Sockets, Receive(s) PROVE Rows'
  <2>1. newest(wire[s]) \in wire[s] /\ wire[s] \subseteq 1..last
    BY <1>8, LastId, Newest DEF Receive, TypeOK
  <2> QED
    BY <1>8, <2>1 DEF Receive, pipe, TypeOK, Rows, MaxId
<1>9. ASSUME NEW s \in Sockets, Close(s) PROVE Rows'
  BY <1>9 DEF Close, table, pipe, TypeOK, Rows, MaxId
<1>10. ASSUME NEW s \in Sockets, NEW n \in Ids, onAck(s, n) PROVE Rows'
  <2>1. n \in 1..last
    BY <1>10 DEF onAck, TypeOK
  <2>2. acks' \in [Sockets -> SUBSET (1..last)] /\ acking' \in [Sockets -> SUBSET (1..last)]
    BY <1>10, <2>1 DEF onAck, TypeOK
  <2> QED
    BY <1>10, <2>2 DEF onAck, table, pipe, TypeOK, Rows, MaxId
<1>11. ASSUME NEW s \in Sockets, NEW n \in Ids, acknowledged(s, n) PROVE Rows'
  BY <1>11 DEF acknowledged, net, TypeOK, Rows, MaxId
<1>12. ASSUME NEW s \in Sockets, acknowledgeFails(s) PROVE Rows'
  BY <1>12 DEF acknowledgeFails, Die, TypeOK, Rows, MaxId
<1> QED
  BY <1>1, <1>2, <1>3, <1>4, <1>5, <1>6, <1>7, <1>8, <1>9, <1>10, <1>11, <1>12, RowSteps
     DEF SomeAck, SomeAcknowledged

\* A wake, or an acknowledgement, leaves the drain with its types.
LEMMA DrainType ==
  ASSUME TypeOK, NEW s \in Sockets, drain(s)
  PROVE  /\ draining' \in [Sockets -> {"off", "fetching", "fetched"}]
         /\ queuedWake' \in [Sockets -> BOOLEAN]
  BY DEF TypeOK, PerSocket, drain

\* Every message on the bus is one of two.
LEMMA SendType ==
  ASSUME TypeOK, NEW wake \in {"envelopes", "revoked"}, NEW S, send(wake, S)
  PROVE  bus' \in [Sockets -> Seq({"envelopes", "revoked"})]
  BY DEF TypeOK, PerSocket, send

\* The types of connections, wakes and sessions survive every step.
LEMMA ProcessNext == TypeOK /\ Counted /\ [Next]_vars => Process'
<1> SUFFICES ASSUME TypeOK, Counted, [Next]_vars PROVE Process'
  OBVIOUS
<1> USE DEF PerSocket
<1>1. CASE Store
  BY <1>1, LastId DEF Store, Counted, pipe, TypeOK, Process, MaxId
<1>2. CASE Publish
  <2>1. bus' \in [Sockets -> Seq({"envelopes", "revoked"})]
    BY <1>2, SendType DEF Publish, TypeOK
  <2>2. unpublished' \in 0..MaxId /\ MaxId' = MaxId
    BY <1>2, LastId DEF Publish, TypeOK, MaxId
  <2> QED
    BY <1>2, <2>1, <2>2 DEF Publish, table, pipe, TypeOK, Process
<1>3. ASSUME NEW X \in SUBSET Revocable, Revoke(X) PROVE Process'
  BY <1>3, RealtimeAssumption DEF Revoke, pipe, TypeOK, Process, MaxId, RealtimeAssumption
<1>4. ASSUME NEW x \in Sessions, Announce(x) PROVE Process'
  <2>1. bus' \in [Sockets -> Seq({"envelopes", "revoked"})]
    BY <1>4, SendType DEF Announce, TypeOK
  <2> QED
    BY <1>4, <2>1 DEF Announce, pipe, TypeOK, Process, MaxId
<1>5. ASSUME NEW s \in Sockets, Connect(s) PROVE Process'
  BY <1>5 DEF Connect, session, pipe, TypeOK, Process, MaxId
<1>6. ASSUME NEW s \in Sockets, resolveSession(s) PROVE Process'
  BY <1>6 DEF resolveSession, session, pipe, TypeOK, Process, MaxId
<1>7. ASSUME NEW s \in Sockets, resolveFails(s) PROVE Process'
  BY <1>7 DEF resolveFails, session, pipe, TypeOK, Process, MaxId
<1>8. ASSUME NEW s \in Sockets, Attach(s) PROVE Process'
  BY <1>8 DEF Attach, session, pipe, TypeOK, Process, MaxId
<1>9. ASSUME NEW s \in Sockets, Revalidated(s) PROVE Process'
  <2>1. /\ sock' \in [Sockets -> {"none", "resolving", "lost", "leaked", "opening", "open",
                                  "stopped"}]
        /\ check' \in [Sockets -> {"none", "good", "bad"}]
    BY <1>9 DEF Revalidated, stop, TypeOK
  <2>2. /\ draining' \in [Sockets -> {"off", "fetching", "fetched"}]
        /\ queuedWake' \in [Sockets -> BOOLEAN]
    BY <1>9, DrainType DEF Revalidated, pipe, TypeOK
  <2> QED
    BY <1>9, <2>1, <2>2 DEF Revalidated, session, TypeOK, Process, MaxId
<1>10. ASSUME NEW s \in Sockets, onWake(s) PROVE Process'
  <2>1. sock' \in [Sockets -> {"none", "resolving", "lost", "leaked", "opening", "open",
                               "stopped"}]
    BY <1>10 DEF onWake, stop, TypeOK
  <2>2. /\ draining' \in [Sockets -> {"off", "fetching", "fetched"}]
        /\ queuedWake' \in [Sockets -> BOOLEAN]
    BY <1>10, DrainType DEF onWake, pipe, TypeOK
  <2>3. bus' \in [Sockets -> Seq({"envelopes", "revoked"})]
    BY <1>10 DEF onWake, TypeOK
  <2> QED
    BY <1>10, <2>1, <2>2, <2>3 DEF onWake, session, TypeOK, Process, MaxId
<1>11. ASSUME NEW s \in Sockets, drainFetch(s) \/ drainFails(s) \/ drainSend(s) PROVE Process'
  <2>1. UNCHANGED <<live, unpublished, announcing, bus, sock, check, up, calm>>
    BY <1>11 DEF drainFetch, drainFails, drainSend, session
  <2>2. CASE drainFetch(s)
    BY <2>1, <2>2 DEF drainFetch, TypeOK, Process, MaxId
  <2>3. CASE drainFails(s)
    BY <2>1, <2>3 DEF drainFails, TypeOK, Process, MaxId
  <2>4. CASE drainSend(s)
    BY <2>1, <2>4 DEF drainSend, TypeOK, Process, MaxId
  <2> QED
    BY <1>11, <2>2, <2>3, <2>4
<1>12. ASSUME NEW s \in Sockets, NEW n \in Ids, onAck(s, n) PROVE Process'
  BY <1>12 DEF onAck, session, pipe, TypeOK, Process, MaxId
<1>13. ASSUME NEW s \in Sockets, NEW n \in Ids, acknowledged(s, n) PROVE Process'
  BY <1>13, DrainType DEF acknowledged, session, TypeOK, Process, MaxId
<1>14. ASSUME NEW s \in Sockets, acknowledgeFails(s) PROVE Process'
  <2>1. /\ unpublished' = 0 /\ announcing' = {} /\ up' = FALSE
        /\ UNCHANGED <<live, calm>>
    BY <1>14 DEF acknowledgeFails, Die
  <2>2. /\ sock' = [t \in Sockets |-> "none"] /\ check' = [t \in Sockets |-> "none"]
        /\ draining' = [t \in Sockets |-> "off"] /\ queuedWake' = [t \in Sockets |-> FALSE]
    BY <1>14 DEF acknowledgeFails, Die
  <2>3. bus' \in [Sockets -> Seq({"envelopes", "revoked"})]
    BY <1>14 DEF acknowledgeFails, Die
  <2>4. 0 \in 0..MaxId /\ MaxId' = MaxId
    BY <2>1, LastId DEF MaxId
  <2> QED
    BY <2>1, <2>2, <2>3, <2>4 DEF TypeOK, Process
<1>15. CASE Restart
  BY <1>15 DEF Restart, session, pipe, TypeOK, Process, MaxId
<1>16. ASSUME NEW s \in Sockets, Receive(s) PROVE Process'
  BY <1>16 DEF Receive, session, pipe, TypeOK, Process, MaxId
<1>17. ASSUME NEW s \in Sockets, Close(s) PROVE Process'
  BY <1>17 DEF Close, session, pipe, TypeOK, Process, MaxId
<1>18. CASE Poll \/ PollAck \/ PollAckLost
  BY <1>18 DEF Poll, PollAck, PollAckLost, session, pipe, TypeOK, Process, MaxId
<1>19. CASE UNCHANGED vars
  BY <1>19 DEF vars, TypeOK, Process, MaxId
<1> QED
  BY <1>1, <1>2, <1>3, <1>4, <1>5, <1>6, <1>7, <1>8, <1>9, <1>10, <1>11, <1>12, <1>13,
     <1>14, <1>15, <1>16, <1>17, <1>18, <1>19
     DEF Next, SocketStep, SomeAck, SomeAcknowledged

\* Every step keeps the types.
LEMMA TypeNext == TypeOK /\ Counted /\ [Next]_vars => TypeOK'
  BY RowsNext, ProcessNext DEF Rows, Process, TypeOK

\* Every wake that waits to be published is of a row that was stored.
LEMMA CountedNext == TypeOK /\ Counted /\ [Next]_vars => Counted'
<1> SUFFICES ASSUME TypeOK, Counted, [Next]_vars PROVE Counted'
  OBVIOUS
<1>1. unpublished \in Nat /\ last \in Nat
  BY LastId DEF TypeOK
<1>2. CASE Store
  BY <1>1, <1>2 DEF Store, Counted
<1>3. CASE Publish
  BY <1>1, <1>3 DEF Publish, table, Counted
<1>4. CASE \E s \in Sockets : acknowledgeFails(s)
  BY <1>1, <1>4 DEF acknowledgeFails, Die, Counted
<1>5. ASSUME ~ Store, ~ Publish, ~ \E s \in Sockets : acknowledgeFails(s)
      PROVE  UNCHANGED <<unpublished, last>>
  <2>1. CASE \E X \in SUBSET Revocable : Revoke(X)
    BY <2>1 DEF Revoke, table
  <2>2. CASE \E x \in Sessions : Announce(x)
    BY <2>2 DEF Announce, table
  <2>3. ASSUME NEW s \in Sockets,
               \/ Connect(s) \/ resolveSession(s) \/ resolveFails(s) \/ Attach(s)
               \/ Revalidated(s) \/ onWake(s)
        PROVE  UNCHANGED <<unpublished, last>>
    BY <2>3 DEF Connect, resolveSession, resolveFails, Attach, Revalidated, onWake, table, session
  <2>4. ASSUME NEW s \in Sockets,
               \/ Close(s) \/ Receive(s) \/ drainFetch(s) \/ drainFails(s) \/ drainSend(s)
               \/ SomeAck(s) \/ SomeAcknowledged(s)
        PROVE  UNCHANGED <<unpublished, last>>
    BY <2>4 DEF Close, Receive, drainFetch, drainFails, drainSend, SomeAck, onAck,
                SomeAcknowledged, acknowledged, table, session
  <2>5. CASE Restart \/ Poll \/ PollAck \/ PollAckLost
    BY <2>5 DEF Restart, Poll, PollAck, PollAckLost, table, session
  <2>6. CASE UNCHANGED vars
    BY <2>6 DEF vars
  <2> QED
    BY <1>5, <2>1, <2>2, <2>3, <2>4, <2>5, <2>6 DEF Next, SocketStep
<1> QED
  BY <1>2, <1>3, <1>4, <1>5 DEF Counted

-----------------------------------------------------------------------------
(* Removing only what was received                                         *)

\* A row older than one that came with all before it came with all before it too.
LEMMA ThroughOlder ==
  ASSUME TypeOK, NEW n \in 1..last, Through(n), NEW R \in SUBSET (1..last),
         \A r \in R : r <= n
  PROVE  R \subseteq seen
  BY DEF Through

\* An acknowledgement removes nothing the device did not receive.
LEMMA AckedWasSeen ==
  ASSUME TypeOK, Unbroken, NEW n \in 1..last, Through(n)
  PROVE  (1..last) \ (queue \ upTo(n)) \subseteq seen
<1>1. upTo(n) \subseteq seen
  BY ThroughOlder DEF upTo, TypeOK
<1> QED
  BY <1>1 DEF Unbroken

\* What a request fetches starts at the oldest row that has not been received.
LEMMA FetchStarts ==
  ASSUME TypeOK, Unbroken
  PROVE  StartsAtOldest(fetch(queue))
<1> SUFFICES ASSUME NEW b \in fetch(queue), NEW r \in 1..last, r < b
             PROVE  r \in fetch(queue) \cup seen
  BY DEF StartsAtOldest
<1>1. CASE r \in queue
  BY <1>1, FetchFromOldest
<1>2. CASE r \notin queue
  BY <1>2 DEF Unbroken
<1> QED
  BY <1>1, <1>2

\* Whoever has all of such a set has all rows up to any of it.
LEMMA StartsThrough ==
  ASSUME TypeOK, NEW R \in SUBSET (1..last), StartsAtOldest(R), NEW n \in R,
         last' = last, seen' = seen \cup R
  PROVE  Through(n)'
<1>1. n \in 1..last
  OBVIOUS
<1>2. ASSUME NEW r \in 1..last, r <= n PROVE r \in seen'
  <2>1. r = n \/ r < n
    BY <1>1, <1>2
  <2> QED
    BY <2>1 DEF StartsAtOldest
<1> QED
  BY <1>2 DEF Through

\* The tables are empty at first.
LEMMA ReceivedInit == Init => Counted /\ Unbroken /\ Vouched
  BY DEF Init, Counted, Unbroken, Vouched, StartsAtOldest

\* What has been received stays received.
LEMMA SeenGrows ==
  ASSUME last' = last, seen \subseteq seen'
  PROVE  /\ \A R : StartsAtOldest(R) => StartsAtOldest(R)'
         /\ \A n : Through(n) => Through(n)'
  BY DEF StartsAtOldest, Through

\* No frame, fetch or poll ever skips a row, and nothing unreceived is removed.
LEMMA UnbrokenNext == TypeOK /\ Unbroken /\ Vouched /\ [Next]_vars => Unbroken'
<1> SUFFICES ASSUME TypeOK, Unbroken, Vouched, [Next]_vars PROVE Unbroken'
  OBVIOUS
<1>1. CASE Aside
  <2>1. UNCHANGED <<last, queue, seen, batch, wire>>
    BY <1>1, AsideKeepsRows DEF rows
  <2> QED
    BY <2>1 DEF Unbroken, StartsAtOldest
<1>2. CASE Store
  <2>1. /\ last' = last + 1 /\ queue' = queue \cup {last + 1} /\ last \in Nat
        /\ UNCHANGED <<seen, batch, wire>>
    BY <1>2, LastId DEF Store, pipe, net
  <2>2. \A r \in 1..last' : r \in 1..last \/ r = last + 1
    BY <2>1
  <2>3. (1..last') \ queue' \subseteq seen'
    BY <2>1, <2>2 DEF Unbroken
  <2>4. ASSUME NEW R \in SUBSET (1..last), StartsAtOldest(R),
               NEW b \in R, NEW r \in 1..last', r < b
        PROVE  r \in R \cup seen
    <3>1. r \in 1..last
      BY <2>1, <2>2, <2>4
    <3> QED
      BY <2>4, <3>1 DEF StartsAtOldest
  <2>5. \A s \in Sockets : /\ batch[s] \in SUBSET (1..last) /\ StartsAtOldest(batch[s])
                           /\ wire[s] \in SUBSET (1..last) /\ StartsAtOldest(wire[s])
    BY DEF TypeOK, PerSocket, Unbroken
  <2> QED
    BY <2>1, <2>3, <2>4, <2>5 DEF Unbroken, StartsAtOldest
<1>3. CASE Poll
  BY <1>3 DEF Poll, pipe, net, Unbroken, StartsAtOldest
<1>4. CASE PollAck
  <2>1. /\ queue' = queue \ upTo(newest(polled))
        /\ UNCHANGED <<last, seen, batch, wire>>
    BY <1>4 DEF PollAck, pipe, net
  <2>2. newest(polled) \in polled /\ polled \subseteq 1..last
    BY <1>4, LastId, Newest DEF PollAck, TypeOK
  <2>3. (1..last) \ queue' \subseteq seen
    BY <2>1, <2>2, AckedWasSeen DEF Vouched
  <2> QED
    BY <2>1, <2>3 DEF Unbroken, StartsAtOldest
<1>5. CASE PollAckLost
  BY <1>5 DEF PollAckLost, table, pipe, net, Unbroken, StartsAtOldest
<1>6. ASSUME NEW s \in Sockets, drainFetch(s) PROVE Unbroken'
  <2>1. /\ batch' = [batch EXCEPT ![s] = fetch(queue)]
        /\ UNCHANGED <<last, queue, seen, wire>>
    BY <1>6 DEF drainFetch, table, net
  <2>2. \A t \in Sockets : batch'[t] = fetch(queue) \/ batch'[t] = batch[t]
    BY <2>1 DEF TypeOK, PerSocket
  <2> QED
    BY <2>1, <2>2, FetchStarts DEF Unbroken, StartsAtOldest
<1>7. ASSUME NEW s \in Sockets, drainSend(s) PROVE Unbroken'
  <2>1. UNCHANGED <<last, queue, seen>>
    BY <1>7 DEF drainSend, table
  <2>2. \A t \in Sockets : /\ batch'[t] = {} \/ batch'[t] = batch[t]
                           /\ wire'[t] = wire[t] \cup batch[t] \/ wire'[t] = wire[t]
    BY <1>7 DEF drainSend, TypeOK, PerSocket
  <2> QED
    BY <2>1, <2>2 DEF Unbroken, StartsAtOldest
<1>8. ASSUME NEW s \in Sockets, Receive(s) \/ Close(s) PROVE Unbroken'
  <2>1. UNCHANGED <<last, queue, batch>> /\ seen \subseteq seen'
    BY <1>8 DEF Receive, Close, table, pipe
  <2>2. \A t \in Sockets : wire'[t] = {} \/ wire'[t] = wire[t]
    BY <1>8 DEF Receive, Close, TypeOK, PerSocket
  <2> QED
    BY <2>1, <2>2 DEF Unbroken, StartsAtOldest
<1>9. ASSUME NEW s \in Sockets, NEW n \in Ids, onAck(s, n) PROVE Unbroken'
  BY <1>9 DEF onAck, table, pipe, Unbroken, StartsAtOldest
<1>10. ASSUME NEW s \in Sockets, NEW n \in Ids, acknowledged(s, n) PROVE Unbroken'
  <2>1. /\ queue' = queue \ upTo(n) /\ n \in acking[s]
        /\ UNCHANGED <<last, seen, batch, wire>>
    BY <1>10 DEF acknowledged, net
  <2>2. n \in 1..last /\ Through(n)
    BY <2>1 DEF TypeOK, PerSocket, Vouched
  <2>3. (1..last) \ queue' \subseteq seen
    BY <2>1, <2>2, AckedWasSeen
  <2> QED
    BY <2>1, <2>3 DEF Unbroken, StartsAtOldest
<1>11. ASSUME NEW s \in Sockets, acknowledgeFails(s) PROVE Unbroken'
  BY <1>11 DEF acknowledgeFails, Die, Unbroken, StartsAtOldest
<1> QED
  BY <1>1, <1>2, <1>3, <1>4, <1>5, <1>6, <1>7, <1>8, <1>9, <1>10, <1>11, RowSteps
     DEF SomeAck, SomeAcknowledged

\* No acknowledgement is ever of more than was received.
LEMMA VouchedNext == TypeOK /\ Unbroken /\ Vouched /\ [Next]_vars => Vouched'
<1> SUFFICES ASSUME TypeOK, Unbroken, Vouched, [Next]_vars PROVE Vouched'
  OBVIOUS
<1>1. CASE Aside
  <2>1. UNCHANGED <<last, seen, acks, acking, polled>>
    BY <1>1, AsideKeepsRows DEF rows
  <2> QED
    BY <2>1 DEF Vouched, Through
<1>2. CASE Store
  <2>1. last' = last + 1 /\ last \in Nat /\ UNCHANGED <<seen, acks, acking, polled>>
    BY <1>2, LastId DEF Store, net
  <2>2. ASSUME NEW n \in 1..last, Through(n) PROVE Through(n)'
    <3>1. \A r \in 1..last' : r <= n => r \in 1..last
      BY <2>1
    <3> QED
      BY <2>1, <2>2, <3>1 DEF Through
  <2>3. /\ polled \subseteq 1..last
        /\ \A s \in Sockets : acks[s] \cup acking[s] \subseteq 1..last
    BY DEF TypeOK, PerSocket
  <2> QED
    BY <2>1, <2>2, <2>3 DEF Vouched
<1>3. CASE Poll
  <2>1. /\ polled' = fetch(queue) /\ seen' = seen \cup fetch(queue)
        /\ UNCHANGED <<last, acks, acking>>
    BY <1>3 DEF Poll, net
  <2>2. fetch(queue) \in SUBSET (1..last)
    BY DEF fetch, TypeOK
  <2>3. \A n \in fetch(queue) : Through(n)'
    BY <2>1, <2>2, FetchStarts, StartsThrough
  <2> QED
    BY <2>1, <2>3 DEF Vouched, Through
<1>4. CASE PollAck \/ PollAckLost
  BY <1>4 DEF PollAck, PollAckLost, table, net, Vouched, Through
<1>5. ASSUME NEW s \in Sockets, drainFetch(s) \/ drainSend(s) PROVE Vouched'
  BY <1>5 DEF drainFetch, drainSend, table, net, Vouched, Through
<1>6. ASSUME NEW s \in Sockets, Receive(s) PROVE Vouched'
  <2>1. /\ acks' = [acks EXCEPT ![s] = @ \cup {newest(wire[s])}]
        /\ wire[s] # {} /\ seen' = seen \cup wire[s]
        /\ UNCHANGED <<last, acking, polled>>
    BY <1>6 DEF Receive
  <2>2. wire[s] \in SUBSET (1..last)
    BY DEF TypeOK, PerSocket
  <2>3. PICK n \in wire[s] : n = newest(wire[s])
    BY <2>1, <2>2, LastId, Newest
  <2>4. StartsAtOldest(wire[s])
    BY DEF Unbroken
  <2>5. \A r \in 1..last : r <= n => r \in seen'
    <3>1. ASSUME NEW r \in 1..last, r <= n PROVE r = n \/ r < n
      BY <2>2, <3>1
    <3> QED
      BY <2>1, <2>4, <3>1 DEF StartsAtOldest
  <2>6. acks'[s] = acks[s] \cup {n} /\ \A t \in Sockets \ {s} : acks'[t] = acks[t]
    BY <2>1, <2>3 DEF TypeOK, PerSocket
  <2> QED
    BY <2>1, <2>5, <2>6 DEF Vouched, Through
<1>7. ASSUME NEW s \in Sockets, Close(s) PROVE Vouched'
  <2>1. UNCHANGED <<last, seen, acking, polled>>
    BY <1>7 DEF Close, table
  <2>2. \A t \in Sockets : acks'[t] \subseteq acks[t]
    BY <1>7 DEF Close, TypeOK, PerSocket
  <2> QED
    BY <2>1, <2>2 DEF Vouched, Through
<1>8. ASSUME NEW s \in Sockets, NEW n \in Ids, onAck(s, n) PROVE Vouched'
  <2>1. UNCHANGED <<last, seen, polled>> /\ n \in acks[s]
    BY <1>8 DEF onAck, table
  <2>2. \A t \in Sockets : acks'[t] \cup acking'[t] \subseteq acks[t] \cup acking[t]
    BY <1>8 DEF onAck, TypeOK, PerSocket
  <2> QED
    BY <2>1, <2>2 DEF Vouched, Through
<1>9. ASSUME NEW s \in Sockets, NEW n \in Ids, acknowledged(s, n) PROVE Vouched'
  <2>1. UNCHANGED <<last, seen, acks, polled>>
    BY <1>9 DEF acknowledged, net
  <2>2. \A t \in Sockets : acking'[t] \subseteq acking[t]
    BY <1>9 DEF acknowledged, TypeOK, PerSocket
  <2> QED
    BY <2>1, <2>2 DEF Vouched, Through
<1>10. ASSUME NEW s \in Sockets, acknowledgeFails(s) PROVE Vouched'
  BY <1>10 DEF acknowledgeFails, Die, Vouched, Through
<1> QED
  BY <1>1, <1>2, <1>3, <1>4, <1>5, <1>6, <1>7, <1>8, <1>9, <1>10, RowSteps
     DEF SomeAck, SomeAcknowledged

-----------------------------------------------------------------------------
(* Theorems                                                                *)

\* The inductive invariant.
IInv ==
    /\ TypeOK
    /\ Counted
    /\ Unbroken
    /\ Vouched

\* What holds of every reachable state of the queue, the sockets and the poll.
LEMMA Invariance == Spec => []IInv
<1>1. Init => IInv
  BY TypeInit, ReceivedInit DEF IInv
<1>2. IInv /\ [Next]_vars => IInv'
  BY TypeNext, CountedNext, UnbrokenNext, VouchedNext DEF IInv
<1> QED
  BY <1>1, <1>2, PTL DEF Spec

\* Every reachable state of the handler, its connections and the app is well typed.
THEOREM TypeCorrect == Spec => []TypeOK
<1>1. IInv => TypeOK
  BY DEF IInv
<1> QED
  BY Invariance, <1>1, PTL

\* However many sockets and polls acknowledge at once, and whatever is lost on the
\* way, a row is removed only after the device received it.
THEOREM ReceivedFirst == Spec => []RemovedWasReceived
<1>1. IInv => RemovedWasReceived
  BY DEF IInv, Unbroken, RemovedWasReceived
<1> QED
  BY Invariance, <1>1, PTL

\* A connection that was told its session ended neither writes another envelope nor
\* starts another deletion, also from what it was awaiting when it was told.
LEMMA Silence ==
  ASSUME TypeOK, [Next]_vars, NEW t \in Sockets, sock[t] = "stopped"
  PROVE  wire'[t] \subseteq wire[t] /\ acking'[t] \subseteq acking[t]
<1> USE DEF TypeOK, PerSocket
<1>1. CASE Aside
  BY <1>1, AsideKeepsRows DEF rows
<1>2. CASE Store \/ Poll \/ PollAck \/ PollAckLost
  BY <1>2 DEF Store, Poll, PollAck, PollAckLost, net
<1>3. ASSUME NEW s \in Sockets, drainFetch(s) PROVE UNCHANGED <<wire, acking>>
  BY <1>3 DEF drainFetch, net
<1>4. ASSUME NEW s \in Sockets, drainSend(s)
      PROVE  wire'[t] = wire[t] /\ acking' = acking
  BY <1>4 DEF drainSend, canSend
<1>5. ASSUME NEW s \in Sockets, Receive(s) \/ Close(s)
      PROVE  wire'[t] \subseteq wire[t] /\ acking' = acking
  BY <1>5 DEF Receive, Close
<1>6. ASSUME NEW s \in Sockets, NEW n \in Ids, onAck(s, n)
      PROVE  wire' = wire /\ acking'[t] = acking[t]
  BY <1>6 DEF onAck, canSend
<1>7. ASSUME NEW s \in Sockets, NEW n \in Ids, acknowledged(s, n)
      PROVE  wire' = wire /\ acking'[t] \subseteq acking[t]
  BY <1>7 DEF acknowledged, net
<1>8. ASSUME NEW s \in Sockets, acknowledgeFails(s)
      PROVE  wire'[t] = {} /\ acking'[t] = {}
  BY <1>8 DEF acknowledgeFails, Die
<1> QED
  BY <1>1, <1>2, <1>3, <1>4, <1>5, <1>6, <1>7, <1>8, RowSteps DEF SomeAck, SomeAcknowledged

\* The same, of every behaviour.
THEOREM RevokedFallsSilent == Spec => StoppedStaysSilent
<1>1. TypeOK /\ [Next]_vars =>
        [\A s \in Sockets : sock[s] = "stopped" =>
            wire'[s] \subseteq wire[s] /\ acking'[s] \subseteq acking[s]]_vars
  BY Silence
<1> QED
  BY <1>1, TypeCorrect, PTL DEF Spec, StoppedStaysSilent

=============================================================================
