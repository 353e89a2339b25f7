------------------------------ MODULE Realtime ------------------------------
(***************************************************************************)
(* How one recipient device learns of its queue: the WebSocket handler of  *)
(* server/src/routes/ws.ts, the wake-up bus of services/bus.ts, revocation *)
(* (services/sessions.ts, services/revocation.ts) and, on the other side,  *)
(* the app's socket and its fallback poll.                                 *)
(*                                                                         *)
(* The handler is single-threaded but awaits the database in four places:  *)
(* between the question and what is done with the answer, wakes arrive,    *)
(* acknowledgements land, sessions end and the client hangs up.  The queue *)
(* is the one of Delivery.tla, with rows named by their ids.               *)
(***************************************************************************)
EXTENDS Naturals, FiniteSets, Sequences

CONSTANTS
    Sockets,     \* connection slots of the device; a reconnect takes a free one
    Sessions,    \* the device's sessions
    Session,     \* Session[s] is the session whose token socket s presents
    Batch,       \* BATCH: rows in one frame
    MaxCalm,     \* bound: rows that are ever stored while nothing fails
    MaxTroubled, \* bound: rows that are ever stored otherwise
    Revocable,   \* bound: sessions that may end
    Faults       \* what may go wrong: a subset of {"bus", "database", "network"}

ASSUME RealtimeAssumption ==
    /\ Session \in [Sockets -> Sessions]
    /\ Batch \in Nat \ {0}
    /\ MaxCalm \in Nat /\ MaxTroubled \in Nat
    /\ Revocable \subseteq Sessions
    /\ Faults \subseteq {"bus", "database", "network"}

VARIABLES
    last,         \* id of the newest row stored for this device
    queue,        \* ids of the rows in envelopes
    seen,         \* history: ids the device received
    live,         \* live[x]: resolveSession finds session x
    unpublished,  \* enqueue calls that have committed and not yet published
    announcing,   \* sessions ended in the table, not yet announced
    bus,          \* wakes on their way to each socket's listener
    sock,         \* where each connection is
    check,        \* answer of the resolveSession a connection awaits
    draining,     \* where each connection's drain is
    batch,        \* rows its fetch returned
    queuedWake,   \* a wake came while it was draining
    wire,         \* rows in frames on their way to the client
    acks,         \* acknowledgements on their way to the server
    acking,       \* acknowledgements whose DELETE is awaited
    polled,       \* rows the fallback poll fetched and has not acknowledged
    up,           \* the server process is running
    calm          \* nothing fails and no session ends, from beginning to end

table   == <<last, queue, seen>>
session == <<live, unpublished, announcing>>
pipe    == <<draining, batch, queuedWake>>
net     == <<wire, acks>>
vars    == <<last, queue, seen, live, unpublished, announcing, bus, sock, check,
             draining, batch, queuedWake, wire, acks, acking, polled, up, calm>>

MaxId == IF calm THEN MaxCalm ELSE MaxTroubled
Ids   == 1..(IF MaxCalm > MaxTroubled THEN MaxCalm ELSE MaxTroubled)

MayFail(f) == ~ calm /\ f \in Faults

\* Mutant of fetch: ORDER BY id DESC.
fetchNewestFirst(Q) == {r \in Q : Cardinality({q \in Q : q >= r}) <= Batch}

\* The LIMIT rows with the lowest ids.
fetch(Q) == {r \in Q : Cardinality({q \in Q : q <= r}) <= Batch}

upTo(n) == {r \in queue : r <= n}

\* Mutant of newest: acknowledges one id too far.
newestOffByOne(R) == 1 + CHOOSE n \in R : \A r \in R : r <= n

newest(R) == CHOOSE n \in R : \A r \in R : r <= n

\* readyState is OPEN and revoked is false.
canSend(s) == sock[s] \in {"opening", "open"}

\* Listening on the bus, with the revalidation timer running; a connection
\* that went away before its handlers were attached listens for nobody.
listening(s) == sock[s] \in {"opening", "open", "leaked"}

\* Mutant of drain: a wake that finds a drain running is dropped.
drainDropsWake(s) ==
    /\ queuedWake' = [queuedWake EXCEPT ![s] = FALSE]
    /\ draining' = [draining EXCEPT ![s] =
                       IF @ = "off" /\ canSend(s) THEN "fetching" ELSE @]

\* void drain(): one loop per connection; a wake that finds it running is noted.
drain(s) ==
    IF draining[s] = "off"
      THEN /\ queuedWake' = [queuedWake EXCEPT ![s] = FALSE]
           /\ draining' = [draining EXCEPT ![s] = IF canSend(s) THEN "fetching" ELSE "off"]
      ELSE /\ queuedWake' = [queuedWake EXCEPT ![s] = TRUE]
           /\ UNCHANGED draining

\* stop(): no listener, no timer; frames already written still go out.
stop(s) ==
    sock' = [sock EXCEPT ![s] = IF sock[s] = "leaked" THEN "none" ELSE "stopped"]

-----------------------------------------------------------------------------
(* Senders and sessions                                                    *)

\* enqueue's INSERT commits; rows commit in id order here (see Delivery.tla).
Store ==
    /\ up /\ last < MaxId
    /\ last' = last + 1
    /\ queue' = queue \cup {last + 1}
    /\ unpublished' = unpublished + 1
    /\ UNCHANGED <<seen, live, announcing, bus, sock, check, pipe, net, acking, polled, up, calm>>

send(wake, S) == bus' = [s \in Sockets |-> IF s \in S THEN Append(bus[s], wake) ELSE bus[s]]

Publish ==
    /\ up /\ unpublished > 0
    /\ unpublished' = unpublished - 1
    /\ \/ send("envelopes", Sockets)
       \/ MayFail("bus") /\ UNCHANGED bus
    /\ UNCHANGED <<table, live, announcing, sock, check, pipe, net, acking, polled, up, calm>>

\* revokeSession, revokeAllSessions or the UPDATE of a device removal.
Revoke(X) ==
    /\ up /\ ~ calm /\ X # {}
    /\ \A x \in X : live[x]
    /\ live' = [x \in Sessions |-> live[x] /\ x \notin X]
    /\ announcing' = announcing \cup X
    /\ UNCHANGED <<table, unpublished, bus, sock, check, pipe, net, acking, polled, up, calm>>

\* announceRevocation; a publish that fails is logged and nothing more.
Announce(x) ==
    /\ up /\ x \in announcing
    /\ announcing' = announcing \ {x}
    /\ \/ send("revoked", {s \in Sockets : Session[s] = x})
       \/ MayFail("bus") /\ UNCHANGED bus
    /\ UNCHANGED <<table, live, unpublished, sock, check, pipe, net, acking, polled, up, calm>>

-----------------------------------------------------------------------------
(* The connection                                                          *)

\* The client presents its token; it does not know yet whether it still works.
\* A slot is free once nothing of its last connection is still awaited.
Connect(s) ==
    /\ up /\ sock[s] = "none"
    /\ draining[s] = "off" /\ acking[s] = {}
    /\ sock' = [sock EXCEPT ![s] = "resolving"]
    /\ UNCHANGED <<table, session, bus, check, pipe, net, acking, polled, up, calm>>

\* resolveSession reads the table, on opening and at every revalidation.
\* A revalidation the database refuses counts as a pass.
resolveSession(s) ==
    /\ check[s] = "none"
    /\ sock[s] \in {"resolving", "lost"} \/ listening(s)
    /\ check' = [check EXCEPT ![s] = IF live[Session[s]] THEN "good" ELSE "bad"]
    /\ UNCHANGED <<table, session, bus, sock, pipe, net, acking, polled, up, calm>>

resolveFails(s) ==
    /\ MayFail("database")
    /\ check[s] = "none"
    /\ \/ /\ sock[s] \in {"resolving", "lost"}
          /\ sock' = [sock EXCEPT ![s] = "none"]
          /\ UNCHANGED check
       \/ /\ listening(s)
          /\ check' = [check EXCEPT ![s] = "good"]
          /\ UNCHANGED sock
    /\ UNCHANGED <<table, session, bus, pipe, net, acking, polled, up, calm>>

\* The answer to the first resolveSession: subscribe and set the timer, also
\* when the client has hung up meanwhile, for that event has come and gone.
Attach(s) ==
    /\ sock[s] \in {"resolving", "lost"} /\ check[s] # "none"
    /\ sock' = [sock EXCEPT ![s] =
                  CASE check[s] = "bad"     -> "none"
                    [] sock[s] = "resolving" -> "opening"
                    [] OTHER                 -> "leaked"]
    /\ check' = [check EXCEPT ![s] = "none"]
    /\ UNCHANGED <<table, session, bus, pipe, net, acking, polled, up, calm>>

\* Mutant of Revalidated: only the announcement ends a connection.
RevalidatedLenient(s) ==
    /\ listening(s) /\ check[s] # "none"
    /\ check' = [check EXCEPT ![s] = "none"]
    /\ \/ /\ sock[s] = "opening"
          /\ sock' = [sock EXCEPT ![s] = "open"]
          /\ drain(s) /\ UNCHANGED batch
       \/ sock[s] # "opening" /\ UNCHANGED <<sock, pipe>>
    /\ UNCHANGED <<table, session, bus, net, acking, polled, up, calm>>

\* The answer to a revalidation.  The first one opens the pipe.
Revalidated(s) ==
    /\ listening(s) /\ check[s] # "none"
    /\ check' = [check EXCEPT ![s] = "none"]
    /\ \/ check[s] = "bad" /\ stop(s) /\ UNCHANGED pipe
       \/ /\ check[s] = "good" /\ sock[s] = "opening"
          /\ sock' = [sock EXCEPT ![s] = "open"]
          /\ drain(s) /\ UNCHANGED batch
       \/ check[s] = "good" /\ sock[s] # "opening" /\ UNCHANGED <<sock, pipe>>
    /\ UNCHANGED <<table, session, bus, net, acking, polled, up, calm>>

\* The bus listener; a wake for a connection that does not listen is dropped.
onWake(s) ==
    /\ bus[s] # <<>>
    /\ bus' = [bus EXCEPT ![s] = Tail(bus[s])]
    /\ \/ /\ listening(s) /\ Head(bus[s]) = "revoked"
          /\ stop(s) /\ UNCHANGED pipe
       \/ /\ listening(s) /\ Head(bus[s]) = "envelopes"
          /\ drain(s) /\ UNCHANGED <<sock, batch>>
       \/ ~ listening(s) /\ UNCHANGED <<sock, pipe>>
    /\ UNCHANGED <<table, session, check, net, acking, polled, up, calm>>

drainFetch(s) ==
    /\ draining[s] = "fetching"
    /\ batch' = [batch EXCEPT ![s] = fetch(queue)]
    /\ draining' = [draining EXCEPT ![s] = "fetched"]
    /\ UNCHANGED <<table, session, bus, sock, check, queuedWake, net, acking, polled, up, calm>>

\* The handler's catch: the drain ends, and a wake it had noted with it.
drainFails(s) ==
    /\ MayFail("database")
    /\ draining[s] = "fetching"
    /\ draining' = [draining EXCEPT ![s] = "off"]
    /\ queuedWake' = [queuedWake EXCEPT ![s] = FALSE]
    /\ UNCHANGED <<table, session, bus, sock, check, batch, net, acking, polled, up, calm>>

\* Mutant of drainSend: what was fetched is sent, whatever happened meanwhile.
drainSendUnchecked(s) ==
    /\ draining[s] = "fetched"
    /\ wire' = [wire EXCEPT ![s] = @ \cup batch[s]]
    /\ draining' = [draining EXCEPT ![s] = IF queuedWake[s] THEN "fetching" ELSE "off"]
    /\ queuedWake' = [queuedWake EXCEPT ![s] = FALSE]
    /\ batch' = [batch EXCEPT ![s] = {}]
    /\ UNCHANGED <<table, session, bus, sock, check, acks, acking, polled, up, calm>>

\* Back from the fetch: is there still somebody to send to?
drainSend(s) ==
    /\ draining[s] = "fetched"
    /\ wire' = [wire EXCEPT ![s] = @ \cup (IF canSend(s) THEN batch[s] ELSE {})]
    /\ draining' = [draining EXCEPT ![s] =
                      IF canSend(s) /\ queuedWake[s] THEN "fetching" ELSE "off"]
    /\ queuedWake' = [queuedWake EXCEPT ![s] = FALSE]
    /\ batch' = [batch EXCEPT ![s] = {}]
    /\ UNCHANGED <<table, session, bus, sock, check, acks, acking, polled, up, calm>>

\* An ack frame reaches the handler, which ignores it once the session ended.
onAck(s, n) ==
    /\ n \in acks[s] /\ sock[s] \in {"opening", "open", "stopped"}
    /\ acks' = [acks EXCEPT ![s] = @ \ {n}]
    /\ acking' = [acking EXCEPT ![s] = IF canSend(s) THEN @ \cup {n} ELSE @]
    /\ UNCHANGED <<table, session, bus, sock, check, pipe, wire, polled, up, calm>>

acknowledged(s, n) ==
    /\ n \in acking[s]
    /\ queue' = queue \ upTo(n)
    /\ acking' = [acking EXCEPT ![s] = @ \ {n}]
    /\ drain(s)
    /\ UNCHANGED <<last, seen, session, bus, sock, check, batch, net, polled, up, calm>>

-----------------------------------------------------------------------------
(* The process                                                             *)

Die ==
    /\ up' = FALSE
    /\ unpublished' = 0 /\ announcing' = {}
    /\ sock' = [s \in Sockets |-> "none"]
    /\ check' = [s \in Sockets |-> "none"]
    /\ draining' = [s \in Sockets |-> "off"]
    /\ batch' = [s \in Sockets |-> {}]
    /\ queuedWake' = [s \in Sockets |-> FALSE]
    /\ bus' = [s \in Sockets |-> <<>>]
    /\ wire' = [s \in Sockets |-> {}] /\ acks' = [s \in Sockets |-> {}]
    /\ acking' = [s \in Sockets |-> {}]
    /\ UNCHANGED <<last, queue, seen, live, polled, calm>>

\* The message listener is async and nothing catches a DELETE that the
\* database refuses: an unhandled rejection ends the process.
acknowledgeFails(s) ==
    /\ MayFail("database")
    /\ up /\ acking[s] # {}
    /\ Die

Restart ==
    /\ ~ up
    /\ up' = TRUE
    /\ UNCHANGED <<table, session, bus, sock, check, pipe, net, acking, polled, calm>>

-----------------------------------------------------------------------------
(* The app                                                                 *)

\* Frames are decrypted and filed, and acknowledged on the same socket
\* (Receiver.tla looks inside this step).
Receive(s) ==
    /\ wire[s] # {}
    /\ seen' = seen \cup wire[s]
    /\ acks' = [acks EXCEPT ![s] = @ \cup {newest(wire[s])}]
    /\ wire' = [wire EXCEPT ![s] = {}]
    /\ UNCHANGED <<last, queue, session, bus, sock, check, pipe, acking, polled, up, calm>>

\* The network drops the connection, or the client closes a stopped one.
\* A DELETE already under way is not called back.
Close(s) ==
    /\ sock[s] \in {"resolving", "opening", "open", "stopped"}
    /\ MayFail("network") \/ (sock[s] = "stopped" /\ wire[s] = {} /\ acks[s] = {})
    /\ sock' = [sock EXCEPT ![s] = IF sock[s] = "resolving" THEN "lost" ELSE "none"]
    /\ check' = [check EXCEPT ![s] = IF sock[s] = "resolving" THEN @ ELSE "none"]
    /\ wire' = [wire EXCEPT ![s] = {}]
    /\ acks' = [acks EXCEPT ![s] = {}]
    /\ UNCHANGED <<table, session, bus, pipe, acking, polled, up, calm>>

\* GET /v1/messages ...
Poll ==
    /\ up /\ polled = {} /\ queue # {}
    /\ \E x \in Sessions : live[x]
    /\ polled' = fetch(queue)
    /\ seen' = seen \cup fetch(queue)
    /\ UNCHANGED <<last, queue, session, bus, sock, check, pipe, net, acking, up, calm>>

\* Mutant of PollAck: the poll leaves acknowledging to the socket.
PollAckForgotten ==
    /\ up /\ polled # {}
    /\ \E x \in Sessions : live[x]
    /\ polled' = {}
    /\ UNCHANGED <<table, session, bus, sock, check, pipe, net, acking, up, calm>>

\* ... and DELETE once they are filed.
PollAck ==
    /\ up /\ polled # {}
    /\ \E x \in Sessions : live[x]
    /\ queue' = queue \ upTo(newest(polled))
    /\ polled' = {}
    /\ UNCHANGED <<last, seen, session, bus, sock, check, pipe, net, acking, up, calm>>

PollAckLost ==
    /\ MayFail("network")
    /\ polled # {}
    /\ polled' = {}
    /\ UNCHANGED <<table, session, bus, sock, check, pipe, net, acking, up, calm>>

-----------------------------------------------------------------------------
(* Behaviours                                                              *)

Init ==
    /\ last = 0 /\ queue = {} /\ seen = {} /\ polled = {}
    /\ live = [x \in Sessions |-> TRUE]
    /\ unpublished = 0 /\ announcing = {}
    /\ bus = [s \in Sockets |-> <<>>]
    /\ sock = [s \in Sockets |-> "none"]
    /\ check = [s \in Sockets |-> "none"]
    /\ draining = [s \in Sockets |-> "off"]
    /\ batch = [s \in Sockets |-> {}]
    /\ queuedWake = [s \in Sockets |-> FALSE]
    /\ wire = [s \in Sockets |-> {}]
    /\ acks = [s \in Sockets |-> {}]
    /\ acking = [s \in Sockets |-> {}]
    /\ up = TRUE /\ calm \in BOOLEAN

SomeAck(s) == \E n \in Ids : onAck(s, n)
SomeAcknowledged(s) == \E n \in Ids : acknowledged(s, n)

SocketStep(s) ==
    \/ Connect(s) \/ resolveSession(s) \/ resolveFails(s) \/ Attach(s)
    \/ Revalidated(s) \/ onWake(s) \/ Close(s) \/ Receive(s)
    \/ drainFetch(s) \/ drainFails(s) \/ drainSend(s)
    \/ SomeAck(s) \/ SomeAcknowledged(s) \/ acknowledgeFails(s)

Next ==
    \/ Store \/ Publish
    \/ \E X \in SUBSET Revocable : Revoke(X)
    \/ \E x \in Sessions : Announce(x)
    \/ \E s \in Sockets : SocketStep(s)
    \/ Restart
    \/ Poll \/ PollAck \/ PollAckLost

Spec == Init /\ [][Next]_vars

\* The server's event loop and the client's get round to what is waiting for
\* them; the revalidation timer keeps firing and the database does not refuse
\* for ever.  Nothing obliges anybody to store, to end a session or to poll.
FairSocket(s) ==
    /\ WF_vars(Connect(s)) /\ SF_vars(resolveSession(s))
    /\ WF_vars(Attach(s)) /\ WF_vars(Revalidated(s))
    /\ WF_vars(onWake(s)) /\ WF_vars(Receive(s))
    /\ WF_vars(drainFetch(s)) /\ WF_vars(drainSend(s))
    /\ WF_vars(SomeAck(s)) /\ WF_vars(SomeAcknowledged(s))

FairPush == WF_vars(Publish) /\ \A s \in Sockets : FairSocket(s)

\* The client's timer polls whether or not a socket looks alive, and the
\* server is restarted; a request repeated often enough gets through.  While
\* nothing fails the poll is not obliged to run: the socket has to do.
FairPoll ==
    /\ WF_vars(Restart)
    /\ SF_vars(~ calm /\ Poll) /\ SF_vars(~ calm /\ PollAck)

LiveSpec == Spec /\ FairPush /\ FairPoll

-----------------------------------------------------------------------------
(* Properties                                                              *)

PerSocket(T) == [Sockets -> T]

TypeOK ==
    /\ last \in 0..MaxId
    /\ queue \subseteq 1..last /\ seen \subseteq 1..last /\ polled \subseteq 1..last
    /\ live \in [Sessions -> BOOLEAN]
    /\ unpublished \in 0..MaxId /\ announcing \subseteq Sessions
    /\ bus \in PerSocket(Seq({"envelopes", "revoked"}))
    /\ sock \in PerSocket({"none", "resolving", "lost", "leaked", "opening", "open", "stopped"})
    /\ check \in PerSocket({"none", "good", "bad"})
    /\ draining \in PerSocket({"off", "fetching", "fetched"})
    /\ batch \in PerSocket(SUBSET (1..last))
    /\ queuedWake \in PerSocket(BOOLEAN)
    /\ wire \in PerSocket(SUBSET (1..last))
    /\ acks \in PerSocket(SUBSET (1..last))
    /\ acking \in PerSocket(SUBSET (1..last))
    /\ up \in BOOLEAN /\ calm \in BOOLEAN

\* A row leaves the queue only after the device received it, whichever of its
\* sockets or polls the acknowledgement came from, and whatever was lost,
\* repeated or overtaken on the way: acknowledgements are cumulative, and every
\* frame and every poll starts at the oldest row there is.
RemovedWasReceived == (1..last) \ queue \subseteq seen

\* Once a connection has been told that its session ended, it writes no more
\* envelopes and starts no more deletions, even from a fetch or a frame that
\* was under way when it was told.
StoppedStaysSilent ==
    [][\A s \in Sockets : sock[s] = "stopped" =>
          wire'[s] \subseteq wire[s] /\ acking'[s] \subseteq acking[s]]_vars

\* With nothing failing, a stored row reaches the device through the socket
\* alone: no wake is lost to a drain that was running, to a connection that
\* was just opening, or to a queue longer than one frame.
EveryRowIsPushed == \A r \in Ids : (calm /\ r \in queue) ~> (r \in seen)

\* With everything failing now and then, the fallback poll still gets every
\* row to a device that has a session left.
EveryRowArrives ==
    \A r \in Ids :
        (~ calm /\ r \in queue) ~> (r \in seen \/ \A x \in Sessions : ~ live[x])

\* A session that ended loses its connections, be the announcement lost and
\* the database away for a while: the revalidation timer sees to it.
RevokedIsCut ==
    \A s \in Sockets : (~ live[Session[s]]) ~> (~ listening(s))
=============================================================================
