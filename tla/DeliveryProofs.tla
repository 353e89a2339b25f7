--------------------------- MODULE DeliveryProofs ---------------------------
(***************************************************************************)
(* What Delivery.tla keeps for every set of accounts, devices, messages    *)
(* and concurrent requests.  The inductive invariant is made of parts, and *)
(* each is proved with the help of those before it:                        *)
(*                                                                         *)
(*   TypeOK    the types;                                                  *)
(*   Carried   what a handler holds fits where it is in its request;       *)
(*   Ids       a row's id is its own, in and out of the table;             *)
(*   Once      a claimed key keeps every other attempt out;                *)
(*   Order     a row that was passed over was late or out of time;         *)
(*   Placed    a fan-out has its rows by the time it is answered.          *)
(***************************************************************************)
EXTENDS Delivery, FiniteSetTheorems, TLAPS

\* A handler past Ask holds a message, one that claims holds a keyed one, and an
\* open INSERT has one row per device, of the message the handler is sending.
Carried ==
    \A h \in Handlers :
        /\ pc[h] # "idle" => sending[h] \in Messages
        /\ pc[h] = "claiming" => sending[h] \in Keyed
        /\ pc[h] # "committing" => drawn[h] = {}
        /\ \A r \in drawn[h] : r.message = sending[h]
        /\ \A r, q \in drawn[h] : r.device = q.device => r = q

\* The sequence gives every row, committed or in an open INSERT, an id of its own.
Ids ==
    /\ envelopes \subseteq stored
    /\ handed \subseteq stored
    /\ \A r \in stored : r.id <= sequence
    /\ \A r, q \in stored : r.id = q.id => r = q
    /\ \A h \in Handlers : \A r \in drawn[h] :
          /\ r.id <= sequence
          /\ \A q \in stored : r.id # q.id
          /\ \A t \in Handlers : \A q \in drawn[t] : r.id = q.id => h = t /\ r = q

\* Past its claim, not yet committed, and still remembered.
Holding(h) ==
    /\ pc[h] \in {"inserting", "committing"}
    /\ sending[h] \in Keyed \ forgotten

\* The primary key of sent_message_keys is the lock: of a remembered key there is
\* one holder at most, and none once a row of the message is stored.
Once ==
    /\ \A r \in stored : r.message \in Keyed \ forgotten => r.message \in keys
    /\ \A h \in Handlers : Holding(h) =>
          /\ sending[h] \in keys
          /\ \A r \in stored : r.message # sending[h]
          /\ \A t \in Handlers : Holding(t) /\ sending[t] = sending[h] => t = h

\* A queued row older than one its device was handed was handed too, unless it
\* committed late or ran out of time.
Order ==
    \A r \in envelopes, q \in handed :
        (r.device = q.device /\ r.id < q.id) => r \in handed \cup late \cup expired

\* Rows for each device of the fan-out: drawn, then stored.
Placed ==
    \A h \in Handlers :
        /\ pc[h] \in {"asked", "listing"} => fanout[h] = {}
        /\ pc[h] = "committing" =>
              \A d \in fanout[h] : \E r \in drawn[h] : r.device = d
        /\ pc[h] = "publishing" /\ sending[h] \notin Ephemeral =>
              \A d \in fanout[h] : \E r \in stored : r.device = d /\ r.message = sending[h]
        /\ pc[h] # "answered" => reply[h] = "none"

-----------------------------------------------------------------------------
(* Ids drawn for an INSERT                                                 *)

\* A fan-out is finite, so the number of ids it draws is a natural number.
LEMMA FanoutSize ==
  ASSUME TypeOK, NEW h \in Handlers
  PROVE  Cardinality(fanout[h]) \in Nat
<1>1. fanout[h] \subseteq Devices
  BY DEF TypeOK
<1>2. IsFiniteSet(fanout[h])
  BY <1>1, FS_Subset, DeliveryAssumption DEF DeliveryAssumption
<1> QED
  BY <1>2, FS_CardinalityType

\* What an INSERT draws: rows of its own message for devices of its fan-out,
\* one per device, under ids nobody drew before and that differ pairwise.
LEMMA DrawnRows ==
  ASSUME TypeOK, Carried, NEW h \in Handlers, BeginInsert(h)
  PROVE  /\ sequence' \in Nat /\ sequence' <= MaxId /\ sequence <= sequence'
         /\ drawn' = [drawn EXCEPT ![h] = drawn'[h]]
         /\ drawn'[h] \subseteq Row
         /\ \A r \in drawn'[h] : sequence < r.id /\ r.id <= sequence'
         /\ \A r \in drawn'[h] : r.message = sending[h]
         /\ \A r, q \in drawn'[h] : r.device = q.device => r = q
         /\ \A r, q \in drawn'[h] : r.id = q.id => r = q
         /\ \A d \in fanout[h] : \E r \in drawn'[h] : r.device = d
<1> DEFINE n == Cardinality(fanout[h])
<1>1. n \in Nat
  BY FanoutSize
<1>2. /\ sequence \in Nat /\ MaxId \in Nat
      /\ sending[h] \in Messages
      /\ fanout[h] \subseteq Devices
      /\ drawn \in [Handlers -> SUBSET Row]
  BY DeliveryAssumption DEF DeliveryAssumption, TypeOK, Carried, BeginInsert
<1>3. sequence' = sequence + n /\ sequence + n <= MaxId
  BY DEF BeginInsert
<1>4. PICK id \in [fanout[h] -> (sequence + 1)..(sequence + n)] :
        /\ \A d, e \in fanout[h] : id[d] = id[e] => d = e
        /\ drawn' = [drawn EXCEPT ![h] =
             {[id |-> id[d], device |-> d, message |-> sending[h]] : d \in fanout[h]}]
  BY DEF BeginInsert
<1>5. drawn'[h] = {[id |-> id[d], device |-> d, message |-> sending[h]] : d \in fanout[h]}
  BY <1>2, <1>4
<1>6. \A d \in fanout[h] : id[d] \in Nat /\ sequence < id[d] /\ id[d] <= sequence + n
  BY <1>1, <1>2, <1>4
<1>7. drawn'[h] \subseteq Row
  BY <1>1, <1>2, <1>3, <1>5, <1>6 DEF Row
<1>8. ASSUME NEW d \in fanout[h] PROVE \E r \in drawn'[h] : r.device = d
  <2>1. [id |-> id[d], device |-> d, message |-> sending[h]] \in drawn'[h]
    BY <1>5
  <2> QED
    BY <2>1
<1>9. /\ \A r \in drawn'[h] : sequence < r.id /\ r.id <= sequence'
      /\ \A r \in drawn'[h] : r.message = sending[h]
      /\ \A r, q \in drawn'[h] : r.device = q.device => r = q
      /\ \A r, q \in drawn'[h] : r.id = q.id => r = q
  BY <1>1, <1>2, <1>3, <1>4, <1>5, <1>6
<1> QED
  BY <1>1, <1>2, <1>3, <1>4, <1>5, <1>7, <1>8, <1>9

-----------------------------------------------------------------------------
(* Types                                                                   *)

\* The empty tables and idle handlers have their types.
LEMMA TypeInit == Init => TypeOK
  BY DeliveryAssumption DEF Init, TypeOK, DeliveryAssumption

\* Every handler, device and sweep step keeps the types.
LEMMA TypeStep == TypeOK /\ Carried /\ [Next]_vars => TypeOK'
<1> SUFFICES ASSUME TypeOK, Carried, [Next]_vars PROVE TypeOK'
  OBVIOUS
<1> USE DEF TypeOK
<1>1. ASSUME NEW h \in Handlers, NEW m \in Messages, Ask(h, m) PROVE TypeOK'
  BY <1>1 DEF Ask, tables, history
<1>2. ASSUME NEW h \in Handlers, Screen(h) PROVE TypeOK'
  BY <1>2 DEF Screen, answer, tables, history
<1>3. ASSUME NEW h \in Handlers, ReadDevices(h) PROVE TypeOK'
  <2>1. expectedDevices(sending[h]) \subseteq Devices
    BY DEF expectedDevices, activeDeviceIds
  <2> QED
    BY <1>3, <2>1 DEF ReadDevices, tables, history
<1>4. ASSUME NEW h \in Handlers, Refuse(h) \/ Fail(h) PROVE TypeOK'
  BY <1>4 DEF Refuse, Fail, abandon, tables, history
<1>5. ASSUME NEW h \in Handlers, claimIdempotencyKey(h) PROVE TypeOK'
  <2>1. sending[h] \in Keyed
    BY <1>5 DEF claimIdempotencyKey, Carried
  <2> QED
    BY <1>5, <2>1 DEF claimIdempotencyKey, answer, history
<1>6. ASSUME NEW h \in Handlers, BeginInsert(h) PROVE TypeOK'
  <2>1. sequence' \in 0..MaxId /\ drawn' \in [Handlers -> SUBSET Row]
    BY <1>6, DrawnRows, DeliveryAssumption DEF DeliveryAssumption
  <2> QED
    BY <1>6, <2>1 DEF BeginInsert, history
<1>7. ASSUME NEW h \in Handlers, SkipInsert(h) PROVE TypeOK'
  BY <1>7 DEF SkipInsert, tables, history
<1>8. ASSUME NEW h \in Handlers, CommitInsert(h) PROVE TypeOK'
  BY <1>8 DEF CommitInsert
<1>9. ASSUME NEW h \in Handlers, Accept(h) PROVE TypeOK'
  BY <1>9 DEF Accept, answer, tables, history
<1>10. ASSUME NEW d \in Devices, fetch(d) PROVE TypeOK'
  BY <1>10 DEF fetch, live, tables, requests
<1>11. ASSUME NEW d \in Devices, acknowledge(d) PROVE TypeOK'
  BY <1>11 DEF acknowledge, upTo, requests
<1>12. ASSUME NEW d \in Devices, registerDevice(d) \/ revokeDevice(d) \/ purgeQueue(d)
       PROVE  TypeOK'
  BY <1>12 DEF registerDevice, revokeDevice, purgeQueue, requests, history
<1>13. ASSUME NEW r \in envelopes \cup inFlight, TimerRunsOut(r) PROVE TypeOK'
  <2>1. r \in Row
    BY DEF inFlight
  <2> QED
    BY <1>13, <2>1 DEF TimerRunsOut, requests, history
<1>14. CASE sweepEnvelopes
  BY <1>14 DEF sweepEnvelopes, requests
<1>15. CASE sweepKeys
  BY <1>15 DEF sweepKeys, requests
<1>16. ASSUME NEW a \in Joinable, changeMembership(a) PROVE TypeOK'
  BY <1>16, DeliveryAssumption DEF changeMembership, DeliveryAssumption, requests, history
<1>17. ASSUME NEW p \in Blockable, changeBlock(p[1], p[2]) PROVE TypeOK'
  <2>1. <<p[1], p[2]>> \in Accounts \X Accounts
    BY DeliveryAssumption DEF DeliveryAssumption
  <2> QED
    BY <1>17, <2>1 DEF changeBlock, requests, history
<1>18. CASE UNCHANGED vars
  BY <1>18 DEF vars
<1> QED
  BY <1>1, <1>2, <1>3, <1>4, <1>5, <1>6, <1>7, <1>8, <1>9, <1>10, <1>11, <1>12,
     <1>13, <1>14, <1>15, <1>16, <1>17, <1>18
  DEF Next, HandlerStep, DeviceStep, RetentionStep

-----------------------------------------------------------------------------
(* What a handler carries                                                  *)

\* Idle handlers carry nothing.
LEMMA CarriedInit == Init => Carried
  BY DEF Init, Carried

\* A handler changes what it carries only as it moves on.
LEMMA CarriedStep == TypeOK /\ Carried /\ [Next]_vars => Carried'
<1> SUFFICES ASSUME TypeOK, Carried, [Next]_vars PROVE Carried'
  OBVIOUS
<1> USE DEF Carried
<1>1. ASSUME NEW h \in Handlers, NEW m \in Messages, Ask(h, m) PROVE Carried'
  BY <1>1 DEF Ask, Free, TypeOK
<1>2. ASSUME NEW h \in Handlers, Screen(h) PROVE Carried'
  BY <1>2 DEF Screen, answer, TypeOK
<1>3. ASSUME NEW h \in Handlers, ReadDevices(h) PROVE Carried'
  BY <1>3 DEF ReadDevices, TypeOK
<1>4. ASSUME NEW h \in Handlers, Refuse(h) \/ Fail(h) PROVE Carried'
  BY <1>4 DEF Refuse, Fail, abandon, TypeOK
<1>5. ASSUME NEW h \in Handlers, claimIdempotencyKey(h) PROVE Carried'
  BY <1>5 DEF claimIdempotencyKey, answer, TypeOK
<1>6. ASSUME NEW h \in Handlers, BeginInsert(h) PROVE Carried'
  <2>1. /\ drawn' = [drawn EXCEPT ![h] = drawn'[h]]
        /\ \A r \in drawn'[h] : r.message = sending[h]
        /\ \A r, q \in drawn'[h] : r.device = q.device => r = q
    BY <1>6, DrawnRows
  <2>2. pc' = [pc EXCEPT ![h] = "committing"] /\ UNCHANGED sending
    BY <1>6 DEF BeginInsert
  <2>3. pc[h] = "inserting"
    BY <1>6 DEF BeginInsert
  <2>4. /\ \A t \in Handlers \ {h} : pc'[t] = pc[t] /\ drawn'[t] = drawn[t]
        /\ pc'[h] = "committing"
    BY <2>1, <2>2 DEF TypeOK
  <2> QED
    BY <2>1, <2>2, <2>3, <2>4
<1>7. ASSUME NEW h \in Handlers, SkipInsert(h) PROVE Carried'
  BY <1>7 DEF SkipInsert, TypeOK
<1>8. ASSUME NEW h \in Handlers, CommitInsert(h) PROVE Carried'
  BY <1>8 DEF CommitInsert, TypeOK
<1>9. ASSUME NEW h \in Handlers, Accept(h) PROVE Carried'
  BY <1>9 DEF Accept, answer, TypeOK
<1>10. ASSUME UNCHANGED requests PROVE Carried'
  BY <1>10 DEF requests
<1> QED
  BY <1>1, <1>2, <1>3, <1>4, <1>5, <1>6, <1>7, <1>8, <1>9, <1>10
  DEF Next, HandlerStep, DeviceStep, RetentionStep, fetch, acknowledge, registerDevice,
      revokeDevice, purgeQueue, TimerRunsOut, sweepEnvelopes, sweepKeys,
      changeMembership, changeBlock, vars, requests

-----------------------------------------------------------------------------
(* Ids                                                                     *)

\* No row, no id.
LEMMA IdsInit == Init => Ids
  BY DEF Init, Ids

\* Ids stay apart: BeginInsert draws above the sequence, CommitInsert moves
\* rows over, and nothing else makes one.
LEMMA IdsStep == TypeOK /\ Carried /\ Ids /\ [Next]_vars => Ids'
<1> SUFFICES ASSUME TypeOK, Carried, Ids, [Next]_vars PROVE Ids'
  OBVIOUS
<1>a. /\ sequence \in Nat
      /\ \A r \in Row : r.id \in Nat
      /\ stored \subseteq Row
      /\ drawn \in [Handlers -> SUBSET Row]
  BY DEF TypeOK, Row
<1>1. ASSUME NEW h \in Handlers, BeginInsert(h) PROVE Ids'
  <2>1. /\ sequence' \in Nat /\ sequence <= sequence'
        /\ drawn' = [drawn EXCEPT ![h] = drawn'[h]]
        /\ drawn'[h] \subseteq Row
        /\ \A r \in drawn'[h] : sequence < r.id /\ r.id <= sequence'
        /\ \A r, q \in drawn'[h] : r.id = q.id => r = q
    BY <1>1, DrawnRows
  <2>2. UNCHANGED <<envelopes, stored, handed>>
    BY <1>1 DEF BeginInsert, history
  <2>3. \A t \in Handlers \ {h} : drawn'[t] = drawn[t]
    BY <2>1, <1>a
  <2>4. \A r \in stored : r.id <= sequence'
    BY <2>1, <1>a DEF Ids
  <2>5. ASSUME NEW t \in Handlers, NEW r \in drawn'[t]
        PROVE  r.id <= sequence' /\ \A q \in stored : r.id # q.id
    <3>1. CASE t = h
      BY <3>1, <2>1, <1>a DEF Ids
    <3>2. CASE t # h
      BY <3>2, <2>1, <2>3, <1>a DEF Ids
    <3> QED
      BY <3>1, <3>2
  <2>6. ASSUME NEW t \in Handlers, NEW r \in drawn'[t],
               NEW u \in Handlers, NEW q \in drawn'[u], r.id = q.id
        PROVE  t = u /\ r = q
    <3>1. CASE t = h /\ u = h
      BY <3>1, <2>6, <2>1
    <3>2. CASE t # h /\ u # h
      BY <3>2, <2>6, <2>3 DEF Ids
    <3>3. CASE (t = h /\ u # h) \/ (t # h /\ u = h)
      BY <3>3, <2>6, <2>1, <2>3, <1>a DEF Ids
    <3> QED
      BY <3>1, <3>2, <3>3
  <2> QED
    BY <2>2, <2>4, <2>5, <2>6 DEF Ids
<1>2. ASSUME NEW h \in Handlers, CommitInsert(h) PROVE Ids'
  <2>1. /\ stored' = stored \cup drawn[h]
        /\ envelopes' = envelopes \cup drawn[h]
        /\ drawn' = [drawn EXCEPT ![h] = {}]
        /\ UNCHANGED <<sequence, handed>>
    BY <1>2 DEF CommitInsert
  <2>2. \A t \in Handlers : drawn'[t] = IF t = h THEN {} ELSE drawn[t]
    BY <2>1, <1>a
  <2> QED
    BY <2>1, <2>2 DEF Ids
<1>3. ASSUME NEW h \in Handlers, Refuse(h) \/ Fail(h) PROVE Ids'
  <2>1. /\ drawn' = [drawn EXCEPT ![h] = {}]
        /\ UNCHANGED <<sequence, envelopes, stored, handed>>
    BY <1>3 DEF Refuse, Fail, abandon, tables, history
  <2>2. \A t \in Handlers : drawn'[t] \subseteq drawn[t]
    BY <2>1, <1>a
  <2> QED
    BY <2>1, <2>2 DEF Ids
<1>4. ASSUME NEW d \in Devices, fetch(d) PROVE Ids'
  BY <1>4 DEF fetch, live, tables, requests, Ids
<1>5. ASSUME envelopes' \subseteq envelopes,
             UNCHANGED <<sequence, drawn, stored, handed>>
      PROVE  Ids'
  BY <1>5 DEF Ids
<1>6. ASSUME NEW h \in Handlers, NEW m \in Messages,
             \/ Ask(h, m) \/ Screen(h) \/ ReadDevices(h) \/ claimIdempotencyKey(h)
             \/ SkipInsert(h) \/ Accept(h)
      PROVE  Ids'
  BY <1>5, <1>6 DEF Ask, Screen, ReadDevices, claimIdempotencyKey, SkipInsert, Accept,
     tables, history
<1>7. ASSUME NEW d \in Devices,
             acknowledge(d) \/ registerDevice(d) \/ revokeDevice(d) \/ purgeQueue(d)
      PROVE  Ids'
  BY <1>5, <1>7 DEF acknowledge, registerDevice, revokeDevice, purgeQueue, requests, history
<1>8. ASSUME NEW r, NEW a, NEW b,
             \/ TimerRunsOut(r) \/ sweepEnvelopes \/ sweepKeys
             \/ changeMembership(a) \/ changeBlock(a, b) \/ UNCHANGED vars
      PROVE  Ids'
  BY <1>5, <1>8 DEF TimerRunsOut, sweepEnvelopes, sweepKeys, changeMembership,
     changeBlock, requests, history, vars
<1>9. ASSUME NEW h \in Handlers, HandlerStep(h) PROVE Ids'
  <2>1. Screen(h) \/ ReadDevices(h) \/ claimIdempotencyKey(h) \/ SkipInsert(h) \/ Accept(h)
          => UNCHANGED <<envelopes, sequence, drawn, stored, handed>>
    BY DEF Screen, ReadDevices, claimIdempotencyKey, SkipInsert, Accept, tables, history
  <2> QED
    BY <1>1, <1>2, <1>3, <1>5, <1>6, <1>9, <2>1 DEF HandlerStep
<1> QED
  BY <1>4, <1>7, <1>8, <1>9 DEF Next, DeviceStep, RetentionStep

-----------------------------------------------------------------------------
(* Idempotency                                                             *)

\* No key is claimed at first.
LEMMA OnceInit == Init => Once
  BY DEF Init, Once, Holding

\* claimIdempotencyKey lets one attempt in, and sweepKeys takes no key in use.
LEMMA OnceStep == TypeOK /\ Carried /\ Once /\ [Next]_vars => Once'
<1> SUFFICES ASSUME TypeOK, Carried, Once, [Next]_vars PROVE Once'
  OBVIOUS
<1>1. ASSUME UNCHANGED <<stored, keys, forgotten>>,
             \A t \in Handlers : Holding(t)' => Holding(t) /\ sending'[t] = sending[t]
      PROVE  Once'
  BY <1>1 DEF Once
<1>2. ASSUME UNCHANGED <<stored, keys, forgotten, pc, sending>> PROVE Once'
  BY <1>1, <1>2 DEF Holding
<1>3. ASSUME NEW h \in Handlers, NEW m \in Messages, Ask(h, m) PROVE Once'
  BY <1>1, <1>3 DEF Ask, Free, Holding, tables, history, TypeOK
<1>4. ASSUME NEW h \in Handlers, Screen(h) PROVE Once'
  BY <1>1, <1>4 DEF Screen, answer, Holding, tables, history, TypeOK
<1>5. ASSUME NEW h \in Handlers, ReadDevices(h) PROVE Once'
  <2>1. sending[h] \in Keyed => pc'[h] = "claiming"
    BY <1>5 DEF ReadDevices, TypeOK
  <2>2. ASSUME NEW t \in Handlers, Holding(t)'
        PROVE  Holding(t) /\ sending'[t] = sending[t]
    <3>1. CASE t = h
      BY <1>5, <2>1, <2>2, <3>1 DEF ReadDevices, Holding, tables, history
    <3>2. CASE t # h
      BY <1>5, <2>2, <3>2 DEF ReadDevices, Holding, tables, history, TypeOK
    <3> QED
      BY <3>1, <3>2
  <2> QED
    BY <1>1, <1>5, <2>2 DEF ReadDevices, tables, history
<1>6. ASSUME NEW h \in Handlers, Refuse(h) \/ Fail(h) PROVE Once'
  BY <1>1, <1>6 DEF Refuse, Fail, abandon, Holding, tables, history, TypeOK
<1>7. ASSUME NEW h \in Handlers, claimIdempotencyKey(h) PROVE Once'
  <2>1. CASE sending[h] \in keys
    BY <1>1, <1>7, <2>1 DEF claimIdempotencyKey, answer, Holding, history, TypeOK
  <2>2. CASE sending[h] \notin keys
    <3>1. /\ keys' = keys \cup {sending[h]}
          /\ pc' = [pc EXCEPT ![h] = "inserting"]
          /\ UNCHANGED <<sending, stored, forgotten>>
      BY <1>7, <2>2 DEF claimIdempotencyKey, answer, history
    <3>2. \A t \in Handlers \ {h} : Holding(t)' <=> Holding(t)
      BY <3>1 DEF Holding, TypeOK
    <3>3. \A t \in Handlers : Holding(t) => sending[t] # sending[h]
      BY <2>2 DEF Once
    <3>4. \A r \in stored : r.message \in Keyed \ forgotten => r.message # sending[h]
      BY <2>2 DEF Once
    <3>5. Holding(h)' => sending[h] \in Keyed \ forgotten
      BY <3>1 DEF Holding
    <3> QED
      BY <3>1, <3>2, <3>3, <3>4, <3>5 DEF Once
  <2> QED
    BY <2>1, <2>2
<1>8. ASSUME NEW h \in Handlers, BeginInsert(h) PROVE Once'
  BY <1>1, <1>8 DEF BeginInsert, Holding, history, TypeOK
<1>9. ASSUME NEW h \in Handlers, SkipInsert(h) PROVE Once'
  BY <1>1, <1>9 DEF SkipInsert, Holding, tables, history, TypeOK
<1>10. ASSUME NEW h \in Handlers, CommitInsert(h) PROVE Once'
  <2>1. /\ pc[h] = "committing"
        /\ stored' = stored \cup drawn[h]
        /\ pc' = [pc EXCEPT ![h] = "publishing"]
        /\ UNCHANGED <<keys, sending, forgotten>>
    BY <1>10 DEF CommitInsert
  <2>2. \A r \in drawn[h] : r.message = sending[h]
    BY DEF Carried
  <2>3. \A t \in Handlers : Holding(t)' => Holding(t) /\ t # h
    BY <2>1 DEF Holding, TypeOK
  <2>4. \A t \in Handlers \ {h} :
           Holding(t) /\ Holding(h) => sending[t] # sending[h]
    BY DEF Once
  <2>5. sending[h] \in Keyed \ forgotten => Holding(h)
    BY <2>1 DEF Holding
  <2>6. \A t \in Handlers \ {h} : Holding(t) => sending[t] # sending[h]
    BY <2>4, <2>5 DEF Holding
  <2> QED
    BY <2>1, <2>2, <2>3, <2>5, <2>6 DEF Once
<1>11. ASSUME NEW h \in Handlers, Accept(h) PROVE Once'
  BY <1>1, <1>11 DEF Accept, answer, Holding, tables, history, TypeOK
<1>12. CASE sweepKeys
  <2>1. PICK K \in SUBSET keys :
          /\ keys' = keys \ K
          /\ forgotten' = forgotten \cup K
    BY <1>12 DEF sweepKeys
  <2>2. UNCHANGED <<stored, pc, sending>>
    BY <1>12 DEF sweepKeys, requests
  <2>3. \A t \in Handlers : Holding(t)' => Holding(t)
    BY <2>1, <2>2 DEF Holding
  <2>4. \A t \in Handlers : Holding(t)' => sending[t] \notin K
    BY <2>1, <2>2 DEF Holding
  <2> QED
    BY <2>1, <2>2, <2>3, <2>4 DEF Once
<1>13. ASSUME NEW d \in Devices, DeviceStep(d) PROVE Once'
  BY <1>2, <1>13 DEF DeviceStep, fetch, acknowledge, registerDevice, revokeDevice,
     purgeQueue, tables, requests, history
<1>14. ASSUME NEW r, NEW a, NEW b,
              \/ TimerRunsOut(r) \/ sweepEnvelopes
              \/ changeMembership(a) \/ changeBlock(a, b) \/ UNCHANGED vars
       PROVE  Once'
  BY <1>2, <1>14 DEF TimerRunsOut, sweepEnvelopes, changeMembership, changeBlock,
     requests, history, vars
<1> QED
  BY <1>3, <1>4, <1>5, <1>6, <1>7, <1>8, <1>9, <1>10, <1>11, <1>12, <1>13, <1>14
  DEF Next, HandlerStep, RetentionStep

\* CommitInsert adds rows of a message that has none while its key is remembered.
LEMMA AtMostOnceStep ==
  TypeOK /\ Carried /\ Once /\ AtMostOnce /\ [Next]_vars => AtMostOnce'
<1> SUFFICES ASSUME TypeOK, Carried, Once, AtMostOnce, [Next]_vars
             PROVE  AtMostOnce'
  OBVIOUS
<1>1. ASSUME UNCHANGED stored, forgotten \subseteq forgotten' PROVE AtMostOnce'
  BY <1>1 DEF AtMostOnce
<1>2. ASSUME NEW h \in Handlers, CommitInsert(h) PROVE AtMostOnce'
  <2>1. /\ pc[h] = "committing"
        /\ stored' = stored \cup drawn[h]
        /\ UNCHANGED forgotten
    BY <1>2 DEF CommitInsert
  <2>2. ASSUME NEW r \in drawn[h], r.message \in Keyed \ forgotten
        PROVE  \A q \in stored : q.message # r.message
    BY <2>1, <2>2 DEF Carried, Once, Holding
  <2>3. \A r, q \in drawn[h] : r.device = q.device => r = q
    BY DEF Carried
  <2> QED
    BY <2>1, <2>2, <2>3 DEF AtMostOnce
<1>3. ASSUME NEW h \in Handlers, HandlerStep(h), ~ CommitInsert(h) PROVE AtMostOnce'
  BY <1>1, <1>3 DEF HandlerStep, Ask, Screen, ReadDevices, Refuse, claimIdempotencyKey,
     BeginInsert, SkipInsert, Accept, Fail, history
<1>4. ASSUME NEW d \in Devices, DeviceStep(d) PROVE AtMostOnce'
  BY <1>1, <1>4 DEF DeviceStep, fetch, acknowledge, registerDevice, revokeDevice,
     purgeQueue, history
<1>5. ASSUME NEW r, NEW a, NEW b,
             \/ TimerRunsOut(r) \/ sweepEnvelopes \/ sweepKeys
             \/ changeMembership(a) \/ changeBlock(a, b) \/ UNCHANGED vars
      PROVE  AtMostOnce'
  BY <1>1, <1>5 DEF TimerRunsOut, sweepEnvelopes, sweepKeys, changeMembership,
     changeBlock, history, vars
<1> QED
  BY <1>2, <1>3, <1>4, <1>5 DEF Next, RetentionStep

-----------------------------------------------------------------------------
(* Passing over                                                            *)

\* Nothing was handed out yet.
LEMMA OrderInit == Init => Order
  BY DEF Init, Order

\* fetch hands out the oldest live rows, and CommitInsert names its late ones.
LEMMA OrderStep == TypeOK /\ Ids /\ Order /\ [Next]_vars => Order'
<1> SUFFICES ASSUME TypeOK, Ids, Order, [Next]_vars PROVE Order'
  OBVIOUS
<1>1. ASSUME envelopes' \subseteq envelopes, expired \subseteq expired',
             UNCHANGED <<handed, late>>
      PROVE  Order'
  BY <1>1 DEF Order
<1>2. ASSUME NEW h \in Handlers, CommitInsert(h) PROVE Order'
  <2>1. /\ envelopes' = envelopes \cup drawn[h]
        /\ late' = late \cup {r \in drawn[h] :
                                \E q \in handed : q.device = r.device /\ q.id > r.id}
        /\ UNCHANGED <<handed, expired>>
    BY <1>2 DEF CommitInsert
  <2>2. /\ \A r \in drawn[h] : r.id \in Nat
        /\ \A q \in handed : q.id \in Nat
    BY DEF TypeOK, Row
  <2>3. ASSUME NEW r \in drawn[h], NEW q \in handed, r.device = q.device, r.id < q.id
        PROVE  r \in late'
    BY <2>1, <2>2, <2>3
  <2> QED
    BY <2>1, <2>3 DEF Order
<1>3. ASSUME NEW d \in Devices, fetch(d) PROVE Order'
  <2>1. PICK B \in SUBSET live(d) :
          isOldest(B, live(d)) /\ handed' = handed \cup B
    BY <1>3 DEF fetch
  <2>2. UNCHANGED <<envelopes, expired, late>>
    BY <1>3 DEF fetch, tables
  <2>3. \A r \in envelopes : r.id \in Nat
    BY DEF TypeOK, Row
  <2>4. ASSUME NEW r \in envelopes, NEW q \in B, r.device = q.device, r.id < q.id,
               r \notin B, r \notin expired
        PROVE  FALSE
    <3>1. q.device = d /\ q \in envelopes
      BY <2>1 DEF live
    <3>2. r \in live(d) \ B
      BY <2>4, <3>1 DEF live
    <3>3. q.id < r.id
      BY <2>1, <3>2 DEF isOldest
    <3> QED
      BY <2>3, <2>4, <3>1, <3>3
  <2> QED
    BY <2>1, <2>2, <2>4 DEF Order
<1>4. ASSUME NEW h \in Handlers, HandlerStep(h), ~ CommitInsert(h) PROVE Order'
  BY <1>1, <1>4 DEF HandlerStep, Ask, Screen, ReadDevices, Refuse, claimIdempotencyKey,
     BeginInsert, SkipInsert, Accept, Fail, tables, history
<1>5. ASSUME NEW d \in Devices, DeviceStep(d), ~ fetch(d) PROVE Order'
  BY <1>1, <1>5 DEF DeviceStep, acknowledge, registerDevice, revokeDevice, purgeQueue,
     requests, history
<1>6. ASSUME NEW r, NEW a, NEW b,
             \/ TimerRunsOut(r) \/ sweepEnvelopes \/ sweepKeys
             \/ changeMembership(a) \/ changeBlock(a, b) \/ UNCHANGED vars
      PROVE  Order'
  BY <1>1, <1>6 DEF TimerRunsOut, sweepEnvelopes, sweepKeys, changeMembership,
     changeBlock, requests, history, vars
<1> QED
  BY <1>2, <1>3, <1>4, <1>5, <1>6 DEF Next, RetentionStep

\* acknowledge deletes up to an id that was handed out, so Order says of what.
LEMMA LostStep == TypeOK /\ Ids /\ Order /\ LostOnlyIfLate /\ [Next]_vars => LostOnlyIfLate'
<1> SUFFICES ASSUME TypeOK, Ids, Order, LostOnlyIfLate, [Next]_vars
             PROVE  LostOnlyIfLate'
  OBVIOUS
<1>1. ASSUME UNCHANGED acked, handed \subseteq handed', late \subseteq late',
             expired \subseteq expired'
      PROVE  LostOnlyIfLate'
  BY <1>1 DEF LostOnlyIfLate
<1>2. ASSUME NEW d \in Devices, acknowledge(d) PROVE LostOnlyIfLate'
  <2>1. PICK q \in handed : q.device = d /\ acked' = acked \cup upTo(d, q.id)
    BY <1>2 DEF acknowledge
  <2>2. UNCHANGED <<handed, late, expired>>
    BY <1>2 DEF acknowledge
  <2>3. ASSUME NEW r \in upTo(d, q.id), r \notin handed
        PROVE  r \in late \cup expired
    <3>1. r \in envelopes /\ r.device = d /\ r.id <= q.id
      BY DEF upTo
    <3>2. r.id # q.id
      BY <2>3, <3>1 DEF Ids
    <3>3. r.id \in Nat /\ q.id \in Nat
      BY <3>1 DEF TypeOK, Row
    <3>4. r.id < q.id
      BY <3>1, <3>2, <3>3
    <3> QED
      BY <2>1, <2>3, <3>1, <3>4 DEF Order
  <2> QED
    BY <2>1, <2>2, <2>3 DEF LostOnlyIfLate
<1>3. ASSUME NEW h \in Handlers, HandlerStep(h) PROVE LostOnlyIfLate'
  BY <1>1, <1>3 DEF HandlerStep, Ask, Screen, ReadDevices, Refuse, claimIdempotencyKey,
     BeginInsert, SkipInsert, CommitInsert, Accept, Fail, tables, history
<1>4. ASSUME NEW d \in Devices, DeviceStep(d), ~ acknowledge(d) PROVE LostOnlyIfLate'
  BY <1>1, <1>4 DEF DeviceStep, fetch, registerDevice, revokeDevice, purgeQueue,
     tables, history
<1>5. ASSUME NEW r, NEW a, NEW b,
             \/ TimerRunsOut(r) \/ sweepEnvelopes \/ sweepKeys
             \/ changeMembership(a) \/ changeBlock(a, b) \/ UNCHANGED vars
      PROVE  LostOnlyIfLate'
  BY <1>1, <1>5 DEF TimerRunsOut, sweepEnvelopes, sweepKeys, changeMembership,
     changeBlock, history, vars
<1> QED
  BY <1>2, <1>3, <1>4, <1>5 DEF Next, RetentionStep

-----------------------------------------------------------------------------
(* Acceptance                                                              *)

\* No handler has a fan-out or an answer at first.
LEMMA PlacedInit == Init => Placed /\ AcceptedIsStored
  BY DEF Init, Placed, AcceptedIsStored

\* enqueue is awaited: a handler answers only from behind its commit.
LEMMA PlacedStep ==
  TypeOK /\ Carried /\ Placed /\ AcceptedIsStored /\ [Next]_vars
    => Placed' /\ AcceptedIsStored'
<1> SUFFICES ASSUME TypeOK, Carried, Placed, AcceptedIsStored, [Next]_vars
             PROVE  Placed' /\ AcceptedIsStored'
  OBVIOUS
<1> USE DEF Placed, AcceptedIsStored
<1>1. ASSUME UNCHANGED requests, stored \subseteq stored'
      PROVE  Placed' /\ AcceptedIsStored'
  BY <1>1 DEF requests
<1>2. ASSUME NEW h \in Handlers, NEW m \in Messages, Ask(h, m)
      PROVE  Placed' /\ AcceptedIsStored'
  BY <1>2 DEF Ask, history, TypeOK
<1>3. ASSUME NEW h \in Handlers, Screen(h) PROVE Placed' /\ AcceptedIsStored'
  BY <1>3 DEF Screen, answer, history, TypeOK
<1>4. ASSUME NEW h \in Handlers, ReadDevices(h) PROVE Placed' /\ AcceptedIsStored'
  BY <1>4 DEF ReadDevices, history, TypeOK
<1>5. ASSUME NEW h \in Handlers, Refuse(h) \/ Fail(h) PROVE Placed' /\ AcceptedIsStored'
  BY <1>5 DEF Refuse, Fail, abandon, history, TypeOK
<1>6. ASSUME NEW h \in Handlers, claimIdempotencyKey(h)
      PROVE  Placed' /\ AcceptedIsStored'
  BY <1>6 DEF claimIdempotencyKey, answer, history, TypeOK
<1>7. ASSUME NEW h \in Handlers, BeginInsert(h) PROVE Placed' /\ AcceptedIsStored'
  <2>1. /\ drawn' = [drawn EXCEPT ![h] = drawn'[h]]
        /\ \A d \in fanout[h] : \E r \in drawn'[h] : r.device = d
    BY <1>7, DrawnRows
  <2>2. /\ pc[h] = "inserting" /\ pc' = [pc EXCEPT ![h] = "committing"]
        /\ UNCHANGED <<sending, fanout, reply, stored>>
    BY <1>7 DEF BeginInsert, history
  <2> QED
    BY <2>1, <2>2 DEF TypeOK
<1>8. ASSUME NEW h \in Handlers, SkipInsert(h) PROVE Placed' /\ AcceptedIsStored'
  BY <1>8 DEF SkipInsert, history, TypeOK
<1>9. ASSUME NEW h \in Handlers, CommitInsert(h) PROVE Placed' /\ AcceptedIsStored'
  BY <1>9 DEF CommitInsert, Carried, TypeOK
<1>10. ASSUME NEW h \in Handlers, Accept(h) PROVE Placed' /\ AcceptedIsStored'
  BY <1>10 DEF Accept, answer, history, TypeOK
<1>11. ASSUME NEW d \in Devices, DeviceStep(d) PROVE Placed' /\ AcceptedIsStored'
  BY <1>1, <1>11 DEF DeviceStep, fetch, acknowledge, registerDevice, revokeDevice,
     purgeQueue, history
<1>12. ASSUME NEW r, NEW a, NEW b,
              \/ TimerRunsOut(r) \/ sweepEnvelopes \/ sweepKeys
              \/ changeMembership(a) \/ changeBlock(a, b) \/ UNCHANGED vars
       PROVE  Placed' /\ AcceptedIsStored'
  BY <1>1, <1>12 DEF TimerRunsOut, sweepEnvelopes, sweepKeys, changeMembership,
     changeBlock, requests, history, vars
<1> QED
  BY <1>2, <1>3, <1>4, <1>5, <1>6, <1>7, <1>8, <1>9, <1>10, <1>11, <1>12
  DEF Next, HandlerStep, RetentionStep

-----------------------------------------------------------------------------
(* Theorems                                                                *)

IInv ==
    /\ TypeOK /\ Carried /\ Ids /\ Once /\ Order /\ Placed
    /\ AtMostOnce /\ LostOnlyIfLate /\ AcceptedIsStored

\* The parts together are inductive.
LEMMA Invariance == Spec => []IInv
<1>1. Init => IInv
  BY TypeInit, CarriedInit, IdsInit, OnceInit, OrderInit, PlacedInit
  DEF IInv, Init, LostOnlyIfLate, AtMostOnce
<1>2. IInv /\ [Next]_vars => IInv'
  BY TypeStep, CarriedStep, IdsStep, OnceStep, AtMostOnceStep, OrderStep, LostStep,
     PlacedStep
  DEF IInv
<1> QED
  BY <1>1, <1>2, PTL DEF Spec

\* The types of Delivery's variables hold in every instance of the queue of
\* services/delivery.ts, whatever its accounts, devices and requests.
THEOREM TypeCorrect == Spec => []TypeOK
<1>1. IInv => TypeOK
  BY DEF IInv
<1> QED
  BY <1>1, Invariance, PTL

\* A cumulative DELETE .. id <= upTo never removes an unread row, unless that
\* row committed behind one already handed out or its timer had run out.
THEOREM NothingElseIsLost == Spec => []LostOnlyIfLate
<1>1. IInv => LostOnlyIfLate
  BY DEF IInv
<1> QED
  BY <1>1, Invariance, PTL

\* claimIdempotencyKey lets at most one attempt per remembered key reach a
\* device's queue.
THEOREM NoDuplicates == Spec => []AtMostOnce
<1>1. IInv => AtMostOnce
  BY DEF IInv
<1> QED
  BY <1>1, Invariance, PTL

\* A send that is answered "accepted" has a committed row for every device the
\* handler fanned out to.
THEOREM AcceptanceIsDurable == Spec => []AcceptedIsStored
<1>1. IInv => AcceptedIsStored
  BY DEF IInv
<1> QED
  BY <1>1, Invariance, PTL

\* One step of the server is one step of the mailbox, or none.
LEMMA MailboxStep == IInv /\ IInv' /\ [Next]_vars => [MB!Next]_(MB!vars)
<1> SUFFICES ASSUME IInv, IInv', [Next]_vars PROVE [MB!Next]_(MB!vars)
  OBVIOUS
<1> DEFINE Closed == {d \in Devices : device[d] # "active"}
           Gone   == stored \ envelopes
<1>1. TypeOK /\ Ids /\ LostOnlyIfLate'
  BY DEF IInv
<1>2. ASSUME NEW h \in Handlers, CommitInsert(h) PROVE MB!Put
  <2>1. /\ envelopes' = envelopes \cup drawn[h]
        /\ stored' = stored \cup drawn[h]
        /\ late' = late \cup {r \in drawn[h] :
                                \E q \in handed : q.device = r.device /\ q.id > r.id}
        /\ UNCHANGED <<handed, expired, aged, device>>
    BY <1>2 DEF CommitInsert
  <2>2. drawn[h] \cap stored = {} /\ drawn[h] \subseteq Row /\ envelopes \subseteq stored
    BY <1>1 DEF Ids, TypeOK
  <2>3. envelopes' \ envelopes = drawn[h]
    BY <2>1, <2>2
  <2>4. /\ \A r \in Row : r.id \in Nat
        /\ handed \subseteq Row
    BY <1>1 DEF TypeOK, Row
  <2>5. \A r \in drawn[h], q \in handed :
           (q.device = r.device /\ q.id > r.id) <=> MB!older(r, q)
    BY <2>2, <2>4 DEF MB!older
  <2>6. late' = late \cup {r \in envelopes' \ envelopes : \E q \in handed : MB!older(r, q)}
    BY <2>1, <2>3, <2>5
  <2>7. /\ envelopes \subseteq envelopes'
        /\ (envelopes' \ envelopes) \subseteq Row \ Gone
        /\ UNCHANGED <<handed, expired \cup aged, Closed, Gone>>
    BY <2>1, <2>2, <2>3
  <2> QED
    BY <2>6, <2>7 DEF MB!Put
<1>3. ASSUME NEW d \in Devices, fetch(d) PROVE MB!Hand
  <2>1. PICK B \in SUBSET live(d) :
          handed' = handed \cup B /\ isOldest(B, live(d))
    BY <1>3 DEF fetch
  <2>2. B \subseteq envelopes
    BY <2>1 DEF live
  <2>3. UNCHANGED <<envelopes, expired, aged, device, stored, late>>
    BY <1>3 DEF fetch, tables
  <2>4. ASSUME NEW e \in handed' \ handed, NEW f \in envelopes \ (expired \cup aged),
               MB!older(f, e)
        PROVE  f \in handed'
    <3>1. e \in B /\ e \in live(d)
      BY <2>1
    <3>2. f \in live(d) /\ f.id < e.id
      BY <2>4, <3>1 DEF live, MB!older
    <3>3. f.id \in Nat /\ e.id \in Nat
      BY <1>1, <2>2, <3>1 DEF TypeOK, Row
    <3>4. f \in B
      BY <2>1, <3>1, <3>2, <3>3 DEF isOldest
    <3> QED
      BY <2>1, <3>4
  <2>5. /\ handed \subseteq handed'
        /\ handed' \ handed \subseteq envelopes
        /\ UNCHANGED <<envelopes, expired \cup aged, Closed, late, Gone>>
    BY <2>1, <2>2, <2>3
  <2> QED
    BY <2>4, <2>5 DEF MB!Hand
<1>4. ASSUME NEW d \in Devices, acknowledge(d) PROVE MB!Leave
  <2>1. PICK S \in SUBSET envelopes : envelopes' = envelopes \ S /\ acked' = acked \cup S
    BY <1>4 DEF acknowledge, upTo
  <2>2. UNCHANGED <<handed, expired, aged, device, stored, late>>
    BY <1>4 DEF acknowledge
  <2>3. \A r \in S : r \in handed \/ r \in expired \/ r \in late
    BY <1>1, <2>1, <2>2 DEF LostOnlyIfLate
  <2> QED
    BY <1>1, <2>1, <2>2, <2>3 DEF MB!Leave, Ids
<1>5. ASSUME NEW r, TimerRunsOut(r) PROVE MB!RunOut
  BY <1>5 DEF TimerRunsOut, history, MB!RunOut
<1>6. CASE sweepEnvelopes
  <2>1. PICK old \in SUBSET envelopes :
          /\ envelopes' = envelopes \ (expired \cup old)
          /\ aged' = aged \cup old
    BY <1>6 DEF sweepEnvelopes
  <2>2. UNCHANGED <<handed, expired, device, stored, late>>
    BY <1>6 DEF sweepEnvelopes
  <2>3. MB!Leave
    BY <1>1, <2>1, <2>2 DEF MB!Leave, Ids
  <2> QED
    BY <2>3 DEF MB!Next
<1>7. ASSUME NEW d \in Devices, registerDevice(d) \/ revokeDevice(d) PROVE MB!Relink
  BY <1>7 DEF registerDevice, revokeDevice, history, MB!Relink
<1>8. ASSUME NEW d \in Devices, purgeQueue(d) PROVE MB!Leave
  <2>1. /\ device[d] = "revoking"
        /\ device' = [device EXCEPT ![d] = "revoked"]
        /\ envelopes' = {r \in envelopes : r.device # d}
        /\ UNCHANGED <<handed, expired, aged, stored, late>>
    BY <1>8 DEF purgeQueue, history
  <2>2. Closed' = Closed /\ d \in Closed
    BY <1>1, <2>1 DEF TypeOK
  <2> QED
    BY <1>1, <2>1, <2>2 DEF MB!Leave, Ids
<1>9. ASSUME UNCHANGED <<device, envelopes, expired, stored, handed, aged, late>>
      PROVE  UNCHANGED MB!vars
  BY <1>9 DEF MB!vars
<1>10. ASSUME NEW h \in Handlers, HandlerStep(h), ~ CommitInsert(h)
       PROVE  UNCHANGED MB!vars
  BY <1>9, <1>10 DEF HandlerStep, Ask, Screen, ReadDevices, Refuse, claimIdempotencyKey,
     BeginInsert, SkipInsert, Accept, Fail, tables, history
<1>11. ASSUME NEW a, NEW b,
              sweepKeys \/ changeMembership(a) \/ changeBlock(a, b) \/ UNCHANGED vars
       PROVE  UNCHANGED MB!vars
  BY <1>9, <1>11 DEF sweepKeys, changeMembership, changeBlock, history, vars
<1> QED
  BY <1>2, <1>3, <1>4, <1>5, <1>6, <1>7, <1>8, <1>10, <1>11
  DEF Next, DeviceStep, RetentionStep, MB!Next

\* The queue of services/delivery.ts is the mailbox of Mailbox.tla, in whatever
\* order overlapping requests commit: nothing leaves it unhanded but what is out
\* of time, has lost its device or was overtaken, and nothing comes back.
THEOREM QueueIsMailbox == Spec => ImplementsMailbox
<1>1. Init => MB!Init
  BY DEF Init, MB!Init
<1>2. IInv /\ IInv' /\ [Next]_vars => [MB!Next]_(MB!vars)
  BY MailboxStep
<1> QED
  BY <1>1, <1>2, Invariance, PTL DEF Spec, MB!Spec, ImplementsMailbox
=============================================================================
