---------------------------- MODULE PeopleProofs ----------------------------
(***************************************************************************)
(* What People promises, for every number of accounts, operators, devices, *)
(* keys, stickers and requests.                                            *)
(*                                                                         *)
(* Each part has an inductive invariant of its own, and a section here:    *)
(*   PhoneInv    every row, link and request has the code of its number;   *)
(*   GroupInv    the order is one of the members, who waits is listed, who *)
(*               takes a role away leaves another administrator;           *)
(*   StaffInv    the same of owners, of sessions and of second factors;    *)
(*   AccountInv  who is counted in is alone, a sign-in under way has seen  *)
(*               the password there is, or is late;                        *)
(*   MediaInv    every name has its file, every request has what it uses;  *)
(*   PrekeyInv   the private half of whatever is public is still there.    *)
(* Counters are within their bounds by Within, in the section on types.    *)
(* The last section adds the parts up and has the theorems.                *)
(***************************************************************************)
EXTENDS People, Sequences, FiniteSetTheorems, TLAPS

\* The instances' own Cardinality is everybody's.
LEMMA OneCardinality ==
    \A S : groups!Cardinality(S) = Cardinality(S)
BY DEF groups!Cardinality, Cardinality

LEMMA TheCardinality == \A S : prekeys!Cardinality(S) = Cardinality(S)
BY DEF prekeys!Cardinality, Cardinality

-----------------------------------------------------------------------------
(* The phone number. *)

PhoneRow  == [row : 0..MaxTexts, number : Numbers \cup {None}, code : 0..MaxTexts,
              attempts : Nat, sends : Nat, expired : BOOLEAN]
PhoneLink == [number : Numbers \cup {None}, discoverable : BOOLEAN, code : 0..MaxTexts]
PhoneReq  == [op : {"idle", "send", "consume", "upsert", "wrong", "right"}, by : Holders,
              number : Numbers \cup {None}, row : 0..MaxTexts, code : 0..MaxTexts]

PhoneTypes ==
    /\ pending \in [Holders -> PhoneRow]
    /\ link \in [Holders -> PhoneLink]
    /\ pReq \in [Requests -> PhoneReq]
    /\ texts \in [1..MaxTexts -> Numbers \cup {None}]
    /\ agreed \in [Holders -> Numbers \cup {None}] /\ crossed \subseteq Holders

\* Code c was sent to number n, or the verifications of account a have crossed.
Sent(c, n, a) == c \in 1..MaxTexts /\ n \in Numbers /\ (texts[c] = n \/ a \in crossed)

\* The code of a row, of a link and of a request goes with its number.
RowsFit ==
    \A a \in Holders : pending[a] # phone!NoRow =>
        Sent(pending[a].code, pending[a].number, a) /\ pending[a].row # 0

LinksFit ==
    \A a \in Holders : link[a] # phone!NoLink => Sent(link[a].code, link[a].number, a)

AsksFit ==
    \A r \in Requests :
        /\ pReq[r].op = "send" => pReq[r].number \in Numbers
        /\ pReq[r].op \in {"consume", "upsert"} =>
              /\ pReq[r].code \in 1..MaxTexts /\ pReq[r].number \in Numbers
              /\ texts[pReq[r].code] = pReq[r].number
        /\ pReq[r].op \in {"wrong", "right"} => pReq[r].row # 0
        /\ pReq[r].op = "right" => Sent(pReq[r].code, pReq[r].number, pReq[r].by)

OneHolder == \A a, b \in Holders : link[a].number = link[b].number => a = b \/ link[a] = phone!NoLink

Consent == \A a \in Holders : link[a].discoverable => agreed[a] = link[a].number

PhoneInv == PhoneTypes /\ RowsFit /\ LinksFit /\ AsksFit /\ OneHolder /\ Consent

LEMMA PhoneIdle ==
    /\ phone!Idle \in PhoneReq /\ phone!Idle.op = "idle"
    /\ phone!NoRow \in PhoneRow /\ phone!NoRow.row = 0
    /\ phone!NoLink \in PhoneLink /\ phone!NoLink.discoverable = FALSE /\ phone!NoLink.number = None
BY PeopleAssumption DEF phone!Idle, phone!NoRow, phone!NoLink, PhoneReq, PhoneRow, PhoneLink

LEMMA PhoneInitial == phone!Init => PhoneInv
BY PeopleAssumption, PhoneIdle
   DEF phone!Init, PhoneInv, PhoneTypes, RowsFit, LinksFit, AsksFit, OneHolder, Consent, phone!Texts

\* A request goes on as q, and the texts that were sent stay what they are.
LEMMA PhoneGoesOn ==
    ASSUME PhoneInv, NEW r \in Requests, NEW q \in PhoneReq, pReq' = [pReq EXCEPT ![r] = q],
           UNCHANGED <<texts, crossed>>,
           q.op = "send" => q.number \in Numbers,
           q.op \in {"consume", "upsert"} =>
              q.code \in 1..MaxTexts /\ q.number \in Numbers /\ texts[q.code] = q.number,
           q.op \in {"wrong", "right"} => q.row # 0,
           q.op = "right" => Sent(q.code, q.number, q.by)
    PROVE  pReq' \in [Requests -> PhoneReq] /\ AsksFit'
BY DEF PhoneInv, PhoneTypes, AsksFit, Sent

LEMMA PhonePreserved == PhoneInv /\ [phone!Next]_(phone!vars) => PhoneInv'
<1> SUFFICES ASSUME PhoneInv, [phone!Next]_(phone!vars) PROVE PhoneInv'
  OBVIOUS
<1> USE PeopleAssumption, PhoneIdle
<1>a. /\ \A a \in Holders : pending[a] \in PhoneRow /\ link[a] \in PhoneLink
      /\ \A r \in Requests : pReq[r] \in PhoneReq
  BY DEF PhoneInv, PhoneTypes
<1>1. ASSUME NEW r \in Requests, NEW a \in Holders, NEW n \in Numbers, phone!Start(r, a, n)
      PROVE  PhoneInv'
  <2> DEFINE q == [phone!Idle EXCEPT !.op = "send", !.by = a, !.number = n]
  <2>1. q \in PhoneReq /\ q.op = "send" /\ q.number \in Numbers
    BY DEF PhoneReq
  <2>2. pReq' = [pReq EXCEPT ![r] = q] /\ UNCHANGED <<pending, link, texts, agreed, crossed>>
    BY <1>1 DEF phone!Start
  <2> HIDE DEF q
  <2>3. QED
    BY <2>1, <2>2, PhoneGoesOn
       DEF PhoneInv, PhoneTypes, RowsFit, LinksFit, Sent, OneHolder, Consent
<1>2. ASSUME NEW r \in Requests, NEW a \in Holders, NEW c \in 1..MaxTexts, phone!Verify(r, a, c)
      PROVE  PhoneInv'
  <2> DEFINE q == [op |-> IF c = pending[a].code THEN "right" ELSE "wrong", by |-> a,
                   number |-> pending[a].number, row |-> pending[a].row, code |-> c]
  <2>1. q \in PhoneReq /\ q.op \in {"wrong", "right"}
    BY <1>a DEF PhoneReq, PhoneRow
  <2>2. /\ pReq' = [pReq EXCEPT ![r] = q] /\ UNCHANGED <<pending, link, texts, agreed, crossed>>
        /\ pending[a] # phone!NoRow
    BY <1>2 DEF phone!Verify
  <2>3. q.row # 0 /\ (q.op = "right" => Sent(q.code, q.number, q.by))
    BY <2>2 DEF PhoneInv, RowsFit
  <2> HIDE DEF q
  <2>4. QED
    BY <2>1, <2>2, <2>3, PhoneGoesOn
       DEF PhoneInv, PhoneTypes, RowsFit, LinksFit, Sent, OneHolder, Consent
<1>3. ASSUME NEW r \in Requests, phone!Send(r) PROVE PhoneInv'
  <2>1. CASE \E c \in phone!Texts :
               /\ texts[c] = None /\ texts' = [texts EXCEPT ![c] = pReq[r].number]
               /\ pReq' = [pReq EXCEPT ![r].op = "consume", ![r].code = c]
    <3>1. PICK c \in 1..MaxTexts :
               /\ texts[c] = None /\ texts' = [texts EXCEPT ![c] = pReq[r].number]
               /\ pReq' = [pReq EXCEPT ![r].op = "consume", ![r].code = c]
      BY <2>1 DEF phone!Texts
    <3>0. c \in 0..MaxTexts
      OBVIOUS
    <3> DEFINE q == [pReq[r] EXCEPT !.op = "consume", !.code = c]
    <3>2. q \in PhoneReq /\ q.op = "consume" /\ q.code = c /\ q.number = pReq[r].number
      BY <1>a, <3>0 DEF PhoneReq
    <3>3. pReq' = [pReq EXCEPT ![r] = q]
      BY <3>1, <1>a DEF PhoneInv, PhoneTypes
    <3>4. pReq[r].number \in Numbers /\ UNCHANGED <<pending, link, agreed, crossed>>
      BY <1>3 DEF phone!Send, PhoneInv, AsksFit
    <3> HIDE DEF q
    <3>5. texts' \in [1..MaxTexts -> Numbers \cup {None}] /\ texts'[c] = pReq[r].number
      BY <3>1, <3>4 DEF PhoneInv, PhoneTypes
    <3>6. \A d \in 1..MaxTexts : texts[d] \in Numbers => texts'[d] = texts[d]
      BY <3>1 DEF PhoneInv, PhoneTypes
    <3>7. RowsFit' /\ LinksFit'
      BY <3>4, <3>6 DEF PhoneInv, RowsFit, LinksFit, Sent
    <3>8. AsksFit'
      BY <3>2, <3>3, <3>4, <3>5, <3>6 DEF PhoneInv, PhoneTypes, AsksFit, Sent
    <3>9. QED
      BY <3>2, <3>3, <3>4, <3>5, <3>7, <3>8 DEF PhoneInv, PhoneTypes, OneHolder, Consent
  <2>2. CASE pReq' = [pReq EXCEPT ![r] = phone!Idle] /\ UNCHANGED texts
    BY <2>2, <1>3, PhoneGoesOn
       DEF phone!Send, PhoneInv, PhoneTypes, RowsFit, LinksFit, Sent, OneHolder, Consent
  <2>3. QED
    BY <1>3, <2>1, <2>2 DEF phone!Send
<1>4. ASSUME NEW r \in Requests, phone!StartConsume(r) PROVE PhoneInv'
  <2> DEFINE gone == IF pending[pReq[r].by].number # pReq[r].number THEN pending[pReq[r].by].row ELSE 0
             q == [pReq[r] EXCEPT !.op = "upsert", !.row = gone]
  <2>1. gone \in 0..MaxTexts
    BY <1>a DEF PhoneReq, PhoneRow
  <2>2. /\ q \in PhoneReq /\ q.op = "upsert" /\ q.code = pReq[r].code
        /\ q.number = pReq[r].number
    BY <1>a, <2>1 DEF PhoneReq
  <2>3. pReq' = [pReq EXCEPT ![r] = q]
    BY <1>4, <1>a DEF phone!StartConsume, PhoneInv, PhoneTypes
  <2>4. /\ q.code \in 1..MaxTexts /\ q.number \in Numbers /\ texts[q.code] = q.number
        /\ UNCHANGED <<pending, link, texts, agreed, crossed>>
    BY <1>4, <2>2 DEF phone!StartConsume, PhoneInv, AsksFit
  <2> HIDE DEF q
  <2>5. QED
    BY <2>2, <2>3, <2>4, PhoneGoesOn
       DEF PhoneInv, PhoneTypes, RowsFit, LinksFit, Sent, OneHolder, Consent
<1>5. ASSUME NEW r \in Requests, phone!StartUpsert(r) PROVE PhoneInv'
  <2> DEFINE a == pReq[r].by
             p == pending[a]
             fresh == p.row \in {0, pReq[r].row}
             row == IF fresh THEN [phone!NoRow EXCEPT !.row = pReq[r].code, !.number = pReq[r].number,
                                                      !.code = pReq[r].code, !.sends = 1]
                    ELSE [p EXCEPT !.code = pReq[r].code, !.attempts = 0, !.sends = @ + 1,
                                   !.expired = FALSE]
  <2>1. /\ pending' = [pending EXCEPT ![a] = row] /\ pReq' = [pReq EXCEPT ![r] = phone!Idle]
        /\ crossed' = IF ~ fresh /\ p.number # pReq[r].number THEN crossed \cup {a} ELSE crossed
        /\ UNCHANGED <<link, texts, agreed>>
    BY <1>5 DEF phone!StartUpsert
  <2>2. /\ a \in Holders /\ p \in PhoneRow
        /\ pReq[r].code \in 1..MaxTexts /\ pReq[r].number \in Numbers
        /\ texts[pReq[r].code] = pReq[r].number
    BY <1>5, <1>a DEF phone!StartUpsert, PhoneReq, PhoneInv, AsksFit
  <2>3. ~ fresh => p.number \in Numbers
    BY <2>2 DEF PhoneInv, RowsFit, Sent
  <2>4. row \in PhoneRow /\ row.row # 0 /\ row.code = pReq[r].code
        /\ row.number = IF fresh THEN pReq[r].number ELSE p.number
    <3>0. pReq[r].code \in 0..MaxTexts /\ pReq[r].code # 0
      BY <2>2
    <3>1. CASE fresh
      BY <2>2, <3>0, <3>1 DEF PhoneRow
    <3>2. CASE ~ fresh
      <4>1. p.row # 0 /\ p.sends + 1 \in Nat
        BY <2>2, <3>2 DEF PhoneRow
      <4>2. row = [p EXCEPT !.code = pReq[r].code, !.attempts = 0, !.sends = p.sends + 1,
                            !.expired = FALSE]
        BY <3>2
      <4> HIDE DEF row, fresh
      <4>3. QED
        BY <2>2, <3>0, <3>2, <4>1, <4>2 DEF PhoneRow
    <3>3. QED
      BY <3>1, <3>2
  <2>5. crossed \subseteq crossed' /\ crossed' \subseteq Holders
    BY <2>1, <2>2 DEF PhoneInv, PhoneTypes
  <2>6. /\ row.code \in 1..MaxTexts /\ row.number \in Numbers
        /\ texts'[row.code] = row.number \/ a \in crossed'
    BY <2>1, <2>2, <2>3, <2>4
  <2> HIDE DEF fresh, row, p
  <2>7. PhoneTypes'
    BY <2>1, <2>2, <2>4, <2>5 DEF PhoneInv, PhoneTypes
  <2>8. RowsFit'
    BY <2>1, <2>2, <2>4, <2>5, <2>6 DEF PhoneInv, PhoneTypes, RowsFit, Sent
  <2>9. AsksFit' /\ LinksFit'
    BY <2>1, <2>5 DEF PhoneInv, PhoneTypes, AsksFit, LinksFit, Sent
  <2>10. QED
    BY <2>1, <2>7, <2>8, <2>9 DEF PhoneInv, OneHolder, Consent
<1>6. ASSUME NEW r \in Requests, phone!VerifyWrong(r) PROVE PhoneInv'
  <2> DEFINE a == pReq[r].by
             row == [pending[a] EXCEPT !.attempts = @ + 1]
  <2>1. a \in Holders /\ pending[a] \in PhoneRow /\ pReq[r].row # 0
    BY <1>6, <1>a DEF phone!VerifyWrong, PhoneReq, PhoneInv, AsksFit
  <2>2. /\ row \in PhoneRow /\ row.row = pending[a].row
        /\ row.code = pending[a].code /\ row.number = pending[a].number
    BY <2>1 DEF PhoneRow
  <2>3. /\ \/ UNCHANGED pending
           \/ pending[a].row = pReq[r].row /\ pending' = [pending EXCEPT ![a] = row]
        /\ pReq' = [pReq EXCEPT ![r] = phone!Idle] /\ UNCHANGED <<link, texts, agreed, crossed>>
    BY <1>6, <2>1 DEF phone!VerifyWrong, PhoneInv, PhoneTypes
  <2> HIDE DEF row
  <2>4. PhoneTypes'
    BY <2>1, <2>2, <2>3 DEF PhoneInv, PhoneTypes
  <2>5. RowsFit'
    BY <2>1, <2>2, <2>3 DEF PhoneInv, PhoneTypes, RowsFit, Sent
  <2>6. QED
    BY <2>3, <2>4, <2>5, PhoneGoesOn DEF PhoneInv, LinksFit, Sent, OneHolder, Consent
<1>7. ASSUME NEW r \in Requests, phone!VerifyRight(r) PROVE PhoneInv'
  <2> DEFINE a == pReq[r].by
             n == pReq[r].number
             new == [number |-> n, code |-> pReq[r].code, discoverable |-> FALSE]
  <2>1. /\ pending' = IF pending[a].row = pReq[r].row THEN [pending EXCEPT ![a] = phone!NoRow]
                      ELSE pending
        /\ link' = [b \in Holders |-> IF b = a THEN new
                                     ELSE IF link[b].number = n THEN phone!NoLink ELSE link[b]]
        /\ pReq' = [pReq EXCEPT ![r] = phone!Idle] /\ UNCHANGED <<texts, agreed, crossed>>
    BY <1>7 DEF phone!VerifyRight, phone!VerifyWith
  <2>2. a \in Holders /\ Sent(pReq[r].code, n, a)
    BY <1>7, <1>a DEF phone!VerifyRight, phone!VerifyWith, PhoneReq, PhoneInv, AsksFit
  <2>3. new \in PhoneLink
    BY <2>2 DEF PhoneLink, Sent
  <2>4. new.number = n /\ new.code = pReq[r].code /\ new.discoverable = FALSE /\ n # None
    BY <2>2 DEF Sent
  <2> HIDE DEF new, n
  <2>5. pending' \in [Holders -> PhoneRow] /\ RowsFit'
    BY <2>1 DEF PhoneInv, PhoneTypes, RowsFit, Sent
  <2>6. link' \in [Holders -> PhoneLink]
    BY <2>1, <2>3, <1>a
  <2>7. LinksFit' /\ Consent'
    BY <2>1, <2>2, <2>4 DEF PhoneInv, LinksFit, Sent, Consent
  <2>8. OneHolder'
    BY <2>1, <2>4 DEF PhoneInv, OneHolder, LinksFit, Sent
  <2>9. QED
    BY <2>1, <2>5, <2>6, <2>7, <2>8, PhoneGoesOn DEF PhoneInv, PhoneTypes
<1>8. ASSUME NEW r \in Requests, phone!VerifyUndone(r) PROVE PhoneInv'
  BY <1>8, PhoneGoesOn
     DEF phone!VerifyUndone, PhoneInv, PhoneTypes, RowsFit, LinksFit, Sent, OneHolder, Consent
<1>9. ASSUME NEW a \in Holders, phone!Expire(a) PROVE PhoneInv'
  <2> DEFINE row == [pending[a] EXCEPT !.expired = TRUE]
  <2>1. /\ pending' = [pending EXCEPT ![a] = row] /\ UNCHANGED <<link, pReq, texts, agreed, crossed>>
        /\ pending[a] # phone!NoRow
    BY <1>9 DEF phone!Expire
  <2>2. /\ row \in PhoneRow /\ row.row = pending[a].row
        /\ row.code = pending[a].code /\ row.number = pending[a].number
    BY <1>a DEF PhoneRow
  <2> HIDE DEF row
  <2>3. PhoneTypes' /\ RowsFit'
    BY <2>1, <2>2 DEF PhoneInv, PhoneTypes, RowsFit, Sent
  <2>4. QED
    BY <2>1, <2>3 DEF PhoneInv, LinksFit, AsksFit, Sent, OneHolder, Consent
<1>10. ASSUME NEW a \in Holders, phone!Remove(a) PROVE PhoneInv'
  BY <1>10 DEF phone!Remove, PhoneInv, PhoneTypes, RowsFit, LinksFit, AsksFit, Sent, OneHolder, Consent
<1>11. ASSUME NEW a \in Holders, NEW v \in BOOLEAN, phone!SetDiscoverable(a, v) PROVE PhoneInv'
  <2> DEFINE new == [link[a] EXCEPT !.discoverable = v]
  <2>1. /\ link' = [link EXCEPT ![a] = new] /\ UNCHANGED <<pending, pReq, texts, crossed>>
        /\ agreed' = [agreed EXCEPT ![a] = IF v THEN link[a].number ELSE None]
        /\ link[a] # phone!NoLink
    BY <1>11 DEF phone!SetDiscoverable
  <2>2. /\ new \in PhoneLink /\ new.number = link[a].number /\ new.code = link[a].code
        /\ new.discoverable = v /\ link[a].number \in Numbers \cup {None}
    BY <1>a DEF PhoneLink
  <2> HIDE DEF new
  <2>3. PhoneTypes'
    BY <2>1, <2>2 DEF PhoneInv, PhoneTypes
  <2>4. LinksFit' /\ OneHolder' /\ Consent'
    BY <2>1, <2>2 DEF PhoneInv, PhoneTypes, LinksFit, Sent, OneHolder, Consent
  <2>5. QED
    BY <2>1, <2>3, <2>4 DEF PhoneInv, RowsFit, AsksFit, Sent
<1>12. CASE UNCHANGED phone!vars
  BY <1>12 DEF phone!vars, PhoneInv, PhoneTypes, RowsFit, LinksFit, AsksFit, Sent, OneHolder, Consent
<1>13. QED
  BY <1>1, <1>2, <1>3, <1>4, <1>5, <1>6, <1>7, <1>8, <1>9, <1>10, <1>11, <1>12
     DEF phone!Next, phone!Texts

LEMMA PhoneKeeps == PhoneInv => phone!TypeOK /\ phone!NumberIsProved
<1> SUFFICES ASSUME PhoneInv PROVE phone!TypeOK /\ phone!NumberIsProved
  OBVIOUS
<1>1. phone!TypeOK
  BY DEF PhoneInv, PhoneTypes, PhoneRow, PhoneLink, PhoneReq, OneHolder, phone!TypeOK, phone!Texts
<1>2. phone!NumberIsProved
  BY PeopleAssumption DEF PhoneInv, LinksFit, Consent, Sent, phone!NumberIsProved, phone!Found
<1>3. QED
  BY <1>1, <1>2

-----------------------------------------------------------------------------
(* Groups. *)

GroupReq == [op : groups!Ops, by : Crew, whom : Crew, to : {"member", "admin"}, late : BOOLEAN]

GroupTypes ==
    /\ role \in [Crew -> {"none", "member", "admin"}]
    /\ since \in Seq(Crew)
    /\ code \in Nat /\ gMade \in Nat
    /\ deleted \in BOOLEAN /\ raced \in BOOLEAN /\ emptied \in BOOLEAN
    /\ keyAsked \subseteq Crew /\ unkeyed \subseteq Crew /\ gWiped \subseteq Crew
    /\ gReq \in [Requests -> GroupReq]

\* The order is one of the members, each once.
Ordered ==
    /\ \A i, j \in 1..Len(since) : since[i] = since[j] => i = j
    /\ \A i \in 1..Len(since) : since[i] \in groups!Members
    /\ \A a \in groups!Members : \E i \in 1..Len(since) : since[i] = a

Listed == unkeyed \subseteq groups!Members /\ groups!WaitingIsListed

\* Whoever takes an administrator's role away, and is not late, leaves another one.
Counted ==
    \A r \in Requests :
        gReq[r].op = "role" /\ gReq[r].to = "member" /\ ~ gReq[r].late =>
            \E a \in groups!Administrators : a # gReq[r].whom

Led == (groups!Members = {} => emptied) /\ groups!AdministeredUnlessRaced

GroupInv == GroupTypes /\ Ordered /\ groups!NeverOverfull /\ Listed /\ Counted /\ Led

LEMMA GroupIdle == groups!Idle \in GroupReq /\ groups!Idle.op = "idle"
BY PeopleAssumption DEF groups!Idle, GroupReq, groups!Ops

LEMMA MembersFinite == IsFiniteSet(groups!Members) /\ IsFiniteSet(groups!Administrators)
<1>1. groups!Members \subseteq Crew /\ groups!Administrators \subseteq Crew
  BY DEF groups!Members, groups!Administrators
<1>2. QED
  BY <1>1, PeopleAssumption, FS_Subset

\* A request begins: nothing else changes but how many there have been.
LEMMA GroupBegins ==
    ASSUME GroupTypes, NEW r \in Requests, NEW op \in groups!Ops, NEW a \in Crew, NEW w \in Crew,
           NEW to \in {"member", "admin"}, groups!Begin(r, op, a, w, to)
    PROVE  /\ GroupTypes' /\ gReq[r].op = "idle"
           /\ \A q \in Requests \ {r} : gReq'[q] = gReq[q]
           /\ gReq'[r].op = op /\ gReq'[r].by = a /\ gReq'[r].whom = w /\ gReq'[r].to = to
           /\ ~ gReq'[r].late
           /\ UNCHANGED <<role, since, code, deleted, keyAsked, unkeyed, gWiped, raced, emptied>>
<1> DEFINE q == [groups!Idle EXCEPT !.op = op, !.by = a, !.whom = w, !.to = to]
<1>1. /\ q \in GroupReq /\ q.op = op /\ q.by = a /\ q.whom = w /\ q.to = to /\ ~ q.late
  BY PeopleAssumption DEF GroupReq, groups!Idle, groups!Ops
<1>2. /\ gReq' = [gReq EXCEPT ![r] = q] /\ gMade' = gMade + 1 /\ gReq[r].op = "idle"
      /\ UNCHANGED <<role, since, code, deleted, keyAsked, unkeyed, gWiped, raced, emptied>>
  BY DEF groups!Begin, groups!history
<1> HIDE DEF q
<1>3. QED
  BY <1>1, <1>2 DEF GroupTypes

\* A request goes on, and others may be late.
LEMMA GroupProceeds ==
    ASSUME GroupTypes, NEW r \in Requests, NEW op \in groups!Ops, NEW S \in SUBSET Requests,
           groups!Proceed(r, op, S)
    PROVE  /\ gReq' \in [Requests -> GroupReq] /\ gReq'[r].op = op
           /\ op # "idle" => gReq'[r].by = gReq[r].by
<1>1. \A q \in Requests : gReq[q] \in GroupReq /\ [gReq[q] EXCEPT !.late = TRUE] \in GroupReq
  BY DEF GroupTypes, GroupReq
<1>2. [gReq[r] EXCEPT !.op = op] \in GroupReq /\ [gReq[r] EXCEPT !.op = op].op = op
      /\ [gReq[r] EXCEPT !.op = op].by = gReq[r].by
  BY <1>1 DEF GroupReq
<1>3. gReq'[r] = IF op = "idle" THEN groups!Idle ELSE [gReq[r] EXCEPT !.op = op]
  BY DEF groups!Proceed
<1>4. \A q \in Requests \ {r} : gReq'[q] = IF q \in S THEN [gReq[q] EXCEPT !.late = TRUE] ELSE gReq[q]
  BY DEF groups!Proceed
<1>5. gReq' = [q \in Requests |-> gReq'[q]]
  BY DEF groups!Proceed
<1>6. \A q \in Requests : gReq'[q] \in GroupReq
  BY <1>1, <1>2, <1>3, <1>4, GroupIdle
<1>7. gReq' \in [Requests -> GroupReq]
  BY <1>5, <1>6
<1>8. gReq'[r].op = op /\ (op # "idle" => gReq'[r].by = gReq[r].by)
  BY <1>2, <1>3, GroupIdle
<1>9. QED
  BY <1>7, <1>8

\* ... and this is how the others are then.
LEMMA OthersProceed ==
    ASSUME GroupTypes, NEW r \in Requests, NEW op \in groups!Ops, NEW S \in SUBSET Requests,
           groups!Proceed(r, op, S), NEW q \in Requests \ {r}
    PROVE  /\ gReq'[q].op = gReq[q].op /\ gReq'[q].by = gReq[q].by
           /\ gReq'[q].whom = gReq[q].whom /\ gReq'[q].to = gReq[q].to
           /\ ~ gReq'[q].late => ~ gReq[q].late /\ q \notin S
<1> DEFINE l == [gReq[q] EXCEPT !.late = TRUE]
<1>1. gReq[q] \in GroupReq
  BY DEF GroupTypes
<1>2. /\ l.op = gReq[q].op /\ l.by = gReq[q].by /\ l.whom = gReq[q].whom
      /\ l.to = gReq[q].to /\ l.late = TRUE
  BY <1>1 DEF GroupReq
<1>3. gReq'[q] = IF q \in S THEN l ELSE gReq[q]
  BY DEF groups!Proceed
<1> HIDE DEF l
<1>4. QED
  BY <1>2, <1>3

\* Somebody comes in, if there is a place.
LEMMA Entering ==
    ASSUME GroupTypes, Ordered, groups!NeverOverfull, NEW r, NEW a \in Crew, NEW next,
           groups!Enter(r, a, next)
    PROVE  /\ role' \in [Crew -> {"none", "member", "admin"}] /\ since' \in Seq(Crew)
           /\ Ordered' /\ groups!NeverOverfull'
           /\ groups!Members \subseteq groups!Members'
           /\ groups!Administrators' = groups!Administrators
           /\ groups!Proceed(r, next, {})
<1>1. CASE a \notin groups!Members /\ Cardinality(groups!Members) < MaxMembers
  <2>1. role' = [role EXCEPT ![a] = "member"] /\ since' = Append(since, a)
    BY <1>1, OneCardinality DEF groups!Enter
  <2>2. groups!Members' = groups!Members \cup {a} /\ groups!Administrators' = groups!Administrators
    BY <1>1, <2>1 DEF groups!Members, groups!Administrators, GroupTypes
  <2>3. role' \in [Crew -> {"none", "member", "admin"}] /\ since' \in Seq(Crew)
    BY <2>1 DEF GroupTypes
  <2>4. /\ Len(since') = Len(since) + 1 /\ since'[Len(since) + 1] = a /\ Len(since) \in Nat
        /\ \A i \in 1..Len(since) : since'[i] = since[i]
    BY <2>1 DEF GroupTypes
  <2>5. Ordered'
    <3>1. \A i \in 1..Len(since') : i = Len(since) + 1 \/ i \in 1..Len(since)
      BY <2>4
    <3>2. \A i \in 1..Len(since) : since[i] # a
      BY <1>1 DEF Ordered
    <3>3. \A i, j \in 1..Len(since') : since'[i] = since'[j] => i = j
      BY <2>4, <3>1, <3>2 DEF Ordered
    <3>4. \A i \in 1..Len(since') : since'[i] \in groups!Members'
      BY <2>2, <2>4, <3>1 DEF Ordered
    <3>5. \A b \in groups!Members' : \E i \in 1..Len(since') : since'[i] = b
      BY <2>2, <2>4 DEF Ordered
    <3>6. QED
      BY <3>3, <3>4, <3>5 DEF Ordered
  <2>6. groups!NeverOverfull'
    <3>1. Cardinality(groups!Members') = Cardinality(groups!Members) + 1
      BY <1>1, <2>2, MembersFinite, FS_AddElement
    <3>2. Cardinality(groups!Members') <= MaxMembers
      BY <1>1, <3>1, MembersFinite, FS_CardinalityType, PeopleAssumption
    <3>3. QED
      BY <3>2, OneCardinality DEF groups!NeverOverfull
  <2>7. QED
    BY <2>2, <2>3, <2>5, <2>6 DEF groups!Enter
<1>2. CASE ~ (a \notin groups!Members /\ Cardinality(groups!Members) < MaxMembers)
  <2>1. UNCHANGED <<role, since>> /\ groups!Proceed(r, next, {})
    BY <1>2, OneCardinality DEF groups!Enter
  <2>2. QED
    BY <2>1 DEF GroupTypes, Ordered, groups!NeverOverfull, groups!Members, groups!Administrators
<1>3. QED
  BY <1>1, <1>2

\* The order without a member is the order of the others.
LEMMA WithoutOne ==
    ASSUME since \in Seq(Crew), Ordered, NEW w \in Crew
    PROVE  LET s == groups!Without(w) IN
           /\ s \in Seq(Crew)
           /\ \A i, j \in 1..Len(s) : s[i] = s[j] => i = j
           /\ \A i \in 1..Len(s) : s[i] \in groups!Members \ {w}
           /\ \A a \in groups!Members \ {w} : \E i \in 1..Len(s) : s[i] = a
<1>1. CASE w \notin groups!Members
  BY <1>1 DEF groups!Without, Ordered
<1>2. CASE w \in groups!Members
  <2> DEFINE at == CHOOSE i \in DOMAIN since : since[i] = w
             n == Len(since)
             s == groups!Without(w)
  <2>1. at \in 1..n /\ since[at] = w /\ n \in Nat
    BY <1>2 DEF Ordered
  <2>2. s = SubSeq(since, 1, at - 1) \o SubSeq(since, at + 1, n)
    BY <1>2 DEF groups!Without
  <2> HIDE DEF at, s
  <2>3. /\ SubSeq(since, 1, at - 1) \in Seq(Crew) /\ Len(SubSeq(since, 1, at - 1)) = at - 1
        /\ \A i \in 1..(at - 1) : SubSeq(since, 1, at - 1)[i] = since[i]
    BY <2>1
  <2>4. /\ SubSeq(since, at + 1, n) \in Seq(Crew) /\ Len(SubSeq(since, at + 1, n)) = n - at
        /\ \A i \in 1..(n - at) : SubSeq(since, at + 1, n)[i] = since[at + i]
    BY <2>1
  <2> HIDE DEF n
  <2>5. /\ s \in Seq(Crew) /\ Len(s) = n - 1
        /\ \A i \in 1..(n - 1) : s[i] = IF i < at THEN since[i] ELSE since[i + 1]
    <3> DEFINE x == SubSeq(since, 1, at - 1)
               y == SubSeq(since, at + 1, n)
    <3> HIDE DEF x, y
    <3>1. /\ x \in Seq(Crew) /\ Len(x) = at - 1 /\ \A i \in 1..(at - 1) : x[i] = since[i]
          /\ y \in Seq(Crew) /\ Len(y) = n - at /\ \A i \in 1..(n - at) : y[i] = since[at + i]
      BY <2>3, <2>4 DEF x, y
    <3>2. s = x \o y
      BY <2>2 DEF x, y
    <3>3. s \in Seq(Crew) /\ Len(s) = n - 1
      BY <2>1, <3>1, <3>2
    <3>4. ASSUME NEW i \in 1..(n - 1)
          PROVE  s[i] = IF i < at THEN since[i] ELSE since[i + 1]
      <4>1. s[i] = IF i <= Len(x) THEN x[i] ELSE y[i - Len(x)]
        BY <2>1, <3>1, <3>2
      <4>2. CASE i < at
        BY <2>1, <3>1, <4>1, <4>2
      <4>3. CASE ~ (i < at)
        <5>1. i - Len(x) \in 1..(n - at) /\ at + (i - Len(x)) = i + 1 /\ ~ (i <= Len(x))
          <6>1. /\ at \in Nat /\ i \in Nat /\ n \in Nat /\ 1 <= at /\ at <= i /\ i <= n - 1
                /\ Len(x) = at - 1
            BY <2>1, <3>1, <4>3
          <6> HIDE DEF x
          <6>2. QED
            BY <6>1
        <5>2. QED
          BY <3>1, <4>1, <4>3, <5>1
      <4>4. QED
        BY <4>2, <4>3
    <3>5. QED
      BY <3>3, <3>4
  <2> DEFINE old(i) == IF i < at THEN i ELSE i + 1
  <2>6. \A i \in 1..(n - 1) : old(i) \in 1..n /\ old(i) # at /\ s[i] = since[old(i)]
    BY <2>1, <2>5
  <2>7. \A i, j \in 1..(n - 1) : old(i) = old(j) => i = j
    BY <2>1
  <2>8. \A j \in 1..n : j # at => \E i \in 1..(n - 1) : old(i) = j
    <3> SUFFICES ASSUME NEW j \in 1..n, j # at PROVE \E i \in 1..(n - 1) : old(i) = j
      OBVIOUS
    <3>1. CASE j < at
      <4>1. j \in 1..(n - 1) /\ old(j) = j
        BY <2>1, <3>1
      <4>2. QED
        BY <4>1
    <3>2. CASE at < j
      <4>1. j - 1 \in 1..(n - 1) /\ old(j - 1) = j
        BY <2>1, <3>2
      <4>2. QED
        BY <4>1
    <3>3. QED
      BY <2>1, <3>1, <3>2
  <2> HIDE DEF old
  <2>9. \A i, j \in 1..n : since[i] = since[j] => i = j
    BY DEF Ordered, n
  <2>10. /\ \A i \in 1..n : since[i] \in groups!Members
         /\ \A a \in groups!Members : \E i \in 1..n : since[i] = a
    BY DEF Ordered, n
  <2>11. \A i \in 1..(n - 1) : s[i] \in groups!Members \ {w}
    BY <2>1, <2>6, <2>9, <2>10
  <2>12. \A a \in groups!Members \ {w} : \E i \in 1..(n - 1) : s[i] = a
    <3> SUFFICES ASSUME NEW a \in groups!Members \ {w} PROVE \E i \in 1..(n - 1) : s[i] = a
      OBVIOUS
    <3>1. PICK j \in 1..n : since[j] = a
      BY <2>10
    <3>2. PICK i \in 1..(n - 1) : old(i) = j
      BY <2>1, <2>8, <3>1
    <3>3. QED
      BY <2>6, <3>1, <3>2
  <2>13. \A i, j \in 1..(n - 1) : s[i] = s[j] => i = j
    BY <2>6, <2>7, <2>9
  <2>14. QED
    BY <2>5, <2>11, <2>12, <2>13 DEF s
<1>3. QED
  BY <1>1, <1>2

LEMMA GroupInitial == groups!Init => GroupInv
<1> SUFFICES ASSUME groups!Init PROVE GroupInv
  OBVIOUS
<1> DEFINE M == groups!Members
           n == Cardinality(M)
<1>1. PICK invited \in SUBSET (Willing \ {Creator}) :
        /\ Cardinality(invited) < MaxMembers
        /\ role \in [Crew -> {"none", "member", "admin"}]
        /\ M = invited \cup {Creator} /\ role[Creator] = "admin"
  BY OneCardinality DEF groups!Init
<1>2. IsFiniteSet(M) /\ n \in Nat /\ n <= MaxMembers
  <2>1. IsFiniteSet(invited)
    BY <1>1, MembersFinite, FS_Subset
  <2>2. QED
    BY <1>1, <2>1, MembersFinite, FS_AddElement, FS_CardinalityType, PeopleAssumption
<1>3. /\ since \in [1..n -> M] /\ {since[i] : i \in DOMAIN since} = M
  BY OneCardinality DEF groups!Init
<1>4. since \in Injection(1..n, M)
  <2>1. since \in Surjection(1..n, M)
    BY <1>3 DEF Surjection
  <2>2. IsFiniteSet(1..n) /\ Cardinality(1..n) = n
    BY <1>2, FS_Interval
  <2>3. QED
    BY <2>1, <2>2, FS_SurjSameCardinalityImpliesInj
<1>5. M \subseteq Crew
  BY DEF groups!Members
<1>6. since \in Seq(Crew) /\ Len(since) = n
  BY <1>2, <1>3, <1>5
<1>7. Ordered
  <2>1. \A i, j \in 1..n : since[i] = since[j] => i = j
    BY <1>4 DEF Injection, IsInjective
  <2>2. \A a \in M : \E i \in 1..n : since[i] = a
    BY <1>3
  <2>3. \A i \in 1..n : since[i] \in M
    BY <1>3
  <2> HIDE DEF M, n
  <2>4. QED
    BY <1>6, <2>1, <2>2, <2>3 DEF Ordered, M
<1>8. groups!NeverOverfull
  BY <1>2, OneCardinality DEF groups!NeverOverfull
<1>9. GroupTypes
  BY <1>1, <1>6, GroupIdle DEF groups!Init, GroupTypes
<1>10. Listed /\ Counted
  BY GroupIdle DEF groups!Init, Listed, groups!WaitingIsListed, Counted
<1>11. Led
  BY <1>1, PeopleAssumption
     DEF Led, groups!AdministeredUnlessRaced, groups!Administrators, groups!Members
<1>12. QED
  BY <1>7, <1>8, <1>9, <1>10, <1>11 DEF GroupInv

\* A request that begins finds what the others left.
LEMMA GroupAsked ==
    ASSUME GroupInv, NEW r \in Requests, NEW op \in groups!Ops \ {"idle"}, NEW a \in Crew,
           NEW w \in Crew, NEW to \in {"member", "admin"}, groups!Begin(r, op, a, w, to),
           op = "role" /\ to = "member" => \E b \in groups!Administrators : b # w
    PROVE  GroupInv'
<1>1. /\ GroupTypes' /\ gReq[r].op = "idle"
      /\ \A q \in Requests \ {r} : gReq'[q] = gReq[q]
      /\ gReq'[r].op = op /\ gReq'[r].by = a /\ gReq'[r].whom = w /\ gReq'[r].to = to
      /\ UNCHANGED <<role, since, code, deleted, keyAsked, unkeyed, gWiped, raced, emptied>>
  BY GroupBegins DEF GroupInv
<1>2. UNCHANGED <<groups!Members, groups!Administrators>>
  BY <1>1 DEF groups!Members, groups!Administrators
<1>3. Ordered' /\ groups!NeverOverfull'
  BY <1>1, <1>2 DEF GroupInv, Ordered, groups!NeverOverfull
<1>4. Listed'
  BY <1>1, <1>2 DEF GroupInv, Listed, groups!WaitingIsListed, groups!Pending, groups!Running
<1>5. Counted'
  BY <1>1, <1>2 DEF GroupInv, Counted
<1>6. Led'
  BY <1>1, <1>2 DEF GroupInv, Led, groups!AdministeredUnlessRaced, groups!Running
<1>7. QED
  BY <1>1, <1>3, <1>4, <1>5, <1>6 DEF GroupInv

LEMMA GroupChecked ==
    ASSUME GroupInv, NEW r \in Requests, groups!Checked(r) PROVE GroupInv'
<1>1. ASSUME NEW a \in Crew, groups!Join(r, a) PROVE GroupInv'
  BY <1>1, GroupAsked DEF groups!Join, groups!Ops
<1>2. ASSUME NEW a \in Crew, groups!AskForKey(r, a) PROVE GroupInv'
  BY <1>2, GroupAsked DEF groups!AskForKey, groups!Ops
<1>3. ASSUME NEW a \in Crew, groups!Acknowledge(r, a) PROVE GroupInv'
  BY <1>3, GroupAsked DEF groups!Acknowledge, groups!Ops
<1>4. ASSUME NEW a \in Crew, groups!Rotate(r, a) PROVE GroupInv'
  BY <1>4, GroupAsked DEF groups!Rotate, groups!Ops
<1>5. ASSUME NEW a \in Crew, groups!DeleteGroup(r, a) PROVE GroupInv'
  BY <1>5, GroupAsked DEF groups!DeleteGroup, groups!Ops
<1>6. ASSUME NEW a \in Crew, NEW w \in Crew, groups!Add(r, a, w) PROVE GroupInv'
  BY <1>6, GroupAsked DEF groups!Add, groups!Ops
<1>7. ASSUME NEW a \in Crew, NEW w \in Crew, groups!Remove(r, a, w) PROVE GroupInv'
  BY <1>7, GroupAsked DEF groups!Remove, groups!Ops
<1>8. ASSUME NEW a \in Crew, NEW w \in Crew, NEW to \in {"member", "admin"},
             groups!SetRole(r, a, w, to)
      PROVE  GroupInv'
  <2>1. a \in groups!Administrators /\ groups!Begin(r, "role", a, w, to)
    BY <1>8 DEF groups!SetRole, groups!IsAdmin
  <2>2. to = "member" => \E b \in groups!Administrators : b # w
    <3>1. CASE a = w /\ to = "member"
      <4>1. Cardinality(groups!Administrators) > 1
        BY <1>8, <3>1, OneCardinality DEF groups!SetRole
      <4>2. groups!Administrators # {a}
        BY <4>1, FS_Singleton
      <4>3. QED
        BY <2>1, <3>1, <4>2
    <3>2. QED
      BY <2>1, <3>1
  <2>3. QED
    BY <2>1, <2>2, GroupAsked DEF groups!Ops
<1>9. QED
  BY <1>1, <1>2, <1>3, <1>4, <1>5, <1>6, <1>7, <1>8 DEF groups!Checked

\* Nobody counted on an administrator who is gone, or they are late.
LEMMA CountedStays ==
    ASSUME GroupInv, NEW r \in Requests, NEW op \in groups!Ops \ {"role"}, NEW S \in SUBSET Requests,
           groups!Proceed(r, op, S),
           groups!Administrators \subseteq groups!Administrators' \/ groups!Running({"role"}) \subseteq S
    PROVE  Counted'
<1>1. /\ gReq'[r].op = op
      /\ \A q \in Requests \ {r} :
            /\ gReq'[q].op = gReq[q].op /\ gReq'[q].whom = gReq[q].whom /\ gReq'[q].to = gReq[q].to
            /\ ~ gReq'[q].late => ~ gReq[q].late /\ q \notin S
  BY GroupProceeds, OthersProceed DEF GroupInv
<1>2. ASSUME NEW q \in Requests, gReq'[q].op = "role", gReq'[q].to = "member", ~ gReq'[q].late
      PROVE  \E a \in groups!Administrators' : a # gReq'[q].whom
  <2>1. q # r
    BY <1>1, <1>2
  <2>2. gReq[q].op = "role" /\ gReq[q].to = "member" /\ ~ gReq[q].late /\ q \notin S
        /\ gReq'[q].whom = gReq[q].whom
    BY <1>1, <1>2, <2>1
  <2>3. groups!Administrators \subseteq groups!Administrators'
    BY <2>2 DEF groups!Running
  <2>4. QED
    BY <2>2, <2>3 DEF GroupInv, Counted
<1>3. QED
  BY <1>2 DEF Counted

\* The administrators stay, and a removal that has to promote one goes on.
LEMMA LedStays ==
    ASSUME GroupInv, NEW r \in Requests, NEW op \in groups!Ops, NEW S \in SUBSET Requests, groups!Proceed(r, op, S),
           groups!Members \subseteq groups!Members',
           groups!Administrators \subseteq groups!Administrators',
           raced => raced', emptied => emptied',
           gReq[r].op \in {"clear", "promote"} => op \in {"clear", "promote"}
    PROVE  Led'
<1>1. /\ gReq'[r].op = op
      /\ \A q \in Requests \ {r} : gReq'[q].op = gReq[q].op
  BY GroupProceeds, OthersProceed DEF GroupInv
<1>2. groups!Running({"clear", "promote"}) \subseteq groups!Running({"clear", "promote"})'
  BY <1>1 DEF groups!Running
<1>3. QED
  BY <1>2 DEF GroupInv, Led, groups!AdministeredUnlessRaced

\* The list of those who wait, when the members and it stay.
LEMMA ListedStays ==
    ASSUME GroupInv, NEW r \in Requests, NEW op \in groups!Ops, NEW S \in SUBSET Requests, groups!Proceed(r, op, S),
           groups!Members \subseteq groups!Members', gReq[r].op # "ask",
           UNCHANGED <<keyAsked, unkeyed, gWiped>>
    PROVE  Listed'
<1>1. \A q \in Requests \ {r} : gReq'[q].op = gReq[q].op /\ gReq'[q].by = gReq[q].by
  BY GroupProceeds, OthersProceed DEF GroupInv
<1>2. ASSUME NEW a \in unkeyed
      PROVE  \/ a \in keyAsked \cap groups!Members'
             \/ \E q \in groups!Running({"ask"})' : gReq'[q].by = a
             \/ a \in gWiped
  <2>1. CASE \E q \in groups!Running({"ask"}) : gReq[q].by = a
    BY <1>1, <2>1 DEF groups!Running
  <2>2. QED
    BY <2>1 DEF GroupInv, Listed, groups!WaitingIsListed, groups!Pending
<1>3. QED
  BY <1>2 DEF GroupInv, Listed, groups!WaitingIsListed, groups!Pending

LEMMA GroupAddRow ==
    ASSUME GroupInv, NEW r \in Requests, groups!AddRow(r) PROVE GroupInv'
<1> DEFINE w == gReq[r].whom
<1>1. w \in Crew /\ gReq[r].op = "add" /\ "idle" \in groups!Ops \ {"role"}
  BY DEF GroupInv, GroupTypes, GroupReq, groups!AddRow, groups!Ops
<1>2. /\ groups!Enter(r, w, "idle") \/ (UNCHANGED <<role, since>> /\ groups!Proceed(r, "idle", {}))
      /\ UNCHANGED <<code, deleted, keyAsked, gMade, unkeyed, gWiped, raced, emptied>>
  BY DEF groups!AddRow, groups!history
<1> HIDE DEF w
<1>3. /\ role' \in [Crew -> {"none", "member", "admin"}] /\ since' \in Seq(Crew)
      /\ Ordered' /\ groups!NeverOverfull'
      /\ groups!Members \subseteq groups!Members'
      /\ groups!Administrators' = groups!Administrators
      /\ groups!Proceed(r, "idle", {})
  <2>1. CASE groups!Enter(r, w, "idle")
    BY <1>1, <2>1, Entering DEF GroupInv
  <2>2. CASE UNCHANGED <<role, since>> /\ groups!Proceed(r, "idle", {})
    BY <2>2 DEF GroupInv, GroupTypes, Ordered, groups!NeverOverfull, groups!Members, groups!Administrators
  <2>3. QED
    BY <1>2, <2>1, <2>2
<1>4. GroupTypes'
  BY <1>1, <1>2, <1>3, GroupProceeds, OthersProceed DEF GroupInv, GroupTypes
<1>5. Counted' /\ Led' /\ Listed'
  BY <1>1, <1>2, <1>3, CountedStays, LedStays, ListedStays
<1>6. QED
  BY <1>3, <1>4, <1>5 DEF GroupInv

LEMMA GroupJoinRow ==
    ASSUME GroupInv, NEW r \in Requests, groups!JoinRow(r) PROVE GroupInv'
<1> DEFINE a == gReq[r].by
<1>1. a \in Crew /\ gReq[r].op = "join" /\ "ask" \in groups!Ops \ {"role", "idle"}
  BY DEF GroupInv, GroupTypes, GroupReq, groups!JoinRow, groups!Ops
<1>2. /\ groups!Enter(r, a, "ask")
      /\ unkeyed' = IF a \notin groups!Members /\ role'[a] # "none" THEN unkeyed \cup {a} ELSE unkeyed
      /\ UNCHANGED <<code, deleted, keyAsked, gMade, gWiped, raced, emptied>>
  BY DEF groups!JoinRow
<1> HIDE DEF a
<1>3. /\ role' \in [Crew -> {"none", "member", "admin"}] /\ since' \in Seq(Crew)
      /\ Ordered' /\ groups!NeverOverfull'
      /\ groups!Members \subseteq groups!Members'
      /\ groups!Administrators' = groups!Administrators
      /\ groups!Proceed(r, "ask", {})
  BY <1>1, <1>2, Entering DEF GroupInv
<1>4. /\ gReq' \in [Requests -> GroupReq] /\ gReq'[r].op = "ask" /\ gReq'[r].by = a
      /\ \A q \in Requests \ {r} : gReq'[q].op = gReq[q].op /\ gReq'[q].by = gReq[q].by
  BY <1>1, <1>3, GroupProceeds, OthersProceed DEF GroupInv, a
<1>5. unkeyed' \subseteq unkeyed \cup {a} /\ unkeyed' \subseteq groups!Members'
  BY <1>1, <1>2, <1>3 DEF GroupInv, Listed, groups!Members
<1>6. GroupTypes'
  BY <1>1, <1>2, <1>3, <1>4, <1>5 DEF GroupInv, GroupTypes
<1>7. Counted' /\ Led'
  BY <1>1, <1>2, <1>3, CountedStays, LedStays
<1>8. Listed'
  <2>1. ASSUME NEW b \in unkeyed'
        PROVE  \/ b \in keyAsked' \cap groups!Members'
               \/ \E q \in groups!Running({"ask"})' : gReq'[q].by = b
               \/ b \in gWiped'
    <3>1. CASE b = a
      BY <1>4, <3>1 DEF groups!Running
    <3>2. CASE \E q \in groups!Running({"ask"}) : gReq[q].by = b
      BY <1>1, <1>4, <3>2 DEF groups!Running
    <3>3. CASE b \in unkeyed /\ ~ \E q \in groups!Running({"ask"}) : gReq[q].by = b
      BY <1>2, <1>3, <3>3 DEF GroupInv, Listed, groups!WaitingIsListed, groups!Pending
    <3>4. QED
      BY <1>5, <2>1, <3>1, <3>2, <3>3
  <2>2. QED
    BY <1>5, <2>1 DEF Listed, groups!WaitingIsListed, groups!Pending
<1>9. QED
  BY <1>3, <1>6, <1>7, <1>8 DEF GroupInv

\* The members, their order and roles stay as they were.
LEMMA SameMembers ==
    ASSUME GroupInv, UNCHANGED <<role, since>>
    PROVE  /\ Ordered' /\ groups!NeverOverfull'
           /\ groups!Members' = groups!Members /\ groups!Administrators' = groups!Administrators
BY DEF GroupInv, Ordered, groups!NeverOverfull, groups!Members, groups!Administrators

LEMMA GroupAskRow ==
    ASSUME GroupInv, NEW r \in Requests, groups!AskRow(r) PROVE GroupInv'
<1> DEFINE a == gReq[r].by
<1>1. a \in Crew /\ gReq[r].op = "ask" /\ "idle" \in groups!Ops \ {"role"}
  BY DEF GroupInv, GroupTypes, GroupReq, groups!AskRow, groups!Ops
<1>2. /\ keyAsked' = keyAsked \cup {a} /\ gWiped' = gWiped \ {a}
      /\ groups!Proceed(r, "idle", {})
      /\ UNCHANGED <<role, since, code, deleted, gMade, unkeyed, raced, emptied>>
  BY DEF groups!AskRow
<1>3. /\ gReq' \in [Requests -> GroupReq]
      /\ \A q \in Requests \ {r} : gReq'[q].op = gReq[q].op /\ gReq'[q].by = gReq[q].by
  BY <1>1, <1>2, GroupProceeds, OthersProceed DEF GroupInv
<1>4. GroupTypes'
  BY <1>1, <1>2, <1>3 DEF GroupInv, GroupTypes
<1>5. Counted' /\ Led'
  BY <1>1, <1>2, SameMembers, CountedStays, LedStays
<1>6. Listed'
  <2>1. ASSUME NEW b \in unkeyed
        PROVE  \/ b \in keyAsked' \cap groups!Members
               \/ \E q \in groups!Running({"ask"})' : gReq'[q].by = b
               \/ b \in gWiped'
    <3>1. CASE b = a
      BY <1>2, <3>1 DEF GroupInv, Listed
    <3>2. CASE b # a /\ \E q \in groups!Running({"ask"}) : gReq[q].by = b
      BY <1>1, <1>3, <3>2 DEF groups!Running
    <3>3. CASE b # a /\ ~ \E q \in groups!Running({"ask"}) : gReq[q].by = b
      BY <1>2, <3>3 DEF GroupInv, Listed, groups!WaitingIsListed, groups!Pending
    <3>4. QED
      BY <3>1, <3>2, <3>3
  <2>2. QED
    BY <1>2, <2>1, SameMembers DEF GroupInv, Listed, groups!WaitingIsListed, groups!Pending
<1>7. QED
  BY <1>2, <1>4, <1>5, <1>6, SameMembers DEF GroupInv

LEMMA GroupAcknowledgeRow ==
    ASSUME GroupInv, NEW r \in Requests, groups!AcknowledgeRow(r) PROVE GroupInv'
<1> DEFINE a == gReq[r].by
<1>1. a \in Crew /\ gReq[r].op = "acknowledge" /\ "idle" \in groups!Ops \ {"role"}
  BY DEF GroupInv, GroupTypes, GroupReq, groups!AcknowledgeRow, groups!Ops
<1>2. /\ keyAsked' = keyAsked \ {a} /\ unkeyed' = unkeyed \ {a}
      /\ groups!Proceed(r, "idle", {})
      /\ UNCHANGED <<role, since, code, deleted, gMade, gWiped, raced, emptied>>
  BY DEF groups!AcknowledgeRow
<1>3. /\ gReq' \in [Requests -> GroupReq]
      /\ \A q \in Requests \ {r} : gReq'[q].op = gReq[q].op /\ gReq'[q].by = gReq[q].by
  BY <1>1, <1>2, GroupProceeds, OthersProceed DEF GroupInv
<1>4. GroupTypes'
  BY <1>1, <1>2, <1>3 DEF GroupInv, GroupTypes
<1>5. Counted' /\ Led'
  BY <1>1, <1>2, SameMembers, CountedStays, LedStays
<1>6. Listed'
  <2>1. ASSUME NEW b \in unkeyed \ {a}
        PROVE  \/ b \in keyAsked' \cap groups!Members
               \/ \E q \in groups!Running({"ask"})' : gReq'[q].by = b
               \/ b \in gWiped'
    <3>2. CASE \E q \in groups!Running({"ask"}) : gReq[q].by = b
      BY <1>1, <1>3, <3>2 DEF groups!Running
    <3>3. CASE ~ \E q \in groups!Running({"ask"}) : gReq[q].by = b
      BY <1>2, <3>3 DEF GroupInv, Listed, groups!WaitingIsListed, groups!Pending
    <3>4. QED
      BY <3>2, <3>3
  <2>2. QED
    BY <1>2, <2>1, SameMembers DEF GroupInv, Listed, groups!WaitingIsListed, groups!Pending
<1>7. QED
  BY <1>2, <1>4, <1>5, <1>6, SameMembers DEF GroupInv

\* An administrator who is removed may have been counted on: those are late now.
LEMMA GroupRemoveRow ==
    ASSUME GroupInv, NEW r \in Requests, groups!RemoveRow(r) PROVE GroupInv'
<1> DEFINE w == gReq[r].whom
           M == groups!Members
           next == IF w \in M THEN "clear" ELSE "idle"
           S == IF w \in groups!Administrators THEN groups!Running({"role"}) ELSE {}
<1>1. w \in Crew /\ gReq[r].op = "remove" /\ next \in groups!Ops \ {"role"}
      /\ S \in SUBSET Requests
  BY DEF GroupInv, GroupTypes, GroupReq, groups!RemoveRow, groups!Ops, groups!Running
<1>2. /\ role' = [role EXCEPT ![w] = "none"] /\ since' = groups!Without(w)
      /\ unkeyed' = unkeyed \ {w} /\ emptied' = (emptied \/ M \ {w} = {})
      /\ groups!Proceed(r, next, S)
      /\ UNCHANGED <<code, deleted, keyAsked, gMade, gWiped, raced>>
  BY DEF groups!RemoveRow
<1>3. /\ gReq' \in [Requests -> GroupReq] /\ gReq'[r].op = next
      /\ \A q \in Requests \ {r} : gReq'[q].op = gReq[q].op /\ gReq'[q].by = gReq[q].by
  <2> HIDE DEF S, next
  <2>1. QED
    BY <1>1, <1>2, GroupProceeds, OthersProceed DEF GroupInv
<1>4. M' = M \ {w} /\ groups!Administrators' = groups!Administrators \ {w}
  BY <1>1, <1>2 DEF GroupInv, GroupTypes, groups!Members, groups!Administrators
<1>5. Ordered' /\ since' \in Seq(Crew)
  <2>1. since \in Seq(Crew) /\ Ordered
    BY DEF GroupInv, GroupTypes
  <2> DEFINE s == groups!Without(w)
  <2>2. /\ s \in Seq(Crew)
        /\ \A i, j \in 1..Len(s) : s[i] = s[j] => i = j
        /\ \A i \in 1..Len(s) : s[i] \in M \ {w}
        /\ \A a \in M \ {w} : \E i \in 1..Len(s) : s[i] = a
    BY <1>1, <2>1, WithoutOne
  <2>3. since' = s
    BY <1>2
  <2> HIDE DEF s, M
  <2>4. QED
    BY <1>4, <2>2, <2>3 DEF Ordered, M
<1>6. GroupTypes'
  BY <1>1, <1>2, <1>3, <1>5 DEF GroupInv, GroupTypes
<1>7. groups!NeverOverfull'
  <2>1. Cardinality(M') <= Cardinality(M) /\ Cardinality(M) \in Nat /\ Cardinality(M') \in Nat
    BY <1>4, MembersFinite, FS_Subset, FS_CardinalityType
  <2>2. Cardinality(M) <= MaxMembers
    BY OneCardinality DEF GroupInv, groups!NeverOverfull
  <2>3. Cardinality(M') <= MaxMembers
    BY <2>1, <2>2, PeopleAssumption
  <2>4. QED
    BY <2>3, OneCardinality DEF groups!NeverOverfull
<1>8. Counted'
  <2>1. groups!Administrators \subseteq groups!Administrators' \/ groups!Running({"role"}) \subseteq S
    BY <1>4
  <2> HIDE DEF S, next
  <2>2. QED
    BY <1>1, <1>2, <2>1, CountedStays
<1>9. Listed'
  <2>1. ASSUME NEW b \in unkeyed \ {w}
        PROVE  \/ b \in keyAsked \cap M'
               \/ \E q \in groups!Running({"ask"})' : gReq'[q].by = b
               \/ b \in gWiped
    <3>2. CASE \E q \in groups!Running({"ask"}) : gReq[q].by = b
      BY <1>1, <1>3, <3>2 DEF groups!Running
    <3>3. CASE ~ \E q \in groups!Running({"ask"}) : gReq[q].by = b
      BY <1>4, <3>3 DEF GroupInv, Listed, groups!WaitingIsListed, groups!Pending
    <3>4. QED
      BY <3>2, <3>3
  <2>2. QED
    BY <1>2, <1>4, <2>1 DEF GroupInv, Listed, groups!WaitingIsListed, groups!Pending
<1>10. Led'
  <2>1. groups!Running({"clear", "promote"}) \subseteq groups!Running({"clear", "promote"})'
    BY <1>1, <1>3 DEF groups!Running
  <2>2. CASE w \in M
    BY <1>2, <1>3, <1>4, <2>2 DEF Led, groups!AdministeredUnlessRaced, groups!Running
  <2>3. CASE w \notin M
    <3>1. M' = M /\ groups!Administrators' = groups!Administrators
      BY <1>4, <2>3 DEF groups!Members, groups!Administrators
    <3>2. QED
      BY <1>2, <2>1, <3>1 DEF GroupInv, Led, groups!AdministeredUnlessRaced
  <2>4. QED
    BY <2>2, <2>3
<1>11. QED
  BY <1>5, <1>6, <1>7, <1>8, <1>9, <1>10 DEF GroupInv

LEMMA GroupRemoveClear ==
    ASSUME GroupInv, NEW r \in Requests, groups!RemoveClear(r) PROVE GroupInv'
<1> DEFINE w == gReq[r].whom
<1>1. w \in Crew /\ gReq[r].op = "clear" /\ "promote" \in groups!Ops \ {"role"}
  BY DEF GroupInv, GroupTypes, GroupReq, groups!RemoveClear, groups!Ops
<1>2. /\ keyAsked' = keyAsked \ {w} /\ gWiped' = IF w \in unkeyed THEN gWiped \cup {w} ELSE gWiped
      /\ groups!Proceed(r, "promote", {})
      /\ UNCHANGED <<role, since, code, deleted, gMade, unkeyed, raced, emptied>>
  BY DEF groups!RemoveClear
<1>3. /\ gReq' \in [Requests -> GroupReq]
      /\ \A q \in Requests \ {r} : gReq'[q].op = gReq[q].op /\ gReq'[q].by = gReq[q].by
  BY <1>1, <1>2, GroupProceeds, OthersProceed DEF GroupInv
<1>4. GroupTypes'
  BY <1>1, <1>2, <1>3 DEF GroupInv, GroupTypes
<1>5. Counted' /\ Led'
  BY <1>1, <1>2, SameMembers, CountedStays, LedStays
<1>6. Listed'
  <2>1. ASSUME NEW b \in unkeyed
        PROVE  \/ b \in keyAsked' \cap groups!Members
               \/ \E q \in groups!Running({"ask"})' : gReq'[q].by = b
               \/ b \in gWiped'
    <3>1. CASE b = w
      BY <1>2, <3>1
    <3>2. CASE \E q \in groups!Running({"ask"}) : gReq[q].by = b
      BY <1>1, <1>3, <3>2 DEF groups!Running
    <3>3. CASE b # w /\ ~ \E q \in groups!Running({"ask"}) : gReq[q].by = b
      BY <1>2, <3>3 DEF GroupInv, Listed, groups!WaitingIsListed, groups!Pending
    <3>4. QED
      BY <3>1, <3>2, <3>3
  <2>2. QED
    BY <1>2, <2>1, SameMembers DEF GroupInv, Listed, groups!WaitingIsListed, groups!Pending
<1>7. QED
  BY <1>2, <1>4, <1>5, <1>6, SameMembers DEF GroupInv

\* The first of the order is a member, and from now on an administrator.
LEMMA GroupRemovePromote ==
    ASSUME GroupInv, NEW r \in Requests, groups!RemovePromote(r) PROVE GroupInv'
<1> DEFINE M == groups!Members
           A == groups!Administrators
<1>1. gReq[r].op = "promote" /\ "idle" \in groups!Ops \ {"role"}
  BY DEF groups!RemovePromote, groups!Ops
<1>2. /\ role' = IF A = {} /\ M # {} THEN [role EXCEPT ![since[1]] = "admin"] ELSE role
      /\ groups!Proceed(r, "idle", {})
      /\ UNCHANGED <<since, code, deleted, keyAsked, gMade, unkeyed, gWiped, raced, emptied>>
  BY DEF groups!RemovePromote, groups!history
<1>3. /\ gReq' \in [Requests -> GroupReq]
      /\ \A q \in Requests \ {r} : gReq'[q].op = gReq[q].op /\ gReq'[q].by = gReq[q].by
  BY <1>1, <1>2, GroupProceeds, OthersProceed DEF GroupInv
<1>4. M # {} => since[1] \in M
  <2>1. ASSUME NEW a \in M PROVE since[1] \in M
    <3>1. PICK i \in 1..Len(since) : since[i] = a
      BY DEF GroupInv, Ordered
    <3>2. Len(since) \in Nat
      BY DEF GroupInv, GroupTypes
    <3>3. 1 \in 1..Len(since)
      BY <3>1, <3>2
    <3>4. QED
      BY <3>3 DEF GroupInv, Ordered
  <2>2. QED
    BY <2>1
<1>5. /\ role' \in [Crew -> {"none", "member", "admin"}]
      /\ M' = M /\ A \subseteq A' /\ (M # {} => A' # {})
  <2>1. M \subseteq Crew /\ A \subseteq Crew /\ role \in [Crew -> {"none", "member", "admin"}]
    BY DEF groups!Members, groups!Administrators, GroupInv, GroupTypes
  <2>2. CASE A = {} /\ M # {}
    <3>1. role' = [role EXCEPT ![since[1]] = "admin"] /\ since[1] \in M
      BY <1>2, <1>4, <2>2
    <3>2. M' = M
      BY <2>1, <3>1 DEF groups!Members
    <3>3. since[1] \in A'
      BY <2>1, <3>1 DEF groups!Administrators
    <3>4. QED
      BY <2>1, <2>2, <3>1, <3>2, <3>3
  <2>3. CASE ~ (A = {} /\ M # {})
    <3>1. role' = role
      BY <1>2, <2>3
    <3>2. M' = M /\ A' = A
      BY <3>1 DEF groups!Members, groups!Administrators
    <3>3. QED
      BY <2>1, <2>3, <3>1, <3>2
  <2>4. QED
    BY <2>2, <2>3
<1>6. GroupTypes'
  BY <1>2, <1>3, <1>5 DEF GroupInv, GroupTypes
<1>7. Ordered' /\ groups!NeverOverfull'
  BY <1>2, <1>5 DEF GroupInv, Ordered, groups!NeverOverfull
<1>8. Counted' /\ Listed'
  BY <1>1, <1>2, <1>5, CountedStays, ListedStays
<1>9. Led'
  BY <1>2, <1>5 DEF GroupInv, Led, groups!AdministeredUnlessRaced
<1>10. QED
  BY <1>6, <1>7, <1>8, <1>9 DEF GroupInv

\* Whoever steps down in time leaves another administrator.
LEMMA GroupSetRoleRow ==
    ASSUME GroupInv, NEW r \in Requests, groups!SetRoleRow(r) PROVE GroupInv'
<1> DEFINE w == gReq[r].whom
           to == gReq[r].to
           M == groups!Members
           A == groups!Administrators
           down == w \in A /\ to = "member"
           S == IF down THEN groups!Running({"role"}) ELSE {}
<1>1. w \in Crew /\ to \in {"member", "admin"} /\ gReq[r].op = "role" /\ gReq[r].late \in BOOLEAN
      /\ "idle" \in groups!Ops \ {"role"} /\ S \in SUBSET Requests
  BY DEF GroupInv, GroupTypes, GroupReq, groups!SetRoleRow, groups!Ops, groups!Running
<1>2. /\ role' = IF w \in M THEN [role EXCEPT ![w] = to] ELSE role
      /\ raced' = (raced \/ (down /\ gReq[r].late))
      /\ groups!Proceed(r, "idle", S)
      /\ UNCHANGED <<since, code, deleted, keyAsked, gMade, unkeyed, gWiped, emptied>>
  BY DEF groups!SetRoleRow
<1>3. /\ gReq' \in [Requests -> GroupReq] /\ gReq'[r].op = "idle"
      /\ \A q \in Requests \ {r} : gReq'[q].op = gReq[q].op /\ gReq'[q].by = gReq[q].by
  <2> HIDE DEF S
  <2>1. QED
    BY <1>1, <1>2, GroupProceeds, OthersProceed DEF GroupInv
<1>4. role \in [Crew -> {"none", "member", "admin"}]
  BY DEF GroupInv, GroupTypes
<1>5. role' \in [Crew -> {"none", "member", "admin"}] /\ M' = M
  BY <1>1, <1>2, <1>4 DEF groups!Members
<1>6. A \ {w} \subseteq A' /\ (~ down => A \subseteq A')
  BY <1>1, <1>2, <1>4 DEF groups!Administrators, groups!Members
<1>7. GroupTypes'
  BY <1>2, <1>3, <1>5 DEF GroupInv, GroupTypes
<1>8. Ordered' /\ groups!NeverOverfull'
  BY <1>2, <1>5 DEF GroupInv, Ordered, groups!NeverOverfull
<1>9. Counted'
  <2>1. A \subseteq A' \/ groups!Running({"role"}) \subseteq S
    BY <1>6
  <2> HIDE DEF S
  <2>2. QED
    BY <1>1, <1>2, <2>1, CountedStays
<1>10. Listed'
  <2> HIDE DEF S
  <2>1. QED
    BY <1>1, <1>2, <1>5, ListedStays
<1>11. Led'
  <2>1. CASE down /\ ~ gReq[r].late
    <3>1. \E a \in A : a # w
      BY <1>1, <2>1 DEF GroupInv, Counted
    <3>2. QED
      BY <1>2, <1>5, <1>6, <3>1 DEF GroupInv, Led, groups!AdministeredUnlessRaced
  <2>2. CASE down /\ gReq[r].late
    BY <1>2, <1>5, <2>2 DEF GroupInv, Led, groups!AdministeredUnlessRaced
  <2>3. CASE ~ down
    <3>1. S = {}
      BY <2>3
    <3> HIDE DEF S
    <3>2. QED
      BY <1>1, <1>2, <1>5, <1>6, <2>3, <3>1, LedStays
  <2>4. QED
    BY <2>1, <2>2, <2>3
<1>12. QED
  BY <1>7, <1>8, <1>9, <1>10, <1>11 DEF GroupInv

LEMMA GroupRotateRow ==
    ASSUME GroupInv, NEW r \in Requests, groups!RotateRow(r) \/ groups!DeleteGroupRow(r)
    PROVE  GroupInv'
<1>1. /\ gReq[r].op \notin {"ask", "clear", "promote"} /\ "idle" \in groups!Ops \ {"role"}
      /\ groups!Proceed(r, "idle", {})
      /\ UNCHANGED <<role, since, keyAsked, gMade, unkeyed, gWiped, raced, emptied>>
  BY DEF groups!RotateRow, groups!DeleteGroupRow, groups!history, GroupInv, GroupTypes, groups!Ops
<1>2. gReq' \in [Requests -> GroupReq] /\ code' \in Nat /\ deleted' \in BOOLEAN
  <2>1. code' \in Nat /\ deleted' \in BOOLEAN
    <3>1. code \in Nat /\ deleted \in BOOLEAN
      BY DEF GroupInv, GroupTypes
    <3>2. CASE groups!RotateRow(r)
      BY <3>1, <3>2 DEF groups!RotateRow
    <3>3. CASE groups!DeleteGroupRow(r)
      BY <3>1, <3>3 DEF groups!DeleteGroupRow
    <3>4. QED
      BY <3>2, <3>3
  <2>2. QED
    BY <1>1, <2>1, GroupProceeds, OthersProceed DEF GroupInv
<1>3. GroupTypes'
  BY <1>1, <1>2 DEF GroupInv, GroupTypes
<1>4. Counted' /\ Led' /\ Listed'
  BY <1>1, SameMembers, CountedStays, LedStays, ListedStays
<1>5. QED
  BY <1>1, <1>3, <1>4, SameMembers DEF GroupInv

LEMMA GroupPreserved == GroupInv /\ [groups!Next]_groups!vars => GroupInv'
<1>1. ASSUME GroupInv, NEW r \in Requests, groups!Continues(r) PROVE GroupInv'
  BY <1>1, GroupAddRow, GroupJoinRow, GroupAskRow, GroupAcknowledgeRow, GroupRemoveRow,
     GroupRemoveClear, GroupRemovePromote, GroupSetRoleRow, GroupRotateRow DEF groups!Continues
<1>2. ASSUME GroupInv, UNCHANGED groups!vars PROVE GroupInv'
  BY <1>2 DEF groups!vars, GroupInv, GroupTypes, Ordered, groups!NeverOverfull, Listed,
     groups!WaitingIsListed, groups!Pending, groups!Running, Counted, Led,
     groups!AdministeredUnlessRaced, groups!Members, groups!Administrators
<1>3. QED
  BY <1>1, <1>2, GroupChecked DEF groups!Next

\* What the runs check of a group.
LEMMA GroupKeeps ==
    GroupInv => groups!NeverOverfull /\ groups!WaitingIsListed /\ groups!AdministeredUnlessRaced
BY DEF GroupInv, Listed, Led

-----------------------------------------------------------------------------
(* Operators. *)

StaffRow == [known : BOOLEAN, role : operators!Roles, disabled : BOOLEAN, secret : Nat,
             enabled : BOOLEAN]
StaffReq == [op : operators!Ops, as : 0..MaxSessions, who : Staff,
             role : {"owner", "other", "same"}, turn : {"same", "off", "on"}, secret : Nat,
             late : BOOLEAN]

StaffTypes ==
    /\ operator \in [Staff -> StaffRow] /\ \A o \in Staff : operator[o].secret <= secrets
    /\ logins \in [1..MaxSessions -> [of : Staff, live : BOOLEAN]] /\ sessions \in 1..MaxSessions
    /\ oReq \in [Requests -> StaffReq] /\ oMade \in Nat
    /\ era \in [Staff -> Nat] /\ seen \in [1..MaxSessions -> Nat]
    /\ overlapped \subseteq 1..MaxSessions
    /\ secrets \in Nat /\ shown \subseteq 1..secrets /\ crowded \in BOOLEAN

\* Sessions and requests are of operators there are; only those can be disabled.
StaffKnown ==
    /\ \A o \in Staff : operator[o].disabled \/ operator[o].enabled => operator[o].known
    /\ \A s \in 1..MaxSessions :
          operator[logins[s].of].known /\ (logins[s].live => s <= sessions)
    /\ \A r \in Requests :
          /\ oReq[r].op \in {"login", "password", "others", "setup", "enable", "patch", "row"} =>
                operator[oReq[r].who].known
          /\ oReq[r].op \in {"password", "others"} =>
                oReq[r].as \in 1..sessions /\ logins[oReq[r].as].of = oReq[r].who
          /\ oReq[r].op = "create" => oReq[r].role # "same"

\* Who shuts an owner out, and is not late, leaves another one.
OwnersCounted ==
    \A r \in Requests :
        oReq[r].op = "row" /\ ~ oReq[r].late /\ (oReq[r].role = "other" \/ oReq[r].turn = "off") =>
            crowded \/ \E o \in operators!Owners : o # oReq[r].who

\* Who switches a factor on, and is not late, has shown a code of what is in the row;
\* who sets one up, and is not late, finds it off.
FactorsAsked ==
    \A r \in Requests :
        /\ oReq[r].op = "enable" /\ ~ oReq[r].late => operator[oReq[r].who].secret \in shown
        /\ oReq[r].op = "setup" /\ ~ oReq[r].late => ~ operator[oReq[r].who].enabled

StaffInv ==
    /\ StaffTypes /\ StaffKnown /\ OwnersCounted /\ FactorsAsked
    /\ operators!AnOwnerRemainsUnlessRaced /\ operators!StandingSignIns

LEMMA StaffIdle ==
    operators!Idle \in StaffReq /\ operators!Idle.op = "idle" /\ operators!Idle.late = FALSE
BY PeopleAssumption DEF operators!Idle, StaffReq, operators!Ops

LEMMA StaffInitial == operators!Init => StaffInv
<1> SUFFICES ASSUME operators!Init PROVE StaffInv
  OBVIOUS
<1> USE PeopleAssumption, StaffIdle
<1>1. /\ \A o \in Staff : /\ operator[o] \in StaffRow /\ operator[o].secret = 0
                         /\ ~ operator[o].disabled /\ ~ operator[o].enabled
      /\ operator = [o \in Staff |-> operator[o]]
  BY DEF operators!Init, operators!Roles, StaffRow
<1>2. operator[First].known /\ First \in operators!Owners
  <2>1. operators!IsOwner(First)
    BY DEF operators!Init
  <2>2. QED
    BY <2>1 DEF operators!IsOwner, operators!Owners
<1>3. /\ logins = [s \in 1..MaxSessions |-> [of |-> First, live |-> s = 1]] /\ sessions = 1
      /\ oReq = [r \in Requests |-> operators!Idle] /\ oMade = 0
      /\ era = [o \in Staff |-> 0] /\ seen = [s \in 1..MaxSessions |-> 0] /\ overlapped = {}
      /\ secrets = 0 /\ shown = {} /\ crowded = FALSE
  BY DEF operators!Init, operators!Ids
<1>4. StaffTypes
  <2>1. 1 \in 1..MaxSessions
    OBVIOUS
  <2>2. \A s \in 1..MaxSessions : [of |-> First, live |-> s = 1] \in [of : Staff, live : BOOLEAN]
    OBVIOUS
  <2>3. operator \in [Staff -> StaffRow] /\ \A o \in Staff : operator[o].secret <= 0
    BY <1>1
  <2>4. QED
    BY <1>3, <2>1, <2>2, <2>3 DEF StaffTypes
<1>5. StaffKnown
  <2>1. \A s \in 1..MaxSessions : logins[s].of = First /\ (logins[s].live => s <= sessions)
    <3> TAKE s \in 1..MaxSessions
    <3>1. logins[s].of = First
      BY <1>3
    <3>2. CASE s = 1
      BY <1>3, <3>1, <3>2
    <3>3. CASE s # 1
      <4>1. (s = 1) = FALSE
        BY <3>3
      <4>2. logins[s] = [of |-> First, live |-> FALSE]
        BY <1>3, <4>1, Zenon
      <4>3. logins[s].live = FALSE
        BY <4>2
      <4>4. QED
        BY <3>1, <4>3
    <3>4. QED
      BY <3>2, <3>3
  <2>2. \A r \in Requests : oReq[r].op = "idle"
    BY <1>3
  <2>3. QED
    BY <1>1, <1>2, <2>1, <2>2 DEF StaffKnown
<1>6. OwnersCounted /\ FactorsAsked
  BY <1>3 DEF OwnersCounted, FactorsAsked
<1>7. operators!AnOwnerRemainsUnlessRaced
  BY <1>2 DEF operators!AnOwnerRemainsUnlessRaced
<1>8. operators!StandingSignIns
  BY <1>3 DEF operators!StandingSignIns, operators!Ids
<1>9. QED
  BY <1>4, <1>5, <1>6, <1>7, <1>8 DEF StaffInv

LEMMA StaffProceeds ==
    ASSUME StaffTypes, NEW r \in Requests, NEW q \in StaffReq, NEW S \in SUBSET Requests,
           operators!Proceed(r, q, S)
    PROVE  oReq' \in [Requests -> StaffReq] /\ oReq'[r] = q
<1>1. \A s \in Requests : oReq[s] \in StaffReq /\ [oReq[s] EXCEPT !.late = TRUE] \in StaffReq
  BY DEF StaffTypes, StaffReq
<1>2. oReq' = [s \in Requests |-> oReq'[s]]
  BY DEF operators!Proceed
<1>3. oReq'[r] = q
  BY DEF operators!Proceed
<1>4. \A s \in Requests \ {r} : oReq'[s] = IF s \in S THEN [oReq[s] EXCEPT !.late = TRUE] ELSE oReq[s]
  BY DEF operators!Proceed
<1>5. \A s \in Requests : oReq'[s] \in StaffReq
  BY <1>1, <1>3, <1>4
<1>6. QED
  BY <1>2, <1>3, <1>5

LEMMA OtherStaffProceed ==
    ASSUME StaffTypes, NEW r \in Requests, NEW q \in StaffReq, NEW S \in SUBSET Requests,
           operators!Proceed(r, q, S), NEW s \in Requests \ {r}
    PROVE  /\ oReq'[s].op = oReq[s].op /\ oReq'[s].as = oReq[s].as /\ oReq'[s].who = oReq[s].who
           /\ oReq'[s].role = oReq[s].role /\ oReq'[s].turn = oReq[s].turn
           /\ ~ oReq'[s].late => ~ oReq[s].late /\ s \notin S
<1> DEFINE l == [oReq[s] EXCEPT !.late = TRUE]
<1>1. oReq[s] \in StaffReq
  BY DEF StaffTypes
<1>2. /\ l.op = oReq[s].op /\ l.as = oReq[s].as /\ l.who = oReq[s].who
      /\ l.role = oReq[s].role /\ l.turn = oReq[s].turn /\ l.late = TRUE
  BY <1>1 DEF StaffReq
<1>3. oReq'[s] = IF s \in S THEN l ELSE oReq[s]
  BY DEF operators!Proceed
<1> HIDE DEF l
<1>4. QED
  BY <1>2, <1>3

\* A request begins: what it was checked against is so.
LEMMA StaffAsked ==
    ASSUME StaffInv, NEW r \in Requests, NEW q \in StaffReq, operators!Begin(r, q),
           UNCHANGED <<operator, logins, sessions, era, seen, overlapped, secrets, crowded>>,
           shown \subseteq shown', shown' \subseteq 1..secrets,
           q.op \in {"login", "create", "patch", "password", "setup", "enable"},
           q.op # "create" => operator[q.who].known, q.op = "create" => q.role # "same",
           q.op = "password" => q.as \in 1..sessions /\ logins[q.as].of = q.who,
           q.op = "enable" => operator[q.who].secret \in shown',
           q.op = "setup" => ~ operator[q.who].enabled
    PROVE  StaffInv'
<1>1. /\ oReq' \in [Requests -> StaffReq] /\ oReq'[r] = q /\ oReq[r].op = "idle" /\ oMade' \in Nat
      /\ \A s \in Requests \ {r} : oReq'[s] = oReq[s]
  BY DEF operators!Begin, StaffInv, StaffTypes
<1>2. StaffTypes'
  BY <1>1 DEF StaffInv, StaffTypes
<1>3. StaffKnown'
  BY <1>1 DEF StaffInv, StaffKnown
<1>4. UNCHANGED operators!Owners
  BY DEF operators!Owners, operators!IsOwner
<1>5. OwnersCounted'
  BY <1>1, <1>4 DEF StaffInv, OwnersCounted
<1>6. FactorsAsked'
  BY <1>1 DEF StaffInv, FactorsAsked
<1>7. operators!AnOwnerRemainsUnlessRaced'
  BY <1>4 DEF StaffInv, operators!AnOwnerRemainsUnlessRaced
<1>8. operators!StandingSignIns'
  BY <1>1 DEF StaffInv, operators!StandingSignIns, operators!Usable, operators!Running
<1>9. QED
  BY <1>2, <1>3, <1>5, <1>6, <1>7, <1>8 DEF StaffInv

LEMMA StaffChecked ==
    ASSUME StaffInv, NEW r \in Requests, operators!Checked(r) PROVE StaffInv'
<1> USE PeopleAssumption
<1>a. /\ operators!Ids = 1..MaxSessions /\ 1..sessions \subseteq 1..MaxSessions
      /\ 0 \in 0..MaxSessions /\ \A c \in 0..secrets : c \in Nat
      /\ \A s \in 1..MaxSessions : s \in 0..MaxSessions
  BY DEF operators!Ids, StaffInv, StaffTypes
<1>b. \A s \in 1..MaxSessions : logins[s].of \in Staff
  BY DEF StaffInv, StaffTypes
<1>c. \A s \in 1..MaxSessions : operator[logins[s].of].known /\ (logins[s].live => s \in 1..sessions)
  BY DEF StaffInv, StaffKnown, StaffTypes
<1>d. /\ shown \subseteq 1..secrets /\ secrets \in Nat
      /\ \A o \in Staff : operator[o].secret \in 0..secrets
  BY DEF StaffInv, StaffTypes, StaffRow
<1>1. ASSUME NEW o \in Staff, operators!Login(r, o) PROVE StaffInv'
  <2> DEFINE q == [operators!Idle EXCEPT !.op = "login", !.who = o]
  <2>1. q \in StaffReq /\ q.op = "login" /\ q.who = o
    BY <1>a DEF operators!Idle, StaffReq, operators!Ops
  <2>2. operators!Begin(r, q) /\ operator[o].known
        /\ UNCHANGED <<operator, logins, sessions, era, seen, overlapped, secrets, shown, crowded>>
    BY <1>1 DEF operators!Login, operators!history
  <2> HIDE DEF q
  <2>3. QED
    BY <1>d, <2>1, <2>2, StaffAsked
<1>2. ASSUME NEW s \in operators!Ids, operators!ChangePassword(r, s) PROVE StaffInv'
  <2> DEFINE q == operators!Asked("password", s)
  <2>1. q \in StaffReq /\ q.op = "password" /\ q.who = logins[s].of /\ q.as = s
    BY <1>a, <1>b DEF operators!Asked, operators!Idle, StaffReq, operators!Ops
  <2>2. operators!Begin(r, q) /\ logins[s].live
        /\ UNCHANGED <<operator, logins, sessions, era, seen, overlapped, secrets, shown, crowded>>
    BY <1>2 DEF operators!ChangePassword, operators!history, operators!Usable
  <2> HIDE DEF q
  <2>3. QED
    BY <1>a, <1>c, <1>d, <2>1, <2>2, StaffAsked
<1>3. ASSUME NEW s \in operators!Ids, operators!TotpSetup(r, s) PROVE StaffInv'
  <2> DEFINE q == operators!Asked("setup", s)
  <2>1. q \in StaffReq /\ q.op = "setup" /\ q.who = logins[s].of
    BY <1>a, <1>b DEF operators!Asked, operators!Idle, StaffReq, operators!Ops
  <2>2. operators!Begin(r, q) /\ ~ operator[logins[s].of].enabled
        /\ UNCHANGED <<operator, logins, sessions, era, seen, overlapped, secrets, shown, crowded>>
    BY <1>3 DEF operators!TotpSetup, operators!history
  <2> HIDE DEF q
  <2>3. QED
    BY <1>a, <1>c, <1>d, <2>1, <2>2, StaffAsked
<1>4. ASSUME NEW s \in operators!Ids, operators!TotpEnable(r, s) PROVE StaffInv'
  <2> DEFINE c == operator[logins[s].of].secret
             q == [operators!Asked("enable", s) EXCEPT !.secret = c]
  <2>1. q \in StaffReq /\ q.op = "enable" /\ q.who = logins[s].of /\ c \in 0..secrets
    BY <1>a, <1>b, <1>d DEF operators!Asked, operators!Idle, StaffReq, operators!Ops
  <2>2. operators!Begin(r, q) /\ c # 0 /\ shown' = shown \cup {c}
        /\ UNCHANGED <<operator, logins, sessions, era, seen, overlapped, secrets, crowded>>
    BY <1>4 DEF operators!TotpEnable
  <2> HIDE DEF q
  <2>3. shown \subseteq shown' /\ shown' \subseteq 1..secrets /\ c \in shown'
    <3>1. c \in 1..secrets
      BY <1>d, <2>1, <2>2
    <3> HIDE DEF c
    <3>2. QED
      BY <1>d, <2>2, <3>1
  <2>4. QED
    BY <1>a, <1>c, <1>d, <2>1, <2>2, <2>3, StaffAsked
<1>5. ASSUME NEW s \in operators!Ids, NEW o \in Staff, NEW x \in operators!Roles,
             operators!Create(r, s, o, x)
      PROVE  StaffInv'
  <2> DEFINE q == [operators!Asked("create", s) EXCEPT !.who = o, !.role = x]
  <2>1. q \in StaffReq /\ q.op = "create" /\ q.role # "same"
    BY <1>a, <1>b DEF operators!Asked, operators!Idle, StaffReq, operators!Ops, operators!Roles
  <2>2. operators!Begin(r, q)
        /\ UNCHANGED <<operator, logins, sessions, era, seen, overlapped, secrets, shown, crowded>>
    BY <1>5 DEF operators!Create, operators!history
  <2> HIDE DEF q
  <2>3. QED
    BY <1>d, <2>1, <2>2, StaffAsked
<1>6. ASSUME NEW s \in operators!Ids, NEW o \in Staff, NEW x \in operators!Roles \cup {"same"},
             NEW t \in {"same", "off", "on"}, operators!Patch(r, s, o, x, t)
      PROVE  StaffInv'
  <2> DEFINE q == [operators!Asked("patch", s) EXCEPT !.who = o, !.role = x, !.turn = t]
  <2>1. q \in StaffReq /\ q.op = "patch" /\ q.who = o
    BY <1>a, <1>b DEF operators!Asked, operators!Idle, StaffReq, operators!Ops, operators!Roles
  <2>2. operators!Begin(r, q) /\ operator[o].known
        /\ UNCHANGED <<operator, logins, sessions, era, seen, overlapped, secrets, shown, crowded>>
    BY <1>6 DEF operators!Patch, operators!history
  <2> HIDE DEF q
  <2>3. QED
    BY <1>d, <2>1, <2>2, StaffAsked
<1>7. QED
  BY <1>1, <1>2, <1>3, <1>4, <1>5, <1>6 DEF operators!Checked

\* Nobody counted on an owner who is gone, or they are late.
LEMMA OwnersStay ==
    ASSUME StaffInv, NEW r \in Requests, NEW q \in StaffReq, NEW S \in SUBSET Requests,
           operators!Proceed(r, q, S), q.op # "row", crowded => crowded',
           operators!Owners \subseteq operators!Owners' \/ operators!Running({"row"}) \subseteq S
    PROVE  OwnersCounted'
<1>1. /\ oReq'[r] = q
  BY StaffProceeds DEF StaffInv
<1>2. \A s \in Requests \ {r} :
            /\ oReq'[s].op = oReq[s].op /\ oReq'[s].who = oReq[s].who
            /\ oReq'[s].role = oReq[s].role /\ oReq'[s].turn = oReq[s].turn
            /\ ~ oReq'[s].late => ~ oReq[s].late /\ s \notin S
  BY OtherStaffProceed DEF StaffInv
<1>3. ASSUME NEW s \in Requests, oReq'[s].op = "row", ~ oReq'[s].late,
             oReq'[s].role = "other" \/ oReq'[s].turn = "off"
      PROVE  crowded' \/ \E o \in operators!Owners' : o # oReq'[s].who
  <2>1. s # r
    BY <1>1, <1>3
  <2>2. /\ oReq[s].op = "row" /\ ~ oReq[s].late /\ s \notin S /\ oReq'[s].who = oReq[s].who
        /\ oReq[s].role = "other" \/ oReq[s].turn = "off"
    BY <1>2, <1>3, <2>1
  <2>3. operators!Owners \subseteq operators!Owners'
    BY <2>2 DEF operators!Running
  <2>4. crowded \/ \E o \in operators!Owners : o # oReq[s].who
    BY <2>2 DEF StaffInv, OwnersCounted
  <2>5. QED
    BY <2>2, <2>3, <2>4
<1>4. QED
  BY <1>3 DEF OwnersCounted

\* Those whose factor was written in between are late.
LEMMA FactorsStay ==
    ASSUME StaffInv, NEW r \in Requests, NEW q \in StaffReq, NEW S \in SUBSET Requests,
           operators!Proceed(r, q, S), q.op \notin {"enable", "setup"}, shown' = shown,
           \A s \in Requests \ S :
               /\ oReq[s].op = "enable" => s = r \/
                     operator'[oReq[s].who].secret = operator[oReq[s].who].secret
               /\ oReq[s].op = "setup" => s = r \/
                     (operator'[oReq[s].who].enabled => operator[oReq[s].who].enabled)
    PROVE  FactorsAsked'
<1>1. oReq'[r] = q
  BY StaffProceeds DEF StaffInv
<1>2. \A s \in Requests \ {r} :
            /\ oReq'[s].op = oReq[s].op /\ oReq'[s].who = oReq[s].who
            /\ ~ oReq'[s].late => ~ oReq[s].late /\ s \notin S
  BY OtherStaffProceed DEF StaffInv
<1>3. ASSUME NEW s \in Requests, ~ oReq'[s].late, oReq'[s].op \in {"enable", "setup"}
      PROVE  /\ oReq'[s].op = "enable" => operator'[oReq'[s].who].secret \in shown'
             /\ oReq'[s].op = "setup" => ~ operator'[oReq'[s].who].enabled
  <2>1. s # r
    BY <1>1, <1>3
  <2>2. /\ oReq'[s].op = oReq[s].op /\ oReq'[s].who = oReq[s].who
        /\ ~ oReq[s].late /\ s \notin S
    BY <1>2, <1>3, <2>1
  <2>3. /\ oReq[s].op = "enable" => operator[oReq[s].who].secret \in shown
        /\ oReq[s].op = "setup" => ~ operator[oReq[s].who].enabled
    BY <2>2 DEF StaffInv, FactorsAsked
  <2>4. QED
    BY <2>1, <2>2, <2>3
<1>4. QED
  BY <1>3 DEF FactorsAsked

\* The operators there are stay, and so do the sessions' owners.
LEMMA KnownStays ==
    ASSUME StaffInv, NEW r \in Requests, NEW q \in StaffReq, NEW S \in SUBSET Requests,
           operators!Proceed(r, q, S), sessions' = sessions,
           \A o \in Staff : /\ operator[o].known => operator'[o].known
                            /\ operator'[o].disabled \/ operator'[o].enabled => operator'[o].known,
           \A s \in 1..MaxSessions : logins'[s].of = logins[s].of /\ (logins'[s].live => logins[s].live),
           q.op # "create", q.op # "idle" => operator[q.who].known,
           q.op \in {"password", "others"} => q.as \in 1..sessions /\ logins[q.as].of = q.who
    PROVE  StaffKnown'
<1>1. oReq'[r] = q
  BY StaffProceeds DEF StaffInv
<1>2. \A s \in Requests \ {r} :
            /\ oReq'[s].op = oReq[s].op /\ oReq'[s].who = oReq[s].who /\ oReq'[s].as = oReq[s].as
            /\ oReq'[s].role = oReq[s].role
  BY OtherStaffProceed DEF StaffInv
<1>3. /\ \A s \in Requests : oReq[s].who \in Staff
      /\ \A s \in 1..MaxSessions : logins[s].of \in Staff
      /\ q.who \in Staff /\ 1..sessions \subseteq 1..MaxSessions
  <2>1. sessions \in 1..MaxSessions /\ q.who \in Staff
    BY DEF StaffInv, StaffTypes, StaffReq
  <2>2. 1..sessions \subseteq 1..MaxSessions
    BY <2>1, PeopleAssumption
  <2>3. QED
    BY <2>1, <2>2 DEF StaffInv, StaffTypes, StaffReq
<1>4. \A s \in 1..MaxSessions : operator'[logins'[s].of].known /\ (logins'[s].live => s <= sessions')
  BY <1>3 DEF StaffInv, StaffKnown
<1>5. ASSUME NEW s \in Requests
      PROVE  /\ oReq'[s].op \in {"login", "password", "others", "setup", "enable", "patch", "row"} =>
                   operator'[oReq'[s].who].known
             /\ oReq'[s].op \in {"password", "others"} =>
                   oReq'[s].as \in 1..sessions' /\ logins'[oReq'[s].as].of = oReq'[s].who
             /\ oReq'[s].op = "create" => oReq'[s].role # "same"
  <2>1. CASE s = r
    BY <1>1, <1>3, <2>1
  <2>2. CASE s # r
    BY <1>2, <1>3, <2>2 DEF StaffInv, StaffKnown
  <2>3. QED
    BY <2>1, <2>2
<1>6. QED
  BY <1>4, <1>5 DEF StaffKnown

\* Sessions are what they were, and whoever ends some goes on.
LEMMA SessionsStay ==
    ASSUME StaffInv, NEW r \in Requests, NEW q \in StaffReq, NEW S \in SUBSET Requests,
           operators!Proceed(r, q, S), UNCHANGED <<era, seen>>,
           oReq[r].op \notin {"end", "others"}, overlapped \subseteq overlapped',
           \A s \in 1..MaxSessions : /\ logins'[s].of = logins[s].of
                                     /\ operators!Usable(s)' => operators!Usable(s)
    PROVE  operators!StandingSignIns'
<1>1. \A s \in Requests \ {r} :
            oReq'[s].op = oReq[s].op /\ oReq'[s].who = oReq[s].who /\ oReq'[s].as = oReq[s].as
  BY OtherStaffProceed DEF StaffInv
<1>2. \A s \in operators!Running({"end", "others"}) :
         /\ s \in operators!Running({"end", "others"})'
         /\ oReq'[s].op = oReq[s].op /\ oReq'[s].who = oReq[s].who /\ oReq'[s].as = oReq[s].as
  BY <1>1 DEF operators!Running
<1>3. QED
  BY <1>2 DEF StaffInv, operators!StandingSignIns, operators!Ids

\* What is known of a request between two of its steps.
LEMMA StaffRequest ==
    ASSUME StaffInv, NEW r \in Requests
    PROVE  /\ oReq[r] \in StaffReq /\ oReq[r].who \in Staff /\ oReq[r].late \in BOOLEAN
           /\ oReq[r].role \in {"owner", "other", "same"} /\ oReq[r].turn \in {"same", "off", "on"}
           /\ \A x \in operators!Ops : LET q == [oReq[r] EXCEPT !.op = x] IN
                 /\ q \in StaffReq /\ q.op = x /\ q.who = oReq[r].who /\ q.as = oReq[r].as
                 /\ q.role = oReq[r].role /\ q.turn = oReq[r].turn /\ q.late = oReq[r].late
<1>1. oReq[r] \in StaffReq
  BY DEF StaffInv, StaffTypes
<1>2. QED
  BY <1>1 DEF StaffReq

\* A new session is of the era its operator is in.
LEMMA StaffLoginSession ==
    ASSUME StaffInv, NEW r \in Requests, operators!LoginSession(r) PROVE StaffInv'
<1> DEFINE o == oReq[r].who
           n == sessions + 1
           q == operators!Idle
<1>1. /\ oReq[r].op = "login" /\ sessions < MaxSessions /\ sessions' = n
      /\ logins' = [logins EXCEPT ![n] = [of |-> o, live |-> TRUE]]
      /\ seen' = [seen EXCEPT ![n] = era[o]]
      /\ overlapped' = IF oReq[r].late THEN overlapped \cup {n} ELSE overlapped
      /\ operators!Proceed(r, q, {})
      /\ UNCHANGED <<operator, oMade, era, secrets, shown, crowded>>
  BY DEF operators!LoginSession
<1>2. /\ o \in Staff /\ operator[o].known /\ q \in StaffReq /\ q.op = "idle"
  BY <1>1, StaffRequest, StaffIdle DEF StaffInv, StaffKnown
<1> HIDE DEF o, q
<1>3. /\ n \in 1..MaxSessions /\ sessions \in 1..MaxSessions /\ sessions \in Nat
      /\ \A s \in 1..MaxSessions : s <= sessions => s # n
  BY <1>1, PeopleAssumption DEF StaffInv, StaffTypes
<1> HIDE DEF n
<1>4. /\ oReq' \in [Requests -> StaffReq] /\ oReq'[r] = q
  BY <1>1, <1>2, StaffProceeds DEF StaffInv
<1>5. \A s \in Requests \ {r} :
         /\ oReq'[s].op = oReq[s].op /\ oReq'[s].who = oReq[s].who /\ oReq'[s].as = oReq[s].as
         /\ oReq'[s].role = oReq[s].role
  BY <1>1, <1>2, OtherStaffProceed DEF StaffInv
<1>6. /\ logins'[n].of = o
      /\ \A s \in 1..MaxSessions \ {n} : logins'[s] = logins[s] /\ seen'[s] = seen[s]
      /\ seen'[n] = era[o]
  BY <1>1, <1>3 DEF StaffInv, StaffTypes
<1>7. StaffTypes'
  <2>1. era[o] \in Nat
    BY <1>2 DEF StaffInv, StaffTypes
  <2>2. logins' \in [1..MaxSessions -> [of : Staff, live : BOOLEAN]]
    BY <1>1, <1>2, <1>3 DEF StaffInv, StaffTypes
  <2>3. seen' \in [1..MaxSessions -> Nat] /\ overlapped' \subseteq 1..MaxSessions
    BY <1>1, <1>3, <2>1 DEF StaffInv, StaffTypes
  <2>4. QED
    BY <1>1, <1>3, <1>4, <2>2, <2>3 DEF StaffInv, StaffTypes
<1>8. StaffKnown'
  <2>1. ASSUME NEW s \in 1..MaxSessions
        PROVE  operator'[logins'[s].of].known /\ (logins'[s].live => s <= sessions')
    <3>1. CASE s = n
      BY <1>1, <1>2, <1>3, <1>6, <3>1 DEF n
    <3>2. CASE s # n
      <4>1. operator[logins[s].of].known /\ (logins[s].live => s <= sessions)
        BY DEF StaffInv, StaffKnown
      <4>2. s <= sessions => s <= sessions'
        BY <1>1, <1>3 DEF n
      <4>3. QED
        BY <1>1, <1>6, <3>2, <4>1, <4>2
    <3>3. QED
      BY <3>1, <3>2
  <2>2. ASSUME NEW s \in Requests
        PROVE  /\ oReq'[s].op \in {"login", "password", "others", "setup", "enable", "patch", "row"} =>
                     operator'[oReq'[s].who].known
               /\ oReq'[s].op \in {"password", "others"} =>
                     oReq'[s].as \in 1..sessions' /\ logins'[oReq'[s].as].of = oReq'[s].who
               /\ oReq'[s].op = "create" => oReq'[s].role # "same"
    <3>1. CASE s = r
      BY <1>2, <1>4, <3>1
    <3>2. CASE s # r
      <4>1. \A i \in 1..sessions : i \in 1..MaxSessions /\ i # n /\ i \in 1..sessions'
        BY <1>1, <1>3, PeopleAssumption DEF n
      <4>2. QED
        BY <1>1, <1>5, <1>6, <3>2, <4>1 DEF StaffInv, StaffKnown
    <3>3. QED
      BY <3>1, <3>2
  <2>3. QED
    BY <1>1, <2>1, <2>2 DEF StaffInv, StaffKnown
<1>9. UNCHANGED operators!Owners
  BY <1>1 DEF operators!Owners, operators!IsOwner
<1>10. OwnersCounted' /\ FactorsAsked'
  BY <1>1, <1>2, <1>9, OwnersStay, FactorsStay
<1>11. operators!AnOwnerRemainsUnlessRaced'
  BY <1>1, <1>9 DEF StaffInv, operators!AnOwnerRemainsUnlessRaced
<1>12. operators!StandingSignIns'
  <2>1. ASSUME NEW s \in 1..MaxSessions \ overlapped', operators!Usable(s)', seen'[s] # era'[logins'[s].of]
        PROVE  \E i \in operators!Running({"end", "others"})' :
                  oReq'[i].who = logins'[s].of /\ (oReq'[i].op = "end" \/ oReq'[i].as # s)
    <3>1. s # n
      BY <1>1, <1>6, <2>1
    <3>2. s \notin overlapped /\ operators!Usable(s) /\ seen[s] # era[logins[s].of]
      BY <1>1, <1>6, <2>1, <3>1 DEF operators!Usable
    <3>3. PICK i \in operators!Running({"end", "others"}) :
              oReq[i].who = logins[s].of /\ (oReq[i].op = "end" \/ oReq[i].as # s)
      BY <3>2 DEF StaffInv, operators!StandingSignIns, operators!Ids
    <3>4. i \in Requests \ {r} /\ oReq[i].op \in {"end", "others"}
      BY <1>1, <3>3 DEF operators!Running
    <3>5. QED
      BY <1>5, <1>6, <3>1, <3>3, <3>4 DEF operators!Running
  <2>2. QED
    BY <2>1 DEF operators!StandingSignIns, operators!Ids
<1>13. QED
  BY <1>7, <1>8, <1>10, <1>11, <1>12 DEF StaffInv

\* Whoever has set the password ends the other sessions next.
LEMMA StaffPasswordRow ==
    ASSUME StaffInv, NEW r \in Requests, operators!PasswordRow(r) PROVE StaffInv'
<1> DEFINE o == oReq[r].who
           a == oReq[r].as
           q == [oReq[r] EXCEPT !.op = "others"]
           S == operators!SigningIn(o)
<1>1. /\ oReq[r].op = "password" /\ era' = [era EXCEPT ![o] = @ + 1]
      /\ seen' = [seen EXCEPT ![a] = era[o] + 1] /\ operators!Proceed(r, q, S)
      /\ UNCHANGED <<operator, logins, sessions, oMade, overlapped, secrets, shown, crowded>>
  BY DEF operators!PasswordRow
<1>2. /\ o \in Staff /\ operator[o].known /\ a \in 1..sessions /\ logins[a].of = o
      /\ q \in StaffReq /\ q.op = "others" /\ q.who = o /\ q.as = a
  BY <1>1, StaffRequest DEF StaffInv, StaffKnown, operators!Ops
<1>3. S \in SUBSET Requests /\ a \in 1..MaxSessions
  <2>1. sessions \in 1..MaxSessions
    BY DEF StaffInv, StaffTypes
  <2>2. QED
    BY <1>2, <2>1, PeopleAssumption DEF operators!SigningIn, operators!Running
<1> HIDE DEF o, a, q, S
<1>4. /\ oReq' \in [Requests -> StaffReq] /\ oReq'[r] = q
  BY <1>1, <1>2, <1>3, StaffProceeds DEF StaffInv
<1>5. \A s \in Requests \ {r} :
         oReq'[s].op = oReq[s].op /\ oReq'[s].who = oReq[s].who /\ oReq'[s].as = oReq[s].as
  BY <1>1, <1>2, <1>3, OtherStaffProceed DEF StaffInv
<1>6. /\ era' \in [Staff -> Nat] /\ seen' \in [1..MaxSessions -> Nat]
      /\ era'[o] = era[o] + 1 /\ seen'[a] = era[o] + 1
      /\ \A x \in Staff \ {o} : era'[x] = era[x]
      /\ \A s \in 1..MaxSessions \ {a} : seen'[s] = seen[s]
  BY <1>1, <1>2, <1>3 DEF StaffInv, StaffTypes
<1>7. StaffTypes'
  BY <1>1, <1>4, <1>6 DEF StaffInv, StaffTypes
<1>8. StaffKnown'
  BY <1>1, <1>2, <1>3, KnownStays DEF StaffInv, StaffKnown
<1>9. UNCHANGED operators!Owners
  BY <1>1 DEF operators!Owners, operators!IsOwner
<1>10. OwnersCounted' /\ FactorsAsked'
  BY <1>1, <1>2, <1>3, <1>9, OwnersStay, FactorsStay
<1>11. operators!AnOwnerRemainsUnlessRaced'
  BY <1>1, <1>9 DEF StaffInv, operators!AnOwnerRemainsUnlessRaced
<1>12. operators!StandingSignIns'
  <2>1. ASSUME NEW s \in 1..MaxSessions \ overlapped', operators!Usable(s)', seen'[s] # era'[logins'[s].of]
        PROVE  \E i \in operators!Running({"end", "others"})' :
                  oReq'[i].who = logins'[s].of /\ (oReq'[i].op = "end" \/ oReq'[i].as # s)
    <3>1. logins'[s].of \in Staff /\ logins'[s].of = logins[s].of
      BY <1>1 DEF StaffInv, StaffTypes
    <3>2. s # a
      BY <1>1, <1>2, <1>6, <2>1
    <3>3. CASE logins[s].of = o
      BY <1>2, <1>4, <3>1, <3>2, <3>3 DEF operators!Running
    <3>4. CASE logins[s].of # o
      <4>1. s \notin overlapped /\ operators!Usable(s) /\ seen[s] # era[logins[s].of]
        BY <1>1, <1>6, <2>1, <3>1, <3>2, <3>4 DEF operators!Usable
      <4>2. PICK i \in operators!Running({"end", "others"}) :
              oReq[i].who = logins[s].of /\ (oReq[i].op = "end" \/ oReq[i].as # s)
        BY <4>1 DEF StaffInv, operators!StandingSignIns, operators!Ids
      <4>3. i \in Requests \ {r} /\ oReq[i].op \in {"end", "others"}
        BY <1>1, <4>2 DEF operators!Running
      <4>4. QED
        BY <1>5, <3>1, <4>2, <4>3 DEF operators!Running
    <3>5. QED
      BY <3>3, <3>4
  <2>2. QED
    BY <2>1 DEF operators!StandingSignIns, operators!Ids
<1>13. QED
  BY <1>7, <1>8, <1>10, <1>11, <1>12 DEF StaffInv

\* Sessions of one operator end, all of them or all but the request's own.
LEMMA StaffEndsSessions ==
    ASSUME StaffInv, NEW r \in Requests, operators!EndOthers(r) \/ operators!EndAll(r)
    PROVE  StaffInv'
<1> DEFINE o == oReq[r].who
           q == operators!Idle
           ends(s) == logins[s].of = o /\ (oReq[r].op = "end" \/ oReq[r].as # s)
<1>1. /\ oReq[r].op \in {"end", "others"} /\ operators!Proceed(r, q, {})
      /\ UNCHANGED <<operator, sessions, oMade, era, seen, overlapped, secrets, shown, crowded>>
  BY DEF operators!EndOthers, operators!EndAll, operators!history
<1>2. /\ logins' \in [1..MaxSessions -> [of : Staff, live : BOOLEAN]]
      /\ \A s \in 1..MaxSessions : /\ logins'[s].of = logins[s].of
                                   /\ logins'[s].live => logins[s].live /\ ~ ends(s)
  <2>1. \A s \in 1..MaxSessions : logins[s] \in [of : Staff, live : BOOLEAN]
    BY DEF StaffInv, StaffTypes
  <2>2. ASSUME NEW s \in 1..MaxSessions, NEW b \in BOOLEAN
        PROVE  LET x == [logins[s] EXCEPT !.live = b] IN
               x \in [of : Staff, live : BOOLEAN] /\ x.of = logins[s].of /\ x.live = b
    BY <2>1
  <2>3. CASE operators!EndOthers(r)
    <3> DEFINE b(s) == logins[s].live /\ (logins[s].of # o \/ s = oReq[r].as)
    <3>1. oReq[r].op = "others" /\ logins' = [s \in 1..MaxSessions |-> [logins[s] EXCEPT !.live = b(s)]]
      BY <2>3 DEF operators!EndOthers, operators!Ids
    <3>2. \A s \in 1..MaxSessions : b(s) \in BOOLEAN
      BY <2>1
    <3>3. \A s \in 1..MaxSessions : b(s) => logins[s].live /\ ~ ends(s)
      BY <3>1
    <3> HIDE DEF b, ends
    <3>4. QED
      BY <2>2, <3>1, <3>2, <3>3
  <2>4. CASE operators!EndAll(r)
    <3> DEFINE b(s) == logins[s].live /\ logins[s].of # o
    <3>1. oReq[r].op = "end" /\ logins' = [s \in 1..MaxSessions |-> [logins[s] EXCEPT !.live = b(s)]]
      BY <2>4 DEF operators!EndAll, operators!Ids
    <3>2. \A s \in 1..MaxSessions : b(s) \in BOOLEAN
      BY <2>1
    <3>3. \A s \in 1..MaxSessions : b(s) => logins[s].live /\ ~ ends(s)
      OBVIOUS
    <3> HIDE DEF b, ends
    <3>4. QED
      BY <2>2, <3>1, <3>2, <3>3
  <2>5. QED
    BY <2>3, <2>4
<1>3. q \in StaffReq /\ q.op = "idle" /\ \A s \in Requests : oReq[s].who \in Staff
  BY StaffIdle, StaffRequest
<1> HIDE DEF q
<1>4. /\ oReq' \in [Requests -> StaffReq] /\ oReq'[r] = q
  BY <1>1, <1>3, StaffProceeds DEF StaffInv
<1>5. \A s \in Requests \ {r} :
         oReq'[s].op = oReq[s].op /\ oReq'[s].who = oReq[s].who /\ oReq'[s].as = oReq[s].as
  BY <1>1, <1>3, OtherStaffProceed DEF StaffInv
<1>6. StaffTypes'
  BY <1>1, <1>2, <1>4 DEF StaffInv, StaffTypes
<1>7. StaffKnown'
  <2>1. \A x \in Staff : operator[x].disabled \/ operator[x].enabled => operator[x].known
    BY DEF StaffInv, StaffKnown
  <2>2. QED
    BY <1>1, <1>2, <1>3, <2>1, KnownStays
<1>8. UNCHANGED operators!Owners
  BY <1>1 DEF operators!Owners, operators!IsOwner
<1>9. OwnersCounted' /\ FactorsAsked'
  BY <1>1, <1>3, <1>8, OwnersStay, FactorsStay
<1>10. operators!AnOwnerRemainsUnlessRaced'
  BY <1>1, <1>8 DEF StaffInv, operators!AnOwnerRemainsUnlessRaced
<1>11. operators!StandingSignIns'
  <2>1. ASSUME NEW s \in 1..MaxSessions \ overlapped', operators!Usable(s)', seen'[s] # era'[logins'[s].of]
        PROVE  \E i \in operators!Running({"end", "others"})' :
                  oReq'[i].who = logins'[s].of /\ (oReq'[i].op = "end" \/ oReq'[i].as # s)
    <3>1. s \notin overlapped /\ operators!Usable(s) /\ seen[s] # era[logins[s].of] /\ ~ ends(s)
      BY <1>1, <1>2, <2>1 DEF operators!Usable
    <3>2. PICK i \in operators!Running({"end", "others"}) :
            oReq[i].who = logins[s].of /\ (oReq[i].op = "end" \/ oReq[i].as # s)
      BY <3>1 DEF StaffInv, operators!StandingSignIns, operators!Ids
    <3>3. i \in Requests \ {r} /\ oReq[i].op \in {"end", "others"}
      BY <1>1, <3>1, <3>2 DEF operators!Running
    <3>4. QED
      BY <1>2, <1>5, <3>2, <3>3 DEF operators!Running
  <2>2. QED
    BY <2>1 DEF operators!StandingSignIns, operators!Ids
<1>12. QED
  BY <1>6, <1>7, <1>9, <1>10, <1>11 DEF StaffInv

\* Secrets are new, and who is switching a factor on or setting it up is late.
LEMMA StaffTotpRow ==
    ASSUME StaffInv, NEW r \in Requests, operators!TotpSetupRow(r) \/ operators!TotpEnableRow(r)
    PROVE  StaffInv'
<1> DEFINE o == oReq[r].who
           q == operators!Idle
           E == {s \in operators!Running({"enable"}) : oReq[s].who = o}
           U == {s \in operators!Running({"setup"}) : oReq[s].who = o}
<1>1. /\ oReq[r].op \in {"setup", "enable"}
      /\ UNCHANGED <<logins, sessions, oMade, era, seen, overlapped, shown, crowded>>
  BY DEF operators!TotpSetupRow, operators!TotpEnableRow, operators!history
<1>2. /\ \/ oReq[r].op = "setup" /\ operators!Proceed(r, q, E)
         \/ oReq[r].op = "enable" /\ operators!Proceed(r, q, U)
      /\ secrets' \in Nat /\ secrets <= secrets' /\ operator' \in [Staff -> StaffRow]
      /\ \A x \in Staff : /\ operator'[x].known = operator[x].known
                          /\ operator'[x].role = operator[x].role
                          /\ operator'[x].disabled = operator[x].disabled
                          /\ operator'[x].secret <= secrets'
                          /\ x # o => operator'[x].secret = operator[x].secret
                                       /\ operator'[x].enabled = operator[x].enabled
                          /\ oReq[r].op = "setup" => (operator'[x].enabled => operator[x].enabled)
                          /\ oReq[r].op = "enable" => operator'[x].secret = operator[x].secret
  <2>1. /\ o \in Staff /\ secrets \in Nat /\ operator \in [Staff -> StaffRow]
        /\ \A x \in Staff : operator[x] \in StaffRow /\ operator[x].secret <= secrets
    BY StaffRequest DEF StaffInv, StaffTypes
  <2>2. CASE operators!TotpSetupRow(r)
    <3>1. /\ oReq[r].op = "setup" /\ operators!Proceed(r, q, E) /\ secrets' = secrets + 1
          /\ operator' = [operator EXCEPT ![o].secret = secrets + 1, ![o].enabled = FALSE]
      BY <2>2 DEF operators!TotpSetupRow
    <3> DEFINE x == [operator[o] EXCEPT !.secret = secrets + 1, !.enabled = FALSE]
    <3>2. operator' = [operator EXCEPT ![o] = x]
      BY <2>1, <3>1
    <3>3. /\ x \in StaffRow /\ x.known = operator[o].known /\ x.role = operator[o].role
          /\ x.disabled = operator[o].disabled /\ x.secret = secrets + 1 /\ ~ x.enabled
      <4>1. operator[o] \in StaffRow /\ secrets + 1 \in Nat
        BY <2>1
      <4>2. QED
        BY <4>1 DEF StaffRow
    <3>4. \A y \in Staff : operator[y].secret <= secrets + 1
      BY <2>1 DEF StaffRow
    <3> HIDE DEF x, o, q, E
    <3>5. /\ operator' \in [Staff -> StaffRow] /\ operator'[o] = x
          /\ \A y \in Staff : y # o => operator'[y] = operator[y]
      BY <2>1, <3>2, <3>3
    <3>6. secrets' \in Nat /\ secrets <= secrets' /\ x.secret <= secrets'
      BY <2>1, <3>1, <3>3
    <3>7. QED
      BY <3>1, <3>3, <3>4, <3>5, <3>6
  <2>3. CASE operators!TotpEnableRow(r)
    <3>1. /\ oReq[r].op = "enable" /\ operators!Proceed(r, q, U) /\ secrets' = secrets
          /\ operator' = [operator EXCEPT ![o].enabled = TRUE]
      BY <2>3 DEF operators!TotpEnableRow, operators!history
    <3> DEFINE x == [operator[o] EXCEPT !.enabled = TRUE]
    <3>2. operator' = [operator EXCEPT ![o] = x]
      BY <2>1, <3>1
    <3>3. /\ x \in StaffRow /\ x.known = operator[o].known /\ x.role = operator[o].role
          /\ x.disabled = operator[o].disabled /\ x.secret = operator[o].secret
      BY <2>1 DEF StaffRow
    <3> HIDE DEF x, o, q, U
    <3>4. /\ operator' \in [Staff -> StaffRow] /\ operator'[o] = x
          /\ \A y \in Staff : y # o => operator'[y] = operator[y]
      BY <2>1, <3>2, <3>3
    <3>5. secrets' \in Nat /\ secrets <= secrets' /\ \A y \in Staff : operator[y].secret <= secrets'
      BY <2>1, <3>1
    <3>6. QED
      BY <3>1, <3>3, <3>4, <3>5
  <2>4. QED
    BY <2>2, <2>3
<1>3. /\ q \in StaffReq /\ q.op = "idle" /\ E \in SUBSET Requests /\ U \in SUBSET Requests
      /\ \A s \in Requests : oReq[s].who \in Staff
  BY StaffIdle, StaffRequest DEF operators!Running
<1>4. PICK S \in SUBSET Requests :
        /\ operators!Proceed(r, q, S)
        /\ \/ oReq[r].op = "setup" /\ S = E
           \/ oReq[r].op = "enable" /\ S = U
  BY <1>2, <1>3
<1>5. \A s \in Requests \ S :
         /\ oReq[s].op = "enable" => s = r \/
               operator'[oReq[s].who].secret = operator[oReq[s].who].secret
         /\ oReq[s].op = "setup" => s = r \/
               (operator'[oReq[s].who].enabled => operator[oReq[s].who].enabled)
  BY <1>2, <1>3, <1>4 DEF operators!Running
<1> HIDE DEF o, q, E, U
<1>6. oReq' \in [Requests -> StaffReq]
  BY <1>3, <1>4, StaffProceeds DEF StaffInv
<1>7. StaffTypes'
  <2>1. shown \subseteq 1..secrets /\ secrets \in Nat
    BY DEF StaffInv, StaffTypes
  <2>2. shown' \subseteq 1..secrets'
    BY <1>1, <1>2, <2>1
  <2>3. QED
    BY <1>1, <1>2, <1>6, <2>2 DEF StaffInv, StaffTypes
<1>8. StaffKnown'
  <2>1. oReq[r].op = "enable" => operator[oReq[r].who].known
    BY DEF StaffInv, StaffKnown
  <2>2. \A x \in Staff : operator[x].disabled \/ operator[x].enabled => operator[x].known
    BY DEF StaffInv, StaffKnown
  <2>3. \A x \in Staff : operator'[x].disabled \/ operator'[x].enabled => operator'[x].known
    BY <1>1, <1>2, <2>1, <2>2 DEF o
  <2>4. QED
    BY <1>1, <1>2, <1>3, <1>4, <2>3, KnownStays
<1>9. UNCHANGED operators!Owners
  BY <1>2 DEF operators!Owners, operators!IsOwner
<1>10. OwnersCounted'
  BY <1>1, <1>3, <1>4, <1>9, OwnersStay
<1>11. FactorsAsked'
  BY <1>1, <1>3, <1>4, <1>5, FactorsStay
<1>12. operators!AnOwnerRemainsUnlessRaced'
  BY <1>1, <1>9 DEF StaffInv, operators!AnOwnerRemainsUnlessRaced
<1>13. operators!StandingSignIns'
  <2>1. \A s \in 1..MaxSessions : operators!Usable(s)' => operators!Usable(s)
    BY <1>1, <1>2 DEF operators!Usable, StaffInv, StaffTypes
  <2>2. QED
    BY <1>1, <1>3, <1>4, <2>1, SessionsStay
<1>14. QED
  BY <1>7, <1>8, <1>10, <1>11, <1>12, <1>13 DEF StaffInv

\* A new operator was nobody before: no session, no request, no owner.
LEMMA StaffCreateRow ==
    ASSUME StaffInv, NEW r \in Requests, operators!CreateRow(r) PROVE StaffInv'
<1> DEFINE o == oReq[r].who
           q == operators!Idle
           new == [operators!Nobody EXCEPT !.known = TRUE, !.role = oReq[r].role]
<1>1. /\ oReq[r].op = "create" /\ operators!Proceed(r, q, {})
      /\ operator' = IF operator[o].known THEN operator ELSE [operator EXCEPT ![o] = new]
      /\ UNCHANGED <<logins, sessions, oMade, era, seen, overlapped, secrets, shown, crowded>>
  BY DEF operators!CreateRow, operators!history
<1>2. /\ o \in Staff /\ oReq[r].role \in {"owner", "other", "same"}
      /\ q \in StaffReq /\ q.op = "idle" /\ \A s \in Requests : oReq[s].who \in Staff
      /\ operator \in [Staff -> StaffRow] /\ secrets \in Nat
  BY StaffRequest, StaffIdle DEF StaffInv, StaffTypes
<1>3. /\ new.known /\ ~ new.disabled /\ ~ new.enabled /\ new.secret = 0 /\ new \in StaffRow
  <2>1. oReq[r].role \in {"owner", "other"}
    BY <1>1, <1>2 DEF StaffInv, StaffKnown
  <2>2. QED
    BY <2>1 DEF operators!Nobody, StaffRow, operators!Roles
<1>4. \A x \in Staff : operator[x].known => operator'[x] = operator[x]
  BY <1>1, <1>2
<1>5. operator'[o].known /\ (~ operator[o].known => operator'[o] = new)
  BY <1>1, <1>2, <1>3
<1>6. /\ operator' \in [Staff -> StaffRow] /\ \A x \in Staff : operator'[x].secret <= secrets
      /\ \A x \in Staff : x # o => operator'[x] = operator[x]
  BY <1>1, <1>2, <1>3 DEF StaffInv, StaffTypes
<1> HIDE DEF o, q, new
<1>7. oReq' \in [Requests -> StaffReq]
  BY <1>1, <1>2, StaffProceeds DEF StaffInv
<1>8. StaffTypes'
  BY <1>1, <1>6, <1>7 DEF StaffInv, StaffTypes
<1>9. \A x \in Staff : /\ operator[x].known => operator'[x].known
                       /\ operator'[x].disabled \/ operator'[x].enabled => operator'[x].known
  <2>1. \A x \in Staff : operator[x].disabled \/ operator[x].enabled => operator[x].known
    BY DEF StaffInv, StaffKnown
  <2>2. QED
    BY <1>4, <1>5, <1>6, <2>1
<1>10. StaffKnown'
  BY <1>1, <1>2, <1>9, KnownStays
<1>11. operators!Owners \subseteq operators!Owners'
  BY <1>4 DEF operators!Owners, operators!IsOwner
<1>12. OwnersCounted'
  BY <1>1, <1>2, <1>11, OwnersStay
<1>13. FactorsAsked'
  <2>1. \A s \in Requests :
           oReq[s].op \in {"enable", "setup"} => operator'[oReq[s].who] = operator[oReq[s].who]
    BY <1>2, <1>4 DEF StaffInv, StaffKnown
  <2>2. QED
    BY <1>1, <1>2, <2>1, FactorsStay
<1>14. operators!AnOwnerRemainsUnlessRaced'
  BY <1>1, <1>11 DEF StaffInv, operators!AnOwnerRemainsUnlessRaced
<1>15. operators!StandingSignIns'
  <2>1. \A s \in 1..MaxSessions : operator[logins[s].of].known /\ logins[s].of \in Staff
    BY DEF StaffInv, StaffKnown, StaffTypes
  <2>2. \A s \in 1..MaxSessions : operators!Usable(s)' => operators!Usable(s)
    BY <1>1, <1>4, <2>1 DEF operators!Usable
  <2>3. QED
    BY <1>1, <1>2, <2>2, SessionsStay
<1>16. QED
  BY <1>8, <1>10, <1>12, <1>13, <1>14, <1>15 DEF StaffInv

\* Whoever is to be shut out, there is another owner at this moment.
LEMMA StaffPatchCheck ==
    ASSUME StaffInv, NEW r \in Requests, operators!PatchCheck(r) PROVE StaffInv'
<1> DEFINE o == oReq[r].who
           out == oReq[r].role = "other" \/ oReq[r].turn = "off"
<1>1. /\ oReq[r].op = "patch"
      /\ UNCHANGED <<operator, logins, sessions, oMade, era, seen, overlapped, secrets, shown, crowded>>
  BY DEF operators!PatchCheck, operators!history
<1>2. o \in Staff /\ operator[o].known
  BY <1>1, StaffRequest DEF StaffInv, StaffKnown
<1>3. PICK q \in StaffReq :
        /\ operators!Proceed(r, q, {})
        /\ \/ q.op = "idle"
           \/ /\ q.op = "row" /\ q.who = o /\ (q.role = "other" \/ q.turn = "off" => out)
              /\ operator[o].role = "owner" /\ out => operators!Owners \ {o} # {}
  <2> DEFINE x == [oReq[r] EXCEPT !.op = "row"]
  <2>1. x \in StaffReq /\ x.op = "row" /\ x.who = o /\ x.role = oReq[r].role /\ x.turn = oReq[r].turn
    BY StaffRequest DEF operators!Ops
  <2>2. \/ operators!Proceed(r, operators!Idle, {})
        \/ /\ operators!Proceed(r, x, {})
           /\ operator[o].role = "owner" /\ out => operators!Owners \ {o} # {}
    BY DEF operators!PatchCheck
  <2> HIDE DEF x
  <2>3. QED
    BY <2>1, <2>2, StaffIdle
<1>4. {} \in SUBSET Requests /\ \A x \in Staff : operator[x].disabled \/ operator[x].enabled => operator[x].known
  BY DEF StaffInv, StaffKnown
<1> HIDE DEF o, out
<1>5. oReq' \in [Requests -> StaffReq] /\ oReq'[r] = q
  BY <1>3, <1>4, StaffProceeds DEF StaffInv
<1>6. StaffTypes'
  BY <1>1, <1>5 DEF StaffInv, StaffTypes
<1>7. StaffKnown'
  BY <1>1, <1>2, <1>3, <1>4, KnownStays
<1>8. UNCHANGED operators!Owners
  BY <1>1 DEF operators!Owners, operators!IsOwner
<1>9. OwnersCounted'
  <2>1. CASE q.op # "row"
    BY <1>1, <1>3, <1>4, <1>8, <2>1, OwnersStay
  <2>2. CASE q.op = "row"
    <3>1. out => crowded \/ \E x \in operators!Owners : x # o
      <4>1. CASE operator[o].role = "owner"
        BY <1>3, <2>2, <4>1
      <4>2. CASE operator[o].role # "owner"
        <5>1. o \notin operators!Owners
          BY <4>2 DEF operators!Owners, operators!IsOwner
        <5>2. QED
          BY <5>1 DEF StaffInv, operators!AnOwnerRemainsUnlessRaced
      <4>3. QED
        BY <4>1, <4>2
    <3>2. ASSUME NEW s \in Requests, oReq'[s].op = "row", ~ oReq'[s].late,
                 oReq'[s].role = "other" \/ oReq'[s].turn = "off"
          PROVE  crowded' \/ \E x \in operators!Owners' : x # oReq'[s].who
      <4>1. CASE s = r
        BY <1>1, <1>3, <1>5, <1>8, <2>2, <3>1, <3>2, <4>1
      <4>2. CASE s # r
        <5>1. /\ oReq'[s].op = oReq[s].op /\ oReq'[s].who = oReq[s].who
              /\ oReq'[s].role = oReq[s].role /\ oReq'[s].turn = oReq[s].turn
              /\ ~ oReq'[s].late => ~ oReq[s].late
          BY <1>3, <1>4, <4>2, OtherStaffProceed DEF StaffInv
        <5>2. QED
          BY <1>1, <1>8, <3>2, <5>1 DEF StaffInv, OwnersCounted
      <4>3. QED
        BY <4>1, <4>2
    <3>3. QED
      BY <3>2 DEF OwnersCounted
  <2>3. QED
    BY <2>1, <2>2
<1>10. FactorsAsked'
  BY <1>1, <1>3, <1>4, FactorsStay
<1>11. operators!AnOwnerRemainsUnlessRaced'
  BY <1>1, <1>8 DEF StaffInv, operators!AnOwnerRemainsUnlessRaced
<1>12. operators!StandingSignIns'
  <2>1. \A s \in 1..MaxSessions : operators!Usable(s)' => operators!Usable(s)
    BY <1>1 DEF operators!Usable
  <2>2. QED
    BY <1>1, <1>3, <1>4, <2>1, SessionsStay
<1>13. QED
  BY <1>6, <1>7, <1>9, <1>10, <1>11, <1>12 DEF StaffInv

\* Whoever is shut out by a count that still holds leaves another owner, and
\* whatever was changed, all the sessions are about to end.
LEMMA StaffPatchRow ==
    ASSUME StaffInv, NEW r \in Requests, operators!PatchRow(r) PROVE StaffInv'
<1> DEFINE o == oReq[r].who
           x == IF oReq[r].role = "same" THEN operator[o].role ELSE oReq[r].role
           shut == CASE oReq[r].turn = "off" -> TRUE
                     [] oReq[r].turn = "on" -> FALSE
                     [] OTHER -> operator[o].disabled
           goes == operators!IsOwner(o) /\ (x # "owner" \/ shut)
           next == [oReq[r] EXCEPT !.op = "end"]
           racers == operators!SigningIn(o) \cup (IF goes THEN operators!Running({"row"}) ELSE {})
           new == [operator[o] EXCEPT !.role = x, !.disabled = shut]
<1>1. /\ oReq[r].op = "row" /\ era' = [era EXCEPT ![o] = @ + 1]
      /\ operator' = [operator EXCEPT ![o].role = x, ![o].disabled = shut]
      /\ crowded' = (crowded \/ (goes /\ oReq[r].late))
      /\ operators!Proceed(r, next, racers)
      /\ UNCHANGED <<logins, sessions, oMade, seen, overlapped, secrets, shown>>
  BY DEF operators!PatchRow
<1>2. /\ o \in Staff /\ operator[o].known /\ oReq[r].late \in BOOLEAN
      /\ oReq[r].role \in {"owner", "other", "same"} /\ oReq[r].turn \in {"same", "off", "on"}
      /\ next \in StaffReq /\ next.op = "end" /\ next.who = o
  BY <1>1, StaffRequest DEF StaffInv, StaffKnown, operators!Ops
<1>3. /\ operator \in [Staff -> StaffRow] /\ operator[o] \in StaffRow
  BY <1>2 DEF StaffInv, StaffTypes
<1>4. x \in {"owner", "other"} /\ shut \in BOOLEAN
  BY <1>2, <1>3 DEF StaffRow, operators!Roles
<1>5. goes => oReq[r].role = "other" \/ oReq[r].turn = "off"
  BY <1>2, <1>3 DEF operators!IsOwner, StaffRow, operators!Roles
<1>6. PICK q \in StaffReq, S \in SUBSET Requests :
        /\ operators!Proceed(r, q, S) /\ q.op = "end" /\ q.who = o
        /\ goes => operators!Running({"row"}) \subseteq S
  <2>1. racers \in SUBSET Requests /\ (goes => operators!Running({"row"}) \subseteq racers)
    BY DEF operators!SigningIn, operators!Running
  <2> HIDE DEF next, racers, goes, o
  <2>2. QED
    BY <1>1, <1>2, <2>1
<1>7. ~ goes => (operators!IsOwner(o) => x = "owner" /\ ~ shut)
  OBVIOUS
<1> HIDE DEF x, shut
<1>8. operator' = [operator EXCEPT ![o] = new]
  BY <1>1, <1>2, <1>3
<1>9. /\ new \in StaffRow /\ new.known /\ new.role = x /\ new.disabled = shut
      /\ new.secret = operator[o].secret /\ new.enabled = operator[o].enabled
  BY <1>2, <1>3, <1>4 DEF StaffRow, operators!Roles
<1> HIDE DEF new, next, racers, goes
<1>10. /\ operator' \in [Staff -> StaffRow] /\ operator'[o] = new
       /\ \A y \in Staff : y # o => operator'[y] = operator[y]
  BY <1>2, <1>3, <1>8, <1>9
<1>11. oReq' \in [Requests -> StaffReq] /\ oReq'[r] = q
  BY <1>6, StaffProceeds DEF StaffInv
<1>12. \A s \in Requests \ {r} :
         /\ oReq'[s].op = oReq[s].op /\ oReq'[s].who = oReq[s].who /\ oReq'[s].as = oReq[s].as
         /\ oReq'[s].role = oReq[s].role
  BY <1>6, OtherStaffProceed DEF StaffInv
<1> HIDE DEF o
<1>13. /\ era' \in [Staff -> Nat] /\ \A y \in Staff : y # o => era'[y] = era[y]
  BY <1>1, <1>2 DEF StaffInv, StaffTypes
<1>14. crowded' \in BOOLEAN /\ (crowded => crowded')
  BY <1>1, <1>2 DEF StaffInv, StaffTypes, goes
<1>15. StaffTypes'
  BY <1>1, <1>2, <1>9, <1>10, <1>11, <1>13, <1>14 DEF StaffInv, StaffTypes
<1>16. StaffKnown'
  <2>1. \A y \in Staff : operator[y].disabled \/ operator[y].enabled => operator[y].known
    BY DEF StaffInv, StaffKnown
  <2>2. \A y \in Staff : /\ operator[y].known => operator'[y].known
                         /\ operator'[y].disabled \/ operator'[y].enabled => operator'[y].known
    BY <1>9, <1>10, <2>1
  <2>3. sessions' = sessions /\ logins' = logins /\ operator[q.who].known
    BY <1>1, <1>2, <1>6
  <2>4. QED
    BY <1>6, <2>2, <2>3, KnownStays
<1>17. operators!Owners \ {o} \subseteq operators!Owners'
  BY <1>10 DEF operators!Owners, operators!IsOwner
<1>18. ~ goes => operators!Owners \subseteq operators!Owners'
  <2>1. new.disabled <=> shut
    BY <1>4, <1>9
  <2>2. ~ goes /\ operators!IsOwner(o) => new.known /\ new.role = "owner" /\ ~ new.disabled
    BY <1>7, <1>9, <2>1
  <2>3. ASSUME ~ goes, NEW y \in operators!Owners, y = o PROVE y \in operators!Owners'
    BY <1>10, <2>2, <2>3 DEF operators!Owners, operators!IsOwner
  <2>4. QED
    BY <1>17, <2>3
<1>19. OwnersCounted'
  BY <1>1, <1>2, <1>6, <1>14, <1>18, OwnersStay
<1>20. FactorsAsked'
  <2>1. \A y \in Staff : operator'[y].secret = operator[y].secret /\ operator'[y].enabled = operator[y].enabled
    BY <1>9, <1>10
  <2>2. \A s \in Requests : oReq[s].who \in Staff
    BY StaffRequest
  <2>3. QED
    BY <1>1, <1>2, <1>6, <2>1, <2>2, FactorsStay
<1>21. operators!AnOwnerRemainsUnlessRaced'
  <2>1. CASE ~ goes
    BY <1>14, <1>18, <2>1 DEF StaffInv, operators!AnOwnerRemainsUnlessRaced
  <2>2. CASE goes /\ oReq[r].late
    BY <1>1, <2>2 DEF operators!AnOwnerRemainsUnlessRaced
  <2>3. CASE goes /\ ~ oReq[r].late
    <3>1. crowded \/ \E y \in operators!Owners : y # o
      BY <1>1, <1>5, <2>3 DEF StaffInv, OwnersCounted, o
    <3>2. QED
      BY <1>14, <1>17, <3>1 DEF operators!AnOwnerRemainsUnlessRaced
  <2>4. QED
    BY <2>1, <2>2, <2>3
<1>22. operators!StandingSignIns'
  <2>1. ASSUME NEW s \in 1..MaxSessions \ overlapped', operators!Usable(s)', seen'[s] # era'[logins'[s].of]
        PROVE  \E i \in operators!Running({"end", "others"})' :
                  oReq'[i].who = logins'[s].of /\ (oReq'[i].op = "end" \/ oReq'[i].as # s)
    <3>1. logins[s].of \in Staff
      BY DEF StaffInv, StaffTypes
    <3>2. CASE logins[s].of = o
      BY <1>1, <1>6, <1>11, <3>2 DEF operators!Running
    <3>3. CASE logins[s].of # o
      <4>1. s \notin overlapped /\ operators!Usable(s) /\ seen[s] # era[logins[s].of]
        BY <1>1, <1>10, <1>13, <2>1, <3>1, <3>3 DEF operators!Usable
      <4>2. PICK i \in operators!Running({"end", "others"}) :
              oReq[i].who = logins[s].of /\ (oReq[i].op = "end" \/ oReq[i].as # s)
        BY <4>1 DEF StaffInv, operators!StandingSignIns, operators!Ids
      <4>3. i \in Requests \ {r} /\ oReq[i].op \in {"end", "others"}
        BY <1>1, <4>2 DEF operators!Running
      <4>4. QED
        BY <1>1, <1>12, <4>2, <4>3 DEF operators!Running
    <3>4. QED
      BY <3>2, <3>3
  <2>2. QED
    BY <2>1 DEF operators!StandingSignIns, operators!Ids
<1>23. QED
  BY <1>15, <1>16, <1>19, <1>20, <1>21, <1>22 DEF StaffInv

LEMMA StaffLogout ==
    ASSUME StaffInv, NEW s \in 1..MaxSessions, operators!Logout(s) PROVE StaffInv'
<1>1. /\ oMade' \in Nat /\ logins' = [logins EXCEPT ![s].live = FALSE]
      /\ UNCHANGED <<operator, sessions, oReq, era, seen, overlapped, secrets, shown, crowded>>
  BY DEF operators!Logout, operators!history, StaffInv, StaffTypes
<1>2. /\ logins' \in [1..MaxSessions -> [of : Staff, live : BOOLEAN]]
      /\ \A i \in 1..MaxSessions : logins'[i].of = logins[i].of /\ (logins'[i].live => logins[i].live)
  <2>1. \A i \in 1..MaxSessions : logins[i] \in [of : Staff, live : BOOLEAN]
    BY DEF StaffInv, StaffTypes
  <2>2. LET x == [logins[s] EXCEPT !.live = FALSE] IN
        x \in [of : Staff, live : BOOLEAN] /\ x.of = logins[s].of /\ ~ x.live
        /\ logins' = [logins EXCEPT ![s] = x]
    BY <1>1, <2>1
  <2>3. QED
    BY <2>1, <2>2 DEF StaffInv, StaffTypes
<1>3. StaffTypes'
  BY <1>1, <1>2 DEF StaffInv, StaffTypes
<1>4. StaffKnown'
  <2>1. 1..sessions \subseteq 1..MaxSessions
    BY PeopleAssumption DEF StaffInv, StaffTypes
  <2>2. QED
    BY <1>1, <1>2, <2>1 DEF StaffInv, StaffKnown
<1>5. OwnersCounted' /\ FactorsAsked' /\ operators!AnOwnerRemainsUnlessRaced'
  BY <1>1 DEF StaffInv, OwnersCounted, FactorsAsked, operators!AnOwnerRemainsUnlessRaced,
     operators!Owners, operators!IsOwner
<1>6. operators!StandingSignIns'
  BY <1>1, <1>2 DEF StaffInv, operators!StandingSignIns, operators!Usable, operators!Running,
     operators!Ids
<1>7. QED
  BY <1>3, <1>4, <1>5, <1>6 DEF StaffInv

LEMMA StaffPreserved == StaffInv /\ [operators!Next]_(operators!vars) => StaffInv'
<1>1. ASSUME StaffInv, NEW r \in Requests, operators!Continues(r) PROVE StaffInv'
  BY <1>1, StaffLoginSession, StaffPasswordRow, StaffEndsSessions, StaffTotpRow, StaffCreateRow,
     StaffPatchCheck, StaffPatchRow DEF operators!Continues
<1>2. ASSUME StaffInv, UNCHANGED operators!vars PROVE StaffInv'
  BY <1>2 DEF operators!vars, StaffInv, StaffTypes, StaffKnown, OwnersCounted, FactorsAsked,
     operators!AnOwnerRemainsUnlessRaced, operators!StandingSignIns, operators!Owners,
     operators!IsOwner, operators!Usable, operators!Running
<1>3. QED
  BY <1>1, <1>2, StaffChecked, StaffLogout DEF operators!Next, operators!Ids


\* A factor is written by its own requests only: what a step does to it.
FactorSteps ==
    \A o \in Staff :
       LET row == operator[o]
           new == operator'[o]
           late(op) == \E r \in operators!Running({op}) : oReq[r].late
       IN  /\ new.enabled /\ ~row.enabled => new.secret \in shown \/ late("enable")
           /\ row.enabled => (new.enabled /\ new.secret = row.secret) \/ late("setup")

LEMMA FactorsUntouched ==
    ASSUME \A o \in Staff : operator[o].known =>
              operator'[o].enabled = operator[o].enabled /\ operator'[o].secret = operator[o].secret,
           \A o \in Staff : ~ operator[o].known => ~ operator'[o].enabled,
           StaffInv
    PROVE  FactorSteps
<1>1. \A o \in Staff : operator[o].enabled => operator[o].known
  BY DEF StaffInv, StaffKnown
<1>2. QED
  BY <1>1 DEF FactorSteps

LEMMA StaffKeepsFactors == StaffInv /\ [operators!Next]_(operators!vars) => FactorSteps
<1> SUFFICES ASSUME StaffInv, [operators!Next]_(operators!vars) PROVE FactorSteps
  OBVIOUS
<1>a. \A o \in Staff : operator[o] \in StaffRow /\ (operator[o].enabled => operator[o].known)
  BY DEF StaffInv, StaffTypes, StaffKnown
<1>b. operator \in [Staff -> StaffRow] /\ \A r \in Requests : oReq[r].who \in Staff
  BY StaffRequest DEF StaffInv, StaffTypes
<1>1. CASE UNCHANGED operator
  BY <1>1, <1>a, FactorsUntouched
<1>2. ASSUME NEW r \in Requests, operators!TotpSetupRow(r) PROVE FactorSteps
  <2> DEFINE o == oReq[r].who
  <2>1. /\ oReq[r].op = "setup"
        /\ operator' = [operator EXCEPT ![o].secret = secrets + 1, ![o].enabled = FALSE]
    BY <1>2 DEF operators!TotpSetupRow
  <2>2. /\ operator'[o].enabled = FALSE
        /\ \A x \in Staff : x # o => operator'[x] = operator[x]
    <3> DEFINE y == [operator[o] EXCEPT !.secret = secrets + 1, !.enabled = FALSE]
    <3>1. operator' = [operator EXCEPT ![o] = y]
      BY <1>b, <2>1
    <3>2. y.enabled = FALSE
      BY <1>a, <1>b DEF StaffRow
    <3> HIDE DEF y, o
    <3>3. QED
      BY <1>b, <3>1, <3>2 DEF o
  <2>3. operator[o].enabled => oReq[r].late /\ r \in operators!Running({"setup"})
    BY <2>1 DEF StaffInv, FactorsAsked, operators!Running
  <2> HIDE DEF o
  <2>4. ASSUME NEW x \in Staff
        PROVE  /\ ~ (operator'[x].enabled /\ ~ operator[x].enabled)
               /\ operator[x].enabled => \/ operator'[x].enabled /\ operator'[x].secret = operator[x].secret
                                         \/ \E s \in operators!Running({"setup"}) : oReq[s].late
    BY <2>2, <2>3
  <2>5. QED
    BY <2>4 DEF FactorSteps
<1>3. ASSUME NEW r \in Requests, operators!TotpEnableRow(r) PROVE FactorSteps
  <2> DEFINE o == oReq[r].who
  <2>1. oReq[r].op = "enable" /\ operator' = [operator EXCEPT ![o].enabled = TRUE]
    BY <1>3 DEF operators!TotpEnableRow
  <2>2. /\ operator'[o].enabled = TRUE /\ operator'[o].secret = operator[o].secret
        /\ \A x \in Staff : x # o => operator'[x] = operator[x]
    <3> DEFINE y == [operator[o] EXCEPT !.enabled = TRUE]
    <3>1. operator' = [operator EXCEPT ![o] = y]
      BY <1>b, <2>1
    <3>2. y.enabled = TRUE /\ y.secret = operator[o].secret
      BY <1>a, <1>b DEF StaffRow
    <3> HIDE DEF y, o
    <3>3. QED
      BY <1>b, <3>1, <3>2 DEF o
  <2>3. operator[o].secret \in shown \/ (oReq[r].late /\ r \in operators!Running({"enable"}))
    BY <2>1 DEF StaffInv, FactorsAsked, operators!Running
  <2> HIDE DEF o
  <2>4. ASSUME NEW x \in Staff
        PROVE  /\ operator'[x].enabled /\ ~ operator[x].enabled =>
                     \/ operator'[x].secret \in shown
                     \/ \E s \in operators!Running({"enable"}) : oReq[s].late
               /\ operator[x].enabled =>
                     operator'[x].enabled /\ operator'[x].secret = operator[x].secret
    BY <2>2, <2>3
  <2>5. QED
    BY <2>4 DEF FactorSteps
<1>4. ASSUME NEW r \in Requests, operators!CreateRow(r) PROVE FactorSteps
  <2> DEFINE o == oReq[r].who
             y == [operators!Nobody EXCEPT !.known = TRUE, !.role = oReq[r].role]
  <2>1. operator' = IF operator[o].known THEN operator ELSE [operator EXCEPT ![o] = y]
    BY <1>4 DEF operators!CreateRow
  <2>2. ~ y.enabled
    BY DEF operators!Nobody
  <2> HIDE DEF o, y
  <2>3. /\ \A x \in Staff : operator[x].known => operator'[x] = operator[x]
        /\ \A x \in Staff : ~ operator[x].known => operator'[x] = operator[x] \/ operator'[x] = y
    BY <1>b, <2>1
  <2>4. QED
    BY <1>a, <2>2, <2>3, FactorsUntouched
<1>5. ASSUME NEW r \in Requests, operators!PatchRow(r) PROVE FactorSteps
  <2> DEFINE o == oReq[r].who
             x == IF oReq[r].role = "same" THEN operator[o].role ELSE oReq[r].role
             shut == CASE oReq[r].turn = "off" -> TRUE
                       [] oReq[r].turn = "on" -> FALSE
                       [] OTHER -> operator[o].disabled
             y == [operator[o] EXCEPT !.role = x, !.disabled = shut]
  <2>1. operator' = [operator EXCEPT ![o].role = x, ![o].disabled = shut]
    BY <1>5 DEF operators!PatchRow
  <2> HIDE DEF x, shut
  <2>2. operator' = [operator EXCEPT ![o] = y]
    BY <1>b, <2>1
  <2>3. y.enabled = operator[o].enabled /\ y.secret = operator[o].secret
    BY <1>a, <1>b DEF StaffRow
  <2> HIDE DEF o, y
  <2>4. \A z \in Staff : operator'[z].enabled = operator[z].enabled
                         /\ operator'[z].secret = operator[z].secret
    BY <1>b, <2>2, <2>3
  <2>5. QED
    BY <1>a, <2>4, FactorsUntouched
<1>6. ASSUME NEW r \in Requests, operators!Checked(r) PROVE UNCHANGED operator
  BY <1>6, ZenonT(30)
     DEF operators!Checked, operators!Login, operators!ChangePassword, operators!TotpSetup,
     operators!TotpEnable, operators!Create, operators!Patch
<1>7. ASSUME NEW r \in Requests, operators!Continues(r) PROVE FactorSteps
  <2>1. CASE operators!LoginSession(r) \/ operators!PasswordRow(r) \/ operators!EndOthers(r)
             \/ operators!PatchCheck(r) \/ operators!EndAll(r)
    BY <1>1, <2>1 DEF operators!LoginSession, operators!PasswordRow, operators!EndOthers,
       operators!PatchCheck, operators!EndAll
  <2>2. QED
    BY <1>2, <1>3, <1>4, <1>5, <1>7, <2>1 DEF operators!Continues
<1>8. QED
  BY <1>1, <1>6, <1>7 DEF operators!Next, operators!Logout, operators!vars

-----------------------------------------------------------------------------
(* The account. *)

AccountRow == [password : Passwords \cup {None}, duress : Passwords \cup {None}, secret : Nat,
               enabled : BOOLEAN, deleted : BOOLEAN]
DeviceRow  == [state : {"none", "live", "revoked"}, index : Nat]
AccountReq == [op : Ops, as : 0..MaxId, word : Passwords \cup {None}, secret : Nat, id : 0..MaxId,
               ver : Nat, doomed : SUBSET (1..MaxId), bye : BOOLEAN, late : BOOLEAN]

AccountTypes ==
    /\ account \in AccountRow
    /\ device \in [1..MaxId -> DeviceRow]
    /\ session \in [1..MaxId -> {"none", "live", "revoked"}]
    /\ licence \in [Keys -> [status : {"none", "active", "revoked"}, by : Others \cup {Me, None}]]
    /\ req \in [Requests -> AccountReq] /\ made \in Nat
    /\ version \in Nat /\ opened \in [1..MaxId -> Nat]
    /\ stray \subseteq 1..MaxId /\ wiped \subseteq 1..MaxId
    /\ minted \in Nat /\ proven \subseteq 1..minted /\ most \in Nat

\* Whoever has been counted in is alone, and there is room.
CountedIn ==
    /\ DefaultLimit <= most /\ \A k \in Mine : MaxDevices[k] <= most
    /\ Cardinality(Live) <= most
    /\ \A r \in Requests : req[r].op = "counted" =>
          /\ Cardinality(Live) < most
          /\ \A s \in Requests : req[s].op = "counted" => s = r

\* Ids are given in order, and whatever speaks of a device speaks of one there was.
Numbered ==
    /\ \A d \in 1..MaxId :
          /\ device[d].index <= d
          /\ device[d].index # 0 => \A e \in 1..d : device[e].index # 0
          /\ device[d].state # "none" \/ session[d] # "none" \/ d \in wiped => device[d].index # 0
    /\ \A r \in Requests :
          /\ req[r].op \in {"password", "revoke"} => req[r].as \in 1..MaxId /\ device[req[r].as].index # 0
          /\ req[r].op = "session" => req[r].id \in 1..MaxId /\ device[req[r].id].index # 0
          /\ \A d \in req[r].doomed : device[d].index # 0

\* Somebody is about to end every session but d's, or also d's.
Ending(d) == \E r \in Requests : req[r].op = "revoke" /\ req[r].as # d

\* A sign-in on its way has checked the password there is now, or is late, or
\* somebody is about to end its session.
SignInsChecked ==
    \A r \in Requests : ~ req[r].late =>
        /\ req[r].op \in {"signin", "counted"} =>
              req[r].ver = version \/ \E s \in Requests : req[s].op = "revoke"
        /\ req[r].op = "session" =>
              req[r].id \in stray \/ opened[req[r].id] = version \/ Ending(req[r].id)

\* The same of a factor that is being switched on or set up as of an operator's.
FactorChecked ==
    \A r \in Requests : ~ req[r].late =>
        /\ req[r].op = "enable" => account.secret \in proven
        /\ req[r].op = "setup" => ~ account.enabled

AccountInv ==
    /\ AccountTypes /\ CountedIn /\ Numbered /\ SignInsChecked /\ FactorChecked /\ StandingSignIns

LEMMA AccountIdle ==
    Idle \in AccountReq /\ Idle.op = "idle" /\ Idle.late = FALSE /\ Idle.doomed = {}
BY AccountsAssumption DEF Idle, AccountReq, Ops

LEMMA AccountRequest ==
    ASSUME AccountTypes, NEW r \in Requests
    PROVE  /\ req[r] \in AccountReq /\ req[r].as \in 0..MaxId /\ req[r].id \in 0..MaxId
           /\ req[r].word \in Passwords \cup {None} /\ req[r].ver \in Nat /\ req[r].secret \in Nat
           /\ req[r].doomed \in SUBSET (1..MaxId) /\ req[r].late \in BOOLEAN
BY DEF AccountTypes, AccountReq

LEMMA AccountProceeds ==
    ASSUME AccountTypes, NEW r \in Requests, NEW q \in AccountReq, NEW S \in SUBSET Requests,
           Proceed(r, q, S)
    PROVE  req' \in [Requests -> AccountReq] /\ req'[r] = q /\ made' \in Nat
<1>1. \A s \in Requests : req[s] \in AccountReq /\ [req[s] EXCEPT !.late = TRUE] \in AccountReq
  BY DEF AccountTypes, AccountReq
<1>2. req' = [s \in Requests |-> req'[s]] /\ made' = made
  BY DEF Proceed
<1>3. req'[r] = q
  BY DEF Proceed
<1>4. \A s \in Requests \ {r} : req'[s] = IF s \in S THEN [req[s] EXCEPT !.late = TRUE] ELSE req[s]
  BY DEF Proceed
<1>5. \A s \in Requests : req'[s] \in AccountReq
  BY <1>1, <1>3, <1>4
<1>6. QED
  BY <1>2, <1>3, <1>5 DEF AccountTypes

LEMMA OtherAccountsProceed ==
    ASSUME AccountTypes, NEW r \in Requests, NEW q \in AccountReq, NEW S \in SUBSET Requests,
           Proceed(r, q, S), NEW s \in Requests \ {r}
    PROVE  /\ req'[s].op = req[s].op /\ req'[s].as = req[s].as /\ req'[s].id = req[s].id
           /\ req'[s].ver = req[s].ver /\ req'[s].doomed = req[s].doomed
           /\ ~ req'[s].late => ~ req[s].late /\ s \notin S
<1> DEFINE l == [req[s] EXCEPT !.late = TRUE]
<1>1. req[s] \in AccountReq
  BY DEF AccountTypes
<1>2. /\ l.op = req[s].op /\ l.as = req[s].as /\ l.id = req[s].id
      /\ l.ver = req[s].ver /\ l.doomed = req[s].doomed /\ l.late = TRUE
  BY <1>1 DEF AccountReq
<1>3. req'[s] = IF s \in S THEN l ELSE req[s]
  BY DEF Proceed
<1> HIDE DEF l
<1>4. QED
  BY <1>2, <1>3

LEMMA FewerLive ==
    ASSUME NEW A \in SUBSET (1..MaxId), NEW B \in SUBSET A
    PROVE  /\ Cardinality(A) \in Nat /\ Cardinality(B) \in Nat /\ Cardinality(B) <= Cardinality(A)
           /\ IsFiniteSet(A)
<1>1. IsFiniteSet(1..MaxId)
  BY AccountsAssumption, FS_Interval
<1>2. IsFiniteSet(A)
  BY <1>1, FS_Subset
<1>3. IsFiniteSet(B) /\ Cardinality(B) <= Cardinality(A)
  BY <1>2, FS_Subset
<1>4. QED
  BY <1>2, <1>3, FS_CardinalityType

\* Nobody new has been counted, and no device is new.
LEMMA CountedInStays ==
    ASSUME AccountTypes, AccountTypes', CountedIn, Live' \subseteq Live, UNCHANGED <<licence, most>>,
           \A s \in Requests : req'[s].op = "counted" => req[s].op = "counted"
    PROVE  CountedIn'
<1>1. Cardinality(Live) \in Nat /\ Cardinality(Live') \in Nat /\ Cardinality(Live') <= Cardinality(Live)
  <2>1. Live \in SUBSET (1..MaxId) /\ Live' \in SUBSET Live
    BY DEF Live, Ids
  <2>2. QED
    BY <2>1, FewerLive
<1>2. Mine' = Mine /\ most \in Nat
  BY DEF Mine, AccountTypes
<1>3. Cardinality(Live)' = Cardinality(Live')
  OBVIOUS
<1>4. QED
  BY <1>1, <1>2, <1>3 DEF CountedIn

LEMMA NumberedStays ==
    ASSUME AccountInv, NEW r \in Requests, NEW q \in AccountReq, NEW S \in SUBSET Requests,
           Proceed(r, q, S),
           \A d \in 1..MaxId :
              /\ device'[d].index = device[d].index
              /\ device'[d].state # "none" \/ session'[d] # "none" \/ d \in wiped' =>
                    device[d].index # 0,
           q.op \in {"password", "revoke"} => q.as \in 1..MaxId /\ device[q.as].index # 0,
           q.op = "session" => q.id \in 1..MaxId /\ device[q.id].index # 0,
           \A d \in q.doomed : device[d].index # 0
    PROVE  Numbered'
<1>1. \A d \in 1..MaxId :
         /\ device'[d].index <= d
         /\ device'[d].index # 0 => \A e \in 1..d : device'[e].index # 0
         /\ device'[d].state # "none" \/ session'[d] # "none" \/ d \in wiped' =>
               device'[d].index # 0
  <2>1. \A d \in 1..MaxId : \A e \in 1..d : e \in 1..MaxId
    BY AccountsAssumption
  <2>2. \A d \in 1..MaxId : /\ device[d].index <= d
                            /\ device[d].index # 0 => \A e \in 1..d : device[e].index # 0
    BY DEF AccountInv, Numbered
  <2>3. QED
    BY <2>1, <2>2
<1>2. ASSUME NEW s \in Requests
      PROVE  /\ req'[s].op \in {"password", "revoke"} =>
                   req'[s].as \in 1..MaxId /\ device'[req'[s].as].index # 0
             /\ req'[s].op = "session" => req'[s].id \in 1..MaxId /\ device'[req'[s].id].index # 0
             /\ \A d \in req'[s].doomed : device'[d].index # 0
  <2>1. CASE s = r
    <3>1. req'[s] = q /\ q.doomed \in SUBSET (1..MaxId)
      BY <2>1, AccountProceeds DEF AccountInv, AccountReq
    <3>2. QED
      BY <3>1
  <2>2. CASE s # r
    <3>1. /\ req'[s].op = req[s].op /\ req'[s].as = req[s].as /\ req'[s].id = req[s].id
          /\ req'[s].doomed = req[s].doomed /\ req[s].doomed \in SUBSET (1..MaxId)
      BY <2>2, OtherAccountsProceed, AccountRequest DEF AccountInv
    <3>2. QED
      BY <3>1 DEF AccountInv, Numbered
  <2>3. QED
    BY <2>1, <2>2
<1>3. QED
  BY <1>1, <1>2 DEF Numbered

\* No password is changed, and nobody's revocation is over.
LEMMA SignInsStay ==
    ASSUME AccountInv, NEW r \in Requests, NEW q \in AccountReq, NEW S \in SUBSET Requests,
           Proceed(r, q, S), req[r].op # "revoke", UNCHANGED <<version, opened>>,
           stray \subseteq stray',
           \A d \in 1..MaxId \ stray' : Usable(d)' => Usable(d) \/ opened[d] = version \/ Ending(d),
           ~ q.late /\ q.op \in {"signin", "counted"} =>
              q.ver = version \/ \E s \in Requests : req[s].op = "revoke",
           ~ q.late /\ q.op = "session" =>
              q.id \in stray \/ opened[q.id] = version \/ Ending(q.id),
           Existing' \cap wiped' = {}
    PROVE  SignInsChecked' /\ StandingSignIns'
<1>0. AccountTypes /\ req'[r] = q
  BY AccountProceeds DEF AccountInv
<1>1. ASSUME NEW s \in Requests, req[s].op = "revoke"
      PROVE  req'[s].op = "revoke" /\ req'[s].as = req[s].as
  <2>1. s # r
    BY <1>1
  <2>2. QED
    BY <1>0, <1>1, <2>1, OtherAccountsProceed
<1>2. /\ (\E s \in Requests : req[s].op = "revoke") => \E s \in Requests : req'[s].op = "revoke"
      /\ \A d : Ending(d) => Ending(d)'
  BY <1>1 DEF Ending
<1>3. ASSUME NEW s \in Requests, ~ req'[s].late
      PROVE  /\ req'[s].op \in {"signin", "counted"} =>
                   req'[s].ver = version \/ \E i \in Requests : req[i].op = "revoke"
             /\ req'[s].op = "session" =>
                   req'[s].id \in stray \/ opened[req'[s].id] = version \/ Ending(req'[s].id)
  <2>1. CASE s = r
    BY <1>0, <1>3, <2>1
  <2>2. CASE s # r
    <3>1. /\ req'[s].op = req[s].op /\ req'[s].id = req[s].id /\ req'[s].ver = req[s].ver
          /\ ~ req[s].late
      BY <1>0, <1>3, <2>2, OtherAccountsProceed
    <3>2. QED
      BY <3>1 DEF AccountInv, SignInsChecked
  <2>3. QED
    BY <2>1, <2>2
<1>4. SignInsChecked'
  <2>1. ASSUME NEW s \in Requests, ~ req'[s].late
        PROVE  /\ req'[s].op \in {"signin", "counted"} =>
                     req'[s].ver = version' \/ \E i \in Requests : req'[i].op = "revoke"
               /\ req'[s].op = "session" =>
                     \/ req'[s].id \in stray' \/ opened'[req'[s].id] = version'
                     \/ \E i \in Requests : req'[i].op = "revoke" /\ req'[i].as # req'[s].id
    <3>1. Ending(req'[s].id) =>
             \E i \in Requests : req'[i].op = "revoke" /\ req'[i].as # req'[s].id
      BY <1>1 DEF Ending
    <3>2. QED
      BY <1>2, <1>3, <2>1, <3>1
  <2>2. QED
    BY <2>1 DEF SignInsChecked, Ending
<1>5. StandingSignIns'
  <2>1. ASSUME NEW d \in 1..MaxId \ stray', Usable(d)', opened[d] # version
        PROVE  Ending(d)
    <3>1. CASE Usable(d)
      BY <2>1, <3>1 DEF AccountInv, StandingSignIns, Ids, Running, Ending
    <3>2. QED
      BY <2>1, <3>1
  <2>2. QED
    BY <1>1, <2>1 DEF StandingSignIns, Ids, Running, Ending
<1>6. QED
  BY <1>4, <1>5

LEMMA FactorStays ==
    ASSUME AccountInv, NEW r \in Requests, NEW q \in AccountReq, NEW S \in SUBSET Requests,
           Proceed(r, q, S), q.op \notin {"enable", "setup"}, proven \subseteq proven',
           \A s \in Requests \ S :
              /\ req[s].op = "enable" => s = r \/ account'.secret = account.secret
              /\ req[s].op = "setup" => s = r \/ (account'.enabled => account.enabled)
    PROVE  FactorChecked'
<1>1. AccountTypes /\ req'[r] = q
  BY AccountProceeds DEF AccountInv
<1>2. ASSUME NEW s \in Requests, ~ req'[s].late
      PROVE  /\ req'[s].op = "enable" => account'.secret \in proven'
             /\ req'[s].op = "setup" => ~ account'.enabled
  <2>1. CASE s = r
    BY <1>1, <2>1
  <2>2. CASE s # r
    <3>1. req'[s].op = req[s].op /\ ~ req[s].late /\ s \notin S
      BY <1>1, <1>2, <2>2, OtherAccountsProceed
    <3>2. QED
      BY <2>2, <3>1 DEF AccountInv, FactorChecked
  <2>3. QED
    BY <2>1, <2>2
<1>3. QED
  BY <1>2 DEF FactorChecked

LEMMA AccountInitial == Init => AccountInv
<1> SUFFICES ASSUME Init PROVE AccountInv
  OBVIOUS
<1> USE AccountsAssumption, AccountIdle
<1>1. /\ account \in AccountRow /\ ~ account.enabled /\ account.secret = 0
      /\ licence = [k \in Keys |-> [status |-> "none", by |-> None]]
      /\ req = [r \in Requests |-> Idle] /\ made = 0 /\ version = 0
      /\ opened = [d \in 1..MaxId |-> 0] /\ stray = {} /\ wiped = {} /\ minted = 0 /\ proven = {}
      /\ most = DefaultLimit
  BY DEF Init, Ids, AccountRow
<1>2. /\ device = [d \in 1..MaxId |-> IF d = 1 THEN [state |-> "live", index |-> 1]
                                             ELSE [state |-> "none", index |-> 0]]
      /\ session = [d \in 1..MaxId |-> IF d = 1 THEN "live" ELSE "none"]
  BY DEF Init, Ids
<1>3. AccountTypes
  BY <1>1, <1>2 DEF AccountTypes, DeviceRow
<1>4. \A r \in Requests : req[r].op = "idle" /\ req[r].doomed = {}
  BY <1>1
<1>5. Live = {1}
  BY <1>2 DEF Live, Ids
<1>6. CountedIn
  <2>1. Mine = {}
    <3>1. \A k \in Keys : licence[k].by = None
      BY <1>1
    <3>2. QED
      BY <3>1 DEF Mine
  <2>2. Cardinality(Live) = 1
    BY <1>5, FS_Singleton
  <2>3. QED
    BY <1>1, <1>4, <2>1, <2>2 DEF CountedIn
<1>7. Numbered
  <2>1. ASSUME NEW d \in 1..MaxId
        PROVE  /\ device[d].index <= d
               /\ device[d].index # 0 => \A e \in 1..d : device[e].index # 0
               /\ device[d].state # "none" \/ session[d] # "none" \/ d \in wiped =>
                     device[d].index # 0
    <3>1. CASE d = 1
      BY <1>2, <3>1
    <3>2. CASE d # 1
      BY <1>1, <1>2, <3>2
    <3>3. QED
      BY <3>1, <3>2
  <2>2. QED
    BY <1>4, <2>1 DEF Numbered
<1>8. SignInsChecked /\ FactorChecked
  BY <1>4 DEF SignInsChecked, FactorChecked
<1>9. StandingSignIns
  BY <1>1 DEF StandingSignIns, Ids
<1>10. QED
  BY <1>3, <1>6, <1>7, <1>8, <1>9 DEF AccountInv

\* A request begins: what it was checked against is so.
LEMMA AccountAsked ==
    ASSUME AccountInv, NEW r \in Requests, NEW q \in AccountReq, Begin(r, q),
           UNCHANGED <<version, opened, stray, wiped, minted, most>>,
           proven \subseteq proven', proven' \subseteq 1..minted,
           q.op \in {"signin", "wipe", "revoke", "password", "duress", "setup", "enable", "off"},
           q.op = "signin" => q.ver = version, q.doomed = {},
           q.op \in {"revoke", "password"} => q.as \in 1..MaxId /\ Usable(q.as),
           q.op = "enable" => account.secret \in proven', q.op = "setup" => ~ account.enabled
    PROVE  AccountInv'
<1>1. /\ req' \in [Requests -> AccountReq] /\ req'[r] = q /\ req[r].op = "idle" /\ made' \in Nat
      /\ \A s \in Requests \ {r} : req'[s] = req[s]
      /\ UNCHANGED <<account, device, session, licence>>
  BY DEF Begin, AtOnce, AccountInv, AccountTypes
<1>2. AccountTypes'
  BY <1>1 DEF AccountInv, AccountTypes
<1>3. CountedIn'
  <2>1. Live' \subseteq Live /\ \A s \in Requests : req'[s].op = "counted" => req[s].op = "counted"
    BY <1>1 DEF Live
  <2>2. QED
    BY <1>1, <1>2, <2>1, CountedInStays DEF AccountInv
<1>4. q.op \in {"revoke", "password"} => device[q.as].index # 0
  BY DEF AccountInv, Numbered, Usable, Live
<1>5. Numbered'
  <2>1. ASSUME NEW s \in Requests
        PROVE  /\ req'[s].op \in {"password", "revoke"} =>
                     req'[s].as \in 1..MaxId /\ device[req'[s].as].index # 0
               /\ req'[s].op = "session" =>
                     req'[s].id \in 1..MaxId /\ device[req'[s].id].index # 0
               /\ \A d \in req'[s].doomed : device[d].index # 0
    BY <1>1, <1>4 DEF AccountInv, Numbered
  <2>2. QED
    BY <1>1, <2>1 DEF AccountInv, Numbered
<1>6. \A s \in Requests : req[s].op = "revoke" => req'[s] = req[s]
  BY <1>1
<1>7. SignInsChecked'
  <2>1. ASSUME NEW s \in Requests, ~ req'[s].late
        PROVE  /\ req'[s].op \in {"signin", "counted"} =>
                     req'[s].ver = version \/ \E i \in Requests : req'[i].op = "revoke"
               /\ req'[s].op = "session" =>
                     \/ req'[s].id \in stray \/ opened[req'[s].id] = version
                     \/ \E i \in Requests : req'[i].op = "revoke" /\ req'[i].as # req'[s].id
    <3>1. CASE s = r
      BY <1>1, <3>1
    <3>2. CASE s # r
      BY <1>1, <1>6, <2>1, <3>2 DEF AccountInv, SignInsChecked, Ending
    <3>3. QED
      BY <3>1, <3>2
  <2>2. QED
    BY <2>1 DEF SignInsChecked, Ending
<1>8. FactorChecked'
  BY <1>1 DEF AccountInv, FactorChecked
<1>9. StandingSignIns'
  BY <1>1, <1>6 DEF AccountInv, StandingSignIns, Usable, Live, Existing, Running
<1>10. QED
  BY <1>2, <1>3, <1>5, <1>7, <1>8, <1>9 DEF AccountInv

LEMMA AccountChecked ==
    ASSUME AccountInv, NEW r \in Requests, Checked(r) PROVE AccountInv'
<1> USE AccountsAssumption
<1>a. /\ Ids = 1..MaxId /\ 0 \in 0..MaxId /\ \A s \in 1..MaxId : s \in 0..MaxId
      /\ version \in Nat /\ proven \subseteq 1..minted /\ minted \in Nat
      /\ \A c \in 1..minted : c \in Nat
  BY DEF Ids, AccountInv, AccountTypes
<1>1. ASSUME NEW w \in Passwords, NEW c \in 0..minted, SignIn(r, w, c) PROVE AccountInv'
  <2> DEFINE q == [Asked("signin", 0) EXCEPT !.ver = version]
  <2>1. q \in AccountReq /\ q.op = "signin" /\ q.ver = version /\ q.doomed = {}
    BY <1>a DEF Asked, Idle, AccountReq, Ops
  <2>2. Begin(r, q) /\ UNCHANGED history
    BY <1>1 DEF SignIn
  <2> HIDE DEF q
  <2>3. QED
    BY <1>a, <2>1, <2>2, AccountAsked DEF history
<1>2. ASSUME NEW op \in {"wipe", "revoke", "off", "setup"}, NEW s \in 0..MaxId,
             Begin(r, Asked(op, s)), UNCHANGED history,
             op = "revoke" => s \in 1..MaxId /\ Usable(s), op = "setup" => ~ account.enabled
      PROVE  AccountInv'
  <2> DEFINE q == Asked(op, s)
  <2>1. q \in AccountReq /\ q.op = op /\ q.as = s /\ q.doomed = {}
    BY <1>a DEF Asked, Idle, AccountReq, Ops
  <2>2. Begin(r, q)
    BY <1>2
  <2> HIDE DEF q
  <2>3. QED
    BY <1>a, <1>2, <2>1, <2>2, AccountAsked DEF history
<1>3. ASSUME NEW s \in 1..MaxId, NEW w \in Passwords, DeleteAccount(r, s, w) PROVE AccountInv'
  <2> DEFINE q == [Asked("wipe", s) EXCEPT !.bye = TRUE]
  <2>1. q \in AccountReq /\ q.op = "wipe" /\ q.doomed = {}
    BY <1>a DEF Asked, Idle, AccountReq, Ops
  <2>2. Begin(r, q) /\ UNCHANGED history
    BY <1>3 DEF DeleteAccount
  <2> HIDE DEF q
  <2>3. QED
    BY <1>a, <2>1, <2>2, AccountAsked DEF history
<1>4. ASSUME NEW s \in 1..MaxId, NEW w \in Passwords, NEW new \in Passwords,
             ChangePassword(r, s, w, new)
      PROVE  AccountInv'
  <2> DEFINE q == [Asked("password", s) EXCEPT !.word = new]
  <2>1. q \in AccountReq /\ q.op = "password" /\ q.as = s /\ q.doomed = {}
    BY <1>a DEF Asked, Idle, AccountReq, Ops
  <2>2. Begin(r, q) /\ UNCHANGED history /\ Usable(s)
    BY <1>4 DEF ChangePassword
  <2> HIDE DEF q
  <2>3. QED
    BY <1>a, <2>1, <2>2, AccountAsked DEF history
<1>5. ASSUME NEW s \in 1..MaxId, NEW w \in Passwords, NEW c \in Passwords \cup {None},
             SetDuress(r, s, w, c)
      PROVE  AccountInv'
  <2> DEFINE q == [Asked("duress", s) EXCEPT !.word = c]
  <2>1. q \in AccountReq /\ q.op = "duress" /\ q.doomed = {}
    BY <1>a DEF Asked, Idle, AccountReq, Ops
  <2>2. Begin(r, q) /\ UNCHANGED history
    BY <1>5 DEF SetDuress
  <2> HIDE DEF q
  <2>3. QED
    BY <1>a, <2>1, <2>2, AccountAsked DEF history
<1>6. ASSUME NEW s \in 1..MaxId, NEW c \in 1..minted, TotpEnable(r, s, c) PROVE AccountInv'
  <2> DEFINE q == [Asked("enable", s) EXCEPT !.secret = c]
  <2>1. q \in AccountReq /\ q.op = "enable" /\ q.doomed = {}
    BY <1>a DEF Asked, Idle, AccountReq, Ops
  <2>2. /\ Begin(r, q) /\ c = account.secret /\ proven' = proven \cup {c}
        /\ UNCHANGED <<version, opened, stray, wiped, minted, most>>
    BY <1>6 DEF TotpEnable
  <2> HIDE DEF q
  <2>3. QED
    BY <1>a, <2>1, <2>2, AccountAsked
<1>7. ASSUME NEW s \in 1..MaxId, NEW d \in 1..MaxId, RemoveDevice(r, s, d) PROVE AccountInv'
  <2> DEFINE q == [Asked("end", s) EXCEPT !.id = d]
  <2>1. q \in AccountReq /\ q.op = "end" /\ q.doomed = {}
    BY <1>a DEF Asked, Idle, AccountReq, Ops
  <2>2. /\ req' = [req EXCEPT ![r] = q] /\ req[r].op = "idle" /\ made' = made + 1
        /\ device' = [device EXCEPT ![d].state = "revoked"] /\ d \in Live
        /\ UNCHANGED <<account, session, licence, history>>
    BY <1>7 DEF RemoveDevice, AtOnce
  <2> HIDE DEF q
  <2>3. /\ device' \in [1..MaxId -> DeviceRow]
        /\ \A e \in 1..MaxId : /\ device'[e].index = device[e].index
                               /\ device'[e].state # device[e].state =>
                                     device[e].state = "live" /\ device'[e].state = "revoked"
    <3>1. device \in [1..MaxId -> DeviceRow] /\ device[d].state = "live"
      BY <2>2 DEF AccountInv, AccountTypes, Live
    <3> DEFINE y == [device[d] EXCEPT !.state = "revoked"]
    <3>2. y \in DeviceRow /\ y.index = device[d].index /\ y.state = "revoked"
      BY <3>1 DEF DeviceRow
    <3>3. device' = [device EXCEPT ![d] = y]
      BY <2>2, <3>1
    <3> HIDE DEF y
    <3>4. QED
      BY <3>1, <3>2, <3>3
  <2>4. /\ req' \in [Requests -> AccountReq] /\ req'[r] = q
        /\ \A x \in Requests \ {r} : req'[x] = req[x]
    BY <2>1, <2>2 DEF AccountInv, AccountTypes
  <2>5. AccountTypes'
    <3>1. /\ made' \in Nat
          /\ UNCHANGED <<account, session, licence, version, opened, stray, wiped, minted, proven, most>>
      BY <2>2 DEF AccountInv, AccountTypes, history
    <3>2. QED
      BY <2>3, <2>4, <3>1 DEF AccountInv, AccountTypes
  <2>6. Live' \subseteq Live /\ Existing' \subseteq Existing
    BY <2>3 DEF Live, Existing, Ids
  <2>7. CountedIn'
    <3>1. \A x \in Requests : req'[x].op = "counted" => req[x].op = "counted"
      BY <2>1, <2>4
    <3>2. QED
      BY <2>2, <2>5, <2>6, <3>1, CountedInStays DEF AccountInv, history
  <2>8. Numbered'
    <3>1. \A x \in Requests : \A e \in req'[x].doomed : e \in 1..MaxId
      BY <2>4 DEF AccountReq
    <3>2. ASSUME NEW x \in Requests
          PROVE  /\ req'[x].op \in {"password", "revoke"} =>
                       req'[x].as \in 1..MaxId /\ device'[req'[x].as].index # 0
                 /\ req'[x].op = "session" =>
                       req'[x].id \in 1..MaxId /\ device'[req'[x].id].index # 0
                 /\ \A e \in req'[x].doomed : device'[e].index # 0
      BY <2>1, <2>3, <2>4, <3>1 DEF AccountInv, Numbered
    <3>3. ASSUME NEW e \in 1..MaxId
          PROVE  /\ device'[e].index <= e
                 /\ device'[e].index # 0 => \A x \in 1..e : device'[x].index # 0
                 /\ device'[e].state # "none" \/ session'[e] # "none" \/ e \in wiped' =>
                       device'[e].index # 0
      <4>1. \A x \in 1..e : x \in 1..MaxId
        OBVIOUS
      <4>2. /\ device[e].index <= e
            /\ device[e].index # 0 => \A x \in 1..e : device[x].index # 0
            /\ device[e].state # "none" \/ session[e] # "none" \/ e \in wiped =>
                  device[e].index # 0
        BY DEF AccountInv, Numbered
      <4>3. QED
        BY <2>2, <2>3, <4>1, <4>2 DEF history
    <3>4. QED
      BY <3>2, <3>3 DEF Numbered
  <2>9. SignInsChecked'
    <3>1. \A x \in Requests : req[x].op = "revoke" => req'[x] = req[x]
      BY <2>2, <2>4
    <3>2. ASSUME NEW x \in Requests, req'[x].op \in {"signin", "counted", "session"}
          PROVE  req'[x] = req[x]
      BY <2>1, <2>4, <3>2
    <3>3. QED
      BY <2>2, <3>1, <3>2 DEF AccountInv, SignInsChecked, Ending, history
  <2>10. FactorChecked'
    BY <2>1, <2>2, <2>4 DEF AccountInv, FactorChecked, history
  <2>11. StandingSignIns'
    <3>1. \A x \in Requests : req[x].op = "revoke" => req'[x] = req[x]
      BY <2>2, <2>4
    <3>2. \A e \in 1..MaxId : Usable(e)' => Usable(e)
      BY <2>2, <2>6 DEF Usable
    <3>3. QED
      BY <2>2, <2>6, <3>1, <3>2 DEF AccountInv, StandingSignIns, Running, Ids, history
  <2>12. QED
    BY <2>5, <2>7, <2>8, <2>9, <2>10, <2>11 DEF AccountInv
<1>8. ASSUME NEW s \in 1..MaxId, RevokeAll(r, s) \/ TotpSetup(r, s) PROVE AccountInv'
  BY <1>a, <1>2, <1>8 DEF RevokeAll, TotpSetup
<1>9. ASSUME NEW s \in 1..MaxId, NEW w \in Passwords, TotpOff(r, s, w) \/ Wipe(r, s, w)
      PROVE  AccountInv'
  BY <1>a, <1>2, <1>9 DEF TotpOff, Wipe
<1>10. ASSUME NEW w \in Passwords, SignInUnderDuress(r, w) PROVE AccountInv'
  BY <1>a, <1>2, <1>10 DEF SignInUnderDuress
<1>11. QED
  BY <1>1, <1>3, <1>4, <1>5, <1>6, <1>7, <1>8, <1>9, <1>10 DEF Checked, Ids

\* A statement writes the account's row and ends the request.
LEMMA AccountRowWritten ==
    ASSUME AccountInv, NEW r \in Requests, NEW S \in SUBSET Requests, Proceed(r, Idle, S),
           req[r].op # "revoke", account' \in AccountRow, account.deleted => account'.deleted,
           minted' \in Nat, minted <= minted',
           UNCHANGED <<device, session, licence, version, opened, stray, wiped, proven, most>>,
           \A s \in Requests \ S :
              /\ req[s].op = "enable" => s = r \/ account'.secret = account.secret
              /\ req[s].op = "setup" => s = r \/ (account'.enabled => account.enabled)
    PROVE  AccountInv'
<1> DEFINE q == Idle
<1>1. /\ q \in AccountReq /\ q.op = "idle" /\ q.doomed = {} /\ Proceed(r, q, S)
      /\ AccountTypes
  BY AccountIdle DEF AccountInv
<1> HIDE DEF q
<1>2. req' \in [Requests -> AccountReq] /\ req'[r] = q /\ made' \in Nat
  BY <1>1, AccountProceeds
<1>3. AccountTypes'
  <2>1. proven \subseteq 1..minted'
    BY <1>1 DEF AccountTypes
  <2>2. QED
    BY <1>2, <2>1 DEF AccountInv, AccountTypes
<1>4. UNCHANGED <<Live, Existing>> /\ \A d \in 1..MaxId : Usable(d)' => Usable(d)
  <2>1. UNCHANGED Live
    BY DEF Live
  <2>2. QED
    BY <2>1, <1>1, <1>3 DEF Existing, Usable, AccountTypes, AccountRow
<1>5. CountedIn'
  <2>1. \A s \in Requests : req'[s].op = "counted" => req[s].op = "counted"
    BY <1>1, <1>2, OtherAccountsProceed
  <2>2. QED
    BY <1>1, <1>3, <1>4, <2>1, CountedInStays DEF AccountInv
<1>6. Numbered'
  BY <1>1, NumberedStays DEF AccountInv, Numbered
<1>7. SignInsChecked' /\ StandingSignIns'
  <2>1. Existing' \cap wiped' = {}
    BY <1>4 DEF AccountInv, StandingSignIns
  <2>2. QED
    BY <1>1, <1>4, <2>1, SignInsStay
<1>8. FactorChecked'
  BY <1>1, FactorStays
<1>9. QED
  BY <1>3, <1>5, <1>6, <1>7, <1>8 DEF AccountInv

LEMMA AccountRowWrites ==
    ASSUME AccountInv, NEW r \in Requests,
           DuressRow(r) \/ TotpSetupRow(r) \/ TotpEnableRow(r) \/ TotpOffRow(r) \/ Tombstone(r)
    PROVE  AccountInv'
<1>1. /\ account \in AccountRow /\ minted \in Nat /\ req[r].word \in Passwords \cup {None}
      /\ {} \in SUBSET Requests
      /\ Running({"enable"}) \in SUBSET Requests /\ Running({"setup"}) \in SUBSET Requests
      /\ \A s \in Requests : /\ s \notin Running({"enable"}) => req[s].op # "enable"
                             /\ s \notin Running({"setup"}) => req[s].op # "setup"
  BY AccountRequest DEF AccountInv, AccountTypes, Running
<1>2. CASE DuressRow(r)
  <2>1. /\ Proceed(r, Idle, {}) /\ req[r].op = "duress"
        /\ account' = [account EXCEPT !.duress = req[r].word]
        /\ UNCHANGED <<device, session, licence, version, opened, stray, wiped, minted, proven, most>>
    BY <1>2 DEF DuressRow, Finish, history
  <2>2. /\ account' \in AccountRow /\ account'.deleted = account.deleted
        /\ account'.secret = account.secret /\ account'.enabled = account.enabled
    BY <1>1, <2>1 DEF AccountRow
  <2>3. QED
    BY <1>1, <2>1, <2>2, AccountRowWritten
<1>3. CASE TotpSetupRow(r)
  <2>1. /\ Proceed(r, Idle, Running({"enable"})) /\ req[r].op = "setup"
        /\ account' = [account EXCEPT !.secret = minted + 1, !.enabled = FALSE] /\ minted' = minted + 1
        /\ UNCHANGED <<device, session, licence, version, opened, stray, wiped, proven, most>>
    BY <1>3 DEF TotpSetupRow
  <2>2. minted + 1 \in Nat /\ minted <= minted + 1
    BY <1>1
  <2>3. account' \in AccountRow /\ account'.deleted = account.deleted /\ account'.enabled = FALSE
    BY <1>1, <2>1, <2>2 DEF AccountRow
  <2>4. QED
    BY <1>1, <2>1, <2>2, <2>3, AccountRowWritten
<1>4. CASE TotpEnableRow(r)
  <2>1. /\ Proceed(r, Idle, Running({"setup"})) /\ req[r].op = "enable"
        /\ account' = [account EXCEPT !.enabled = TRUE]
        /\ UNCHANGED <<device, session, licence, version, opened, stray, wiped, minted, proven, most>>
    BY <1>4 DEF TotpEnableRow, history
  <2>2. /\ account' \in AccountRow /\ account'.deleted = account.deleted
        /\ account'.secret = account.secret
    BY <1>1, <2>1 DEF AccountRow
  <2>3. minted' \in Nat /\ minted <= minted'
    BY <1>1, <2>1
  <2>4. \A s \in Requests \ Running({"setup"}) : req[s].op # "setup"
    BY <1>1
  <2>5. QED
    BY <1>1, <2>1, <2>2, <2>3, <2>4, AccountRowWritten
<1>5. CASE TotpOffRow(r)
  <2>1. /\ Proceed(r, Idle, Running({"enable"})) /\ req[r].op = "off"
        /\ account' = [account EXCEPT !.secret = 0, !.enabled = FALSE]
        /\ UNCHANGED <<device, session, licence, version, opened, stray, wiped, minted, proven, most>>
    BY <1>5 DEF TotpOffRow, history
  <2>2. account' \in AccountRow /\ account'.deleted = account.deleted /\ ~ account'.enabled
    BY <1>1, <2>1 DEF AccountRow
  <2>3. QED
    BY <1>1, <2>1, <2>2, AccountRowWritten
<1>6. CASE Tombstone(r)
  <2>1. /\ Proceed(r, Idle, {}) /\ req[r].op = "tombstone"
        /\ account' = [account EXCEPT !.deleted = TRUE, !.password = None]
        /\ UNCHANGED <<device, session, licence, version, opened, stray, wiped, minted, proven, most>>
    BY <1>6 DEF Tombstone, Finish, history
  <2>2. /\ account' \in AccountRow /\ account'.deleted
        /\ account'.secret = account.secret /\ account'.enabled = account.enabled
    BY <1>1, <2>1 DEF AccountRow
  <2>3. QED
    BY <1>1, <2>1, <2>2, AccountRowWritten
<1>7. QED
  BY <1>2, <1>3, <1>4, <1>5, <1>6

\* The counts are made one at a time, and the limit is one there has been.
LEMMA AccountSignInCount ==
    ASSUME AccountInv, NEW r \in Requests, SignInCount(r) PROVE AccountInv'
<1> DEFINE x == [req[r] EXCEPT !.op = "counted"]
<1>1. /\ req[r].op = "signin" /\ ~ RowLocked
      /\ UNCHANGED <<account, device, session, licence, version, opened, stray, wiped, minted,
                     proven, most>>
      /\ \/ Cardinality(Live) < Limit /\ Proceed(r, x, {})
         \/ Proceed(r, Idle, {})
  BY DEF SignInCount, history, Finish
<1>2. /\ x \in AccountReq /\ x.op = "counted" /\ x.ver = req[r].ver /\ x.doomed = req[r].doomed
      /\ x.late = req[r].late /\ {} \in SUBSET Requests /\ AccountTypes
  BY AccountRequest DEF AccountReq, Ops, AccountInv
<1> HIDE DEF x
<1>3. PICK q \in AccountReq :
         /\ Proceed(r, q, {}) /\ q.op \in {"counted", "idle"}
         /\ q.op = "counted" => /\ Cardinality(Live) < Limit /\ q.ver = req[r].ver
                                /\ q.late = req[r].late
         /\ \A d \in q.doomed : d \in req[r].doomed
  BY <1>1, <1>2, AccountIdle
<1>4. req' \in [Requests -> AccountReq] /\ req'[r] = q /\ made' \in Nat
  BY <1>2, <1>3, AccountProceeds
<1>5. AccountTypes'
  BY <1>1, <1>4 DEF AccountInv, AccountTypes
<1>6. UNCHANGED <<Live, Existing>> /\ \A d \in 1..MaxId : Usable(d)' => Usable(d)
  <2>1. UNCHANGED Live
    BY <1>1 DEF Live
  <2>2. QED
    BY <1>1, <2>1 DEF Existing, Usable
<1>7. Limit \in Nat /\ Limit <= most
  <2>1. \A k \in Mine : MaxDevices[k] \in Nat /\ MaxDevices[k] <= most
    BY AccountsAssumption DEF AccountInv, CountedIn, Mine
  <2>2. DefaultLimit \in Nat /\ DefaultLimit <= most
    BY AccountsAssumption DEF AccountInv, CountedIn
  <2>3. QED
    BY <2>1, <2>2 DEF Limit
<1>8. CountedIn'
  <2>1. \A s \in Requests : req[s].op # "counted"
    BY <1>1 DEF RowLocked, Running
  <2>2. \A s \in Requests : req'[s].op = "counted" => s = r
    BY <1>2, <1>3, <2>1, OtherAccountsProceed
  <2>3. Cardinality(Live) \in Nat /\ most \in Nat
    <3>1. Live \in SUBSET (1..MaxId)
      BY DEF Live, Ids
    <3>2. QED
      BY <1>2, <3>1, FewerLive DEF AccountTypes
  <2>4. \A s \in Requests : req'[s].op = "counted" => Cardinality(Live) < most
    BY <1>3, <1>4, <1>7, <2>2, <2>3
  <2>5. UNCHANGED <<Mine, most>> /\ Cardinality(Live)' = Cardinality(Live)
    BY <1>1, <1>6 DEF Mine
  <2>6. QED
    BY <2>2, <2>4, <2>5 DEF AccountInv, CountedIn
<1>9. Numbered'
  <2>1. \A d \in q.doomed : device[d].index # 0
    BY <1>3 DEF AccountInv, Numbered
  <2>2. QED
    BY <1>1, <1>2, <1>3, <2>1, NumberedStays DEF AccountInv, Numbered
<1>10. SignInsChecked' /\ StandingSignIns'
  <2>1. Existing' \cap wiped' = {}
    BY <1>1, <1>6 DEF AccountInv, StandingSignIns
  <2>2. ~ q.late /\ q.op \in {"signin", "counted"} =>
           q.ver = version \/ \E s \in Requests : req[s].op = "revoke"
    BY <1>1, <1>3 DEF AccountInv, SignInsChecked
  <2>3. QED
    BY <1>1, <1>2, <1>3, <1>6, <2>1, <2>2, SignInsStay
<1>11. FactorChecked'
  BY <1>1, <1>2, <1>3, FactorStays
<1>12. QED
  BY <1>5, <1>8, <1>9, <1>10, <1>11 DEF AccountInv

\* Every set of numbers that is not empty has a least one.
LEMMA LeastNumber ==
    ASSUME NEW B \in SUBSET Nat, B # {} PROVE \E m \in B : \A n \in B : m <= n
<1>1. PICK m \in B : \A n \in B : <<n, m>> \notin OpToRel(<, Nat)
  BY NatLessThanWellFounded, WFMin
<1>2. \A n \in B : ~ (n < m)
  BY <1>1 DEF OpToRel
<1>3. QED
  BY <1>2

\* What nextDeviceIndex finds: no index above the number of devices there have been.
LEMMA NextIndexFits ==
    ASSUME AccountTypes, Numbered, NEW d \in 1..MaxId, IsNext(d) PROVE NextIndex \in 1..d
<1> DEFINE B == {n \in Nat : \A e \in Existing : device[e].index <= n}
           P(n) == /\ \A e \in Existing : device[e].index <= n
                   /\ n # 0 => \E e \in Existing : device[e].index = n
<1>1. Cardinality(Ids) = MaxId /\ MaxId \in Nat
  BY AccountsAssumption, FS_Interval DEF Ids
<1>2. \A e \in Existing : e \in 1..(d - 1) /\ device[e].index \in 1..(d - 1)
  <2>1. ASSUME NEW e \in Existing PROVE e \in 1..(d - 1) /\ device[e].index \in 1..(d - 1)
    <3>1. e \in 1..MaxId /\ device[e].index \in Nat /\ device[e].state # "none"
      BY DEF Existing, Ids, AccountTypes, DeviceRow
    <3>2. device[e].index # 0 /\ device[e].index <= e /\ \A x \in 1..e : device[x].index # 0
      BY <3>1 DEF Numbered
    <3>3. device[d].index = 0
      BY DEF IsNext
    <3>4. d \notin 1..e
      BY <3>2, <3>3
    <3>5. QED
      BY <3>1, <3>2, <3>4
  <2>2. QED
    BY <2>1
<1>3. d - 1 \in B
  BY <1>2
<1>4. PICK m \in B : \A n \in B : m <= n
  <2>1. B \in SUBSET Nat /\ B # {}
    BY <1>3
  <2>2. QED
    BY <2>1, LeastNumber
<1>5. m \in 0..Cardinality(Ids)
  BY <1>1, <1>3, <1>4
<1>6. P(m)
  <2>1. CASE m = 0
    BY <1>4, <2>1
  <2>2. CASE m # 0
    <3>1. m - 1 \in Nat /\ m - 1 \notin B
      BY <1>4, <2>2
    <3>2. PICK e \in Existing : ~ (device[e].index <= m - 1)
      BY <3>1
    <3>3. device[e].index = m
      BY <1>2, <1>4, <3>2
    <3>4. QED
      BY <1>4, <3>3
  <2>3. QED
    BY <2>1, <2>2
<1> DEFINE c == CHOOSE n \in 0..Cardinality(Ids) : P(n)
<1>7. c \in 0..Cardinality(Ids) /\ P(c)
  BY <1>5, <1>6
<1> HIDE DEF c
<1>8. c \in 0..(d - 1)
  <2>1. c # 0 => c \in 1..(d - 1)
    BY <1>2, <1>7
  <2>2. QED
    BY <2>1
<1>9. NextIndex = 1 + c
  BY DEF NextIndex, c
<1>10. QED
  BY <1>8, <1>9

\* The new device is one there never was.
LEMMA AccountSignInRegister ==
    ASSUME AccountInv, NEW r \in Requests, SignInRegister(r) PROVE AccountInv'
<1>1. PICK d \in 1..MaxId :
         /\ IsNext(d)
         /\ device' = [device EXCEPT ![d] = [state |-> "live", index |-> NextIndex]]
         /\ opened' = [opened EXCEPT ![d] = req[r].ver]
         /\ stray' = IF req[r].late THEN stray \cup {d} ELSE stray
         /\ Proceed(r, [req[r] EXCEPT !.op = "session", !.id = d], {})
  BY DEF SignInRegister, Ids
<1>2. /\ req[r].op = "counted" /\ AccountTypes /\ {} \in SUBSET Requests
      /\ UNCHANGED <<account, session, licence, version, wiped, minted, proven, most>>
  BY DEF SignInRegister, AccountInv
<1> DEFINE q == [req[r] EXCEPT !.op = "session", !.id = d]
<1>3. /\ q \in AccountReq /\ q.op = "session" /\ q.id = d /\ q.late = req[r].late
      /\ q.doomed = req[r].doomed /\ req[r].ver \in Nat /\ Proceed(r, q, {})
      /\ q.doomed \in SUBSET (1..MaxId)
  <2>1. d \in 0..MaxId /\ req[r] \in AccountReq
    BY <1>2, AccountRequest
  <2>2. /\ q \in AccountReq /\ q.op = "session" /\ q.id = d /\ q.late = req[r].late
        /\ q.doomed = req[r].doomed
    BY <2>1 DEF AccountReq, Ops
  <2>3. QED
    BY <1>1, <1>2, <2>1, <2>2, AccountRequest
<1>4. NextIndex \in 1..d /\ device[d].index = 0
  BY <1>1, <1>2, NextIndexFits DEF AccountInv, IsNext
<1> HIDE DEF q
<1>5. req' \in [Requests -> AccountReq] /\ req'[r] = q /\ made' \in Nat
  BY <1>2, <1>3, AccountProceeds
<1>6. /\ device' \in [1..MaxId -> DeviceRow]
      /\ device'[d].state = "live" /\ device'[d].index = NextIndex
      /\ \A e \in 1..MaxId \ {d} : device'[e] = device[e]
  <2> DEFINE y == [state |-> "live", index |-> NextIndex]
  <2>1. y \in DeviceRow /\ y.state = "live" /\ y.index = NextIndex
    BY <1>4 DEF DeviceRow
  <2>2. device' = [device EXCEPT ![d] = y]
    BY <1>1
  <2> HIDE DEF y
  <2>3. QED
    BY <1>2, <2>1, <2>2 DEF AccountTypes
<1>7. /\ opened' \in [1..MaxId -> Nat] /\ opened'[d] = req[r].ver
      /\ \A e \in 1..MaxId \ {d} : opened'[e] = opened[e]
      /\ stray' \subseteq 1..MaxId /\ stray \subseteq stray' /\ (req[r].late => d \in stray')
  BY <1>1, <1>2, <1>3 DEF AccountTypes
<1>8. AccountTypes'
  BY <1>2, <1>5, <1>6, <1>7 DEF AccountTypes
<1>9. device[d].state = "none" /\ session[d] = "none" /\ d \notin wiped
  BY <1>4 DEF AccountInv, Numbered
<1>10. /\ Live' = Live \cup {d} /\ d \notin Live /\ Existing' = Existing \cup {d}
       /\ \A e \in 1..MaxId : Usable(e)' => Usable(e) /\ e # d
  <2>1. Live' = Live \cup {d} /\ d \notin Live /\ Existing' = Existing \cup {d}
    BY <1>6, <1>9 DEF Live, Existing, Ids
  <2>2. QED
    BY <1>2, <1>9, <2>1 DEF Usable
<1>11. CountedIn'
  <2>1. \A s \in Requests : req'[s].op # "counted"
    <3>1. ASSUME NEW s \in Requests, s # r PROVE req'[s].op = req[s].op
      BY <1>2, <1>3, <3>1, OtherAccountsProceed
    <3>2. QED
      BY <1>2, <1>3, <1>5, <3>1 DEF AccountInv, CountedIn
  <2>2. Cardinality(Live') = Cardinality(Live) + 1 /\ Cardinality(Live) \in Nat
    <3>1. Live \in SUBSET (1..MaxId)
      BY DEF Live, Ids
    <3>2. QED
      BY <1>10, <3>1, FewerLive, FS_AddElement
  <2>3. Cardinality(Live) < most /\ most \in Nat
    BY <1>2 DEF AccountInv, CountedIn, AccountTypes
  <2>4. Cardinality(Live)' = Cardinality(Live') /\ Mine' = Mine
    BY <1>2 DEF Mine
  <2>5. QED
    BY <1>2, <2>1, <2>2, <2>3, <2>4 DEF AccountInv, CountedIn
<1>12. Numbered'
  <2>1. \A e \in 1..MaxId : device[e].index # 0 => e # d /\ device'[e].index # 0
    BY <1>4, <1>6
  <2>2. ASSUME NEW e \in 1..MaxId
        PROVE  /\ device'[e].index <= e
               /\ device'[e].index # 0 => \A x \in 1..e : device'[x].index # 0
               /\ device'[e].state # "none" \/ session'[e] # "none" \/ e \in wiped' =>
                     device'[e].index # 0
    <3>1. \A x \in 1..e : x \in 1..MaxId
      BY AccountsAssumption
    <3>2. CASE e = d
      <4>1. NextIndex <= d /\ NextIndex # 0
        BY <1>4
      <4>2. \A x \in 1..d : x = d \/ x \in 1..(d - 1)
        OBVIOUS
      <4>3. \A x \in 1..(d - 1) : device[x].index # 0
        BY <1>1 DEF IsNext
      <4>4. QED
        BY <1>6, <2>1, <3>1, <3>2, <4>1, <4>2, <4>3
    <3>3. CASE e # d
      <4>1. /\ device[e].index <= e
            /\ device[e].index # 0 => \A x \in 1..e : device[x].index # 0
            /\ device[e].state # "none" \/ session[e] # "none" \/ e \in wiped =>
                  device[e].index # 0
        BY DEF AccountInv, Numbered
      <4>2. device'[e] = device[e]
        BY <1>6, <3>3
      <4>3. QED
        BY <1>2, <2>1, <3>1, <4>1, <4>2
    <3>4. QED
      BY <3>2, <3>3
  <2>3. ASSUME NEW s \in Requests
        PROVE  /\ req'[s].op \in {"password", "revoke"} =>
                     req'[s].as \in 1..MaxId /\ device'[req'[s].as].index # 0
               /\ req'[s].op = "session" =>
                     req'[s].id \in 1..MaxId /\ device'[req'[s].id].index # 0
               /\ \A e \in req'[s].doomed : device'[e].index # 0
    <3>1. CASE s = r
      <4>1. \A e \in q.doomed : e \in 1..MaxId /\ device[e].index # 0
        BY <1>3 DEF AccountInv, Numbered
      <4>2. device'[d].index # 0
        BY <1>4, <1>6
      <4>3. QED
        BY <1>3, <1>5, <2>1, <3>1, <4>1, <4>2
    <3>2. CASE s # r
      <4>1. /\ req'[s].op = req[s].op /\ req'[s].as = req[s].as /\ req'[s].id = req[s].id
            /\ req'[s].doomed = req[s].doomed
        BY <1>2, <1>3, <3>2, OtherAccountsProceed
      <4>2. req[s].doomed \in SUBSET (1..MaxId)
        BY <1>2, AccountRequest
      <4>3. QED
        BY <2>1, <4>1, <4>2 DEF AccountInv, Numbered
    <3>3. QED
      BY <3>1, <3>2
  <2>4. QED
    BY <2>2, <2>3 DEF Numbered
<1>13. ASSUME NEW s \in Requests, req[s].op = "revoke"
       PROVE  req'[s].op = "revoke" /\ req'[s].as = req[s].as /\ req[s].as # d
  <2>1. s # r
    BY <1>2, <1>13
  <2>2. req[s].as # d
    BY <1>4, <1>13 DEF AccountInv, Numbered
  <2>3. QED
    BY <1>2, <1>3, <1>13, <2>1, <2>2, OtherAccountsProceed
<1>14. SignInsChecked'
  <2>1. ASSUME NEW s \in Requests, ~ req'[s].late
        PROVE  /\ req'[s].op \in {"signin", "counted"} =>
                     req'[s].ver = version \/ \E i \in Requests : req'[i].op = "revoke"
               /\ req'[s].op = "session" =>
                     \/ req'[s].id \in stray' \/ opened'[req'[s].id] = version
                     \/ \E i \in Requests : req'[i].op = "revoke" /\ req'[i].as # req'[s].id
    <3>1. CASE s = r
      <4>1. req[r].ver = version \/ \E i \in Requests : req[i].op = "revoke"
        BY <1>2, <1>3, <1>5, <2>1, <3>1 DEF AccountInv, SignInsChecked
      <4>2. QED
        BY <1>3, <1>5, <1>7, <1>13, <3>1, <4>1
    <3>2. CASE s # r
      <4>1. /\ req'[s].op = req[s].op /\ req'[s].id = req[s].id /\ req'[s].ver = req[s].ver
            /\ ~ req[s].late
        BY <1>2, <1>3, <2>1, <3>2, OtherAccountsProceed
      <4>2. req[s].op = "session" => req[s].id \in 1..MaxId \ {d}
        BY <1>4 DEF AccountInv, Numbered
      <4>3. req[s].op = "session" => opened'[req[s].id] = opened[req[s].id]
        BY <1>7, <4>2
      <4>4. /\ req[s].op \in {"signin", "counted"} =>
                  req[s].ver = version \/ \E i \in Requests : req[i].op = "revoke"
            /\ req[s].op = "session" =>
                  \/ req[s].id \in stray \/ opened[req[s].id] = version
                  \/ \E i \in Requests : req[i].op = "revoke" /\ req[i].as # req[s].id
        BY <4>1 DEF AccountInv, SignInsChecked, Ending
      <4>5. QED
        BY <1>7, <1>13, <4>1, <4>3, <4>4
    <3>3. QED
      BY <3>1, <3>2
  <2>2. QED
    BY <1>2, <2>1 DEF SignInsChecked, Ending
<1>15. FactorChecked'
  BY <1>2, <1>3, FactorStays
<1>16. StandingSignIns'
  <2>1. ASSUME NEW e \in 1..MaxId \ stray', Usable(e)', opened'[e] # version'
        PROVE  \E i \in Requests : req'[i].op = "revoke" /\ req'[i].as # e
    <3>1. Usable(e) /\ opened[e] # version /\ e \notin stray
      BY <1>2, <1>7, <1>10, <2>1
    <3>2. PICK i \in Requests : req[i].op = "revoke" /\ req[i].as # e
      BY <3>1 DEF AccountInv, StandingSignIns, Ids, Running
    <3>3. QED
      BY <1>13, <3>2
  <2>2. Existing' \cap wiped' = {}
    BY <1>2, <1>9, <1>10 DEF AccountInv, StandingSignIns
  <2>3. QED
    BY <2>1, <2>2 DEF StandingSignIns, Ids, Running
<1>17. QED
  BY <1>8, <1>11, <1>12, <1>14, <1>15, <1>16 DEF AccountInv

\* Sessions and devices end; no others are added but one the request was checked for.
LEMMA AccountSessionsWritten ==
    ASSUME AccountInv, NEW r \in Requests, Proceed(r, Idle, {}), req[r].op # "revoke",
           session' \in [1..MaxId -> {"none", "live", "revoked"}],
           stray' \subseteq 1..MaxId, stray \subseteq stray',
           UNCHANGED <<account, device, licence, version, opened, wiped, minted, proven, most>>,
           \A d \in 1..MaxId : session'[d] # "none" => device[d].index # 0,
           \A d \in 1..MaxId \ stray' :
              session'[d] = "live" => \/ session[d] = "live"
                                      \/ opened[d] = version \/ Ending(d)
    PROVE  AccountInv'
<1> DEFINE q == Idle
<1>1. /\ q \in AccountReq /\ q.op = "idle" /\ q.doomed = {} /\ Proceed(r, q, {})
      /\ AccountTypes /\ {} \in SUBSET Requests
  BY AccountIdle DEF AccountInv
<1> HIDE DEF q
<1>2. req' \in [Requests -> AccountReq] /\ req'[r] = q /\ made' \in Nat
  BY <1>1, AccountProceeds
<1>3. AccountTypes'
  BY <1>2 DEF AccountInv, AccountTypes
<1>4. UNCHANGED <<Live, Existing>>
  BY DEF Live, Existing
<1>5. CountedIn'
  <2>1. \A s \in Requests : req'[s].op = "counted" => req[s].op = "counted"
    BY <1>1, <1>2, OtherAccountsProceed
  <2>2. QED
    BY <1>1, <1>3, <1>4, <2>1, CountedInStays DEF AccountInv
<1>6. Numbered'
  BY <1>1, NumberedStays DEF AccountInv, Numbered
<1>7. SignInsChecked' /\ StandingSignIns'
  <2>1. Existing' \cap wiped' = {}
    BY <1>4 DEF AccountInv, StandingSignIns
  <2>2. \A d \in 1..MaxId \ stray' : Usable(d)' => Usable(d) \/ opened[d] = version \/ Ending(d)
    BY <1>4 DEF Usable
  <2>3. QED
    BY <1>1, <2>1, <2>2, SignInsStay
<1>8. FactorChecked'
  BY <1>1, FactorStays
<1>9. QED
  BY <1>3, <1>5, <1>6, <1>7, <1>8 DEF AccountInv

LEMMA AccountSignInSession ==
    ASSUME AccountInv, NEW r \in Requests, SignInSession(r) PROVE AccountInv'
<1> DEFINE d == req[r].id
<1>1. /\ req[r].op = "session" /\ Proceed(r, Idle, {})
      /\ session' = IF d \in Existing THEN [session EXCEPT ![d] = "live"] ELSE session
      /\ stray' = IF req[r].late THEN stray \cup {d} ELSE stray
      /\ UNCHANGED <<account, device, licence, version, opened, wiped, minted, proven, most>>
  BY DEF SignInSession, Finish
<1>2. d \in 1..MaxId /\ device[d].index # 0
  BY <1>1 DEF AccountInv, Numbered
<1>3. req[r].late \/ d \in stray \/ opened[d] = version \/ Ending(d)
  BY <1>1 DEF AccountInv, SignInsChecked
<1>4. /\ session \in [1..MaxId -> {"none", "live", "revoked"}] /\ stray \subseteq 1..MaxId
      /\ \A e \in 1..MaxId : session[e] # "none" => device[e].index # 0
  BY DEF AccountInv, AccountTypes, Numbered
<1> HIDE DEF d
<1>5. /\ session' \in [1..MaxId -> {"none", "live", "revoked"}]
      /\ \A e \in 1..MaxId : e # d => session'[e] = session[e]
  BY <1>1, <1>2, <1>4
<1>6. QED
  BY <1>1, <1>2, <1>3, <1>4, <1>5, AccountSessionsWritten

LEMMA AccountDeviceSessions ==
    ASSUME AccountInv, NEW r \in Requests, RemoveDeviceSessions(r) PROVE AccountInv'
<1> DEFINE d == req[r].id
<1>1. /\ req[r].op = "end" /\ Proceed(r, Idle, {})
      /\ session' = IF session[d] = "live" THEN [session EXCEPT ![d] = "revoked"] ELSE session
      /\ UNCHANGED <<account, device, licence, version, opened, stray, wiped, minted, proven, most>>
  BY DEF RemoveDeviceSessions, Finish, history
<1>2. /\ session \in [1..MaxId -> {"none", "live", "revoked"}] /\ stray \subseteq 1..MaxId
      /\ \A e \in 1..MaxId : session[e] # "none" => device[e].index # 0
  BY DEF AccountInv, AccountTypes, Numbered
<1> HIDE DEF d
<1>3. /\ session' \in [1..MaxId -> {"none", "live", "revoked"}]
      /\ \A e \in 1..MaxId : \/ session'[e] = session[e]
                             \/ session[e] = "live" /\ session'[e] = "revoked"
  BY <1>1, <1>2
<1>4. QED
  BY <1>1, <1>2, <1>3, AccountSessionsWritten

\* Nothing but a session or a licence is written, and no request goes on.
LEMMA AccountSessionsStay ==
    ASSUME AccountInv, AccountTypes', CountedIn',
           UNCHANGED <<account, device, req, version, opened, stray, wiped, minted, proven>>,
           \A d \in 1..MaxId : session'[d] # session[d] => session[d] = "live" /\ session'[d] # "live"
    PROVE  AccountInv'
<1>1. UNCHANGED <<Live, Existing>>
  BY DEF Live, Existing
<1>2. Numbered'
  BY DEF AccountInv, Numbered
<1>3. SignInsChecked' /\ FactorChecked'
  BY DEF AccountInv, SignInsChecked, FactorChecked, Ending
<1>4. \A d \in 1..MaxId : Usable(d)' => Usable(d)
  BY <1>1 DEF Usable
<1>5. StandingSignIns'
  BY <1>1, <1>4 DEF AccountInv, StandingSignIns, Ids, Running
<1>6. QED
  BY <1>2, <1>3, <1>5 DEF AccountInv

LEMMA AccountSignOut ==
    ASSUME AccountInv, NEW s \in 1..MaxId, SignOut(s) PROVE AccountInv'
<1>1. /\ session[s] = "live" /\ session' = [session EXCEPT ![s] = "revoked"] /\ made' = made + 1
      /\ UNCHANGED <<account, device, licence, req, version, opened, stray, wiped, minted, proven,
                     most>>
  BY DEF SignOut, Usable, AtOnce, history
<1>2. AccountTypes'
  BY <1>1 DEF AccountInv, AccountTypes
<1>3. CountedIn'
  <2>1. Live' \subseteq Live
    BY <1>1 DEF Live
  <2>2. QED
    BY <1>1, <1>2, <2>1, CountedInStays DEF AccountInv
<1>4. \A d \in 1..MaxId : session'[d] # session[d] => session[d] = "live" /\ session'[d] # "live"
  BY <1>1 DEF AccountInv, AccountTypes
<1>5. QED
  BY <1>1, <1>2, <1>3, <1>4, AccountSessionsStay

LEMMA AccountLicence ==
    ASSUME AccountInv, NEW k \in Keys,
           Issue(k) \/ RevokeLicence(k) \/ \E a \in Others \cup {Me} : Redeem(k, a)
    PROVE  AccountInv'
<1>1. /\ made' = made + 1 /\ made \in Nat
      /\ UNCHANGED <<account, device, session, req, version, opened, stray, wiped, minted, proven>>
  BY DEF Issue, RevokeLicence, Redeem, AtOnce, history, AccountInv, AccountTypes
<1>2. /\ licence' \in [Keys -> [status : {"none", "active", "revoked"}, by : Others \cup {Me, None}]]
      /\ \A l \in Keys : licence'[l].by = Me => licence[l].by = Me \/ (l = k /\ MaxDevices[k] <= most')
      /\ most' \in Nat /\ most <= most'
  <2>0. /\ licence \in [Keys -> [status : {"none", "active", "revoked"}, by : Others \cup {Me, None}]]
        /\ most \in Nat /\ MaxDevices[k] \in Nat
    BY AccountsAssumption DEF AccountInv, AccountTypes
  <2>1. CASE Issue(k) \/ RevokeLicence(k)
    <3>1. PICK x \in {"active", "revoked"} : licence' = [licence EXCEPT ![k].status = x]
      BY <2>1 DEF Issue, RevokeLicence
    <3>2. most' = most
      BY <2>1 DEF Issue, RevokeLicence, history
    <3> DEFINE y == [licence[k] EXCEPT !.status = x]
    <3>3. licence' = [licence EXCEPT ![k] = y] /\ y.by = licence[k].by
          /\ y \in [status : {"none", "active", "revoked"}, by : Others \cup {Me, None}]
      BY <2>0, <3>1
    <3> HIDE DEF y
    <3>4. QED
      BY <2>0, <3>2, <3>3
  <2>2. ASSUME NEW a \in Others \cup {Me}, Redeem(k, a)
        PROVE  /\ licence' \in [Keys -> [status : {"none", "active", "revoked"},
                                         by : Others \cup {Me, None}]]
               /\ \A l \in Keys : licence'[l].by = Me =>
                     licence[l].by = Me \/ (l = k /\ MaxDevices[k] <= most')
               /\ most' \in Nat /\ most <= most'
    <3>1. /\ licence' = [licence EXCEPT ![k].by = a]
          /\ most' = IF a = Me /\ MaxDevices[k] > most THEN MaxDevices[k] ELSE most
      BY <2>2 DEF Redeem
    <3> DEFINE y == [licence[k] EXCEPT !.by = a]
    <3>2. licence' = [licence EXCEPT ![k] = y] /\ y.by = a
          /\ y \in [status : {"none", "active", "revoked"}, by : Others \cup {Me, None}]
      BY <2>0, <3>1
    <3>3. most' \in Nat /\ most <= most' /\ (a = Me => MaxDevices[k] <= most')
      BY <2>0, <3>1
    <3> HIDE DEF y
    <3>4. QED
      BY <2>0, <3>2, <3>3
  <2>3. QED
    BY <2>1, <2>2
<1>3. AccountTypes'
  BY <1>1, <1>2 DEF AccountInv, AccountTypes
<1>4. CountedIn'
  <2>1. Cardinality(Live) \in Nat /\ most \in Nat /\ DefaultLimit \in Nat
        /\ \A l \in Keys : MaxDevices[l] \in Nat
    <3>1. Live \in SUBSET (1..MaxId)
      BY DEF Live, Ids
    <3>2. QED
      BY <3>1, FewerLive, AccountsAssumption DEF AccountInv, AccountTypes
  <2>2. Live' = Live
    BY <1>1 DEF Live
  <2>3. Cardinality(Live)' = Cardinality(Live)
    BY <2>2
  <2>4. \A l \in Mine' : MaxDevices[l] <= most'
    BY <1>2, <2>1 DEF Mine, AccountInv, CountedIn
  <2>5. DefaultLimit <= most' /\ Cardinality(Live) <= most'
        /\ (Cardinality(Live) < most => Cardinality(Live) < most')
    BY <1>2, <2>1 DEF AccountInv, CountedIn
  <2>6. QED
    BY <1>1, <2>3, <2>4, <2>5 DEF AccountInv, CountedIn
<1>5. \A d \in 1..MaxId : session'[d] = session[d]
  BY <1>1
<1>6. QED
  BY <1>1, <1>3, <1>4, <1>5, AccountSessionsStay

\* Who was signing in is late from here on; who is left is the one who asked.
LEMMA AccountRevokeRow ==
    ASSUME AccountInv, NEW r \in Requests, RevokeRow(r) PROVE AccountInv'
<1> DEFINE q == Idle
           S == SigningIn
<1>1. /\ req[r].op = "revoke" /\ Proceed(r, q, S)
      /\ session' = [d \in 1..MaxId |-> IF session[d] = "live" /\ d # req[r].as THEN "revoked"
                                                                               ELSE session[d]]
      /\ UNCHANGED <<account, device, licence, version, opened, stray, wiped, minted, proven, most>>
  BY DEF RevokeRow, history, Ids
<1>2. /\ q \in AccountReq /\ q.op = "idle" /\ q.doomed = {} /\ AccountTypes
      /\ S \in SUBSET Requests
      /\ \A s \in Requests : req[s].op \in {"signin", "counted", "session"} => s \in S
  BY AccountIdle DEF AccountInv, SigningIn, Running
<1> HIDE DEF q, S
<1>3. req' \in [Requests -> AccountReq] /\ req'[r] = q /\ made' \in Nat
  BY <1>1, <1>2, AccountProceeds
<1>4. /\ session' \in [1..MaxId -> {"none", "live", "revoked"}]
      /\ \A d \in 1..MaxId : /\ session'[d] # "none" => session[d] # "none"
                             /\ session'[d] = "live" => session[d] = "live" /\ d = req[r].as
  BY <1>1, <1>2 DEF AccountTypes
<1>5. AccountTypes'
  BY <1>1, <1>2, <1>3, <1>4 DEF AccountTypes
<1>6. UNCHANGED <<Live, Existing>>
  BY <1>1 DEF Live, Existing
<1>7. CountedIn'
  <2>1. \A s \in Requests : req'[s].op = "counted" => req[s].op = "counted"
    BY <1>1, <1>2, <1>3, OtherAccountsProceed
  <2>2. QED
    BY <1>1, <1>2, <1>5, <1>6, <2>1, CountedInStays DEF AccountInv
<1>8. Numbered'
  BY <1>1, <1>2, <1>4, NumberedStays DEF AccountInv, Numbered
<1>9. SignInsChecked'
  <2>1. ASSUME NEW s \in Requests, ~ req'[s].late
        PROVE  req'[s].op \notin {"signin", "counted", "session"}
    <3>1. CASE s = r
      BY <1>2, <1>3, <3>1
    <3>2. CASE s # r
      BY <1>1, <1>2, <2>1, <3>2, OtherAccountsProceed
    <3>3. QED
      BY <3>1, <3>2
  <2>2. QED
    BY <2>1 DEF SignInsChecked
<1>10. FactorChecked'
  BY <1>1, <1>2, FactorStays
<1>11. StandingSignIns'
  <2>1. ASSUME NEW d \in 1..MaxId \ stray', Usable(d)', opened'[d] # version'
        PROVE  \E i \in Requests : req'[i].op = "revoke" /\ req'[i].as # d
    <3>1. Usable(d) /\ d = req[r].as /\ opened[d] # version /\ d \notin stray
      BY <1>1, <1>4, <1>6, <2>1 DEF Usable
    <3>2. PICK i \in Requests : req[i].op = "revoke" /\ req[i].as # d
      BY <3>1 DEF AccountInv, StandingSignIns, Ids, Running
    <3>3. i \in Requests \ {r}
      BY <3>1, <3>2
    <3>4. QED
      BY <1>1, <1>2, <3>2, <3>3, OtherAccountsProceed
  <2>2. Existing' \cap wiped' = {}
    BY <1>1, <1>6 DEF AccountInv, StandingSignIns
  <2>3. QED
    BY <2>1, <2>2 DEF StandingSignIns, Ids, Running
<1>12. QED
  BY <1>5, <1>7, <1>8, <1>9, <1>10, <1>11 DEF AccountInv

\* Everybody's session but one's own is about to end.
LEMMA AccountPasswordRow ==
    ASSUME AccountInv, NEW r \in Requests, PasswordRow(r) PROVE AccountInv'
<1> DEFINE o == req[r].as
           q == [req[r] EXCEPT !.op = "revoke"]
<1>1. /\ req[r].op = "password" /\ Proceed(r, q, {})
      /\ account' = [account EXCEPT !.password = req[r].word]
      /\ version' = version + 1 /\ opened' = [opened EXCEPT ![o] = version + 1]
      /\ UNCHANGED <<device, session, licence, stray, wiped, minted, proven, most>>
  BY DEF PasswordRow
<1>2. /\ q \in AccountReq /\ q.op = "revoke" /\ q.as = o /\ q.doomed = req[r].doomed
      /\ AccountTypes /\ {} \in SUBSET Requests
  BY AccountRequest DEF AccountReq, Ops, AccountInv
<1>3. o \in 1..MaxId /\ device[o].index # 0
  BY <1>1 DEF AccountInv, Numbered
<1>4. /\ account' \in AccountRow /\ account'.deleted = account.deleted
      /\ account'.secret = account.secret /\ account'.enabled = account.enabled
  BY <1>1, <1>2, AccountRequest DEF AccountTypes, AccountRow
<1> HIDE DEF q, o
<1>5. req' \in [Requests -> AccountReq] /\ req'[r] = q /\ made' \in Nat
  BY <1>1, <1>2, AccountProceeds
<1>6. version' \in Nat /\ opened' \in [1..MaxId -> Nat] /\ opened'[o] = version'
  BY <1>1, <1>2, <1>3 DEF AccountTypes
<1>7. AccountTypes'
  BY <1>1, <1>2, <1>4, <1>5, <1>6 DEF AccountTypes
<1>8. UNCHANGED <<Live, Existing>>
  BY <1>1 DEF Live, Existing
<1>9. CountedIn'
  <2>1. \A s \in Requests : req'[s].op = "counted" => req[s].op = "counted"
    BY <1>1, <1>2, <1>5, OtherAccountsProceed
  <2>2. QED
    BY <1>1, <1>2, <1>7, <1>8, <2>1, CountedInStays DEF AccountInv
<1>10. Numbered'
  <2>1. \A d \in q.doomed : device[d].index # 0
    BY <1>2 DEF AccountInv, Numbered
  <2>2. QED
    BY <1>1, <1>2, <1>3, <2>1, NumberedStays DEF AccountInv, Numbered
<1>11. \A d \in 1..MaxId :
          \/ opened'[d] = version'
          \/ \E i \in Requests : req'[i].op = "revoke" /\ req'[i].as # d
  BY <1>2, <1>5, <1>6
<1>12. SignInsChecked'
  <2>1. \A s \in Requests : req'[s].op = "session" => req'[s].id \in 1..MaxId
    BY <1>10 DEF Numbered
  <2>2. \E i \in Requests : req'[i].op = "revoke"
    BY <1>2, <1>5
  <2>3. QED
    BY <1>11, <2>1, <2>2 DEF SignInsChecked, Ending
<1>13. FactorChecked'
  BY <1>1, <1>2, <1>4, FactorStays
<1>14. StandingSignIns'
  <2>1. Existing' \cap wiped' = {}
    BY <1>1, <1>8 DEF AccountInv, StandingSignIns
  <2>2. QED
    BY <1>11, <2>1 DEF StandingSignIns, Ids, Running
<1>15. QED
  BY <1>7, <1>9, <1>10, <1>12, <1>13, <1>14 DEF AccountInv

LEMMA AccountWipeDevices ==
    ASSUME AccountInv, NEW r \in Requests, WipeDevices(r) PROVE AccountInv'
<1> DEFINE q == [req[r] EXCEPT !.op = "wiping", !.doomed = Existing]
<1>1. /\ req[r].op = "wipe" /\ Proceed(r, q, {})
      /\ UNCHANGED <<account, device, session, licence, version, opened, stray, wiped, minted,
                     proven, most>>
  BY DEF WipeDevices, history
<1>2. /\ q \in AccountReq /\ q.op = "wiping" /\ q.doomed = Existing
      /\ AccountTypes /\ {} \in SUBSET Requests
  <2>1. Existing \in SUBSET (1..MaxId)
    BY DEF Existing, Ids
  <2>2. QED
    BY <2>1, AccountRequest DEF AccountReq, Ops, AccountInv
<1> HIDE DEF q
<1>3. req' \in [Requests -> AccountReq] /\ req'[r] = q /\ made' \in Nat
  BY <1>1, <1>2, AccountProceeds
<1>4. AccountTypes'
  BY <1>1, <1>2, <1>3 DEF AccountTypes
<1>5. UNCHANGED <<Live, Existing>> /\ \A d \in 1..MaxId : Usable(d)' => Usable(d)
  <2>1. UNCHANGED <<Live, Existing>>
    BY <1>1 DEF Live, Existing
  <2>2. QED
    BY <1>1, <2>1 DEF Usable
<1>6. CountedIn'
  <2>1. \A s \in Requests : req'[s].op = "counted" => req[s].op = "counted"
    BY <1>1, <1>2, <1>3, OtherAccountsProceed
  <2>2. QED
    BY <1>1, <1>2, <1>4, <1>5, <2>1, CountedInStays DEF AccountInv
<1>7. Numbered'
  <2>1. \A d \in q.doomed : device[d].index # 0
    BY <1>2 DEF AccountInv, Numbered, Existing, Ids
  <2>2. QED
    BY <1>1, <1>2, <2>1, NumberedStays DEF AccountInv, Numbered
<1>8. SignInsChecked' /\ StandingSignIns'
  <2>1. Existing' \cap wiped' = {}
    BY <1>1, <1>5 DEF AccountInv, StandingSignIns
  <2>2. QED
    BY <1>1, <1>2, <1>5, <2>1, SignInsStay
<1>9. FactorChecked'
  BY <1>1, <1>2, FactorStays
<1>10. QED
  BY <1>4, <1>6, <1>7, <1>8, <1>9 DEF AccountInv

LEMMA AccountWipeCommit ==
    ASSUME AccountInv, NEW r \in Requests, WipeCommit(r) PROVE AccountInv'
<1> DEFINE gone == req[r].doomed
           x == [req[r] EXCEPT !.op = "tombstone", !.doomed = {}]
           q == IF req[r].bye THEN x ELSE Idle
           S == Running({"enable"})
<1>1. /\ req[r].op = "wiping" /\ Proceed(r, q, S)
      /\ device' = [d \in 1..MaxId |-> IF d \in gone THEN [device[d] EXCEPT !.state = "none"]
                                                    ELSE device[d]]
      /\ session' = [d \in 1..MaxId |-> IF d \in gone THEN "none" ELSE session[d]]
      /\ account' = [account EXCEPT !.duress = None, !.secret = 0, !.enabled = FALSE]
      /\ wiped' = wiped \cup gone
      /\ UNCHANGED <<licence, version, opened, stray, minted, proven, most>>
  BY DEF WipeCommit, Ids
<1>2. /\ q \in AccountReq /\ q.op \in {"tombstone", "idle"} /\ q.doomed = {}
      /\ AccountTypes /\ S \in SUBSET Requests
      /\ \A s \in Requests : req[s].op = "enable" => s \in S
  <2>1. x \in AccountReq /\ x.op = "tombstone" /\ x.doomed = {}
    BY AccountRequest DEF AccountReq, Ops, AccountInv
  <2> HIDE DEF x
  <2>2. QED
    BY <2>1, AccountIdle DEF AccountInv, Running
<1>3. gone \in SUBSET (1..MaxId) /\ \A d \in gone : device[d].index # 0
  BY <1>2, AccountRequest DEF AccountInv, Numbered
<1>4. /\ account' \in AccountRow /\ account'.deleted = account.deleted
      /\ account'.enabled = FALSE
  BY <1>1, <1>2 DEF AccountTypes, AccountRow
<1> HIDE DEF q, gone, S
<1>5. req' \in [Requests -> AccountReq] /\ req'[r] = q /\ made' \in Nat
  BY <1>1, <1>2, AccountProceeds
<1>6. /\ device' \in [1..MaxId -> DeviceRow]
      /\ \A d \in 1..MaxId : /\ device'[d].index = device[d].index
                             /\ d \in gone => device'[d].state = "none"
                             /\ d \notin gone => device'[d] = device[d]
  <2>1. \A d \in 1..MaxId : LET y == [device[d] EXCEPT !.state = "none"] IN
           y \in DeviceRow /\ y.index = device[d].index /\ y.state = "none"
    BY <1>2 DEF AccountTypes, DeviceRow
  <2>2. \A d \in 1..MaxId : device[d] \in DeviceRow
    BY <1>2 DEF AccountTypes
  <2>3. QED
    BY <1>1, <2>1, <2>2
<1>7. /\ session' \in [1..MaxId -> {"none", "live", "revoked"}]
      /\ \A d \in 1..MaxId : session'[d] # "none" => session'[d] = session[d] /\ d \notin gone
  BY <1>1, <1>2 DEF AccountTypes
<1>8. AccountTypes'
  BY <1>1, <1>2, <1>3, <1>4, <1>5, <1>6, <1>7 DEF AccountTypes
<1>9. /\ Live' \subseteq Live /\ Existing' = Existing \ gone
      /\ \A d \in 1..MaxId : Usable(d)' => Usable(d)
  <2>1. Live' \subseteq Live /\ Existing' = Existing \ gone
    BY <1>6 DEF Live, Existing, Ids
  <2>2. QED
    BY <1>4, <1>7, <2>1 DEF Usable
<1>10. CountedIn'
  <2>1. \A s \in Requests : req'[s].op = "counted" => req[s].op = "counted"
    BY <1>1, <1>2, <1>5, OtherAccountsProceed
  <2>2. QED
    BY <1>1, <1>2, <1>8, <1>9, <2>1, CountedInStays DEF AccountInv
<1>11. Numbered'
  <2>1. \A d \in 1..MaxId :
           /\ device'[d].index = device[d].index
           /\ device'[d].state # "none" \/ session'[d] # "none" \/ d \in wiped' =>
                 device[d].index # 0
    <3>1. \A d \in 1..MaxId :
             device[d].state # "none" \/ session[d] # "none" \/ d \in wiped => device[d].index # 0
      BY DEF AccountInv, Numbered
    <3>2. QED
      BY <1>1, <1>3, <1>6, <1>7, <3>1
  <2>2. QED
    BY <1>1, <1>2, <2>1, NumberedStays
<1>12. SignInsChecked' /\ StandingSignIns'
  <2>1. Existing' \cap wiped' = {}
    BY <1>1, <1>9 DEF AccountInv, StandingSignIns
  <2>2. QED
    BY <1>1, <1>2, <1>9, <2>1, SignInsStay
<1>13. FactorChecked'
  BY <1>1, <1>2, <1>4, FactorStays
<1>14. QED
  BY <1>8, <1>10, <1>11, <1>12, <1>13 DEF AccountInv

LEMMA AccountPreserved == AccountInv /\ [Next]_vars => AccountInv'
<1>1. ASSUME AccountInv, NEW r \in Requests, Continues(r) PROVE AccountInv'
  BY <1>1, AccountSignInCount, AccountSignInRegister, AccountSignInSession, AccountRevokeRow,
     AccountDeviceSessions, AccountPasswordRow, AccountRowWrites, AccountWipeDevices,
     AccountWipeCommit DEF Continues
<1>2. ASSUME AccountInv, UNCHANGED vars PROVE AccountInv'
  <2>1. UNCHANGED <<Live, Existing, Mine>> /\ \A d \in 1..MaxId : Usable(d)' = Usable(d)
    BY <1>2 DEF vars, Live, Existing, Mine, Usable
  <2>2. AccountTypes' /\ Numbered' /\ SignInsChecked' /\ FactorChecked'
    BY <1>2 DEF vars, AccountInv, AccountTypes, Numbered, SignInsChecked, FactorChecked, Ending
  <2>3. CountedIn' /\ StandingSignIns'
    BY <1>2, <2>1, <2>2, CountedInStays DEF vars, AccountInv, StandingSignIns, Running, Ids
  <2>4. QED
    BY <2>2, <2>3 DEF AccountInv
<1>3. QED
  BY <1>1, <1>2, AccountChecked, AccountSignOut, AccountLicence DEF Next, Ids

LEMMA AccountKeeps == AccountInv => DevicesWithinLimit /\ StandingSignIns
BY DEF AccountInv, CountedIn, DevicesWithinLimit

\* The factor of the account is written by its own requests and by a wipe.
AccountFactorSteps ==
    /\ account'.enabled /\ ~account.enabled =>
          \/ account'.secret \in proven
          \/ \E r \in Running({"enable"}) : req[r].late
    /\ account.enabled /\ ~account'.enabled =>
          \/ Running({"off", "wiping"}) # {}
          \/ \E r \in Running({"setup"}) : req[r].late
    /\ account.enabled /\ account'.enabled => account'.secret = account.secret

LEMMA AccountKeepsFactor == AccountInv /\ [Next]_vars => AccountFactorSteps
<1> SUFFICES ASSUME AccountInv, [Next]_vars PROVE AccountFactorSteps
  OBVIOUS
<1>a. account \in AccountRow
  BY DEF AccountInv, AccountTypes
<1>1. ASSUME account'.secret = account.secret, account'.enabled = account.enabled
      PROVE  AccountFactorSteps
  BY <1>1 DEF AccountFactorSteps
<1>2. CASE UNCHANGED account
  BY <1>1, <1>2
<1>3. ASSUME NEW r \in Requests, TotpSetupRow(r) PROVE AccountFactorSteps
  <2>1. req[r].op = "setup" /\ account' = [account EXCEPT !.secret = minted + 1, !.enabled = FALSE]
    BY <1>3 DEF TotpSetupRow
  <2>2. account'.enabled = FALSE
    BY <1>a, <2>1 DEF AccountRow
  <2>3. account.enabled => req[r].late /\ r \in Running({"setup"})
    BY <2>1 DEF AccountInv, FactorChecked, Running
  <2>4. QED
    BY <2>2, <2>3 DEF AccountFactorSteps
<1>4. ASSUME NEW r \in Requests, TotpEnableRow(r) PROVE AccountFactorSteps
  <2>1. req[r].op = "enable" /\ account' = [account EXCEPT !.enabled = TRUE]
    BY <1>4 DEF TotpEnableRow
  <2>2. account'.enabled = TRUE /\ account'.secret = account.secret
    BY <1>a, <2>1 DEF AccountRow
  <2>3. account.secret \in proven \/ (req[r].late /\ r \in Running({"enable"}))
    BY <2>1 DEF AccountInv, FactorChecked, Running
  <2>4. QED
    BY <2>2, <2>3 DEF AccountFactorSteps
<1>5. ASSUME NEW r \in Requests, TotpOffRow(r) \/ WipeCommit(r) PROVE AccountFactorSteps
  <2>1. r \in Running({"off", "wiping"})
    BY <1>5 DEF TotpOffRow, WipeCommit, Running
  <2>2. account'.enabled = FALSE
    BY <1>a, <1>5 DEF TotpOffRow, WipeCommit, AccountRow
  <2>3. QED
    BY <2>1, <2>2 DEF AccountFactorSteps
<1>6. ASSUME NEW r \in Requests, PasswordRow(r) \/ DuressRow(r) \/ Tombstone(r)
      PROVE  AccountFactorSteps
  <2>1. account'.enabled = account.enabled /\ account'.secret = account.secret
    BY <1>a, <1>6 DEF PasswordRow, DuressRow, Tombstone, AccountRow
  <2>2. QED
    BY <1>1, <2>1
<1>7. ASSUME NEW r \in Requests, Checked(r) PROVE UNCHANGED account
  BY <1>7 DEF Checked, SignIn, SignInUnderDuress, RevokeAll, TotpSetup, RemoveDevice, TotpEnable,
     TotpOff, Wipe, DeleteAccount, ChangePassword, SetDuress, Begin
<1>8. ASSUME NEW r \in Requests, Continues(r) PROVE AccountFactorSteps
  <2>1. CASE SignInCount(r) \/ SignInRegister(r) \/ SignInSession(r) \/ RevokeRow(r)
             \/ RemoveDeviceSessions(r) \/ WipeDevices(r)
    BY <1>2, <2>1 DEF SignInCount, SignInRegister, SignInSession, RevokeRow, RemoveDeviceSessions,
       WipeDevices
  <2>2. QED
    BY <1>3, <1>4, <1>5, <1>6, <1>8, <2>1 DEF Continues
<1>9. CASE \/ \E s \in Ids : SignOut(s)
           \/ \E k \in Keys : Issue(k) \/ RevokeLicence(k) \/ \E a \in Others \cup {Me} : Redeem(k, a)
  BY <1>2, <1>9 DEF SignOut, Issue, RevokeLicence, Redeem
<1>10. QED
  BY <1>2, <1>7, <1>8, <1>9 DEF Next, vars
-----------------------------------------------------------------------------
(* Media.  MediaInv is what makes MediaLivesAsUsed inductive: a request    *)
(* that has stored a blob is the only one to know it and what another is   *)
(* about to unlink is named by no row (Filed); and an object that nothing  *)
(* has crossed has one use at most, is kept for good while it has it, and  *)
(* is let go by a request under way when it has lost it (Used).            *)

\* A request when n blobs have been stored.
MediaAsk(q, n) ==
    /\ q \in [op : media!Ops, key : 0..n, old : 0..n, keys : SUBSET media!Blobs,
              kind : Kinds \cup {"attachment"}, item : Items \cup {"none"}]
    /\ q.keys \subseteq 1..n
    /\ q.op = "drop" => q.item \in Items
    /\ q.op = "release" => q.old # 0
    /\ q.op = "adopt" => q.key # 0

MediaTypes == media!TypeOK /\ \A r \in Requests : MediaAsk(mReq[r], puts)

Storing(q) == q.op \in {"insert", "backup"}

\* Of the files there are, those that rows and the backup's row name.
FiledAt(q, files, rows, saved) ==
    /\ Storing(q) => q.key \in files \ (rows \cup {saved})
    /\ q.op = "backup" => q.old \notin rows
    /\ q.op = "unlink" => q.keys \cap (rows \cup {saved}) = {}

\* What s has stored is not in another's hands.
Apart(q, s) ==
    Storing(s) => /\ q.op = "backup" => q.old # s.key
                  /\ q.op = "unlink" => s.key \notin q.keys

Filed ==
    /\ media!NothingDangles /\ backup \notin media!Rows
    /\ \A r \in Requests : FiledAt(mReq[r], blobs, media!Rows, backup)
    /\ \A r, s \in Requests : Apart(mReq[r], mReq[s])
    /\ \A r, s \in Requests :
         Storing(mReq[r]) /\ Storing(mReq[s]) /\ r # s => mReq[r].key # mReq[s].key

LetsGo(q, k) == q.op = "release" /\ q.old = k
TakesUp(q, k) == q.op = "adopt" /\ q.key = k

UsedWell(k) ==
    /\ \A u, v \in media!Uses(k) : u = v
    /\ media!Uses(k) # {} =>
         /\ \A r \in Requests : ~LetsGo(mReq[r], k)
         /\ object[k].till = "long" \/ \E r \in Requests : TakesUp(mReq[r], k)
    /\ object[k].row /\ object[k].till = "long" =>
         media!Uses(k) # {} \/ \E r \in Requests : LetsGo(mReq[r], k)

Used == \A k \in media!Blobs \ excused : UsedWell(k)

MediaInv == MediaTypes /\ Filed /\ Used

\* The requests there are.
LEMMA MediaIdle ==
  ASSUME NEW n \in Nat
  PROVE  /\ MediaAsk(media!Idle, n)
         /\ media!Idle.op = "idle" /\ media!Idle.keys = {} /\ media!Idle.old = 0
  BY DEF MediaAsk, media!Idle, media!Ops

LEMMA MediaKeyed ==
  ASSUME NEW n \in Nat, NEW op \in {"mine", "door", "item"}, NEW k \in 1..n
  PROVE  /\ MediaAsk([media!Idle EXCEPT !.op = op, !.key = k], n)
         /\ [media!Idle EXCEPT !.op = op, !.key = k].op = op
  <1>1. op \in media!Ops /\ op # "drop" /\ k \in 0..n
    BY DEF media!Ops
  <1> QED
    BY <1>1, MediaIdle DEF MediaAsk

LEMMA MediaOthers ==
  ASSUME NEW n \in Nat, NEW i \in Items
  PROVE  /\ MediaAsk([media!Idle EXCEPT !.op = "drop", !.item = i], n)
         /\ [media!Idle EXCEPT !.op = "drop", !.item = i].op = "drop"
  BY MediaIdle DEF MediaAsk, media!Ops

LEMMA MediaWiping ==
  ASSUME NEW n \in Nat
  PROVE  /\ MediaAsk([media!Idle EXCEPT !.op = "wipe"], n)
         /\ [media!Idle EXCEPT !.op = "wipe"].op = "wipe"
  BY MediaIdle DEF MediaAsk, media!Ops

LEMMA MediaUploaded ==
  ASSUME NEW n \in Nat, NEW kind \in Kinds
  PROVE  LET q == [media!Idle EXCEPT !.op = "insert", !.key = n + 1, !.kind = kind] IN
         MediaAsk(q, n + 1) /\ q.op = "insert" /\ q.key = n + 1 /\ q.old = 0
  <1>1. n + 1 \in Nat /\ n + 1 \in 0..(n + 1)
    OBVIOUS
  <1>2. /\ MediaAsk(media!Idle, n + 1)
        /\ media!Idle.op = "idle" /\ media!Idle.keys = {} /\ media!Idle.old = 0
    BY <1>1, MediaIdle
  <1> QED
    BY <1>1, <1>2 DEF MediaAsk, media!Ops

LEMMA MediaBackedUp ==
  ASSUME NEW n \in Nat, NEW m \in 0..n
  PROVE  LET q == [media!Idle EXCEPT !.op = "backup", !.key = n + 1, !.old = m] IN
         MediaAsk(q, n + 1) /\ q.op = "backup" /\ q.key = n + 1 /\ q.old = m
  <1>1. n + 1 \in Nat /\ n + 1 \in 0..(n + 1) /\ m \in 0..(n + 1)
    OBVIOUS
  <1>2. /\ MediaAsk(media!Idle, n + 1)
        /\ media!Idle.op = "idle" /\ media!Idle.keys = {} /\ media!Idle.old = 0
    BY <1>1, MediaIdle
  <1> QED
    BY <1>1, <1>2 DEF MediaAsk, media!Ops

LEMMA MediaLetting ==
  ASSUME NEW n \in Nat, NEW old \in 0..n, NEW k
  PROVE  /\ MediaAsk(media!Letting(old, k), n)
         /\ media!Letting(old, k).op \in {"idle", "release"}
         /\ old \in {0, k} => media!Letting(old, k).op = "idle"
         /\ old \notin {0, k} => LetsGo(media!Letting(old, k), old)
         /\ \A j : LetsGo(media!Letting(old, k), j) => j = old /\ j \notin {0, k}
  BY MediaIdle DEF MediaAsk, media!Ops, media!Letting, LetsGo

LEMMA MediaUnlinking ==
  ASSUME NEW n \in Nat, NEW keys \in SUBSET media!Blobs, keys \subseteq 1..n
  PROVE  /\ MediaAsk(media!Unlinking(keys), n)
         /\ media!Unlinking(keys).op \in {"idle", "unlink"}
         /\ media!Unlinking(keys).op = "unlink" => media!Unlinking(keys).keys = keys
  BY MediaIdle DEF MediaAsk, media!Ops, media!Unlinking

LEMMA MediaAdopting ==
  ASSUME NEW n \in Nat, NEW q, MediaAsk(q, n), q.key # 0
  PROVE  /\ MediaAsk([q EXCEPT !.op = "adopt"], n)
         /\ [q EXCEPT !.op = "adopt"].op = "adopt" /\ [q EXCEPT !.op = "adopt"].key = q.key
  BY DEF MediaAsk, media!Ops

\* More blobs, the same request.
LEMMA MediaAskGrows ==
  ASSUME NEW n \in Nat, NEW q, MediaAsk(q, n)
  PROVE  MediaAsk(q, n + 1)
  BY DEF MediaAsk

\* The types but for the requests.
MediaRow == [row : BOOLEAN, kind : Kinds \cup {"attachment"},
             till : {"window", "long", "over"}, kept : BOOLEAN]

MediaRows ==
    /\ object \in [media!Blobs -> MediaRow] /\ blobs \subseteq 1..puts /\ media!Rows \subseteq 1..puts
    /\ {backup, mine, door, face} \subseteq 0..puts /\ item \in [Items -> 0..puts]
    /\ ({mine, door, face} \cup media!InItems) \ {0} \subseteq media!Rows
    /\ closed \in BOOLEAN /\ packGone \in BOOLEAN /\ excused \subseteq media!Blobs

MediaCounts == puts \in 0..MaxBlobs /\ mMade \in 0..MediaRequests

MediaAsks == DOMAIN mReq = Requests /\ mReq = [r \in Requests |-> mReq[r]]
               /\ \A r \in Requests : MediaAsk(mReq[r], puts)

LEMMA MediaSplit == MediaTypes <=> MediaRows /\ MediaCounts /\ MediaAsks
  <1>1. MediaTypes => MediaRows /\ MediaCounts /\ MediaAsks
    BY DEF MediaTypes, media!TypeOK, MediaRows, MediaRow, MediaCounts, MediaAsks
  <1>2. ASSUME MediaRows, MediaCounts, MediaAsks PROVE MediaTypes
    BY <1>2 DEF MediaTypes, media!TypeOK, MediaRows, MediaRow, MediaCounts, MediaAsks, MediaAsk
  <1> QED
    BY <1>1, <1>2

Turns(r, q) == mReq'[r] = q /\ \A s \in Requests \ {r} : mReq'[s] = mReq[s]

\* A request goes on, and perhaps has stored one more blob.
LEMMA MediaGoes ==
  ASSUME MediaCounts, MediaAsks, NEW r \in Requests, NEW q,
         puts' = puts \/ puts' = puts + 1, MediaAsk(q, puts'), mReq' = [mReq EXCEPT ![r] = q]
  PROVE  MediaAsks' /\ Turns(r, q)
  <1>1. mReq'[r] = q /\ \A s \in Requests \ {r} : mReq'[s] = mReq[s]
    BY DEF MediaAsks
  <1>2. \A s \in Requests : MediaAsk(mReq[s], puts')
    BY MediaAskGrows DEF MediaAsks, MediaCounts
  <1>3. DOMAIN mReq' = Requests /\ mReq' = [s \in Requests |-> mReq'[s]]
    BY DEF MediaAsks
  <1> QED
    BY <1>1, <1>2, <1>3 DEF MediaAsks, Turns

LEMMA FiledGoes ==
  ASSUME Filed, NEW r \in Requests, NEW q, Turns(r, q),
         media!NothingDangles', backup' \notin media!Rows',
         FiledAt(q, blobs', media!Rows', backup'),
         \A s \in Requests \ {r} : FiledAt(mReq[s], blobs', media!Rows', backup'),
         Apart(q, q),
         \A s \in Requests \ {r} :
           /\ Apart(q, mReq[s]) /\ Apart(mReq[s], q)
           /\ Storing(q) /\ Storing(mReq[s]) => q.key # mReq[s].key
  PROVE  Filed'
  <1>1. \A s \in Requests : FiledAt(mReq'[s], blobs', media!Rows', backup')
    BY DEF Turns
  <1>2. ASSUME NEW s \in Requests, NEW t \in Requests
        PROVE  /\ Apart(mReq'[s], mReq'[t])
               /\ Storing(mReq'[s]) /\ Storing(mReq'[t]) /\ s # t => mReq'[s].key # mReq'[t].key
    BY DEF Filed, Turns
  <1> QED
    BY <1>1, <1>2 DEF Filed

\* Nobody's files or rows change.
LEMMA FiledQuiet ==
  ASSUME Filed, NEW r \in Requests, NEW q, Turns(r, q),
         q.op \notin {"insert", "backup", "unlink"},
         UNCHANGED <<blobs, backup, media!Rows>>
  PROVE  Filed'
  <1>1. media!NothingDangles' /\ backup' \notin media!Rows'
    BY DEF Filed, media!NothingDangles
  <1>2. FiledAt(q, blobs', media!Rows', backup') /\ \A s : Apart(q, s) /\ Apart(s, q)
    BY DEF FiledAt, Apart, Storing
  <1>3. \A s \in Requests \ {r} : FiledAt(mReq[s], blobs', media!Rows', backup')
    BY DEF Filed
  <1> QED
    BY <1>1, <1>2, <1>3, FiledGoes DEF Storing

LEMMA FiledStill ==
  ASSUME Filed, UNCHANGED <<mReq, blobs, backup, media!Rows>>
  PROVE  Filed'
  <1>1. media!NothingDangles'
    BY DEF Filed, media!NothingDangles
  <1> QED
    BY <1>1 DEF Filed

\* What the files' numbers say.
LEMMA FiledNumbers ==
  ASSUME MediaTypes
  PROVE  /\ puts \in Nat /\ blobs \subseteq 1..puts /\ media!Rows \subseteq 1..puts
         /\ backup \in 0..puts /\ 0 \notin blobs /\ 0 \notin media!Rows
         /\ \A s \in Requests : /\ mReq[s].key \in 0..puts /\ mReq[s].old \in 0..puts
                                /\ mReq[s].keys \subseteq 1..puts
  <1>1. MediaRows /\ MediaCounts /\ MediaAsks
    BY MediaSplit
  <1> QED
    BY <1>1 DEF MediaRows, MediaCounts, MediaAsks, MediaAsk

\* A new file is known to the request that stored it.
LEMMA FiledStores ==
  ASSUME MediaTypes, Filed, NEW r \in Requests, NEW q, Turns(r, q), Storing(q),
         q.key = puts + 1, q.old \in {0, backup}, blobs' = blobs \cup {puts + 1},
         UNCHANGED <<backup, media!Rows>>
  PROVE  Filed'
  <1>0. /\ puts \in Nat /\ blobs \subseteq 1..puts /\ media!Rows \subseteq 1..puts
        /\ backup \in 0..puts /\ 0 \notin blobs /\ 0 \notin media!Rows
        /\ \A s \in Requests : /\ mReq[s].key \in 0..puts /\ mReq[s].old \in 0..puts
                               /\ mReq[s].keys \subseteq 1..puts
    BY FiledNumbers
  <1>1. media!NothingDangles' /\ backup' \notin media!Rows'
    BY DEF Filed, media!NothingDangles
  <1>2. puts + 1 \notin 0..puts /\ puts + 1 \notin 1..puts
    BY <1>0
  <1>3. FiledAt(q, blobs', media!Rows', backup')
    BY <1>0, <1>2 DEF FiledAt, Storing, Filed
  <1>4. Apart(q, q)
    BY <1>0, <1>2 DEF Apart, Storing
  <1>5. ASSUME NEW s \in Requests \ {r}
        PROVE  /\ FiledAt(mReq[s], blobs', media!Rows', backup')
               /\ Apart(mReq[s], q) /\ mReq[s].key # q.key
    <2>1. FiledAt(mReq[s], blobs, media!Rows, backup)
      BY DEF Filed
    <2> QED
      BY <1>0, <1>2, <2>1 DEF FiledAt, Apart
  <1>6. ASSUME NEW s \in Requests \ {r}, Storing(mReq[s]) PROVE q.old # mReq[s].key
    <2>1. FiledAt(mReq[s], blobs, media!Rows, backup)
      BY DEF Filed
    <2> QED
      BY <1>0, <1>6, <2>1 DEF FiledAt
  <1>7. \A s \in Requests \ {r} : Apart(q, mReq[s])
    BY <1>6 DEF Apart, Storing
  <1> QED
    BY <1>1, <1>3, <1>4, <1>5, <1>7, FiledGoes

\* A row comes to name what a request has stored.
LEMMA FiledRow ==
  ASSUME MediaTypes, Filed, NEW r \in Requests, NEW q, Turns(r, q),
         mReq[r].op = "insert", q.op = "idle",
         media!Rows' = media!Rows \cup {mReq[r].key}, UNCHANGED <<blobs, backup>>
  PROVE  Filed'
  <1>0. FiledAt(mReq[r], blobs, media!Rows, backup) /\ Storing(mReq[r])
    BY DEF Filed, Storing
  <1>1. media!NothingDangles' /\ backup' \notin media!Rows'
    BY <1>0 DEF Filed, media!NothingDangles, FiledAt
  <1>2. FiledAt(q, blobs', media!Rows', backup') /\ \A s : Apart(q, s) /\ Apart(s, q)
    BY DEF FiledAt, Apart, Storing
  <1>3. ASSUME NEW s \in Requests \ {r} PROVE FiledAt(mReq[s], blobs', media!Rows', backup')
    <2>1. /\ FiledAt(mReq[s], blobs, media!Rows, backup) /\ Apart(mReq[s], mReq[r])
          /\ Storing(mReq[s]) => mReq[s].key # mReq[r].key
      BY <1>0 DEF Filed
    <2> QED
      BY <1>0, <2>1 DEF FiledAt, Apart
  <1> QED
    BY <1>1, <1>2, <1>3, FiledGoes DEF Storing

\* The backup's row comes to name it, and what was read before is to go.
LEMMA FiledNamed ==
  ASSUME MediaTypes, Filed, NEW r \in Requests, NEW q, Turns(r, q),
         mReq[r].op = "backup", q.op \in {"idle", "unlink"},
         q.op = "unlink" => q.keys \subseteq {mReq[r].old},
         backup' = mReq[r].key, UNCHANGED <<blobs, media!Rows>>
  PROVE  Filed'
  <1>0. /\ FiledAt(mReq[r], blobs, media!Rows, backup) /\ Storing(mReq[r])
        /\ mReq[r].old # mReq[r].key
    BY DEF Filed, Storing, Apart
  <1>1. media!NothingDangles' /\ backup' \notin media!Rows'
    BY <1>0 DEF Filed, media!NothingDangles, FiledAt
  <1>2. FiledAt(q, blobs', media!Rows', backup') /\ \A s : Apart(s, q)
    BY <1>0 DEF FiledAt, Apart, Storing
  <1>3. ASSUME NEW s \in Requests \ {r}
        PROVE  FiledAt(mReq[s], blobs', media!Rows', backup') /\ Apart(q, mReq[s])
    <2>1. /\ FiledAt(mReq[s], blobs, media!Rows, backup) /\ Apart(mReq[s], mReq[r])
          /\ Apart(mReq[r], mReq[s])
          /\ Storing(mReq[s]) => mReq[s].key # mReq[r].key
      BY <1>0 DEF Filed
    <2> QED
      BY <1>0, <2>1 DEF FiledAt, Apart
  <1>4. ~Storing(q)
    BY DEF Storing
  <1> QED
    BY <1>1, <1>2, <1>3, <1>4, FiledGoes

\* Rows go, and the files they named are to go.
LEMMA FiledLeaves ==
  ASSUME MediaTypes, Filed, NEW r \in Requests, NEW q, Turns(r, q),
         q.op \in {"idle", "unlink"},
         q.op = "unlink" => /\ q.keys \subseteq media!Rows \cup {backup}
                            /\ q.keys \cap (media!Rows' \cup {backup'}) = {},
         media!Rows' \subseteq media!Rows, backup' \in {backup, 0}, UNCHANGED blobs
  PROVE  Filed'
  <1>0. /\ puts \in Nat /\ blobs \subseteq 1..puts /\ media!Rows \subseteq 1..puts
        /\ backup \in 0..puts /\ 0 \notin blobs /\ 0 \notin media!Rows
        /\ \A s \in Requests : /\ mReq[s].key \in 0..puts /\ mReq[s].old \in 0..puts
                               /\ mReq[s].keys \subseteq 1..puts
    BY FiledNumbers
  <1>1. media!NothingDangles' /\ backup' \notin media!Rows'
    BY <1>0 DEF Filed, media!NothingDangles
  <1>2. FiledAt(q, blobs', media!Rows', backup') /\ \A s : Apart(s, q)
    BY DEF FiledAt, Apart, Storing
  <1>3. ASSUME NEW s \in Requests \ {r}
        PROVE  FiledAt(mReq[s], blobs', media!Rows', backup') /\ Apart(q, mReq[s])
    <2>1. FiledAt(mReq[s], blobs, media!Rows, backup) /\ 0 \notin mReq[s].keys
      BY <1>0 DEF Filed
    <2> QED
      BY <1>0, <2>1 DEF FiledAt, Apart
  <1>4. ~Storing(q)
    BY DEF Storing
  <1> QED
    BY <1>1, <1>2, <1>3, <1>4, FiledGoes

\* The files go.
LEMMA FiledUnlinks ==
  ASSUME MediaTypes, Filed, NEW r \in Requests, NEW q, Turns(r, q),
         mReq[r].op = "unlink", q.op = "idle", blobs' = blobs \ mReq[r].keys,
         UNCHANGED <<backup, media!Rows>>
  PROVE  Filed'
  <1>0. FiledAt(mReq[r], blobs, media!Rows, backup)
    BY DEF Filed
  <1>1. media!NothingDangles' /\ backup' \notin media!Rows'
    BY <1>0 DEF Filed, media!NothingDangles, FiledAt
  <1>2. FiledAt(q, blobs', media!Rows', backup') /\ \A s : Apart(q, s) /\ Apart(s, q)
    BY DEF FiledAt, Apart, Storing
  <1>3. ASSUME NEW s \in Requests \ {r} PROVE FiledAt(mReq[s], blobs', media!Rows', backup')
    <2>1. FiledAt(mReq[s], blobs, media!Rows, backup) /\ Apart(mReq[r], mReq[s])
      BY DEF Filed
    <2> QED
      BY <1>0, <2>1 DEF FiledAt, Apart
  <1> QED
    BY <1>1, <1>2, <1>3, FiledGoes DEF Storing

\* An object whose uses and life stay, and whom the request does not concern.
LEMMA UsedSame ==
  ASSUME NEW k, UsedWell(k), NEW r \in Requests, NEW q, Turns(r, q),
         LetsGo(q, k) <=> LetsGo(mReq[r], k), TakesUp(q, k) <=> TakesUp(mReq[r], k),
         media!Uses(k)' = media!Uses(k), object'[k].row => object[k].row,
         object'[k].till = "long" <=> object[k].till = "long"
  PROVE  UsedWell(k)'
  <1>1. ASSUME NEW s \in Requests
        PROVE  /\ LetsGo(mReq'[s], k) <=> LetsGo(mReq[s], k)
               /\ TakesUp(mReq'[s], k) <=> TakesUp(mReq[s], k)
    BY DEF Turns
  <1> QED
    BY <1>1 DEF UsedWell

LEMMA UsesSame ==
  ASSUME UNCHANGED <<mine, door, closed, item>>, NEW k
  PROVE  media!Uses(k)' = media!Uses(k)
  BY DEF media!Uses

\* A request that neither lets a picture go nor takes one up.
Aside(q) == q.op \notin {"release", "adopt"}

LEMMA UsedQuiet ==
  ASSUME Used, NEW r \in Requests, NEW q, Turns(r, q), Aside(mReq[r]), Aside(q),
         UNCHANGED <<mine, door, closed, item, object, excused>>
  PROVE  Used'
  <1> SUFFICES ASSUME NEW k \in media!Blobs \ excused PROVE UsedWell(k)'
    BY DEF Used, media!Blobs
  <1>1. UsedWell(k) /\ media!Uses(k)' = media!Uses(k)
    BY UsesSame DEF Used
  <1>2. ~LetsGo(q, k) /\ ~LetsGo(mReq[r], k) /\ ~TakesUp(q, k) /\ ~TakesUp(mReq[r], k)
    BY DEF LetsGo, TakesUp, Aside
  <1> QED
    BY <1>1, <1>2, UsedSame

\* An object that nobody uses, and that somebody lets go if it is kept.
LEMMA UsedNoMore ==
  ASSUME NEW k, media!Uses(k)' = {},
         \/ object'[k].till # "long"
         \/ \E s \in Requests : LetsGo(mReq'[s], k)
  PROVE  UsedWell(k)'
  BY DEF UsedWell

\* An object with one use that is kept, or taken up for good in a moment.
LEMMA UsedOnce ==
  ASSUME NEW k, NEW u, media!Uses(k)' = {u}, \A s \in Requests : ~LetsGo(mReq'[s], k),
         object'[k].till = "long" \/ \E s \in Requests : TakesUp(mReq'[s], k)
  PROVE  UsedWell(k)'
  BY DEF UsedWell

\* What is said of the one object a step is about, and of all the others.
LEMMA UsedApart ==
  ASSUME Used, excused \subseteq excused', NEW r \in Requests, NEW q, Turns(r, q),
         NEW S, \A k \in S : k \notin excused' => UsedWell(k)',
         \A k \in media!Blobs \ S :
           /\ LetsGo(q, k) <=> LetsGo(mReq[r], k)
           /\ TakesUp(q, k) <=> TakesUp(mReq[r], k)
           /\ media!Uses(k)' = media!Uses(k)
           /\ object'[k].row => object[k].row
           /\ object'[k].till = "long" <=> object[k].till = "long"
  PROVE  Used'
  <1> SUFFICES ASSUME NEW k \in media!Blobs, k \notin excused' PROVE UsedWell(k)'
    BY DEF Used, media!Blobs
  <1>1. CASE k \in S
    BY <1>1
  <1>2. CASE k \notin S
    <2>1. UsedWell(k)
      BY DEF Used
    <2> QED
      BY <1>2, <2>1, UsedSame
  <1> QED
    BY <1>1, <1>2

LEMMA MediaBegins ==
  ASSUME MediaCounts, MediaAsks, NEW r \in Requests, NEW q,
         puts' = puts \/ puts' = puts + 1, MediaAsk(q, puts'), media!Begin(r, q)
  PROVE  /\ MediaAsks' /\ Turns(r, q) /\ mMade' \in 0..MediaRequests
         /\ mReq[r].op = "idle" /\ Aside(mReq[r])
  <1>1. MediaAsks' /\ Turns(r, q)
    BY MediaGoes DEF media!Begin
  <1> QED
    BY <1>1, PeopleAssumption DEF media!Begin, MediaCounts, Aside

LEMMA MediaProceeds ==
  ASSUME MediaCounts, MediaAsks, NEW r \in Requests, NEW q,
         UNCHANGED puts, MediaAsk(q, puts), media!Goes(r, q)
  PROVE  MediaAsks' /\ Turns(r, q) /\ MediaCounts'
  <1>1. MediaAsks' /\ Turns(r, q)
    BY MediaGoes DEF media!Goes
  <1> QED
    BY <1>1 DEF media!Goes, MediaCounts

LEMMA MediaRowsStay ==
  ASSUME MediaRows, UNCHANGED <<object, backup, blobs, puts, media!pictures, excused>>
  PROVE  MediaRows' /\ UNCHANGED media!Rows
  BY DEF MediaRows, media!Rows, media!InItems, media!pictures

\* What a new file's number is.
LEMMA MediaStores ==
  ASSUME MediaInv, NEW r \in Requests,
         (\E kind \in Kinds : media!Upload(r, kind)) \/ media!PutBackup(r)
  PROVE  MediaInv'
  <1>0. MediaRows /\ MediaCounts /\ MediaAsks /\ MediaTypes /\ Filed /\ Used /\ puts \in Nat
    BY MediaSplit DEF MediaInv, MediaCounts
  <1>1. backup \in 0..puts
    BY <1>0 DEF MediaRows
  <1>2. /\ puts' = puts + 1 /\ blobs' = blobs \cup {puts + 1} /\ puts < MaxBlobs
        /\ UNCHANGED <<object, backup, media!pictures, excused>>
    BY DEF media!Upload, media!PutBackup
  <1>3. \E q : /\ MediaAsk(q, puts + 1) /\ Storing(q) /\ q.key = puts + 1 /\ q.old \in {0, backup}
               /\ media!Begin(r, q)
    <2>1. ASSUME NEW kind \in Kinds, media!Upload(r, kind)
          PROVE  \E q : /\ MediaAsk(q, puts + 1) /\ Storing(q) /\ q.key = puts + 1
                        /\ q.old \in {0, backup} /\ media!Begin(r, q)
      <3> DEFINE q == [media!Idle EXCEPT !.op = "insert", !.key = puts + 1, !.kind = kind]
      <3>1. MediaAsk(q, puts + 1) /\ q.op = "insert" /\ q.key = puts + 1 /\ q.old = 0
        BY <1>0, <1>1, MediaUploaded
      <3>2. media!Begin(r, q)
        BY <2>1 DEF media!Upload
      <3> HIDE DEF q
      <3> QED
        BY <3>1, <3>2 DEF Storing
    <2>2. CASE media!PutBackup(r)
      <3> DEFINE q == [media!Idle EXCEPT !.op = "backup", !.key = puts + 1, !.old = backup]
      <3>1. MediaAsk(q, puts + 1) /\ q.op = "backup" /\ q.key = puts + 1 /\ q.old = backup
        BY <1>0, <1>1, MediaBackedUp
      <3>2. media!Begin(r, q)
        BY <2>2 DEF media!PutBackup
      <3> HIDE DEF q
      <3> QED
        BY <3>1, <3>2 DEF Storing
    <2> QED
      BY <2>1, <2>2
  <1>4. PICK q : /\ MediaAsk(q, puts + 1) /\ Storing(q) /\ q.key = puts + 1
                 /\ q.old \in {0, backup} /\ media!Begin(r, q)
    BY <1>3
  <1>5. MediaAsks' /\ Turns(r, q) /\ mMade' \in 0..MediaRequests /\ Aside(mReq[r])
    BY <1>0, <1>2, <1>4, MediaBegins
  <1>6. MediaRows' /\ MediaCounts' /\ UNCHANGED media!Rows
    <2>1. puts' \in 0..MaxBlobs
      BY <1>0, <1>2, PeopleAssumption DEF MediaCounts
    <2>2. UNCHANGED <<mine, door, closed, face, item, packGone, media!Rows, media!InItems>>
      BY <1>2 DEF media!pictures, media!Rows, media!InItems
    <2> QED
      BY <1>0, <1>2, <1>5, <2>1, <2>2 DEF MediaRows, MediaCounts
  <1>7. Filed'
    BY <1>0, <1>2, <1>4, <1>5, <1>6, FiledStores
  <1>8. Used'
    <2>1. Aside(q)
      BY <1>4 DEF Storing, Aside
    <2> QED
      BY <1>0, <1>2, <1>5, <2>1, UsedQuiet DEF media!pictures
  <1> QED
    BY <1>5, <1>6, <1>7, <1>8, MediaSplit, PTL DEF MediaInv

\* Requests that have only been checked, and two that change nothing when they end.
LEMMA MediaQuiet ==
  ASSUME MediaInv, NEW r \in Requests,
         \/ \E k \in media!Blobs : media!SetAvatar(r, k) \/ media!SetDoor(r, k) \/ media!AddItem(r, k)
         \/ \E i \in Items : media!DropItem(r, i)
         \/ media!Wipe(r)
         \/ media!Dies(r) /\ mReq[r].op \notin {"release", "adopt"}
         \/ /\ media!Goes(r, media!Idle) /\ Aside(mReq[r])
            /\ UNCHANGED <<object, backup, blobs, puts, media!pictures, excused>>
  PROVE  MediaInv'
  <1>0. MediaRows /\ MediaCounts /\ MediaAsks /\ MediaTypes /\ Filed /\ Used /\ puts \in Nat
    BY MediaSplit DEF MediaInv, MediaCounts
  <1>1. \E q : /\ MediaAsks' /\ Turns(r, q) /\ mMade' \in 0..MediaRequests /\ Aside(mReq[r])
               /\ Aside(q) /\ q.op \notin {"insert", "backup", "unlink"}
               /\ UNCHANGED <<object, backup, blobs, puts, media!pictures, excused>>
    <2>1. ASSUME NEW q, MediaAsk(q, puts), media!Begin(r, q), Aside(q),
                 q.op \notin {"insert", "backup", "unlink"},
                 UNCHANGED <<object, backup, blobs, puts, media!pictures, excused>>
          PROVE  <1>1!:
      BY <1>0, <2>1, MediaBegins
    <2>2. ASSUME NEW op \in {"mine", "door", "item"}, NEW k \in media!Rows,
                 media!Begin(r, [media!Idle EXCEPT !.op = op, !.key = k]),
                 UNCHANGED <<object, backup, blobs, puts, media!pictures, excused>>
          PROVE  <1>1!:
      <3> DEFINE q == [media!Idle EXCEPT !.op = op, !.key = k]
      <3>0. k \in 1..puts
        BY <1>0 DEF MediaRows
      <3>1. MediaAsk(q, puts) /\ q.op = op
        BY <1>0, <2>2, <3>0, MediaKeyed
      <3>2. media!Begin(r, q)
        BY <2>2
      <3> HIDE DEF q
      <3> QED
        BY <2>1, <2>2, <3>1, <3>2 DEF Aside
    <2>3. ASSUME NEW k \in media!Blobs,
                 media!SetAvatar(r, k) \/ media!SetDoor(r, k) \/ media!AddItem(r, k)
          PROVE  <1>1!:
      BY <2>2, <2>3, ZenonT(30) DEF media!SetAvatar, media!SetDoor, media!AddItem
    <2>4. ASSUME NEW i \in Items, media!DropItem(r, i) PROVE <1>1!:
      <3> DEFINE q == [media!Idle EXCEPT !.op = "drop", !.item = i]
      <3>1. MediaAsk(q, puts) /\ q.op = "drop"
        BY <1>0, MediaOthers
      <3>2. media!Begin(r, q) /\ UNCHANGED <<object, backup, blobs, puts, media!pictures, excused>>
        BY <2>4 DEF media!DropItem
      <3> HIDE DEF q
      <3> QED
        BY <2>1, <3>1, <3>2 DEF Aside
    <2>5. CASE media!Wipe(r)
      <3> DEFINE q == [media!Idle EXCEPT !.op = "wipe"]
      <3>1. MediaAsk(q, puts) /\ q.op = "wipe"
        BY <1>0, MediaWiping
      <3>2. media!Begin(r, q) /\ UNCHANGED <<object, backup, blobs, puts, media!pictures, excused>>
        BY <2>5 DEF media!Wipe
      <3> HIDE DEF q
      <3> QED
        BY <2>1, <3>1, <3>2 DEF Aside
    <2>6. ASSUME media!Goes(r, media!Idle), Aside(mReq[r]),
                 UNCHANGED <<object, backup, blobs, puts, media!pictures, excused>>
          PROVE  <1>1!:
      <3>1. MediaAsk(media!Idle, puts) /\ media!Idle.op = "idle"
        BY <1>0, MediaIdle
      <3>2. MediaAsks' /\ Turns(r, media!Idle) /\ MediaCounts'
        BY <1>0, <2>6, <3>1, MediaProceeds
      <3> QED
        BY <2>6, <3>1, <3>2 DEF Aside, MediaCounts
    <2>7. CASE media!Dies(r) /\ mReq[r].op \notin {"release", "adopt"}
      <3>1. /\ media!Goes(r, media!Idle) /\ Aside(mReq[r])
            /\ UNCHANGED <<object, backup, blobs, puts, media!pictures, excused>>
        BY <2>7 DEF media!Dies, Aside
      <3> QED
        BY <2>6, <3>1
    <2> QED
      BY <2>3, <2>4, <2>5, <2>6, <2>7
  <1>2. PICK q : /\ MediaAsks' /\ Turns(r, q) /\ mMade' \in 0..MediaRequests /\ Aside(mReq[r])
                 /\ Aside(q) /\ q.op \notin {"insert", "backup", "unlink"}
                 /\ UNCHANGED <<object, backup, blobs, puts, media!pictures, excused>>
    BY <1>1
  <1>3. MediaRows' /\ MediaCounts' /\ UNCHANGED media!Rows
    BY <1>0, <1>2, MediaRowsStay DEF MediaCounts
  <1>4. Filed'
    BY <1>0, <1>2, <1>3, FiledQuiet
  <1>5. Used'
    BY <1>0, <1>2, UsedQuiet DEF media!pictures
  <1> QED
    BY <1>2, <1>3, <1>4, <1>5, MediaSplit, PTL DEF MediaInv

\* The blobs there have been are among those there can be.
LEMMA MediaWithin ==
  ASSUME MediaCounts
  PROVE  1..puts \subseteq media!Blobs
  BY PeopleAssumption DEF MediaCounts, media!Blobs

\* What has no row is not in use.
LEMMA MediaUnused ==
  ASSUME MediaRows, NEW k \in media!Blobs, k \notin media!Rows
  PROVE  media!Uses(k) = {} /\ k \notin {mine, door, face} \cup media!InItems
  <1>1. k # 0
    BY DEF media!Blobs
  <1>2. k \notin {mine, door, face} \cup media!InItems
    BY <1>1 DEF MediaRows
  <1>3. \A i \in Items : item[i] # k
    BY <1>1, <1>2 DEF media!InItems
  <1> QED
    BY <1>2, <1>3 DEF media!Uses

\* The row of an upload is inserted.
LEMMA MediaUploadRow ==
  ASSUME MediaInv, NEW r \in Requests, media!UploadRow(r)
  PROVE  MediaInv'
  <1>k. PICK k : k = mReq[r].key
    OBVIOUS
  <1> DEFINE new == [row |-> TRUE, kind |-> mReq[r].kind, till |-> "window", kept |-> FALSE]
  <1>0. MediaRows /\ MediaCounts /\ MediaAsks /\ MediaTypes /\ Filed /\ Used /\ puts \in Nat
    BY MediaSplit DEF MediaInv, MediaCounts
  <1>1. /\ media!Goes(r, media!Idle) /\ mReq[r].op = "insert"
        /\ object' = [object EXCEPT ![k] = new]
        /\ UNCHANGED <<backup, blobs, puts, media!pictures, excused>>
    BY <1>k DEF media!UploadRow
  <1>2. MediaAsks' /\ Turns(r, media!Idle) /\ MediaCounts' /\ media!Idle.op = "idle"
    BY <1>0, <1>1, MediaIdle, MediaProceeds
  <1>3. k \in blobs /\ k \notin media!Rows
    BY <1>0, <1>k, <1>1 DEF Filed, FiledAt, Storing
  <1>4. k \in 1..puts /\ k \in media!Blobs
    BY <1>0, <1>3, MediaWithin DEF MediaRows
  <1>5. new \in MediaRow /\ new.row /\ new.till = "window"
    BY <1>0 DEF MediaAsks, MediaAsk, MediaRow
  <1> HIDE DEF new
  <1>6. object' \in [media!Blobs -> MediaRow] /\ object'[k] = new
        /\ \A j \in media!Blobs \ {k} : object'[j] = object[j]
    BY <1>0, <1>1, <1>4, <1>5 DEF MediaRows
  <1>7. media!Rows' = media!Rows \cup {k}
    BY <1>4, <1>5, <1>6 DEF media!Rows, media!Blobs
  <1>8. MediaRows'
    <2>1. media!InItems' = media!InItems
      BY <1>1 DEF media!InItems, media!pictures
    <2> QED
      BY <1>0, <1>1, <1>4, <1>6, <1>7, <2>1 DEF MediaRows, media!pictures, media!Blobs
  <1>9. Filed'
    BY <1>0, <1>k, <1>1, <1>2, <1>7, FiledRow
  <1>10. Used'
    <2>1. \A j : media!Uses(j)' = media!Uses(j)
      BY <1>1, UsesSame DEF media!pictures
    <2>2. UsedWell(k)'
      <3>1. media!Uses(k) = {}
        BY <1>0, <1>3, <1>4, MediaUnused
      <3>2. media!Uses(k)' = {}
        BY <2>1, <3>1
      <3>3. object'[k].till # "long"
        BY <1>5, <1>6
      <3> QED
        BY <3>2, <3>3, UsedNoMore
    <2>3. \A j : /\ LetsGo(media!Idle, j) <=> LetsGo(mReq[r], j)
                 /\ TakesUp(media!Idle, j) <=> TakesUp(mReq[r], j)
      BY <1>1, <1>2 DEF LetsGo, TakesUp
    <2> DEFINE S == {k}
    <2>4. /\ \A j \in S : j \notin excused' => UsedWell(j)'
          /\ excused \subseteq excused'
      BY <1>1, <2>2
    <2>5. ASSUME NEW j \in media!Blobs \ S
          PROVE  /\ LetsGo(media!Idle, j) <=> LetsGo(mReq[r], j)
                 /\ TakesUp(media!Idle, j) <=> TakesUp(mReq[r], j)
                 /\ media!Uses(j)' = media!Uses(j)
                 /\ object'[j].row => object[j].row
                 /\ object'[j].till = "long" <=> object[j].till = "long"
      <3>1. object'[j] = object[j]
        BY <1>6
      <3> QED
        BY <2>1, <2>3, <3>1
    <2> HIDE DEF S
    <2> QED
      BY <1>0, <1>2, <2>4, <2>5, UsedApart
  <1> QED
    BY <1>2, <1>8, <1>9, <1>10, MediaSplit, PTL DEF MediaInv

\* The backup's row names another file, or none.
LEMMA MediaBackup ==
  ASSUME MediaInv, NEW r \in Requests, media!BackupRow(r) \/ media!DeleteBackup(r)
  PROVE  MediaInv'
  <1>0. MediaRows /\ MediaCounts /\ MediaAsks /\ MediaTypes /\ Filed /\ Used /\ puts \in Nat
    BY MediaSplit DEF MediaInv, MediaCounts
  <1>1. UNCHANGED <<object, blobs, puts, media!pictures, excused>>
    BY DEF media!BackupRow, media!DeleteBackup
  <1>2. MediaRows' /\ UNCHANGED media!Rows
    <2>1. backup' \in 0..puts
      BY <1>0 DEF media!BackupRow, media!DeleteBackup, MediaAsks, MediaAsk
    <2> QED
      BY <1>0, <1>1, <2>1 DEF MediaRows, media!Rows, media!InItems, media!pictures
  <1>3. MediaAsks' /\ MediaCounts' /\ Filed' /\ Used'
    <2>1. CASE media!BackupRow(r)
      <3> DEFINE q == media!Unlinking({mReq[r].old} \ {0})
      <3>1. mReq[r].op = "backup" /\ media!Goes(r, q) /\ backup' = mReq[r].key
        BY <2>1 DEF media!BackupRow
      <3>2. {mReq[r].old} \ {0} \subseteq 1..puts /\ {mReq[r].old} \ {0} \subseteq media!Blobs
        BY <1>0, MediaWithin DEF MediaAsks, MediaAsk
      <3>3. MediaAsk(q, puts) /\ q.op \in {"idle", "unlink"}
            /\ (q.op = "unlink" => q.keys \subseteq {mReq[r].old})
        BY <1>0, <3>2, MediaUnlinking
      <3> HIDE DEF q
      <3>4. MediaAsks' /\ Turns(r, q) /\ MediaCounts'
        BY <1>0, <1>1, <3>1, <3>3, MediaProceeds
      <3>5. Filed'
        BY <1>0, <1>1, <1>2, <3>1, <3>3, <3>4, FiledNamed
      <3>6. Used'
        BY <1>0, <1>1, <3>1, <3>3, <3>4, UsedQuiet DEF Aside, media!pictures
      <3> QED
        BY <3>4, <3>5, <3>6
    <2>2. CASE media!DeleteBackup(r)
      <3> DEFINE q == media!Unlinking({backup})
      <3>1. backup # 0 /\ backup' = 0 /\ media!Begin(r, q)
        BY <2>2 DEF media!DeleteBackup
      <3>2. {backup} \subseteq 1..puts /\ {backup} \subseteq media!Blobs
        BY <1>0, <3>1, MediaWithin DEF MediaRows
      <3>3. MediaAsk(q, puts) /\ q.op \in {"idle", "unlink"} /\ (q.op = "unlink" => q.keys = {backup})
        BY <1>0, <3>2, MediaUnlinking
      <3> HIDE DEF q
      <3>4. MediaAsks' /\ Turns(r, q) /\ mMade' \in 0..MediaRequests /\ Aside(mReq[r])
        BY <1>0, <1>1, <3>1, <3>3, MediaBegins
      <3>5. Filed'
        <4>1. {backup} \cap (media!Rows' \cup {backup'}) = {} /\ media!Rows' \subseteq media!Rows
          BY <1>0, <1>2, <3>1 DEF Filed
        <4> QED
          BY <1>0, <1>1, <3>1, <3>3, <3>4, <4>1, FiledLeaves
      <3>6. Used'
        BY <1>0, <1>1, <3>3, <3>4, UsedQuiet DEF Aside, media!pictures
      <3> QED
        BY <1>0, <1>1, <3>4, <3>5, <3>6 DEF MediaCounts
    <2> QED
      BY <2>1, <2>2
  <1> QED
    BY <1>2, <1>3, MediaSplit, PTL DEF MediaInv

LEMMA MediaUnlink ==
  ASSUME MediaInv, NEW r \in Requests, media!Unlink(r)
  PROVE  MediaInv'
  <1>0. MediaRows /\ MediaCounts /\ MediaAsks /\ MediaTypes /\ Filed /\ Used /\ puts \in Nat
    BY MediaSplit DEF MediaInv, MediaCounts
  <1>1. /\ media!Goes(r, media!Idle) /\ mReq[r].op = "unlink" /\ blobs' = blobs \ mReq[r].keys
        /\ UNCHANGED <<object, backup, puts, media!pictures, excused>>
    BY DEF media!Unlink
  <1>2. MediaAsks' /\ Turns(r, media!Idle) /\ MediaCounts' /\ media!Idle.op = "idle"
    BY <1>0, <1>1, MediaIdle, MediaProceeds
  <1>3. MediaRows' /\ UNCHANGED media!Rows
    BY <1>0, <1>1 DEF MediaRows, media!Rows, media!InItems, media!pictures
  <1>4. Filed'
    BY <1>0, <1>1, <1>2, <1>3, FiledUnlinks
  <1>5. Used'
    BY <1>0, <1>1, <1>2, UsedQuiet DEF Aside, media!pictures
  <1> QED
    BY <1>2, <1>3, <1>4, <1>5, MediaSplit, PTL DEF MediaInv

\* Rows go, with the pictures that pointed at them.
LEMMA MediaRowsGo ==
  ASSUME MediaRows, MediaCounts, NEW keys \in SUBSET media!Rows, media!DeleteRows(keys),
         backup' \in {backup, 0}, UNCHANGED <<blobs, puts, excused>>
  PROVE  /\ MediaRows' /\ media!Rows' = media!Rows \ keys
         /\ \A k \in keys : media!Uses(k)' = {} /\ object'[k].till = "over"
         /\ \A k \in media!Blobs \ keys : media!Uses(k)' = media!Uses(k) /\ object'[k] = object[k]
  <1>0. /\ keys \cap media!InItems = {} /\ media!Rows \subseteq media!Blobs
        /\ object' = [k \in media!Blobs |-> IF k \in keys THEN media!NoRow ELSE object[k]]
        /\ mine' = IF mine \in keys THEN 0 ELSE mine
        /\ door' = IF door \in keys THEN 0 ELSE door
        /\ face' = IF face \in keys THEN 0 ELSE face
        /\ UNCHANGED <<closed, item, packGone>> /\ 0 \notin media!Blobs
    BY DEF media!DeleteRows, media!Rows, media!Blobs
  <1>1. media!NoRow \in MediaRow /\ ~media!NoRow.row /\ media!NoRow.till = "over"
    BY DEF media!NoRow, MediaRow
  <1>2. object' \in [media!Blobs -> MediaRow]
    BY <1>0, <1>1 DEF MediaRows
  <1>3. media!Rows' = media!Rows \ keys
    BY <1>0, <1>1 DEF media!Rows, media!Blobs
  <1>4. media!InItems' = media!InItems /\ closed' = closed /\ item' = item
    BY <1>0 DEF media!InItems
  <1>5. MediaRows'
    <2>1. {backup', mine', door', face'} \subseteq 0..puts'
      <3>1. /\ backup \in 0..puts /\ mine \in 0..puts /\ door \in 0..puts /\ face \in 0..puts
            /\ 0 \in 0..puts /\ puts' = puts
        BY DEF MediaRows, MediaCounts
      <3>2. backup' \in 0..puts /\ mine' \in 0..puts /\ door' \in 0..puts /\ face' \in 0..puts
        BY <1>0, <3>1
      <3> QED
        BY <3>1, <3>2
    <2>2. ({mine, door, face}' \cup media!InItems') \ {0} \subseteq media!Rows'
      BY <1>0, <1>3, <1>4 DEF MediaRows
    <2> QED
      BY <1>0, <1>2, <1>3, <2>1, <2>2 DEF MediaRows
  <1>6. ASSUME NEW k \in keys PROVE media!Uses(k)' = {} /\ object'[k].till = "over"
    <2>1. k # 0 /\ k \notin media!InItems /\ k \in media!Blobs
      BY <1>0
    <2>2. \A i \in Items : item'[i] # k
      BY <1>4, <2>1 DEF media!InItems
    <2>3. mine' # k /\ door' # k
      BY <1>0, <2>1
    <2> QED
      BY <1>0, <1>1, <2>1, <2>2, <2>3 DEF media!Uses
  <1>7. ASSUME NEW k \in media!Blobs \ keys
        PROVE  media!Uses(k)' = media!Uses(k) /\ object'[k] = object[k]
    <2>1. (mine' = k <=> mine = k) /\ (door' = k <=> door = k)
      BY <1>0
    <2> QED
      BY <1>0, <1>4, <2>1 DEF media!Uses
  <1> QED
    BY <1>3, <1>5, <1>6, <1>7

LEMMA MediaLeaves ==
  ASSUME MediaInv, NEW r \in Requests, NEW q, NEW keys \in SUBSET media!Rows,
         MediaAsks', MediaCounts', Turns(r, q), Aside(mReq[r]), q.op \in {"idle", "unlink"},
         q.op = "unlink" => /\ q.keys \subseteq keys \cup ({backup} \ {0})
                            /\ q.keys \cap {backup'} = {},
         media!DeleteRows(keys), backup' \in {backup, 0}, UNCHANGED <<blobs, puts, excused>>
  PROVE  MediaInv'
  <1>0. MediaRows /\ MediaCounts /\ MediaAsks /\ MediaTypes /\ Filed /\ Used
    BY MediaSplit DEF MediaInv
  <1>1. /\ MediaRows' /\ media!Rows' = media!Rows \ keys
        /\ \A k \in keys : media!Uses(k)' = {} /\ object'[k].till = "over"
        /\ \A k \in media!Blobs \ keys : media!Uses(k)' = media!Uses(k) /\ object'[k] = object[k]
    BY <1>0, MediaRowsGo
  <1>2. Filed'
    <2>1. q.op = "unlink" => /\ q.keys \subseteq media!Rows \cup {backup}
                             /\ q.keys \cap (media!Rows' \cup {backup'}) = {}
      BY <1>0, <1>1 DEF Filed
    <2> QED
      BY <1>0, <1>1, <2>1, FiledLeaves
  <1>3. Used'
    <2>1. \A k \in keys : UsedWell(k)'
      BY <1>1, UsedNoMore
    <2>2. \A k : /\ LetsGo(q, k) <=> LetsGo(mReq[r], k)
                 /\ TakesUp(q, k) <=> TakesUp(mReq[r], k)
      BY DEF LetsGo, TakesUp, Aside
    <2> QED
      BY <1>0, <1>1, <2>1, <2>2, UsedApart
  <1> QED
    BY <1>1, <1>2, <1>3, MediaSplit, PTL DEF MediaInv

LEMMA MediaGone ==
  ASSUME MediaInv, NEW r \in Requests,
         \/ \E k \in media!Blobs : media!DeleteMedia(r, k)
         \/ media!Sweep(r) \/ media!WipeTx(r)
  PROVE  MediaInv'
  <1>0. MediaRows /\ MediaCounts /\ MediaAsks /\ MediaTypes /\ Filed /\ Used /\ puts \in Nat
    BY MediaSplit DEF MediaInv, MediaCounts
  <1>1. ASSUME NEW keys \in SUBSET media!Rows, media!Begin(r, media!Unlinking(keys)),
               media!DeleteRows(keys), UNCHANGED <<backup, blobs, puts, excused>>
        PROVE  MediaInv'
    <2> DEFINE q == media!Unlinking(keys)
    <2>1. keys \subseteq 1..puts /\ keys \in SUBSET media!Blobs
      BY <1>0 DEF MediaRows, media!Rows
    <2>2. MediaAsk(q, puts) /\ q.op \in {"idle", "unlink"} /\ (q.op = "unlink" => q.keys = keys)
      BY <1>0, <2>1, MediaUnlinking
    <2>3. media!Begin(r, q)
      BY <1>1
    <2> HIDE DEF q
    <2>4. MediaAsks' /\ Turns(r, q) /\ mMade' \in 0..MediaRequests /\ Aside(mReq[r])
      BY <1>0, <1>1, <2>2, <2>3, MediaBegins
    <2>5. keys \cap {backup'} = {} /\ MediaCounts'
      BY <1>0, <1>1, <2>4 DEF Filed, MediaCounts
    <2> QED
      BY <1>1, <2>2, <2>4, <2>5, MediaLeaves
  <1>2. ASSUME NEW k \in media!Blobs, media!DeleteMedia(r, k) PROVE MediaInv'
    BY <1>1, <1>2 DEF media!DeleteMedia
  <1>3. CASE media!Sweep(r)
    <2>1. media!Sweepable \in SUBSET media!Rows
      BY DEF media!Sweepable
    <2> QED
      BY <1>1, <1>3, <2>1 DEF media!Sweep
  <1>4. CASE media!WipeTx(r)
    <2>1. mReq[r].op = "wipe" /\ Aside(mReq[r]) /\ UNCHANGED <<blobs, puts, excused>>
      BY <1>4 DEF media!WipeTx, Aside
    <2>2. CASE media!Goes(r, media!Idle) /\ UNCHANGED <<object, backup, media!pictures>>
      BY <2>1, <2>2, MediaQuiet
    <2>3. CASE /\ media!DeleteRows(media!Rows) /\ backup' = 0
               /\ media!Goes(r, media!Unlinking(media!Rows \cup ({backup} \ {0})))
      <3> DEFINE keys == media!Rows \cup ({backup} \ {0})
                 q == media!Unlinking(keys)
      <3>1. keys \subseteq 1..puts /\ keys \in SUBSET media!Blobs /\ 0 \notin keys
        <4>1. media!Rows \subseteq 1..puts /\ backup \in 0..puts /\ 0 \notin 1..puts
          BY <1>0 DEF MediaRows
        <4>2. {backup} \ {0} \subseteq 1..puts
          BY <1>0, <4>1
        <4> QED
          BY <1>0, <4>1, <4>2, MediaWithin
      <3> HIDE DEF keys
      <3>2. MediaAsk(q, puts) /\ q.op \in {"idle", "unlink"} /\ (q.op = "unlink" => q.keys = keys)
        BY <1>0, <3>1, MediaUnlinking
      <3>3. media!Goes(r, q)
        BY <2>3 DEF keys
      <3> HIDE DEF q
      <3>4. MediaAsks' /\ Turns(r, q) /\ MediaCounts'
        BY <1>0, <2>1, <3>2, <3>3, MediaProceeds
      <3>5. /\ q.op = "unlink" => /\ q.keys \subseteq media!Rows \cup ({backup} \ {0})
                                  /\ q.keys \cap {backup'} = {}
        BY <2>3, <3>1, <3>2 DEF keys
      <3> QED
        BY <2>1, <2>3, <3>2, <3>4, <3>5, MediaLeaves
    <2> QED
      BY <1>4, <2>2, <2>3 DEF media!WipeTx
  <1> QED
    BY <1>2, <1>3, <1>4

\* What a picture or a sticker points at has a row, and what has a row keeps it.
LEMMA MediaPointed ==
  ASSUME MediaRows
  PROVE  /\ {mine, door, face} \subseteq media!Rows \cup {0}
         /\ item \in [Items -> media!Rows \cup {0}]
         /\ media!Rows \subseteq media!Blobs /\ 0 \notin media!Blobs
  <1>1. \A i \in Items : item[i] \in media!Rows \cup {0}
    BY DEF MediaRows, media!InItems
  <1> QED
    BY <1>1 DEF MediaRows, media!Rows, media!Blobs

LEMMA MediaRowsKept ==
  ASSUME MediaRows, MediaCounts, UNCHANGED <<blobs, puts, backup>>,
         object' \in [media!Blobs -> MediaRow],
         \A j \in media!Blobs : object'[j].row = object[j].row,
         {mine', door', face'} \subseteq media!Rows \cup {0},
         item' \in [Items -> media!Rows \cup {0}],
         closed' \in BOOLEAN, packGone' \in BOOLEAN, excused' \subseteq media!Blobs
  PROVE  MediaRows' /\ media!Rows' = media!Rows
  <1>1. media!Rows' = media!Rows
    BY DEF media!Rows, media!Blobs
  <1>2. /\ backup \in 0..puts /\ media!Rows \subseteq 1..puts /\ blobs \subseteq 1..puts
        /\ media!Rows \cup {0} \subseteq 0..puts
    BY DEF MediaRows, MediaCounts
  <1>3. item' \in [Items -> 0..puts] /\ media!InItems' \subseteq media!Rows \cup {0}
    BY <1>2 DEF media!InItems
  <1>4. /\ {backup', mine', door', face'} \subseteq 0..puts
        /\ ({mine', door', face'} \cup media!InItems') \ {0} \subseteq media!Rows'
    BY <1>1, <1>2, <1>3
  <1> QED
    BY <1>1, <1>2, <1>3, <1>4 DEF MediaRows, media!Blobs

LEMMA MediaTill ==
  ASSUME MediaRows, NEW k, NEW till \in {"window", "long", "over"},
         object' = [object EXCEPT ![k].till = till]
  PROVE  /\ object' \in [media!Blobs -> MediaRow]
         /\ \A j \in media!Blobs : /\ object'[j].row = object[j].row
                                   /\ j # k => object'[j] = object[j]
                                   /\ j = k => object'[j].till = till
  <1>1. object \in [media!Blobs -> MediaRow]
    BY DEF MediaRows
  <1>2. \A j \in media!Blobs : /\ object[j] \in MediaRow
                               /\ j # k => object'[j] = object[j]
                               /\ j = k => object'[j] = [object[j] EXCEPT !.till = till]
    BY <1>1
  <1>3. ASSUME NEW j \in media!Blobs
        PROVE  /\ object'[j] \in MediaRow /\ object'[j].row = object[j].row
               /\ j = k => object'[j].till = till
    <2>1. object[j].row \in BOOLEAN /\ object[j] \in MediaRow
      BY <1>2 DEF MediaRow
    <2>2. CASE j = k
      <3>1. [object[j] EXCEPT !.till = till] \in MediaRow
        BY <2>1 DEF MediaRow
      <3>2. /\ [object[j] EXCEPT !.till = till].row = object[j].row
            /\ [object[j] EXCEPT !.till = till].till = till
        BY <2>1 DEF MediaRow
      <3> QED
        BY <1>2, <2>2, <3>1, <3>2
    <2>3. CASE j # k
      BY <1>2, <2>1, <2>3
    <2> QED
      BY <2>2, <2>3
  <1> QED
    BY <1>1, <1>2, <1>3

\* A use moves from one object to another, or to none.
Moved(q, u, old, k) ==
    \A j \in media!Blobs :
        /\ media!Uses(j)' = (media!Uses(j) \ {u}) \cup (IF j = k THEN {u} ELSE {})
        /\ u \in media!Uses(j) <=> j = old
        /\ LetsGo(q, j) <=> j = old /\ j # k
        /\ j # k => object'[j] = object[j]
        /\ j = k => object'[j].till = "long"

LEMMA UsedMoves ==
  ASSUME Used, NEW r \in Requests, NEW q, Turns(r, q), Aside(mReq[r]), q.op \in {"idle", "release"},
         NEW u, NEW old, NEW k, Moved(q, u, old, k),
         excused \subseteq excused',
         k \in media!Blobs \ excused' =>
           media!Uses(k) \ {u} = {} /\ \A s \in Requests \ {r} : ~LetsGo(mReq[s], k)
  PROVE  Used'
  <1> DEFINE S == {old, k}
  <1>1. ASSUME k \in media!Blobs, k \notin excused' PROVE UsedWell(k)'
    <2>1. media!Uses(k)' = {u} /\ object'[k].till = "long"
      BY <1>1 DEF Moved
    <2>2. \A s \in Requests : ~LetsGo(mReq'[s], k)
      BY <1>1 DEF Turns, Moved
    <2> QED
      BY <2>1, <2>2, UsedOnce
  <1>2. ASSUME old \in media!Blobs, old \notin excused', old # k PROVE UsedWell(old)'
    <2>1. UsedWell(old) /\ u \in media!Uses(old)
      BY <1>2 DEF Used, Moved
    <2>2. media!Uses(old) = {u}
      BY <2>1 DEF UsedWell
    <2>3. media!Uses(old)' = {}
      BY <1>2, <2>2 DEF Moved
    <2>4. LetsGo(mReq'[r], old)
      BY <1>2 DEF Turns, Moved
    <2> QED
      BY <2>3, <2>4, UsedNoMore
  <1>3. \A j \in S \cap media!Blobs : j \notin excused' => UsedWell(j)'
    BY <1>1, <1>2
  <1>4. ASSUME NEW j \in media!Blobs \ S
        PROVE  /\ LetsGo(q, j) <=> LetsGo(mReq[r], j)
               /\ TakesUp(q, j) <=> TakesUp(mReq[r], j)
               /\ media!Uses(j)' = media!Uses(j)
               /\ object'[j].row => object[j].row
               /\ object'[j].till = "long" <=> object[j].till = "long"
    <2>1. j # old /\ j # k /\ object'[j] = object[j] /\ ~LetsGo(q, j)
      BY <1>4 DEF Moved
    <2>3. media!Uses(j)' = media!Uses(j) \ {u} /\ u \notin media!Uses(j)
      BY <2>1 DEF Moved
    <2>4. media!Uses(j)' = media!Uses(j)
      BY <2>3
    <2>2. ~LetsGo(mReq[r], j) /\ ~TakesUp(mReq[r], j) /\ ~TakesUp(q, j)
      BY DEF Aside, LetsGo, TakesUp
    <2> QED
      BY <2>1, <2>2, <2>4
  <1> DEFINE T == S \cap media!Blobs
  <1>5. media!Blobs \ T = media!Blobs \ S
    OBVIOUS
  <1> HIDE DEF S, T
  <1>6. \A j \in T : j \notin excused' => UsedWell(j)'
    BY <1>3 DEF T
  <1> QED
    BY <1>4, <1>5, <1>6, UsedApart

\* A picture comes, goes, or gives way to another.
LEMMA MediaMoves ==
  ASSUME MediaInv, NEW r \in Requests, NEW u \in {"mine", "door"},
         NEW old \in 0..puts, NEW k \in media!Rows \cup {0},
         \/ media!Begin(r, media!Letting(old, k))
         \/ media!Goes(r, media!Letting(old, k)) /\ Aside(mReq[r]),
         \A j \in media!Blobs :
           /\ media!Uses(j)' = (media!Uses(j) \ {u}) \cup (IF j = k THEN {u} ELSE {})
           /\ u \in media!Uses(j) <=> j = old,
         IF k = 0 THEN UNCHANGED <<object, excused>>
         ELSE object' = [object EXCEPT ![k].till = "long"] /\ excused' = media!Crossed(r, k, u),
         {mine', door'} \subseteq media!Rows \cup {0}, closed' \in BOOLEAN,
         UNCHANGED <<backup, blobs, puts, face, item, packGone>>
  PROVE  MediaInv'
  <1>0. MediaRows /\ MediaCounts /\ MediaAsks /\ MediaTypes /\ Filed /\ Used /\ puts \in Nat
    BY MediaSplit DEF MediaInv, MediaCounts
  <1> DEFINE q == media!Letting(old, k)
  <1>1. /\ MediaAsk(q, puts) /\ q.op \in {"idle", "release"}
        /\ old \notin {0, k} => LetsGo(q, old)
        /\ \A j : LetsGo(q, j) => j = old /\ j \notin {0, k}
    BY <1>0, MediaLetting
  <1>2. media!Begin(r, q) \/ (media!Goes(r, q) /\ Aside(mReq[r]))
    OBVIOUS
  <1> HIDE DEF q
  <1>3. MediaAsks' /\ MediaCounts' /\ Turns(r, q) /\ Aside(mReq[r])
    <2>1. CASE media!Begin(r, q)
      BY <1>0, <1>1, <2>1, MediaBegins DEF MediaCounts
    <2>2. CASE media!Goes(r, q) /\ Aside(mReq[r])
      BY <1>0, <1>1, <2>2, MediaProceeds
    <2> QED
      BY <1>2, <2>1, <2>2
  <1>4. /\ {mine, door, face} \subseteq media!Rows \cup {0}
        /\ item \in [Items -> media!Rows \cup {0}]
        /\ media!Rows \subseteq media!Blobs /\ 0 \notin media!Blobs
    BY <1>0, MediaPointed
  <1>5. /\ object' \in [media!Blobs -> MediaRow]
        /\ \A j \in media!Blobs : /\ object'[j].row = object[j].row
                                  /\ j # k => object'[j] = object[j]
                                  /\ j = k => object'[j].till = "long"
    <2>1. CASE k = 0
      BY <1>0, <1>4, <2>1 DEF MediaRows
    <2>2. CASE k # 0
      BY <1>0, <2>2, MediaTill
    <2> QED
      BY <2>1, <2>2
  <1>6. excused' \subseteq media!Blobs /\ excused \subseteq excused'
    BY <1>0, <1>4 DEF MediaRows, media!Crossed
  <1>7. MediaRows' /\ media!Rows' = media!Rows
    <2>1. {mine', door', face'} \subseteq media!Rows \cup {0} /\ packGone' \in BOOLEAN
          /\ item' \in [Items -> media!Rows \cup {0}]
      BY <1>0, <1>4 DEF MediaRows
    <2> QED
      BY <1>0, <1>5, <1>6, <2>1, MediaRowsKept
  <1>8. Filed'
    BY <1>0, <1>1, <1>3, <1>7, FiledQuiet
  <1>9. Used'
    <2>1. \A j \in media!Blobs : LetsGo(q, j) <=> j = old /\ j # k
      BY <1>1, <1>4
    <2>2. k \in media!Blobs \ excused' =>
            media!Uses(k) \ {u} = {} /\ \A s \in Requests \ {r} : ~LetsGo(mReq[s], k)
      BY <1>4 DEF media!Crossed, LetsGo
    <2>3. Moved(q, u, old, k)
      BY <1>5, <2>1 DEF Moved
    <2> QED
      BY <1>0, <1>1, <1>3, <1>6, <2>2, <2>3, UsedMoves
  <1> QED
    BY <1>3, <1>7, <1>8, <1>9, MediaSplit, PTL DEF MediaInv

\* An uploaded picture becomes the account's or the channel's.
LEMMA MediaPictured ==
  ASSUME MediaInv, NEW r \in Requests,
         \/ media!AvatarTx(r) \/ media!DoorTx(r)
         \/ media!RemoveAvatar(r) \/ media!RemoveDoor(r) \/ media!CloseChannel(r)
  PROVE  MediaInv'
  <1>0. MediaRows /\ MediaAsks /\ closed \in BOOLEAN
    BY MediaSplit DEF MediaInv, MediaRows
  <1>1. /\ {mine, door, face} \subseteq media!Rows \cup {0} /\ 0 \notin media!Blobs
        /\ mine \in 0..puts /\ door \in 0..puts
    BY <1>0, MediaPointed DEF MediaRows
  <1>m. ASSUME UNCHANGED <<door, closed, item>>
        PROVE  \A j \in media!Blobs :
                 /\ media!Uses(j)' = (media!Uses(j) \ {"mine"}) \cup (IF j = mine' THEN {"mine"} ELSE {})
                 /\ "mine" \in media!Uses(j) <=> j = mine
    BY <1>m, PeopleAssumption DEF media!Uses
  <1>d. ASSUME UNCHANGED <<mine, item>>, ~closed, NEW k, k = IF closed' THEN 0 ELSE door'
        PROVE  \A j \in media!Blobs :
                 /\ media!Uses(j)' = (media!Uses(j) \ {"door"}) \cup (IF j = k THEN {"door"} ELSE {})
                 /\ "door" \in media!Uses(j) <=> j = door
    BY <1>1, <1>d, PeopleAssumption DEF media!Uses
  <1>2. ASSUME media!AvatarTx(r) PROVE MediaInv'
    <2>0. PICK k : k = mReq[r].key
      OBVIOUS
    <2>1. mReq[r].op = "mine" /\ Aside(mReq[r]) /\ UNCHANGED <<backup, blobs, puts, door, closed, face, item, packGone>>
      BY <1>2 DEF media!AvatarTx, Aside
    <2>2. CASE k \in media!Rows
      <3>1. /\ mine' = k /\ object' = [object EXCEPT ![k].till = "long"]
            /\ excused' = media!Crossed(r, k, "mine")
            /\ media!Goes(r, media!Letting(mine, k))
        BY <1>2, <2>0, <2>2 DEF media!AvatarTx
      <3>2. k # 0 /\ {mine', door'} \subseteq media!Rows \cup {0}
        BY <1>0, <1>1, <2>1, <2>2, <3>1 DEF MediaRows
      <3>3. \A j \in media!Blobs :
              /\ media!Uses(j)' = (media!Uses(j) \ {"mine"}) \cup (IF j = k THEN {"mine"} ELSE {})
              /\ "mine" \in media!Uses(j) <=> j = mine
        BY <1>m, <2>1, <3>1
      <3> QED
        BY <1>0, <1>1, <2>1, <2>2, <3>1, <3>2, <3>3, MediaMoves
    <2>3. CASE k \notin media!Rows
      <3>1. media!Goes(r, media!Idle) /\ UNCHANGED <<mine, object, excused>>
        BY <1>2, <2>0, <2>3 DEF media!AvatarTx
      <3>2. UNCHANGED <<object, backup, blobs, puts, media!pictures, excused>>
        BY <2>1, <3>1 DEF media!pictures
      <3> QED
        BY <2>1, <3>1, <3>2, MediaQuiet
    <2> QED
      BY <2>2, <2>3
  <1>3. ASSUME media!DoorTx(r) PROVE MediaInv'
    <2>0. PICK k : k = mReq[r].key
      OBVIOUS
    <2>1. mReq[r].op = "door" /\ Aside(mReq[r]) /\ UNCHANGED <<backup, blobs, puts, mine, closed, face, item, packGone>>
      BY <1>3 DEF media!DoorTx, Aside
    <2>2. CASE k \in media!Rows /\ ~closed
      <3>1. /\ door' = k /\ object' = [object EXCEPT ![k].till = "long"]
            /\ excused' = media!Crossed(r, k, "door")
            /\ media!Goes(r, media!Letting(door, k))
        BY <1>3, <2>0, <2>2 DEF media!DoorTx
      <3>2. k # 0 /\ {mine', door'} \subseteq media!Rows \cup {0}
        BY <1>0, <1>1, <2>1, <2>2, <3>1 DEF MediaRows
      <3>3. \A j \in media!Blobs :
              /\ media!Uses(j)' = (media!Uses(j) \ {"door"}) \cup (IF j = k THEN {"door"} ELSE {})
              /\ "door" \in media!Uses(j) <=> j = door
        BY <1>d, <2>1, <2>2, <3>1
      <3> QED
        BY <1>0, <1>1, <2>1, <2>2, <3>1, <3>2, <3>3, MediaMoves
    <2>3. CASE ~(k \in media!Rows /\ ~closed)
      <3>1. media!Goes(r, media!Idle) /\ UNCHANGED <<door, object, excused>>
        BY <1>3, <2>0, <2>3 DEF media!DoorTx
      <3>2. UNCHANGED <<object, backup, blobs, puts, media!pictures, excused>>
        BY <2>1, <3>1 DEF media!pictures
      <3> QED
        BY <2>1, <3>1, <3>2, MediaQuiet
    <2> QED
      BY <2>2, <2>3
  <1>4. ASSUME media!RemoveAvatar(r) PROVE MediaInv'
    <2>1. /\ mine' = 0 /\ media!Begin(r, media!Letting(mine, 0))
          /\ UNCHANGED <<object, backup, blobs, puts, door, closed, face, item, packGone, excused>>
      BY <1>4 DEF media!RemoveAvatar
    <2>2. \A j \in media!Blobs :
            /\ media!Uses(j)' = (media!Uses(j) \ {"mine"}) \cup (IF j = 0 THEN {"mine"} ELSE {})
            /\ "mine" \in media!Uses(j) <=> j = mine
      BY <1>m, <2>1
    <2>3. {mine', door'} \subseteq media!Rows \cup {0} /\ 0 \in media!Rows \cup {0}
      BY <1>1, <2>1
    <2> QED
      BY <1>0, <1>1, <2>1, <2>2, <2>3, MediaMoves
  <1>5. ASSUME media!RemoveDoor(r) \/ media!CloseChannel(r) PROVE MediaInv'
    <2>1. /\ media!Begin(r, media!Letting(door, 0)) /\ ~closed
          /\ door' = 0 \/ (closed' /\ door' = door)
          /\ closed' \in BOOLEAN
          /\ UNCHANGED <<object, backup, blobs, puts, mine, face, item, packGone, excused>>
      BY <1>0, <1>5 DEF media!RemoveDoor, media!CloseChannel
    <2>2. \A j \in media!Blobs :
            /\ media!Uses(j)' = (media!Uses(j) \ {"door"}) \cup (IF j = 0 THEN {"door"} ELSE {})
            /\ "door" \in media!Uses(j) <=> j = door
      BY <1>d, <2>1
    <2>3. {mine', door'} \subseteq media!Rows \cup {0} /\ 0 \in media!Rows \cup {0}
      BY <1>1, <2>1
    <2> QED
      BY <1>0, <1>1, <2>1, <2>2, <2>3, MediaMoves
  <1> QED
    BY <1>2, <1>3, <1>4, <1>5

\* A sticker comes to point at what was uploaded for it, which is then kept.
LEMMA MediaItem ==
  ASSUME MediaInv, NEW r \in Requests, NEW i \in Items, media!ItemRow(r, i)
  PROVE  MediaInv'
  <1>0. MediaRows /\ MediaCounts /\ MediaAsks /\ MediaTypes /\ Filed /\ Used /\ puts \in Nat
    BY MediaSplit DEF MediaInv, MediaCounts
  <1>1. PICK k : k = mReq[r].key
    OBVIOUS
  <1>2. /\ mReq[r].op = "item" /\ Aside(mReq[r]) /\ item[i] = 0
        /\ UNCHANGED <<object, backup, blobs, puts, mine, door, closed, face, packGone>>
    BY DEF media!ItemRow, Aside
  <1>3. CASE k \notin media!Rows
    <2>1. media!Goes(r, media!Idle) /\ UNCHANGED <<item, excused>>
      BY <1>1, <1>3 DEF media!ItemRow
    <2>2. UNCHANGED <<object, backup, blobs, puts, media!pictures, excused>>
      BY <1>2, <2>1 DEF media!pictures
    <2> QED
      BY <1>2, <2>1, <2>2, MediaQuiet
  <1>4. CASE k \in media!Rows
    <2> DEFINE q == [mReq[r] EXCEPT !.op = "adopt"]
    <2>1. item' = [item EXCEPT ![i] = k] /\ excused' = media!Crossed(r, k, i) /\ media!Goes(r, q)
      BY <1>1, <1>4 DEF media!ItemRow
    <2>2. MediaAsk(q, puts) /\ q.op = "adopt" /\ q.key = k
      <3>1. mReq[r].key # 0 /\ MediaAsk(mReq[r], puts)
        BY <1>0, <1>1, <1>4 DEF MediaRows, MediaAsks
      <3> QED
        BY <1>0, <1>1, <3>1, MediaAdopting
    <2> HIDE DEF q
    <2>3. MediaAsks' /\ Turns(r, q) /\ MediaCounts'
      BY <1>0, <1>2, <2>1, <2>2, MediaProceeds
    <2>4. /\ {mine, door, face} \subseteq media!Rows \cup {0}
          /\ item \in [Items -> media!Rows \cup {0}]
          /\ media!Rows \subseteq media!Blobs /\ 0 \notin media!Blobs
      BY <1>0, MediaPointed
    <2>5. excused' \subseteq media!Blobs /\ excused \subseteq excused'
      BY <1>0, <1>4, <2>1, <2>4 DEF MediaRows, media!Crossed
    <2>6. item' \in [Items -> media!Rows \cup {0}] /\ item'[i] = k
          /\ \A j \in Items \ {i} : item'[j] = item[j]
      BY <1>4, <2>1, <2>4
    <2>7. MediaRows' /\ media!Rows' = media!Rows
      <3>1. /\ object' \in [media!Blobs -> MediaRow]
            /\ \A j \in media!Blobs : object'[j].row = object[j].row
            /\ {mine', door', face'} \subseteq media!Rows \cup {0}
            /\ closed' \in BOOLEAN /\ packGone' \in BOOLEAN
        BY <1>0, <1>2, <2>4 DEF MediaRows
      <3> QED
        BY <1>0, <1>2, <2>5, <2>6, <3>1, MediaRowsKept
    <2>8. Filed'
      BY <1>0, <1>2, <2>2, <2>3, <2>7, FiledQuiet
    <2>9. Used'
      <3>1. ASSUME NEW j \in media!Blobs
            PROVE  media!Uses(j)' = media!Uses(j) \cup (IF j = k THEN {i} ELSE {})
        <4>1. i \notin {"mine", "door"} /\ j # 0
          BY <2>4, PeopleAssumption
        <4> QED
          BY <1>2, <2>6, <4>1 DEF media!Uses
      <3>2. ASSUME k \notin excused' PROVE UsedWell(k)'
        <4>1. /\ media!Uses(k) \ {i} = {}
              /\ \A s \in Requests \ {r} : ~LetsGo(mReq[s], k)
          BY <2>1, <3>2 DEF media!Crossed, LetsGo
        <4>2. media!Uses(k)' = {i}
          BY <1>4, <2>4, <3>1, <4>1
        <4>3. \A s \in Requests : ~LetsGo(mReq'[s], k)
          BY <2>2, <2>3, <4>1 DEF Turns, LetsGo
        <4>4. TakesUp(mReq'[r], k)
          BY <2>2, <2>3 DEF Turns, TakesUp
        <4> QED
          BY <4>2, <4>3, <4>4, UsedOnce
      <3> DEFINE S == {k}
      <3>3. \A j \in S : j \notin excused' => UsedWell(j)'
        BY <3>2
      <3>4. ASSUME NEW j \in media!Blobs \ S
            PROVE  /\ LetsGo(q, j) <=> LetsGo(mReq[r], j)
                   /\ TakesUp(q, j) <=> TakesUp(mReq[r], j)
                   /\ media!Uses(j)' = media!Uses(j)
                   /\ object'[j].row => object[j].row
                   /\ object'[j].till = "long" <=> object[j].till = "long"
        <4>1. media!Uses(j)' = media!Uses(j)
          BY <3>1
        <4> QED
          BY <1>2, <2>2, <4>1 DEF LetsGo, TakesUp
      <3> HIDE DEF S
      <3> QED
        BY <1>0, <2>3, <2>5, <3>3, <3>4, UsedApart
    <2> QED
      BY <2>3, <2>7, <2>8, <2>9, MediaSplit, PTL DEF MediaInv
  <1> QED
    BY <1>3, <1>4

\* A step that concerns the life of one object, and no row.
LEMMA MediaLasts ==
  ASSUME MediaInv, NEW r \in Requests, NEW k, NEW till \in {"window", "long", "over"},
         media!Goes(r, media!Idle), ~Storing(mReq[r]),
         \A j : j # k => ~LetsGo(mReq[r], j) /\ ~TakesUp(mReq[r], j),
         object' = object \/ object' = [object EXCEPT ![k].till = till],
         item' \in [Items -> media!Rows \cup {0}],
         \A j \in media!Blobs : j # k => media!Uses(j)' = media!Uses(j),
         excused \subseteq excused', excused' \subseteq media!Blobs,
         k \in media!Blobs \ excused' => UsedWell(k)',
         UNCHANGED <<backup, blobs, puts, mine, door, closed, face, packGone>>
  PROVE  MediaInv'
  <1>0. MediaRows /\ MediaCounts /\ MediaAsks /\ MediaTypes /\ Filed /\ Used /\ puts \in Nat
    BY MediaSplit DEF MediaInv, MediaCounts
  <1>1. MediaAsk(media!Idle, puts) /\ media!Idle.op = "idle"
    BY <1>0, MediaIdle
  <1>2. MediaAsks' /\ Turns(r, media!Idle) /\ MediaCounts'
    BY <1>0, <1>1, MediaProceeds
  <1>3. /\ object' \in [media!Blobs -> MediaRow]
        /\ \A j \in media!Blobs : /\ object'[j].row = object[j].row
                                  /\ j # k => object'[j] = object[j]
    <2>1. CASE object' = object
      BY <1>0, <2>1 DEF MediaRows
    <2>2. CASE object' = [object EXCEPT ![k].till = till]
      BY <1>0, <2>2, MediaTill
    <2> QED
      BY <2>1, <2>2
  <1>4. MediaRows' /\ media!Rows' = media!Rows
    <2>1. /\ {mine', door', face'} \subseteq media!Rows \cup {0}
          /\ closed' \in BOOLEAN /\ packGone' \in BOOLEAN
      BY <1>0, MediaPointed DEF MediaRows
    <2> QED
      BY <1>0, <1>3, <2>1, MediaRowsKept
  <1>5. Filed'
    BY <1>0, <1>1, <1>2, <1>4, FiledQuiet
  <1>6. Used'
    <2> DEFINE S == {k} \cap media!Blobs
    <2>1. \A j \in S : j \notin excused' => UsedWell(j)'
      OBVIOUS
    <2>2. ASSUME NEW j \in media!Blobs \ S
          PROVE  /\ LetsGo(media!Idle, j) <=> LetsGo(mReq[r], j)
                 /\ TakesUp(media!Idle, j) <=> TakesUp(mReq[r], j)
                 /\ media!Uses(j)' = media!Uses(j)
                 /\ object'[j].row => object[j].row
                 /\ object'[j].till = "long" <=> object[j].till = "long"
      <3>1. j # k /\ object'[j] = object[j] /\ media!Uses(j)' = media!Uses(j)
        BY <1>3, <2>2
      <3>2. ~LetsGo(mReq[r], j) /\ ~TakesUp(mReq[r], j)
        BY <3>1
      <3>3. ~LetsGo(media!Idle, j) /\ ~TakesUp(media!Idle, j)
        BY <1>1 DEF LetsGo, TakesUp
      <3> QED
        BY <3>1, <3>2, <3>3
    <2> HIDE DEF S
    <2> QED
      BY <1>0, <1>2, <2>1, <2>2, UsedApart
  <1> QED
    BY <1>2, <1>4, <1>5, <1>6, MediaSplit, PTL DEF MediaInv

\* The second halves that say how long an object is kept, done or lost.
LEMMA MediaEnds ==
  ASSUME MediaInv, NEW r \in Requests,
         \/ media!Release(r) \/ media!Adopt(r) \/ media!DropTx(r) \/ media!Dies(r)
  PROVE  MediaInv'
  <1>0. MediaRows /\ MediaCounts /\ MediaAsks /\ Used
    BY MediaSplit DEF MediaInv
  <1>1. /\ {mine, door, face} \subseteq media!Rows \cup {0}
        /\ item \in [Items -> media!Rows \cup {0}]
        /\ media!Rows \subseteq media!Blobs /\ 0 \notin media!Blobs
        /\ excused \subseteq media!Blobs
    BY <1>0, MediaPointed DEF MediaRows
  <1>2. ASSUME media!Release(r) PROVE MediaInv'
    <2>1. PICK k : k = mReq[r].old
      OBVIOUS
    <2>2. /\ mReq[r].op = "release" /\ media!Goes(r, media!Idle)
          /\ object' = [object EXCEPT ![k].till = "over"]
          /\ UNCHANGED <<backup, blobs, puts, mine, door, closed, face, item, packGone, excused>>
      BY <1>2, <2>1 DEF media!Release, media!pictures
    <2>3. \A j : media!Uses(j)' = media!Uses(j)
      BY <2>2, UsesSame
    <2>4. \A j : j # k => ~LetsGo(mReq[r], j) /\ ~TakesUp(mReq[r], j)
      BY <2>1, <2>2 DEF LetsGo, TakesUp
    <2>5. ASSUME k \in media!Blobs \ excused' PROVE UsedWell(k)'
      <3>1. UsedWell(k) /\ LetsGo(mReq[r], k)
        BY <1>0, <2>1, <2>2, <2>5 DEF Used, LetsGo
      <3>2. media!Uses(k)' = {}
        BY <2>3, <3>1 DEF UsedWell
      <3>3. object'[k].till # "long"
        BY <1>0, <2>2, <2>5, MediaTill
      <3> QED
        BY <3>2, <3>3, UsedNoMore
    <2>6. /\ "over" \in {"window", "long", "over"} /\ ~Storing(mReq[r])
          /\ item' \in [Items -> media!Rows \cup {0}]
          /\ excused \subseteq excused' /\ excused' \subseteq media!Blobs
      BY <1>1, <2>2 DEF Storing
    <2> QED
      BY <2>2, <2>3, <2>4, <2>5, <2>6, MediaLasts
  <1>3. ASSUME media!Adopt(r) PROVE MediaInv'
    <2>1. PICK k : k = mReq[r].key
      OBVIOUS
    <2>2. /\ mReq[r].op = "adopt" /\ media!Goes(r, media!Idle)
          /\ object' = IF k \in media!Rows THEN [object EXCEPT ![k].till = "long"] ELSE object
          /\ excused' = IF k \in media!InItems THEN excused ELSE excused \cup {k}
          /\ UNCHANGED <<backup, blobs, puts, mine, door, closed, face, item, packGone>>
      BY <1>3, <2>1 DEF media!Adopt, media!pictures
    <2>3. \A j : media!Uses(j)' = media!Uses(j)
      BY <2>2, UsesSame
    <2>4. \A j : j # k => ~LetsGo(mReq[r], j) /\ ~TakesUp(mReq[r], j)
      BY <2>1, <2>2 DEF LetsGo, TakesUp
    <2>5. ASSUME k \in media!Blobs \ excused' PROVE UsedWell(k)'
      <3>1. k \in media!InItems /\ k # 0 /\ k \notin excused
        BY <1>1, <2>2, <2>5
      <3>2. PICK i \in Items : item[i] = k
        BY <3>1 DEF media!InItems
      <3>3. k \in media!Rows
        BY <1>1, <3>1, <3>2
      <3>4. UsedWell(k) /\ i \in media!Uses(k)
        BY <1>0, <2>5, <3>1, <3>2 DEF Used, media!Uses
      <3>5. media!Uses(k)' = {i} /\ \A s \in Requests : ~LetsGo(mReq[s], k)
        BY <2>3, <3>4 DEF UsedWell
      <3>6. object'[k].till = "long"
        BY <1>0, <2>2, <2>5, <3>3, MediaTill
      <3>7. \A s \in Requests : ~LetsGo(mReq'[s], k)
        <4>1. MediaAsk(media!Idle, puts) /\ media!Idle.op = "idle"
          BY <1>0, MediaIdle DEF MediaCounts
        <4>2. Turns(r, media!Idle)
          BY <1>0, <2>2, <4>1, MediaProceeds
        <4> QED
          BY <3>5, <4>1, <4>2 DEF Turns, LetsGo
      <3> QED
        BY <3>5, <3>6, <3>7, UsedOnce
    <2>6. /\ "long" \in {"window", "long", "over"} /\ ~Storing(mReq[r])
          /\ item' \in [Items -> media!Rows \cup {0}]
          /\ object' = object \/ object' = [object EXCEPT ![k].till = "long"]
      BY <1>1, <2>2 DEF Storing
    <2>7. excused \subseteq excused' /\ excused' \subseteq media!Blobs
      <3>1. k \in 1..puts
        BY <1>0, <2>1, <2>2 DEF MediaAsks, MediaAsk, MediaCounts
      <3> QED
        BY <1>0, <1>1, <2>2, <3>1, MediaWithin
    <2> QED
      BY <2>2, <2>3, <2>4, <2>5, <2>6, <2>7, MediaLasts
  <1>4. ASSUME media!DropTx(r) PROVE MediaInv'
    <2>1. PICK i : i = mReq[r].item
      OBVIOUS
    <2>2. PICK k : k = item[i]
      OBVIOUS
    <2>3. /\ mReq[r].op = "drop" /\ media!Goes(r, media!Idle) /\ i \in Items
          /\ item' = [item EXCEPT ![i] = 0]
          /\ object' = IF k = 0 THEN object ELSE [object EXCEPT ![k].till = "over"]
          /\ UNCHANGED <<backup, blobs, puts, mine, door, closed, face, packGone, excused>>
      BY <1>0, <1>4, <2>1, <2>2 DEF media!DropTx, MediaAsks, MediaAsk
    <2>4. /\ item' \in [Items -> media!Rows \cup {0}] /\ item'[i] = 0
          /\ \A j \in Items \ {i} : item'[j] = item[j]
      BY <1>1, <2>3
    <2>5. ASSUME NEW j \in media!Blobs
          PROVE  media!Uses(j)' = media!Uses(j) \ {i} /\ (i \in media!Uses(j) <=> j = k)
      <3>1. i \notin {"mine", "door"} /\ j # 0
        BY <1>1, <2>3, PeopleAssumption
      <3> QED
        BY <2>2, <2>3, <2>4, <3>1 DEF media!Uses
    <2>6. ASSUME NEW j \in media!Blobs, j # k PROVE media!Uses(j)' = media!Uses(j)
      BY <2>5, <2>6
    <2>7. \A j : j # k => ~LetsGo(mReq[r], j) /\ ~TakesUp(mReq[r], j)
      BY <2>3 DEF LetsGo, TakesUp
    <2>8. ASSUME k \in media!Blobs \ excused' PROVE UsedWell(k)'
      <3>1. UsedWell(k) /\ i \in media!Uses(k) /\ k # 0
        BY <1>0, <1>1, <2>3, <2>5, <2>8 DEF Used
      <3>2. media!Uses(k)' = {}
        BY <2>5, <2>8, <3>1 DEF UsedWell
      <3>3. object'[k].till # "long"
        BY <1>0, <2>3, <2>8, <3>1, MediaTill
      <3> QED
        BY <3>2, <3>3, UsedNoMore
    <2>9. /\ "over" \in {"window", "long", "over"} /\ ~Storing(mReq[r])
          /\ object' = object \/ object' = [object EXCEPT ![k].till = "over"]
          /\ excused \subseteq excused' /\ excused' \subseteq media!Blobs
      BY <1>1, <2>3 DEF Storing
    <2>10. /\ media!Goes(r, media!Idle) /\ item' \in [Items -> media!Rows \cup {0}]
           /\ UNCHANGED <<backup, blobs, puts, mine, door, closed, face, packGone>>
      BY <2>3, <2>4
    <2>11. \A j \in media!Blobs : j # k => media!Uses(j)' = media!Uses(j)
      BY <2>6
    <2> QED
      BY <2>7, <2>8, <2>9, <2>10, <2>11, MediaLasts
  <1>5. ASSUME media!Dies(r) PROVE MediaInv'
    <2>1. CASE mReq[r].op \notin {"release", "adopt"}
      BY <1>5, <2>1, MediaQuiet
    <2>2. CASE mReq[r].op \in {"release", "adopt"}
      <3>1. PICK k : k = IF mReq[r].op = "release" THEN mReq[r].old ELSE mReq[r].key
        OBVIOUS
      <3>2. /\ media!Goes(r, media!Idle) /\ excused' = excused \cup {k}
            /\ UNCHANGED <<object, backup, blobs, puts, mine, door, closed, face, item, packGone>>
        BY <1>5, <2>2, <3>1 DEF media!Dies, media!pictures
      <3>3. \A j : media!Uses(j)' = media!Uses(j)
        BY <3>2, UsesSame
      <3>4. \A j : j # k => ~LetsGo(mReq[r], j) /\ ~TakesUp(mReq[r], j)
        BY <2>2, <3>1 DEF LetsGo, TakesUp
      <3>5. k \in 1..puts
        BY <1>0, <2>2, <3>1 DEF MediaAsks, MediaAsk, MediaCounts
      <3>6. /\ "over" \in {"window", "long", "over"} /\ ~Storing(mReq[r])
            /\ item' \in [Items -> media!Rows \cup {0}]
            /\ excused \subseteq excused' /\ excused' \subseteq media!Blobs
            /\ k \notin media!Blobs \ excused'
        BY <1>0, <1>1, <2>2, <3>2, <3>5, MediaWithin DEF Storing
      <3> QED
        BY <3>2, <3>3, <3>4, <3>6, MediaLasts
    <2> QED
      BY <2>1, <2>2
  <1> QED
    BY <1>2, <1>3, <1>4, <1>5

\* What is done at once, or by the clock.
LEMMA MediaAtOnce ==
  ASSUME MediaInv,
         \/ \E k \in media!Blobs :
              media!RunOut(k) \/ media!SetFace(k) \/ \E keep \in BOOLEAN : media!Retain(k, keep)
         \/ media!RemoveFace \/ media!DeletePack
  PROVE  MediaInv'
  <1>0. MediaRows /\ MediaCounts /\ MediaAsks /\ MediaTypes /\ Filed /\ Used /\ puts \in Nat
    BY MediaSplit DEF MediaInv, MediaCounts
  <1>1. /\ {mine, door, face} \subseteq media!Rows \cup {0}
        /\ item \in [Items -> media!Rows \cup {0}]
        /\ media!Rows \subseteq media!Blobs /\ 0 \notin media!Blobs
    BY <1>0, MediaPointed
  <1>2. UNCHANGED <<mReq, backup, blobs, puts, mine, door, closed, item, excused>>
    BY DEF media!RunOut, media!SetFace, media!Retain, media!RemoveFace, media!DeletePack,
           media!AtOnce, media!pictures
  <1>3. MediaAsks' /\ MediaCounts'
    <2>1. mMade' \in 0..MediaRequests
      BY <1>0, PeopleAssumption
      DEF media!RunOut, media!SetFace, media!Retain, media!RemoveFace, media!DeletePack,
          media!AtOnce, MediaCounts
    <2> QED
      BY <1>0, <1>2, <2>1 DEF MediaAsks, MediaCounts
  <1>4. face' \in media!Rows \cup {0} /\ packGone' \in BOOLEAN
    BY <1>0, <1>1
    DEF media!RunOut, media!SetFace, media!Retain, media!RemoveFace, media!DeletePack,
        media!pictures, MediaRows
  <1>5. /\ object' \in [media!Blobs -> MediaRow]
        /\ \A j \in media!Blobs : /\ object'[j].row = object[j].row
                                  /\ object'[j].till = "long" <=> object[j].till = "long"
    <2>1. ASSUME NEW k \in media!Blobs, media!RunOut(k) PROVE <1>5!:
      <3>1. object' = [object EXCEPT ![k].till = "over"] /\ object[k].till = "window"
        BY <2>1 DEF media!RunOut
      <3> QED
        BY <1>0, <3>1, MediaTill
    <2>2. ASSUME NEW k \in media!Blobs, NEW keep \in BOOLEAN, media!Retain(k, keep) PROVE <1>5!:
      <3>1. object \in [media!Blobs -> MediaRow] /\ object' = [object EXCEPT ![k].kept = keep]
        BY <1>0, <2>2 DEF media!Retain, MediaRows
      <3>2. object[k] \in MediaRow
        BY <3>1
      <3>3. /\ [object[k] EXCEPT !.kept = keep] \in MediaRow
            /\ [object[k] EXCEPT !.kept = keep].row = object[k].row
            /\ [object[k] EXCEPT !.kept = keep].till = object[k].till
        BY <3>2 DEF MediaRow
      <3> QED
        BY <3>1, <3>3
    <2>3. CASE UNCHANGED object
      BY <1>0, <2>3 DEF MediaRows
    <2> QED
      BY <2>1, <2>2, <2>3 DEF media!SetFace, media!RemoveFace, media!DeletePack
  <1>6. MediaRows' /\ media!Rows' = media!Rows
    <2>1. /\ {mine', door', face'} \subseteq media!Rows \cup {0}
          /\ item' \in [Items -> media!Rows \cup {0}]
          /\ closed' \in BOOLEAN /\ excused' \subseteq media!Blobs
      BY <1>0, <1>1, <1>2, <1>4 DEF MediaRows
    <2> QED
      BY <1>0, <1>2, <1>4, <1>5, <2>1, MediaRowsKept
  <1>7. Filed'
    BY <1>0, <1>2, <1>6, FiledStill
  <1>8. Used'
    <2>1. ASSUME NEW k \in media!Blobs \ excused PROVE UsedWell(k)'
      <3>1. UsedWell(k) /\ media!Uses(k)' = media!Uses(k) /\ k \in media!Blobs
        BY <1>0, <1>2, UsesSame DEF Used
      <3> QED
        BY <1>2, <1>5, <3>1 DEF UsedWell
    <2> QED
      BY <1>2, <2>1 DEF Used, media!Blobs
  <1> QED
    BY <1>3, <1>6, <1>7, <1>8, MediaSplit, PTL DEF MediaInv

LEMMA MediaNext ==
  ASSUME MediaInv, media!Next
  PROVE  MediaInv'
  <1>1. ASSUME NEW r \in Requests, media!Checked(r) PROVE MediaInv'
    BY <1>1, MediaStores, MediaQuiet, MediaBackup, MediaGone, MediaPictured DEF media!Checked
  <1>2. ASSUME NEW r \in Requests, media!Continues(r) PROVE MediaInv'
    BY <1>2, MediaUploadRow, MediaPictured, MediaEnds, MediaBackup, MediaGone, MediaUnlink, MediaItem
    DEF media!Continues
  <1> QED
    BY <1>1, <1>2, MediaAtOnce DEF media!Next

LEMMA MediaStill ==
  ASSUME MediaInv, UNCHANGED media!vars
  PROVE  MediaInv'
  <1>0. MediaRows /\ MediaCounts /\ MediaAsks /\ Filed /\ Used
    BY MediaSplit DEF MediaInv
  <1>1. /\ UNCHANGED <<object, backup, blobs, puts, mReq, mMade, excused>>
        /\ UNCHANGED <<mine, door, closed, face, item, packGone>>
    BY DEF media!vars, media!pictures
  <1>2. MediaRows' /\ MediaCounts' /\ MediaAsks' /\ UNCHANGED media!Rows
    BY <1>0, <1>1
    DEF MediaRows, MediaCounts, MediaAsks, media!Rows, media!InItems
  <1>3. Filed'
    BY <1>0, <1>1, <1>2, FiledStill
  <1>4. Used'
    BY <1>0, <1>1, UsesSame DEF Used, UsedWell, media!Blobs
  <1> QED
    BY <1>2, <1>3, <1>4, MediaSplit, PTL DEF MediaInv

LEMMA MediaStarts ==
  ASSUME media!Init
  PROVE  MediaInv
  <1>1. MediaAsk(media!Idle, 0) /\ media!Idle.op = "idle"
    BY MediaIdle
  <1>2. /\ object = [k \in media!Blobs |-> media!NoRow] /\ backup = 0 /\ blobs = {} /\ puts = 0
        /\ mine = 0 /\ door = 0 /\ closed = FALSE /\ face = 0
        /\ item = [i \in Items |-> 0] /\ packGone = FALSE
        /\ mReq = [r \in Requests |-> media!Idle] /\ mMade = 0 /\ excused = {}
    BY DEF media!Init
  <1>3. media!NoRow \in MediaRow /\ ~media!NoRow.row /\ media!NoRow.till = "over"
    BY DEF media!NoRow, MediaRow
  <1>4. media!Rows = {} /\ media!InItems \subseteq {0}
    BY <1>2, <1>3 DEF media!Rows, media!InItems
  <1>5. MediaRows /\ MediaCounts /\ MediaAsks
    <2>1. /\ object \in [media!Blobs -> MediaRow] /\ item \in [Items -> 0..puts]
          /\ ({mine, door, face} \cup media!InItems) \ {0} \subseteq media!Rows
      BY <1>2, <1>3, <1>4
    <2>2. {backup, mine, door, face} \subseteq 0..puts
      BY <1>2
    <2>3. MediaRows
      BY <1>2, <1>4, <2>1, <2>2 DEF MediaRows
    <2>4. MediaCounts
      BY <1>2, PeopleAssumption DEF MediaCounts
    <2>5. MediaAsks
      BY <1>1, <1>2 DEF MediaAsks
    <2> QED
      BY <2>3, <2>4, <2>5
  <1>6. Filed
    BY <1>1, <1>2, <1>4 DEF Filed, FiledAt, Apart, Storing, media!NothingDangles
  <1>7. Used
    <2>1. ASSUME NEW k \in media!Blobs PROVE media!Uses(k) = {} /\ object[k].till = "over"
      <3>1. k # 0
        BY DEF media!Blobs
      <3> QED
        BY <1>2, <1>3, <3>1 DEF media!Uses
    <2> QED
      BY <2>1 DEF Used, UsedWell
  <1> QED
    BY <1>5, <1>6, <1>7, MediaSplit DEF MediaInv

\* What the invariant says of what is in use.
LEMMA MediaServes ==
  ASSUME MediaInv
  PROVE  media!NothingDangles /\ media!PicturesLiveAsUsed
  <1>0. MediaRows /\ Filed /\ Used
    BY MediaSplit DEF MediaInv
  <1>1. /\ {mine, door, face} \subseteq media!Rows \cup {0}
        /\ item \in [Items -> media!Rows \cup {0}]
        /\ media!Rows \subseteq media!Blobs /\ 0 \notin media!Blobs
    BY <1>0, MediaPointed
  <1>2. ASSUME NEW k \in media!Blobs \ excused
        PROVE  /\ k \in {mine, door} \cup media!InItems /\ (k = door => ~closed) =>
                     media!Shown(k) \/ \E r \in media!Running({"adopt"}) : mReq[r].key = k
               /\ k \in media!Rows /\ object[k].till = "long" =>
                     media!Uses(k) # {} \/ \E r \in media!Running({"release"}) : mReq[r].old = k
    <2>1. UsedWell(k) /\ k # 0
      BY <1>0, <1>1 DEF Used
    <2>2. ASSUME k \in {mine, door} \cup media!InItems, k = door => ~closed
          PROVE  media!Shown(k) \/ \E r \in media!Running({"adopt"}) : mReq[r].key = k
      <3>1. k \in media!Rows
        BY <1>1, <2>1, <2>2 DEF media!InItems
      <3>2. media!Uses(k) # {}
        BY <2>2 DEF media!Uses, media!InItems
      <3>3. object[k].row
        BY <3>1 DEF media!Rows
      <3> QED
        BY <2>1, <3>2, <3>3 DEF UsedWell, media!Shown, media!Running, TakesUp
    <2>3. ASSUME k \in media!Rows, object[k].till = "long"
          PROVE  media!Uses(k) # {} \/ \E r \in media!Running({"release"}) : mReq[r].old = k
      BY <2>1, <2>3 DEF UsedWell, media!Rows, media!Running, LetsGo
    <2> QED
      BY <2>2, <2>3
  <1> QED
    BY <1>0, <1>2 DEF Filed, media!PicturesLiveAsUsed
-----------------------------------------------------------------------------
(* Prekeys.  PrekeyInv is what makes BundlesOpen inductive: what the       *)
(* server has, or is about to insert, the device still keeps, each in one  *)
(* place (Kept); and whatever signed key is offered, about to be offered   *)
(* or about to be handed out is kept until its grace is over (Signs).      *)

KeyRow  == [id : 1..MaxKeys, serial : 1..MaxKeys]
SignRow == [made : 0..MaxDay]
Upload  == [keys : SUBSET KeyRow, step : {"insert", "trim"}, awaited : BOOLEAN]
KeyAsk  == [step : {"none", "list", "take"}, consume : BOOLEAN, signed : SignRow \cup {prekeys!NoSign}]
Letter  == [one : KeyRow \cup {prekeys!NoKey}, signed : SignRow]

KeyTypes ==
    /\ serial \in 0..MaxKeys /\ own \subseteq KeyRow /\ pool \subseteq KeyRow
    /\ \A j, k \in own : j.id = k.id => j = k
    /\ uploads \subseteq Upload /\ letters \subseteq Letter

SignTypes ==
    /\ day \in 0..MaxDay /\ short \in 0..Batch
    /\ signed \subseteq SignRow /\ offered \in SignRow
    /\ stage \in {"idle", "make", "uploading", "signed", "publishing", "prune"}
    /\ renewal \in SignRow \cup {prekeys!NoSign} /\ asked \in 0..MaxAsks
    /\ ask \in [Asks -> KeyAsk]

Coming(u) == u.step = "insert"

Kept ==
    /\ IsFiniteSet(own) /\ \A k \in own : k.id <= serial
    /\ pool \subseteq own
    /\ \A u \in uploads : Coming(u) => u.keys \subseteq own \ pool
    /\ \A u, v \in uploads : Coming(u) /\ Coming(v) /\ u # v => u.keys \cap v.keys = {}
    /\ \A l \in letters : /\ l.one \in (own \ pool) \cup {prekeys!NoKey}
                          /\ \A u \in uploads : Coming(u) => l.one \notin u.keys
    /\ \A l, m \in letters : l.one = m.one => l = m \/ l.one = prekeys!NoKey

\* s is kept, or its grace is over.
Opens(s) == s \in signed \/ day - s.made >= Grace

Signs ==
    /\ offered \in signed /\ \A s \in signed : s.made <= day
    /\ renewal # prekeys!NoSign => renewal = [made |-> day] /\ renewal \in signed
    /\ stage = "prune" => renewal = prekeys!NoSign /\ offered = [made |-> day]
    /\ \A l \in letters : Opens(l.signed)
    /\ \A r \in Asks : ask[r].step = "take" => ask[r].signed \in SignRow /\ Opens(ask[r].signed)

PrekeyInv == KeyTypes /\ SignTypes /\ Kept /\ Signs

LEMMA PrekeyTypes == KeyTypes /\ SignTypes <=> prekeys!TypeOK
BY DEF KeyTypes, SignTypes, prekeys!TypeOK, KeyRow, SignRow, Upload, KeyAsk, Letter

LEMMA NoKeyHere == prekeys!NoKey \notin KeyRow /\ prekeys!NoSign \notin SignRow
BY PeopleAssumption DEF prekeys!NoKey, prekeys!NoSign, KeyRow, SignRow

\* The lowest key of those there are is one of them.
LEMMA LowestIsOne ==
    ASSUME KeyTypes
    PROVE  prekeys!Lowest(pool) \in pool \cup {prekeys!NoKey}
<1> SUFFICES ASSUME pool # {} PROVE prekeys!Lowest(pool) \in pool
  BY DEF prekeys!Lowest
<1>1. \A k \in pool : k.id \in Nat
  BY PeopleAssumption DEF KeyTypes, KeyRow
<1>2. PICK k \in pool : \A j \in pool : k.id <= j.id
  <2> DEFINE B == {k.id : k \in pool}
  <2>1. B \in SUBSET Nat /\ B # {}
    BY <1>1
  <2>2. PICK m \in B : \A n \in B : m <= n
    BY <2>1, LeastNumber
  <2>3. QED
    BY <2>2
<1>3. QED
  BY <1>2 DEF prekeys!Lowest

\* No key's id is above the top one's.
LEMMA TopIsAbove ==
    ASSUME KeyTypes, Kept
    PROVE  /\ prekeys!Top(own).id \in 0..serial
           /\ \A k \in own : k.id <= prekeys!Top(own).id
<1>1. serial \in Nat /\ \A k \in own : k.id \in 1..serial
  BY PeopleAssumption DEF KeyTypes, Kept, KeyRow
<1>2. CASE own = {}
  BY <1>1, <1>2 DEF prekeys!Top, prekeys!NoKey
<1>3. CASE own # {}
  <2>1. PICK k \in own : \A j \in own : j.id <= k.id
    <3> DEFINE B == {serial - k.id : k \in own}
    <3>1. B \in SUBSET Nat /\ B # {}
      BY <1>1, <1>3
    <3>2. PICK m \in B : \A n \in B : m <= n
      BY <3>1, LeastNumber
    <3>3. PICK k \in own : m = serial - k.id
      BY <3>2
    <3>4. ASSUME NEW j \in own PROVE j.id <= k.id
      <4>1. serial - k.id <= serial - j.id
        BY <3>2, <3>3
      <4>2. QED
        BY <1>1, <4>1
    <3>5. QED
      BY <3>4
  <2>2. prekeys!Top(own) \in own /\ \A j \in own : j.id <= prekeys!Top(own).id
    BY <1>3, <2>1 DEF prekeys!Top
  <2>3. QED
    BY <1>1, <2>2
<1>4. QED
  BY <1>2, <1>3

LEMMA PrekeyInitial == prekeys!Init => PrekeyInv
<1> SUFFICES ASSUME prekeys!Init PROVE PrekeyInv
  OBVIOUS
<1> USE PeopleAssumption
<1>1. /\ day = 0 /\ serial = Batch /\ short = 0 /\ stage = "idle"
      /\ own = {[id |-> i, serial |-> i] : i \in 1..Batch} /\ pool = own
      /\ signed = {[made |-> 0]} /\ offered = [made |-> 0]
      /\ uploads = {} /\ renewal = prekeys!NoSign
      /\ ask = [r \in Asks |-> prekeys!NoAsk] /\ asked = 0 /\ letters = {}
  BY DEF prekeys!Init
<1>2. own \subseteq KeyRow /\ \A k \in own : k.id \in 1..Batch /\ k = [id |-> k.id, serial |-> k.id]
  BY <1>1 DEF KeyRow
<1>3. KeyTypes
  BY <1>1, <1>2 DEF KeyTypes
<1>4. [made |-> 0] \in SignRow /\ prekeys!NoAsk \in KeyAsk /\ prekeys!NoAsk.step = "none"
  BY DEF SignRow, prekeys!NoAsk, KeyAsk
<1>5. SignTypes
  BY <1>1, <1>4 DEF SignTypes
<1>6. Kept
  <2> DEFINE f == [i \in 1..Batch |-> [id |-> i, serial |-> i]]
  <2>1. own = {f[i] : i \in 1..Batch}
    BY <1>1
  <2>2. f \in Surjection(1..Batch, own)
    BY <2>1 DEF Surjection
  <2>3. IsFiniteSet(1..Batch)
    BY FS_Interval
  <2> HIDE DEF f
  <2>4. IsFiniteSet(own)
    BY <2>2, <2>3, FS_Surjection
  <2>5. QED
    BY <1>1, <1>2, <2>4 DEF Kept
<1>7. Signs
  BY <1>1, <1>4 DEF Signs
<1>8. QED
  BY <1>3, <1>5, <1>6, <1>7 DEF PrekeyInv

\* The keys stay where they are.
LEMMA KeysStay ==
    ASSUME KeyTypes, Kept, UNCHANGED <<own, serial, pool, uploads, letters>>
    PROVE  KeyTypes' /\ Kept'
BY DEF KeyTypes, Kept

\* The signed keys, and those who have been told of one, stay what they are.
LEMMA SignsStay ==
    ASSUME Signs, UNCHANGED <<day, signed, offered, letters, ask>>,
           renewal' \in {renewal, prekeys!NoSign}, stage' = "prune" => stage = "prune"
    PROVE  Signs'
BY DEF Signs, Opens

\* Uploads are lost, finished or nobody's any more.
LEMMA UploadsDwindle ==
    ASSUME KeyTypes, Kept, UNCHANGED <<own, serial, letters>>,
           pool' \subseteq pool, uploads' \subseteq Upload,
           \A u \in uploads' : Coming(u) => \E v \in uploads : Coming(v) /\ u.keys = v.keys
                                               /\ (u = v \/ u = [v EXCEPT !.awaited = FALSE]),
           \/ uploads' \subseteq uploads
           \/ \A u \in uploads' : ~ u.awaited
    PROVE  KeyTypes' /\ Kept'
<1>1. KeyTypes'
  BY DEF KeyTypes
<1>2. \A u, v \in uploads' : Coming(u) /\ Coming(v) /\ u # v => u.keys \cap v.keys = {}
  <2>1. CASE uploads' \subseteq uploads
    BY <2>1 DEF Kept
  <2>2. CASE \A u \in uploads' : ~ u.awaited
    <3> SUFFICES ASSUME NEW u \in uploads', NEW v \in uploads', Coming(u), Coming(v), u # v
                 PROVE  u.keys \cap v.keys = {}
      OBVIOUS
    <3>1. PICK x \in uploads : Coming(x) /\ u.keys = x.keys
                                 /\ (u = x \/ u = [x EXCEPT !.awaited = FALSE])
      OBVIOUS
    <3>2. PICK y \in uploads : Coming(y) /\ v.keys = y.keys
                                 /\ (v = y \/ v = [y EXCEPT !.awaited = FALSE])
      OBVIOUS
    <3>3. u \in Upload /\ v \in Upload /\ ~ u.awaited /\ ~ v.awaited
      BY <2>2
    <3>4. u.keys # v.keys
      BY <3>3 DEF Upload, Coming
    <3>5. x # y
      BY <3>1, <3>2, <3>4
    <3>6. QED
      BY <3>1, <3>2, <3>5 DEF Kept
  <2>3. QED
    BY <2>1, <2>2
<1>3. \A u \in uploads' : Coming(u) => u.keys \subseteq own \ pool'
                                        /\ \A l \in letters : l.one \notin u.keys
  BY DEF Kept
<1>4. \A l \in letters : l.one \in (own \ pool') \cup {prekeys!NoKey}
  BY DEF Kept
<1>5. QED
  BY <1>1, <1>2, <1>3, <1>4 DEF Kept

\* maintainPreKeys: what is made is new to the keystore, the server and the uploads.
LEMMA PrekeyMade ==
    ASSUME PrekeyInv, prekeys!Make
    PROVE  PrekeyInv'
<1> USE PeopleAssumption
<1> DEFINE start == prekeys!Top(own).id
           New == {[id |-> start + i, serial |-> serial + i] : i \in 1..short}
<1>0. KeyTypes /\ SignTypes /\ Kept /\ Signs
  BY DEF PrekeyInv
<1>1. start \in 0..serial /\ \A k \in own : k.id <= start
  BY <1>0, TopIsAbove
<1>2. /\ own' = prekeys!Store(own, New) /\ serial' = serial + short /\ serial + short <= MaxKeys
      /\ uploads' = uploads \cup {[keys |-> New, step |-> "insert", awaited |-> TRUE]}
      /\ stage' = "uploading" /\ short' = 0
      /\ UNCHANGED <<day, signed, pool, offered, renewal, ask, asked, letters>>
  BY DEF prekeys!Make, prekeys!MakeFrom, prekeys!demand
<1>3. serial \in Nat /\ short \in Nat
  BY <1>0 DEF KeyTypes, SignTypes
<1> HIDE DEF start
<1>4. /\ \A k \in New : k \in KeyRow /\ k.id > start /\ k.id <= serial + short
      /\ \A j, k \in New : j.id = k.id => j = k
  BY <1>1, <1>2, <1>3 DEF KeyRow
<1>5. IsFiniteSet(New)
  <2> DEFINE f == [i \in 1..short |-> [id |-> start + i, serial |-> serial + i]]
  <2>1. New = {f[i] : i \in 1..short}
    OBVIOUS
  <2>2. f \in Surjection(1..short, New)
    BY <2>1 DEF Surjection
  <2>3. IsFiniteSet(1..short)
    BY <1>3, FS_Interval
  <2> HIDE DEF f, New
  <2>4. QED
    BY <2>2, <2>3, FS_Surjection
<1>6. PICK N : N = New
  OBVIOUS
<1> HIDE DEF New
<1>7. /\ N \subseteq KeyRow /\ IsFiniteSet(N) /\ N \cap own = {}
      /\ \A k \in N : k.id > start /\ k.id <= serial + short
      /\ \A j, k \in N : j.id = k.id => j = k
  <2>1. \A k \in N : k \notin own
    <3>1. \A k \in N : k.id > start /\ k.id \in Nat
      BY <1>4, <1>6 DEF KeyRow
    <3>2. start \in Nat
      BY <1>1, <1>3
    <3>3. QED
      BY <1>1, <3>1, <3>2
  <2>2. QED
    BY <1>4, <1>5, <1>6, <2>1
<1>8. \A k \in own : k.id \in Nat /\ k.id <= start /\ start \in Nat
  BY <1>0, <1>1, <1>3 DEF KeyTypes, KeyRow
<1>9. own' = own \cup N
  <2>1. \A k \in own, n \in N : n.id # k.id
    BY <1>7, <1>8 DEF KeyRow
  <2>2. QED
    BY <1>2, <1>6, <2>1 DEF prekeys!Store
<1>10. KeyTypes'
  <2>1. \A j, k \in own' : j.id = k.id => j = k
    <3>1. \A k \in own, n \in N : n.id # k.id
      BY <1>7, <1>8 DEF KeyRow
    <3>2. QED
      BY <1>0, <1>7, <1>9, <3>1 DEF KeyTypes
  <2>2. [keys |-> N, step |-> "insert", awaited |-> TRUE] \in Upload
    BY <1>7 DEF Upload
  <2>3. serial' \in 0..MaxKeys
    BY <1>0, <1>2, <1>3 DEF KeyTypes
  <2>4. own' \subseteq KeyRow /\ pool' \subseteq KeyRow
    BY <1>0, <1>2, <1>7, <1>9 DEF KeyTypes
  <2>5. uploads' \subseteq Upload /\ letters' \subseteq Letter
    BY <1>0, <1>2, <1>6, <2>2 DEF KeyTypes
  <2>6. QED
    BY <2>1, <2>3, <2>4, <2>5 DEF KeyTypes
<1>11. Kept'
  <2>1. IsFiniteSet(own')
    BY <1>0, <1>7, <1>9, FS_Union DEF Kept
  <2>2. \A k \in own' : k.id <= serial'
    BY <1>0, <1>2, <1>3, <1>7, <1>8, <1>9 DEF Kept
  <2>3. PICK w : w = [keys |-> N, step |-> "insert", awaited |-> TRUE]
    OBVIOUS
  <2>4. uploads' = uploads \cup {w} /\ w.keys = N
    BY <1>2, <1>6, <2>3
  <2>5. \A u \in uploads : Coming(u) => u.keys \subseteq own
    BY <1>0 DEF Kept
  <2>6. \A l \in letters : l.one \notin N
    BY <1>0, <1>7, NoKeyHere DEF Kept
  <2>7. \A u \in uploads' : Coming(u) => u.keys \subseteq own' \ pool'
    BY <1>0, <1>2, <1>7, <1>9, <2>4 DEF Kept
  <2>8. \A u, v \in uploads' : Coming(u) /\ Coming(v) /\ u # v => u.keys \cap v.keys = {}
    BY <1>0, <1>7, <2>4, <2>5 DEF Kept
  <2>9. QED
    BY <1>0, <1>2, <1>9, <2>1, <2>2, <2>4, <2>6, <2>7, <2>8 DEF Kept
<1>12. SignTypes'
  BY <1>0, <1>2 DEF SignTypes
<1>13. Signs'
  BY <1>0, <1>2, SignsStay
<1>14. QED
  BY <1>10, <1>11, <1>12, <1>13 DEF PrekeyInv

\* A letter is opened with the one-time key kept for it alone.
LEMMA PrekeyOpened ==
    ASSUME PrekeyInv, NEW l \in letters, prekeys!Open(l)
    PROVE  PrekeyInv'
<1>0. KeyTypes /\ SignTypes /\ Kept /\ Signs
  BY DEF PrekeyInv
<1>1. /\ own' = own \ {l.one} /\ letters' = letters \ {l}
      /\ UNCHANGED <<day, signed, stage, short, serial, pool, offered, uploads, renewal, ask, asked>>
  BY DEF prekeys!Open, prekeys!server
<1>2. KeyTypes'
  BY <1>0, <1>1 DEF KeyTypes
<1>3. Kept'
  <2>1. IsFiniteSet(own')
    BY <1>0, <1>1, FS_Subset DEF Kept
  <2>2. l.one \notin pool
    BY <1>0, NoKeyHere DEF Kept, KeyTypes
  <2>3. \A m \in letters' : m.one \in (own' \ pool) \cup {prekeys!NoKey}
    BY <1>0, <1>1 DEF Kept
  <2>4. \A u \in uploads : Coming(u) => u.keys \subseteq own' \ pool
    BY <1>0, <1>1 DEF Kept
  <2>5. pool \subseteq own' /\ \A k \in own' : k.id <= serial
    BY <1>0, <1>1, <2>2 DEF Kept
  <2>6. QED
    BY <1>0, <1>1, <2>1, <2>3, <2>4, <2>5 DEF Kept
<1>4. SignTypes' /\ Signs'
  BY <1>0, <1>1 DEF SignTypes, Signs, Opens
<1>5. QED
  BY <1>2, <1>3, <1>4 DEF PrekeyInv

\* storeOneTimePreKeys: the keys of an upload come into the pool.
LEMMA PrekeyInserted ==
    ASSUME PrekeyInv, NEW u \in uploads, prekeys!InsertKeys(u)
    PROVE  PrekeyInv'
<1>0. KeyTypes /\ SignTypes /\ Kept /\ Signs
  BY DEF PrekeyInv
<1> DEFINE t == [u EXCEPT !.step = "trim"]
<1>1. /\ Coming(u) /\ uploads' = (uploads \ {u}) \cup {t}
      /\ pool' = pool \cup {k \in u.keys : \A p \in pool : p.id # k.id}
      /\ UNCHANGED <<day, own, signed, stage, short, serial, offered, renewal, ask, asked, letters>>
  BY DEF prekeys!InsertKeys, prekeys!device, prekeys!demand, Coming
<1>2. u \in Upload /\ t \in Upload /\ ~ Coming(t)
  BY <1>0 DEF KeyTypes, Upload, Coming
<1> HIDE DEF t
<1>3. u.keys \subseteq own \ pool /\ u.keys \subseteq KeyRow
  BY <1>0, <1>1, <1>2 DEF Kept, Upload
<1>4. KeyTypes'
  BY <1>0, <1>1, <1>2, <1>3 DEF KeyTypes
<1>5. Kept'
  <2>1. pool' \subseteq own' /\ pool' \subseteq pool \cup u.keys
    BY <1>0, <1>1, <1>3 DEF Kept
  <2>2. \A v \in uploads' : Coming(v) => /\ v \in uploads /\ v # u
                                         /\ v.keys \cap u.keys = {}
    BY <1>0, <1>1, <1>2 DEF Kept
  <2>3. \A l \in letters : l.one \in (own' \ pool') \cup {prekeys!NoKey}
    BY <1>0, <1>1, <2>1 DEF Kept
  <2>4. \A v \in uploads' : Coming(v) => v.keys \subseteq own' \ pool'
    BY <1>0, <1>1, <2>1, <2>2 DEF Kept
  <2>5. QED
    BY <1>0, <1>1, <2>1, <2>2, <2>3, <2>4 DEF Kept
<1>6. SignTypes'
  BY <1>0, <1>1 DEF SignTypes
<1>7. Signs'
  BY <1>0, <1>1, SignsStay
<1>8. QED
  BY <1>4, <1>5, <1>6, <1>7 DEF PrekeyInv

\* The bundle is handed out, with a one-time key if there is one and it may be had.
LEMMA PrekeyTaken ==
    ASSUME PrekeyInv, NEW r \in Asks, prekeys!Take(r)
    PROVE  PrekeyInv'
<1>0. KeyTypes /\ SignTypes /\ Kept /\ Signs
  BY DEF PrekeyInv
<1>1. PICK one \in pool \cup {prekeys!NoKey} :
         /\ ask[r].step = "take" /\ pool' = pool \ {one}
         /\ letters' = letters \cup {[one |-> one, signed |-> ask[r].signed]}
         /\ ask' = [ask EXCEPT ![r] = prekeys!NoAsk]
  BY <1>0, LowestIsOne DEF prekeys!Take, prekeys!Hand
<1>2. UNCHANGED <<day, own, signed, stage, short, serial, offered, uploads, renewal, asked>>
  BY DEF prekeys!Take, prekeys!device
<1>3. ask[r].signed \in SignRow /\ Opens(ask[r].signed)
  BY <1>0, <1>1 DEF Signs
<1>4. PICK l : l = [one |-> one, signed |-> ask[r].signed]
  OBVIOUS
<1>5. /\ letters' = letters \cup {l} /\ l.one = one /\ l.signed = ask[r].signed
      /\ l \in Letter
  BY <1>0, <1>1, <1>3, <1>4 DEF Letter, KeyTypes
<1>6. prekeys!NoAsk \in KeyAsk /\ prekeys!NoAsk.step = "none"
  BY DEF prekeys!NoAsk, KeyAsk
<1>7. KeyTypes'
  BY <1>0, <1>1, <1>2, <1>5 DEF KeyTypes
<1>8. Kept'
  <2>1. one \in (own \ pool') \cup {prekeys!NoKey} /\ pool' \subseteq pool
    BY <1>0, <1>1 DEF Kept
  <2>2. \A m \in letters : m.one = one => m.one = prekeys!NoKey
    BY <1>0, <1>1 DEF Kept
  <2>3. \A u \in uploads : Coming(u) => one \notin u.keys
    BY <1>0, <1>1, NoKeyHere DEF Kept, KeyTypes, Upload
  <2>4. \A m \in letters' : m.one \in (own \ pool') \cup {prekeys!NoKey}
    BY <1>0, <1>5, <2>1 DEF Kept
  <2>5. \A m, n \in letters' : m.one = n.one => m = n \/ m.one = prekeys!NoKey
    BY <1>0, <1>5, <2>2 DEF Kept
  <2>6. QED
    BY <1>0, <1>1, <1>2, <1>5, <2>1, <2>3, <2>4, <2>5 DEF Kept
<1>9. SignTypes'
  BY <1>0, <1>1, <1>2, <1>6 DEF SignTypes
<1>10. Signs'
  <2>1. \A q \in Asks : ask'[q].step = "take" => ask'[q] = ask[q]
    BY <1>0, <1>1, <1>6 DEF SignTypes
  <2>2. QED
    BY <1>0, <1>2, <1>3, <1>5, <2>1 DEF Signs, Opens
<1>11. QED
  BY <1>7, <1>8, <1>9, <1>10 DEF PrekeyInv

LEMMA PrekeyStep == PrekeyInv /\ [prekeys!Next]_(prekeys!vars) => PrekeyInv'
<1> SUFFICES ASSUME PrekeyInv, [prekeys!Next]_(prekeys!vars) PROVE PrekeyInv'
  OBVIOUS
<1> USE PeopleAssumption
<1>0. KeyTypes /\ SignTypes /\ Kept /\ Signs
  BY DEF PrekeyInv
<1>a. day \in 0..MaxDay /\ day \in Nat /\ \A r \in Asks : ask[r] \in KeyAsk
  BY <1>0 DEF SignTypes
<1>1. CASE prekeys!Count
  <2>1. /\ stage = "idle" /\ stage' \in {"make", "signed"}
        /\ short' = 0 \/ (Cardinality(pool) <= LowWater /\ short' = Batch - Cardinality(pool))
        /\ UNCHANGED <<day, own, signed, serial, pool, offered, uploads, renewal, ask, asked, letters>>
    <3>1. prekeys!Cardinality(pool) = Cardinality(pool)
      BY TheCardinality
    <3>2. /\ stage = "idle"
          /\ UNCHANGED <<day, own, signed, serial, pool, offered, uploads, renewal, ask, asked, letters>>
      BY <1>1 DEF prekeys!Count, prekeys!server, prekeys!demand
    <3>3. IF Cardinality(pool) <= LowWater
          THEN stage' = "make" /\ short' = Batch - Cardinality(pool)
          ELSE stage' = "signed" /\ short' = 0
      BY <1>1, <3>1 DEF prekeys!Count
    <3>4. QED
      BY <3>2, <3>3
  <2>2. Cardinality(pool) \in Nat
    BY <1>0, FS_Subset, FS_CardinalityType DEF Kept
  <2>3. SignTypes'
    BY <1>0, <2>1, <2>2 DEF SignTypes
  <2>4. KeyTypes' /\ Kept' /\ Signs'
    BY <1>0, <2>1, KeysStay, SignsStay
  <2>5. QED
    BY <2>3, <2>4 DEF PrekeyInv
<1>2. CASE prekeys!Make
  BY <1>2, PrekeyMade
<1>3. CASE prekeys!UploadFails \/ prekeys!Kill
  <2>1. /\ stage' = "idle" /\ short' \in {short, 0}
        /\ UNCHANGED <<day, own, signed, serial, pool, offered, renewal, ask, asked, letters>>
        /\ \/ uploads' = {[u EXCEPT !.awaited = FALSE] : u \in uploads}
           \/ uploads' \subseteq uploads
    BY <1>3 DEF prekeys!UploadFails, prekeys!Kill, prekeys!demand
  <2>2. \A u \in uploads : /\ u \in Upload /\ [u EXCEPT !.awaited = FALSE] \in Upload
                           /\ ~ [u EXCEPT !.awaited = FALSE].awaited
                           /\ [u EXCEPT !.awaited = FALSE].keys = u.keys
                           /\ [u EXCEPT !.awaited = FALSE].step = u.step
    BY <1>0 DEF KeyTypes, Upload
  <2>3. /\ uploads' \subseteq Upload /\ pool' \subseteq pool
        /\ \A u \in uploads' : Coming(u) => \E v \in uploads : Coming(v) /\ u.keys = v.keys
                                               /\ (u = v \/ u = [v EXCEPT !.awaited = FALSE])
        /\ uploads' \subseteq uploads \/ \A u \in uploads' : ~ u.awaited
    <3>1. CASE uploads' \subseteq uploads
      BY <2>1, <2>2, <3>1
    <3>2. CASE uploads' = {[u EXCEPT !.awaited = FALSE] : u \in uploads}
      BY <2>1, <2>2, <3>2 DEF Coming
    <3>3. QED
      BY <2>1, <3>1, <3>2
  <2>4. KeyTypes' /\ Kept'
    BY <1>0, <2>1, <2>3, UploadsDwindle
  <2>5. SignTypes' /\ Signs'
    BY <1>0, <2>1, SignsStay DEF SignTypes
  <2>6. QED
    BY <2>4, <2>5 DEF PrekeyInv
<1>4. CASE prekeys!Rotate
  <2>1. /\ stage = "signed" /\ stage' \in {"publishing", "idle"}
        /\ \/ signed' = signed \cup {[made |-> day]} /\ renewal' = [made |-> day]
           \/ UNCHANGED <<signed, renewal>>
        /\ UNCHANGED <<day, own, short, serial, pool, offered, uploads, ask, asked, letters>>
    BY <1>4 DEF prekeys!Rotate, prekeys!demand
  <2>2. [made |-> day] \in SignRow
    BY <1>a DEF SignRow
  <2>3. SignTypes'
    BY <1>0, <2>1, <2>2 DEF SignTypes
  <2>4. Signs'
    BY <1>0, <1>a, <2>1, <2>2 DEF Signs, Opens, SignTypes, SignRow
  <2>5. KeyTypes' /\ Kept'
    BY <1>0, <2>1, KeysStay
  <2>6. QED
    BY <2>3, <2>4, <2>5 DEF PrekeyInv
<1>5. CASE prekeys!RotateFails
  <2>1. /\ stage' = "idle" /\ renewal' \in {renewal, prekeys!NoSign}
        /\ UNCHANGED <<day, own, signed, short, serial, pool, offered, uploads, ask, asked, letters>>
    BY <1>5 DEF prekeys!RotateFails, prekeys!demand
  <2>2. SignTypes'
    BY <1>0, <2>1 DEF SignTypes
  <2>3. KeyTypes' /\ Kept' /\ Signs'
    BY <1>0, <2>1, KeysStay, SignsStay
  <2>4. QED
    BY <2>2, <2>3 DEF PrekeyInv
<1>6. CASE prekeys!Prune
  <2>1. /\ stage = "prune" /\ stage' = "idle"
        /\ signed' = {s \in signed : s = prekeys!Newest(signed) \/ day - s.made < Grace}
        /\ UNCHANGED <<day, own, short, serial, pool, offered, uploads, renewal, ask, asked, letters>>
    BY <1>6 DEF prekeys!Prune, prekeys!server, prekeys!demand
  <2>2. offered = [made |-> day] /\ renewal = prekeys!NoSign /\ offered \in signed
    BY <1>0, <2>1 DEF Signs
  <2>3. \A s \in signed : s \in SignRow /\ s.made \in Nat /\ s.made <= day
    BY <1>0 DEF Signs, SignTypes, SignRow
  <2>4. prekeys!Newest(signed) = offered
    <3>1. \A s \in signed : s.made <= offered.made /\ offered.made = day
      BY <2>2, <2>3
    <3>2. PICK n : n = prekeys!Newest(signed)
      OBVIOUS
    <3>3. n \in signed /\ \A s \in signed : s.made <= n.made
      BY <2>2, <3>1, <3>2 DEF prekeys!Newest
    <3>4. n.made = day
      BY <1>a, <2>2, <2>3, <3>1, <3>3
    <3>5. QED
      BY <2>2, <2>3, <3>2, <3>3, <3>4 DEF SignRow
  <2>5. offered \in signed'
    BY <2>1, <2>2, <2>4
  <2>6. ASSUME NEW s \in SignRow, Opens(s) PROVE s \in signed' \/ day - s.made >= Grace
    <3>1. s.made \in Nat
      BY DEF SignRow
    <3>2. QED
      BY <1>a, <2>1, <2>6, <3>1 DEF Opens
  <2>7. Signs'
    <3>1. \A l \in letters : l.signed \in SignRow
      BY <1>0 DEF KeyTypes, Letter
    <3>2. QED
      BY <1>0, <2>1, <2>2, <2>3, <2>5, <2>6, <3>1 DEF Signs, Opens
  <2>8. SignTypes'
    BY <1>0, <2>1 DEF SignTypes
  <2>9. KeyTypes' /\ Kept'
    BY <1>0, <2>1, KeysStay
  <2>10. QED
    BY <2>7, <2>8, <2>9 DEF PrekeyInv
<1>7. ASSUME NEW l \in letters, prekeys!Open(l) PROVE PrekeyInv'
  BY <1>7, PrekeyOpened
<1>8. ASSUME NEW u \in uploads, prekeys!InsertKeys(u) PROVE PrekeyInv'
  BY <1>8, PrekeyInserted
<1>9. ASSUME NEW u \in uploads, prekeys!TrimKeys(u) PROVE PrekeyInv'
  <2>1. /\ pool' \subseteq pool /\ uploads' = uploads \ {u} /\ stage' \in {"signed", stage}
        /\ UNCHANGED <<day, own, signed, short, serial, offered, renewal, ask, asked, letters>>
    BY <1>9 DEF prekeys!TrimKeys, prekeys!demand
  <2>2. /\ uploads' \subseteq Upload /\ uploads' \subseteq uploads
        /\ \A v \in uploads' : Coming(v) => \E w \in uploads : Coming(w) /\ v.keys = w.keys
                                               /\ (v = w \/ v = [w EXCEPT !.awaited = FALSE])
    BY <1>0, <2>1 DEF KeyTypes
  <2>3. KeyTypes' /\ Kept'
    BY <1>0, <2>1, <2>2, UploadsDwindle
  <2>4. SignTypes' /\ Signs'
    BY <1>0, <2>1, SignsStay DEF SignTypes
  <2>5. QED
    BY <2>3, <2>4 DEF PrekeyInv
<1>10. CASE prekeys!RotateRow
  <2>1. /\ renewal # prekeys!NoSign /\ offered' = renewal /\ renewal' = prekeys!NoSign
        /\ stage' = IF stage = "publishing" THEN "prune" ELSE stage
        /\ UNCHANGED <<day, own, signed, short, serial, pool, uploads, ask, asked, letters>>
    BY <1>10 DEF prekeys!RotateRow, prekeys!demand
  <2>2. SignTypes'
    BY <1>0, <2>1 DEF SignTypes
  <2>3. Signs'
    BY <1>0, <2>1 DEF Signs, Opens
  <2>4. KeyTypes' /\ Kept'
    BY <1>0, <2>1, KeysStay
  <2>5. QED
    BY <2>2, <2>3, <2>4 DEF PrekeyInv
<1>11. ASSUME NEW r \in Asks, NEW isBlocked \in BOOLEAN, prekeys!Ask(r, isBlocked) PROVE PrekeyInv'
  <2> DEFINE q == [prekeys!NoAsk EXCEPT !.step = "list", !.consume = ~ isBlocked]
  <2>1. q \in KeyAsk /\ q.step = "list"
    BY DEF prekeys!NoAsk, KeyAsk
  <2>2. /\ asked < MaxAsks /\ asked' = asked + 1 /\ ask' = [ask EXCEPT ![r] = q]
        /\ UNCHANGED <<day, own, signed, stage, short, serial, pool, offered, uploads, renewal, letters>>
    BY <1>11 DEF prekeys!Ask, prekeys!device, prekeys!server
  <2> HIDE DEF q
  <2>3. SignTypes'
    BY <1>0, <2>1, <2>2 DEF SignTypes
  <2>4. \A s \in Asks : ask'[s].step = "take" => ask'[s] = ask[s]
    BY <1>0, <2>1, <2>2 DEF SignTypes
  <2>5. Signs'
    BY <1>0, <2>2, <2>4 DEF Signs, Opens
  <2>6. KeyTypes' /\ Kept'
    BY <1>0, <2>2, KeysStay
  <2>7. QED
    BY <2>3, <2>5, <2>6 DEF PrekeyInv
<1>12. ASSUME NEW r \in Asks, prekeys!List(r) PROVE PrekeyInv'
  <2> DEFINE q == [ask[r] EXCEPT !.step = "take", !.signed = offered]
  <2>1. q \in KeyAsk /\ q.signed = offered /\ offered \in SignRow
    BY <1>0, <1>a DEF KeyAsk, SignTypes
  <2>2. /\ ask' = [ask EXCEPT ![r] = q]
        /\ UNCHANGED <<day, own, signed, stage, short, serial, pool, offered, uploads, renewal, asked,
                       letters>>
    BY <1>12 DEF prekeys!List, prekeys!device, prekeys!server
  <2> HIDE DEF q
  <2>3. SignTypes'
    BY <1>0, <2>1, <2>2 DEF SignTypes
  <2>4. \A s \in Asks : ask'[s] = ask[s] \/ ask'[s].signed = offered
    BY <1>0, <2>1, <2>2 DEF SignTypes
  <2>5. Signs'
    BY <1>0, <2>1, <2>2, <2>4 DEF Signs, Opens
  <2>6. KeyTypes' /\ Kept'
    BY <1>0, <2>2, KeysStay
  <2>7. QED
    BY <2>3, <2>5, <2>6 DEF PrekeyInv
<1>13. ASSUME NEW r \in Asks, prekeys!Take(r) PROVE PrekeyInv'
  BY <1>13, PrekeyTaken
<1>14. CASE prekeys!Tick
  <2>1. /\ day < MaxDay /\ renewal = prekeys!NoSign /\ day' = day + 1 /\ stage' = "idle" /\ short' = 0
        /\ UNCHANGED <<own, signed, serial, pool, offered, uploads, renewal, ask, asked, letters>>
    BY <1>14 DEF prekeys!Tick, prekeys!server, prekeys!demand
  <2>2. SignTypes'
    BY <1>0, <1>a, <2>1 DEF SignTypes
  <2>3. ASSUME NEW s \in SignRow, Opens(s) PROVE s \in signed' \/ day' - s.made >= Grace
    <3>1. s.made \in Nat
      BY DEF SignRow
    <3>2. QED
      BY <1>a, <2>1, <2>3, <3>1 DEF Opens
  <2>4. Signs'
    <3>1. /\ \A l \in letters : l.signed \in SignRow
          /\ \A s \in signed : s.made \in Nat
      BY <1>0 DEF KeyTypes, Letter, SignTypes, SignRow
    <3>2. \A s \in signed' : s.made <= day'
      BY <1>0, <1>a, <2>1, <3>1 DEF Signs
    <3>3. QED
      BY <1>0, <2>1, <2>3, <3>1, <3>2 DEF Signs, Opens
  <2>5. KeyTypes' /\ Kept'
    BY <1>0, <2>1, KeysStay
  <2>6. QED
    BY <2>2, <2>4, <2>5 DEF PrekeyInv
<1>15. CASE UNCHANGED prekeys!vars
  <2>1. UNCHANGED <<day, own, signed, stage, short, serial, pool, offered, uploads, renewal, ask,
                    asked, letters>>
    BY <1>15 DEF prekeys!vars
  <2>2. KeyTypes' /\ Kept' /\ SignTypes' /\ Signs'
    BY <1>0, <2>1, KeysStay, SignsStay DEF SignTypes
  <2>3. QED
    BY <2>2 DEF PrekeyInv
<1>16. QED
  BY <1>1, <1>2, <1>3, <1>4, <1>5, <1>6, <1>7, <1>8, <1>9, <1>10, <1>11, <1>12, <1>13, <1>14, <1>15
     DEF prekeys!Next

\* What the runs check of the prekeys.
LEMMA PrekeyKeeps == PrekeyInv => prekeys!BundlesOpen /\ prekeys!TypeOK
<1>1. PrekeyInv => prekeys!TypeOK
  BY PrekeyTypes DEF PrekeyInv
<1>2. PrekeyInv => prekeys!BundlesOpen
  BY DEF PrekeyInv, Kept, Signs, Opens, prekeys!BundlesOpen
<1>3. QED
  BY <1>1, <1>2
-----------------------------------------------------------------------------
(* Types.  What a counter has come to has been asked for: with every       *)
(* request under way that will still count one up, it is no more than the  *)
(* requests there have been.                                               *)

\* n has been counted up at most once for each of the m requests that W are not of.
Within(n, W, m) == n \in Nat /\ IsFiniteSet(W) /\ n + Cardinality(W) <= m

LEMMA WithinGoesOn ==
    ASSUME NEW n, NEW W, NEW m \in Nat, Within(n, W, m), NEW k, NEW V, NEW l, NEW r,
           \/ k = n /\ l = m + 1 /\ V \subseteq W \cup {r}
           \/ k = n + 1 /\ l = m /\ r \in W /\ V \subseteq W \ {r}
           \/ k = n /\ l = m /\ V \subseteq W
    PROVE  Within(k, V, l) /\ k <= l
<1>1. /\ n \in Nat /\ IsFiniteSet(W) /\ n + Cardinality(W) <= m /\ Cardinality(W) \in Nat
      /\ IsFiniteSet(W \cup {r}) /\ IsFiniteSet(W \ {r})
      /\ Cardinality(W \cup {r}) \in {Cardinality(W), Cardinality(W) + 1}
      /\ r \in W => Cardinality(W \ {r}) = Cardinality(W) - 1
  BY FS_CardinalityType, FS_AddElement, FS_RemoveElement DEF Within
<1>2. CASE k = n /\ l = m + 1 /\ V \subseteq W \cup {r}
  <2>1. IsFiniteSet(V) /\ Cardinality(V) <= Cardinality(W \cup {r}) /\ Cardinality(V) \in Nat
    BY <1>1, <1>2, FS_Subset, FS_CardinalityType
  <2>2. QED
    BY <1>1, <1>2, <2>1 DEF Within
<1>3. CASE k = n + 1 /\ l = m /\ r \in W /\ V \subseteq W \ {r}
  <2>1. IsFiniteSet(V) /\ Cardinality(V) <= Cardinality(W \ {r}) /\ Cardinality(V) \in Nat
    BY <1>1, <1>3, FS_Subset, FS_CardinalityType
  <2>2. QED
    BY <1>1, <1>3, <2>1 DEF Within
<1>4. CASE k = n /\ l = m /\ V \subseteq W
  <2>1. IsFiniteSet(V) /\ Cardinality(V) <= Cardinality(W) /\ Cardinality(V) \in Nat
    BY <1>1, <1>4, FS_Subset, FS_CardinalityType
  <2>2. QED
    BY <1>1, <1>4, <2>1 DEF Within
<1>5. QED
  BY <1>2, <1>3, <1>4

LEMMA WithinAtFirst == Within(0, {}, 0)
BY FS_EmptySet DEF Within

\* The group's link.
Rotating == {r \in Requests : gReq[r].op = "rotate"}

GroupCounts == gMade \in 0..GroupRequests /\ Within(code, Rotating, gMade)

LEMMA GroupCountsFirst == groups!Init => GroupCounts
<1> SUFFICES ASSUME groups!Init PROVE GroupCounts
  OBVIOUS
<1>1. gMade = 0 /\ code = 0 /\ Rotating = {}
  BY GroupIdle DEF groups!Init, Rotating
<1>2. QED
  BY <1>1, WithinAtFirst, PeopleAssumption DEF GroupCounts

LEMMA GroupCountsGoOn ==
    ASSUME GroupTypes, GroupCounts, [groups!Next]_(groups!vars) PROVE GroupCounts'
<1>0. gMade \in Nat /\ gMade \in 0..GroupRequests
  BY PeopleAssumption DEF GroupCounts
<1>1. ASSUME NEW r \in Requests, groups!Checked(r) PROVE GroupCounts'
  <2>1. PICK op, a, w, to : groups!Begin(r, op, a, w, to)
    BY <1>1 DEF groups!Checked, groups!Join, groups!AskForKey, groups!Acknowledge, groups!Rotate,
                groups!DeleteGroup, groups!Add, groups!Remove, groups!SetRole
  <2>2. /\ gMade < GroupRequests /\ gMade' = gMade + 1 /\ code' = code
        /\ \A q \in Requests \ {r} : gReq'[q] = gReq[q]
    BY <2>1 DEF groups!Begin, GroupTypes
  <2>3. Rotating' \subseteq Rotating \cup {r}
    BY <2>2 DEF Rotating
  <2>4. gMade' \in 0..GroupRequests
    BY <1>0, <2>2, PeopleAssumption
  <2>5. Within(code', Rotating', gMade')
    BY <1>0, <2>2, <2>3, WithinGoesOn DEF GroupCounts
  <2>6. QED
    BY <2>4, <2>5 DEF GroupCounts
<1>2. ASSUME NEW r \in Requests, groups!Continues(r) PROVE GroupCounts'
  <2>1. PICK op \in {"idle", "ask", "clear", "promote"}, S \in SUBSET Requests :
          groups!Proceed(r, op, S)
    <3>1. groups!Running({"role"}) \in SUBSET Requests
      BY DEF groups!Running
    <3>2. QED
      BY <1>2, <3>1
         DEF groups!Continues, groups!AddRow, groups!JoinRow, groups!AskRow, groups!AcknowledgeRow,
             groups!RemoveRow, groups!RemoveClear, groups!RemovePromote, groups!SetRoleRow,
             groups!RotateRow, groups!DeleteGroupRow, groups!Enter
  <2>2. /\ gMade' = gMade
        /\ code' = code \/ (gReq[r].op = "rotate" /\ code' = code + 1)
    BY <1>2
       DEF groups!Continues, groups!AddRow, groups!JoinRow, groups!AskRow, groups!AcknowledgeRow,
           groups!RemoveRow, groups!RemoveClear, groups!RemovePromote, groups!SetRoleRow,
           groups!RotateRow, groups!DeleteGroupRow
  <2>3. gReq'[r].op = op /\ \A q \in Requests \ {r} : gReq'[q].op = gReq[q].op
    <3>1. op \in groups!Ops
      BY DEF groups!Ops
    <3>2. QED
      BY <2>1, <3>1, GroupProceeds, OthersProceed
  <2>4. Rotating' \subseteq Rotating \ {r}
    BY <2>3 DEF Rotating
  <2>5. Within(code', Rotating', gMade')
    <3>1. code' = code + 1 => r \in Rotating \/ code' = code
      BY <2>2 DEF Rotating
    <3>2. QED
      BY <1>0, <2>2, <2>4, <3>1, WithinGoesOn DEF GroupCounts
  <2>6. QED
    BY <1>0, <2>2, <2>5 DEF GroupCounts
<1>3. CASE UNCHANGED groups!vars
  BY <1>3 DEF groups!vars, GroupCounts, Rotating
<1>4. QED
  BY <1>1, <1>2, <1>3 DEF groups!Next

LEMMA GroupTyped == GroupInv /\ GroupCounts => groups!TypeOK
<1> SUFFICES ASSUME GroupInv, GroupCounts PROVE groups!TypeOK
  OBVIOUS
<1> DEFINE M == groups!Members
<1>1. code \in 0..GroupRequests /\ gMade \in 0..GroupRequests
  <2>1. Cardinality(Rotating) \in Nat /\ code \in Nat /\ code + Cardinality(Rotating) <= gMade
    BY FS_CardinalityType DEF GroupCounts, Within
  <2>2. QED
    BY <2>1, PeopleAssumption DEF GroupCounts
<1>2. since \in Seq(Crew) /\ Len(since) \in Nat /\ DOMAIN since = 1..Len(since)
  BY DEF GroupInv, GroupTypes
<1>3. {since[i] : i \in DOMAIN since} = M
  BY <1>2 DEF GroupInv, Ordered
<1>4. Len(since) = Cardinality(M)
  <2>1. since \in Surjection(1..Len(since), M)
    <3>1. since \in [1..Len(since) -> M]
      BY <1>2, <1>3
    <3>2. QED
      BY <1>2, <1>3, <3>1 DEF Surjection
  <2>2. since \in Injection(1..Len(since), M)
    BY <1>2, <2>1 DEF GroupInv, Ordered, Injection, IsInjective, Surjection
  <2>3. IsFiniteSet(1..Len(since)) /\ Cardinality(1..Len(since)) = Len(since)
    BY <1>2, FS_Interval
  <2>4. QED
    BY <2>1, <2>2, <2>3, FS_Surjection
<1>5. groups!Cardinality(M) = Cardinality(M)
  BY OneCardinality
<1>6. QED
  BY <1>1, <1>3, <1>4, <1>5 DEF GroupInv, GroupTypes, GroupReq, groups!TypeOK
\* Operators: one era for every change that ends sessions, one secret for every set-up.
EndsSessions == {r \in Requests : oReq[r].op \in {"password", "patch", "row"}}
SettingUp    == {r \in Requests : oReq[r].op = "setup"}

StaffCounts ==
    /\ oMade \in 0..StaffRequests
    /\ \A o \in Staff : Within(era[o], EndsSessions, oMade)
    /\ \A s \in 1..MaxSessions : seen[s] <= oMade
    /\ Within(secrets, SettingUp, oMade)
    /\ \A r \in Requests : oReq[r].secret <= secrets
    /\ \A o \in Staff : operator[o].known \/ operator[o] = operators!Nobody

LEMMA StaffCountsFirst == operators!Init => StaffCounts
<1> SUFFICES ASSUME operators!Init PROVE StaffCounts
  OBVIOUS
<1>1. /\ oMade = 0 /\ secrets = 0 /\ EndsSessions = {} /\ SettingUp = {}
      /\ \A o \in Staff : era[o] = 0 /\ (operator[o].known \/ operator[o] = operators!Nobody)
      /\ \A s \in 1..MaxSessions : seen[s] = 0
      /\ \A r \in Requests : oReq[r].secret = 0
  BY DEF operators!Init, operators!Idle, operators!Ids, EndsSessions, SettingUp
<1>2. QED
  BY <1>1, WithinAtFirst, PeopleAssumption DEF StaffCounts

\* Somebody asks for something.
LEMMA AskedIsCounted ==
    ASSUME StaffInv, StaffCounts, NEW r \in Requests, NEW q \in StaffReq, operators!Begin(r, q),
           UNCHANGED <<operator, era, seen, secrets>>, q.secret <= secrets
    PROVE  StaffCounts'
<1>1. /\ oMade \in Nat /\ oMade < StaffRequests /\ oMade' = oMade + 1
      /\ oReq' = [oReq EXCEPT ![r] = q] /\ oReq \in [Requests -> StaffReq]
      /\ seen \in [1..MaxSessions -> Nat] /\ seen' = seen /\ secrets' = secrets
  BY DEF operators!Begin, StaffInv, StaffTypes
<1>2. EndsSessions' \subseteq EndsSessions \cup {r} /\ SettingUp' \subseteq SettingUp \cup {r}
  BY <1>1 DEF EndsSessions, SettingUp
<1>3. Within(secrets', SettingUp', oMade') /\ \A o \in Staff : Within(era'[o], EndsSessions', oMade')
  <2>1. Within(secrets', SettingUp', oMade')
    BY <1>1, <1>2, WithinGoesOn DEF StaffCounts
  <2>2. ASSUME NEW o \in Staff PROVE Within(era'[o], EndsSessions', oMade')
    <3>1. Within(era[o], EndsSessions, oMade) /\ era'[o] = era[o]
      BY DEF StaffCounts
    <3>2. QED
      BY <1>1, <1>2, <3>1, WithinGoesOn
  <2>3. QED
    BY <2>1, <2>2
<1>4. /\ \A s \in 1..MaxSessions : seen'[s] <= oMade'
      /\ \A s \in Requests : oReq'[s].secret <= secrets'
  <2>1. \A s \in 1..MaxSessions : seen[s] \in Nat /\ seen[s] <= oMade
    BY <1>1 DEF StaffCounts
  <2>2. \A s \in Requests : oReq[s].secret <= secrets
    BY DEF StaffCounts
  <2>3. oReq'[r] = q /\ \A s \in Requests \ {r} : oReq'[s] = oReq[s]
    BY <1>1
  <2>4. QED
    BY <1>1, <2>1, <2>2, <2>3
<1>5. oMade' \in 0..StaffRequests
  BY <1>1, PeopleAssumption
<1>6. QED
  BY <1>3, <1>4, <1>5 DEF StaffCounts

\* A request goes on.
LEMMA ProceedIsCounted ==
    ASSUME StaffInv, StaffCounts, NEW r \in Requests, NEW q \in StaffReq, NEW S \in SUBSET Requests,
           operators!Proceed(r, q, S), oMade' = oMade, q.secret \in {0, oReq[r].secret},
           \/ era' = era /\ (q.op = "row" => oReq[r].op = "patch")
           \/ /\ oReq[r].op \in {"password", "row"} /\ q.op \in {"others", "end"}
              /\ era' = [era EXCEPT ![oReq[r].who] = @ + 1],
           q.op \notin {"password", "patch", "setup"},
           \A s \in 1..MaxSessions : seen'[s] = seen[s] \/ \E o \in Staff : seen'[s] = era'[o],
           \/ secrets' = secrets
           \/ secrets' = secrets + 1 /\ oReq[r].op = "setup",
           \A o \in Staff : operator'[o].known \/ operator'[o] = operators!Nobody
    PROVE  StaffCounts'
<1>1. /\ oMade \in Nat /\ secrets \in Nat /\ era \in [Staff -> Nat] /\ seen \in [1..MaxSessions -> Nat]
      /\ \A s \in Requests : oReq[s] \in StaffReq /\ oReq[s].secret \in Nat
  BY DEF StaffInv, StaffTypes, StaffReq
<1>2. \A s \in Requests \ {r} : oReq'[s].op = oReq[s].op /\ oReq'[s].secret = oReq[s].secret
  BY <1>1 DEF operators!Proceed, StaffReq
<1>3. oReq'[r] = q
  BY DEF operators!Proceed
<1>4. EndsSessions' \subseteq EndsSessions /\ (era' # era => r \in EndsSessions /\ EndsSessions' \subseteq EndsSessions \ {r})
  BY <1>2, <1>3 DEF EndsSessions
<1>5. SettingUp' \subseteq SettingUp \ {r}
  BY <1>2, <1>3 DEF SettingUp
<1>6. Within(secrets', SettingUp', oMade')
  <2>1. secrets' = secrets + 1 => secrets' = secrets \/ r \in SettingUp
    BY DEF SettingUp
  <2>2. QED
    BY <1>1, <1>5, <2>1, WithinGoesOn DEF StaffCounts
<1>7. \A o \in Staff : Within(era'[o], EndsSessions', oMade') /\ era'[o] <= oMade'
  <2> TAKE o \in Staff
  <2>1. Within(era[o], EndsSessions, oMade)
    BY DEF StaffCounts
  <2>2. \/ era'[o] = era[o]
        \/ era'[o] = era[o] + 1 /\ r \in EndsSessions /\ EndsSessions' \subseteq EndsSessions \ {r}
    BY <1>1, <1>4
  <2>3. QED
    BY <1>1, <1>4, <2>1, <2>2, WithinGoesOn
<1>8. /\ \A s \in 1..MaxSessions : seen'[s] <= oMade'
      /\ \A s \in Requests : oReq'[s].secret <= secrets'
  BY <1>1, <1>2, <1>3, <1>7 DEF StaffCounts
<1>9. oMade' \in 0..StaffRequests
  BY DEF StaffCounts
<1>10. QED
  BY <1>6, <1>7, <1>8, <1>9 DEF StaffCounts

LEMMA StaffCountsGoOn ==
    ASSUME StaffInv, StaffCounts, [operators!Next]_(operators!vars) PROVE StaffCounts'
<1> USE PeopleAssumption
<1>a. /\ operators!Ids = 1..MaxSessions /\ 0 \in 0..MaxSessions /\ 0 \in Nat
      /\ \A s \in 1..MaxSessions : s \in 0..MaxSessions /\ logins[s].of \in Staff
      /\ secrets \in Nat /\ 0 <= secrets
      /\ \A o \in Staff : operator[o].secret \in Nat /\ operator[o].secret <= secrets
  BY DEF operators!Ids, StaffInv, StaffTypes, StaffRow
<1>b. \A r \in Requests, x \in operators!Ops :
         LET q == [oReq[r] EXCEPT !.op = x] IN
         q \in StaffReq /\ q.op = x /\ q.secret = oReq[r].secret /\ oReq[r].who \in Staff
  BY DEF StaffInv, StaffTypes, StaffReq
<1>c. {"others", "end", "row"} \subseteq operators!Ops
  BY DEF operators!Ops
<1>d. operators!Idle \in StaffReq /\ operators!Idle.op = "idle" /\ operators!Idle.secret = 0
  BY StaffIdle DEF operators!Idle
<1>e. /\ {} \in SUBSET Requests /\ \A o : operators!SigningIn(o) \in SUBSET Requests
      /\ \A ops : operators!Running(ops) \in SUBSET Requests
  BY DEF operators!SigningIn, operators!Running
<1>f. \A o \in Staff : operator[o].known \/ operator[o] = operators!Nobody
  BY DEF StaffCounts
<1>1. ASSUME NEW r \in Requests, operators!Checked(r) PROVE StaffCounts'
  <2>1. ASSUME NEW o \in Staff, operators!Login(r, o) PROVE StaffCounts'
    <3> DEFINE q == [operators!Idle EXCEPT !.op = "login", !.who = o]
    <3>1. q \in StaffReq /\ q.secret = 0
      BY <1>a DEF operators!Idle, StaffReq, operators!Ops
    <3>2. operators!Begin(r, q) /\ UNCHANGED <<operator, era, seen, secrets>>
      BY <2>1 DEF operators!Login, operators!history
    <3> HIDE DEF q
    <3>3. QED
      BY <1>a, <3>1, <3>2, AskedIsCounted
  <2>2. ASSUME NEW s \in 1..MaxSessions, operators!ChangePassword(r, s) \/ operators!TotpSetup(r, s)
        PROVE  StaffCounts'
    <3>1. PICK op \in {"password", "setup"} : operators!Begin(r, operators!Asked(op, s))
      BY <2>2 DEF operators!ChangePassword, operators!TotpSetup
    <3> DEFINE q == operators!Asked(op, s)
    <3>2. q \in StaffReq /\ q.secret = 0
      BY <1>a DEF operators!Asked, operators!Idle, StaffReq, operators!Ops
    <3>3. operators!Begin(r, q) /\ UNCHANGED <<operator, era, seen, secrets>>
      BY <2>2, <3>1 DEF operators!ChangePassword, operators!TotpSetup, operators!history
    <3> HIDE DEF q
    <3>4. QED
      BY <1>a, <3>2, <3>3, AskedIsCounted
  <2>3. ASSUME NEW s \in 1..MaxSessions, operators!TotpEnable(r, s) PROVE StaffCounts'
    <3> DEFINE c == operator[logins[s].of].secret
               q == [operators!Asked("enable", s) EXCEPT !.secret = c]
    <3>1. q \in StaffReq /\ q.secret = c /\ c <= secrets
      BY <1>a DEF operators!Asked, operators!Idle, StaffReq, operators!Ops
    <3>2. operators!Begin(r, q) /\ UNCHANGED <<operator, era, seen, secrets>>
      BY <2>3 DEF operators!TotpEnable
    <3> HIDE DEF q
    <3>3. QED
      BY <1>a, <3>1, <3>2, AskedIsCounted
  <2>4. ASSUME NEW s \in 1..MaxSessions, NEW o \in Staff, NEW x \in operators!Roles,
               operators!Create(r, s, o, x)
        PROVE  StaffCounts'
    <3> DEFINE q == [operators!Asked("create", s) EXCEPT !.who = o, !.role = x]
    <3>1. q \in StaffReq /\ q.secret = 0
      BY <1>a DEF operators!Asked, operators!Idle, StaffReq, operators!Ops, operators!Roles
    <3>2. operators!Begin(r, q) /\ UNCHANGED <<operator, era, seen, secrets>>
      BY <2>4 DEF operators!Create, operators!history
    <3> HIDE DEF q
    <3>3. QED
      BY <1>a, <3>1, <3>2, AskedIsCounted
  <2>5. ASSUME NEW s \in 1..MaxSessions, NEW o \in Staff, NEW x \in operators!Roles \cup {"same"},
               NEW t \in {"same", "off", "on"}, operators!Patch(r, s, o, x, t)
        PROVE  StaffCounts'
    <3> DEFINE q == [operators!Asked("patch", s) EXCEPT !.who = o, !.role = x, !.turn = t]
    <3>1. q \in StaffReq /\ q.secret = 0
      BY <1>a DEF operators!Asked, operators!Idle, StaffReq, operators!Ops, operators!Roles
    <3>2. operators!Begin(r, q) /\ UNCHANGED <<operator, era, seen, secrets>>
      BY <2>5 DEF operators!Patch, operators!history
    <3> HIDE DEF q
    <3>3. QED
      BY <1>a, <3>1, <3>2, AskedIsCounted
  <2>6. QED
    BY <1>1, <1>a, <2>1, <2>2, <2>3, <2>4, <2>5 DEF operators!Checked
<1>2. ASSUME NEW r \in Requests, operators!Continues(r) PROVE StaffCounts'
  <2> DEFINE o == oReq[r].who
  <2>0. o \in Staff /\ era \in [Staff -> Nat] /\ seen \in [1..MaxSessions -> Nat]
        /\ \A s \in 1..MaxSessions : seen[s] = seen[s]
    BY <1>b, <1>c DEF StaffInv, StaffTypes
  <2>1. CASE operators!LoginSession(r)
    <3>1. /\ operators!Proceed(r, operators!Idle, {}) /\ oMade' = oMade /\ era' = era
          /\ secrets' = secrets /\ operator' = operator
          /\ seen' = [seen EXCEPT ![sessions + 1] = era[o]]
      BY <2>1 DEF operators!LoginSession
    <3>2. \A s \in 1..MaxSessions : seen'[s] = seen[s] \/ \E p \in Staff : seen'[s] = era'[p]
      BY <2>0, <3>1
    <3>3. QED
      BY <1>d, <1>e, <1>f, <3>1, <3>2, ProceedIsCounted
  <2>2. CASE operators!PasswordRow(r)
    <3> DEFINE q == [oReq[r] EXCEPT !.op = "others"]
    <3>1. /\ operators!Proceed(r, q, operators!SigningIn(o)) /\ oMade' = oMade
          /\ oReq[r].op = "password" /\ era' = [era EXCEPT ![o] = @ + 1]
          /\ secrets' = secrets /\ operator' = operator
          /\ seen' = [seen EXCEPT ![oReq[r].as] = era[o] + 1]
      BY <2>2 DEF operators!PasswordRow
    <3>2. q \in StaffReq /\ q.op = "others" /\ q.secret = oReq[r].secret
      BY <1>b, <1>c
    <3>3. \A s \in 1..MaxSessions : seen'[s] = seen[s] \/ \E p \in Staff : seen'[s] = era'[p]
      BY <2>0, <3>1
    <3> HIDE DEF q
    <3>4. QED
      BY <1>e, <1>f, <3>1, <3>2, <3>3, ProceedIsCounted
  <2>3. CASE operators!EndOthers(r) \/ operators!EndAll(r)
    <3>1. /\ operators!Proceed(r, operators!Idle, {})
          /\ oMade' = oMade /\ era' = era /\ secrets' = secrets /\ operator' = operator /\ seen' = seen
      BY <2>3 DEF operators!EndOthers, operators!EndAll, operators!history
    <3>2. QED
      BY <1>d, <1>e, <1>f, <3>1, ProceedIsCounted
  <2>4. CASE operators!TotpSetupRow(r)
    <3>1. /\ operators!Proceed(r, operators!Idle, {q \in operators!Running({"enable"}) : oReq[q].who = o})
          /\ oMade' = oMade /\ era' = era /\ secrets' = secrets + 1 /\ seen' = seen
          /\ oReq[r].op = "setup"
          /\ operator' = [operator EXCEPT ![o].secret = secrets + 1, ![o].enabled = FALSE]
      BY <2>4 DEF operators!TotpSetupRow
    <3>2. operator \in [Staff -> StaffRow] /\ operator[o].known
      BY <3>1 DEF StaffInv, StaffTypes, StaffKnown
    <3>3. operator'[o].known /\ \A p \in Staff \ {o} : operator'[p] = operator[p]
      BY <2>0, <3>1, <3>2 DEF StaffRow
    <3>4. QED
      BY <1>d, <1>e, <1>f, <3>1, <3>3, ProceedIsCounted
  <2>5. CASE operators!TotpEnableRow(r)
    <3>1. /\ operators!Proceed(r, operators!Idle, {q \in operators!Running({"setup"}) : oReq[q].who = o})
          /\ oMade' = oMade /\ era' = era /\ secrets' = secrets /\ seen' = seen
          /\ oReq[r].op = "enable" /\ operator' = [operator EXCEPT ![o].enabled = TRUE]
      BY <2>5 DEF operators!TotpEnableRow, operators!history
    <3>2. operator \in [Staff -> StaffRow] /\ operator[o].known
      BY <3>1 DEF StaffInv, StaffTypes, StaffKnown
    <3>3. operator'[o].known /\ \A p \in Staff \ {o} : operator'[p] = operator[p]
      BY <2>0, <3>1, <3>2 DEF StaffRow
    <3>4. QED
      BY <1>d, <1>e, <1>f, <3>1, <3>3, ProceedIsCounted
  <2>6. CASE operators!CreateRow(r)
    <3> DEFINE new == [operators!Nobody EXCEPT !.known = TRUE, !.role = oReq[r].role]
    <3>1. /\ operators!Proceed(r, operators!Idle, {}) /\ oMade' = oMade
          /\ era' = era /\ secrets' = secrets /\ seen' = seen
          /\ operator' = IF operator[o].known THEN operator ELSE [operator EXCEPT ![o] = new]
      BY <2>6 DEF operators!CreateRow, operators!history
    <3>2. new.known
      BY DEF operators!Nobody
    <3> HIDE DEF new
    <3>3. operator \in [Staff -> StaffRow]
      BY DEF StaffInv, StaffTypes
    <3>4. \A p \in Staff : operator'[p].known \/ operator'[p] = operators!Nobody
      BY <1>f, <2>0, <3>1, <3>2, <3>3
    <3>5. QED
      BY <1>d, <1>e, <3>1, <3>4, ProceedIsCounted
  <2>7. CASE operators!PatchCheck(r)
    <3> DEFINE q == [oReq[r] EXCEPT !.op = "row"]
    <3>1. /\ operators!Proceed(r, operators!Idle, {}) \/ operators!Proceed(r, q, {})
          /\ oReq[r].op = "patch" /\ oMade' = oMade
          /\ era' = era /\ secrets' = secrets /\ seen' = seen /\ operator' = operator
      BY <2>7 DEF operators!PatchCheck, operators!history
    <3>2. q \in StaffReq /\ q.op = "row" /\ q.secret = oReq[r].secret
      BY <1>b, <1>c
    <3> HIDE DEF q
    <3>3. QED
      BY <1>d, <1>e, <1>f, <3>1, <3>2, ProceedIsCounted
  <2>8. CASE operators!PatchRow(r)
    <3> DEFINE q == [oReq[r] EXCEPT !.op = "end"]
    <3>1. PICK S \in SUBSET Requests, x \in {"owner", "other"}, b \in BOOLEAN :
            operators!Proceed(r, q, S)
            /\ operator' = [operator EXCEPT ![o].role = x, ![o].disabled = b]
      <4> DEFINE x == IF oReq[r].role = "same" THEN operator[o].role ELSE oReq[r].role
                 shut == CASE oReq[r].turn = "off" -> TRUE
                           [] oReq[r].turn = "on" -> FALSE
                           [] OTHER -> operator[o].disabled
                 goes == operators!IsOwner(o) /\ (x # "owner" \/ shut)
                 S == operators!SigningIn(o) \cup (IF goes THEN operators!Running({"row"}) ELSE {})
      <4>1. /\ operators!Proceed(r, q, S)
            /\ operator' = [operator EXCEPT ![o].role = x, ![o].disabled = shut]
        BY <2>8 DEF operators!PatchRow
      <4>2. /\ operator[o] \in StaffRow /\ oReq[r].role \in {"owner", "other", "same"}
            /\ oReq[r].turn \in {"same", "off", "on"}
        BY <2>0, StaffRequest DEF StaffInv, StaffTypes
      <4>3. x \in {"owner", "other"} /\ shut \in BOOLEAN
        BY <4>2 DEF StaffRow, operators!Roles
      <4>4. S \in SUBSET Requests
        BY <1>e
      <4> HIDE DEF S, x, shut
      <4>5. QED
        BY <4>1, <4>3, <4>4
    <3>2. /\ oReq[r].op = "row" /\ oMade' = oMade /\ secrets' = secrets /\ seen' = seen
          /\ era' = [era EXCEPT ![o] = @ + 1]
      BY <2>8 DEF operators!PatchRow
    <3>3. q \in StaffReq /\ q.op = "end" /\ q.secret = oReq[r].secret
      BY <1>b, <1>c
    <3>4. operator \in [Staff -> StaffRow] /\ operator[o].known
      BY <3>2 DEF StaffInv, StaffTypes, StaffKnown
    <3>5. operator'[o].known /\ \A p \in Staff \ {o} : operator'[p] = operator[p]
      BY <2>0, <3>1, <3>4 DEF StaffRow
    <3> HIDE DEF q
    <3>6. QED
      BY <1>f, <3>1, <3>2, <3>3, <3>5, ProceedIsCounted
  <2>9. QED
    BY <1>2, <2>1, <2>2, <2>3, <2>4, <2>5, <2>6, <2>7, <2>8 DEF operators!Continues
<1>3. ASSUME NEW s \in operators!Ids, operators!Logout(s) PROVE StaffCounts'
  <2>1. /\ oMade < StaffRequests /\ oMade' = oMade + 1 /\ oMade \in Nat
        /\ UNCHANGED <<operator, oReq, era, seen, secrets>>
    BY <1>3 DEF operators!Logout, operators!history, StaffInv, StaffTypes
  <2>2. EndsSessions' = EndsSessions /\ SettingUp' = SettingUp /\ oMade' \in 0..StaffRequests
    BY <2>1 DEF EndsSessions, SettingUp
  <2>3. Within(secrets', SettingUp', oMade') /\ \A o \in Staff : Within(era'[o], EndsSessions', oMade')
    <3>1. PICK r : TRUE
      OBVIOUS
    <3>2. EndsSessions' \subseteq EndsSessions \cup {r} /\ SettingUp' \subseteq SettingUp \cup {r}
      BY <2>2
    <3>3. QED
      BY <2>1, <3>2, WithinGoesOn DEF StaffCounts
  <2>4. \A i \in 1..MaxSessions : seen'[i] <= oMade'
    BY <2>1 DEF StaffCounts, StaffInv, StaffTypes
  <2>5. QED
    BY <2>1, <2>2, <2>3, <2>4 DEF StaffCounts
<1>4. CASE UNCHANGED operators!vars
  BY <1>4 DEF operators!vars, StaffCounts, EndsSessions, SettingUp
<1>5. QED
  BY <1>1, <1>2, <1>3, <1>4 DEF operators!Next

LEMMA StaffTyped == StaffInv /\ StaffCounts => operators!TypeOK
<1> SUFFICES ASSUME StaffInv, StaffCounts PROVE operators!TypeOK
  OBVIOUS
<1>1. secrets \in 0..StaffRequests /\ oMade \in 0..StaffRequests
      /\ \A o \in Staff : era[o] \in 0..StaffRequests
  <2>1. ASSUME NEW n, NEW W, Within(n, W, oMade) PROVE n \in 0..StaffRequests
    <3>1. Cardinality(W) \in Nat /\ n \in Nat /\ n + Cardinality(W) <= oMade
      BY <2>1, FS_CardinalityType DEF Within
    <3>2. QED
      BY <3>1, PeopleAssumption DEF StaffCounts
  <2>2. QED
    BY <2>1 DEF StaffCounts
<1>2. era \in [Staff -> 0..StaffRequests] /\ seen \in [1..MaxSessions -> 0..StaffRequests]
  <2>1. /\ era \in [Staff -> Nat] /\ seen \in [1..MaxSessions -> Nat]
        /\ \A s \in 1..MaxSessions : seen[s] <= oMade
    BY DEF StaffInv, StaffTypes, StaffCounts
  <2>2. QED
    BY <1>1, <2>1, PeopleAssumption
<1>3. operator \in [Staff -> [known : BOOLEAN, role : operators!Roles, disabled : BOOLEAN,
                             secret : 0..secrets, enabled : BOOLEAN]]
  BY <1>1 DEF StaffInv, StaffTypes, StaffRow
<1>4. oReq \in [Requests -> [op : operators!Ops, as : operators!Ids \cup {0}, who : Staff,
                            role : operators!Roles \cup {"same"}, turn : {"same", "off", "on"},
                            secret : 0..secrets, late : BOOLEAN]]
  <2>1. \A r \in Requests : oReq[r] \in StaffReq /\ oReq[r].secret \in 0..secrets
    BY <1>1 DEF StaffInv, StaffTypes, StaffCounts, StaffReq
  <2>2. 0..MaxSessions \subseteq operators!Ids \cup {0}
    BY PeopleAssumption DEF operators!Ids
  <2>3. \A r \in Requests :
           oReq[r] \in [op : operators!Ops, as : operators!Ids \cup {0}, who : Staff,
                        role : operators!Roles \cup {"same"}, turn : {"same", "off", "on"},
                        secret : 0..secrets, late : BOOLEAN]
    BY <2>1, <2>2 DEF StaffReq, operators!Roles
  <2>4. QED
    BY <2>3 DEF StaffInv, StaffTypes
<1>5. QED
  BY <1>1, <1>2, <1>3, <1>4 DEF StaffInv, StaffTypes, StaffCounts, operators!TypeOK, operators!Ids

\* The account's requests.
AccountCounts == made \in 0..MaxRequests

LEMMA AccountCountsGoOn ==
    ASSUME AccountCounts, [Next]_vars PROVE AccountCounts'
<1>1. CASE AtOnce
  BY <1>1, PeopleAssumption DEF AtOnce, AccountCounts
<1>2. CASE made' = made
  BY <1>2 DEF AccountCounts
<1>3. ASSUME NEW r \in Requests, Checked(r) PROVE AtOnce
  BY <1>3, SMTT(30)
     DEF Checked, SignInUnderDuress, SignIn, RevokeAll, TotpSetup, RemoveDevice, TotpEnable, TotpOff,
         Wipe, DeleteAccount, ChangePassword, SetDuress, Begin
<1>4. ASSUME NEW r \in Requests, Continues(r) PROVE made' = made
  BY <1>4
     DEF Continues, SignInCount, SignInRegister, SignInSession, RevokeRow, RemoveDeviceSessions,
         PasswordRow, DuressRow, TotpSetupRow, TotpEnableRow, TotpOffRow, WipeDevices, WipeCommit,
         Tombstone, Finish, Proceed
<1>5. ASSUME NEW s \in Ids, SignOut(s) PROVE AtOnce
  BY <1>5 DEF SignOut
<1>6. ASSUME NEW k \in Keys, Issue(k) \/ RevokeLicence(k) \/ \E a \in Others \cup {Me} : Redeem(k, a)
      PROVE  AtOnce
  BY <1>6 DEF Issue, RevokeLicence, Redeem
<1>7. CASE UNCHANGED vars
  BY <1>2, <1>7 DEF vars
<1>8. QED
  BY <1>1, <1>2, <1>3, <1>4, <1>5, <1>6, <1>7 DEF Next

LEMMA AccountTyped == AccountInv /\ AccountCounts => TypeOK
<1>1. AccountTypes /\ AccountCounts => TypeOK
  BY DEF AccountTypes, AccountCounts, AccountRow, DeviceRow, AccountReq, TypeOK, Ids
<1>2. QED
  BY <1>1 DEF AccountInv

-----------------------------------------------------------------------------
(* The parts together: a step of the composition is a step of one part, and *)
(* leaves the others as they are.                                           *)

LEMMA EachGoesOn ==
    [Next6]_vars6 => /\ [Next]_vars /\ [groups!Next]_(groups!vars) /\ [prekeys!Next]_(prekeys!vars)
                     /\ [phone!Next]_(phone!vars) /\ [operators!Next]_(operators!vars)
                     /\ [media!Next]_(media!vars)
<1> SUFFICES ASSUME [Next6]_vars6
    PROVE  /\ [Next]_vars /\ [groups!Next]_(groups!vars) /\ [prekeys!Next]_(prekeys!vars)
           /\ [phone!Next]_(phone!vars) /\ [operators!Next]_(operators!vars)
           /\ [media!Next]_(media!vars)
  OBVIOUS
<1>1. UNCHANGED ofGroups => UNCHANGED groups!vars
  BY DEF ofGroups, groups!vars
<1>2. UNCHANGED ofPrekeys => UNCHANGED prekeys!vars
  BY DEF ofPrekeys, prekeys!vars
<1>3. UNCHANGED ofPhone => UNCHANGED phone!vars
  BY DEF ofPhone, phone!vars
<1>4. UNCHANGED ofStaff => UNCHANGED operators!vars
  BY DEF ofStaff, operators!vars
<1>5. UNCHANGED ofMedia => UNCHANGED media!vars
  BY DEF ofMedia, media!vars, media!pictures
<1>6. QED
  BY <1>1, <1>2, <1>3, <1>4, <1>5 DEF Next6, vars6

\* The number of an account goes with a code that was sent to it, unless two
\* verifications of the account have crossed, and discoverability with a wish for
\* that number (POST verify, POST confirm and PATCH in routes/phone.ts).
THEOREM NumbersAreProved == Spec6 => []NumberIsProved
<1>1. Init6 => PhoneInv
  BY PhoneInitial DEF Init6
<1>2. PhoneInv /\ [Next6]_vars6 => PhoneInv'
  BY PhonePreserved, EachGoesOn
<1>3. PhoneInv => NumberIsProved
  BY PhoneKeeps DEF NumberIsProved
<1>4. QED
  BY <1>1, <1>2, <1>3, PTL DEF Spec6

\* A group with members has an administrator and the server an owner: those who
\* count the others before they step down, remove or shut out somebody, count what
\* is there when they write, but for two of them at once (DELETE member and PUT
\* role in routes/groups.ts, PATCH operators in services/admin.ts).
THEOREM SomebodyIsAlwaysInCharge == Spec6 => []SomebodyIsInCharge
<1>1. Init6 => GroupInv /\ StaffInv
  BY GroupInitial, StaffInitial DEF Init6
<1>2. GroupInv /\ StaffInv /\ [Next6]_vars6 => GroupInv' /\ StaffInv'
  BY GroupPreserved, StaffPreserved, EachGoesOn
<1>3. GroupInv /\ StaffInv => SomebodyIsInCharge
  BY GroupKeeps DEF SomebodyIsInCharge, StaffInv
<1>4. QED
  BY <1>1, <1>2, <1>3, PTL DEF Spec6

\* What is counted before a row is inserted is counted while it is locked: no more
\* devices are in use than some licence or the default has allowed (registerDevice
\* in services/devices.ts), no more members in a group than it may have
\* (routes/groups.ts, migration 032).
THEOREM LimitsAreKept == Spec6 => []LimitsHold
<1>1. Init6 => GroupInv /\ AccountInv
  BY GroupInitial, AccountInitial DEF Init6
<1>2. GroupInv /\ AccountInv /\ [Next6]_vars6 => GroupInv' /\ AccountInv'
  BY GroupPreserved, AccountPreserved, EachGoesOn
<1>3. GroupInv /\ AccountInv => LimitsHold
  BY GroupKeeps, AccountKeeps DEF LimitsHold
<1>4. QED
  BY <1>1, <1>2, <1>3, PTL DEF Spec6

\* Every session that opens an account or the administration was signed in with
\* what is valid now, or somebody is about to end it, or its sign-in overlapped
\* the change; and a wipe leaves no device of those it found (services/sessions.ts,
\* wipeAccount, services/admin.ts).
THEOREM SessionsAreRevoked == Spec6 => []SessionsStand
<1>1. Init6 => AccountInv /\ StaffInv
  BY AccountInitial, StaffInitial DEF Init6
<1>2. AccountInv /\ StaffInv /\ [Next6]_vars6 => AccountInv' /\ StaffInv'
  BY AccountPreserved, StaffPreserved, EachGoesOn
<1>3. AccountInv /\ StaffInv => SessionsStand
  BY AccountKeeps DEF SessionsStand, StaffInv
<1>4. QED
  BY <1>1, <1>2, <1>3, PTL DEF Spec6

\* A second factor goes on with a secret a code was shown of and off by the
\* requests that are for it, of an account and of an operator, whatever else is
\* written meanwhile, but for a set-up and a proof that overlap
\* (routes/accounts.ts, routes/admin.ts).
THEOREM FactorsAreProved == Spec6 => FactorsChangeByProof
<1>1. Init6 => AccountInv /\ StaffInv
  BY AccountInitial, StaffInitial DEF Init6
<1>2. AccountInv /\ StaffInv /\ [Next6]_vars6 => AccountInv' /\ StaffInv'
  BY AccountPreserved, StaffPreserved, EachGoesOn
<1>3. AccountInv /\ [Next6]_vars6 =>
         [/\ account'.enabled /\ ~account.enabled =>
               \/ account'.secret \in proven
               \/ \E r \in Running({"enable"}) : req[r].late
          /\ account.enabled /\ ~account'.enabled =>
               \/ Running({"off", "wiping"}) # {}
               \/ \E r \in Running({"setup"}) : req[r].late
          /\ account.enabled /\ account'.enabled => account'.secret = account.secret]_vars
  BY AccountKeepsFactor, EachGoesOn DEF AccountFactorSteps
<1>4. StaffInv /\ [Next6]_vars6 =>
         [\A o \in Staff :
            LET row == operator[o]
                new == operator'[o]
                late(op) == \E r \in operators!Running({op}) : oReq[r].late
            IN  /\ new.enabled /\ ~row.enabled => new.secret \in shown \/ late("enable")
                /\ row.enabled => (new.enabled /\ new.secret = row.secret) \/ late("setup")
         ]_(operators!vars)
  BY StaffKeepsFactors, EachGoesOn DEF FactorSteps
<1>5. QED
  BY <1>1, <1>2, <1>3, <1>4, PTL
     DEF Spec6, FactorsChangeByProof, FactorChangesByProof, operators!FactorChangesByProof

\* A row that is committed names a file that is on the disk, and a picture in use
\* is not swept: whatever was saved, released, expired, or made a sticker or an
\* avatar in between, and wherever a request stopped (routes/media.ts, the avatar
\* and sticker routes, services/cleanup.ts).
THEOREM FilesAreKept == Spec6 => []MediaLivesAsUsed
<1>1. Init6 => MediaInv
  BY MediaStarts DEF Init6
<1>2. MediaInv /\ [Next6]_vars6 => MediaInv'
  BY MediaNext, MediaStill, EachGoesOn
<1>3. MediaInv => MediaLivesAsUsed
  BY MediaServes DEF MediaLivesAsUsed
<1>4. QED
  BY <1>1, <1>2, <1>3, PTL DEF Spec6

\* A member who waits for the group's key is asked for, but for the clean-up after
\* an earlier removal, and every bundle of public keys handed out can be opened
\* while the signed key's grace lasts: the device still has the private half
\* (key_requests.ts, maintainPreKeys, rotateSignedPreKeyIfDue, GET keys).
THEOREM KeysStayWithinReach == Spec6 => []KeysAreWithinReach
<1>1. Init6 => GroupInv /\ PrekeyInv
  BY GroupInitial, PrekeyInitial DEF Init6
<1>2. GroupInv /\ PrekeyInv /\ [Next6]_vars6 => GroupInv' /\ PrekeyInv'
  BY GroupPreserved, PrekeyStep, EachGoesOn
<1>3. GroupInv /\ PrekeyInv => KeysAreWithinReach
  BY PrekeyKeeps DEF KeysAreWithinReach, GroupInv, Listed
<1>4. QED
  BY <1>1, <1>2, <1>3, PTL DEF Spec6

\* Every part keeps to its types: no counter passes the bound of its requests, an
\* operator who is not known has no row, the members' order is one of the members.
THEOREM PeopleTypesAreKept == Spec6 => []TypesOK
<1> DEFINE I == /\ AccountInv /\ AccountCounts /\ GroupInv /\ GroupCounts /\ PrekeyInv /\ PhoneInv
                /\ StaffInv /\ StaffCounts /\ MediaInv
<1>1. Init6 => I
  <2>1. Init => AccountCounts
    BY PeopleAssumption DEF Init, AccountCounts
  <2>2. QED
    BY <2>1, AccountInitial, GroupInitial, GroupCountsFirst, PrekeyInitial, PhoneInitial, StaffInitial,
       StaffCountsFirst, MediaStarts DEF Init6
<1>2. I /\ [Next6]_vars6 => I'
  <2> SUFFICES ASSUME I, [Next6]_vars6 PROVE I'
    OBVIOUS
  <2>1. AccountInv' /\ GroupInv' /\ PrekeyInv' /\ PhoneInv' /\ StaffInv'
    BY AccountPreserved, GroupPreserved, PrekeyStep, PhonePreserved, StaffPreserved, EachGoesOn
  <2>2. MediaInv'
    BY MediaNext, MediaStill, EachGoesOn
  <2>3. AccountCounts' /\ StaffCounts'
    BY AccountCountsGoOn, StaffCountsGoOn, EachGoesOn
  <2>4. GroupCounts'
    BY GroupCountsGoOn, EachGoesOn DEF GroupInv
  <2>5. QED
    BY <2>1, <2>2, <2>3, <2>4
<1>3. I => TypesOK
  <2>1. MediaInv => media!TypeOK
    BY DEF MediaInv, MediaTypes
  <2>2. QED
    BY <2>1, AccountTyped, GroupTyped, PrekeyKeeps, PhoneKeeps, StaffTyped DEF TypesOK
<1>4. QED
  BY <1>1, <1>2, <1>3, PTL DEF Spec6
=============================================================================
