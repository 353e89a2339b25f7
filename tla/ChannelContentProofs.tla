------------------------ MODULE ChannelContentProofs ------------------------
(***************************************************************************)
(* What ChannelContent.tla keeps for any number of people, posts and       *)
(* concurrent requests, from Parameters alone.  The inductive invariant:   *)
(*                                                                         *)
(*   TypeOK, Asking  the types, of the rows and of the requests;           *)
(*   Locked          what is sealed under the channel's lock is sealed     *)
(*                   under the current epoch, and one request at a time    *)
(*                   goes live, having seen the room there is;             *)
(*   Current         who holds the current key is a member;                *)
(*   Keyed           an epoch's key is its winner's, and an abandoned      *)
(*                   epoch is past and has no live post;                   *)
(*   Placed          a post being published is not there yet;              *)
(*   Blank           under a deleted post there is only what a request     *)
(*                   that had found it there wrote;                        *)
(*   Counted         a vote about to be written has seen its account's     *)
(*                   answers, unless another was written meanwhile;        *)
(*   Claimed         a post is claimed by one request or one sweep, which  *)
(*                   tells of it once;                                     *)
(*   Followed, Awaited  who is to tell of a post, once it is claimed and   *)
(*                   before;                                               *)
(*   VotesWithinChoice  a part of what is promised;                        *)
(*   Hushed          what a silenced account has under way was checked     *)
(*                   before the silence.                                   *)
(***************************************************************************)
EXTENDS ChannelContent, FiniteSetTheorems, TLAPS

Ops == {"idle", "claim", "abandon", "reseal", "post", "announce", "wake", "edit",
        "delete", "comment", "react", "vote", "voting", "ban", "write", "golive"}

Ballots == Posts \X Accounts \X Options

Question == [op : Ops, by : Accounts, whom : Accounts, post : Posts, epoch : Epochs,
             due : {"now", "later", "past"}, opts : SUBSET Options,
             seen : SUBSET (Nat \cup Ballots), late : BOOLEAN]

Asking == req \in [Requests -> Question]

Sealing == {"post", "edit", "comment"}

Locked ==
    /\ \A r \in Requests : req[r].op \in Sealing => req[r].epoch = epoch
    /\ \A r \in Requests : req[r].op = "golive" =>
         /\ req[r].seen = {room}
         /\ \A s \in Requests : req[s].op = "golive" => s = r

Current == holders[epoch] \subseteq members

Keyed ==
    /\ \A x \in won : keys[x[1]].by = x[2]
    /\ \A e \in Epochs : keys[e].abandoned => e < epoch
    /\ \A p \in Posts : Live(p) => ~keys[post[p].epoch].abandoned

-----------------------------------------------------------------------------
(* The types                                                               *)

LEMMA Values ==
  ASSUME Parameters
  PROVE  /\ NoKey \in Key /\ NoPost \in PostRow /\ Idle \in Question
         /\ 1 \in Epochs /\ MaxEpoch \in Nat /\ MaxRequests \in Nat
  <1>1. 1 \in Epochs /\ MaxEpoch \in Nat /\ MaxRequests \in Nat
    BY DEF Parameters, Epochs
  <1>2. NoKey \in Key
    BY DEF NoKey, Key
  <1>3. NoPost \in PostRow
    BY <1>1 DEF NoPost, PostRow
  <1>4. Idle \in Question
    BY <1>1 DEF Idle, Question, Ops, Parameters
  <1> QED
    BY <1>1, <1>2, <1>3, <1>4

\* A question asked anew, and one with more in it.
LEMMA AskedAnew ==
  ASSUME Parameters, NEW op \in Ops, NEW a \in Accounts, NEW p \in Posts
  PROVE  /\ Asked(op, a, p) \in Question
         /\ Asked(op, a, p).op = op /\ Asked(op, a, p).post = p /\ Asked(op, a, p).by = a
  BY Values DEF Asked, Question

LEMMA WithEpoch ==
  ASSUME NEW q \in Question, NEW e \in Epochs
  PROVE  /\ [q EXCEPT !.epoch = e] \in Question
         /\ [q EXCEPT !.epoch = e].op = q.op /\ [q EXCEPT !.epoch = e].post = q.post
         /\ [q EXCEPT !.epoch = e].epoch = e /\ [q EXCEPT !.epoch = e].by = q.by
  BY DEF Question

LEMMA WithOthers ==
  ASSUME NEW q \in Question, NEW opts \in SUBSET Options, NEW w \in Accounts,
         NEW seen \in SUBSET (Nat \cup Ballots)
  PROVE  /\ [q EXCEPT !.opts = opts] \in Question /\ [q EXCEPT !.opts = opts].op = q.op
         /\ [q EXCEPT !.opts = opts].by = q.by
         /\ [q EXCEPT !.whom = w] \in Question /\ [q EXCEPT !.whom = w].op = q.op
         /\ [q EXCEPT !.seen = seen] \in Question /\ [q EXCEPT !.seen = seen].op = q.op
         /\ [q EXCEPT !.seen = seen].seen = seen
  BY DEF Question

LEMMA RequestGoesOn ==
  ASSUME Asking, NEW r \in Requests, NEW op \in Ops, GoOn(r, op)
  PROVE  Asking'
  <1>1. [req[r] EXCEPT !.op = op] \in Question
    BY DEF Asking, Question
  <1> QED
    BY <1>1 DEF Asking, GoOn

LEMMA RequestFinishes ==
  ASSUME Parameters, Asking, NEW r \in Requests, Finish(r)
  PROVE  Asking'
  BY Values DEF Asking, Finish

LEMMA TypeInit ==
  ASSUME Parameters, Init
  PROVE  TypeOK /\ Asking
  <1>1. keys \in [Epochs -> Key]
    <2>1. [NoKey EXCEPT !.by = Owner] \in Key
      BY Values DEF Key, Parameters
    <2> QED
      BY <2>1, Values DEF Init
  <1>2. post \in [Posts -> PostRow]
    <2>1. [NoPost EXCEPT !.state = "live", !.by = Owner, !.text = TRUE, !.notified = TRUE,
                         !.told = 1] \in PostRow
      BY Values DEF PostRow, Parameters
    <2> QED
      BY <2>1, Values DEF Init
  <1>3. epoch \in Epochs /\ meta \in [label : Epochs, sealed : Epochs]
    BY Values DEF Init
  <1>4. holders \in [Epochs -> SUBSET Accounts] /\ won \subseteq Epochs \X Accounts
    BY Values DEF Init, Parameters
  <1>5. Asking
    BY Values DEF Init, Asking
  <1>6. made \in 0..MaxRequests /\ room \in Nat /\ sweeping \subseteq Posts
    BY Values DEF Init
  <1> QED
    BY <1>1, <1>2, <1>3, <1>4, <1>5, <1>6 DEF Init, TypeOK

-----------------------------------------------------------------------------
(* What a step can be                                                      *)

\* Requests that only those may make who are not silenced.
Speaking == {"comment", "react", "vote", "write"}

\* What a request has found when it begins.
Starts(r, q) ==
    /\ req[r] = Idle /\ req' = [req EXCEPT ![r] = q]
    /\ q \in Question /\ q.op \notin {"idle", "announce", "wake", "voting"}
    /\ q.op \in Sealing => q.epoch = epoch
    /\ q.op = "golive" => Unlocked /\ q.seen = {room}
    /\ q.op = "post" => /\ post[q.post].state = "none"
                        /\ \A s \in Running("post") : req[s].post # q.post
    /\ q.op \in {"edit", "comment", "react"} => Live(q.post)
    /\ q.op \in Speaking => q.by \notin banned
    /\ made' \in 0..MaxRequests
    /\ UNCHANGED <<keyring, room, rows>>

LEMMA OneMore == ASSUME Parameters, TypeOK, AtOnce PROVE made' \in 0..MaxRequests
  BY Values DEF AtOnce, TypeOK

LEMMA Begun ==
  ASSUME Parameters, TypeOK, NEW r \in Requests, NEW q \in Question, Begin(r, q),
         q.op \notin {"idle", "announce", "wake", "voting"},
         q.op \in Sealing => q.epoch = epoch,
         q.op = "golive" => Unlocked /\ q.seen = {room},
         q.op = "post" => /\ post[q.post].state = "none"
                         /\ \A s \in Running("post") : req[s].post # q.post,
         q.op \in {"edit", "comment", "react"} => Live(q.post),
         q.op \in Speaking => q.by \notin banned,
         UNCHANGED <<keyring, room, rows>>
  PROVE  Starts(r, q)
  BY OneMore DEF Begin, Starts

\* Requests about the key, the silence, the inbox and the broadcast.
LEMMA StartsElsewhere ==
  ASSUME Parameters, TypeOK, NEW r \in Requests, NEW a \in Accounts,
         \/ Claim(r, a) \/ Abandon(r, a) \/ WriteToInbox(r, a) \/ GoLive(r, a)
         \/ \E e \in Epochs : Reseal(r, a, e)
         \/ \E w \in Accounts : Ban(r, a, w)
  PROVE  \E q : Starts(r, q)
  <1>0. epoch \in Epochs /\ {room} \in SUBSET (Nat \cup Ballots) /\ First \in Posts
    BY DEF TypeOK, Parameters
  <1>1. ASSUME NEW op \in {"claim", "abandon", "reseal", "ban", "write", "golive"}
        PROVE  /\ Asked(op, a, First) \in Question /\ Asked(op, a, First).op = op
               /\ Asked(op, a, First).by = a
    <2>1. op \in Ops
      BY DEF Ops
    <2> QED
      BY <1>0, <2>1, AskedAnew
  <1>2. ASSUME NEW op \in {"claim", "abandon", "reseal"}, NEW e \in Epochs,
               Begin(r, [Asked(op, a, First) EXCEPT !.epoch = e]),
               UNCHANGED <<keyring, room, rows>>
        PROVE  \E q : Starts(r, q)
    <2> DEFINE q == [Asked(op, a, First) EXCEPT !.epoch = e]
    <2>1. q \in Question /\ q.op = op
      BY <1>1, <1>2, WithEpoch
    <2>2. Begin(r, q)
      BY <1>2
    <2> HIDE DEF q
    <2> QED
      BY <1>2, <2>1, <2>2, Begun DEF Sealing, Speaking
  <1>3. CASE Claim(r, a) \/ Abandon(r, a) \/ \E e \in Epochs : Reseal(r, a, e)
    BY <1>0, <1>2, <1>3 DEF Claim, Abandon, Reseal
  <1>4. CASE WriteToInbox(r, a)
    <2>1. /\ UNCHANGED <<keyring, room, rows>> /\ Begin(r, Asked("write", a, First))
          /\ a \notin banned
      BY <1>4 DEF WriteToInbox, MaySpeak, Unsaid
    <2> QED
      BY <1>1, <2>1, Begun DEF Sealing, Speaking
  <1>5. CASE GoLive(r, a)
    <2> DEFINE q == [Asked("golive", a, First) EXCEPT !.seen = {room}]
    <2>1. q \in Question /\ q.op = "golive" /\ q.seen = {room}
      BY <1>0, <1>1, WithOthers
    <2>2. Begin(r, q) /\ Unlocked /\ UNCHANGED <<keyring, room, rows>>
      BY <1>5 DEF GoLive
    <2> HIDE DEF q
    <2> QED
      BY <2>1, <2>2, Begun DEF Sealing, Speaking
  <1>6. ASSUME NEW w \in Accounts, Ban(r, a, w)
        PROVE  \E q : Starts(r, q)
    <2> DEFINE q == [Asked("ban", a, First) EXCEPT !.whom = w]
    <2>1. q \in Question /\ q.op = "ban"
      BY <1>1, <1>6, WithOthers
    <2>2. Begin(r, q) /\ UNCHANGED <<keyring, room, rows>>
      BY <1>6 DEF Ban, Unsaid
    <2> HIDE DEF q
    <2> QED
      BY <2>1, <2>2, Begun DEF Sealing, Speaking
  <1> QED
    BY <1>3, <1>4, <1>5, <1>6

\* Requests about a post.
LEMMA StartsAtPost ==
  ASSUME Parameters, TypeOK, NEW r \in Requests, NEW a \in Accounts, NEW p \in Posts,
         \/ DeletePost(r, a, p) \/ Comment(r, a, p) \/ React(r, a, p)
         \/ \E due \in {"now", "later"} : Publish(r, a, p, due)
         \/ \E due \in {"now", "later", post[p].due} : Edit(r, a, p, due)
         \/ \E chosen \in SUBSET Options : Vote(r, a, p, chosen)
  PROVE  \E q : Starts(r, q)
  <1>0. epoch \in Epochs /\ post[p].due \in {"now", "later", "past"}
    BY DEF TypeOK, PostRow
  <1>1. ASSUME NEW op \in {"post", "edit", "delete", "comment", "react", "vote"}
        PROVE  /\ Asked(op, a, p) \in Question
               /\ Asked(op, a, p).op = op /\ Asked(op, a, p).post = p
               /\ Asked(op, a, p).by = a
    <2>1. op \in Ops
      BY DEF Ops
    <2> QED
      BY <2>1, AskedAnew
  <1>2. CASE DeletePost(r, a, p)
    <2>1. UNCHANGED <<keyring, room, rows>> /\ Begin(r, Asked("delete", a, p))
      BY <1>2 DEF DeletePost, Unsaid
    <2> QED
      BY <1>1, <2>1, Begun DEF Sealing, Speaking
  <1>3. CASE React(r, a, p)
    <2>1. /\ UNCHANGED <<keyring, room, rows>> /\ Begin(r, Asked("react", a, p)) /\ Live(p)
          /\ a \notin banned
      BY <1>3 DEF React, MaySpeak, Unsaid
    <2> QED
      BY <1>1, <2>1, Begun DEF Sealing, Speaking
  <1>4. CASE Comment(r, a, p)
    <2> DEFINE q == [Asked("comment", a, p) EXCEPT !.epoch = epoch]
    <2>1. q \in Question /\ q.op = "comment" /\ q.post = p /\ q.epoch = epoch /\ q.by = a
      BY <1>0, <1>1, WithEpoch
    <2>2. /\ Begin(r, q) /\ Live(p) /\ UNCHANGED <<keyring, room, rows>>
          /\ a \notin banned
      BY <1>4 DEF Comment, Visible, MaySpeak, Unsaid
    <2> HIDE DEF q
    <2> QED
      BY <2>1, <2>2, Begun DEF Speaking
  <1>5. ASSUME NEW due \in {"now", "later"}, Publish(r, a, p, due)
        PROVE  \E q : Starts(r, q)
    <2> DEFINE q == [Asked("post", a, p) EXCEPT !.epoch = epoch, !.due = due]
    <2>0. /\ due \in {"now", "later", "past"} /\ Asked("post", a, p) \in Question
          /\ Asked("post", a, p).op = "post" /\ Asked("post", a, p).post = p
      BY <1>0, <1>1
    <2>1. q \in Question /\ q.op = "post" /\ q.post = p /\ q.epoch = epoch
      BY <1>0, <2>0 DEF Question
    <2>2. /\ Begin(r, q) /\ UNCHANGED <<keyring, room, rows>>
          /\ post[p].state = "none" /\ \A s \in Running("post") : req[s].post # p
      BY <1>5 DEF Publish, Unsaid
    <2> HIDE DEF q
    <2> QED
      BY <2>1, <2>2, Begun DEF Speaking
  <1>6. ASSUME NEW due \in {"now", "later", post[p].due}, Edit(r, a, p, due)
        PROVE  \E q : Starts(r, q)
    <2> DEFINE q == [Asked("edit", a, p) EXCEPT !.epoch = epoch, !.due = due]
    <2>0. /\ due \in {"now", "later", "past"} /\ Asked("edit", a, p) \in Question
          /\ Asked("edit", a, p).op = "edit" /\ Asked("edit", a, p).post = p
      BY <1>0, <1>1
    <2>1. q \in Question /\ q.op = "edit" /\ q.post = p /\ q.epoch = epoch
      BY <1>0, <2>0 DEF Question
    <2>2. Begin(r, q) /\ Live(p) /\ UNCHANGED <<keyring, room, rows>>
      BY <1>6 DEF Edit, Unsaid
    <2> HIDE DEF q
    <2> QED
      BY <2>1, <2>2, Begun DEF Speaking
  <1>7. ASSUME NEW chosen \in SUBSET Options, Vote(r, a, p, chosen)
        PROVE  \E q : Starts(r, q)
    <2> DEFINE q == [Asked("vote", a, p) EXCEPT !.opts = chosen]
    <2>1. q \in Question /\ q.op = "vote" /\ q.by = a
      BY <1>1, <1>7, WithOthers
    <2>2. Begin(r, q) /\ UNCHANGED <<keyring, room, rows>> /\ a \notin banned
      BY <1>7 DEF Vote, MaySpeak, Unsaid
    <2> HIDE DEF q
    <2> QED
      BY <2>1, <2>2, Begun DEF Sealing, Speaking
  <1> QED
    BY <1>2, <1>3, <1>4, <1>5, <1>6, <1>7

LEMMA CheckedStarts ==
  ASSUME Parameters, TypeOK, NEW r \in Requests, Checked(r)
  PROVE  \E q : Starts(r, q)
  BY StartsElsewhere, StartsAtPost DEF Checked

-----------------------------------------------------------------------------
(* Types, step by step                                                     *)

LEMMA TypeStarts ==
  ASSUME TypeOK, Asking, NEW r \in Requests, NEW q, Starts(r, q)
  PROVE  TypeOK' /\ Asking'
  <1>1. Asking'
    BY DEF Asking, Starts
  <1>2. TypeOK'
    BY DEF TypeOK, Starts, keyring, rows
  <1> QED
    BY <1>1, <1>2

\* What a request carries, as the rows take it over.
LEMMA Carried ==
  ASSUME Asking, NEW r \in Requests
  PROVE  /\ req[r].by \in Accounts /\ req[r].post \in Posts /\ req[r].epoch \in Epochs
         /\ req[r].due \in {"now", "later", "past"} /\ req[r].opts \in SUBSET Options
         /\ req[r].op \in Ops /\ req[r].whom \in Accounts
  BY DEF Asking, Question

\* Steps that tell of posts, or that a post comes due by.
Notice ==
    \/ \E r \in Requests : Announce(r) \/ Wake(r) \/ AnnounceFails(r)
    \/ \E p \in Posts : ComesDue(p) \/ SweepWakes(p)
    \/ Sweep \/ SweepFails \/ ServerStops

LEMMA ShortCut ==
  ASSUME TypeOK, NEW S, CutShort(S)
  PROVE  /\ post' \in [Posts -> PostRow]
         /\ \A p \in Posts :
              /\ post'[p].state = post[p].state /\ post'[p].text = post[p].text
              /\ post'[p].epoch = post[p].epoch /\ post'[p].raced = post[p].raced
              /\ post'[p].due = post[p].due /\ post'[p].notified = post[p].notified
              /\ post'[p].told = post[p].told
              /\ post[p].hushed => post'[p].hushed
              /\ p \in S => post'[p].hushed
  <1>1. ASSUME NEW p \in Posts
        PROVE  /\ post[p] \in PostRow
               /\ post'[p] = IF p \in S THEN [post[p] EXCEPT !.hushed = TRUE] ELSE post[p]
    BY DEF CutShort, TypeOK
  <1>2. ASSUME NEW q \in PostRow
        PROVE  LET x == [q EXCEPT !.hushed = TRUE] IN
               /\ x \in PostRow /\ x.hushed
               /\ x.state = q.state /\ x.text = q.text /\ x.epoch = q.epoch /\ x.raced = q.raced
               /\ x.due = q.due /\ x.notified = q.notified /\ x.told = q.told
    BY DEF PostRow
  <1>3. post' \in [Posts -> PostRow]
    BY <1>1, <1>2 DEF CutShort
  <1>4. ASSUME NEW p \in Posts
        PROVE  /\ post'[p].state = post[p].state /\ post'[p].text = post[p].text
               /\ post'[p].epoch = post[p].epoch /\ post'[p].raced = post[p].raced
               /\ post'[p].due = post[p].due /\ post'[p].notified = post[p].notified
               /\ post'[p].told = post[p].told
               /\ post[p].hushed => post'[p].hushed
               /\ p \in S => post'[p].hushed
    <2>1. CASE p \in S
      BY <1>1, <1>2, <2>1
    <2>2. CASE p \notin S
      BY <1>1, <2>2
    <2> QED
      BY <2>1, <2>2
  <1> QED
    BY <1>3, <1>4

\* They leave what is said alone.
LEMMA Notices ==
  ASSUME Parameters, TypeOK, Asking, Notice
  PROVE  /\ post' \in [Posts -> PostRow] /\ sweeping' \subseteq Posts
         /\ \A p \in Posts :
              /\ post'[p].state = post[p].state /\ post'[p].text = post[p].text
              /\ post'[p].epoch = post[p].epoch /\ post'[p].raced = post[p].raced
         /\ UNCHANGED <<keyring, room, comment, reacted, poll, vote, banned, inbox, doubled>>
  <1> DEFINE Same ==
        /\ post' \in [Posts -> PostRow] /\ sweeping' \subseteq Posts
        /\ \A p \in Posts :
              /\ post'[p].state = post[p].state /\ post'[p].text = post[p].text
              /\ post'[p].epoch = post[p].epoch /\ post'[p].raced = post[p].raced
  <1> DEFINE Moved(q, x) == /\ x \in PostRow /\ x.state = q.state /\ x.text = q.text
                            /\ x.epoch = q.epoch /\ x.raced = q.raced
  <1>0. /\ sweeping \subseteq Posts /\ post \in [Posts -> PostRow]
        /\ \A p \in Posts : post[p] \in PostRow
    BY DEF TypeOK
  <1>7. ASSUME NEW q \in PostRow
        PROVE  /\ Moved(q, q) /\ Moved(q, [q EXCEPT !.notified = TRUE])
               /\ Moved(q, [q EXCEPT !.told = @ + 1]) /\ Moved(q, [q EXCEPT !.due = "past"])
    <2>1. Moved(q, [q EXCEPT !.notified = TRUE])
      BY DEF PostRow
    <2>2. Moved(q, [q EXCEPT !.told = @ + 1])
      BY DEF PostRow
    <2>3. Moved(q, [q EXCEPT !.due = "past"])
      BY DEF PostRow
    <2> QED
      BY <2>1, <2>2, <2>3
  <1>8. ASSUME NEW p \in Posts, NEW x, Moved(post[p], x), post' = [post EXCEPT ![p] = x],
               sweeping' \subseteq sweeping
        PROVE  Same
    BY <1>0, <1>8
  <1>1. ASSUME NEW r \in Requests, Announce(r) \/ Wake(r) PROVE Same
    <2> DEFINE p == req[r].post
    <2>1. p \in Posts
      BY Carried
    <2>2. \/ post' = post
          \/ post' = [post EXCEPT ![p] = [post[p] EXCEPT !.notified = TRUE]]
          \/ post' = [post EXCEPT ![p] = [post[p] EXCEPT !.told = @ + 1]]
      BY <1>1 DEF Announce, Wake
    <2>3. sweeping' = sweeping
      BY <1>1 DEF Announce, Wake
    <2> HIDE DEF p, Moved
    <2> QED
      BY <1>0, <1>7, <1>8, <2>1, <2>2, <2>3
  <1>2. ASSUME NEW r \in Requests, AnnounceFails(r) PROVE Same
    <2>1. UNCHANGED sweeping /\ CutShort({req[r].post})
      BY <1>2 DEF AnnounceFails
    <2> QED
      BY <1>0, <2>1, ShortCut
  <1>3. ASSUME NEW p \in Posts, ComesDue(p) \/ SweepWakes(p) PROVE Same
    <2>1. \/ post' = [post EXCEPT ![p] = [post[p] EXCEPT !.due = "past"]]
          \/ post' = [post EXCEPT ![p] = [post[p] EXCEPT !.told = @ + 1]]
      BY <1>3 DEF ComesDue, SweepWakes
    <2>2. sweeping' \subseteq sweeping
      BY <1>3 DEF ComesDue, SweepWakes
    <2> HIDE DEF Moved
    <2> QED
      BY <1>0, <1>7, <1>8, <2>1, <2>2
  <1>4. ASSUME Sweep PROVE Same
    <2>1. PICK batch \in SUBSET Overdue :
            /\ post' = [p \in Posts |-> IF p \in batch THEN [post[p] EXCEPT !.notified = TRUE]
                                                       ELSE post[p]]
            /\ sweeping' = sweeping \cup batch
      BY <1>4 DEF Sweep
    <2>2. \A p \in Posts : Moved(post[p], post'[p])
      <3> SUFFICES ASSUME NEW p \in Posts PROVE Moved(post[p], post'[p])
        OBVIOUS
      <3>1. post'[p] = post[p] \/ post'[p] = [post[p] EXCEPT !.notified = TRUE]
        BY <2>1
      <3> HIDE DEF Moved
      <3> QED
        BY <1>0, <1>7, <3>1
    <2>3. post' \in [Posts -> PostRow]
      BY <2>1, <2>2
    <2>4. sweeping' \subseteq Posts
      BY <1>0, <2>1 DEF Overdue
    <2> QED
      BY <2>2, <2>3, <2>4
  <1>5. ASSUME SweepFails \/ ServerStops PROVE Same
    <2>1. sweeping' \subseteq sweeping
      BY <1>5 DEF SweepFails, ServerStops
    <2>2. PICK S : CutShort(S)
      BY <1>5 DEF SweepFails, ServerStops
    <2> QED
      BY <1>0, <2>1, <2>2, ShortCut
  <1>6. UNCHANGED <<keyring, room, comment, reacted, poll, vote, banned, inbox, doubled>>
    BY DEF Notice, Announce, Wake, AnnounceFails, ComesDue, SweepWakes, Sweep, SweepFails,
           ServerStops, Unsaid
  <1> QED
    BY <1>1, <1>2, <1>3, <1>4, <1>5, <1>6 DEF Notice

LEMMA TypeKeys ==
  ASSUME Parameters, TypeOK, Asking, NEW r \in Requests,
         ClaimRow(r) \/ AbandonTx(r) \/ ResealRow(r)
  PROVE  TypeOK' /\ Asking'
  <1>0. req[r].by \in Accounts /\ req[r].epoch \in Epochs
    BY Carried
  <1>1. Asking'
    BY RequestFinishes DEF ClaimRow, AbandonTx, ResealRow
  <1>5. keys[req[r].epoch] \in Key
    BY <1>0 DEF TypeOK
  <1>2. CASE ClaimRow(r)
    <2>1. [keys[req[r].epoch] EXCEPT !.by = req[r].by] \in Key
      BY <1>0, <1>5 DEF Key
    <2>2. keys' \in [Epochs -> Key] /\ won' \subseteq Epochs \X Accounts
      BY <1>0, <1>2, <2>1 DEF ClaimRow, TypeOK
    <2> QED
      BY <1>1, <1>2, <2>2 DEF ClaimRow, Finish, TypeOK, rows
  <1>3. CASE AbandonTx(r)
    <2>1. [keys[req[r].epoch] EXCEPT !.abandoned = TRUE] \in Key
      BY <1>0, <1>5 DEF Key
    <2>2. epoch + 1 \in Epochs
      BY <1>3, Values DEF AbandonTx, TypeOK, Epochs
    <2>3. /\ keys' \in [Epochs -> Key] /\ epoch' \in Epochs
          /\ holders' \in [Epochs -> SUBSET Accounts]
      BY <1>0, <1>3, <2>1, <2>2 DEF AbandonTx, TypeOK
    <2> QED
      BY <1>1, <1>3, <2>3 DEF AbandonTx, Finish, TypeOK, rows
  <1>4. CASE ResealRow(r)
    <2>1. meta' \in [label : Epochs, sealed : Epochs]
      BY <1>0, <1>4 DEF ResealRow, TypeOK
    <2> QED
      BY <1>1, <1>4, <2>1 DEF ResealRow, Finish, TypeOK, rows
  <1> QED
    BY <1>2, <1>3, <1>4

LEMMA TypePosts ==
  ASSUME Parameters, TypeOK, Asking, NEW r \in Requests,
         \/ \E asks \in BOOLEAN : PublishWrite(r, asks)
         \/ Announce(r) \/ Wake(r) \/ AnnounceFails(r) \/ EditWrite(r) \/ DeletePostTx(r)
  PROVE  TypeOK' /\ Asking'
  <1>0. /\ req[r].by \in Accounts /\ req[r].post \in Posts /\ req[r].epoch \in Epochs
        /\ req[r].due \in {"now", "later", "past"} /\ post[req[r].post] \in PostRow
        /\ "announce" \in Ops /\ "wake" \in Ops
    BY Carried DEF TypeOK, Ops
  <1>1. Asking'
    BY <1>0, RequestFinishes, RequestGoesOn
       DEF PublishWrite, Announce, Wake, AnnounceFails, EditWrite, DeletePostTx
  <1>2. ASSUME NEW asks \in BOOLEAN, PublishWrite(r, asks)
        PROVE  TypeOK'
    <2>1. [NoPost EXCEPT !.state = "live", !.by = req[r].by, !.text = TRUE,
                         !.epoch = req[r].epoch, !.due = req[r].due] \in PostRow
      BY <1>0, Values DEF PostRow
    <2>2. /\ post' \in [Posts -> PostRow]
          /\ poll' \in [Posts -> {"none", "open", "closed"}]
          /\ made' = made
      BY <1>0, <1>2, <2>1 DEF PublishWrite, TypeOK, GoOn, Finish
    <2> QED
      BY <1>2, <2>2 DEF PublishWrite, TypeOK, Unsaid, keyring
  <1>3. CASE Announce(r) \/ Wake(r) \/ AnnounceFails(r)
    <2>1. Notice /\ made' = made
      BY <1>3 DEF Notice, Announce, Wake, AnnounceFails, GoOn, Finish
    <2>2. /\ post' \in [Posts -> PostRow] /\ sweeping' \subseteq Posts
          /\ UNCHANGED <<keyring, room, comment, reacted, poll, vote, banned, inbox, doubled>>
      BY <2>1, Notices
    <2> QED
      BY <1>1, <2>1, <2>2 DEF TypeOK, keyring
  <1>4. CASE EditWrite(r)
    <2>1. \A h \in BOOLEAN :
            [post[req[r].post] EXCEPT !.text = TRUE, !.epoch = req[r].epoch,
                                      !.due = req[r].due, !.hushed = h] \in PostRow
      BY <1>0 DEF PostRow
    <2>2. post[req[r].post].hushed \in BOOLEAN
      BY <1>0 DEF PostRow
    <2>3. post' \in [Posts -> PostRow] /\ made' = made
      BY <1>0, <1>4, <2>1, <2>2 DEF EditWrite, Finish, TypeOK
    <2>4. UNCHANGED <<keyring, room, sweeping, comment, reacted, poll, vote, banned, inbox,
                      doubled>>
      BY <1>4 DEF EditWrite, Unsaid
    <2> QED
      BY <1>1, <2>3, <2>4 DEF TypeOK, keyring
  <1>5. CASE DeletePostTx(r)
    <2>1. \A x \in BOOLEAN :
            [post[req[r].post] EXCEPT !.state = "deleted", !.text = FALSE, !.raced = x]
              \in PostRow
      BY <1>0 DEF PostRow
    <2>2. post' \in [Posts -> PostRow]
      BY <1>0, <1>5, <2>1 DEF DeletePostTx, TypeOK
    <2>3. /\ poll' \in [Posts -> {"none", "open", "closed"}]
          /\ comment' \subseteq comment /\ reacted' \subseteq reacted /\ vote' \subseteq vote
          /\ made' = made
      BY <1>5 DEF DeletePostTx, Finish, TypeOK
    <2>4. UNCHANGED <<keyring, room, sweeping, banned, inbox, doubled>>
      BY <1>5 DEF DeletePostTx, Unsaid
    <2> QED
      BY <1>1, <2>2, <2>3, <2>4 DEF TypeOK, keyring
  <1> QED
    BY <1>1, <1>2, <1>3, <1>4, <1>5

LEMMA TypeTalk ==
  ASSUME Parameters, TypeOK, Asking, Locked, NEW r \in Requests,
         \/ CommentWrite(r) \/ ReactRow(r) \/ VoteRead(r) \/ VoteWrite(r)
         \/ BanRow(r) \/ InboxRow(r) \/ GoLiveWrite(r)
  PROVE  TypeOK' /\ Asking'
  <1>0. /\ req[r].by \in Accounts /\ req[r].post \in Posts /\ req[r].epoch \in Epochs
        /\ req[r].opts \in SUBSET Options /\ req[r].whom \in Accounts
        /\ req[r] \in Question
    BY Carried DEF Asking
  <1>1. CASE CommentWrite(r) \/ ReactRow(r) \/ InboxRow(r)
    <2>1. Asking' /\ made' = made
      BY <1>1, RequestFinishes DEF CommentWrite, ReactRow, InboxRow, Finish
    <2>2. [post |-> req[r].post, by |-> req[r].by, epoch |-> req[r].epoch] \in CommentRow
      BY <1>0 DEF CommentRow
    <2>3. /\ comment' \subseteq CommentRow /\ reacted' \subseteq Posts \X Accounts
          /\ inbox' \subseteq Accounts
      BY <1>0, <1>1, <2>2 DEF CommentWrite, ReactRow, InboxRow, TypeOK
    <2> QED
      BY <1>1, <2>1, <2>3 DEF CommentWrite, ReactRow, InboxRow, TypeOK, Unsaid, keyring
  <1>2. CASE VoteRead(r)
    <2>1. Own(req[r].post, req[r].by) \in SUBSET (Nat \cup Ballots)
      BY DEF Own, TypeOK, Ballots
    <2>2. [req[r] EXCEPT !.op = "voting", !.seen = Own(req[r].post, req[r].by)] \in Question
      BY <1>0, <2>1 DEF Question, Ops
    <2>3. Asking'
      BY <1>2, <2>2, RequestFinishes DEF VoteRead, Asking
    <2> QED
      BY <1>2, <2>3 DEF VoteRead, Finish, TypeOK, rows, Unsaid, keyring
  <1>3. CASE VoteWrite(r)
    <2>1. vote' \subseteq Posts \X Accounts \X Options /\ doubled' \subseteq Posts \X Accounts
      BY <1>0, <1>3 DEF VoteWrite, TypeOK
    <2> QED
      BY <1>3, <2>1, RequestFinishes DEF VoteWrite, Finish, TypeOK, Unsaid, keyring
  <1>4. CASE BanRow(r)
    <2>1. \A s \in Requests : [req[s] EXCEPT !.late = TRUE] \in Question
      BY DEF Asking, Question
    <2>2. Asking'
      BY <1>4, <2>1, Values DEF BanRow, Asking
    <2>3. banned' \subseteq Accounts
      BY <1>0, <1>4 DEF BanRow, TypeOK
    <2> QED
      BY <1>4, <2>2, <2>3 DEF BanRow, TypeOK, Unsaid, keyring
  <1>5. CASE GoLiveWrite(r)
    <2>3. room' \in Nat
      BY <1>5 DEF GoLiveWrite, TypeOK
    <2>4. Asking' /\ made' = made
      BY <1>5, RequestFinishes DEF GoLiveWrite, Finish
    <2> QED
      BY <1>5, <2>3, <2>4 DEF GoLiveWrite, TypeOK, keyring, rows
  <1> QED
    BY <1>1, <1>2, <1>3, <1>4, <1>5

LEMMA TypeContinues ==
  ASSUME Parameters, TypeOK, Asking, Locked, NEW r \in Requests, Continues(r)
  PROVE  TypeOK' /\ Asking'
  BY TypeKeys, TypePosts, TypeTalk DEF Continues

\* People and time: steps that are no request's.
LEMMA TypeOthers ==
  ASSUME Parameters, TypeOK, Asking,
         \/ \E a \in Accounts :
              \/ Depart(a) \/ Arrive(a) \/ EndLive(a)
              \/ \E c \in comment : DeleteComment(a, c)
              \/ \E p \in Posts : Unreact(a, p)
              \/ \E w \in Accounts : Unban(a, w)
         \/ \E p \in Posts : ComesDue(p) \/ PollCloses(p) \/ SweepWakes(p)
         \/ Sweep \/ SweepFails \/ ServerStops
  PROVE  TypeOK' /\ Asking'
  <1>1. ASSUME NEW a \in Accounts, Depart(a) PROVE TypeOK' /\ Asking'
    <2>1. epoch + 1 \in Epochs
      BY <1>1, Values DEF Depart, TypeOK, Epochs
    <2>2. /\ epoch' \in Epochs /\ members' \subseteq Accounts
          /\ holders' \in [Epochs -> SUBSET Accounts]
      BY <1>1, <2>1 DEF Depart, TypeOK
    <2> QED
      BY <1>1, <2>2, OneMore DEF Depart, TypeOK, Asking, rows
  <1>2. ASSUME NEW a \in Accounts, Arrive(a) PROVE TypeOK' /\ Asking'
    <2>1. members' \subseteq Accounts /\ holders' \in [Epochs -> SUBSET Accounts]
      BY <1>2 DEF Arrive, TypeOK
    <2> QED
      BY <1>2, <2>1, OneMore DEF Arrive, TypeOK, Asking, rows
  <1>3. ASSUME NEW a \in Accounts, EndLive(a) PROVE TypeOK' /\ Asking'
    BY <1>3, OneMore DEF EndLive, TypeOK, Asking, keyring, rows
  <1>4. ASSUME NEW a \in Accounts, \E c \in comment : DeleteComment(a, c)
        PROVE  TypeOK' /\ Asking'
    BY <1>4, OneMore DEF DeleteComment, TypeOK, Asking, Unsaid, keyring
  <1>5. ASSUME NEW a \in Accounts, \E p \in Posts : Unreact(a, p)
        PROVE  TypeOK' /\ Asking'
    BY <1>5, OneMore DEF Unreact, TypeOK, Asking, Unsaid, keyring
  <1>6. ASSUME NEW a \in Accounts, \E w \in Accounts : Unban(a, w)
        PROVE  TypeOK' /\ Asking'
    BY <1>6, OneMore DEF Unban, TypeOK, Asking, Unsaid, keyring
  <1>8. ASSUME NEW p \in Posts, PollCloses(p) PROVE TypeOK' /\ Asking'
    <2>1. poll' \in [Posts -> {"none", "open", "closed"}]
      BY <1>8 DEF PollCloses, TypeOK
    <2> QED
      BY <1>8, <2>1, OneMore DEF PollCloses, TypeOK, Asking, Unsaid, keyring
  <1>9. CASE \/ \E p \in Posts : ComesDue(p) \/ SweepWakes(p)
             \/ Sweep \/ SweepFails \/ ServerStops
    <2>1. Notice
      BY <1>9 DEF Notice
    <2>2. made' \in 0..MaxRequests
      BY <1>9, OneMore DEF ComesDue, SweepWakes, Sweep, SweepFails, ServerStops, TypeOK
    <2>3. Asking'
      BY <1>9, Values DEF ComesDue, SweepWakes, Sweep, SweepFails, ServerStops, Asking
    <2> QED
      BY <2>1, <2>2, <2>3, Notices DEF TypeOK, keyring
  <1> QED
    BY <1>1, <1>2, <1>3, <1>4, <1>5, <1>6, <1>8, <1>9

LEMMA TypeNext ==
  ASSUME Parameters, TypeOK, Asking, Locked, [Next]_vars
  PROVE  TypeOK' /\ Asking'
  <1>1. CASE UNCHANGED vars
    BY <1>1 DEF vars, TypeOK, Asking
  <1>2. CASE \E r \in Requests : Checked(r)
    BY <1>2, CheckedStarts, TypeStarts
  <1>3. CASE \E r \in Requests : Continues(r)
    BY <1>3, TypeContinues
  <1> QED
    BY <1>1, <1>2, <1>3, TypeOthers DEF Next

-----------------------------------------------------------------------------
(* Requests, keys, posts: what a step may do to each                       *)

\* A request goes on with what it had, or is past what the lock and the posts
\* care about.
Keeps ==
    \A s \in Requests :
        \/ /\ req'[s].op = req[s].op /\ req'[s].post = req[s].post
           /\ req'[s].epoch = req[s].epoch /\ req'[s].seen = req[s].seen
        \/ req'[s].op \in {"idle", "announce", "wake", "voting"}

LEMMA OthersKeep ==
  ASSUME Asking, NEW r \in Requests, Continues(r)
  PROVE  Keeps
  <1>1. Idle.op = "idle"
    BY DEF Idle
  <1>2. CASE Finish(r)
    BY <1>1, <1>2 DEF Finish, Keeps, Asking
  <1>3. CASE GoOn(r, "announce") \/ GoOn(r, "wake")
    BY <1>3 DEF GoOn, Keeps, Asking, Question
  <1>4. CASE VoteRead(r)
    BY <1>2, <1>4 DEF VoteRead, Keeps, Asking, Question
  <1>5. CASE BanRow(r)
    BY <1>1, <1>5 DEF BanRow, Keeps, Asking, Question
  <1> QED
    BY <1>2, <1>3, <1>4, <1>5
       DEF Continues, ClaimRow, AbandonTx, ResealRow, PublishWrite, Announce, Wake,
           AnnounceFails, EditWrite, DeletePostTx, CommentWrite, ReactRow, VoteWrite, InboxRow,
           GoLiveWrite

LEMMA RequestSteps ==
  ASSUME Parameters, TypeOK, Asking, [Next]_vars
  PROVE  Keeps \/ \E r \in Requests : \E q : Starts(r, q)
  <1>1. CASE UNCHANGED req
    BY <1>1 DEF Keeps
  <1>2. CASE ServerStops
    BY <1>2 DEF ServerStops, Keeps, Idle
  <1>3. CASE \E r \in Requests : Checked(r)
    BY <1>3, CheckedStarts
  <1>4. CASE \E r \in Requests : Continues(r)
    BY <1>4, OthersKeep
  <1> QED
    BY <1>1, <1>2, <1>3, <1>4
       DEF Next, vars, Depart, Arrive, EndLive, DeleteComment, Unreact, Unban, ComesDue,
           PollCloses, Sweep, SweepWakes, SweepFails

\* The keyring moves by departures and arrivals, claims, re-sealing and giving up.
LEMMA KeySteps ==
  ASSUME Parameters, TypeOK, Asking, [Next]_vars
  PROVE  \/ UNCHANGED keyring
         \/ \E a \in Accounts : Depart(a) \/ Arrive(a)
         \/ \E r \in Requests : ClaimRow(r) \/ AbandonTx(r) \/ ResealRow(r)
  <1>1. CASE UNCHANGED vars
    BY <1>1 DEF vars, keyring
  <1>2. ASSUME NEW r \in Requests, Checked(r) PROVE UNCHANGED keyring
    BY <1>2, CheckedStarts DEF Starts
  <1> QED
    BY <1>1, <1>2
       DEF Next, Continues, PublishWrite, Announce, Wake, AnnounceFails, EditWrite,
           DeletePostTx, CommentWrite, ReactRow, VoteRead, VoteWrite, BanRow, InboxRow,
           GoLiveWrite, EndLive, DeleteComment, Unreact, Unban, ComesDue, PollCloses, Sweep,
           SweepWakes, SweepFails, ServerStops, Unsaid

LEMMA LiveSteps ==
  ASSUME Parameters, TypeOK, Asking, [Next]_vars
  PROVE  \/ UNCHANGED room
         \/ \E a \in Accounts : EndLive(a)
         \/ \E r \in Requests : GoLiveWrite(r)
  <1>1. CASE UNCHANGED vars
    BY <1>1 DEF vars
  <1>2. ASSUME NEW r \in Requests, Checked(r) PROVE UNCHANGED room
    BY <1>2, CheckedStarts DEF Starts
  <1> QED
    BY <1>1, <1>2
       DEF Next, Continues, ClaimRow, AbandonTx, ResealRow, PublishWrite, Announce, Wake,
           AnnounceFails, EditWrite, DeletePostTx, CommentWrite, ReactRow, VoteRead, VoteWrite,
           BanRow, InboxRow, Depart, Arrive, DeleteComment, Unreact, Unban, ComesDue, PollCloses,
           Sweep, SweepWakes, SweepFails, ServerStops, Unsaid

\* A post gets its text and its epoch from the request that publishes or edits it.
Calm ==
    \A p \in Posts :
        /\ post'[p].epoch = post[p].epoch
        /\ post'[p].text => post[p].text
        /\ post'[p].state = "live" => post[p].state = "live"

LEMMA PostSteps ==
  ASSUME Parameters, TypeOK, Asking, [Next]_vars
  PROVE  \/ Calm
         \/ \E r \in Requests : EditWrite(r) \/ \E asks \in BOOLEAN : PublishWrite(r, asks)
  <1>1. CASE UNCHANGED post
    BY <1>1 DEF Calm
  <1>2. ASSUME NEW r \in Requests, Checked(r) PROVE UNCHANGED post
    BY <1>2, CheckedStarts DEF Starts, rows
  <1>3. CASE Notice
    BY <1>3, Notices DEF Calm
  <1>4. ASSUME NEW r \in Requests, DeletePostTx(r) PROVE Calm
    BY <1>4 DEF DeletePostTx, Calm, TypeOK, PostRow
  <1> QED
    BY <1>1, <1>2, <1>3, <1>4
       DEF Next, Notice, vars, rows, Continues, ClaimRow, AbandonTx, ResealRow, CommentWrite,
           ReactRow, VoteRead, VoteWrite, BanRow, InboxRow, GoLiveWrite, Depart, Arrive,
           EndLive, DeleteComment, Unreact, Unban, PollCloses

\* ... and the epoch is the one the request was sealed under.
LEMMA Sealed ==
  ASSUME Parameters, TypeOK, Asking, NEW r \in Requests,
         EditWrite(r) \/ \E asks \in BOOLEAN : PublishWrite(r, asks)
  PROVE  /\ req[r].op \in Sealing
         /\ post'[req[r].post].epoch = req[r].epoch
         /\ \A p \in Posts : p # req[r].post => post'[p] = post[p]
  <1>0. req[r].post \in Posts
    BY Carried
  <1>1. CASE EditWrite(r)
    BY <1>0, <1>1 DEF EditWrite, TypeOK, PostRow, Sealing
  <1>2. ASSUME NEW asks \in BOOLEAN, PublishWrite(r, asks)
        PROVE  /\ req[r].op \in Sealing
               /\ post'[req[r].post].epoch = req[r].epoch
               /\ \A p \in Posts : p # req[r].post => post'[p] = post[p]
    <2>1. /\ req[r].op \in Sealing
          /\ post' = [post EXCEPT ![req[r].post] =
                        [NoPost EXCEPT !.state = "live", !.by = req[r].by, !.text = TRUE,
                                       !.epoch = req[r].epoch, !.due = req[r].due]]
      BY <1>2 DEF PublishWrite, Sealing
    <2>2. [NoPost EXCEPT !.state = "live", !.by = req[r].by, !.text = TRUE,
                         !.epoch = req[r].epoch, !.due = req[r].due].epoch = req[r].epoch
      BY Values DEF PostRow
    <2> QED
      BY <1>0, <2>1, <2>2 DEF TypeOK
  <1> QED
    BY <1>1, <1>2

-----------------------------------------------------------------------------
(* The lock                                                                *)

LEMMA EpochMoves ==
  ASSUME Parameters, TypeOK, Asking, [Next]_vars
  PROVE  epoch' = epoch \/ Unlocked
  BY KeySteps DEF keyring, Depart, Arrive, ClaimRow, AbandonTx, ResealRow

LEMMA LockedNext ==
  ASSUME Parameters, TypeOK, Asking, Locked, [Next]_vars
  PROVE  Locked'
  <1>1. ASSUME NEW r \in Requests, NEW q, Starts(r, q) PROVE Locked'
    <2>1. epoch' = epoch /\ room' = room
      BY <1>1 DEF Starts, keyring
    <2>2. req'[r] = q /\ \A s \in Requests \ {r} : req'[s] = req[s]
      BY <1>1 DEF Starts, Asking
    <2>3. q.op = "golive" => q.seen = {room} /\ \A s \in Requests : req[s].op # "golive"
      BY <1>1 DEF Starts, Unlocked, Excluding, Running
    <2>4. q.op \in Sealing => q.epoch = epoch
      BY <1>1 DEF Starts
    <2> QED
      BY <2>1, <2>2, <2>3, <2>4 DEF Locked
  <1>2. CASE Keeps
    <2>1. {"idle", "announce", "wake", "voting"} \cap Sealing = {}
      BY DEF Sealing
    <2>2. ASSUME NEW s \in Requests, req'[s].op \in Sealing
          PROVE  req'[s].epoch = epoch'
      <3>1. req[s].op = req'[s].op /\ req'[s].epoch = req[s].epoch
        BY <1>2, <2>1, <2>2 DEF Keeps
      <3>2. ~Unlocked
        BY <2>2, <3>1 DEF Unlocked, Sharing, Running, Sealing
      <3> QED
        BY <2>2, <3>1, <3>2, EpochMoves DEF Locked
    <2>3. ASSUME NEW s \in Requests, req'[s].op = "golive"
          PROVE  /\ req'[s].seen = {room'}
                 /\ \A t \in Requests : req'[t].op = "golive" => t = s
      <3>1. /\ req[s].op = "golive" /\ req'[s].seen = req[s].seen
            /\ \A t \in Requests : req'[t].op = "golive" => req[t].op = "golive"
        BY <1>2, <2>3 DEF Keeps
      <3>2. ~ \E a \in Accounts : EndLive(a)
        BY <3>1 DEF EndLive, Unlocked, Excluding, Running
      <3>3. ~ \E r \in Requests : GoLiveWrite(r)
        <4> SUFFICES ASSUME NEW r \in Requests, GoLiveWrite(r) PROVE FALSE
          OBVIOUS
        <4>1. r = s
          BY <3>1 DEF GoLiveWrite, Locked
        <4> QED
          BY <2>3, <4>1 DEF GoLiveWrite, Finish, Idle, Asking
      <3>4. room' = room
        BY <3>2, <3>3, LiveSteps
      <3> QED
        BY <3>1, <3>4 DEF Locked
    <2> QED
      BY <2>2, <2>3 DEF Locked
  <1> QED
    BY <1>1, <1>2, RequestSteps

-----------------------------------------------------------------------------
(* Who holds the key, and who won it                                       *)

LEMMA CurrentNext ==
  ASSUME Parameters, TypeOK, Asking, Current, [Next]_vars
  PROVE  Current'
  <1>1. CASE UNCHANGED keyring
    BY <1>1 DEF keyring, Current
  <1>2. ASSUME NEW a \in Accounts, Depart(a) PROVE Current'
    <2>1. epoch + 1 \in Epochs
      BY <1>2, Values DEF Depart, TypeOK, Epochs
    <2> QED
      BY <1>2, <2>1 DEF Depart, Current, TypeOK
  <1>3. ASSUME NEW a \in Accounts, Arrive(a) PROVE Current'
    BY <1>3 DEF Arrive, Current, TypeOK
  <1>4. ASSUME NEW r \in Requests, AbandonTx(r) PROVE Current'
    <2>1. epoch + 1 \in Epochs
      BY <1>4, Values DEF AbandonTx, TypeOK, Epochs
    <2> QED
      BY <1>4, <2>1 DEF AbandonTx, Current, TypeOK
  <1>5. ASSUME NEW r \in Requests, ClaimRow(r) \/ ResealRow(r) PROVE Current'
    BY <1>5 DEF ClaimRow, ResealRow, Current
  <1> QED
    BY <1>1, <1>2, <1>3, <1>4, <1>5, KeySteps

\* Nobody wins an epoch that has a key.
LEMMA WonNext ==
  ASSUME Parameters, TypeOK, Asking, Keyed, [Next]_vars
  PROVE  \A x \in won' : keys'[x[1]].by = x[2]
  <1>1. CASE UNCHANGED <<keys, won>>
    BY <1>1 DEF Keyed
  <1>2. ASSUME NEW r \in Requests, ClaimRow(r)
        PROVE  \A x \in won' : keys'[x[1]].by = x[2]
    <2> DEFINE e == req[r].epoch
               a == req[r].by
    <2>0. e \in Epochs /\ a \in Accounts
      BY Carried
    <2>1. \A d \in Epochs : d # e => keys'[d] = keys[d]
      BY <1>2 DEF ClaimRow, TypeOK
    <2>2. keys[e].by # Nobody => keys'[e] = keys[e]
      BY <1>2 DEF ClaimRow
    <2>3. \A x \in won : x[1] = e => keys[e].by # Nobody
      BY DEF Keyed, TypeOK, Parameters
    <2>4. \A x \in won : x[1] \in Epochs /\ keys'[x[1]].by = x[2]
      BY <2>1, <2>2, <2>3 DEF Keyed, TypeOK
    <2>5. \A x \in won' \ won : x = <<e, a>> /\ keys'[e].by = a
      BY <1>2 DEF ClaimRow
    <2> QED
      BY <2>4, <2>5
  <1>3. ASSUME NEW r \in Requests, AbandonTx(r)
        PROVE  \A x \in won' : keys'[x[1]].by = x[2]
    <2>1. \A e \in Epochs : keys'[e].by = keys[e].by
      BY <1>3 DEF AbandonTx, TypeOK, Key
    <2>2. won' = won
      BY <1>3 DEF AbandonTx
    <2> QED
      BY <2>1, <2>2 DEF Keyed, TypeOK
  <1> QED
    BY <1>1, <1>2, <1>3, KeySteps DEF keyring, Depart, Arrive, ResealRow

\* An epoch is given up when it is the current one, and is the current one no more.
LEMMA AbandonedNext ==
  ASSUME Parameters, TypeOK, Asking, Locked, Keyed, [Next]_vars
  PROVE  /\ \A e \in Epochs : keys'[e].abandoned => e < epoch'
         /\ \A p \in Posts : Live(p)' => ~keys'[post'[p].epoch].abandoned
  <1> DEFINE Past == \A e \in Epochs : keys'[e].abandoned => e < epoch'
             Fresh == \A p \in Posts : Live(p)' => ~keys'[post'[p].epoch].abandoned
  <1>0. \A p \in Posts : post[p].epoch \in Epochs
    BY DEF TypeOK, PostRow
  <1>1. ASSUME NEW r \in Requests, AbandonTx(r) PROVE Past /\ Fresh
    <2> DEFINE e == req[r].epoch
    <2>0. e \in Epochs
      BY Carried
    <2>1. UNCHANGED post
      BY <1>1 DEF AbandonTx, rows
    <2>2. CASE UNCHANGED <<keys, epoch>>
      BY <2>1, <2>2 DEF Keyed, Live
    <2>3. CASE e = epoch /\ (\A p \in Posts : Live(p) => post[p].epoch # e) /\ epoch' = epoch + 1
      <3>1. \A d \in Epochs : d # e => keys'[d] = keys[d]
        BY <1>1 DEF AbandonTx, TypeOK
      <3>2. epoch \in Nat /\ \A d \in Epochs : d \in Nat
        BY DEF TypeOK, Epochs
      <3>3. Past
        BY <2>3, <3>1, <3>2 DEF Keyed
      <3>4. Fresh
        BY <1>0, <2>1, <2>3, <3>1 DEF Keyed, Live
      <3> QED
        BY <3>3, <3>4
    <2> QED
      BY <1>1, <2>2, <2>3 DEF AbandonTx
  <1>2. CASE ~ \E r \in Requests : AbandonTx(r)
    <2>1. \A e \in Epochs : keys'[e].abandoned = keys[e].abandoned
      <3>1. ASSUME NEW r \in Requests, ClaimRow(r)
            PROVE  \A e \in Epochs : keys'[e].abandoned = keys[e].abandoned
        BY <3>1 DEF ClaimRow, TypeOK, Key
      <3> QED
        BY <1>2, <3>1, KeySteps DEF keyring, Depart, Arrive, ResealRow
    <2>2. epoch' = epoch \/ epoch' = epoch + 1
      BY <1>2, KeySteps DEF keyring, Depart, Arrive, ResealRow, ClaimRow
    <2>3. Past
      <3>1. epoch \in Nat /\ \A d \in Epochs : d \in Nat
        BY DEF TypeOK, Epochs
      <3> QED
        BY <2>1, <2>2, <3>1 DEF Keyed
    <2>4. CASE Calm
      BY <1>0, <2>1, <2>3, <2>4 DEF Calm, Keyed, Live
    <2>5. ASSUME NEW r \in Requests,
                 EditWrite(r) \/ \E asks \in BOOLEAN : PublishWrite(r, asks)
          PROVE  Fresh
      <3> DEFINE q == req[r].post
      <3>0. q \in Posts /\ epoch \in Epochs
        BY Carried DEF TypeOK
      <3>1. req[r].epoch = epoch
        BY <2>5, Sealed DEF Locked
      <3>2. post'[q].epoch = epoch /\ \A p \in Posts : p # q => post'[p] = post[p]
        BY <2>5, <3>1, Sealed
      <3>3. ~keys[epoch].abandoned
        BY <3>0 DEF Keyed, Epochs
      <3> QED
        BY <1>0, <2>1, <3>0, <3>2, <3>3 DEF Keyed, Live
    <2> QED
      BY <2>3, <2>4, <2>5, PostSteps
  <1> QED
    BY <1>1, <1>2

LEMMA KeyedNext ==
  ASSUME Parameters, TypeOK, Asking, Locked, Keyed, [Next]_vars
  PROVE  Keyed'
  BY WonNext, AbandonedNext DEF Keyed

-----------------------------------------------------------------------------
(* What hangs off a post                                                   *)

\* A post being published is not there yet, and no other request publishes it.
Placed ==
    \A r \in Requests : req[r].op = "post" =>
        /\ post[req[r].post].state = "none"
        /\ \A s \in Requests : req[s].op = "post" /\ req[s].post = req[r].post => s = r

\* There, or deleted while a request that had found it there was under way.
Found(p) == post[p].state = "live" \/ (post[p].state = "deleted" /\ post[p].raced)

\* A post has a poll while it is there, and votes while it has a poll; what is
\* said under it is said while it is there, or by a request that found it there.
Polled(p) ==
    /\ post[p].state # "live" => poll[p] = "none"
    /\ poll[p] = "none" => \A v \in vote : v[1] # p

Reached(p) ==
    \A r \in Requests : req[r].op \in {"edit", "comment", "react"} /\ req[r].post = p => Found(p)

Bare(p) ==
    \/ Found(p)
    \/ /\ post[p].state = "deleted" => ~post[p].text
       /\ \A c \in comment : c.post # p
       /\ \A x \in reacted : x[1] # p

Blank == \A p \in Posts : Polled(p) /\ Reached(p) /\ Bare(p)

\* Nothing new under any post, and nothing of it gone but by its own hand.
Quiet ==
    /\ \A p \in Posts :
         /\ post'[p].state = post[p].state /\ post'[p].text = post[p].text
         /\ post'[p].raced = post[p].raced
         /\ poll'[p] = "none" <=> poll[p] = "none"
    /\ comment' \subseteq comment /\ reacted' \subseteq reacted /\ vote' = vote
    /\ doubled' = doubled

Writes(r) ==
    \/ \E asks \in BOOLEAN : PublishWrite(r, asks)
    \/ EditWrite(r) \/ DeletePostTx(r) \/ CommentWrite(r) \/ ReactRow(r) \/ VoteWrite(r)

LEMMA RowSteps ==
  ASSUME Parameters, TypeOK, Asking, [Next]_vars
  PROVE  \/ Quiet /\ Keeps
         \/ Quiet /\ \E r \in Requests : \E q : Starts(r, q)
         \/ Keeps /\ \E r \in Requests : Writes(r)
  <1>0. Notice => Quiet
    BY Notices DEF Quiet
  <1>1. CASE UNCHANGED rows /\ UNCHANGED req
    BY <1>1 DEF rows, Quiet, Keeps
  <1>2. CASE UNCHANGED vars
    BY <1>1, <1>2 DEF vars, rows
  <1>3. ASSUME NEW r \in Requests, Checked(r) PROVE Quiet /\ \E q : Starts(r, q)
    BY <1>3, CheckedStarts DEF Starts, rows, Quiet
  <1>4. ASSUME NEW r \in Requests, Continues(r) PROVE Keeps /\ (Quiet \/ Writes(r))
    <2>1. Keeps
      BY <1>4, OthersKeep
    <2>2. CASE Announce(r) \/ Wake(r) \/ AnnounceFails(r)
      BY <1>0, <2>1, <2>2 DEF Notice
    <2>3. CASE UNCHANGED <<post, comment, reacted, poll, vote, doubled>>
      BY <2>1, <2>3 DEF Quiet
    <2>4. CASE Writes(r)
      BY <2>1, <2>4
    <2> QED
      BY <1>4, <2>2, <2>3, <2>4
         DEF Continues, Writes, ClaimRow, AbandonTx, ResealRow, VoteRead, BanRow, InboxRow,
             GoLiveWrite, rows
  <1>5. ASSUME NEW a \in Accounts, Depart(a) \/ Arrive(a) \/ EndLive(a) PROVE Quiet /\ Keeps
    <2>1. UNCHANGED <<rows, req>>
      BY <1>5 DEF Depart, Arrive, EndLive
    <2> QED
      BY <2>1 DEF rows, Quiet, Keeps
  <1>6. ASSUME NEW a \in Accounts,
               \/ \E c \in comment : DeleteComment(a, c)
               \/ \E p \in Posts : Unreact(a, p)
               \/ \E w \in Accounts : Unban(a, w)
        PROVE  Quiet /\ Keeps
    BY <1>6 DEF DeleteComment, Unreact, Unban, Quiet, Keeps
  <1>8. ASSUME NEW p \in Posts, PollCloses(p) PROVE Quiet /\ Keeps
    BY <1>8 DEF PollCloses, Quiet, Keeps, TypeOK
  <1>9. CASE \/ \E p \in Posts : ComesDue(p) \/ SweepWakes(p)
             \/ Sweep \/ SweepFails \/ ServerStops
    <2>1. Keeps
      BY <1>9 DEF ComesDue, SweepWakes, Sweep, SweepFails, ServerStops, Keeps, Idle
    <2> QED
      BY <1>0, <1>9, <2>1 DEF Notice
  <1> QED
    BY <1>2, <1>3, <1>4, <1>5, <1>6, <1>8, <1>9 DEF Next

\* How a post's state moves: published from none, deleted from live.
LEMMA States ==
  ASSUME Parameters, TypeOK, Asking, NEW r \in Requests, Writes(r), NEW p \in Posts
  PROVE  \/ post'[p].state = post[p].state
         \/ req[r].op = "post" /\ req[r].post = p /\ post'[p].state = "live"
         \/ post[p].state = "live" /\ post'[p].state = "deleted"
  <1>0. req[r].post \in Posts
    BY Carried
  <1>1. ASSUME NEW asks \in BOOLEAN, PublishWrite(r, asks)
        PROVE  /\ req[r].op = "post" /\ post'[req[r].post].state = "live"
               /\ p # req[r].post => post'[p] = post[p]
    <2>1. [NoPost EXCEPT !.state = "live", !.by = req[r].by, !.text = TRUE,
                         !.epoch = req[r].epoch, !.due = req[r].due].state = "live"
      BY Values DEF PostRow
    <2> QED
      BY <1>0, <1>1, <2>1 DEF PublishWrite, TypeOK
  <1>2. CASE EditWrite(r)
    BY <1>0, <1>2 DEF EditWrite, TypeOK, PostRow
  <1>3. CASE DeletePostTx(r)
    BY <1>0, <1>3 DEF DeletePostTx, Live, TypeOK, PostRow
  <1> QED
    BY <1>1, <1>2, <1>3 DEF Writes, CommentWrite, ReactRow, VoteWrite

LEMMA PlacedNext ==
  ASSUME Parameters, TypeOK, Asking, Placed, [Next]_vars
  PROVE  Placed'
  <1>0. \A r \in Requests : req[r].post \in Posts
    BY Carried
  <1>1. CASE Quiet /\ Keeps
    BY <1>0, <1>1 DEF Quiet, Keeps, Placed
  <1>2. ASSUME Quiet, NEW r \in Requests, NEW q, Starts(r, q) PROVE Placed'
    <2>1. req'[r] = q /\ \A s \in Requests \ {r} : req'[s] = req[s]
      BY <1>2 DEF Starts, Asking
    <2>2. q.op = "post" => /\ post[q.post].state = "none"
                          /\ \A s \in Requests : req[s].op = "post" => req[s].post # q.post
      BY <1>2 DEF Starts, Running
    <2>3. post' = post
      BY <1>2 DEF Starts, rows
    <2> QED
      BY <2>1, <2>2, <2>3 DEF Placed
  <1>3. ASSUME Keeps, NEW r \in Requests, Writes(r) PROVE Placed'
    <2>1. Finish(r) \/ GoOn(r, "announce")
      BY <1>3 DEF Writes, PublishWrite, EditWrite, DeletePostTx, CommentWrite, ReactRow, VoteWrite
    <2>2. req'[r].op # "post" /\ \A s \in Requests \ {r} : req'[s] = req[s]
      BY <2>1 DEF Finish, GoOn, Idle, Asking, Question
    <2> QED
      BY <1>0, <1>3, <2>2, States DEF Placed
  <1> QED
    BY <1>1, <1>2, <1>3, RowSteps

\* Nothing under a post changes but by the six that write.
LEMMA QuietKeepsBlank ==
  ASSUME Blank, Quiet
  PROVE  /\ \A p \in Posts : Polled(p)' /\ Bare(p)' /\ (Found(p)' <=> Found(p))
         /\ Keeps => Blank'
  <1>1. ASSUME NEW p \in Posts PROVE Polled(p)' /\ Bare(p)' /\ (Found(p)' <=> Found(p))
    BY DEF Quiet, Blank, Polled, Bare, Found
  <1>2. ASSUME Keeps, NEW p \in Posts PROVE Reached(p)'
    BY <1>1, <1>2 DEF Keeps, Blank, Reached
  <1> QED
    BY <1>1, <1>2 DEF Blank

\* The row of a post that is published, and of one that is deleted.
LEMMA Rows ==
  ASSUME Parameters, TypeOK, Asking, NEW r \in Requests
  PROVE  /\ \A asks \in BOOLEAN : PublishWrite(r, asks) =>
              /\ post'[req[r].post].state = "live"
              /\ \A p \in Posts \ {req[r].post} : post'[p] = post[p] /\ poll'[p] = poll[p]
         /\ EditWrite(r) => \A p \in Posts :
              /\ post'[p].state = post[p].state /\ post'[p].raced = post[p].raced
              /\ p # req[r].post => post'[p].text = post[p].text
         /\ DeletePostTx(r) =>
              /\ \A p \in Posts \ {req[r].post} : post'[p] = post[p] /\ poll'[p] = poll[p]
              /\ Live(req[r].post) =>
                   /\ post'[req[r].post].state = "deleted" /\ poll'[req[r].post] = "none"
                   /\ ~post'[req[r].post].text
                   /\ post'[req[r].post].raced <=>
                        \E s \in Requests : /\ req[s].op \in {"edit", "comment", "react"}
                                            /\ req[s].post = req[r].post
  <1>0. req[r].post \in Posts
    BY Carried
  <1>1. ASSUME NEW asks \in BOOLEAN, PublishWrite(r, asks)
        PROVE  /\ post'[req[r].post].state = "live"
               /\ \A p \in Posts \ {req[r].post} : post'[p] = post[p] /\ poll'[p] = poll[p]
    <2>1. [NoPost EXCEPT !.state = "live", !.by = req[r].by, !.text = TRUE,
                         !.epoch = req[r].epoch, !.due = req[r].due].state = "live"
      BY Values DEF PostRow
    <2> QED
      BY <1>0, <1>1, <2>1 DEF PublishWrite, TypeOK
  <1>2. ASSUME EditWrite(r)
        PROVE  \A p \in Posts :
              /\ post'[p].state = post[p].state /\ post'[p].raced = post[p].raced
              /\ p # req[r].post => post'[p].text = post[p].text
    <2> TAKE p \in Posts
    <2>1. CASE p = req[r].post
      BY <1>2, <2>1 DEF EditWrite, TypeOK, PostRow
    <2>2. CASE p # req[r].post
      BY <1>0, <1>2, <2>2 DEF EditWrite, TypeOK
    <2> QED
      BY <2>1, <2>2
  <1>3. ASSUME DeletePostTx(r)
        PROVE  \A p \in Posts \ {req[r].post} : post'[p] = post[p] /\ poll'[p] = poll[p]
    BY <1>0, <1>3 DEF DeletePostTx, TypeOK
  <1>4. ASSUME DeletePostTx(r), Live(req[r].post)
        PROVE  /\ post'[req[r].post].state = "deleted" /\ poll'[req[r].post] = "none"
               /\ ~post'[req[r].post].text
               /\ post'[req[r].post].raced <=>
                    \E s \in Requests : /\ req[s].op \in {"edit", "comment", "react"}
                                        /\ req[s].post = req[r].post
    BY <1>0, <1>4 DEF DeletePostTx, TypeOK, PostRow
  <1> QED
    BY <1>1, <1>2, <1>3, <1>4

LEMMA BlankNext ==
  ASSUME Parameters, TypeOK, Asking, Placed, Blank, [Next]_vars
  PROVE  Blank'
  <1>0. \A r \in Requests : req[r].post \in Posts
    BY Carried
  <1>1. CASE Quiet /\ Keeps
    BY <1>1, QuietKeepsBlank
  <1>2. ASSUME Quiet, NEW r \in Requests, NEW q, Starts(r, q) PROVE Blank'
    <2>1. req'[r] = q /\ \A s \in Requests \ {r} : req'[s] = req[s]
      BY <1>2 DEF Starts, Asking
    <2>2. q.op \in {"edit", "comment", "react"} => Found(q.post)
      <3>1. q.op \in {"edit", "comment", "react"} => Live(q.post)
        BY <1>2 DEF Starts
      <3> QED
        BY <3>1 DEF Live, Found
    <2>3. \A p \in Posts : Reached(p)'
      BY <1>2, <2>1, <2>2, QuietKeepsBlank DEF Blank, Reached
    <2> QED
      BY <1>2, <2>3, QuietKeepsBlank DEF Blank
  <1>3. ASSUME Keeps, NEW r \in Requests, Writes(r), NEW p \in Posts
        PROVE  Polled(p)' /\ Reached(p)' /\ Bare(p)'
    <2> DEFINE q == req[r].post
    <2>0. q \in Posts /\ Polled(p) /\ Reached(p) /\ Bare(p) /\ Polled(q) /\ Reached(q)
      BY <1>0 DEF Blank
    <2>1. ASSUME NEW asks \in BOOLEAN, PublishWrite(r, asks)
          PROVE  Polled(p)' /\ Reached(p)' /\ Bare(p)'
      <3>1. post[q].state = "none" /\ poll[q] = "none" /\ \A v \in vote : v[1] # q
        BY <2>0, <2>1 DEF PublishWrite, Placed, Polled
      <3>2. vote' = vote /\ comment' = comment /\ reacted' = reacted
        BY <2>1 DEF PublishWrite
      <3>3. CASE p = q
        <4>1. post'[p].state = "live"
          BY <2>1, <3>3, Rows
        <4> QED
          BY <3>1, <3>2, <3>3, <4>1 DEF Polled, Reached, Bare, Found
      <3>4. CASE p # q
        BY <1>3, <2>0, <2>1, <3>2, <3>4, Rows DEF Polled, Reached, Bare, Found, Keeps
      <3> QED
        BY <3>3, <3>4
    <2>2. CASE EditWrite(r)
      <3>1. UNCHANGED <<poll, vote, comment, reacted>> /\ req[r].op = "edit"
        BY <2>2 DEF EditWrite
      <3>2. Found(q)
        BY <2>0, <3>1 DEF Reached
      <3>3. \A s \in Posts : Found(s)' <=> Found(s)
        BY <2>2, Rows DEF Found
      <3>4. Polled(p)'
        BY <2>0, <2>2, <3>1, Rows DEF Polled
      <3>5. Reached(p)'
        BY <1>3, <2>0, <3>3 DEF Reached, Keeps
      <3>6. Bare(p)'
        BY <2>0, <2>2, <3>1, <3>2, <3>3, Rows DEF Bare
      <3> QED
        BY <3>4, <3>5, <3>6
    <2>3. CASE DeletePostTx(r)
      <3>1. CASE Live(q) /\ p = q
        <4>1. /\ \A c \in comment' : c.post # p
              /\ \A x \in reacted' : x[1] # p
              /\ \A v \in vote' : v[1] # p
          BY <2>3, <3>1 DEF DeletePostTx
        <4>2. Polled(p)' /\ Bare(p)'
          BY <2>3, <3>1, <4>1, Rows DEF Polled, Bare
        <4>3. Reached(p)'
          BY <1>3, <2>3, <3>1, Rows DEF Reached, Found, Keeps
        <4> QED
          BY <4>2, <4>3
      <3>2. CASE ~(Live(q) /\ p = q)
        <4>1. post'[p] = post[p] /\ poll'[p] = poll[p]
          BY <2>0, <2>3, <3>2, Rows DEF DeletePostTx
        <4>2. comment' \subseteq comment /\ reacted' \subseteq reacted /\ vote' \subseteq vote
          BY <2>3 DEF DeletePostTx
        <4>3. Polled(p)' /\ Bare(p)' /\ (Found(p)' <=> Found(p))
          BY <2>0, <4>1, <4>2 DEF Polled, Bare, Found
        <4> QED
          BY <1>3, <2>0, <4>3 DEF Reached, Keeps
      <3> QED
        BY <3>1, <3>2
    <2>4. CASE CommentWrite(r) \/ ReactRow(r) \/ VoteWrite(r)
      <3>1. UNCHANGED <<post, poll>>
        BY <2>4 DEF CommentWrite, ReactRow, VoteWrite
      <3>2. Reached(p)' /\ (Found(p)' <=> Found(p))
        BY <1>3, <2>0, <3>1 DEF Reached, Found, Keeps
      <3>3. /\ req[r].op \in {"comment", "react"} => Found(q)
            /\ \A v \in {<<q, req[r].by, o>> : o \in req[r].opts} : v[1] = q
        BY <2>0 DEF Reached
      <3>4. /\ \A c \in comment' : c \in comment \/ (c.post = q /\ Found(q))
            /\ \A x \in reacted' : x \in reacted \/ (x[1] = q /\ Found(q))
            /\ \A v \in vote' : v \in vote \/ (v[1] = q /\ poll[q] # "none")
        <4>1. CASE CommentWrite(r)
          BY <3>3, <4>1 DEF CommentWrite
        <4>2. CASE ReactRow(r)
          BY <3>3, <4>2 DEF ReactRow
        <4>3. CASE VoteWrite(r)
          BY <3>3, <4>3 DEF VoteWrite
        <4> QED
          BY <2>4, <4>1, <4>2, <4>3
      <3>6. Polled(p)'
        BY <2>0, <3>1, <3>4 DEF Polled
      <3>7. Bare(p)'
        BY <2>0, <3>1, <3>2, <3>4 DEF Bare
      <3> QED
        BY <3>2, <3>6, <3>7
    <2> QED
      BY <1>3, <2>1, <2>2, <2>3, <2>4 DEF Writes
  <1> QED
    BY <1>1, <1>2, <1>3, RowSteps DEF Blank

-----------------------------------------------------------------------------
(* Announcements                                                           *)

Wakes(r, p)     == req[r].op = "wake" /\ req[r].post = p
Announces(r, p) == req[r].op = "announce" /\ req[r].post = p

\* A post is claimed once, by one request or one sweep, and told of by that.
Claim1(p) ==
    /\ post[p].told <= 1
    /\ post[p].state = "none" => ~post[p].notified
    /\ ~post[p].notified => post[p].told = 0
    /\ p \in sweeping => post[p].notified /\ post[p].told = 0
    /\ \A r \in Requests : Wakes(r, p) =>
         /\ post[p].notified /\ post[p].told = 0 /\ p \notin sweeping
         /\ \A s \in Requests : Wakes(s, p) => s = r

Claimed == \A p \in Posts : Claim1(p)

\* What is claimed is told of, or was being told of when that was cut short.
Follow1(p) ==
    post[p].notified =>
        \/ post[p].told > 0 \/ p \in sweeping
        \/ \E r \in Requests : Wakes(r, p)
        \/ post[p].hushed

Followed == \A p \in Posts : Follow1(p)

\* What is out and not claimed is about to be, or the next sweep's.
Await1(p) ==
    Visible(p) /\ ~post[p].notified =>
        \/ \E r \in Requests : Announces(r, p)
        \/ post[p].due = "past"
        \/ post[p].hushed

Awaited == \A p \in Posts : Await1(p)

\* Whoever announces or wakes goes on, and nobody else begins to wake.
Announcing ==
    /\ \A s \in Requests : req[s].op \in {"announce", "wake"} =>
                             req'[s].op = req[s].op /\ req'[s].post = req[s].post
    /\ \A s \in Requests : req'[s].op = "wake" => req[s].op = "wake"

LEMMA NoticeSteps ==
  ASSUME Parameters, TypeOK, Asking, [Next]_vars
  PROVE  \/ UNCHANGED <<post, sweeping>> /\ Announcing
         \/ \E r \in Requests :
              \/ Announce(r) \/ Wake(r) \/ AnnounceFails(r)
              \/ Announcing /\ EditWrite(r)
              \/ Announcing /\ DeletePostTx(r)
              \/ Announcing /\ \E asks \in BOOLEAN : PublishWrite(r, asks)
         \/ \E p \in Posts : ComesDue(p) \/ SweepWakes(p)
         \/ Sweep \/ SweepFails \/ ServerStops
  <1>1. ASSUME UNCHANGED req PROVE Announcing
    BY <1>1 DEF Announcing
  <1>2. ASSUME NEW r \in Requests, Checked(r) PROVE UNCHANGED <<post, sweeping>> /\ Announcing
    <2>1. PICK q : Starts(r, q)
      BY <1>2, CheckedStarts
    <2>2. UNCHANGED <<post, sweeping>>
      BY <2>1 DEF Starts, rows
    <2>3. /\ req[r] = Idle /\ req'[r] = q /\ q.op \notin {"announce", "wake"}
          /\ \A s \in Requests \ {r} : req'[s] = req[s]
      BY <2>1 DEF Starts, Asking
    <2> QED
      BY <2>2, <2>3 DEF Announcing, Idle
  <1>3. ASSUME NEW r \in Requests, Continues(r), ~(Announce(r) \/ Wake(r) \/ AnnounceFails(r))
        PROVE  Announcing
    <2>1. CASE req[r].op \notin {"announce", "wake"} /\ (Finish(r) \/ GoOn(r, "announce"))
      BY <2>1 DEF Finish, GoOn, Announcing, Asking, Question, Idle
    <2>2. CASE VoteRead(r)
      BY <2>1, <2>2 DEF VoteRead, Announcing, Asking, Question
    <2>3. CASE BanRow(r)
      BY <2>3 DEF BanRow, Announcing, Asking, Question, Idle
    <2> QED
      BY <1>3, <2>1, <2>2, <2>3
         DEF Continues, ClaimRow, AbandonTx, ResealRow, PublishWrite, EditWrite,
             DeletePostTx, CommentWrite, ReactRow, VoteWrite, InboxRow, GoLiveWrite
  <1>4. ASSUME NEW r \in Requests, Continues(r),
               ~(Announce(r) \/ Wake(r) \/ AnnounceFails(r) \/ EditWrite(r) \/ DeletePostTx(r)
                 \/ \E asks \in BOOLEAN : PublishWrite(r, asks))
        PROVE  UNCHANGED <<post, sweeping>>
    BY <1>4
       DEF Continues, rows, ClaimRow, AbandonTx, ResealRow, CommentWrite, ReactRow, VoteRead,
           VoteWrite, BanRow, InboxRow, GoLiveWrite
  <1>5. UNCHANGED vars => UNCHANGED <<post, sweeping>> /\ UNCHANGED req
    BY DEF vars
  <1>6. ASSUME NEW a \in Accounts,
               \/ Depart(a) \/ Arrive(a) \/ EndLive(a)
               \/ \E c \in comment : DeleteComment(a, c)
               \/ \E p \in Posts : Unreact(a, p)
               \/ \E w \in Accounts : Unban(a, w)
        PROVE  UNCHANGED <<post, sweeping>> /\ UNCHANGED req
    BY <1>6 DEF rows, Depart, Arrive, EndLive, DeleteComment, Unreact, Unban
  <1>7. ASSUME NEW p \in Posts, PollCloses(p) PROVE UNCHANGED <<post, sweeping>> /\ UNCHANGED req
    BY <1>7 DEF PollCloses
  <1> QED
    BY <1>1, <1>2, <1>3, <1>4, <1>5, <1>6, <1>7 DEF Next

\* Only a post that is not there has its row replaced.
LEMMA Published ==
  ASSUME Parameters, TypeOK, Asking, NEW r \in Requests, NEW asks \in BOOLEAN,
         PublishWrite(r, asks)
  PROVE  LET q == post'[req[r].post] IN
         /\ q.state = "live" /\ q.due = req[r].due /\ ~q.notified /\ q.told = 0
         /\ \A p \in Posts \ {req[r].post} : post'[p] = post[p]
         /\ req[r].due = "now" => req'[r].op = "announce" /\ req'[r].post = req[r].post
  <1> DEFINE new == [NoPost EXCEPT !.state = "live", !.by = req[r].by, !.text = TRUE,
                                   !.epoch = req[r].epoch, !.due = req[r].due]
  <1>0. req[r].post \in Posts
    BY Carried
  <1>1. new.state = "live" /\ new.due = req[r].due /\ ~new.notified /\ new.told = 0
    BY Values DEF PostRow, NoPost
  <1>2. post' = [post EXCEPT ![req[r].post] = new]
    BY DEF PublishWrite
  <1>3. req[r].due = "now" => req'[r].op = "announce" /\ req'[r].post = req[r].post
    BY DEF PublishWrite, GoOn, Asking, Question
  <1> HIDE DEF new
  <1> QED
    BY <1>0, <1>1, <1>2, <1>3 DEF TypeOK

LEMMA ClaimedNext ==
  ASSUME Parameters, TypeOK, Asking, Placed, Claimed, [Next]_vars
  PROVE  Claimed'
  <1> SUFFICES ASSUME NEW p \in Posts PROVE Claim1(p)'
    BY DEF Claimed
  <1>0. /\ Claim1(p) /\ post[p] \in PostRow /\ \A r \in Requests : req[r].post \in Posts
        /\ post \in [Posts -> PostRow]
    BY Carried DEF Claimed, TypeOK
  <1>1. ASSUME /\ post'[p].told = post[p].told /\ post'[p].notified = post[p].notified
               /\ post'[p].state = "none" => post[p].state = "none",
               p \in sweeping' => p \in sweeping,
               \A s \in Requests : Wakes(s, p)' => Wakes(s, p)
        PROVE  Claim1(p)'
    BY <1>0, <1>1 DEF Claim1
  <1>2. ASSUME Announcing PROVE \A s \in Requests : Wakes(s, p)' => Wakes(s, p)
    BY <1>2 DEF Announcing, Wakes
  <1>3. ASSUME NEW r \in Requests, Finish(r)
        PROVE  \A s \in Requests : Wakes(s, p)' => Wakes(s, p) /\ s # r
    BY <1>3 DEF Finish, Wakes, Idle, Asking
  <1>4. CASE UNCHANGED <<post, sweeping>> /\ Announcing
    BY <1>1, <1>2, <1>4
  <1>5. ASSUME NEW r \in Requests, Announce(r) PROVE Claim1(p)'
    <2>0. UNCHANGED sweeping
      BY <1>5 DEF Announce
    <2>1. CASE UNCHANGED post /\ Finish(r)
      BY <1>1, <1>3, <2>0, <2>1
    <2>2. CASE /\ ~post[req[r].post].notified /\ GoOn(r, "wake") /\ req[r].op = "announce"
               /\ Live(req[r].post)
               /\ post' = [post EXCEPT ![req[r].post].notified = TRUE]
      <3>1. \A s \in Requests : Wakes(s, p)' => Wakes(s, p) \/ (s = r /\ p = req[r].post)
        BY <2>2 DEF GoOn, Wakes, Asking, Question
      <3>2. CASE p # req[r].post
        <4>1. post'[p] = post[p]
          BY <1>0, <2>2, <3>2
        <4> QED
          BY <1>1, <2>0, <3>1, <3>2, <4>1
      <3>3. CASE p = req[r].post
        <4>1. /\ post'[p].notified /\ post'[p].told = post[p].told
              /\ post'[p].state = "live" /\ post[p].told = 0
              /\ p \notin sweeping /\ \A s \in Requests : ~Wakes(s, p)
          BY <1>0, <2>2, <3>3 DEF Claim1, PostRow, Live
        <4> QED
          BY <2>0, <3>1, <4>1 DEF Claim1
      <3> QED
        BY <3>2, <3>3
    <2> QED
      BY <1>5, <2>1, <2>2 DEF Announce, Visible
  <1>6. ASSUME NEW r \in Requests, Wake(r) PROVE Claim1(p)'
    <2>0. UNCHANGED sweeping /\ Finish(r) /\ post' = [post EXCEPT ![req[r].post].told = @ + 1]
      BY <1>6 DEF Wake
    <2>1. CASE p # req[r].post
      BY <1>0, <1>1, <1>3, <2>0, <2>1
    <2>2. CASE p = req[r].post
      <3>1. /\ Wakes(r, p) /\ post[p].notified /\ post[p].told = 0 /\ p \notin sweeping
            /\ \A s \in Requests : Wakes(s, p) => s = r
        BY <1>0, <1>6, <2>2 DEF Wake, Wakes, Claim1
      <3>2. /\ post'[p].told = 1 /\ post'[p].notified /\ post'[p].state = post[p].state
            /\ post[p].state # "none"
        BY <1>0, <2>0, <2>2, <3>1 DEF PostRow, Claim1
      <3>3. \A s \in Requests : ~Wakes(s, p)'
        BY <1>3, <2>0, <3>1
      <3> QED
        BY <2>0, <3>1, <3>2, <3>3 DEF Claim1
    <2> QED
      BY <2>1, <2>2
  <1>7. ASSUME NEW r \in Requests, AnnounceFails(r) PROVE Claim1(p)'
    <2>1. UNCHANGED sweeping /\ Finish(r) /\ CutShort({req[r].post})
      BY <1>7 DEF AnnounceFails
    <2> QED
      BY <1>1, <1>3, <2>1, ShortCut
  <1>8. ASSUME NEW r \in Requests, Announcing, EditWrite(r) \/ DeletePostTx(r) PROVE Claim1(p)'
    <2>1. /\ post'[p].told = post[p].told /\ post'[p].notified = post[p].notified
          /\ post'[p].state = "none" => post[p].state = "none"
          /\ UNCHANGED sweeping
      <3>1. CASE EditWrite(r)
        BY <1>0, <3>1 DEF EditWrite, PostRow
      <3>2. CASE DeletePostTx(r)
        BY <1>0, <3>2 DEF DeletePostTx, PostRow
      <3> QED
        BY <1>8, <3>1, <3>2
    <2> QED
      BY <1>1, <1>2, <1>8, <2>1
  <1>9. ASSUME NEW r \in Requests, Announcing, NEW asks \in BOOLEAN, PublishWrite(r, asks)
        PROVE  Claim1(p)'
    <2>0. UNCHANGED sweeping /\ req[r].op = "post"
      BY <1>9 DEF PublishWrite
    <2>1. CASE p # req[r].post
      BY <1>0, <1>1, <1>2, <1>9, <2>0, <2>1, Published
    <2>2. CASE p = req[r].post
      <3>1. post[p].state = "none"
        BY <2>0, <2>2 DEF Placed
      <3>2. p \notin sweeping /\ \A s \in Requests : ~Wakes(s, p)
        BY <1>0, <3>1 DEF Claim1
      <3>3. post'[p].state = "live" /\ ~post'[p].notified /\ post'[p].told = 0
        BY <1>9, <2>2, Published
      <3> QED
        BY <1>2, <1>9, <2>0, <3>2, <3>3 DEF Claim1
    <2> QED
      BY <2>1, <2>2
  <1>10. ASSUME UNCHANGED req PROVE \A s \in Requests : Wakes(s, p)' => Wakes(s, p)
    BY <1>10 DEF Wakes
  <1>11. ASSUME NEW s \in Posts, ComesDue(s) PROVE Claim1(p)'
    <2>1. /\ post'[p].told = post[p].told /\ post'[p].notified = post[p].notified
          /\ post'[p].state = post[p].state /\ UNCHANGED <<sweeping, req>>
      BY <1>0, <1>11 DEF ComesDue, PostRow
    <2> QED
      BY <1>1, <1>10, <2>1
  <1>12. ASSUME NEW s \in Posts, SweepWakes(s) PROVE Claim1(p)'
    <2>0. /\ s \in sweeping /\ post' = [post EXCEPT ![s].told = @ + 1]
          /\ sweeping' = sweeping \ {s} /\ UNCHANGED req
      BY <1>12 DEF SweepWakes
    <2>1. CASE p # s
      BY <1>0, <1>1, <1>10, <2>0, <2>1
    <2>2. CASE p = s
      <3>1. /\ post[p].notified /\ post[p].told = 0 /\ \A r \in Requests : ~Wakes(r, p)
            /\ post[p].state # "none"
        BY <1>0, <2>0, <2>2 DEF Claim1
      <3>2. post'[p].told = 1 /\ post'[p].notified /\ post'[p].state = post[p].state
        BY <1>0, <2>0, <2>2, <3>1 DEF PostRow
      <3> QED
        BY <1>10, <2>0, <2>2, <3>1, <3>2 DEF Claim1
    <2> QED
      BY <2>1, <2>2
  <1>13. CASE Sweep
    <2>1. PICK batch \in SUBSET Overdue :
            /\ post' = [q \in Posts |-> IF q \in batch THEN [post[q] EXCEPT !.notified = TRUE]
                                                       ELSE post[q]]
            /\ sweeping' = sweeping \cup batch
            /\ UNCHANGED req
      BY <1>13 DEF Sweep
    <2>2. CASE p \notin batch
      BY <1>1, <1>10, <2>1, <2>2
    <2>3. CASE p \in batch
      <3>1. /\ ~post[p].notified /\ post[p].told = 0 /\ Live(p)
            /\ \A r \in Requests : ~Wakes(r, p)
        BY <1>0, <2>3 DEF Overdue, Claim1
      <3>2. post'[p].told = 0 /\ post'[p].notified /\ post'[p].state = "live"
        BY <1>0, <2>1, <2>3, <3>1 DEF PostRow, Live
      <3> QED
        BY <1>10, <2>1, <3>1, <3>2 DEF Claim1
    <2> QED
      BY <2>2, <2>3
  <1>14. CASE SweepFails
    <2>1. PICK rest : CutShort(rest) /\ sweeping' = sweeping \ rest /\ UNCHANGED req
      BY <1>14 DEF SweepFails
    <2> QED
      BY <1>1, <1>10, <2>1, ShortCut
  <1>15. CASE ServerStops
    <2>1. \E S : CutShort(S)
      BY <1>15 DEF ServerStops
    <2>2. sweeping' = {} /\ \A s \in Requests : ~Wakes(s, p)'
      BY <1>15 DEF ServerStops, Wakes, Idle
    <2> QED
      BY <1>1, <2>1, <2>2, ShortCut
  <1> QED
    BY <1>4, <1>5, <1>6, <1>7, <1>8, <1>9, <1>11, <1>12, <1>13, <1>14, <1>15, NoticeSteps

\* What a step does to who announces a post, and who wakes for it.
LEMMA InHand ==
  ASSUME Asking, NEW p \in Posts
  PROVE  /\ Announcing => \A s \in Requests : /\ Wakes(s, p) => Wakes(s, p)'
                                              /\ Announces(s, p) => Announces(s, p)'
         /\ UNCHANGED req => \A s \in Requests : /\ Wakes(s, p) => Wakes(s, p)'
                                                 /\ Announces(s, p) => Announces(s, p)'
         /\ \A r \in Requests, op \in {"announce", "wake"} :
              Finish(r) \/ GoOn(r, op) => \A s \in Requests \ {r} :
                                            /\ Wakes(s, p) => Wakes(s, p)'
                                            /\ Announces(s, p) => Announces(s, p)'
  BY DEF Announcing, Wakes, Announces, Finish, GoOn, Asking

LEMMA FollowedNext ==
  ASSUME Parameters, TypeOK, Asking, Followed, [Next]_vars
  PROVE  Followed'
  <1> SUFFICES ASSUME NEW p \in Posts PROVE Follow1(p)'
    BY DEF Followed
  <1>0. /\ Follow1(p) /\ post[p] \in PostRow /\ \A r \in Requests : req[r].post \in Posts
        /\ post \in [Posts -> PostRow]
    BY Carried DEF Followed, TypeOK
  <1>1. ASSUME /\ post'[p].notified => post[p].notified
               /\ post'[p].told = post[p].told
               /\ post[p].hushed => post'[p].hushed,
               p \in sweeping => p \in sweeping' \/ post'[p].hushed,
               \A s \in Requests : Wakes(s, p) => Wakes(s, p)' \/ post'[p].hushed
        PROVE  Follow1(p)'
    BY <1>0, <1>1 DEF Follow1
  <1>2. CASE UNCHANGED <<post, sweeping>> /\ Announcing
    BY <1>1, <1>2, InHand
  <1>3. ASSUME NEW r \in Requests, Announce(r) PROVE Follow1(p)'
    <2>0. UNCHANGED sweeping /\ ~Wakes(r, p)
      BY <1>3 DEF Announce, Wakes
    <2>1. CASE UNCHANGED post /\ Finish(r)
      BY <1>1, <2>0, <2>1, InHand
    <2>2. CASE GoOn(r, "wake") /\ post' = [post EXCEPT ![req[r].post].notified = TRUE]
      <3>1. CASE p # req[r].post
        BY <1>0, <1>1, <2>0, <2>2, <3>1, InHand
      <3>2. CASE p = req[r].post
        BY <2>2, <3>2 DEF Follow1, GoOn, Wakes, Asking, Question
      <3> QED
        BY <3>1, <3>2
    <2> QED
      BY <1>3, <2>1, <2>2 DEF Announce
  <1>4. ASSUME NEW r \in Requests, Wake(r) PROVE Follow1(p)'
    <2>0. UNCHANGED sweeping /\ Finish(r) /\ post' = [post EXCEPT ![req[r].post].told = @ + 1]
      BY <1>4 DEF Wake
    <2>1. CASE p # req[r].post
      BY <1>0, <1>1, <2>0, <2>1, InHand DEF Wakes
    <2>2. CASE p = req[r].post
      <3>1. post'[p].told > 0
        BY <1>0, <2>0, <2>2 DEF PostRow
      <3> QED
        BY <3>1 DEF Follow1
    <2> QED
      BY <2>1, <2>2
  <1>5. ASSUME NEW r \in Requests, AnnounceFails(r) PROVE Follow1(p)'
    <2>1. UNCHANGED sweeping /\ Finish(r) /\ CutShort({req[r].post})
      BY <1>5 DEF AnnounceFails
    <2>2. Wakes(r, p) => post'[p].hushed
      BY <2>1, ShortCut DEF Wakes
    <2> QED
      BY <1>1, <2>1, <2>2, InHand, ShortCut
  <1>6. ASSUME NEW r \in Requests, Announcing, EditWrite(r) \/ DeletePostTx(r) PROVE Follow1(p)'
    <2>1. /\ post'[p].told = post[p].told /\ post'[p].notified = post[p].notified
          /\ post[p].hushed => post'[p].hushed
          /\ UNCHANGED sweeping
      <3>1. CASE EditWrite(r)
        BY <1>0, <3>1 DEF EditWrite, PostRow
      <3>2. CASE DeletePostTx(r)
        BY <1>0, <3>2 DEF DeletePostTx, PostRow
      <3> QED
        BY <1>6, <3>1, <3>2
    <2> QED
      BY <1>1, <1>6, <2>1, InHand
  <1>7. ASSUME NEW r \in Requests, Announcing, NEW asks \in BOOLEAN, PublishWrite(r, asks)
        PROVE  Follow1(p)'
    <2>0. UNCHANGED sweeping
      BY <1>7 DEF PublishWrite
    <2>1. CASE p # req[r].post
      BY <1>0, <1>1, <1>7, <2>0, <2>1, InHand, Published
    <2>2. CASE p = req[r].post
      BY <1>7, <2>2, Published DEF Follow1
    <2> QED
      BY <2>1, <2>2
  <1>8. ASSUME NEW s \in Posts, ComesDue(s) PROVE Follow1(p)'
    <2>1. /\ post'[p].told = post[p].told /\ post'[p].notified = post[p].notified
          /\ post'[p].hushed = post[p].hushed /\ UNCHANGED <<sweeping, req>>
      BY <1>0, <1>8 DEF ComesDue, PostRow
    <2> QED
      BY <1>1, <2>1, InHand
  <1>9. ASSUME NEW s \in Posts, SweepWakes(s) PROVE Follow1(p)'
    <2>0. /\ post' = [post EXCEPT ![s].told = @ + 1]
          /\ sweeping' = sweeping \ {s} /\ UNCHANGED req
      BY <1>9 DEF SweepWakes
    <2>1. CASE p # s
      BY <1>0, <1>1, <2>0, <2>1, InHand
    <2>2. CASE p = s
      <3>1. post'[p].told > 0
        BY <1>0, <2>0, <2>2 DEF PostRow
      <3> QED
        BY <3>1 DEF Follow1
    <2> QED
      BY <2>1, <2>2
  <1>10. CASE Sweep
    <2>1. PICK batch \in SUBSET Overdue :
            /\ post' = [q \in Posts |-> IF q \in batch THEN [post[q] EXCEPT !.notified = TRUE]
                                                       ELSE post[q]]
            /\ sweeping' = sweeping \cup batch
            /\ UNCHANGED req
      BY <1>10 DEF Sweep
    <2>2. CASE p \notin batch
      BY <1>1, <2>1, <2>2, InHand
    <2>3. CASE p \in batch
      BY <2>1, <2>3 DEF Follow1
    <2> QED
      BY <2>2, <2>3
  <1>11. CASE SweepFails
    <2>1. PICK rest : CutShort(rest) /\ sweeping' = sweeping \ rest /\ UNCHANGED req
      BY <1>11 DEF SweepFails
    <2> QED
      BY <1>1, <2>1, InHand, ShortCut
  <1>12. CASE ServerStops
    <2> DEFINE S == sweeping \cup {req[r].post : r \in Running("announce") \cup Running("wake")}
    <2>1. CutShort(S)
      BY <1>12 DEF ServerStops
    <2>2. \A s \in Requests : Wakes(s, p) => p \in S
      BY DEF Wakes, Running
    <2> QED
      BY <1>1, <2>1, <2>2, ShortCut
  <1> QED
    BY <1>2, <1>3, <1>4, <1>5, <1>6, <1>7, <1>8, <1>9, <1>10, <1>11, <1>12, NoticeSteps

LEMMA AwaitedNext ==
  ASSUME Parameters, TypeOK, Asking, Awaited, [Next]_vars
  PROVE  Awaited'
  <1> SUFFICES ASSUME NEW p \in Posts PROVE Await1(p)'
    BY DEF Awaited
  <1>0. /\ Await1(p) /\ post[p] \in PostRow /\ \A r \in Requests : req[r].post \in Posts
        /\ post \in [Posts -> PostRow]
    BY Carried DEF Awaited, TypeOK
  <1>1. ASSUME /\ post'[p].state = post[p].state /\ post'[p].due = post[p].due
               /\ post[p].notified => post'[p].notified
               /\ post[p].hushed => post'[p].hushed,
               \A s \in Requests : Announces(s, p) => Announces(s, p)' \/ post'[p].hushed
        PROVE  Await1(p)'
    BY <1>0, <1>1 DEF Await1, Visible, Live
  <1>2. CASE UNCHANGED <<post, sweeping>> /\ Announcing
    BY <1>1, <1>2, InHand
  <1>3. ASSUME NEW r \in Requests, Announce(r) PROVE Await1(p)'
    <2>0. Finish(r) \/ GoOn(r, "wake")
      BY <1>3 DEF Announce
    <2>1. CASE p # req[r].post
      <3>1. post'[p] = post[p] /\ ~Announces(r, p)
        BY <1>0, <1>3, <2>1 DEF Announce, Announces
      <3> QED
        BY <1>1, <2>0, <3>1, InHand
    <2>2. CASE p = req[r].post /\ Visible(p) /\ ~post[p].notified
      <3>1. post'[p].notified
        BY <1>0, <1>3, <2>2 DEF Announce, PostRow
      <3> QED
        BY <3>1 DEF Await1
    <2>3. CASE p = req[r].post /\ ~(Visible(p) /\ ~post[p].notified)
      <3>1. post'[p] = post[p]
        BY <1>3, <2>3 DEF Announce
      <3> QED
        BY <2>3, <3>1 DEF Await1, Visible, Live
    <2> QED
      BY <2>1, <2>2, <2>3
  <1>4. ASSUME NEW r \in Requests, Wake(r) PROVE Await1(p)'
    <2>0. Finish(r) /\ ~Announces(r, p) /\ post' = [post EXCEPT ![req[r].post].told = @ + 1]
      BY <1>4 DEF Wake, Announces
    <2>1. /\ post'[p].state = post[p].state /\ post'[p].due = post[p].due
          /\ post'[p].notified = post[p].notified /\ post'[p].hushed = post[p].hushed
      BY <1>0, <2>0 DEF PostRow
    <2> QED
      BY <1>1, <2>0, <2>1, InHand
  <1>5. ASSUME NEW r \in Requests, AnnounceFails(r) PROVE Await1(p)'
    <2>1. Finish(r) /\ CutShort({req[r].post})
      BY <1>5 DEF AnnounceFails
    <2>2. Announces(r, p) => post'[p].hushed
      BY <2>1, ShortCut DEF Announces
    <2> QED
      BY <1>1, <2>1, <2>2, InHand, ShortCut
  <1>6. ASSUME NEW r \in Requests, Announcing, EditWrite(r) PROVE Await1(p)'
    <2>1. CASE p # req[r].post
      BY <1>0, <1>1, <1>6, <2>1, InHand DEF EditWrite
    <2>2. CASE p = req[r].post
      <3>1. /\ post'[p].state = post[p].state /\ post'[p].due = req[r].due
            /\ post'[p].notified = post[p].notified
            /\ post'[p].hushed <=>
                 post[p].hushed \/ (req[r].due = "now" /\ post[p].due # "now"
                                     /\ ~post[p].notified)
        BY <1>0, <1>6, <2>2 DEF EditWrite, PostRow
      <3>2. req[r].due \in {"now", "later", "past"}
        BY Carried
      <3>3. \A s \in Requests : Announces(s, p) => Announces(s, p)'
        BY <1>6, InHand
      <3> QED
        BY <1>0, <3>1, <3>2, <3>3 DEF Await1, Visible, Live
    <2> QED
      BY <2>1, <2>2
  <1>7. ASSUME NEW r \in Requests, Announcing, DeletePostTx(r) PROVE Await1(p)'
    <2>1. CASE p = req[r].post /\ Live(p)
      <3>1. post'[p].state = "deleted"
        BY <1>7, <2>1, Rows
      <3> QED
        BY <3>1 DEF Await1, Visible, Live
    <2>2. CASE ~(p = req[r].post /\ Live(p))
      <3>1. post'[p] = post[p]
        BY <1>0, <1>7, <2>2 DEF DeletePostTx
      <3> QED
        BY <1>1, <1>7, <3>1, InHand
    <2> QED
      BY <2>1, <2>2
  <1>8. ASSUME NEW r \in Requests, Announcing, NEW asks \in BOOLEAN, PublishWrite(r, asks)
        PROVE  Await1(p)'
    <2>1. CASE p # req[r].post
      BY <1>1, <1>8, <2>1, InHand, Published
    <2>2. CASE p = req[r].post
      <3>1. /\ post'[p].due = req[r].due
            /\ req[r].due = "now" => Announces(r, p)'
        BY <1>8, <2>2, Published DEF Announces
      <3>2. req[r].due \in {"now", "later", "past"}
        BY Carried
      <3> QED
        BY <3>1, <3>2 DEF Await1, Visible
    <2> QED
      BY <2>1, <2>2
  <1>9. ASSUME NEW s \in Posts, ComesDue(s) PROVE Await1(p)'
    <2>1. CASE p # s
      BY <1>0, <1>1, <1>9, <2>1, InHand DEF ComesDue
    <2>2. CASE p = s
      <3>1. post'[p].due = "past"
        BY <1>0, <1>9, <2>2 DEF ComesDue, PostRow
      <3> QED
        BY <3>1 DEF Await1
    <2> QED
      BY <2>1, <2>2
  <1>10. CASE Sweep \/ \E s \in Posts : SweepWakes(s)
    <2>1. /\ post'[p].state = post[p].state /\ post'[p].due = post[p].due
          /\ post[p].notified => post'[p].notified
          /\ post'[p].hushed = post[p].hushed /\ UNCHANGED req
      BY <1>0, <1>10 DEF Sweep, SweepWakes, PostRow
    <2> QED
      BY <1>1, <2>1, InHand
  <1>11. CASE SweepFails
    <2>1. UNCHANGED req /\ \E rest : CutShort(rest)
      BY <1>11 DEF SweepFails
    <2> QED
      BY <1>1, <2>1, InHand, ShortCut
  <1>12. CASE ServerStops
    <2> DEFINE S == sweeping \cup {req[r].post : r \in Running("announce") \cup Running("wake")}
    <2>1. CutShort(S)
      BY <1>12 DEF ServerStops
    <2>2. \A s \in Requests : Announces(s, p) => p \in S
      BY DEF Announces, Running
    <2> QED
      BY <1>1, <2>1, <2>2, ShortCut
  <1> QED
    BY <1>2, <1>3, <1>4, <1>5, <1>6, <1>7, <1>8, <1>9, <1>10, <1>11, <1>12, NoticeSteps

-----------------------------------------------------------------------------
(* Votes                                                                   *)

\* A vote about to be written has seen every answer of its account that is
\* there, unless another of the account's has been written meanwhile.
Seen(r) ==
    /\ Cardinality(req[r].opts) <= MaxChoices
    /\ \/ <<req[r].post, req[r].by>> \in doubled
       \/ Own(req[r].post, req[r].by) \subseteq req[r].seen

Counted == \A r \in Requests : req[r].op = "voting" => Seen(r)

Goes(s) ==
    /\ req[s].op = "voting"
    /\ req'[s].post = req[s].post /\ req'[s].by = req[s].by
    /\ req'[s].opts = req[s].opts /\ req'[s].seen = req[s].seen

LEMMA VotingSteps ==
  ASSUME Parameters, TypeOK, Asking, [Next]_vars, NEW s \in Requests, req'[s].op = "voting"
  PROVE  Goes(s) \/ VoteRead(s)
  <1>1. ASSUME UNCHANGED req PROVE Goes(s)
    BY <1>1 DEF Goes
  <1>2. ASSUME NEW r \in Requests, Checked(r) PROVE Goes(s)
    <2>1. PICK q : Starts(r, q)
      BY <1>2, CheckedStarts
    <2> QED
      BY <2>1 DEF Starts, Goes, Asking
  <1>3. ASSUME NEW r \in Requests, Continues(r) PROVE Goes(s) \/ VoteRead(s)
    <2>1. CASE Finish(r) \/ GoOn(r, "announce") \/ GoOn(r, "wake")
      BY <2>1 DEF Finish, GoOn, Goes, Asking, Idle, Question
    <2>2. CASE VoteRead(r)
      BY <2>1, <2>2 DEF VoteRead, Goes, Asking
    <2>3. CASE BanRow(r)
      BY <2>3 DEF BanRow, Goes, Asking, Idle, Question
    <2> QED
      BY <1>3, <2>1, <2>2, <2>3
         DEF Continues, ClaimRow, AbandonTx, ResealRow, PublishWrite, Announce, Wake,
             AnnounceFails, EditWrite, DeletePostTx, CommentWrite, ReactRow, VoteWrite, InboxRow,
             GoLiveWrite
  <1>4. ~ServerStops
    BY DEF ServerStops, Idle
  <1> QED
    BY <1>1, <1>2, <1>3, <1>4
       DEF Next, vars, Depart, Arrive, EndLive, DeleteComment, Unreact, Unban, ComesDue,
           PollCloses, Sweep, SweepWakes, SweepFails

LEMMA VoteSteps ==
  ASSUME Parameters, TypeOK, Asking, [Next]_vars
  PROVE  \/ vote' \subseteq vote /\ doubled' = doubled
         \/ \E r \in Requests : VoteWrite(r)
  <1>1. CASE Quiet
    BY <1>1 DEF Quiet
  <1>2. ASSUME NEW r \in Requests, Writes(r)
        PROVE  (vote' \subseteq vote /\ doubled' = doubled) \/ VoteWrite(r)
    BY <1>2 DEF Writes, PublishWrite, EditWrite, DeletePostTx, CommentWrite, ReactRow
  <1> QED
    BY <1>1, <1>2, RowSteps

\* The answers a vote leaves its account with.
LEMMA Written ==
  ASSUME Parameters, TypeOK, Asking, NEW r \in Requests, VoteWrite(r),
         NEW p \in Posts, NEW a \in Accounts
  PROVE  /\ <<p, a>> # <<req[r].post, req[r].by>> => Own(p, a)' \subseteq Own(p, a)
         /\ \/ Own(p, a)' \subseteq Own(p, a)
            \/ Own(p, a)' = (Own(p, a) \ req[r].seen)
                              \cup {<<p, a, o>> : o \in req[r].opts}
         /\ doubled \subseteq doubled'
         /\ \A s \in Requests \ {r} : req[s].op = "voting" /\ req[s].post = p /\ req[s].by = a =>
              <<p, a>> \in doubled' \/ Own(p, a)' \subseteq Own(p, a)
  <1> DEFINE q      == req[r]
             chosen == {<<q.post, q.by, o>> : o \in q.opts}
             rival  == {s \in Running("voting") \ {r} : req[s].by = q.by /\ req[s].post = q.post}
  <1>1. \/ UNCHANGED <<vote, doubled>>
        \/ /\ vote' = (vote \ q.seen) \cup chosen
           /\ doubled' = IF rival # {} THEN doubled \cup {<<q.post, q.by>>} ELSE doubled
    BY DEF VoteWrite
  <1>2. CASE UNCHANGED <<vote, doubled>>
    BY <1>2 DEF Own
  <1>3. CASE /\ vote' = (vote \ q.seen) \cup chosen
             /\ doubled' = IF rival # {} THEN doubled \cup {<<q.post, q.by>>} ELSE doubled
    <2>1. \A v \in chosen : v[1] = q.post /\ v[2] = q.by
      OBVIOUS
    <2>2. <<p, a>> # <<q.post, q.by>> => Own(p, a)' \subseteq Own(p, a)
      BY <1>3, <2>1 DEF Own
    <2>3. <<p, a>> = <<q.post, q.by>> => Own(p, a)' = (Own(p, a) \ q.seen) \cup chosen
      BY <1>3, <2>1 DEF Own
    <2>4. doubled \subseteq doubled'
      BY <1>3
    <2>5. ASSUME NEW s \in Requests \ {r}, req[s].op = "voting", req[s].post = p, req[s].by = a
          PROVE  <<p, a>> \in doubled' \/ Own(p, a)' \subseteq Own(p, a)
      <3>1. CASE <<p, a>> = <<q.post, q.by>>
        <4>1. s \in rival
          BY <2>5, <3>1 DEF Running
        <4> QED
          BY <1>3, <3>1, <4>1
      <3> QED
        BY <2>2, <3>1
    <2> QED
      BY <2>2, <2>3, <2>4, <2>5
  <1> QED
    BY <1>1, <1>2, <1>3

LEMMA CountedNext ==
  ASSUME Parameters, TypeOK, Asking, Counted, [Next]_vars
  PROVE  Counted'
  <1> SUFFICES ASSUME NEW s \in Requests, req'[s].op = "voting" PROVE Seen(s)'
    BY DEF Counted
  <1>0. req[s].post \in Posts /\ req[s].by \in Accounts
    BY Carried
  <1>1. CASE VoteRead(s)
    <2>1. /\ req'[s].seen = Own(req[s].post, req[s].by) /\ Cardinality(req[s].opts) <= MaxChoices
          /\ req'[s].post = req[s].post /\ req'[s].by = req[s].by
          /\ req'[s].opts = req[s].opts
      BY <1>1 DEF VoteRead, Finish, Idle, Asking, Question
    <2>2. vote' = vote
      BY <1>1 DEF VoteRead, rows
    <2> QED
      BY <2>1, <2>2 DEF Seen, Own
  <1>2. CASE Goes(s)
    <2> DEFINE p == req[s].post
               a == req[s].by
    <2>1. Seen(s)
      BY <1>2 DEF Goes, Counted
    <2>2. CASE vote' \subseteq vote /\ doubled' = doubled
      BY <1>2, <2>1, <2>2 DEF Goes, Seen, Own
    <2>3. ASSUME NEW r \in Requests, VoteWrite(r) PROVE Seen(s)'
      <3>1. s # r
        BY <2>3 DEF VoteWrite, Finish, Idle, Asking
      <3>2. /\ doubled \subseteq doubled'
            /\ <<p, a>> \in doubled' \/ Own(p, a)' \subseteq Own(p, a)
        BY <1>0, <1>2, <2>3, <3>1, Written DEF Goes
      <3>3. Own(p, a)' \subseteq Own(p, a) => Own(req[s].post, req[s].by)' \subseteq Own(p, a)
        BY <1>2 DEF Goes, Own
      <3> QED
        BY <1>2, <2>1, <3>2, <3>3 DEF Goes, Seen
    <2> QED
      BY <2>2, <2>3, VoteSteps
  <1> QED
    BY <1>1, <1>2, VotingSteps

\* As many answers as options chosen, and no more.
LEMMA Answers ==
  ASSUME Parameters, NEW p, NEW a, NEW opts \in SUBSET Options
  PROVE  LET S == {<<p, a, o>> : o \in opts} IN
         IsFiniteSet(S) /\ Cardinality(S) <= Cardinality(opts)
  <1> DEFINE S == {<<p, a, o>> : o \in opts}
             f == [o \in opts |-> <<p, a, o>>]
  <1>1. IsFiniteSet(opts)
    BY FS_Subset DEF Parameters
  <1>2. f \in Surjection(opts, S)
    BY DEF Surjection
  <1> QED
    BY <1>1, <1>2, FS_Surjection

LEMMA ChoiceNext ==
  ASSUME Parameters, TypeOK, Asking, Counted, VotesWithinChoice, [Next]_vars
  PROVE  VotesWithinChoice'
  <1> SUFFICES ASSUME NEW p \in Posts, NEW a \in Accounts, <<p, a>> \notin doubled'
               PROVE  Cardinality(Own(p, a)') <= MaxChoices
    BY DEF VotesWithinChoice
  <1>1. IsFiniteSet(Own(p, a)) /\ Cardinality(Own(p, a)) \in Nat
    <2> DEFINE S == {<<p, a, o>> : o \in Options}
    <2>1. IsFiniteSet(S)
      BY Answers
    <2>2. Own(p, a) \in SUBSET S
      BY DEF TypeOK, Own
    <2> QED
      BY <2>1, <2>2, FS_Subset, FS_CardinalityType
  <1>2. ASSUME Own(p, a)' \subseteq Own(p, a), doubled \subseteq doubled'
        PROVE  Cardinality(Own(p, a)') <= MaxChoices
    <2>1. Cardinality(Own(p, a)) <= MaxChoices
      BY <1>2 DEF VotesWithinChoice
    <2>2. /\ Cardinality(Own(p, a)') <= Cardinality(Own(p, a))
          /\ Cardinality(Own(p, a)') \in Nat
      BY <1>1, <1>2, FS_Subset, FS_CardinalityType
    <2> QED
      BY <1>1, <2>1, <2>2 DEF Parameters
  <1>3. CASE vote' \subseteq vote /\ doubled' = doubled
    <2>1. Own(p, a)' \subseteq Own(p, a)
      BY <1>3 DEF Own
    <2> QED
      BY <1>2, <1>3, <2>1
  <1>4. ASSUME NEW r \in Requests, VoteWrite(r) PROVE Cardinality(Own(p, a)') <= MaxChoices
    <2> DEFINE S == {<<p, a, o>> : o \in req[r].opts}
    <2>1. doubled \subseteq doubled'
      BY <1>4, Written
    <2>2. CASE Own(p, a)' \subseteq Own(p, a)
      BY <1>2, <2>1, <2>2
    <2>3. CASE ~(Own(p, a)' \subseteq Own(p, a))
      <3>1. Own(p, a)' = (Own(p, a) \ req[r].seen) \cup S /\ <<p, a>> = <<req[r].post, req[r].by>>
        BY <1>4, <2>3, Written
      <3>2. Seen(r)
        BY <1>4 DEF VoteWrite, Counted
      <3>3. Own(p, a) \subseteq req[r].seen
        BY <2>1, <3>1, <3>2 DEF Seen
      <3>4. Own(p, a)' = S
        BY <3>1, <3>3
      <3>5. req[r].opts \in SUBSET Options
        BY Carried
      <3>6. IsFiniteSet(S) /\ Cardinality(S) <= Cardinality(req[r].opts)
        BY <3>5, Answers
      <3>7. Cardinality(S) \in Nat /\ Cardinality(req[r].opts) \in Nat
        BY <3>5, <3>6, FS_Subset, FS_CardinalityType DEF Parameters
      <3>8. Cardinality(req[r].opts) <= MaxChoices /\ MaxChoices \in Nat
        BY <3>2 DEF Seen, Parameters
      <3>9. Cardinality(S) <= MaxChoices
        BY <3>6, <3>7, <3>8
      <3> QED
        BY <3>4, <3>9
    <2> QED
      BY <2>2, <2>3
  <1> QED
    BY <1>3, <1>4, VoteSteps

-----------------------------------------------------------------------------
(* The silenced                                                            *)

\* What a silenced account has under way was checked before the silence.
Hushed == \A r \in Requests :
    req[r].op \in Speaking \cup {"voting"} /\ req[r].by \in banned => req[r].late

LEMMA HushedNext ==
  ASSUME Parameters, TypeOK, Asking, Hushed, [Next]_vars
  PROVE  Hushed'
  <1>1. CASE UNCHANGED req /\ banned' \subseteq banned
    BY <1>1 DEF Hushed
  <1>2. ASSUME NEW r \in Requests, Checked(r) PROVE Hushed'
    <2>1. PICK q : Starts(r, q)
      BY <1>2, CheckedStarts
    <2>2. banned' = banned
      BY <2>1 DEF Starts, rows
    <2> QED
      BY <2>1, <2>2 DEF Starts, Hushed, Asking
  <1>3. ASSUME NEW r \in Requests, banned' = banned,
               Finish(r) \/ GoOn(r, "announce") \/ GoOn(r, "wake")
        PROVE  Hushed'
    BY <1>3 DEF Finish, GoOn, Idle, Hushed, Speaking, Asking, Question
  <1>4. ASSUME NEW r \in Requests, VoteRead(r) PROVE Hushed'
    <2>1. banned' = banned
      BY <1>4 DEF VoteRead, rows
    <2>2. CASE Finish(r)
      BY <1>3, <2>1, <2>2
    <2>3. CASE req' = [req EXCEPT ![r].op = "voting", ![r].seen = Own(req[r].post, req[r].by)]
      BY <1>4, <2>1, <2>3 DEF VoteRead, Hushed, Speaking, Asking, Question
    <2> QED
      BY <1>4, <2>2, <2>3 DEF VoteRead
  <1>5. ASSUME NEW r \in Requests, BanRow(r) PROVE Hushed'
    <2> SUFFICES ASSUME NEW s \in Requests, req'[s].op \in Speaking \cup {"voting"},
                        req'[s].by \in banned'
                 PROVE  req'[s].late
      BY DEF Hushed
    <2>1. s # r
      BY <1>5 DEF BanRow, Idle, Speaking
    <2>2. CASE req[s].by = req[r].whom
      BY <1>5, <2>1, <2>2 DEF BanRow, Asking, Question
    <2>3. CASE req[s].by # req[r].whom
      BY <1>5, <2>1, <2>3 DEF BanRow, Hushed
    <2> QED
      BY <2>2, <2>3
  <1>6. CASE ServerStops
    BY <1>6 DEF ServerStops, Hushed, Idle, Speaking
  <1>7. ASSUME NEW r \in Requests, Continues(r) PROVE Hushed'
    BY <1>3, <1>4, <1>5, <1>7
       DEF Continues, ClaimRow, AbandonTx, ResealRow, PublishWrite, Announce, Wake,
           AnnounceFails, EditWrite, DeletePostTx, CommentWrite, ReactRow, VoteWrite, InboxRow,
           GoLiveWrite, rows
  <1>8. CASE UNCHANGED vars
    BY <1>1, <1>8 DEF vars
  <1> QED
    BY <1>1, <1>2, <1>6, <1>7, <1>8
       DEF Next, Depart, Arrive, EndLive, DeleteComment, Unreact, Unban, ComesDue, PollCloses,
           Sweep, SweepWakes, SweepFails, rows

\* What an account adds, a request of its own that was past its checks adds.
Adds(a) ==
    \/ \E c \in comment' \ comment : c.by = a
    \/ \E x \in reacted' \ reacted : x[2] = a
    \/ \E v \in vote' \ vote : v[2] = a
    \/ a \in inbox' \ inbox

LEMMA AddSteps ==
  ASSUME Parameters, TypeOK, Asking, [Next]_vars, NEW a \in Accounts, Adds(a)
  PROVE  \E r \in Requests : req[r].op \in Speaking \cup {"voting"} /\ req[r].by = a
  <1>1. CASE UNCHANGED vars
    BY <1>1 DEF vars, Adds
  <1>2. ~ \E r \in Requests : Checked(r)
    <2> SUFFICES ASSUME NEW r \in Requests, Checked(r) PROVE FALSE
      OBVIOUS
    <2>1. UNCHANGED rows
      BY CheckedStarts DEF Starts
    <2> QED
      BY <2>1 DEF rows, Adds
  <1>3. ASSUME NEW r \in Requests, Continues(r)
        PROVE  req[r].op \in Speaking \cup {"voting"} /\ req[r].by = a
    <2>1. CASE CommentWrite(r) \/ ReactRow(r) \/ InboxRow(r)
      BY <2>1 DEF CommentWrite, ReactRow, InboxRow, Adds, Speaking
    <2>2. CASE VoteWrite(r)
      <3>1. \A v \in vote' \ vote : v[2] = req[r].by
        BY <2>2 DEF VoteWrite
      <3> QED
        BY <2>2, <3>1 DEF VoteWrite, Adds
    <2>3. CASE DeletePostTx(r)
      BY <2>3 DEF DeletePostTx, Adds
    <2> QED
      BY <1>3, <2>1, <2>2, <2>3
         DEF Continues, ClaimRow, AbandonTx, ResealRow, PublishWrite, Announce, Wake,
             AnnounceFails, EditWrite, VoteRead, BanRow, GoLiveWrite, rows, Adds
  <1> QED
    BY <1>1, <1>2, <1>3
       DEF Next, Depart, Arrive, EndLive, DeleteComment, Unreact, Unban, ComesDue, PollCloses,
           Sweep, SweepWakes, SweepFails, ServerStops, rows, Adds

-----------------------------------------------------------------------------
(* The theorems                                                            *)

IInv ==
    /\ TypeOK /\ Asking /\ Locked /\ Current /\ Keyed
    /\ Placed /\ Blank /\ Claimed /\ Followed /\ Awaited
    /\ Counted /\ VotesWithinChoice /\ Hushed

LEMMA Invariant ==
  ASSUME Parameters
  PROVE  Spec => []IInv
  <1>1. Init => IInv
    <2> SUFFICES ASSUME Init PROVE IInv
      OBVIOUS
    <2>1. TypeOK /\ Asking
      BY TypeInit
    <2>2. Locked
      BY DEF Init, Locked, Idle, Sealing
    <2>3. Current
      BY Values DEF Init, Current
    <2>4. Keyed
      <3>1. \A e \in Epochs : ~keys[e].abandoned
        BY DEF Init, NoKey
      <3>2. keys[1].by = Owner
        BY Values DEF Init, NoKey
      <3>3. \A p \in Posts : post[p].epoch \in Epochs
        BY <2>1 DEF TypeOK, PostRow
      <3> QED
        BY <3>1, <3>2, <3>3 DEF Init, Keyed
    <2>5. /\ \A r \in Requests : req[r].op = "idle"
          /\ \A p \in Posts : Polled(p) /\ Bare(p) /\ post[p].notified = (p = First)
          /\ \A p \in Posts : Visible(p) => p = First
          /\ \A p \in Posts : /\ post[p].told = IF p = First THEN 1 ELSE 0
                              /\ post[p].state = IF p = First THEN "live" ELSE "none"
          /\ sweeping = {}
      BY DEF Init, Idle, NoPost, Polled, Bare, Found, Visible, Live
    <2>6. Placed /\ Blank /\ Counted
      BY <2>5 DEF Placed, Blank, Reached, Counted
    <2>9. Claimed /\ Followed /\ Awaited
      <3>1. \A r \in Requests, p \in Posts : ~Wakes(r, p)
        BY <2>5 DEF Wakes
      <3>2. ASSUME NEW p \in Posts PROVE Claim1(p) /\ Follow1(p)
        <4>1. CASE p = First
          <5>1. post[p].told = 1 /\ post[p].notified /\ post[p].state = "live"
            BY <2>5, <4>1
          <5> QED
            BY <2>5, <3>1, <5>1 DEF Claim1, Follow1
        <4>2. CASE p # First
          <5>1. post[p].told = 0 /\ ~post[p].notified
            BY <2>5, <4>2
          <5> QED
            BY <2>5, <3>1, <5>1 DEF Claim1, Follow1
        <4> QED
          BY <4>1, <4>2
      <3>3. \A p \in Posts : Await1(p)
        BY <2>5 DEF Await1
      <3> QED
        BY <3>2, <3>3 DEF Claimed, Followed, Awaited
    <2>7. Hushed
      BY DEF Init, Hushed
    <2>8. VotesWithinChoice
      <3>1. \A p \in Posts, a \in Accounts : Own(p, a) = {}
        BY DEF Init, Own
      <3> QED
        BY <3>1, FS_EmptySet DEF VotesWithinChoice, Parameters
    <2> QED
      BY <2>1, <2>2, <2>3, <2>4, <2>6, <2>7, <2>8, <2>9 DEF IInv
  <1>2. IInv /\ [Next]_vars => IInv'
    BY TypeNext, LockedNext, CurrentNext, KeyedNext, PlacedNext, BlankNext,
       ClaimedNext, FollowedNext, AwaitedNext, CountedNext, ChoiceNext, HushedNext DEF IInv
  <1> QED
    BY <1>1, <1>2, PTL DEF Spec

\* Two devices are never both told that their key is an epoch's, and no member's
\* feed has a post under an epoch that was given up (POST key-epochs, abandon).
THEOREM OneKey == ASSUME Parameters PROVE Spec => []OneKeyPerEpoch
  <1>1. IInv => OneKeyPerEpoch
    <2> SUFFICES ASSUME IInv PROVE OneKeyPerEpoch
      OBVIOUS
    <2>1. \A x, y \in won : x[1] = y[1] => x = y
      BY DEF IInv, Keyed, TypeOK
    <2> QED
      BY <2>1 DEF IInv, Keyed, OneKeyPerEpoch, Feed
  <1> QED
    BY <1>1, Invariant, PTL

\* Overlapping requests leave no post that nobody is told of or that people are
\* told of twice, nothing said under a deleted post, no answer too many and no
\* second room, but for the overlaps, failures and ends of the process the parts
\* name (notifyPost and the sweep, DELETE, PUT votes, POST live).
THEOREM NoTrace == ASSUME Parameters PROVE Spec => OverlapsLeaveNoTrace
  <1> DEFINE Clean == /\ NoPostIsForgotten /\ NobodyIsToldTwice
                      /\ DeletedIsBlank /\ VotesWithinChoice
             A == room # 0 /\ room' # 0 => room' = room
  <1>1. IInv => Clean
    <2> SUFFICES ASSUME IInv PROVE Clean
      OBVIOUS
    <2>1. NobodyIsToldTwice
      BY DEF IInv, Claimed, Claim1, NobodyIsToldTwice
    <2>2. NoPostIsForgotten
      BY DEF IInv, Followed, Follow1, Awaited, Await1, Wakes, Announces,
             NoPostIsForgotten, Running
    <2>3. ASSUME NEW p \in Posts, post[p].state = "deleted"
          PROVE  /\ \A v \in vote : v[1] # p
                 /\ post[p].raced \/ ( /\ ~post[p].text
                                      /\ \A a \in members : Thread(a, p) = {}
                                      /\ \A x \in reacted : x[1] # p )
      BY <2>3 DEF IInv, Blank, Polled, Bare, Found, Thread
    <2>4. DeletedIsBlank
      BY <2>3 DEF DeletedIsBlank
    <2> QED
      BY <2>1, <2>2, <2>4 DEF IInv
  <1>2. IInv /\ [Next]_vars => [A]_vars
    <2> SUFFICES ASSUME IInv, [Next]_vars, Parameters PROVE A
      OBVIOUS
    <2>0. TypeOK /\ Asking /\ Locked
      BY DEF IInv
    <2>1. ASSUME NEW r \in Requests, GoLiveWrite(r) PROVE A
      BY <2>0, <2>1 DEF GoLiveWrite, Locked
    <2>2. ASSUME NEW a \in Accounts, EndLive(a) PROVE A
      BY <2>2 DEF EndLive
    <2> QED
      BY <2>0, <2>1, <2>2, LiveSteps
  <1> QED
    BY <1>1, <1>2, Invariant, PTL DEF Spec, OverlapsLeaveNoTrace, OneRoom

\* Whoever holds the key a post or a comment is sealed under is a member when it
\* is stored: the rotation of a departure waits for publishers, and they for it.
THEOREM RemovedAreShutOut == ASSUME Parameters PROVE Spec => NothingForTheRemoved
  <1> DEFINE A ==
        /\ \A p \in Posts : post'[p].text /\ <<post'[p].text, post'[p].epoch>>
                                              # <<post[p].text, post[p].epoch>>
                            => holders[post'[p].epoch] \subseteq members'
        /\ \A c \in comment' \ comment : holders[c.epoch] \subseteq members'
  <1>1. IInv /\ [Next]_vars => [A]_vars
    <2> SUFFICES ASSUME IInv, [Next]_vars, Parameters PROVE A
      OBVIOUS
    <2>0. TypeOK /\ Asking /\ Locked /\ Current
      BY DEF IInv
    <2>1. \A p \in Posts : post'[p].text /\ <<post'[p].text, post'[p].epoch>>
                                              # <<post[p].text, post[p].epoch>>
                            => holders[post'[p].epoch] \subseteq members'
      <3>1. CASE Calm
        BY <2>0, <3>1 DEF Calm, TypeOK, PostRow
      <3>2. ASSUME NEW r \in Requests,
                   EditWrite(r) \/ \E asks \in BOOLEAN : PublishWrite(r, asks)
            PROVE  \A p \in Posts : post'[p] # post[p] => holders[post'[p].epoch] \subseteq members'
        <4> DEFINE q == req[r].post
        <4>1. req[r].epoch = epoch
          BY <2>0, <3>2, Sealed DEF Locked
        <4>2. post'[q].epoch = epoch /\ \A p \in Posts : p # q => post'[p] = post[p]
          BY <2>0, <3>2, <4>1, Sealed
        <4>3. members' = members
          BY <3>2 DEF EditWrite, PublishWrite, Unsaid, keyring
        <4> QED
          BY <2>0, <4>2, <4>3 DEF Current
      <3> QED
        BY <2>0, <3>1, <3>2, PostSteps
    <2>2. \A c \in comment' \ comment : holders[c.epoch] \subseteq members'
      <3>1. ASSUME NEW r \in Requests, CommentWrite(r)
            PROVE  \A c \in comment' \ comment : holders[c.epoch] \subseteq members'
        <4>1. req[r].epoch = epoch
          BY <2>0, <3>1 DEF Locked, Sealing, CommentWrite
        <4> QED
          BY <2>0, <3>1, <4>1 DEF CommentWrite, Current, Unsaid, keyring
      <3>2. CASE ~ \E r \in Requests : CommentWrite(r)
        <4>1. ASSUME NEW r \in Requests, Checked(r) PROVE comment' = comment
          BY <2>0, <4>1, CheckedStarts DEF Starts, rows
        <4> QED
          BY <3>2, <4>1
             DEF Next, vars, rows, Continues, ClaimRow, AbandonTx, ResealRow, PublishWrite,
                 Announce, Wake, AnnounceFails, EditWrite, DeletePostTx, ReactRow, VoteRead,
                 VoteWrite, BanRow, InboxRow, GoLiveWrite, Depart, Arrive, EndLive, DeleteComment, Unreact, Unban,
                 ComesDue, PollCloses, Sweep, SweepWakes, SweepFails, ServerStops
      <3> QED
        BY <3>1, <3>2
    <2> QED
      BY <2>1, <2>2
  <1> QED
    BY <1>1, Invariant, PTL DEF Spec, NothingForTheRemoved

\* A silenced member adds no comment, reaction, vote or letter but by a request
\* that was past its checks when the silence came (PUT bans, requireNotBanned).
THEOREM SilencedAreSilent == ASSUME Parameters PROVE Spec => SilencedSaysNothing
  <1> DEFINE A ==
        \A a \in banned :
          \/ /\ \A c \in comment' \ comment : c.by # a
             /\ \A x \in reacted' \ reacted : x[2] # a
             /\ \A v \in vote' \ vote : v[2] # a
             /\ a \in inbox' => a \in inbox
          \/ \E r \in Requests : req[r].by = a /\ req[r].late
  <1>1. IInv /\ [Next]_vars => [A]_vars
    <2> SUFFICES ASSUME IInv, [Next]_vars, Parameters PROVE A
      OBVIOUS
    <2>0. TypeOK /\ Asking /\ Hushed
      BY DEF IInv
    <2>1. ASSUME NEW a \in banned, Adds(a)
          PROVE  \E r \in Requests : req[r].by = a /\ req[r].late
      <3>1. a \in Accounts
        BY <2>0 DEF TypeOK
      <3> QED
        BY <2>0, <2>1, <3>1, AddSteps DEF Hushed
    <2> QED
      BY <2>1 DEF Adds
  <1> QED
    BY <1>1, Invariant, PTL DEF Spec, SilencedSaysNothing

=============================================================================
