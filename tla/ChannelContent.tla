--------------------------- MODULE ChannelContent ---------------------------
(***************************************************************************)
(* What is said in a channel, under which key, and by whom:                *)
(* src/server/src/routes/channels.ts from its key epochs and posts on, and *)
(* services/channel_notifications.ts.                                      *)
(*                                                                         *)
(* One channel.  Who may do what does not change here (ChannelMembers is   *)
(* about that): Admins hold every right, the others none, and people come  *)
(* and go.  A request is checked against rows read on the pool or under a  *)
(* lock of the channel's row, and writes in a later step; publishers hold  *)
(* that lock FOR SHARE from one to the other, a rotation and the start of  *)
(* a broadcast need it FOR UPDATE.  A refusal changes nothing and is not   *)
(* an action.                                                              *)
(***************************************************************************)
EXTENDS Naturals, FiniteSets

CONSTANTS
    Accounts,    \* people
    Admins,      \* those with every right, when they are members
    Owner,       \* the owner, an admin who never leaves
    Posts,       \* ids of posts
    First,       \* the post there is at the start
    Options,     \* answers of a poll
    MaxChoices,  \* how many of them a person may give
    Nobody,      \* NULL in an account column
    Requests,    \* concurrent requests
    MaxRequests, \* bound: requests ever made, and changes from outside
    MaxEpoch     \* bound: key epochs

VARIABLES
    epoch,    \* channels.key_epoch
    members,  \* who is in the channel
    keys,     \* rows of `channel_key_epochs`, by epoch
    meta,     \* the sealed name: the epoch recorded for it, and the one it is sealed under
    room,     \* channels.live_room, 0 for NULL
    post,     \* rows of `channel_posts`
    comment,  \* rows of `channel_post_comments`
    reacted,  \* rows of `channel_post_reactions`: <<post, account>>
    poll,     \* rows of `channel_polls`
    vote,     \* rows of `channel_poll_votes`: <<post, account, option>>
    banned,   \* rows of `channel_bans`
    inbox,    \* senders of rows of `channel_inbox`
    sweeping, \* posts a sweep has claimed and not yet told of
    req,      \* requests between two of their steps
    made,     \* requests made so far
    \* history
    holders,  \* who was a member while an epoch was the current one
    won,      \* <<epoch, account>>: claims answered `claimed: true`
    doubled   \* <<post, account>>: two of an account's votes overlapped

\* What a proof needs of the parameters; the module of the run checks it.
Parameters ==
    /\ Owner \in Accounts /\ Nobody \notin Accounts /\ First \in Posts
    /\ IsFiniteSet(Options) /\ MaxChoices \in Nat
    /\ MaxRequests \in Nat /\ MaxEpoch \in Nat \ {0}

rows == <<post, comment, reacted, poll, vote, banned, inbox, sweeping, doubled>>
keyring == <<epoch, members, keys, meta, holders, won>>
vars == <<epoch, members, keys, meta, room, post, comment, reacted, poll, vote, banned,
          inbox, sweeping, req, made, holders, won, doubled>>

Epochs == 1..MaxEpoch
NoKey  == [by |-> Nobody, abandoned |-> FALSE]
NoPost == [state |-> "none", by |-> Nobody, text |-> FALSE, epoch |-> 1, due |-> "now",
           notified |-> FALSE, told |-> 0, raced |-> FALSE, hushed |-> FALSE]
Idle   == [op |-> "idle", by |-> Owner, whom |-> Owner, post |-> First, epoch |-> 1,
           due |-> "now", opts |-> {}, seen |-> {}, late |-> FALSE]

May(a)     == a \in members /\ a \in Admins

\* requireMember and requireNotBanned: an admin may silence a member.
MaySpeak(a) == a \in members \ banned

Live(p)    == post[p].state = "live"
Visible(p) == Live(p) /\ post[p].due # "later"
Own(p, a)  == {v \in vote : v[1] = p /\ v[2] = a}

\* GET posts: a member's feed, or the posts still to come for who may post.
Feed(a, scheduled) ==
    {p \in Posts : /\ a \in members /\ Live(p)
                   /\ IF scheduled THEN May(a) /\ post[p].due = "later" ELSE Visible(p)}

\* GET comments: whether the post is still there is not asked.
Thread(a, p) == {c \in comment : a \in members /\ c.post = p}

Key        == [by : Accounts \cup {Nobody}, abandoned : BOOLEAN]
PostRow    == [state : {"none", "live", "deleted"}, by : Accounts \cup {Nobody},
               text : BOOLEAN, epoch : Epochs, due : {"now", "later", "past"},
               notified : BOOLEAN, told : Nat, raced : BOOLEAN, hushed : BOOLEAN]
CommentRow == [post : Posts, by : Accounts, epoch : Epochs]

TypeOK ==
    /\ epoch \in Epochs /\ members \subseteq Accounts
    /\ keys \in [Epochs -> Key]
    /\ meta \in [label : Epochs, sealed : Epochs]
    /\ room \in Nat /\ sweeping \subseteq Posts
    /\ post \in [Posts -> PostRow]
    /\ comment \subseteq CommentRow
    /\ reacted \subseteq Posts \X Accounts
    /\ poll \in [Posts -> {"none", "open", "closed"}]
    /\ vote \subseteq Posts \X Accounts \X Options
    /\ banned \subseteq Accounts /\ inbox \subseteq Accounts
    /\ holders \in [Epochs -> SUBSET Accounts] /\ won \subseteq Epochs \X Accounts
    /\ doubled \subseteq Posts \X Accounts
    /\ made \in 0..MaxRequests

\* A channel with a post that asks a question, its key claimed by the owner.
Init ==
    /\ epoch = 1 /\ members = Accounts
    /\ keys = [e \in Epochs |-> IF e = 1 THEN [NoKey EXCEPT !.by = Owner] ELSE NoKey]
    /\ meta = [label |-> 1, sealed |-> 1]
    /\ room = 0 /\ sweeping = {}
    /\ post = [p \in Posts |-> IF p = First
                 THEN [NoPost EXCEPT !.state = "live", !.by = Owner, !.text = TRUE,
                                     !.notified = TRUE, !.told = 1]
                 ELSE NoPost]
    /\ poll = [p \in Posts |-> IF p = First THEN "open" ELSE "none"]
    /\ comment = {} /\ reacted = {} /\ vote = {} /\ banned = {} /\ inbox = {}
    /\ req = [r \in Requests |-> Idle] /\ made = 0
    /\ holders = [e \in Epochs |-> IF e = 1 THEN Accounts ELSE {}]
    /\ won = {<<1, Owner>>} /\ doubled = {}

-----------------------------------------------------------------------------
(* Requests and the channel's row lock *)

Running(op) == {r \in Requests : req[r].op = op}

\* lockChannel: FOR SHARE, FOR UPDATE.
Sharing   == UNION {Running(op) : op \in {"post", "edit", "comment"}}
Excluding == Running("golive")
Unlocked  == Sharing = {} /\ Excluding = {}

AtOnce == made < MaxRequests /\ made' = made + 1

Begin(r, started) ==
    /\ req[r] = Idle
    /\ AtOnce
    /\ req' = [req EXCEPT ![r] = started]

Asked(op, a, p) == [Idle EXCEPT !.op = op, !.by = a, !.post = p]
GoOn(r, op) == req' = [req EXCEPT ![r].op = op] /\ UNCHANGED made
Finish(r)   == req' = [req EXCEPT ![r] = Idle] /\ UNCHANGED made

\* History: requests checked before something their checks would have seen.
Overtake(S) == req' = [r \in Requests |-> IF r \in S THEN [req[r] EXCEPT !.late = TRUE]
                                                     ELSE req[r]]

Unsaid == UNCHANGED <<keyring, room>>   \* a step that is about what is said

-----------------------------------------------------------------------------
(* Keys *)

\* Mutant of Depart: rotates without FOR UPDATE.
DepartUnlocked(a) ==
    /\ a \in members \ {Owner} /\ epoch < MaxEpoch
    /\ members' = members \ {a}
    /\ epoch' = epoch + 1
    /\ holders' = [holders EXCEPT ![epoch + 1] = members']
    /\ AtOnce
    /\ UNCHANGED <<keys, meta, won, room, rows, req>>

\* A departure, by oneself or by an admin: one transaction, FOR UPDATE.
Depart(a) ==
    /\ a \in members \ {Owner} /\ Unlocked /\ epoch < MaxEpoch
    /\ members' = members \ {a}
    /\ epoch' = epoch + 1
    /\ holders' = [holders EXCEPT ![epoch + 1] = members']
    /\ AtOnce
    /\ UNCHANGED <<keys, meta, won, room, rows, req>>

\* Somebody comes in, and is handed the current key.
Arrive(a) ==
    /\ a \notin members /\ Unlocked
    /\ members' = members \cup {a}
    /\ holders' = [holders EXCEPT ![epoch] = @ \cup {a}]
    /\ AtOnce
    /\ UNCHANGED <<epoch, keys, meta, won, room, rows, req>>

\* POST key-epochs: right and epoch are read, then the row is inserted.
Claim(r, a) ==
    /\ May(a)
    /\ Begin(r, [Asked("claim", a, First) EXCEPT !.epoch = epoch])
    /\ UNCHANGED <<keyring, room, rows>>

\* Mutant of ClaimRow: ON CONFLICT DO UPDATE.
ClaimRowOverwriting(r) ==
    /\ req[r].op = "claim"
    /\ keys' = [keys EXCEPT ![req[r].epoch].by = req[r].by]
    /\ won' = won \cup {<<req[r].epoch, req[r].by>>}
    /\ Finish(r)
    /\ UNCHANGED <<epoch, members, meta, holders, room, rows>>

\* ON CONFLICT DO NOTHING, and the row read back: whoever it names has won.
ClaimRow(r) ==
    LET e == req[r].epoch
        a == req[r].by IN
    /\ req[r].op = "claim"
    /\ keys' = IF keys[e].by = Nobody THEN [keys EXCEPT ![e].by = a] ELSE keys
    /\ won' = IF keys'[e].by = a THEN won \cup {<<e, a>>} ELSE won
    /\ Finish(r)
    /\ UNCHANGED <<epoch, members, meta, holders, room, rows>>

Abandon(r, a) ==
    /\ May(a)
    /\ Begin(r, [Asked("abandon", a, First) EXCEPT !.epoch = epoch])
    /\ UNCHANGED <<keyring, room, rows>>

\* Under the lock: still the current epoch, and no post under it.
AbandonTx(r) ==
    LET e == req[r].epoch IN
    /\ req[r].op = "abandon" /\ Unlocked /\ epoch < MaxEpoch
    /\ IF e = epoch /\ (\A p \in Posts : Live(p) => post[p].epoch # e)
       THEN /\ keys' = IF keys[e].by = Nobody THEN keys ELSE [keys EXCEPT ![e].abandoned = TRUE]
            /\ epoch' = epoch + 1
            /\ holders' = [holders EXCEPT ![epoch + 1] = members]
       ELSE UNCHANGED <<keys, epoch, holders>>
    /\ Finish(r)
    /\ UNCHANGED <<members, meta, won, room, rows>>

\* PATCH of the sealed name, by a device that may not have caught up.
Reseal(r, a, e) ==
    /\ May(a) /\ e \in 1..epoch
    /\ Begin(r, [Asked("reseal", a, First) EXCEPT !.epoch = e])
    /\ UNCHANGED <<keyring, room, rows>>

\* The bytes are replaced, the epoch recorded for them only moves forwards.
ResealRow(r) ==
    LET e == req[r].epoch IN
    /\ req[r].op = "reseal" /\ Unlocked
    /\ meta' = [label |-> IF e > meta.label THEN e ELSE meta.label, sealed |-> e]
    /\ Finish(r)
    /\ UNCHANGED <<epoch, members, keys, holders, won, room, rows>>

-----------------------------------------------------------------------------
(* Posts *)

\* The lock, then the right to post, then the epoch the client sealed under.
Publish(r, a, p, due) ==
    /\ May(a) /\ Excluding = {}
    /\ post[p].state = "none" /\ \A s \in Running("post") : req[s].post # p
    /\ Begin(r, [Asked("post", a, p) EXCEPT !.epoch = epoch, !.due = due])
    /\ UNCHANGED rows /\ Unsaid

\* Mutant of PublishWrite: announcing is left to the sweeper.
PublishWriteQuiet(r, asks) ==
    LET p == req[r].post IN
    /\ req[r].op = "post"
    /\ post' = [post EXCEPT ![p] = [NoPost EXCEPT !.state = "live", !.by = req[r].by,
                                      !.text = TRUE, !.epoch = req[r].epoch, !.due = req[r].due]]
    /\ poll' = [poll EXCEPT ![p] = IF asks THEN "open" ELSE "none"]
    /\ Finish(r)
    /\ UNCHANGED <<comment, reacted, vote, banned, inbox, sweeping, doubled>> /\ Unsaid

\* What is out now is announced by this request, after it has answered.
PublishWrite(r, asks) ==
    LET p == req[r].post IN
    /\ req[r].op = "post"
    /\ post' = [post EXCEPT ![p] = [NoPost EXCEPT !.state = "live", !.by = req[r].by,
                                      !.text = TRUE, !.epoch = req[r].epoch, !.due = req[r].due]]
    /\ poll' = [poll EXCEPT ![p] = IF asks THEN "open" ELSE "none"]
    /\ IF req[r].due = "now" THEN GoOn(r, "announce") ELSE Finish(r)
    /\ UNCHANGED <<comment, reacted, vote, banned, inbox, sweeping, doubled>> /\ Unsaid

\* Mutant of Announce: whether the post has been announced is not asked.
AnnounceAgain(r) ==
    LET p == req[r].post IN
    /\ req[r].op = "announce"
    /\ IF Visible(p)
       THEN post' = [post EXCEPT ![p].notified = TRUE] /\ GoOn(r, "wake")
       ELSE UNCHANGED post /\ Finish(r)
    /\ UNCHANGED <<comment, reacted, poll, vote, banned, inbox, sweeping, doubled>> /\ Unsaid

\* notifyPost: the UPDATE that claims the post decides who tells of it ...
Announce(r) ==
    LET p == req[r].post IN
    /\ req[r].op = "announce"
    /\ IF Visible(p) /\ ~post[p].notified
       THEN post' = [post EXCEPT ![p].notified = TRUE] /\ GoOn(r, "wake")
       ELSE UNCHANGED post /\ Finish(r)
    /\ UNCHANGED <<comment, reacted, poll, vote, banned, inbox, sweeping, doubled>> /\ Unsaid

\* ... and wakeMembers, later, tells the members.
Wake(r) ==
    /\ req[r].op = "wake"
    /\ post' = [post EXCEPT ![req[r].post].told = @ + 1]
    /\ Finish(r)
    /\ UNCHANGED <<comment, reacted, poll, vote, banned, inbox, sweeping, doubled>> /\ Unsaid

\* History: whoever was to tell of these posts does not.
CutShort(S) == post' = [p \in Posts |-> IF p \in S THEN [post[p] EXCEPT !.hushed = TRUE]
                                                   ELSE post[p]]

\* The query of the claim or that of the members fails: it is logged, that is all.
AnnounceFails(r) ==
    /\ req[r].op \in {"announce", "wake"}
    /\ CutShort({req[r].post})
    /\ Finish(r)
    /\ UNCHANGED <<comment, reacted, poll, vote, banned, inbox, sweeping, doubled>> /\ Unsaid

\* publish_at passes.
ComesDue(p) ==
    /\ post[p].due = "later"
    /\ post' = [post EXCEPT ![p].due = "past"]
    /\ AtOnce
    /\ UNCHANGED <<comment, reacted, poll, vote, banned, inbox, sweeping, doubled, req>> /\ Unsaid

\* The sweeper claims what came due and has not been announced, but for rows
\* that are locked or beyond its LIMIT; the next sweep may start meanwhile.
Overdue == {p \in Posts : Live(p) /\ post[p].due = "past" /\ ~post[p].notified}
Sweep ==
    \E batch \in SUBSET Overdue \ {{}} :
        /\ post' = [p \in Posts |-> IF p \in batch THEN [post[p] EXCEPT !.notified = TRUE]
                                                   ELSE post[p]]
        /\ sweeping' = sweeping \cup batch
        /\ UNCHANGED <<comment, reacted, poll, vote, banned, inbox, doubled, req, made>>
        /\ Unsaid

\* It wakes the members of one post after the other ...
SweepWakes(p) ==
    /\ p \in sweeping
    /\ post' = [post EXCEPT ![p].told = @ + 1]
    /\ sweeping' = sweeping \ {p}
    /\ UNCHANGED <<comment, reacted, poll, vote, banned, inbox, doubled, req, made>> /\ Unsaid

\* ... and a query that fails ends its loop, whatever is left of the batch.
SweepFails ==
    \E rest \in SUBSET sweeping \ {{}} :
        /\ CutShort(rest)
        /\ sweeping' = sweeping \ rest
        /\ UNCHANGED <<comment, reacted, poll, vote, banned, inbox, doubled, req, made>>
        /\ Unsaid

\* PATCH: the author, under the lock, of a post that is there.  `publishAt` is
\* left alone, null or a time to come.
Edit(r, a, p, due) ==
    /\ May(a) /\ Excluding = {}
    /\ Live(p) /\ post[p].by = a
    /\ Begin(r, [Asked("edit", a, p) EXCEPT !.epoch = epoch, !.due = due])
    /\ UNCHANGED rows /\ Unsaid

\* The UPDATE names the post and does not ask again whether it is deleted.
EditWrite(r) ==
    LET p == req[r].post
        q == req[r] IN
    /\ q.op = "edit"
    /\ post' = [post EXCEPT ![p].text = TRUE, ![p].epoch = q.epoch, ![p].due = q.due,
                            ![p].hushed = @ \/ ( /\ q.due = "now" /\ post[p].due # "now"
                                                 /\ ~post[p].notified )]
    /\ Finish(r)
    /\ UNCHANGED <<comment, reacted, poll, vote, banned, inbox, sweeping, doubled>> /\ Unsaid

DeletePost(r, a, p) ==
    /\ May(a)
    /\ Begin(r, Asked("delete", a, p))
    /\ UNCHANGED rows /\ Unsaid

\* Mutant of DeletePostTx: what hangs off the row is left to its foreign keys.
DeletePostTxSoft(r) ==
    LET p == req[r].post IN
    /\ req[r].op = "delete"
    /\ post' = IF Live(p) THEN [post EXCEPT ![p].state = "deleted", ![p].text = FALSE] ELSE post
    /\ Finish(r)
    /\ UNCHANGED <<comment, reacted, poll, vote, banned, inbox, sweeping, doubled>> /\ Unsaid

\* One transaction, without the channel's lock: the row is blanked and what
\* hangs off it goes; the votes go with the poll's row.
DeletePostTx(r) ==
    LET p == req[r].post
        about == {s \in Requests : req[s].op \in {"edit", "comment", "react"} /\ req[s].post = p} IN
    /\ req[r].op = "delete"
    /\ IF Live(p)
       THEN /\ post' = [post EXCEPT ![p].state = "deleted", ![p].text = FALSE,
                                    ![p].raced = about # {}]
            /\ comment' = {c \in comment : c.post # p}
            /\ reacted' = {x \in reacted : x[1] # p}
            /\ poll' = [poll EXCEPT ![p] = "none"]
            /\ vote' = {v \in vote : v[1] # p}
       ELSE UNCHANGED <<post, comment, reacted, poll, vote>>
    /\ Finish(r)
    /\ UNCHANGED <<banned, inbox, sweeping, doubled>> /\ Unsaid

-----------------------------------------------------------------------------
(* What is said under a post *)

Comment(r, a, p) ==
    /\ MaySpeak(a) /\ Excluding = {}
    /\ Visible(p)
    /\ Begin(r, [Asked("comment", a, p) EXCEPT !.epoch = epoch])
    /\ UNCHANGED rows /\ Unsaid

CommentWrite(r) ==
    /\ req[r].op = "comment"
    /\ comment' = comment \cup {[post |-> req[r].post, by |-> req[r].by, epoch |-> req[r].epoch]}
    /\ Finish(r)
    /\ UNCHANGED <<post, reacted, poll, vote, banned, inbox, sweeping, doubled>> /\ Unsaid

\* By its author or an admin; the checks and the UPDATE touch only that row.
DeleteComment(a, c) ==
    /\ a \in members /\ c \in comment
    /\ c.by = a \/ May(a)
    /\ comment' = comment \ {c}
    /\ AtOnce
    /\ UNCHANGED <<post, reacted, poll, vote, banned, inbox, sweeping, doubled, req>> /\ Unsaid

\* The post need not be out yet, but it has to be there.
React(r, a, p) ==
    /\ MaySpeak(a)
    /\ Live(p)
    /\ Begin(r, Asked("react", a, p))
    /\ UNCHANGED rows /\ Unsaid

ReactRow(r) ==
    /\ req[r].op = "react"
    /\ reacted' = reacted \cup {<<req[r].post, req[r].by>>}
    /\ Finish(r)
    /\ UNCHANGED <<post, comment, poll, vote, banned, inbox, sweeping, doubled>> /\ Unsaid

Unreact(a, p) ==
    /\ a \in members /\ <<p, a>> \in reacted
    /\ reacted' = reacted \ {<<p, a>>}
    /\ AtOnce
    /\ UNCHANGED <<post, comment, poll, vote, banned, inbox, sweeping, doubled, req>> /\ Unsaid

\* Membership and silence are read on the pool ...
Vote(r, a, p, chosen) ==
    /\ MaySpeak(a)
    /\ Begin(r, [Asked("vote", a, p) EXCEPT !.opts = chosen])
    /\ UNCHANGED rows /\ Unsaid

\* Mutant of VoteRead: adds to the answer there is.
VoteReadAdding(r) ==
    LET q == req[r] IN
    /\ q.op = "vote"
    /\ IF poll[q.post] = "open" /\ Visible(q.post) /\ Cardinality(q.opts) <= MaxChoices
       THEN GoOn(r, "voting")
       ELSE Finish(r)
    /\ UNCHANGED rows /\ Unsaid

\* ... the poll, and the rows to be replaced, in the transaction, which takes
\* no lock of the channel ...
VoteRead(r) ==
    LET q == req[r] IN
    /\ q.op = "vote"
    /\ IF poll[q.post] = "open" /\ Visible(q.post) /\ Cardinality(q.opts) <= MaxChoices
       THEN req' = [req EXCEPT ![r].op = "voting", ![r].seen = Own(q.post, q.by)]
                /\ UNCHANGED made
       ELSE Finish(r)
    /\ UNCHANGED rows /\ Unsaid

\* ... and what it leaves of another vote's rows stays.  A row that is there
\* already, or a poll that is gone, fails the transaction.
VoteWrite(r) ==
    LET q      == req[r]
        kept   == vote \ q.seen
        chosen == {<<q.post, q.by, o>> : o \in q.opts}
        rival  == {s \in Running("voting") \ {r} : req[s].by = q.by /\ req[s].post = q.post} IN
    /\ q.op = "voting"
    /\ IF chosen \cap kept = {} /\ (chosen # {} => poll[q.post] # "none")
       THEN /\ vote' = kept \cup chosen
            /\ doubled' = IF rival # {} THEN doubled \cup {<<q.post, q.by>>} ELSE doubled
       ELSE UNCHANGED <<vote, doubled>>
    /\ Finish(r)
    /\ UNCHANGED <<post, comment, reacted, poll, banned, inbox, sweeping>> /\ Unsaid

\* closes_at passes.
PollCloses(p) ==
    /\ poll[p] = "open"
    /\ poll' = [poll EXCEPT ![p] = "closed"]
    /\ AtOnce
    /\ UNCHANGED <<post, comment, reacted, vote, banned, inbox, sweeping, doubled, req>> /\ Unsaid

-----------------------------------------------------------------------------
(* Silence, the inbox, the broadcast *)

\* PUT bans: not the owner, and an admin only by the owner.
Ban(r, a, w) ==
    /\ May(a) /\ w \in members \ {Owner}
    /\ w \in Admins => a = Owner
    /\ Begin(r, [Asked("ban", a, First) EXCEPT !.whom = w])
    /\ UNCHANGED rows /\ Unsaid

\* What the silenced account had got past its checks is overtaken.
BanRow(r) ==
    LET w == req[r].whom IN
    /\ req[r].op = "ban"
    /\ banned' = banned \cup {w}
    /\ req' = [s \in Requests |-> IF s = r THEN Idle
                                  ELSE IF req[s].by = w THEN [req[s] EXCEPT !.late = TRUE]
                                  ELSE req[s]]
    /\ UNCHANGED <<post, comment, reacted, poll, vote, inbox, sweeping, doubled, made>> /\ Unsaid

Unban(a, w) ==
    /\ May(a) /\ w \in banned
    /\ banned' = banned \ {w}
    /\ AtOnce
    /\ UNCHANGED <<post, comment, reacted, poll, vote, inbox, sweeping, doubled, req>> /\ Unsaid

\* Mutant of WriteToInbox: whether the member is silenced is not asked.
WriteToInboxSilenced(r, a) ==
    /\ a \in members
    /\ Begin(r, Asked("write", a, First))
    /\ UNCHANGED rows /\ Unsaid

WriteToInbox(r, a) ==
    /\ MaySpeak(a)
    /\ Begin(r, Asked("write", a, First))
    /\ UNCHANGED rows /\ Unsaid

InboxRow(r) ==
    /\ req[r].op = "write"
    /\ inbox' = inbox \cup {req[r].by}
    /\ Finish(r)
    /\ UNCHANGED <<post, comment, reacted, poll, vote, banned, sweeping, doubled>> /\ Unsaid

\* Mutant of GoLive: what is on the air is read without the lock.
GoLiveUnlocked(r, a) ==
    /\ May(a)
    /\ Begin(r, [Asked("golive", a, First) EXCEPT !.seen = {room}])
    /\ UNCHANGED <<keyring, room, rows>>

\* POST live: the lock, then what is on the air.
GoLive(r, a) ==
    /\ May(a) /\ Unlocked
    /\ Begin(r, [Asked("golive", a, First) EXCEPT !.seen = {room}])
    /\ UNCHANGED <<keyring, room, rows>>

\* A room that is on the air is handed back, otherwise there is another one than
\* the one there is.
GoLiveWrite(r) ==
    /\ req[r].op = "golive"
    /\ room' = IF req[r].seen = {0} THEN room + 1 ELSE room
    /\ Finish(r)
    /\ UNCHANGED <<keyring, rows>>

EndLive(a) ==
    /\ May(a) /\ Unlocked /\ room # 0
    /\ room' = 0
    /\ AtOnce
    /\ UNCHANGED <<keyring, rows, req>>

\* The process ends: transactions roll back, and what was to be told of is not,
\* whether it was claimed or not.
ServerStops ==
    /\ sweeping # {} \/ \E r \in Requests : req[r].op # "idle"
    /\ CutShort(sweeping \cup {req[r].post : r \in Running("announce") \cup Running("wake")})
    /\ sweeping' = {}
    /\ req' = [r \in Requests |-> Idle]
    /\ AtOnce
    /\ UNCHANGED <<comment, reacted, poll, vote, banned, inbox, doubled>> /\ Unsaid

-----------------------------------------------------------------------------

Checked(r) ==
    \E a \in Accounts :
      \/ Claim(r, a) \/ Abandon(r, a) \/ WriteToInbox(r, a) \/ GoLive(r, a)
      \/ \E e \in Epochs : Reseal(r, a, e)
      \/ \E w \in Accounts : Ban(r, a, w)
      \/ \E p \in Posts :
           \/ DeletePost(r, a, p) \/ Comment(r, a, p) \/ React(r, a, p)
           \/ \E due \in {"now", "later"} : Publish(r, a, p, due)
           \/ \E due \in {"now", "later", post[p].due} : Edit(r, a, p, due)
           \/ \E chosen \in SUBSET Options : Vote(r, a, p, chosen)

Continues(r) ==
    \/ ClaimRow(r) \/ AbandonTx(r) \/ ResealRow(r)
    \/ (\E asks \in BOOLEAN : PublishWrite(r, asks)) \/ EditWrite(r)
    \/ Announce(r) \/ Wake(r) \/ AnnounceFails(r)
    \/ DeletePostTx(r) \/ CommentWrite(r) \/ ReactRow(r) \/ VoteRead(r) \/ VoteWrite(r)
    \/ BanRow(r) \/ InboxRow(r) \/ GoLiveWrite(r)

Next ==
    \/ \E r \in Requests : Checked(r) \/ Continues(r)
    \/ \E a \in Accounts :
         \/ Depart(a) \/ Arrive(a) \/ EndLive(a)
         \/ \E c \in comment : DeleteComment(a, c)
         \/ \E p \in Posts : Unreact(a, p)
         \/ \E w \in Accounts : Unban(a, w)
    \/ \E p \in Posts : ComesDue(p) \/ PollCloses(p) \/ SweepWakes(p)
    \/ Sweep \/ SweepFails \/ ServerStops

Spec == Init /\ [][Next]_vars

-----------------------------------------------------------------------------
(* What is promised *)

\* Nothing is written for somebody who has been removed: whoever may hold the
\* key a post or a comment is sealed under is in the channel when it is stored.
NothingForTheRemoved ==
    [][/\ \A p \in Posts : post'[p].text /\ <<post'[p].text, post'[p].epoch>>
                                              # <<post[p].text, post[p].epoch>>
                            => holders[post'[p].epoch] \subseteq members'
       /\ \A c \in comment' \ comment : holders[c.epoch] \subseteq members']_vars

\* An epoch has one key: two devices are never both told theirs is the one
\* (POST key-epochs), and what the feed shows is under no epoch that was given up.
OneKeyPerEpoch ==
    /\ \A x, y \in won : x[1] = y[1] => x = y
    /\ \A a \in members, scheduled \in BOOLEAN :
         \A p \in Feed(a, scheduled) : ~keys[post[p].epoch].abandoned

\* A post that has been deleted keeps neither its text nor anything said under
\* it, unless a request that had found it there wrote afterwards.  Votes go in
\* any case: their rows hang off the poll's.
DeletedIsBlank ==
    \A p \in Posts : post[p].state = "deleted" =>
      /\ \A v \in vote : v[1] # p
      /\ post[p].raced \/ ( /\ ~post[p].text
                           /\ \A a \in members : Thread(a, p) = {}
                           /\ \A x \in reacted : x[1] # p )

\* Nobody has more answers in a poll than it allows, unless two votes of theirs
\* overlapped (PUT votes replaces the answer in a transaction without a lock).
VotesWithinChoice ==
    \A p \in Posts, a \in Accounts :
        <<p, a>> \notin doubled => Cardinality(Own(p, a)) <= MaxChoices

\* A silenced member adds nothing: no comment, reaction, vote or letter, but
\* for what was past its checks when the silence came.
SilencedSaysNothing ==
    [][\A a \in banned :
         \/ /\ \A c \in comment' \ comment : c.by # a
            /\ \A x \in reacted' \ reacted : x[2] # a
            /\ \A v \in vote' \ vote : v[2] # a
            /\ a \in inbox' => a \in inbox
         \/ \E r \in Requests : req[r].by = a /\ req[r].late]_vars

\* Of every post that is out the members have been told, or they will be: by the
\* request or the sweep that has it in hand, or by the sweep that finds it.
\* Two kinds of post are forgotten: one that was in hand when a query failed or
\* the process ended, claimed already or not -- what is claimed no later sweep
\* finds -- and one that its author moved from its time to "now" before it was
\* announced, which is neither the sweeper's nor anybody's.
NoPostIsForgotten ==
    \A p \in Posts : Visible(p) =>
        \/ post[p].told > 0
        \/ p \in sweeping
        \/ \E r \in Running("announce") \cup Running("wake") : req[r].post = p
        \/ post[p].due = "past" /\ ~post[p].notified
        \/ post[p].hushed

\* "The one thing to be careful about is notifying twice": the publisher, its
\* edits and overlapping sweeps between them tell of a post once.
NobodyIsToldTwice == \A p \in Posts : post[p].told <= 1

\* A room on the air does not give way to another: two starts at the same moment
\* do not split the audience (POST live).
OneRoom == [][room # 0 /\ room' # 0 => room' = room]_vars

\* What overlapping requests may not leave behind: a post nobody is told of, or
\* that people are told of twice, something said under a post that is deleted, an
\* answer too many in a poll, a second room.  Each part names the overlap it does
\* not survive.
OverlapsLeaveNoTrace ==
    /\ [](NoPostIsForgotten /\ NobodyIsToldTwice /\ DeletedIsBlank /\ VotesWithinChoice)
    /\ OneRoom

\* The name is never sealed under an older key than the one recorded for it:
\* a slow re-seal "must not put the channel's name back under a key that fewer
\* members hold" (channels.ts:1095).
NameStaysForward == meta.sealed = meta.label

=============================================================================
