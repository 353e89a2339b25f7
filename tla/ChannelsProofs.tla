--------------------------- MODULE ChannelsProofs ---------------------------
(***************************************************************************)
(* What the two views of Channels.tla keep together.  Each view's part of  *)
(* a behaviour is a behaviour of that view: Viewed says it of the members, *)
(* Said of the content, and what is proved of each carries over.           *)
(***************************************************************************)
EXTENDS Channels, ChannelMembersProofs

contentP == INSTANCE ChannelContentProofs WITH
    Accounts <- People, Admins <- Staff, Owner <- Boss, Posts <- Entries, First <- Opening,
    Options <- Answers, MaxChoices <- MaxAnswers, Nobody <- NoAuthor,
    epoch <- cEpoch, members <- cMembers, req <- cReq, made <- cMade

-----------------------------------------------------------------------------
(* ChannelContentProofs extends ChannelContent, so that its definitions    *)
(* under these parameters are those of Channels, action by action.         *)


\* The key, the silence, the inbox and the broadcast, asked for.
LEMMA SameAsked ==
  /\ \A r, a : content!Claim(r, a) <=> contentP!Claim(r, a)
  /\ \A r, a : content!Abandon(r, a) <=> contentP!Abandon(r, a)
  /\ \A r, a : content!WriteToInbox(r, a) <=> contentP!WriteToInbox(r, a)
  /\ \A r, a : content!GoLive(r, a) <=> contentP!GoLive(r, a)
  /\ \A r, a, e : content!Reseal(r, a, e) <=> contentP!Reseal(r, a, e)
  /\ \A r, a, w : content!Ban(r, a, w) <=> contentP!Ban(r, a, w)
  BY Zenon
     DEF content!rows, contentP!rows, content!keyring, contentP!keyring,
         content!Idle, contentP!Idle, content!May, contentP!May, content!MaySpeak,
         contentP!MaySpeak, content!Running, contentP!Running, content!Sharing,
         contentP!Sharing, content!Excluding, contentP!Excluding, content!Unlocked,
         contentP!Unlocked, content!AtOnce, contentP!AtOnce, content!Begin,
         contentP!Begin, content!Asked, contentP!Asked, content!Unsaid,
         contentP!Unsaid, content!Claim, contentP!Claim, content!Abandon,
         contentP!Abandon, content!Reseal, contentP!Reseal, content!Ban,
         contentP!Ban, content!WriteToInbox, contentP!WriteToInbox, content!GoLive,
         contentP!GoLive

\* Posts, asked for.
LEMMA SamePostsAsked ==
  /\ \A r, a, p : content!DeletePost(r, a, p) <=> contentP!DeletePost(r, a, p)
  /\ \A r, a, p, due : content!Publish(r, a, p, due) <=> contentP!Publish(r, a, p, due)
  /\ \A r, a, p, due : content!Edit(r, a, p, due) <=> contentP!Edit(r, a, p, due)
  BY Zenon
     DEF content!rows, contentP!rows, content!keyring, contentP!keyring,
         content!Idle, contentP!Idle, content!May, contentP!May, content!Live,
         contentP!Live, content!Running, contentP!Running, content!Excluding,
         contentP!Excluding, content!AtOnce, contentP!AtOnce, content!Begin,
         contentP!Begin, content!Asked, contentP!Asked, content!Unsaid,
         contentP!Unsaid, content!Publish, contentP!Publish, content!Edit,
         contentP!Edit, content!DeletePost, contentP!DeletePost

\* What is said under them, asked for.
LEMMA SameTalkAsked ==
  /\ \A r, a, p : content!Comment(r, a, p) <=> contentP!Comment(r, a, p)
  /\ \A r, a, p : content!React(r, a, p) <=> contentP!React(r, a, p)
  /\ \A r, a, p, chosen : content!Vote(r, a, p, chosen) <=> contentP!Vote(r, a, p, chosen)
  BY Zenon
     DEF content!rows, contentP!rows, content!keyring, contentP!keyring,
         content!Idle, contentP!Idle, content!MaySpeak, contentP!MaySpeak,
         content!Live, contentP!Live, content!Visible, contentP!Visible,
         content!Running, contentP!Running, content!Excluding, contentP!Excluding,
         content!AtOnce, contentP!AtOnce, content!Begin, contentP!Begin,
         content!Asked, contentP!Asked, content!Unsaid, contentP!Unsaid,
         content!Comment, contentP!Comment, content!React, contentP!React,
         content!Vote, contentP!Vote

\* The key and the posts, written.
LEMMA SameKeysAndPosts ==
  /\ \A r : content!ClaimRow(r) <=> contentP!ClaimRow(r)
  /\ \A r : content!AbandonTx(r) <=> contentP!AbandonTx(r)
  /\ \A r : content!ResealRow(r) <=> contentP!ResealRow(r)
  /\ \A r, asks : content!PublishWrite(r, asks) <=> contentP!PublishWrite(r, asks)
  /\ \A r : content!Announce(r) <=> contentP!Announce(r)
  /\ \A r : content!Wake(r) <=> contentP!Wake(r)
  /\ \A r : content!AnnounceFails(r) <=> contentP!AnnounceFails(r)
  /\ \A r : content!EditWrite(r) <=> contentP!EditWrite(r)
  /\ \A r : content!DeletePostTx(r) <=> contentP!DeletePostTx(r)
  BY Zenon
     DEF content!rows, contentP!rows, content!keyring, contentP!keyring,
         content!NoPost, contentP!NoPost, content!Idle, contentP!Idle,
         content!Live, contentP!Live, content!Visible, contentP!Visible,
         content!Running, contentP!Running, content!Sharing, contentP!Sharing,
         content!Excluding, contentP!Excluding, content!Unlocked,
         contentP!Unlocked, content!GoOn, contentP!GoOn, content!Finish,
         contentP!Finish, content!Unsaid, contentP!Unsaid, content!ClaimRow,
         contentP!ClaimRow, content!AbandonTx, contentP!AbandonTx,
         content!ResealRow, contentP!ResealRow, content!PublishWrite,
         contentP!PublishWrite, content!Announce, contentP!Announce, content!Wake,
         contentP!Wake, content!CutShort, contentP!CutShort, content!AnnounceFails,
         contentP!AnnounceFails, content!EditWrite, contentP!EditWrite,
         content!DeletePostTx, contentP!DeletePostTx

\* The rest, written.
LEMMA SameTalk ==
  /\ \A r : content!CommentWrite(r) <=> contentP!CommentWrite(r)
  /\ \A r : content!ReactRow(r) <=> contentP!ReactRow(r)
  /\ \A r : content!VoteRead(r) <=> contentP!VoteRead(r)
  /\ \A r : content!VoteWrite(r) <=> contentP!VoteWrite(r)
  /\ \A r : content!BanRow(r) <=> contentP!BanRow(r)
  /\ \A r : content!InboxRow(r) <=> contentP!InboxRow(r)
  /\ \A r : content!GoLiveWrite(r) <=> contentP!GoLiveWrite(r)
  BY Zenon
     DEF content!Cardinality, contentP!Cardinality, content!rows, contentP!rows,
         content!keyring, contentP!keyring, content!Idle, contentP!Idle,
         content!Live, contentP!Live, content!Visible, contentP!Visible,
         content!Own, contentP!Own, content!Running, contentP!Running,
         content!Finish, contentP!Finish, content!Unsaid, contentP!Unsaid,
         content!CommentWrite, contentP!CommentWrite, content!ReactRow,
         contentP!ReactRow, content!VoteRead, contentP!VoteRead, content!VoteWrite,
         contentP!VoteWrite, content!BanRow, contentP!BanRow, content!InboxRow,
         contentP!InboxRow, content!GoLiveWrite, contentP!GoLiveWrite

\* What is one step.
LEMMA SameAtOnce ==
  /\ \A a : content!Depart(a) <=> contentP!Depart(a)
  /\ \A a : content!Arrive(a) <=> contentP!Arrive(a)
  /\ \A a : content!EndLive(a) <=> contentP!EndLive(a)
  /\ \A a, c : content!DeleteComment(a, c) <=> contentP!DeleteComment(a, c)
  /\ \A a, p : content!Unreact(a, p) <=> contentP!Unreact(a, p)
  /\ \A a, w : content!Unban(a, w) <=> contentP!Unban(a, w)
  /\ \A p : content!ComesDue(p) <=> contentP!ComesDue(p)
  /\ \A p : content!PollCloses(p) <=> contentP!PollCloses(p)
  /\ content!Sweep <=> contentP!Sweep
  /\ \A p : content!SweepWakes(p) <=> contentP!SweepWakes(p)
  /\ content!SweepFails <=> contentP!SweepFails
  /\ content!ServerStops <=> contentP!ServerStops
  BY Zenon
     DEF content!rows, contentP!rows, content!keyring, contentP!keyring,
         content!Idle, contentP!Idle, content!May, contentP!May, content!Live,
         contentP!Live, content!Running, contentP!Running, content!Sharing,
         contentP!Sharing, content!Excluding, contentP!Excluding, content!Unlocked,
         contentP!Unlocked, content!AtOnce, contentP!AtOnce, content!Unsaid,
         contentP!Unsaid, content!Depart, contentP!Depart, content!Arrive,
         contentP!Arrive, content!ComesDue, contentP!ComesDue, content!Overdue,
         contentP!Overdue, content!Sweep, contentP!Sweep, content!SweepWakes,
         contentP!SweepWakes, content!SweepFails, contentP!SweepFails,
         content!CutShort, contentP!CutShort, content!DeleteComment,
         contentP!DeleteComment, content!Unreact, contentP!Unreact,
         content!PollCloses, contentP!PollCloses, content!Unban, contentP!Unban,
         content!EndLive, contentP!EndLive, content!ServerStops,
         contentP!ServerStops

LEMMA SameNext == content!Next <=> contentP!Next
  <1>1. \A r : content!Checked(r) <=> contentP!Checked(r)
    BY SameAsked, SamePostsAsked, SameTalkAsked
       DEF content!Checked, contentP!Checked, content!Epochs, contentP!Epochs
  <1>2. \A r : content!Continues(r) <=> contentP!Continues(r)
    BY SameKeysAndPosts, SameTalk, Zenon DEF content!Continues, contentP!Continues
  <1> QED
    BY SameAtOnce, <1>1, <1>2, Zenon DEF content!Next, contentP!Next

LEMMA SameInit == content!Init <=> contentP!Init
  BY Zenon
     DEF content!Init, contentP!Init, content!Epochs, contentP!Epochs,
         content!NoKey, contentP!NoKey, content!NoPost, contentP!NoPost,
         content!Idle, contentP!Idle

LEMMA GoodParameters == contentP!Parameters
  BY ContentAssumption
     DEF content!Parameters, contentP!Parameters, content!IsFiniteSet,
         contentP!IsFiniteSet

-----------------------------------------------------------------------------
(* Each view by itself                                                     *)

LEMMA Viewed == Spec2 => Spec
  <1>1. Init2 => Init
    BY DEF Init2
  <1>2. [Next2]_vars2 => [Next]_vars
    BY DEF Next2, vars2
  <1> QED
    BY <1>1, <1>2, PTL DEF Spec2, Spec

LEMMA Said == Spec2 => contentP!Spec
  <1>1. Init2 => contentP!Init
    BY SameInit DEF Init2
  <1>2. [Next2]_vars2 => [contentP!Next]_(contentP!vars)
    BY SameNext DEF Next2, vars2, said, contentP!vars
  <1> QED
    BY <1>1, <1>2, PTL DEF Spec2, contentP!Spec

LEMMA Kept == Spec2 => []contentP!IInv
  <1>1. contentP!Spec => []contentP!IInv
    BY GoodParameters, contentP!Invariant
  <1> QED
    BY <1>1, Said, PTL

-----------------------------------------------------------------------------
(* The theorems                                                            *)

\* Rows, requests and the history of both views have the types they are declared
\* with, whatever people ask of the channel and in whatever order.
THEOREM TypesAreKept == Spec2 => []TypesOK
  <1>1. contentP!IInv => content!TypeOK
    BY Zenon
       DEF contentP!IInv, contentP!TypeOK, content!TypeOK, content!Epochs,
           contentP!Epochs, content!Key, contentP!Key, content!PostRow,
           contentP!PostRow, content!CommentRow, contentP!CommentRow
  <1> QED
    BY <1>1, Viewed, Kept, TypeCorrect, PTL DEF TypesOK

\* Two devices are never both told that their key is an epoch's, and no member's
\* feed has a post under an epoch that was given up (POST key-epochs, abandon).
THEOREM EpochsHaveOneKey == Spec2 => []OneKeyPerEpoch
  <1>1. contentP!Spec => []contentP!OneKeyPerEpoch
    BY GoodParameters, contentP!OneKey
  <1>2. contentP!OneKeyPerEpoch => OneKeyPerEpoch
    BY Zenon
       DEF OneKeyPerEpoch, content!OneKeyPerEpoch, contentP!OneKeyPerEpoch, content!Feed,
           contentP!Feed, content!Live, contentP!Live, content!Visible, contentP!Visible,
           content!May, contentP!May
  <1> QED
    BY <1>1, <1>2, Said, PTL

\* Overlapping requests leave no post that nobody is told of or that people are
\* told of twice, nothing said under a deleted post, no answer too many and no
\* second room, but for the overlaps, failures and ends of the process the parts
\* name (notifyPost and the sweep, DELETE, PUT votes, POST live).
THEOREM NoTraceIsLeft == Spec2 => OverlapsLeaveNoTrace
  <1> DEFINE Clean  == /\ content!NoPostIsForgotten /\ content!NobodyIsToldTwice
                       /\ content!DeletedIsBlank /\ content!VotesWithinChoice
             CleanP == /\ contentP!NoPostIsForgotten /\ contentP!NobodyIsToldTwice
                       /\ contentP!DeletedIsBlank /\ contentP!VotesWithinChoice
             A == room # 0 /\ room' # 0 => room' = room
  <1>1. contentP!Spec => []CleanP /\ contentP!OneRoom
    <2>1. contentP!Spec => contentP!OverlapsLeaveNoTrace
      BY GoodParameters, contentP!NoTrace
    <2> QED
      BY <2>1, PTL DEF contentP!OverlapsLeaveNoTrace
  <1>5. contentP!OneRoom <=> [][A]_(contentP!vars)
    BY DEF contentP!OneRoom
  <1>6. content!OneRoom <=> [][A]_(content!vars)
    BY DEF content!OneRoom
  <1>2. CleanP => Clean
    BY Zenon
       DEF content!NoPostIsForgotten, contentP!NoPostIsForgotten,
           content!NobodyIsToldTwice, contentP!NobodyIsToldTwice,
           content!DeletedIsBlank, contentP!DeletedIsBlank,
           content!VotesWithinChoice, contentP!VotesWithinChoice, content!Visible,
           contentP!Visible, content!Live, contentP!Live, content!Running,
           contentP!Running, content!Thread, contentP!Thread, content!Own,
           contentP!Own, content!Cardinality, contentP!Cardinality
  <1>3. [A]_(contentP!vars) => [A]_(content!vars)
    BY DEF content!vars, contentP!vars
  <1>4. OverlapsLeaveNoTrace <=> []Clean /\ content!OneRoom
    BY PTL DEF OverlapsLeaveNoTrace, content!OverlapsLeaveNoTrace
  <1> QED
    BY <1>1, <1>2, <1>3, <1>4, <1>5, <1>6, Said, PTL

\* Whoever may hold the key a post or a comment is sealed under is a member when
\* it is stored: a departure's rotation waits for publishers, and they for it.
THEOREM TheRemovedGetNothing == Spec2 => NothingForTheRemoved
  <1> DEFINE A ==
        /\ \A p \in Entries : post'[p].text /\ <<post'[p].text, post'[p].epoch>>
                                               # <<post[p].text, post[p].epoch>>
                                => holders[post'[p].epoch] \subseteq cMembers'
        /\ \A c \in comment' \ comment : holders[c.epoch] \subseteq cMembers'
  <1>1. contentP!Spec => contentP!NothingForTheRemoved
    BY GoodParameters, contentP!RemovedAreShutOut
  <1>2. contentP!NothingForTheRemoved <=> [][A]_(contentP!vars)
    BY DEF contentP!NothingForTheRemoved
  <1>3. NothingForTheRemoved <=> [][A]_(content!vars)
    BY DEF NothingForTheRemoved, content!NothingForTheRemoved
  <1>4. [A]_(contentP!vars) => [A]_(content!vars)
    BY DEF content!vars, contentP!vars
  <1> QED
    BY <1>1, <1>2, <1>3, <1>4, Said, PTL

\* Into a suspended channel people come by an administrator's hand, by the
\* subscription at sign-in or in a join checked before, and a silenced member adds
\* only what was past its checks (POST join, ensureSubscribed, PUT bans).
THEOREM ModerationIsKept == Spec2 => ModerationHolds
  <1> DEFINE A ==
        \A a \in banned :
          \/ /\ \A c \in comment' \ comment : c.by # a
             /\ \A x \in reacted' \ reacted : x[2] # a
             /\ \A v \in vote' \ vote : v[2] # a
             /\ a \in inbox' => a \in inbox
          \/ \E r \in Requests : cReq[r].by = a /\ cReq[r].late
  <1>1. contentP!Spec => contentP!SilencedSaysNothing
    BY GoodParameters, contentP!SilencedAreSilent
  <1>2. contentP!SilencedSaysNothing <=> [][A]_(contentP!vars)
    BY DEF contentP!SilencedSaysNothing
  <1>3. content!SilencedSaysNothing <=> [][A]_(content!vars)
    BY DEF content!SilencedSaysNothing
  <1>4. [A]_(contentP!vars) => [A]_(content!vars)
    BY DEF content!vars, contentP!vars
  <1>5. Spec2 => content!SilencedSaysNothing
    BY <1>1, <1>2, <1>3, <1>4, Said, PTL
  <1> QED
    BY <1>5, Viewed, SuspendedIsClosed, PTL DEF ModerationHolds

=============================================================================
