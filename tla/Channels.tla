------------------------------ MODULE Channels ------------------------------
(***************************************************************************)
(* One channel in two views that do not read each other's state: who is in *)
(* it (ChannelMembers) and what is said in it (ChannelContent).  Requests  *)
(* are bounded alike in both.  A behaviour follows one view, chosen at the *)
(* start, while the other stays as it was: the states are those of the two *)
(* added up.                                                               *)
(***************************************************************************)
EXTENDS ChannelMembers

CONSTANTS
    People,      \* those who read and write in the second view
    Staff,       \* its administrators
    Boss,        \* its owner
    Entries,     \* ids of posts
    Opening,     \* the post there is at the start
    Answers,     \* options of a poll
    MaxAnswers,  \* how many of them a person may give
    NoAuthor,    \* NULL in an account column
    MaxEpoch     \* bound: key epochs

VARIABLES cEpoch, cMembers, keys, meta, room, post, comment, reacted, poll, vote,
          banned, inbox, sweeping, cReq, cMade, holders, won, doubled,
          view

content == INSTANCE ChannelContent WITH
    Accounts <- People, Admins <- Staff, Owner <- Boss, Posts <- Entries, First <- Opening,
    Options <- Answers, MaxChoices <- MaxAnswers, Nobody <- NoAuthor,
    epoch <- cEpoch, members <- cMembers, req <- cReq, made <- cMade

ASSUME ContentAssumption == content!Parameters

said  == <<cEpoch, cMembers, keys, meta, room, post, comment, reacted, poll, vote,
           banned, inbox, sweeping, cReq, cMade, holders, won, doubled>>
vars2 == <<vars, said, view>>

\* The link is limited when it asks first, and only then.
Init2 ==
    /\ view \in {"members", "content"}
    /\ Init /\ content!Init
    /\ chan.approval <=> chan.maxUses # Unlimited
    /\ view = "content" => ~chan.approval /\ \A b \in Accounts \ {Creator} : member[b] = Reader

Next2 ==
    \/ view = "members" /\ Next /\ UNCHANGED <<said, view>>
    \/ view = "content" /\ content!Next /\ UNCHANGED <<vars, view>>

Spec2 == Init2 /\ [][Next2]_vars2

-----------------------------------------------------------------------------

\* Both views' types.
TypesOK == TypeOK /\ content!TypeOK

\* No two devices are told that their key is an epoch's, and nothing in the feed
\* is sealed under a key that was given up (POST key-epochs, POST abandon).
OneKeyPerEpoch == content!OneKeyPerEpoch

\* No post and no comment is stored under a key that somebody holds who is not a
\* member any more (lockChannel: FOR SHARE against the rotation's FOR UPDATE).
NothingForTheRemoved == content!NothingForTheRemoved

\* What an operator or an administrator takes away is gone but for requests that
\* were past their checks: nobody comes into a suspended channel of their own
\* accord (POST join), and a silenced member adds nothing (PUT bans).
ModerationHolds == SuspensionClosesTheDoor /\ content!SilencedSaysNothing

\* Nothing is forgotten, told twice, left under a deleted post, counted too often
\* or put on the air beside what is on it because requests overlapped; a post that
\* was to be told of when the process ended or a query failed is (notifyPost).
OverlapsLeaveNoTrace == content!OverlapsLeaveNoTrace
=============================================================================
