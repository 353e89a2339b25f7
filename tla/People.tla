------------------------------- MODULE People -------------------------------
(***************************************************************************)
(* What belongs to a person, in parts that do not read each other's state: *)
(* the account with its devices and sessions (Accounts), a group (Groups), *)
(* a device's public keys (Prekeys), the phone number (Phone) and what was *)
(* uploaded (Media); and the server's operators (Operators).  A            *)
(* behaviour follows one part, chosen at the start, while the others stay  *)
(* as they were: the states are those of the parts added up.               *)
(***************************************************************************)
EXTENDS Accounts

CONSTANTS
    Crew, Creator, Willing, MaxMembers, GroupRequests,       \* of Groups; Crew are its accounts
    Asks, Batch, LowWater, MaxOneTime, Lifetime, Grace,      \* of Prekeys
    MaxKeys, MaxAsks, MaxDay,
    Holders, Numbers, MaxSends, MaxAttempts, MaxTexts,       \* of Phone; Holders are its accounts
    Staff, First, MaxSessions, StaffRequests,                \* of Operators; Staff are its people
    Kinds, Items, ItemsPerPack, Quota, MaxBlobs,             \* of Media
    MediaRequests

VARIABLES role, since, code, deleted, keyAsked, gReq, gMade, unkeyed, gWiped, raced, emptied,
          day, own, signed, stage, short, pool, offered, uploads, renewal, ask, asked,
          letters, serial,
          pending, link, pReq, texts, agreed, crossed,
          operator, logins, sessions, oReq, oMade, era, seen, overlapped, secrets, shown, crowded,
          object, backup, blobs, puts, mine, door, closed, face, item, packGone, mReq, mMade, excused,
          part

ASSUME PeopleAssumption ==
    /\ IsFiniteSet(Crew) /\ Creator \in Crew /\ MaxMembers \in Nat
    /\ None \notin Numbers /\ MaxTexts \in Nat /\ Holders # {}
    /\ First \in Staff /\ MaxSessions \in Nat \ {0}
    /\ MaxRequests \in Nat /\ GroupRequests \in Nat /\ StaffRequests \in Nat
    /\ LowWater \in Nat /\ Batch \in Nat /\ LowWater <= Batch /\ Grace \in Nat
    /\ MaxKeys \in Nat /\ Batch <= MaxKeys /\ MaxAsks \in Nat /\ MaxDay \in Nat
    /\ {"mine", "door"} \cap Items = {} /\ MaxBlobs \in Nat /\ MediaRequests \in Nat
    /\ ItemsPerPack \in Nat

groups == INSTANCE Groups WITH
    Accounts <- Crew, MaxRequests <- GroupRequests, req <- gReq, made <- gMade, wiped <- gWiped

prekeys == INSTANCE Prekeys

phone == INSTANCE Phone WITH Accounts <- Holders, req <- pReq

operators == INSTANCE Operators WITH
    People <- Staff, MaxRequests <- StaffRequests,
    signed <- logins, req <- oReq, made <- oMade, opened <- seen, stray <- overlapped,
    minted <- secrets, proven <- shown, raced <- crowded

media == INSTANCE Media WITH MaxRequests <- MediaRequests, req <- mReq, made <- mMade

ofGroups  == <<role, since, code, deleted, keyAsked, gReq, gMade, unkeyed, gWiped, raced, emptied>>
ofPrekeys == <<day, own, signed, stage, short, pool, offered, uploads, renewal, ask, asked,
               letters, serial>>
ofPhone   == <<pending, link, pReq, texts, agreed, crossed>>
ofStaff   == <<operator, logins, sessions, oReq, oMade, era, seen, overlapped, secrets, shown, crowded>>
ofMedia   == <<object, backup, blobs, puts, mine, door, closed, face, item, packGone, mReq, mMade,
               excused>>
vars6     == <<vars, ofGroups, ofPrekeys, ofPhone, ofStaff, ofMedia, part>>

Init6 ==
    /\ part \in {"account", "group", "prekeys", "phone", "operators", "media"}
    /\ Init /\ groups!Init /\ prekeys!Init /\ phone!Init /\ operators!Init /\ media!Init
    /\ part # "account" => account.password = CHOOSE w \in Passwords : TRUE
    /\ part # "group" => role = [b \in Crew |-> IF b = Creator THEN "admin" ELSE "none"]
    /\ part # "operators" => operators!Owners = Staff

Next6 ==
    \/ part = "account" /\ Next
       /\ UNCHANGED <<ofGroups, ofPrekeys, ofPhone, ofStaff, ofMedia, part>>
    \/ part = "group" /\ groups!Next
       /\ UNCHANGED <<vars, ofPrekeys, ofPhone, ofStaff, ofMedia, part>>
    \/ part = "prekeys" /\ prekeys!Next
       /\ UNCHANGED <<vars, ofGroups, ofPhone, ofStaff, ofMedia, part>>
    \/ part = "phone" /\ phone!Next
       /\ UNCHANGED <<vars, ofGroups, ofPrekeys, ofStaff, ofMedia, part>>
    \/ part = "operators" /\ operators!Next
       /\ UNCHANGED <<vars, ofGroups, ofPrekeys, ofPhone, ofMedia, part>>
    \/ part = "media" /\ media!Next
       /\ UNCHANGED <<vars, ofGroups, ofPrekeys, ofPhone, ofStaff, part>>

Spec6 == Init6 /\ [][Next6]_vars6

-----------------------------------------------------------------------------

\* The parts' types.
TypesOK ==
    /\ TypeOK /\ groups!TypeOK /\ prekeys!TypeOK /\ phone!TypeOK /\ operators!TypeOK /\ media!TypeOK

\* A session outlives no revocation it should have ended by, of an account or of
\* an operator, unless its sign-in overlapped it (plugins/auth.ts, admin_auth.ts).
SessionsStand == StandingSignIns /\ operators!StandingSignIns

\* What is counted before a row is inserted is counted under a lock: an account
\* has no more devices than a licence allowed (registerDevice), a group no more
\* members than it may hold (migration 032).
LimitsHold == DevicesWithinLimit /\ groups!NeverOverfull

\* A group with members has an administrator, and the server an owner, but for
\* two who step down or remove each other at once and, in a group, a join after
\* the last member has left (DELETE member, PUT role, PATCH operators).
SomebodyIsInCharge == groups!AdministeredUnlessRaced /\ operators!AnOwnerRemainsUnlessRaced

\* Who waits for the group's key is on the list its holders answer, but for the
\* clean-up after an earlier removal (key_requests.ts); and every bundle handed
\* out can be opened when its message comes, until the signed key's grace is over
\* (maintainPreKeys, rotateSignedPreKeyIfDue, GET keys).
KeysAreWithinReach == groups!WaitingIsListed /\ prekeys!BundlesOpen

\* An account has a number only by a code that was sent to it, and is found by
\* it only by its own wish for that number (routes/phone.ts).
NumberIsProved == phone!NumberIsProved

\* A row names a file that is there, and a picture lives as long as it is in use
\* (routes/media.ts, the avatar and sticker routes, services/cleanup.ts).
MediaLivesAsUsed == media!NothingDangles /\ media!PicturesLiveAsUsed

\* A second factor goes on with a proof and off by password or wipe, for an
\* account and for an operator (routes/accounts.ts, routes/admin.ts).
FactorsChangeByProof == FactorChangesByProof /\ operators!FactorChangesByProof

\* "hard-deletes everything attached to it" (services/accounts.ts:110).
WipeErasesMedia == media!WipeErasesMedia
=============================================================================
