------------------------------- MODULE Media -------------------------------
(***************************************************************************)
(* What an account has uploaded: rows and blobs, what points at them, and  *)
(* what takes them away again.  src/server/src/routes/media.ts, backup.ts, *)
(* stickers.ts, the avatar routes of accounts.ts, channels.ts and          *)
(* groups.ts, services/cleanup.ts, services/storage.ts and wipeAccount.    *)
(*                                                                         *)
(* One account that owns everything: a channel, a group and a pack of      *)
(* stickers.  Rows are in the database and blobs are files, so each goes   *)
(* in a step of its own, and the process may end between the two.  Time    *)
(* only runs out, object by object.  A refusal changes nothing and is not  *)
(* an action.                                                              *)
(***************************************************************************)
EXTENDS Naturals, FiniteSets

CONSTANTS
    Kinds,        \* kinds uploaded, of the five media_kind_known has
    Items,        \* bound: rows the pack may have at once
    ItemsPerPack, \* how many are enough to be full
    Quota,        \* MEDIA_QUOTA_BYTES, in blobs
    MaxBlobs,     \* bound: blobs ever stored
    Requests,     \* concurrent requests
    MaxRequests   \* bound: requests ever made

VARIABLES
    object,    \* rows of `media_objects`, by the blob they name
    backup,    \* the blob the row of `backups` names; 0 without one
    blobs,     \* files there are
    puts,      \* blobs ever stored
    mine,      \* accounts.avatar_media_id; 0 for NULL
    door,      \* channels.avatar_media_id
    closed,    \* channels.deleted_at is set
    face,      \* groups.avatar_media_id
    item,      \* sticker_items.media_id by item; 0 without one
    packGone,  \* sticker_packs.deleted_at is set
    req,       \* requests between two of their steps
    made,      \* requests made so far
    excused    \* history: objects two uses, or a use and a crash, have crossed over

pictures == <<mine, door, closed, face, item, packGone>>
vars     == <<object, backup, blobs, puts, pictures, req, made, excused>>

Blobs == 1..MaxBlobs
NoRow == [row |-> FALSE, kind |-> "attachment", till |-> "over", kept |-> FALSE]
Idle  == [op |-> "idle", key |-> 0, old |-> 0, keys |-> {}, kind |-> "attachment", item |-> "none"]
Ops   == {"idle", "insert", "mine", "door", "release", "item", "adopt", "drop", "unlink",
          "backup", "wipe"}

Running(ops) == {r \in Requests : req[r].op \in ops}
Rows         == {k \in Blobs : object[k].row}
InItems      == {item[i] : i \in Items} \ {0}

\* GET media finds it.
Shown(k) == object[k].row /\ (object[k].till # "over" \/ object[k].kept)

\* Where a picture has been put that is still there to be looked at: a pack that
\* is deleted leaves its stickers in other people's conversations.
Uses(k) == {u \in {"mine", "door"} \cup Items :
               \/ u = "mine" /\ mine = k
               \/ u = "door" /\ door = k /\ ~closed
               \/ u \in Items /\ item[u] = k}

TypeOK ==
    /\ object \in [Blobs -> [row : BOOLEAN, kind : Kinds \cup {"attachment"},
                             till : {"window", "long", "over"}, kept : BOOLEAN]]
    /\ puts \in 0..MaxBlobs /\ blobs \subseteq 1..puts /\ Rows \subseteq 1..puts
    /\ {backup, mine, door, face} \subseteq 0..puts /\ item \in [Items -> 0..puts]
    /\ ({mine, door, face} \cup InItems) \ {0} \subseteq Rows
    /\ closed \in BOOLEAN /\ packGone \in BOOLEAN
    /\ req \in [Requests -> [op : Ops, key : 0..puts, old : 0..puts, keys : SUBSET Blobs,
                             kind : Kinds \cup {"attachment"}, item : Items \cup {"none"}]]
    /\ made \in 0..MaxRequests /\ excused \subseteq Blobs

Init ==
    /\ object = [k \in Blobs |-> NoRow] /\ backup = 0 /\ blobs = {} /\ puts = 0
    /\ mine = 0 /\ door = 0 /\ closed = FALSE /\ face = 0
    /\ item = [i \in Items |-> 0] /\ packGone = FALSE
    /\ req = [r \in Requests |-> Idle] /\ made = 0 /\ excused = {}

-----------------------------------------------------------------------------
(* Requests *)

AtOnce == made < MaxRequests /\ made' = made + 1 /\ UNCHANGED req

Begin(r, started) ==
    /\ req[r].op = "idle" /\ made < MaxRequests
    /\ made' = made + 1
    /\ req' = [req EXCEPT ![r] = started]

Goes(r, q) == req' = [req EXCEPT ![r] = q] /\ UNCHANGED made

\* The UPDATE that lets a picture fall into the next sweep, if there was one.
Letting(old, k) == IF old \in {0, k} THEN Idle ELSE [Idle EXCEPT !.op = "release", !.old = old]

Unlinking(keys) == IF keys = {} THEN Idle ELSE [Idle EXCEPT !.op = "unlink", !.keys = keys]

\* k is taken into use at u: another use of it, or one about to let it go, will
\* be crossed.
Crossed(r, k, u) ==
    IF Uses(k) \ {u} # {} \/ \E q \in Requests \ {r} : req[q].op = "release" /\ req[q].old = k
    THEN excused \cup {k} ELSE excused

\* Mutant of DeleteRows: nothing holds the rows that stickers point at.
DeleteRowsUnchecked(keys) ==
    /\ object' = [k \in Blobs |-> IF k \in keys THEN NoRow ELSE object[k]]
    /\ mine' = IF mine \in keys THEN 0 ELSE mine
    /\ door' = IF door \in keys THEN 0 ELSE door
    /\ face' = IF face \in keys THEN 0 ELSE face
    /\ UNCHANGED <<closed, item, packGone>>

\* Rows go; a picture that pointed at one points at nothing (ON DELETE SET NULL),
\* and a sticker's item keeps the row it points at (ON DELETE RESTRICT).
DeleteRows(keys) ==
    /\ keys \cap InItems = {}
    /\ object' = [k \in Blobs |-> IF k \in keys THEN NoRow ELSE object[k]]
    /\ mine' = IF mine \in keys THEN 0 ELSE mine
    /\ door' = IF door \in keys THEN 0 ELSE door
    /\ face' = IF face \in keys THEN 0 ELSE face
    /\ UNCHANGED <<closed, item, packGone>>

-----------------------------------------------------------------------------
(* Uploads *)

\* POST media: what has not run out is counted, and the bytes are stored ...
Upload(r, kind) ==
    /\ Cardinality({k \in Blobs : Shown(k)}) < Quota
    /\ puts < MaxBlobs /\ puts' = puts + 1
    /\ blobs' = blobs \cup {puts + 1}
    /\ Begin(r, [Idle EXCEPT !.op = "insert", !.key = puts + 1, !.kind = kind])
    /\ UNCHANGED <<object, backup, pictures, excused>>

\* ... before there is a row that names them.
UploadRow(r) ==
    /\ req[r].op = "insert"
    /\ object' = [object EXCEPT ![req[r].key] = [row |-> TRUE, kind |-> req[r].kind,
                                                 till |-> "window", kept |-> FALSE]]
    /\ Goes(r, Idle)
    /\ UNCHANGED <<backup, blobs, puts, pictures, excused>>

\* POST and DELETE retain
Retain(k, keep) ==
    /\ k \in Rows /\ object[k].kept # keep
    /\ object' = [object EXCEPT ![k].kept = keep]
    /\ AtOnce
    /\ UNCHANGED <<backup, blobs, puts, pictures, excused>>

\* DELETE media: the row, then the file.
DeleteMedia(r, k) ==
    /\ k \in Rows
    /\ Begin(r, Unlinking({k}))
    /\ DeleteRows({k})
    /\ UNCHANGED <<backup, blobs, puts, excused>>

\* storage.delete, of whatever its rows named
Unlink(r) ==
    /\ req[r].op = "unlink"
    /\ blobs' = blobs \ req[r].keys
    /\ Goes(r, Idle)
    /\ UNCHANGED <<object, backup, puts, pictures, excused>>

-----------------------------------------------------------------------------
(* Pictures of the account, the channel and the group *)

\* PUT me/avatar: an upload of one's own, of whatever kind ...
SetAvatar(r, k) ==
    /\ k \in Rows
    /\ Begin(r, [Idle EXCEPT !.op = "mine", !.key = k])
    /\ UNCHANGED <<object, backup, blobs, puts, pictures, excused>>

\* ... becomes the picture and is kept, if it is still there.
AvatarTx(r) ==
    LET k == req[r].key IN
    /\ req[r].op = "mine"
    /\ IF k \in Rows
       THEN /\ mine' = k
            /\ object' = [object EXCEPT ![k].till = "long"]
            /\ excused' = Crossed(r, k, "mine")
            /\ Goes(r, Letting(mine, k))
       ELSE Goes(r, Idle) /\ UNCHANGED <<mine, object, excused>>
    /\ UNCHANGED <<backup, blobs, puts, door, closed, face, item, packGone>>

\* Mutant of RemoveAvatar: RETURNING gives the value just set.
RemoveAvatarReturningNew(r) ==
    /\ mine # 0
    /\ mine' = 0
    /\ Begin(r, Letting(mine', 0))
    /\ UNCHANGED <<object, backup, blobs, puts, door, closed, face, item, packGone, excused>>

\* DELETE me/avatar
RemoveAvatar(r) ==
    /\ mine # 0
    /\ mine' = 0
    /\ Begin(r, Letting(mine, 0))
    /\ UNCHANGED <<object, backup, blobs, puts, door, closed, face, item, packGone, excused>>

\* The picture replaced or removed is nobody's now.
Release(r) ==
    /\ req[r].op = "release"
    /\ object' = [object EXCEPT ![req[r].old].till = "over"]
    /\ Goes(r, Idle)
    /\ UNCHANGED <<backup, blobs, puts, pictures, excused>>

\* PUT channels avatar
SetDoor(r, k) ==
    /\ k \in Rows /\ object[k].kind = "channel_avatar" /\ ~closed
    /\ Begin(r, [Idle EXCEPT !.op = "door", !.key = k])
    /\ UNCHANGED <<object, backup, blobs, puts, pictures, excused>>

DoorTx(r) ==
    LET k == req[r].key IN
    /\ req[r].op = "door"
    /\ IF k \in Rows /\ ~closed
       THEN /\ door' = k
            /\ object' = [object EXCEPT ![k].till = "long"]
            /\ excused' = Crossed(r, k, "door")
            /\ Goes(r, Letting(door, k))
       ELSE Goes(r, Idle) /\ UNCHANGED <<door, object, excused>>
    /\ UNCHANGED <<backup, blobs, puts, mine, closed, face, item, packGone>>

\* DELETE channels avatar
RemoveDoor(r) ==
    /\ door # 0 /\ ~closed
    /\ door' = 0
    /\ Begin(r, Letting(door, 0))
    /\ UNCHANGED <<object, backup, blobs, puts, mine, closed, face, item, packGone, excused>>

\* DELETE channels: the row stays, with the picture's name.
CloseChannel(r) ==
    /\ ~closed
    /\ closed' = TRUE
    /\ Begin(r, Letting(door, 0))
    /\ UNCHANGED <<object, backup, blobs, puts, mine, door, face, item, packGone, excused>>

\* PUT groups avatar: only the reference; how long it is kept stays as it was.
SetFace(k) ==
    /\ k \in Rows /\ object[k].kind = "group_avatar"
    /\ face' = k
    /\ AtOnce
    /\ UNCHANGED <<object, backup, blobs, puts, mine, door, closed, item, packGone, excused>>

\* DELETE groups avatar
RemoveFace ==
    /\ face # 0
    /\ face' = 0
    /\ AtOnce
    /\ UNCHANGED <<object, backup, blobs, puts, mine, door, closed, item, packGone, excused>>

-----------------------------------------------------------------------------
(* Stickers *)

\* POST items: an upload of the sticker kind, in a pack that is not full when its
\* rows are counted ...
AddItem(r, k) ==
    /\ ~packGone /\ k \in Rows /\ object[k].kind = "sticker"
    /\ Cardinality({i \in Items : item[i] # 0}) < ItemsPerPack
    /\ Begin(r, [Idle EXCEPT !.op = "item", !.key = k])
    /\ UNCHANGED <<object, backup, blobs, puts, pictures, excused>>

\* ... is pointed at, if it is still there, however many have come since ...
ItemRow(r, i) ==
    LET k == req[r].key IN
    /\ req[r].op = "item" /\ item[i] = 0
    /\ IF k \in Rows
       THEN /\ item' = [item EXCEPT ![i] = k]
            /\ excused' = Crossed(r, k, i)
            /\ Goes(r, [req[r] EXCEPT !.op = "adopt"])
       ELSE Goes(r, Idle) /\ UNCHANGED <<item, excused>>
    /\ UNCHANGED <<object, backup, blobs, puts, mine, door, closed, face, packGone>>

\* ... and kept from then on, whether or not the sticker still is one.
Adopt(r) ==
    LET k == req[r].key IN
    /\ req[r].op = "adopt"
    /\ object' = IF k \in Rows THEN [object EXCEPT ![k].till = "long"] ELSE object
    /\ excused' = IF k \in InItems THEN excused ELSE excused \cup {k}
    /\ Goes(r, Idle)
    /\ UNCHANGED <<backup, blobs, puts, pictures>>

\* DELETE items: the sticker and the life of its picture, in one transaction.
DropItem(r, i) ==
    /\ ~packGone
    /\ Begin(r, [Idle EXCEPT !.op = "drop", !.item = i])
    /\ UNCHANGED <<object, backup, blobs, puts, pictures, excused>>

\* Mutant of DropTx: the picture's life is left as it is.
DropTxKeeping(r) ==
    /\ req[r].op = "drop"
    /\ item' = [item EXCEPT ![req[r].item] = 0]
    /\ Goes(r, Idle)
    /\ UNCHANGED <<object, backup, blobs, puts, mine, door, closed, face, packGone, excused>>

DropTx(r) ==
    LET k == item[req[r].item] IN
    /\ req[r].op = "drop"
    /\ item' = [item EXCEPT ![req[r].item] = 0]
    /\ object' = IF k = 0 THEN object ELSE [object EXCEPT ![k].till = "over"]
    /\ Goes(r, Idle)
    /\ UNCHANGED <<backup, blobs, puts, mine, door, closed, face, packGone, excused>>

\* DELETE sticker-packs: its items stay, and keep what they point at.
DeletePack ==
    /\ ~packGone
    /\ packGone' = TRUE
    /\ AtOnce
    /\ UNCHANGED <<object, backup, blobs, puts, mine, door, closed, face, item, excused>>

-----------------------------------------------------------------------------
(* The backup *)

\* Mutant of PutBackup: the superseded blob goes before the new one is named.
PutBackupReplacing(r) ==
    /\ puts < MaxBlobs /\ puts' = puts + 1
    /\ blobs' = (blobs \ {backup}) \cup {puts + 1}
    /\ Begin(r, [Idle EXCEPT !.op = "backup", !.key = puts + 1, !.old = backup])
    /\ UNCHANGED <<object, backup, pictures, excused>>

\* PUT backup: what there was is read and the new blob stored ...
PutBackup(r) ==
    /\ puts < MaxBlobs /\ puts' = puts + 1
    /\ blobs' = blobs \cup {puts + 1}
    /\ Begin(r, [Idle EXCEPT !.op = "backup", !.key = puts + 1, !.old = backup])
    /\ UNCHANGED <<object, backup, pictures, excused>>

\* ... the row names the new one, and the one that was read goes.
BackupRow(r) ==
    /\ req[r].op = "backup"
    /\ backup' = req[r].key
    /\ Goes(r, Unlinking({req[r].old} \ {0}))
    /\ UNCHANGED <<object, blobs, puts, pictures, excused>>

\* DELETE backup
DeleteBackup(r) ==
    /\ backup # 0
    /\ backup' = 0
    /\ Begin(r, Unlinking({backup}))
    /\ UNCHANGED <<object, blobs, puts, pictures, excused>>

-----------------------------------------------------------------------------
(* What takes things away *)

\* An object's window runs out.
RunOut(k) ==
    /\ k \in Rows /\ object[k].till = "window"
    /\ object' = [object EXCEPT ![k].till = "over"]
    /\ UNCHANGED <<backup, blobs, puts, pictures, req, made, excused>>

Sweepable ==
    {k \in Rows : object[k].till = "over" /\ ~object[k].kept /\ k # mine /\ (k = door => closed)}

\* runRetentionSweep: one DELETE, which a single sticker among them refuses.
Sweep(r) ==
    /\ Sweepable # {}
    /\ Begin(r, Unlinking(Sweepable))
    /\ DeleteRows(Sweepable)
    /\ UNCHANGED <<backup, blobs, puts, excused>>

\* The duress code, or the deletion of the account.
Wipe(r) ==
    /\ Begin(r, [Idle EXCEPT !.op = "wipe"])
    /\ UNCHANGED <<object, backup, blobs, puts, pictures, excused>>

\* wipeAccount: one transaction, and the files after it.  A row the database
\* refuses to delete undoes it all.
WipeTx(r) ==
    /\ req[r].op = "wipe"
    /\ \/ /\ DeleteRows(Rows)
          /\ backup' = 0
          /\ Goes(r, Unlinking(Rows \cup ({backup} \ {0})))
       \/ /\ Rows \cap InItems # {}
          /\ Goes(r, Idle)
          /\ UNCHANGED <<object, backup, pictures>>
    /\ UNCHANGED <<blobs, puts, excused>>

\* The process ends with the second half undone.
Dies(r) ==
    /\ req[r].op \in {"insert", "backup", "release", "adopt", "unlink"}
    /\ excused' = IF req[r].op = "release" THEN excused \cup {req[r].old}
                  ELSE IF req[r].op = "adopt" THEN excused \cup {req[r].key}
                  ELSE excused
    /\ Goes(r, Idle)
    /\ UNCHANGED <<object, backup, blobs, puts, pictures>>

-----------------------------------------------------------------------------

Checked(r) ==
    \/ \E kind \in Kinds : Upload(r, kind)
    \/ RemoveAvatar(r) \/ RemoveDoor(r) \/ CloseChannel(r)
    \/ PutBackup(r) \/ DeleteBackup(r) \/ Sweep(r) \/ Wipe(r)
    \/ \E i \in Items : DropItem(r, i)
    \/ \E k \in Blobs :
         \/ DeleteMedia(r, k) \/ SetAvatar(r, k) \/ SetDoor(r, k) \/ AddItem(r, k)

Continues(r) ==
    \/ UploadRow(r) \/ AvatarTx(r) \/ DoorTx(r) \/ Release(r) \/ Adopt(r)
    \/ DropTx(r) \/ BackupRow(r) \/ WipeTx(r) \/ Unlink(r) \/ Dies(r)
    \/ \E i \in Items : ItemRow(r, i)

Next ==
    \/ \E r \in Requests : Checked(r) \/ Continues(r)
    \/ \E k \in Blobs : RunOut(k) \/ SetFace(k) \/ \E keep \in BOOLEAN : Retain(k, keep)
    \/ RemoveFace \/ DeletePack

Spec == Init /\ [][Next]_vars

-----------------------------------------------------------------------------
(* What is promised *)

\* No row names a file that is not there, wherever the process ends: files come
\* before their rows and go after them.
NothingDangles == Rows \cup ({backup} \ {0}) \subseteq blobs

\* A picture that is in use can be fetched and is not swept, and one kept for a
\* hundred years is in use: "nothing was ever going to ask for it again"
\* (channels.ts:1266).  Only two uses of one upload, a change that overlaps
\* another's second half, or a process that ends before its own, break it.
\* Pictures of groups have no such life.
PicturesLiveAsUsed ==
    \A k \in Blobs \ excused :
        /\ k \in {mine, door} \cup InItems /\ (k = door => ~closed) =>
              Shown(k) \/ \E r \in Running({"adopt"}) : req[r].key = k
        /\ k \in Rows /\ object[k].till = "long" =>
              Uses(k) # {} \/ \E r \in Running({"release"}) : req[r].old = k

\* "hard-deletes everything attached to it" (services/accounts.ts:110): when the
\* wipe's transaction is over nothing of the account's media is left.
WipeErasesMedia ==
    [][\A r \in Requests : req[r].op = "wipe" /\ req'[r].op # "wipe" =>
           \A k \in Blobs : ~object'[k].row]_vars

=============================================================================
