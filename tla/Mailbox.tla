------------------------------- MODULE Mailbox -------------------------------
(***************************************************************************)
(* What the delivery queue promises a recipient device, with no server,    *)
(* table or request in sight.  Envelopes are numbered, and a device is     *)
(* handed them oldest first; one that was put in its mailbox stays there   *)
(* until the device has been handed it, its time has run out or the device *)
(* itself is gone -- and once it has left it never comes back.             *)
(*                                                                         *)
(* One kind of envelope has no such promise: it arrives overtaken, behind  *)
(* a later one its device was handed already, and may leave unseen with    *)
(* that one.  Delivery.tla is shown to implement this specification.       *)
(***************************************************************************)
EXTENDS Naturals

CONSTANTS
    Devices,    \* the recipient devices
    Envelopes   \* everything that may ever be put in a mailbox; its number is
                \* e.id and the device it is for e.device

VARIABLES
    waiting,    \* envelopes in a mailbox
    handed,     \* envelopes their device has been handed at least once
    overdue,    \* envelopes whose time has run out
    closed,     \* devices that were removed from their account
    overtaken,  \* envelopes put in behind one their device had been handed
    gone        \* envelopes that left a mailbox

vars == <<waiting, handed, overdue, closed, overtaken, gone>>

older(e, f) == e.device = f.device /\ e.id < f.id

Init ==
    /\ waiting = {} /\ handed = {} /\ overdue = {} /\ overtaken = {} /\ gone = {}
    /\ closed \in SUBSET Devices

\* One send arrives: its envelopes all at once, none of them seen before.
Put ==
    /\ waiting \subseteq waiting'
    /\ (waiting' \ waiting) \subseteq Envelopes \ gone
    /\ overtaken' = overtaken \cup
                      {e \in waiting' \ waiting : \E f \in handed : older(e, f)}
    /\ UNCHANGED <<handed, overdue, closed, gone>>

\* A device is handed a batch, the oldest of what waits for it in time; handing
\* takes nothing out of the mailbox.
Hand ==
    /\ handed \subseteq handed'
    /\ handed' \ handed \subseteq waiting
    /\ \A e \in handed' \ handed, f \in waiting \ overdue : older(f, e) => f \in handed'
    /\ UNCHANGED <<waiting, overdue, closed, overtaken, gone>>

\* The clock runs whether or not the envelope has arrived yet.
RunOut ==
    /\ overdue \subseteq overdue'
    /\ UNCHANGED <<waiting, handed, closed, overtaken, gone>>

\* Devices are linked and removed.
Relink ==
    /\ closed' \subseteq Devices
    /\ UNCHANGED <<waiting, handed, overdue, overtaken, gone>>

\* Whatever leaves was handed over, is overdue by then, has lost its device or
\* came overtaken.
Leave ==
    /\ waiting' \subseteq waiting
    /\ overdue \subseteq overdue'
    /\ \A e \in waiting \ waiting' :
          e \in handed \/ e \in overdue' \/ e.device \in closed \/ e \in overtaken
    /\ gone' = gone \cup (waiting \ waiting')
    /\ UNCHANGED <<handed, closed, overtaken>>

Next == Put \/ Hand \/ RunOut \/ Relink \/ Leave

Spec == Init /\ [][Next]_vars
=============================================================================
