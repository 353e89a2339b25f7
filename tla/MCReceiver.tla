----------------------------- MODULE MCReceiver -----------------------------
(***************************************************************************)
(* A small instance of Receiver: the poll and two pushed frames.           *)
(***************************************************************************)
EXTENDS Receiver

CONSTANTS poll, p1, p2
=============================================================================
