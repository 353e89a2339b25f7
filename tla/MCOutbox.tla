------------------------------ MODULE MCOutbox ------------------------------
(***************************************************************************)
(* Small instances of Outbox.                                              *)
(***************************************************************************)
EXTENDS Outbox, TLC

CONSTANTS t1, t2, p1, p2, c1, run, none
=============================================================================
