----------------------------- MODULE MCRealtime -----------------------------
(***************************************************************************)
(* Small instances of Realtime: one device with one socket at a time.      *)
(***************************************************************************)
EXTENDS Realtime, TLC

CONSTANTS s1, home

OneSession == s1 :> home
=============================================================================
