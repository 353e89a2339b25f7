----------------------------- MODULE MCChannels -----------------------------
(***************************************************************************)
(* Channels with an owner and two others who may be administrators in the  *)
(* one view, and an owner, an administrator and a reader in the other.     *)
(***************************************************************************)
EXTENDS Channels, TLC

CONSTANTS founder, deputy, guest, r1, r2, yes, no

OwnerMayAdd == {<<founder, guest>>, <<founder, deputy>>}

Symmetric == Permutations({deputy, guest}) \cup Permutations({r1, r2}) \cup Permutations({yes, no})
=============================================================================
