----------------------------- MODULE MCDelivery -----------------------------
(***************************************************************************)
(* Small instances of Delivery.  Alice writes from a1, Bob reads on b1.    *)
(***************************************************************************)
EXTENDS Delivery, TLC

CONSTANTS alice, bob, a1, b1, b2, group, m1, m2, m3, h1, h2

\* Retries: Alice sends Bob a keyed message she may resend, and a disappearing
\* one.
DirectOwner  == a1 :> alice @@ b1 :> bob
DirectAuthor == m1 :> a1 @@ m2 :> a1
DirectTarget == m1 :> bob @@ m2 :> bob

\* Mixed: a message to the group Bob may leave or block Alice in, an anonymous
\* one to Bob, and a typing notice; Bob has two devices and may remove one.
MixedOwner  == a1 :> alice @@ b1 :> bob @@ b2 :> bob
MixedAuthor == m1 :> a1 @@ m2 :> a1 @@ m3 :> a1
MixedTarget == m1 :> group @@ m2 :> bob @@ m3 :> bob
BobMayBlock == {<<bob, alice>>}

\* Handlers are alike: no property tells them apart.
AnyHandler == Permutations(Handlers)
=============================================================================
