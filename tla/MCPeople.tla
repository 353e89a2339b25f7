------------------------------ MODULE MCPeople ------------------------------
(***************************************************************************)
(* What there is of a person in the runs: a founder and two who may join a *)
(* group of two, two owners and two numbers, two operators, two stickers.  *)
(***************************************************************************)
EXTENDS People, TLC

CONSTANTS k1, k2, r1, r2, founder, amy, abe, fan, ben, n1, n2, i1, i2

TwoOrOne == k1 :> 2 @@ k2 :> 1

Symmetric == UNION {Permutations({r1, r2}), Permutations({amy, abe}), Permutations({fan, ben}),
                    Permutations({n1, n2}), Permutations({i1, i2})}
=============================================================================
