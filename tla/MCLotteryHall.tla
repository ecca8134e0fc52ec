---------------------------- MODULE MCLotteryHall ----------------------------
(* Two users with one request each, or one user with two. *)
EXTENDS LotteryHall, TLC
CONSTANTS alice, bob
OneOrTwoUsers == {(1 :> alice) @@ (2 :> u) : u \in {alice, bob}}
=============================================================================
