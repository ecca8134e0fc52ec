----------------------------- MODULE Settlement -----------------------------
(***************************************************************************)
(* Every settlement path of pots.rs over every small hand: one step from a *)
(* finished hand (who put in what, who is still in, who showed) to what    *)
(* the seats receive.                                                      *)
(***************************************************************************)
EXTENDS Pots

CONSTANTS MaxBet,     \* largest contribution of a seat
          MaxAnte,    \* largest big-blind ante
          Dealers     \* seats the button may be on

ASSUME SettlementAssumption ==
  MaxBet \in Nat /\ MaxAnte \in Nat /\ Dealers \subseteq Seats

VARIABLES
  paid, stillIn,        \* each seat's contribution; the seats still in
  deadAnte, button,
  path,                 \* the settlement that ran, "Open" before
  showed,               \* seats whose cards were ranked
  forfeited,            \* seats that lost their claim by not showing
  strength, strength2,  \* the evaluator's order on the first and second board
  payout                \* the awards

settleVars == <<paid, stillIn, deadAnte, button, path, showed, forfeited, strength,
                strength2, payout>>
handOver == <<paid, stillIn, deadAnte, button>>

NoAwards == [p \in Seats |-> 0]

SettleInit ==
  /\ paid \in [Seats -> 0 .. MaxBet]
  /\ stillIn \in (SUBSET Seats) \ {{}}
  /\ deadAnte \in 0 .. MaxAnte
  /\ button \in Dealers
  /\ path = "Open"
  /\ showed = {} /\ forfeited = {}
  /\ strength = [p \in Seats |-> 1] /\ strength2 = [p \in Seats |-> 1]
  /\ payout = NoAwards

Pots0 == SidePots(paid, stillIn, deadAnte)

\* finish, and finish_blind or finish_blind_with_forfeits with two or more
\* seats in: S showed, the others in the hand forfeit.
Showdown(S) ==
  /\ path = "Open" /\ path' = "Showdown"
  /\ showed' = S /\ forfeited' = stillIn \ S
  /\ strength' \in Ranks(S)
  /\ payout' = ShowdownAwards(Pots0, S, strength', stillIn \ S, button)
  /\ UNCHANGED <<handOver, strength2>>

\* The same with the runout dealt twice.
RunTwice(S) ==
  /\ path = "Open" /\ path' = "RunTwice"
  /\ showed' = S /\ forfeited' = stillIn \ S
  /\ strength' \in Ranks(S) /\ strength2' \in Ranks(S)
  /\ payout' = TwoRunAwards(Pots0, S, strength', strength2', stillIn \ S, button)
  /\ UNCHANGED handOver

\* finish_blind with one seat left.
Uncontested ==
  /\ path = "Open" /\ path' = "Uncontested"
  /\ Cardinality(stillIn) = 1
  /\ payout' = UncontestedAwards(Pots0, stillIn, button)
  /\ UNCHANGED <<handOver, showed, forfeited, strength, strength2>>

\* finish_blind_forfeit_board: the withholders are folded after the pots are
\* built and the survivors chop.
ForfeitBoard(W) ==
  /\ path = "Open" /\ path' = "ForfeitBoard"
  /\ stillIn \ W # {}
  /\ forfeited' = W
  /\ payout' = SurvivorAwards(Pots0, stillIn \ W, button)
  /\ UNCHANGED <<handOver, showed, strength, strength2>>

SettleNext ==
  \/ \E S \in (SUBSET stillIn) \ {{}} : Showdown(S) \/ RunTwice(S)
  \/ Uncontested
  \/ \E W \in SUBSET stillIn : ForfeitBoard(W)

SettleSpec == SettleInit /\ [][SettleNext]_settleVars

-----------------------------------------------------------------------------

Settled0 == path # "Open"

\* Side pots are exactly the chips: cut every contribution into single chips by
\* height, and a pot holds the chips of the heights that the same seats reached
\* and the same seats may win (hand_side_pots, level and merge loops).
PotsAreLayersOfChips ==
  LET payers(h) == {p \in Seats : paid[p] >= h}
      heights(pot) ==
        {h \in 1 .. MaxBet :
           /\ payers(h) # {} /\ payers(h) \cap stillIn = pot.eligible
           /\ (pot.refundTo # {}) =
                (payers(h) \cap stillIn = {} \/ Cardinality(payers(h)) = 1)
           /\ pot.refundTo # {} => payers(h) = pot.refundTo}
      chips(pot) == Cardinality({x \in heights(pot) \X Seats : x[2] \in payers(x[1])})
      dead(pot) == IF pot.eligible = stillIn /\ pot.refundTo = {} THEN deadAnte ELSE 0
  IN  \A pot \in Pots0 : pot.amount = chips(pot) + dead(pot)

\* Giving up never pays: a seat that folded gets back what nobody still in
\* called, and one that did not show, or withheld its board share, what nobody
\* called; every chip that was matched is lost.
QuittersGetOnlyUncalled ==
  Settled0 =>
    /\ \A p \in Seats \ stillIn : payout[p] = Uncalled(paid, stillIn, p)
    /\ \A p \in forfeited : payout[p] = Uncalled(paid, Seats, p)

\* Unless others forfeit their claims, nobody collects more from a seat than
\* it put in itself; and the uncalled part of its bet is always its own.
CollectsAtTableStakes ==
  Settled0 /\ forfeited = {} =>
    \A p \in stillIn : /\ payout[p] <= TableStakes(paid, deadAnte, p)
                       /\ payout[p] >= Uncalled(paid, Seats, p)

\* Seats that tie on every board and put in the same amount are paid alike; the
\* seat nearer to the left of the button may get one odd chip a pot and run
\* more (TDA Rule 25), never fewer.
TiesSplitEvenly ==
  path \in {"Showdown", "RunTwice"} =>
    \A p, q \in showed :
      /\ paid[p] = paid[q] /\ strength[p] = strength[q] /\ strength2[p] = strength2[q]
      /\ ButtonOrder(button, p) < ButtonOrder(button, q)
      => /\ payout[q] <= payout[p]
         /\ payout[p] <= payout[q] + (IF path = "RunTwice" THEN 2 ELSE 1)
                                       * Cardinality(Pots0)
=============================================================================
