-------------------------------- MODULE Pots --------------------------------
(***************************************************************************)
(* The settlement of a hand: engine/src/game/pots.rs.                      *)
(*                                                                         *)
(* Pots are rebuilt from what every seat put in during the whole hand.     *)
(* c[p] is that contribution without a big-blind ante, in is the set of    *)
(* seats that have not folded.  A pot is a record; a Vec<SidePot> is a set *)
(* of them, because the layers of one hand never agree on both eligible    *)
(* and refundTo once hand_side_pots has merged them.                       *)
(*                                                                         *)
(* Cards are abstracted to rank, a number per seat: the evaluator's order  *)
(* of the shown hands on the board in question, equal on a tie.            *)
(***************************************************************************)
EXTENDS BettingRound

Pot == [eligible : SUBSET Seats, refundTo : SUBSET Seats, amount : Nat]

-----------------------------------------------------------------------------
(* hand_side_pots.                                                         *)

\* The distinct non-zero contributions are the caps of the layers.
Levels(c) == {c[p] : p \in Seats} \ {0}

\* Mutant: every layer starts from zero.
BelowNothing(c, level) == 0

Below(c, level) == Max({l \in Levels(c) : l < level} \cup {0})

Contributors(c, previous) == {p \in Seats : c[p] > previous}

\* One layer.  If nobody still in reached it, it goes back to those who paid
\* it; if its only payer is still in, it is that seat's uncalled overage.
Layer(c, in, level) ==
  LET previous == Below(c, level)
      eligible == {p \in in : c[p] >= level}
      payers == Contributors(c, previous)
  IN  [ eligible |-> eligible,
        refundTo |-> IF \/ eligible = {}
                        \/ Cardinality(eligible) = 1 /\ payers = eligible
                       THEN payers ELSE {},
        amount |-> SumOver([p \in Seats |->
                              Least(Monus(c[p], previous), level - previous)],
                           Seats) ]

\* A posted big-blind ante is dead money every remaining seat competes for.
AntePot(in, ante) == [eligible |-> in, refundTo |-> {}, amount |-> ante]

\* The layers of a hand, by their caps; 0 stands for the ante.
Layers(c, in, ante) ==
  {<<l, Layer(c, in, l)>> : l \in Levels(c)} \cup
  (IF ante > 0 THEN {<<0, AntePot(in, ante)>>} ELSE {})

\* Layers that agree on eligible and refundTo are one pot.
Merged(layers, pot) ==
  {x \in layers : x[2].eligible = pot.eligible /\ x[2].refundTo = pot.refundTo}

SidePots(c, in, ante) ==
  LET layers == Layers(c, in, ante)
      amounts == [x \in layers |-> x[2].amount]
  IN  IF in = {}
        THEN {}
        ELSE {[x[2] EXCEPT !.amount = SumFunctionOnSet(amounts, Merged(layers, x[2]))] :
                x \in layers}

PotTotal(pots) == SumFunctionOnSet([pot \in pots |-> pot.amount], pots)

-----------------------------------------------------------------------------
(* Awarding one pot.                                                       *)

\* button_relative_order: 0 is the first seat left of the button.
ButtonOrder(dealer, p) == Clockwise(Left(dealer), p)

\* Mutant: the odd chips go to the right of the button.
OddChipFromRight(amount, ids, dealer, p) ==
  IF Cardinality({q \in ids : ButtonOrder(dealer, q) > ButtonOrder(dealer, p)})
       < amount % Cardinality(ids)
    THEN 1 ELSE 0

\* odd_chip_recipients: the chips that do not divide go one each to the
\* recipients nearest to the left of the button.
OddChip(amount, ids, dealer, p) ==
  IF Cardinality({q \in ids : ButtonOrder(dealer, q) < ButtonOrder(dealer, p)})
       < amount % Cardinality(ids)
    THEN 1 ELSE 0

Share(amount, ids, dealer, p) ==
  IF p \in ids /\ amount > 0
    THEN amount \div Cardinality(ids) + OddChip(amount, ids, dealer, p)
    ELSE 0

\* Hand strengths without gaps; a seat that is not ranked counts as weakest.
Ranks(S) ==
  {r \in [Seats -> 1 .. N] :
     /\ \A p \in Seats \ S : r[p] = 1
     /\ \A p \in S : r[p] > 1 => \E q \in S : r[q] = r[p] - 1}

Best(S, rank) == {p \in S : \A q \in S : rank[q] <= rank[p]}

\* Mutants: the stakes of seats that did not show go back to them; the best
\* shown hand wins pots it is not eligible for.
WinnersWithRefund(pot, shown, rank, forfeiters) ==
  LET contenders == pot.eligible \cap shown
  IN  CASE pot.refundTo # {} -> pot.refundTo
        [] pot.refundTo = {} /\ contenders # {} -> Best(contenders, rank)
        [] OTHER -> pot.eligible
WinnersOfEveryPot(pot, shown, rank, forfeiters) ==
  IF pot.refundTo # {} THEN pot.refundTo ELSE Best(shown, rank)

\* distribute_pots: shown are the seats with cards on the table, forfeiters
\* those still in that did not show.
Winners(pot, shown, rank, forfeiters) ==
  LET contenders == pot.eligible \cap shown
  IN  CASE pot.refundTo # {} -> pot.refundTo
        [] pot.refundTo = {} /\ contenders # {} -> Best(contenders, rank)
        [] OTHER ->
             IF pot.eligible \cap forfeiters # {} /\ shown # {}
               THEN Best(shown, rank) ELSE pot.eligible

\* distribute_pots_uncontested: lone is the set of the last seat in, if any.
UncontestedWinners(pot, lone) ==
  IF pot.refundTo # {} THEN pot.refundTo
  ELSE IF pot.eligible \cap lone # {} THEN lone ELSE pot.eligible

\* distribute_pots_among_survivors: no board, so no ranking; survivors chop.
SurvivorWinners(pot, survivors) ==
  LET entitled == IF pot.eligible = {} THEN survivors
                                       ELSE pot.eligible \cap survivors
  IN  IF pot.refundTo # {} THEN pot.refundTo
      ELSE IF entitled # {} THEN entitled
      ELSE IF survivors # {} THEN survivors ELSE pot.eligible

-----------------------------------------------------------------------------
(* Awarding the hand: what every seat receives from the given pots, when   *)
(* winners names the recipients of every pot.                              *)

Awards(pots, winners, dealer) ==
  [p \in Seats |->
     SumFunctionOnSet([pot \in pots |-> Share(pot.amount, winners[pot], dealer, p)], pots)]

\* split_pots_for_two_runs: the second run plays for half of every contested
\* pot, the odd chip and the refunds stay with the first.
SecondRun(pot) ==
  [pot EXCEPT !.amount = IF pot.refundTo = {} THEN @ \div 2 ELSE 0]

\* Mutant: both runs play for the half rounded down.
FirstRunRoundedDown(pot) == [pot EXCEPT !.amount = IF pot.refundTo = {} THEN @ \div 2 ELSE @]

FirstRun(pot) ==
  [pot EXCEPT !.amount = @ - SecondRun(pot).amount]

ShowdownAwards(pots, shown, rank, forfeiters, dealer) ==
  Awards(pots, [pot \in pots |-> Winners(pot, shown, rank, forfeiters)], dealer)

\* Each half is awarded on its own board and the two are added up.
TwoRunAwards(pots, shown, rank, rank2, forfeiters, dealer) ==
  LET first == ShowdownAwards({FirstRun(pot) : pot \in pots},
                              shown, rank, forfeiters, dealer)
      second == ShowdownAwards({SecondRun(pot) : pot \in pots},
                               shown, rank2, forfeiters, dealer)
  IN  [p \in Seats |-> first[p] + second[p]]

UncontestedAwards(pots, lone, dealer) ==
  Awards(pots, [pot \in pots |-> UncontestedWinners(pot, lone)], dealer)

SurvivorAwards(pots, survivors, dealer) ==
  Awards(pots, [pot \in pots |-> SurvivorWinners(pot, survivors)], dealer)

-----------------------------------------------------------------------------
(* What any settlement owes the seats.                                     *)

\* What p put in beyond every seat of S other than itself: nobody there called
\* it.
Uncalled(c, S, p) == Monus(c[p], Max({c[q] : q \in S \ {p}} \cup {0}))

\* The most p can collect at table stakes: from every seat at most what p put
\* in itself, and the dead ante.
TableStakes(c, ante, p) ==
  ante + SumOver([q \in Seats |-> Least(c[p], c[q])], Seats)
=============================================================================
