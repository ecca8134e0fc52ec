---------------------------- MODULE ActionFacts ----------------------------
(***************************************************************************)
(* The action history read back: GameHand::street_action_facts             *)
(* (engine/src/game/actions.rs).  Bots, the coach and the show order ask   *)
(* the log, not the betting round, who raised.  The projection replays the *)
(* street's records from an opening wager of its own and says of each      *)
(* action whether it increased the bet and whether it was a full raise.    *)
(*                                                                         *)
(* The replay is a fold over the log, so its accumulator is kept as state  *)
(* here and advanced by one record an action.                              *)
(***************************************************************************)
EXTENDS BettingStreet

VARIABLES
  seen,   \* the replay's current_bet, last_full_raise and commitments
  fact,   \* what the projection says of the latest action
  truth,  \* history: what that action did to the betting round
  aggressor, raiser, \* last_aggressor by the projection, and in the round
  sameOpening  \* history: the round opened at the remembered bring-in

factVars == <<streetVars, seen, fact, truth, aggressor, raiser, sameOpening>>

Nobody == N
Passive == [increased |-> FALSE, full |-> FALSE]

\* Preflop the replay opens at the remembered bring-in, later streets at zero;
\* blind records only add to the commitments.
OpenReplay(bet, increment, posted) ==
  [bet |-> bet, raise |-> increment, committed |-> posted]

FactsInit ==
  /\ buyIn \in [Seats -> MinStack .. MaxStack]
  /\ acted = {} /\ betAt = [p \in Seats |-> 0]
  /\ fact = Passive /\ truth = Passive
  /\ aggressor = Nobody /\ raiser = Nobody
  /\ \E s \in Positions :
       \/ /\ "Postflop" \in Openings
          /\ bets = NewRound(Seats, buyIn, s, BigBlind)
          /\ seen = OpenReplay(0, BigBlind, [p \in Seats |-> 0])
          /\ sameOpening = TRUE
       \/ /\ "Preflop" \in Openings
          /\ \E small \in {0, SmallBlind}, straddle \in {0, Straddle} :
               LET bringIn == Greatest(BringIn(buyIn, s, BigBlind, straddle), BigBlind)
               IN  /\ bets = PreflopRound(buyIn, s, small, BigBlind, straddle)
                   /\ seen = OpenReplay(bringIn, bringIn, bets.contributed)
                   /\ sameOpening = /\ BringIn(buyIn, s, BigBlind, straddle) = bringIn
                                    /\ \A p \in Seats : bets.contributed[p] <= bringIn

\* Mutant: an all-in above the bet is logged as a call.
FactOfAllInCalls(p, a, amount) ==
  LET total == seen.committed[p] + amount
      increased == a.type = "Raise" /\ total > seen.bet
  IN  [increased |-> increased,
       full |-> increased /\ Monus(total, seen.bet) >= seen.raise]

\* One record of the log: the fact, and the accumulator behind it.
FactOf(p, a, amount) ==
  LET total == seen.committed[p] + amount
      increased == a.type \in {"Raise", "AllIn"} /\ total > seen.bet
  IN  [increased |-> increased,
       full |-> increased /\ Monus(total, seen.bet) >= seen.raise]

Replay(p, a, amount) ==
  LET f == FactOf(p, a, amount)
      total == seen.committed[p] + amount
  IN  /\ fact' = f
      /\ seen' = [ bet |-> IF f.increased THEN total ELSE seen.bet,
                   raise |-> IF f.full THEN total - seen.bet ELSE seen.raise,
                   committed |-> [seen.committed EXCEPT ![p] = total] ]
      /\ aggressor' = IF f.increased THEN p ELSE aggressor

\* What the wager really did to the round.
Observe(p, a) ==
  /\ truth' = [increased |-> BetAfter(bets, p, a) > bets.currentBet,
               full |-> IsFullRaise(bets, p, a)]
  /\ raiser' = IF truth'.increased THEN p ELSE raiser

LoggedAction(p, a) ==
  /\ RoundAction(p, a)
  /\ Replay(p, a, Commit(bets, p, a))
  /\ Observe(p, a)
  /\ UNCHANGED sameOpening

\* A forfeit is logged as a fold of no chips.
LoggedForfeit(p) ==
  /\ RoundForfeit(p)
  /\ Replay(p, [type |-> "Fold", to |-> 0], 0)
  /\ truth' = Passive /\ UNCHANGED <<raiser, sameOpening>>

FactsNext ==
  \/ \E p \in Seats, a \in Actions : LoggedAction(p, a)
  \/ \E p \in Seats : LoggedForfeit(p)

FactsSpec == FactsInit /\ [][FactsNext]_factVars

-----------------------------------------------------------------------------

\* Opened at the same bet, the projection tells calls, short all-in raises and
\* full raises apart exactly as the betting round did.
SameOpeningSameFacts == sameOpening => fact = truth /\ aggressor = raiser

\* Once a wager really raised the bet, the projection names the seat that made
\* the last such wager, and takes no call for a raise.
RaiserIsNamed ==
  raiser # Nobody => aggressor = raiser /\ fact.increased = truth.increased

\* street_action_facts and last_aggressor_player_id (the showdown order starts
\* with it) against the betting round, on every street: from the first true
\* raise on, the right seat is named and calls are told from raises; unless a
\* straddle was posted short above the big blind, or configured below it, every
\* action is classified as the round did, from the street's first.
FactsMatchRound == SameOpeningSameFacts /\ RaiserIsNamed

\* Why: the replay's commitments are the round's, and while two seats can act
\* so are its bet and its increment.  check_done may lower the round's bet for
\* a lone seat, which the replay cannot see, but such a seat cannot raise.
ReplayInv ==
  sameOpening =>
    /\ seen.committed = bets.contributed /\ seen.bet \in Nat /\ seen.raise \in Nat
    /\ bets.currentBet <= seen.bet /\ bets.lastRaise > 0
    /\ \A p, q \in Live(bets) : p # q =>
         seen.bet = bets.currentBet /\ seen.raise = bets.lastRaise
    /\ fact = truth /\ aggressor = raiser

\* And on every street: until a true raise the replay's bet may be too low, and
\* the first true raise sets it right.
RaiserInv ==
  /\ seen.committed = bets.contributed /\ seen.bet \in Nat /\ bets.lastRaise > 0
  /\ raiser # Nobody => bets.currentBet <= seen.bet
  /\ \A p, q \in Live(bets) : p # q =>
       IF raiser = Nobody THEN seen.bet <= bets.currentBet
                          ELSE seen.bet = bets.currentBet
  /\ RaiserIsNamed
=============================================================================
