------------------------------ MODULE GameHand ------------------------------
(***************************************************************************)
(* A complete hand: engine/src/game.  GameHand posts the forced bets, runs *)
(* a BettingRound per street, deals or waits for the board, and settles.   *)
(*                                                                         *)
(* In plaintext mode the engine owns the deck.  In blind mode it never     *)
(* sees a card before it is public: each street pauses until the board is  *)
(* injected, and a showdown ranks only injected reveals.                   *)
(*                                                                         *)
(* Card values are abstracted: the board is the set of streets dealt, a    *)
(* hole is a slot state, and the evaluator's order of the shown hands is a *)
(* rank chosen when the hand is settled.  cumulative_side_pots is only     *)
(* ever read as a total and is completedPot here.                          *)
(***************************************************************************)
EXTENDS Pots

CONSTANTS
  Tables          \* the tables a hand may be dealt at

Streets == {"Preflop", "Flop", "Turn", "River"}
BoardStreets == Streets \ {"Preflop"}
NoStreet == "None"

\* A table: its seats' stacks and the knobs of GameHand::new*.  0 is "off" for
\* the amounts.  waits: the caller lets nobody act or leave on a pending board.
Table ==
  [ mode : {"Plaintext", "Blind"}, dealer : Seats, stack : [Seats -> Nat],
    small : Nat, big : Nat, straddle : Nat, bomb : Nat, ante : Nat,
    bigBlindAnte : Nat, deadSmall : BOOLEAN, waits : BOOLEAN ]

ASSUME TablesAssumption ==
  /\ Tables \subseteq Table
  /\ \A t \in Tables : t.big > 0

VARIABLES
  table,          \* the configuration; never changes
  phase, street,  \* Phase; street is also finished_street once Done
  round,          \* betting_round, or NoRound
  stack, folded, allIn,   \* the seats' own copies of the betting state
  completedPot,
  anteBy,         \* posted_big_blind_ante: the amount each seat paid
  board, pending, \* streets dealt; the street awaiting its board
  hole,           \* HoleSlot of every seat
  choice, twiceFrom, secondBoard,  \* the all-in runout
  result          \* what the caller got from the last finish call

\* betting_round = None: a round with nobody in it.
Zero == [p \in Seats |-> 0]
NoRound == Opening({}, Zero, Zero, 0, 0, 0, 0)

betting == <<phase, street, round, stack, folded, allIn, completedPot>>
runout == <<choice, twiceFrom, secondBoard>>
vars == <<table, betting, anteBy, board, pending, hole, runout, result>>

NoResult == [kind |-> "None", awards |-> Zero]

Blind == table.mode = "Blind"
In == Seats \ folded

Init ==
  /\ table \in Tables
  /\ phase = "NotStarted" /\ street = "Preflop" /\ round = NoRound
  /\ stack = table.stack /\ folded = {} /\ allIn = {}
  /\ completedPot = 0 /\ anteBy = Zero
  /\ board = {} /\ pending = NoStreet
  /\ hole = [p \in Seats |-> IF Blind THEN "Opaque" ELSE "Empty"]
  /\ choice = "Open" /\ twiceFrom = NoStreet /\ secondBoard = FALSE
  /\ result = NoResult

-----------------------------------------------------------------------------
(* close_street_and_advance.                                               *)

NextStreet(s) ==
  CASE s = "Preflop" -> "Flop" [] s = "Flop" -> "Turn"
    [] s = "Turn" -> "River" [] OTHER -> NoStreet

StreetsFrom(s) ==
  CASE s = "Flop" -> {"Flop", "Turn", "River"} [] s = "Turn" -> {"Turn", "River"}
    [] s = "River" -> {"River"} [] OTHER -> {}

\* first_active_after the button; with nobody able to act, the seat itself, or
\* the first player of the round if that seat has folded.
FirstActor(in, able) ==
  LET start == Left(table.dealer)
  IN  IF able # {} THEN FirstFrom(start, able)
      ELSE IF start \in in THEN start ELSE FirstFrom(0, in)

\* The betting round of the next street: folded seats are not in it.
StreetRound(seatStack, in, able) ==
  NewRound(in, seatStack, FirstActor(in, able), table.big)

\* With the seats' state already primed, the chips of the round that closed are
\* absorbed and the hand moves on from street s: over if one seat is left or
\* the river is played; in plaintext the board is dealt, and a table that is
\* all-in runs out at once, for every later round has the same seats and
\* stacks and is done too; in blind mode the hand pauses with the board pending.
CloseStreet(chips, s, dealt, waiting) ==
  LET in == Seats \ folded'
      next == NextStreet(s)
      r == StreetRound(stack', in, in \ allIn')
      over == Cardinality(in) <= 1 \/ next = NoStreet
      runsOut == ~Blind /\ r.done
  IN  /\ completedPot' = completedPot + chips
      /\ phase' = IF over \/ runsOut THEN "Done" ELSE "Betting"
      /\ street' = CASE over -> s [] ~over /\ runsOut -> "River" [] OTHER -> next
      /\ round' = IF over \/ runsOut THEN NoRound ELSE r
      /\ board' = CASE over \/ Blind -> dealt
                   [] ~over /\ runsOut -> dealt \cup StreetsFrom(next)
                   [] OTHER -> dealt \cup {next}
      /\ pending' = IF Blind /\ ~over THEN next ELSE waiting

\* The round continues, or it is done and the street closes behind it.
Continue(r) ==
  IF r.done
    THEN CloseStreet(SumOver(r.contributed, r.players), street, board, pending)
    ELSE /\ round' = r
         /\ UNCHANGED <<phase, street, completedPot, board, pending>>

-----------------------------------------------------------------------------
(* start.                                                                  *)

\* forced_blind_positions: the big blind; the small blind sits to its right
\* and is dead at a table that says so, three-handed or more.
BigBlindSeat ==
  IF N = 2 \/ table.deadSmall THEN Left(table.dealer)
                              ELSE Left(Left(table.dealer))
SmallBlindAmount == IF table.deadSmall /\ N >= 3 THEN 0 ELSE table.small

\* Everybody antes what it has, up to the ante or the bomb-pot stake.
AntePosts ==
  LET ante == IF table.bomb > 0 THEN table.bomb ELSE table.ante
  IN  [p \in Seats |-> Least(ante, table.stack[p])]

\* The big-blind ante comes out of what its live blind leaves.
BigBlindAntePosts ==
  [p \in Seats |->
     IF p = BigBlindSeat
       THEN Least(Monus(table.stack[p], table.big), table.bigBlindAnte) ELSE 0]

DealHoles ==
  hole' = IF Blind THEN hole ELSE [p \in Seats |-> "Plain"]

MayStart ==
  /\ phase = "NotStarted"
  /\ table.bigBlindAnte > 0 => table.ante = 0 /\ table.bomb = 0

\* A bomb pot skips the blinds and the preflop betting.
StartBombPot ==
  /\ MayStart
  /\ table.bomb > 0
  /\ stack' = [p \in Seats |-> stack[p] - AntePosts[p]]
  /\ allIn' = {p \in Seats : stack'[p] = 0}
  /\ UNCHANGED <<table, folded, anteBy, runout, result>>
  /\ DealHoles
  /\ CloseStreet(SumOver(AntePosts, Seats), "Preflop", board, pending)

\* Antes, then the big-blind ante, then blinds and straddle through the
\* preflop round, whose stacks are copied back to the seats.
StartBlinds ==
  LET dead == [p \in Seats |-> AntePosts[p] + BigBlindAntePosts[p]]
      r == PreflopRound([p \in Seats |-> stack[p] - dead[p]], BigBlindSeat,
                        SmallBlindAmount, table.big, table.straddle)
  IN  /\ MayStart
      /\ table.bomb = 0
      /\ anteBy' = BigBlindAntePosts
      /\ stack' = r.stack /\ folded' = r.folded /\ allIn' = r.allIn
      /\ DealHoles
      /\ IF r.done
           THEN CloseStreet(SumOver(dead, Seats) + SumOver(r.contributed, r.players),
                            "Preflop", board, pending)
           ELSE /\ phase' = "Betting" /\ round' = r
                /\ completedPot' = SumOver(dead, Seats)
                /\ UNCHANGED <<street, board, pending>>
      /\ UNCHANGED <<table, runout, result>>

-----------------------------------------------------------------------------
(* apply_action and forfeit_player.                                        *)

\* Mutant: the caller lets seats act on a pending board.
BoardIgnored == TRUE

\* The caller's side of a pending board: the engine itself does not ask.
BoardSettled == table.waits => pending = NoStreet

\* Mutant: the seat's all-in flag is not copied back.
SyncSeatKeepingAllIn(r, p, moved) ==
  /\ stack' = [stack EXCEPT ![p] = Monus(@, moved)]
  /\ folded' = IF p \in r.folded THEN folded \cup {p} ELSE folded \ {p}
  /\ allIn' = allIn
  /\ Continue(r)
  /\ UNCHANGED <<table, anteBy, hole, runout, result>>

\* The tail of apply_action_inner: only the acting seat's copy is refreshed.
SyncSeat(r, p, moved) ==
  /\ stack' = [stack EXCEPT ![p] = Monus(@, moved)]
  /\ folded' = IF p \in r.folded THEN folded \cup {p} ELSE folded \ {p}
  /\ allIn' = IF p \in r.allIn THEN allIn \cup {p} ELSE allIn \ {p}
  /\ Continue(r)
  /\ UNCHANGED <<table, anteBy, hole, runout, result>>

ApplyAction(p, a) ==
  /\ phase = "Betting" /\ round # NoRound
  /\ BoardSettled
  /\ Legal(round, p, a)
  /\ SyncSeat(AfterAction(round, p, a), p, Commit(round, p, a))

ForfeitPlayer(p) ==
  /\ phase = "Betting" /\ round # NoRound
  /\ BoardSettled
  /\ CanForfeit(round, p)
  /\ SyncSeat(AfterForfeit(round, p), p, 0)

-----------------------------------------------------------------------------
(* The blind-mode injections.                                              *)

\* Mutant: the injection fills the board and forgets the all-in runout.
InjectBoardOnly ==
  /\ Blind /\ pending \in BoardStreets
  /\ board' = board \cup {pending} /\ pending' = NoStreet
  /\ UNCHANGED <<table, betting, anteBy, hole, runout, result>>

\* inject_board_for_street: the pending board is filled; a table that is all-in
\* moves straight on to the next street.
InjectBoard ==
  /\ Blind /\ pending \in BoardStreets
  /\ UNCHANGED <<table, stack, folded, allIn, anteBy, hole, runout, result>>
  /\ IF round.done
       THEN CloseStreet(SumOver(round.contributed, round.players), street,
                        board \cup {pending}, NoStreet)
       ELSE /\ board' = board \cup {pending} /\ pending' = NoStreet
            /\ UNCHANGED <<phase, street, round, completedPot>>

\* runout_choice_street: betting is over for the hand, two seats contend and a
\* board is still to come.
RunoutOpen ==
  /\ Blind /\ choice = "Open" /\ pending \in BoardStreets
  /\ round.done
  /\ Cardinality(In) >= 2

ChooseRunout(twice) ==
  /\ RunoutOpen
  /\ choice' = IF twice THEN "Twice" ELSE "Once"
  /\ twiceFrom' = IF twice THEN pending ELSE twiceFrom
  /\ UNCHANGED <<table, betting, anteBy, board, pending, hole, secondBoard, result>>

InjectSecondRun ==
  /\ twiceFrom # NoStreet /\ phase = "Done" /\ board = BoardStreets /\ ~secondBoard
  /\ secondBoard' = TRUE
  /\ UNCHANGED <<table, betting, anteBy, board, pending, hole, choice, twiceFrom, result>>

\* restore_run_twice: a review rebuilds a settled run-twice hand.
RestoreRunTwice(from) ==
  /\ phase = "Done" /\ board = BoardStreets /\ twiceFrom = NoStreet
  /\ Cardinality(In) >= 2
  /\ choice' = "Twice" /\ twiceFrom' = from /\ secondBoard' = TRUE
  /\ UNCHANGED <<table, betting, anteBy, board, pending, hole, result>>

InjectShowdownReveal(p) ==
  /\ Blind /\ phase = "Done"
  /\ p \notin folded /\ hole[p] # "Revealed"
  /\ hole' = [hole EXCEPT ![p] = "Revealed"]
  /\ UNCHANGED <<table, betting, anteBy, board, pending, runout, result>>

-----------------------------------------------------------------------------
(* Settlement.                                                             *)

\* What every seat put in, and the part of it the pots are layered by.
PutIn(seatStack) == [p \in Seats |-> Monus(table.stack[p], seatStack[p])]

Contribution == [p \in Seats |-> Monus(PutIn(stack)[p], anteBy[p])]
AntePosted == SumOver(anteBy, Seats)
HandPots(in) == SidePots(Contribution, in, AntePosted)

\* finalize_pots_with_show_order: its release-build assertions, which end the
\* room's process when they fail.
Balanced(pots, awards, absorbed) ==
  LET put == SumOver(PutIn(stack), Seats)
  IN  absorbed = put /\ PotTotal(pots) = put /\ SumOver(awards, Seats) = put

Settle(kind, pots, awards, absorbed) ==
  result' = [kind |-> IF Balanced(pots, awards, absorbed) THEN kind ELSE "Panic",
             awards |-> awards]

\* The caller asks for a settlement once, and voids the hand on NoSurvivor.
Unsettled == result.kind = "None"

\* assemble_result_with_forfeits: one run or two.
SettleShowdown(S, forfeiters) ==
  \E rank \in Ranks(S), rank2 \in Ranks(IF secondBoard THEN S ELSE {}) :
    LET pots == HandPots(In)
        awards == IF twiceFrom # NoStreet /\ secondBoard
                    THEN TwoRunAwards(pots, S, rank, rank2, forfeiters, table.dealer)
                    ELSE ShowdownAwards(pots, S, rank, forfeiters, table.dealer)
    IN  Settle("Showdown", pots, awards, completedPot)

SettleUncontested ==
  LET pots == HandPots(In)
  IN  Settle("Uncontested", pots, UncontestedAwards(pots, In, table.dealer),
             completedPot)

Finish ==
  /\ Unsettled /\ phase = "Done" /\ ~Blind
  /\ SettleShowdown({p \in In : hole[p] = "Plain"}, {})
  /\ UNCHANGED <<table, betting, anteBy, board, pending, hole, runout>>

FinishBlind ==
  /\ Unsettled /\ phase = "Done" /\ Blind
  /\ IF Cardinality(In) <= 1
       THEN SettleUncontested
       ELSE (\A p \in In : hole[p] = "Revealed") /\ SettleShowdown(In, {})
  /\ UNCHANGED <<table, betting, anteBy, board, pending, hole, runout>>

FinishBlindWithForfeits ==
  LET S == {p \in In : hole[p] = "Revealed"}
  IN  /\ Unsettled /\ phase = "Done" /\ Blind
      /\ IF Cardinality(In) <= 1
           THEN SettleUncontested
           ELSE S # {} /\ SettleShowdown(S, In \ S)
      /\ UNCHANGED <<table, betting, anteBy, board, pending, hole, runout>>

\* finish_blind_forfeit_board: ends the hand wherever it is.  The pots are built
\* before the withholders fold; without a survivor the caller must void.
FinishBlindForfeitBoard(W) ==
  LET pots == HandPots(In)
      absorbed == completedPot + SumOver(round.contributed, round.players)
  IN  /\ Unsettled /\ Blind
      /\ completedPot' = absorbed
      /\ folded' = folded \cup W
      /\ allIn' = allIn \ W
      /\ phase' = "Done" /\ round' = NoRound /\ pending' = NoStreet
      /\ IF In \ W = {}
           THEN result' = [kind |-> "NoSurvivor", awards |-> Zero]
           ELSE Settle("ForfeitBoard", pots,
                       SurvivorAwards(pots, In \ W, table.dealer), absorbed)
      /\ UNCHANGED <<table, street, stack, anteBy, board, hole, runout>>

-----------------------------------------------------------------------------

Act == \E p \in Seats, type \in ActionTypes, to \in 0 .. SumOver(table.stack, Seats) :
         /\ type # "Raise" => to = 0
         /\ ApplyAction(p, [type |-> type, to |-> to])

Start == StartBombPot \/ StartBlinds

Forfeit == \E p \in Seats : ForfeitPlayer(p)
Runout == \E twice \in BOOLEAN : ChooseRunout(twice)
Reveal == \E p \in Seats : InjectShowdownReveal(p)
Restore == \E from \in BoardStreets : RestoreRunTwice(from)
WithholdBoard == \E W \in SUBSET In : FinishBlindForfeitBoard(W)

Next ==
  \/ Start \/ Act \/ Forfeit
  \/ InjectBoard \/ Runout \/ InjectSecondRun \/ Restore \/ Reveal
  \/ Finish \/ FinishBlind \/ FinishBlindWithForfeits \/ WithholdBoard

Spec == Init /\ [][Next]_vars

-----------------------------------------------------------------------------
(* Properties.                                                             *)

TypeOK ==
  /\ table \in Tables
  /\ phase \in {"NotStarted", "Betting", "Done"} /\ street \in Streets
  /\ round \in Round
  /\ stack \in [Seats -> Nat] /\ anteBy \in [Seats -> Nat]
  /\ folded \in SUBSET Seats /\ allIn \in SUBSET Seats
  /\ completedPot \in Nat
  /\ board \in SUBSET BoardStreets /\ pending \in BoardStreets \cup {NoStreet}
  /\ hole \in [Seats -> {"Empty", "Plain", "Opaque", "Revealed"}]
  /\ choice \in {"Open", "Once", "Twice"}
  /\ twiceFrom \in BoardStreets \cup {NoStreet} /\ secondBoard \in BOOLEAN

\* The seats keep their own copy of stack, folded and all-in, refreshed only for
\* the seat that acted (apply_action_inner, sync_stacks_from_round): it never
\* drifts from the betting round it was copied from.
SeatsMatchRound ==
  round # NoRound =>
    \A p \in Seats :
      IF p \in round.players
        THEN /\ stack[p] = round.stack[p]
             /\ p \in folded <=> p \in round.folded
             /\ p \in allIn <=> p \in round.allIn
        ELSE p \in folded

\* Every chip a seat no longer has is in the pot, across antes, blinds and
\* streets: completed_pot plus the open round is what the seats put in.
PotBooks ==
  completedPot + round.potTotal = SumOver(PutIn(stack), Seats)

\* The books of a hand in play: its seats' copies and its pot.
HandBooks == SeatsMatchRound /\ PotBooks

\* No hand gets stuck: while it is in play somebody is to act, or a board is
\* awaited whose injection moves it on.
NoStuckHand ==
  phase = "Betting" =>
    round # NoRound /\ (round.done => pending \in BoardStreets)

\* The always-on assertions of finalize_pots_with_show_order never fire.
NeverPanics == result.kind # "Panic"

\* BoardCards: "revealed progressively: flop -> turn -> river", and a contested
\* hand is ranked on all of it.  In blind mode this takes a caller that delivers
\* a pending board before it lets anybody act (sealed_dealer advance).
BoardIsProgressive ==
  table.waits =>
    /\ \A s \in board : \A t \in BoardStreets : s \in StreetsFrom(t) => t \in board
    /\ result.kind = "Showdown" /\ Cardinality(In) >= 2 => board = BoardStreets

\* What is left of a hand in play, most significant first: streets, chips and
\* contenders, responses, the awaited board, the runout choice.
Remaining ==
  << Cardinality(StreetsFrom(NextStreet(street))),
     SumOver(stack, Seats) + Cardinality(In),
     round.actionsRemaining,
     IF pending = NoStreet THEN 0 ELSE 1,
     IF choice = "Open" THEN 1 ELSE 0 >>

Less(a, b) ==
  \E i \in DOMAIN a : a[i] < b[i] /\ \A j \in 1 .. i - 1 : a[j] = b[j]

\* A hand only moves forward: every step of a hand in play uses up some of what
\* is left of it, so with NoStuckHand every hand ends, whatever the order of
\* checks, raises, short all-ins, forfeits and injections; and once the all-in
\* runout choice is recorded no chip moves any more.
HandMovesOn ==
  [][/\ phase = "Betting" /\ phase' = "Betting" => Less(Remaining', Remaining)
     /\ choice # "Open" => stack' = stack]_vars
=============================================================================
