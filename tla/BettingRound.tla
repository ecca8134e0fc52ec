---------------------------- MODULE BettingRound ----------------------------
(***************************************************************************)
(* One street of no-limit betting as a value: engine/src/round.rs.         *)
(*                                                                         *)
(* The engine keeps a BettingRound inside a GameHand, clones it to preview *)
(* an action and throws it away when the street closes.  It is therefore   *)
(* modelled as a record, and each method as an operator from the round     *)
(* before the call to the round after it.  BettingStreet runs one street   *)
(* as a state machine; GameHand strings the streets of a hand together.    *)
(*                                                                         *)
(* The code's players vector holds the dealt-in seats in seat order, so a  *)
(* player is named by its seat, "the next player in the vector" is the     *)
(* next such seat clockwise, and the per-player booleans are sets of seats.*)
(* Chips are natural numbers: GameHand::start rejects a table whose stacks *)
(* do not fit in 32 bits together, so no sum below can wrap.               *)
(***************************************************************************)
EXTENDS Naturals, FiniteSets, FiniteSetsExt

CONSTANT N  \* seats dealt into the hand

ASSUME SeatCount == N \in Nat /\ N >= 2

Seats == 0 .. N - 1

\* u32::saturating_sub and Ord::min / Ord::max
Monus(a, b) == IF a > b THEN a - b ELSE 0
Least(a, b) == IF a < b THEN a ELSE b
Greatest(a, b) == IF a > b THEN a ELSE b

\* Chips of f over the seats of S, added up seat by seat.
SumOver(f, S) ==
  LET sum[n \in 0 .. N] ==
        IF n = 0 THEN 0
        ELSE sum[n - 1] + (IF n - 1 \in S THEN f[n - 1] ELSE 0)
  IN  sum[N]

Round ==
  [ players : SUBSET Seats,            \* dealt into this street
    stack : [Seats -> Nat],
    contributed : [Seats -> Nat],      \* chips put in this street
    folded : SUBSET Seats,
    allIn : SUBSET Seats,
    hasActed : SUBSET Seats,           \* since the last full raise
    actedAtBet : [Seats -> Nat],       \* bet level when the seat last acted
    current : Seats,
    currentBet : Nat,
    lastRaise : Nat,                   \* minimum raise increment
    potTotal : Nat,
    done : BOOLEAN,
    actionsRemaining : Nat,
    nCanAct : Nat ]

ActionTypes == {"Fold", "Check", "Call", "Raise", "AllIn"}

\* Raise carries the street total it raises to; the others carry nothing.
Action == [type : ActionTypes, to : Nat]

NotFolded(r) == r.players \ r.folded
Live(r) == r.players \ (r.folded \cup r.allIn)
ToCall(r, p) == Monus(r.currentBet, r.contributed[p])
MinRaiseTo(r) == r.currentBet + r.lastRaise

-----------------------------------------------------------------------------
(* Whose turn it is.                                                       *)

\* The next seat and the seat before, and the steps clockwise from a to b.
Left(a) == IF a = N - 1 THEN 0 ELSE a + 1
Right(a) == IF a = 0 THEN N - 1 ELSE a - 1
Clockwise(a, b) == IF b >= a THEN b - a ELSE b + N - a

\* The first seat of S met when walking clockwise from seat a, a included.
FirstFrom(a, S) ==
  CHOOSE s \in S : \A t \in S : Clockwise(a, s) <= Clockwise(a, t)

\* seek_active: the first actor of a new round is the first live seat from
\* the nominal one; with no live seat the round is over before it starts.
SeekActive(r) ==
  IF Live(r) = {} THEN [r EXCEPT !.done = TRUE]
                  ELSE [r EXCEPT !.current = FirstFrom(r.current, Live(r))]

\* advance: the turn passes to the next live seat; the actor itself is tried
\* last.
Advance(r) ==
  IF Live(r) = {}
    THEN [r EXCEPT !.done = TRUE]
    ELSE [r EXCEPT !.current = FirstFrom(Left(r.current), Live(r))]

-----------------------------------------------------------------------------
(* When the round closes.                                                  *)

\* The largest amount an opponent of p still in the pot has put in.
MaxOpponent(r, p) ==
  Max({r.contributed[q] : q \in NotFolded(r) \ {p}} \cup {0})

AllMatched(r) == \A p \in Live(r) : r.contributed[p] = r.currentBet

Lone(r) == CHOOSE p \in Live(r) : TRUE

\* Exactly one seat can still act.
OneCanAct(r) == r.nCanAct = 1 /\ Live(r) # {}

\* That seat already covers everybody else: there is nothing to decide.
LoneCovers(r) ==
  OneCanAct(r) /\ r.contributed[Lone(r)] >= MaxOpponent(r, Lone(r))

\* A lone seat calls what its opponents really put in, not the nominal blind
\* that new_preflop floors the opening bet to.
EffectiveBet(r) ==
  IF OneCanAct(r) THEN Least(r.currentBet, MaxOpponent(r, Lone(r)))
                  ELSE r.currentBet

\* Mutant: the big blind's option is forgotten.
CheckDoneWhenMatched(r) ==
  IF r.nCanAct = 0 \/ LoneCovers(r) \/ Cardinality(NotFolded(r)) <= 1 \/ AllMatched(r)
    THEN [r EXCEPT !.done = TRUE] ELSE [r EXCEPT !.currentBet = EffectiveBet(r)]

CheckDone(r) ==
  IF r.nCanAct = 0 \/ LoneCovers(r)
    THEN [r EXCEPT !.done = TRUE]
    ELSE LET e == [r EXCEPT !.currentBet = EffectiveBet(r)]
         IN  IF \/ Cardinality(NotFolded(e)) <= 1
                \/ AllMatched(e) /\ e.actionsRemaining = 0
               THEN [e EXCEPT !.done = TRUE]
               ELSE e

-----------------------------------------------------------------------------
(* Opening a round.                                                        *)

\* The round before seek_active and check_done: players with the given stacks
\* and posts, everybody without chips all-in.
Opening(players, stack, posted, first, bet, increment, pot) ==
  LET broke == {p \in players : stack[p] = 0}
  IN  [ players |-> players,
        stack |-> stack,
        contributed |-> posted,
        folded |-> {},
        allIn |-> broke,
        hasActed |-> {},
        actedAtBet |-> [s \in Seats |-> 0],
        current |-> first,
        currentBet |-> bet,
        lastRaise |-> increment,
        potTotal |-> pot,
        done |-> FALSE,
        actionsRemaining |-> Cardinality(players \ broke),
        nCanAct |-> Cardinality(players \ broke) ]

\* BettingRound::new: a street after the flop, nothing bet yet.
NewRound(players, stack, first, bigBlind) ==
  CheckDone(SeekActive(
    Opening(players, stack, [s \in Seats |-> 0], first, 0, bigBlind, 0)))

\* BettingRound::new_preflop: forced posts are taken from the stacks, a short
\* stack posts what it has, and the opening bet is the largest post but never
\* below the nominal bring-in.
NewPreflop(stack, first, blinds, bringIn) ==
  LET posted == [s \in Seats |-> Least(blinds[s], stack[s])]
  IN  CheckDone(SeekActive(
        Opening(Seats, [s \in Seats |-> stack[s] - posted[s]], posted, first,
                Max({posted[s] : s \in Seats} \cup {bringIn}), bringIn,
                SumOver(posted, Seats))))

\* The posts GameHand::start asks for when seat b is the big blind.  small = 0
\* is a dead small blind; straddle = 0, or a heads-up table, is no straddle.
Straddles(straddle) == straddle > 0 /\ N >= 3

ForcedPosts(b, small, big, straddle) ==
  [s \in Seats |->
     CASE s = b -> big
       [] s = Right(b) -> small
       [] s = Left(b) /\ Straddles(straddle) -> straddle
       [] OTHER -> 0]

\* Only a straddle posted in full raises the bring-in above the big blind.
BringIn(stack, b, big, straddle) ==
  IF Straddles(straddle) /\ stack[Left(b)] >= straddle THEN straddle ELSE big

\* The preflop round of GameHand::start: a straddle moves the first actor one
\* seat on.
PreflopRound(stack, b, small, big, straddle) ==
  NewPreflop(stack,
             IF Straddles(straddle) THEN Left(Left(b)) ELSE Left(b),
             ForcedPosts(b, small, big, straddle),
             BringIn(stack, b, big, straddle))

-----------------------------------------------------------------------------
(* What the actor may do.                                                  *)

\* Mutant: any raise, however short, reopens the betting.
ReopenedByAnyRaise(r, p) == r.currentBet > r.actedAtBet[p]

\* Short all-ins since p last acted add up to a full raise (TDA Rule 43).
ActionReopenedFor(r, p) ==
  r.lastRaise > 0 /\ Monus(r.currentBet, r.actedAtBet[p]) >= r.lastRaise

PlayerCanRaise(r, p) ==
  /\ p \in Live(r)
  /\ r.contributed[p] + r.stack[p] > r.currentBet
  /\ Live(r) \ {p} # {}
  /\ p \notin r.hasActed \/ ActionReopenedFor(r, p)

\* Chips the action moves from the actor's stack to the pot.
Commit(r, p, a) ==
  CASE a.type = "Call"  -> Least(ToCall(r, p), r.stack[p])
    [] a.type = "Raise" -> Monus(a.to, r.contributed[p])
    [] a.type = "AllIn" -> r.stack[p]
    [] OTHER            -> 0

Total(r, p, a) == r.contributed[p] + Commit(r, p, a)

IsAggressiveAttempt(r, p, a) ==
  \/ a.type = "Raise" /\ a.to > r.currentBet
  \/ a.type = "AllIn" /\ r.contributed[p] + r.stack[p] > r.currentBet

\* A raise token that only calls, all-in, stays legal when action was not
\* reopened (TDA Rule 6).
IsAllInCall(r, p, a) ==
  \/ a.type = "Raise" /\ Commit(r, p, a) = r.stack[p] /\ a.to <= r.currentBet
  \/ a.type = "AllIn" /\ r.contributed[p] + r.stack[p] <= r.currentBet

\* apply_action returns Ok: every early return of the code is a conjunct.
Legal(r, p, a) ==
  /\ ~r.done
  /\ p \in r.players
  /\ p = r.current
  /\ p \notin r.folded
  /\ p \notin r.allIn
  /\ IsAggressiveAttempt(r, p, a) => PlayerCanRaise(r, p)
  /\ (/\ p \in r.hasActed
      /\ ~ActionReopenedFor(r, p)
      /\ a.type \in {"Raise", "AllIn"}) => IsAllInCall(r, p, a)
  /\ a.type = "Check" => ToCall(r, p) = 0
  /\ a.type = "Raise" =>
       /\ Commit(r, p, a) <= r.stack[p]
       /\ a.to < MinRaiseTo(r) =>
            Commit(r, p, a) = r.stack[p] /\ r.stack[p] > 0

-----------------------------------------------------------------------------
(* What an action does.                                                    *)

\* Only a full raise reopens the betting; a sub-minimum all-in does not.
IsFullRaise(r, p, a) ==
  \/ a.type = "Raise" /\ a.to >= MinRaiseTo(r)
  \/ /\ a.type = "AllIn"
     /\ Total(r, p, a) > r.currentBet
     /\ Total(r, p, a) - r.currentBet >= r.lastRaise

\* The bet never drops: a short all-in leaves it where it was.
BetAfter(r, p, a) ==
  IF a.type \in {"Raise", "AllIn"}
    THEN Greatest(r.currentBet, Total(r, p, a))
    ELSE r.currentBet

\* Mutant: a call or raise for the whole stack does not mark the seat all-in.
GoesAllInByToken(r, p, a) == a.type = "AllIn"

GoesAllIn(r, p, a) ==
  \/ a.type = "AllIn"
  \/ a.type \in {"Call", "Raise"} /\ r.stack[p] = Commit(r, p, a)

\* Seats still able to respond to p.
Responders(r, p) == Live(r) \ {p}

CanActAfter(r, p, a) ==
  IF a.type = "Fold" \/ GoesAllIn(r, p, a) THEN Monus(r.nCanAct, 1)
                                           ELSE r.nCanAct

\* Mutants: the raiser is asked to answer its own raise; nothing is counted down.
RaiserStillOwes(r, p, a) ==
  IF IsFullRaise(r, p, a) THEN CanActAfter(r, p, a) ELSE Monus(r.actionsRemaining, 1)
NoResponseCounted(r, p, a) ==
  IF IsFullRaise(r, p, a) THEN Monus(CanActAfter(r, p, a), 1) ELSE r.actionsRemaining

\* Everybody else owes a response to a full raise; any other action is one
\* response less.
ActionsRemainingAfter(r, p, a) ==
  IF IsFullRaise(r, p, a)
    THEN IF GoesAllIn(r, p, a) THEN CanActAfter(r, p, a)
                               ELSE Monus(CanActAfter(r, p, a), 1)
    ELSE Monus(r.actionsRemaining, 1)

\* The body of apply_action up to advance and check_done.
Wager(r, p, a) ==
  [r EXCEPT
     !.stack[p] = @ - Commit(r, p, a),
     !.contributed[p] = @ + Commit(r, p, a),
     !.folded = IF a.type = "Fold" THEN @ \cup {p} ELSE @,
     !.allIn = IF GoesAllIn(r, p, a) THEN @ \cup {p} ELSE @,
     !.hasActed = (IF IsFullRaise(r, p, a) THEN @ \ Responders(r, p) ELSE @)
                    \cup {p},
     !.actedAtBet[p] = BetAfter(r, p, a),
     !.currentBet = BetAfter(r, p, a),
     !.lastRaise = IF IsFullRaise(r, p, a)
                     THEN BetAfter(r, p, a) - r.currentBet ELSE @,
     !.potTotal = @ + Commit(r, p, a),
     !.actionsRemaining = ActionsRemainingAfter(r, p, a),
     !.nCanAct = CanActAfter(r, p, a)]

AfterAction(r, p, a) == CheckDone(Advance(Wager(r, p, a)))

-----------------------------------------------------------------------------
(* Retiring a seat out of turn (BettingRound::forfeit_player).             *)

CanForfeit(r, p) ==
  /\ p \in r.players
  /\ p \notin r.folded
  /\ Cardinality(NotFolded(r)) > 1

\* The seat still owed a response.
OwesResponse(r, p) ==
  p \notin r.hasActed \/ r.contributed[p] < r.currentBet

Retire(r, p) ==
  [r EXCEPT
     !.folded = @ \cup {p},
     !.hasActed = @ \cup {p},
     !.nCanAct = IF p \in r.allIn THEN @ ELSE Monus(@, 1),
     !.actionsRemaining =
        IF p \notin r.allIn /\ OwesResponse(r, p) THEN Monus(@, 1) ELSE @]

AfterForfeit(r, p) ==
  LET q == Retire(r, p)
  IN  CheckDone(IF p = r.current THEN Advance(q) ELSE q)

-----------------------------------------------------------------------------
(* What every round the engine builds satisfies.                           *)

\* Seats with a decision to make: they have not acted since the last full
\* raise, or the bet has grown past what they put in.
Owing(r) == {p \in Live(r) : OwesResponse(r, p)}
Unacted(r) == Live(r) \ r.hasActed

\* Nobody has a decision left: one seat is left in the pot, or nobody can act,
\* or the only seat that can act covers every opponent, or everybody who can
\* act has acted since the last full raise and matched the bet.
Settled(r) ==
  \/ Cardinality(NotFolded(r)) <= 1
  \/ Live(r) = {}
  \/ \E p \in Live(r) :
       /\ Live(r) = {p}
       /\ \A q \in NotFolded(r) : r.contributed[q] <= r.contributed[p]
  \/ \A p \in Live(r) : p \in r.hasActed /\ r.contributed[p] = r.currentBet

\* The counters of the code stand for sets: nCanAct counts the live seats, and
\* actionsRemaining is a lower bound on the live seats that have not acted,
\* exact while one of them has the bet matched (the big blind's option).
CountersInv(r) ==
  /\ r.nCanAct = Cardinality(Live(r))
  /\ \A p \in NotFolded(r) : r.contributed[p] <= r.currentBet
  /\ r.actionsRemaining <= Cardinality(Unacted(r))
  /\ r.actionsRemaining < Cardinality(Unacted(r)) =>
       \A p \in Unacted(r) : r.contributed[p] < r.currentBet
  /\ \A p \in Live(r) \ Unacted(r), q \in Unacted(r) :
       r.contributed[p] < r.currentBet => r.contributed[q] < r.currentBet

\* Clockwise from seat c, all owing seats come before all settled ones.
OwingFirst(r, c) ==
  \A p \in Owing(r), q \in Live(r) \ Owing(r) :
    Clockwise(c, p) < Clockwise(c, q)

RoundInv(r) ==
  /\ CountersInv(r)
  /\ ~r.done => r.current \in Owing(r) /\ OwingFirst(r, r.current)
  /\ r.done => Settled(r)

\* The chips of a street: every seat's chips are in its stack or in the pot.
Books(r, buyIn) ==
  /\ \A p \in Seats : r.stack[p] + r.contributed[p] = buyIn[p]
  /\ r.potTotal = SumOver(r.contributed, Seats)
  /\ r.allIn = {p \in r.players : r.stack[p] = 0}

\* While two seats can act, one that acted and is asked afresh faces a full
\* raise since its last action.
ReopenInv(r, acted) ==
  \A p, q \in Live(r) : p # q =>
    /\ r.actedAtBet[p] <= r.currentBet
    /\ p \in acted \ r.hasActed =>
         r.currentBet >= r.actedAtBet[p] + r.lastRaise
=============================================================================
