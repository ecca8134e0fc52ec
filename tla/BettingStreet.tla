---------------------------- MODULE BettingStreet ----------------------------
(***************************************************************************)
(* One street of betting as a state machine: a BettingRound is opened,     *)
(* the seat whose turn it is acts, and any seat can be retired out of turn *)
(* by the table (GameHand::forfeit_player) until the round closes.         *)
(***************************************************************************)
EXTENDS BettingRound

CONSTANTS SmallBlind, BigBlind, Straddle,
          Positions,  \* seats the street may open at (a rotation of the table)
          Openings,   \* the kinds of street: "Preflop", "Postflop"
          MinStack, MaxStack  \* bounds: chips a seat brings to the street

ASSUME StakesAssumption ==
  /\ SmallBlind \in Nat /\ Straddle \in Nat
  /\ MinStack \in Nat /\ MaxStack \in Nat
  /\ BigBlind \in Nat \ {0}
  /\ Positions \subseteq Seats

VARIABLES
  bets,     \* the BettingRound
  buyIn,    \* history: each seat's chips before the street's forced posts
  acted,    \* history: seats that acted at least once this street
  betAt     \* history: the bet each of them left when it last acted

streetVars == <<bets, buyIn, acted, betAt>>

Actions == [type : ActionTypes \ {"Raise"}, to : {0}]
             \cup [type : {"Raise"}, to : 0 .. MaxStack + 1]

\* A seat whose stack is empty was put all-in by an earlier street or an ante.
StreetInit ==
  /\ buyIn \in [Seats -> MinStack .. MaxStack]
  /\ acted = {}
  /\ betAt = [p \in Seats |-> 0]
  /\ \E s \in Positions :
       \/ /\ "Postflop" \in Openings
          /\ bets = NewRound(Seats, buyIn, s, BigBlind)
       \/ /\ "Preflop" \in Openings
          /\ \E small \in {0, SmallBlind}, straddle \in {0, Straddle} :
               bets = PreflopRound(buyIn, s, small, BigBlind, straddle)

RoundAction(p, a) ==
  /\ Legal(bets, p, a)
  /\ bets' = AfterAction(bets, p, a)
  /\ acted' = acted \cup {p}
  /\ betAt' = [betAt EXCEPT ![p] = BetAfter(bets, p, a)]
  /\ UNCHANGED buyIn

RoundForfeit(p) ==
  /\ CanForfeit(bets, p)
  /\ bets' = AfterForfeit(bets, p)
  /\ UNCHANGED <<buyIn, acted, betAt>>

ActOnStreet == \E p \in Seats, a \in Actions : RoundAction(p, a)

ForfeitOnStreet == \E p \in Seats : RoundForfeit(p)

StreetNext == ActOnStreet \/ ForfeitOnStreet

StreetSpec == StreetInit /\ [][StreetNext]_streetVars

-----------------------------------------------------------------------------
(* Properties.                                                             *)

StreetTypes ==
  /\ bets \in Round
  /\ buyIn \in [Seats -> Nat]
  /\ acted \in SUBSET Seats
  /\ betAt \in [Seats -> Nat]

\* The street's books balance whatever mix of posts, calls, short all-ins and
\* forfeits led here: no seat gains or loses a chip beyond what it put in, the
\* round's pot total is what the seats put in, and a seat is flagged all-in
\* exactly when its stack is empty (apply_action keeps these four in step).
BooksBalance == Books(bets, buyIn)

\* check_done never closes the street on a seat that still has a decision: a
\* closed round has one seat left in the pot, or nobody able to act, or one
\* seat able to act that already covers every opponent, or only seats that
\* have acted since the last full raise and matched the bet.
ClosesOnlyWhenSettled == bets.done => Settled(bets)

\* The counter actions_remaining never makes the table prompt a seat that has
\* nothing to decide: an open round's actor is live and has either not acted
\* since the last full raise or not matched the bet.
NoRedundantPrompt ==
  ~bets.done =>
    /\ bets.current \in Live(bets)
    /\ OwesResponse(bets, bets.current)

\* The inductive invariant of the street (see RoundInv in BettingRound).
StreetInv ==
  /\ StreetTypes
  /\ RoundInv(bets)
  /\ Books(bets, buyIn)
  /\ ReopenInv(bets, acted)
  /\ \A p \in acted : betAt[p] = bets.actedAtBet[p]

\* TDA rules 6 and 43: a seat that already acted raises the bet again only when
\* the bet grew by at least a full raise since its last action, be it by one
\* full raise or by several short all-ins.
ReraiseOnlyWhenReopened ==
  [][\A p \in acted :
       bets'.contributed[p] > bets.currentBet =>
         \/ bets.contributed[p] > bets.currentBet
         \/ bets.currentBet >= betAt[p] + bets.lastRaise]_streetVars
=============================================================================
