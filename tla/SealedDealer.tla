--------------------------- MODULE SealedDealer ----------------------------
(***************************************************************************)
(* The sealed dealer (server-integration/sealed_dealer.rs): a worker       *)
(* process holds the deck of a hand; the game server commits, deals,       *)
(* reveals and settles it over HTTP; every player fetches the own hole     *)
(* cards from the worker with a ticket.                                    *)
(*                                                                         *)
(* One hand id is modelled.  A reply may be lost, a request may arrive     *)
(* after its client gave up, the worker may restart and forget everything, *)
(* and players leave and take seats during the hand.                       *)
(*                                                                         *)
(* A card is modelled by the deck it comes from.  A deal is named by a     *)
(* number of its own: its nonce, and so its commitment and tickets, are    *)
(* random.  Every attempt of a request carries the same configuration.     *)
(***************************************************************************)
EXTENDS Naturals, FiniteSets

CONSTANTS
  Users, Seats,
  BotSeatings,  \* the sets of seats bots may play
  TwiceFrom,    \* the streets from which the board may be run twice
  MaxFaults,    \* bound on lost replies, late requests, restarts, expiries
  Attempts,     \* DEALER_REQUEST_ATTEMPTS
  None

(* SealedHand: a hand as the worker holds it. *)
SealedHand ==
  [id : Nat, deck : {"locked", "shuffled"} \X Nat, commit : Nat \cup {None},
   stage : 0..5, showdown : (SUBSET Seats) \cup {None}, second : (1..3) \cup {None},
   delivered : SUBSET Seats]

(* None is no seat, no number and no hand. *)
ASSUME SealedAssumption ==
  /\ IsFiniteSet(Users) /\ IsFiniteSet(Seats) /\ BotSeatings \subseteq SUBSET Seats
  /\ MaxFaults \in Nat /\ Attempts \in Nat \ {0}
  /\ None \notin Seats \cup Nat \cup SealedHand /\ TwiceFrom \subseteq 1..3

VARIABLES
  committed,  \* the game server runs the seed exchange for this hand
  bots,       \* the seats bots play
  worker,     \* WorkerState: the pending commit and the hand
  locking,    \* masters whose locked deck a commit_hand handler is building
  drawn,      \* masters and deals drawn so far
  late,       \* requests whose client gave up and that may still arrive
  game,       \* the game server's ActiveHand and its position
  sits,       \* the live seat map: user -> seat, or None
  ticket,     \* user -> the deal and seat of the ticket it was sent, or None
  saw,        \* hole cards users received: user, seat, deck
  unmarked,   \* deliveries sent, not yet entered in delivered_seats
  faults

vars == <<committed, bots, worker, locking, drawn, late, game, sits, ticket, saw,
          unmarked, faults>>

(* DealerStage; a street's number is the stage its board cards belong to. *)
Flop == 1
Turn == 2
River == 3
Showdown == 4
Settled == 5

NoGame ==
  [pc |-> "commit", tries |-> 0, waits |-> None, announced |-> None,
   deal |-> None, dealt |-> [u \in Users |-> None],
   street |-> 0, twice |-> None, folded |-> {}, used |-> {}, checked |-> {},
   result |-> "none", deck |-> None, refunded |-> None]

(* A player sits at every seat that no bot plays. *)
Seatings ==
  {f \in [Users -> (Seats \ bots) \cup {None}] :
     \A s \in Seats \ bots : Cardinality({u \in Users : f[u] = s}) = 1}

Init ==
  /\ committed \in BOOLEAN /\ bots \in BotSeatings
  /\ worker = [pending |-> None, hand |-> None]
  /\ locking = {} /\ drawn = 0 /\ late = {}
  /\ sits \in Seatings
  /\ game = [NoGame EXCEPT !.pc = IF committed THEN "commit" ELSE "deal"]
  /\ ticket = [u \in Users |-> None]
  /\ saw = {} /\ unmarked = {} /\ faults = 0

Fault == faults < MaxFaults /\ faults' = faults + 1

----------------------------------------------------------------------------
(* The worker's handlers: the state a request leaves, and its answer.  An  *)
(* answer is a record with `ok'; a refusal changes nothing it need not.    *)

Refusal == [ok |-> FALSE]

(* with_deck: a fresh nonce, fresh tickets. *)
NewHand(id, deck, commit) ==
  [id |-> id, deck |-> deck, commit |-> commit, stage |-> 0,
   showdown |-> None, second |-> None, delivered |-> {}]

(* The deck a hand is dealt from: the locked deck of a pending commit, or  *)
(* a shuffle of its own.                                                   *)
LockedDeck(master) == <<"locked", master>>
Shuffled(id)       == <<"shuffled", id>>

\* Mutant: a missing commit is not noticed.
CommitUnchecked(pending, expected) == TRUE

(* Whether a deal may go ahead with the commit that is (not) pending. *)
CommitFits(pending, expected) == expected = None \/ pending = expected

(* create_hand: a replay finds the deal; a new deal uses up the commit.    *)
(* Player seeds exist only after a commit.                                 *)
CreateHand(w, expected, id) ==
  IF w.hand # None
  THEN [worker |-> w,
        reply  |-> IF expected # None /\ w.hand.commit # expected THEN Refusal
                   ELSE [ok |-> TRUE, id |-> w.hand.id]]
  ELSE IF ~CommitFits(w.pending, expected)
  THEN [worker |-> [w EXCEPT !.pending = None], reply |-> Refusal]
  ELSE LET deck == IF w.pending = None THEN Shuffled(id) ELSE LockedDeck(w.pending)
       IN  [worker |-> [pending |-> None, hand |-> NewHand(id, deck, w.pending)],
            reply  |-> [ok |-> TRUE, id |-> id]]

(* DealerStage only moves forward. *)
Reached(stage, to) == IF stage < to THEN to ELSE stage

(* reveal_board: in order, repeatable, never back. *)
RevealBoard(w, street) ==
  IF w.hand = None THEN [worker |-> w, reply |-> Refusal]
  ELSE IF street > Flop /\ w.hand.stage < street - 1
  THEN [worker |-> w, reply |-> Refusal]
  ELSE [worker |-> [w EXCEPT !.hand.stage = Reached(@, street)],
        reply  |-> [ok |-> TRUE, deck |-> w.hand.deck]]

(* reveal_second_run: after the river, from one street for good. *)
RevealSecondRun(w, from) ==
  IF w.hand = None THEN [worker |-> w, reply |-> Refusal]
  ELSE IF \/ w.hand.stage \notin River..Showdown
          \/ w.hand.second \notin {None, from}
  THEN [worker |-> w, reply |-> Refusal]
  ELSE [worker |-> [w EXCEPT !.hand.second = from],
        reply  |-> [ok |-> TRUE, deck |-> w.hand.deck]]

Shown(hand, seats) ==
  [hand EXCEPT !.showdown = seats, !.stage = Reached(@, Showdown)]

(* reveal_showdown: after the river, for one set of seats for good. *)
RevealShowdown(w, seats) ==
  IF w.hand = None THEN [worker |-> w, reply |-> Refusal]
  ELSE IF \/ w.hand.stage < River \/ Cardinality(seats) < 2
          \/ (w.hand.showdown # None /\ w.hand.showdown # seats)
  THEN [worker |-> w, reply |-> Refusal]
  ELSE [worker |-> [w EXCEPT !.hand = Shown(@, seats)],
        reply  |-> [ok |-> TRUE, deck |-> w.hand.deck]]

\* Mutant: whatever deal the worker holds settles the hand.
SettleAnyDeal(w, id) ==
  IF w.hand = None THEN [worker |-> w, reply |-> Refusal]
  ELSE [worker |-> [w EXCEPT !.hand.stage = Settled],
        reply  |-> [ok |-> TRUE, id |-> id, deck |-> w.hand.deck, commit |-> w.hand.commit]]

(* settle_hand: the whole deck, to a caller that names the deal. *)
SettleHand(w, id) ==
  IF w.hand = None THEN [worker |-> w, reply |-> Refusal]
  ELSE IF w.hand.id # id THEN [worker |-> w, reply |-> Refusal]
  ELSE [worker |-> [w EXCEPT !.hand.stage = Settled],
        reply  |-> [ok |-> TRUE, id |-> w.hand.id, deck |-> w.hand.deck,
                    commit |-> w.hand.commit]]

(* bot_hole *)
BotHole(w) ==
  [worker |-> w,
   reply  |-> IF w.hand = None THEN Refusal ELSE [ok |-> TRUE, deck |-> w.hand.deck]]

(* delete_hand *)
DeleteHand(w) ==
  [worker |-> [pending |-> None, hand |-> None], reply |-> [ok |-> TRUE]]

(* The effect of a request, whoever still waits for it. *)
Handle(req, id) ==
  CASE req.op = "create"   -> CreateHand(worker, req.commit, id)
    [] req.op = "bots"     -> BotHole(worker)
    [] req.op = "board"    -> RevealBoard(worker, req.street)
    [] req.op = "second"   -> RevealSecondRun(worker, req.from)
    [] req.op = "showdown" -> RevealShowdown(worker, req.seats)
    [] req.op = "settle"   -> SettleHand(worker, req.id)
    [] req.op = "delete"   -> DeleteHand(worker)

----------------------------------------------------------------------------
(* The game server. *)

(* An error: a hand that was dealt is voided and deleted. *)
Failed(g) ==
  [g EXCEPT !.tries = 0, !.waits = None, !.result = IF @ = "none" THEN "void" ELSE @,
            !.pc = IF g.pc \in {"commit", "locking", "create", "delete"} THEN "end" ELSE "delete"]

(* send_with_retry: another attempt, or an error. *)
TriedAgain(g) ==
  IF g.tries + 1 < Attempts
  THEN [g EXCEPT !.tries = @ + 1, !.waits = None, !.pc = IF @ = "locking" THEN "commit" ELSE @]
  ELSE Failed(g)

(* The commit is announced to the players, who send their seeds. *)
Announce(g, master) ==
  [g EXCEPT !.pc = "deal", !.tries = 0, !.waits = None, !.announced = master]

Contenders(g) == Seats \ g.folded

RequestOf(g) ==
  CASE g.pc = "create"   -> [op |-> "create", commit |-> g.announced]
    [] g.pc = "bots"     -> [op |-> "bots"]
    [] g.pc = "board"    -> [op |-> "board", street |-> g.street + 1]
    [] g.pc = "second"   -> [op |-> "second", from |-> g.twice]
    [] g.pc = "showdown" -> [op |-> "showdown", seats |-> Contenders(g)]
    [] g.pc = "settle"   -> [op |-> "settle", id |-> g.deal]
    [] g.pc = "delete"   -> [op |-> "delete"]

(* validate_final_deck, check_settled_cards and verified_reveal: the deck  *)
(* is the deal's, the boards and the hands shown sit in it (a bot's cards  *)
(* as fetched before the play are not looked at), and it is the announced  *)
(* one.                                                                    *)
Verified(g, reply) ==
  /\ reply.id = g.deal
  /\ g.checked \subseteq {reply.deck}
  /\ g.announced # None =>
       reply.commit = g.announced /\ reply.deck = LockedDeck(g.announced)

Answered(g, reply) ==
  LET next == [g EXCEPT !.tries = 0]
      seen == g.used \cup {reply.deck}
      kept == g.checked \cup {reply.deck}
  IN
  CASE g.pc = "delete" -> [next EXCEPT !.pc = "end"]
    [] g.pc # "delete" /\ ~reply.ok -> Failed(g)
    [] g.pc = "create" /\ reply.ok ->
         [next EXCEPT !.deal = reply.id, !.pc = IF bots = {} THEN "play" ELSE "bots"]
    [] g.pc = "bots" /\ reply.ok -> [next EXCEPT !.pc = "play", !.used = seen]
    [] g.pc = "board" /\ reply.ok ->
         [next EXCEPT !.pc = "play", !.street = @ + 1, !.used = seen, !.checked = kept]
    [] g.pc = "second" /\ reply.ok ->
         [next EXCEPT !.pc = "showdown", !.used = seen, !.checked = kept]
    [] g.pc = "showdown" /\ reply.ok ->
         [next EXCEPT !.pc = "settle", !.used = seen, !.checked = kept]
    [] g.pc = "settle" /\ reply.ok ->
         IF Verified(g, reply)
         THEN [next EXCEPT !.pc = "delete", !.result = "settled", !.deck = reply.deck]
         ELSE Failed(g)

(* create_with: who is dealt in is who sits there now. *)
Deal ==
  /\ game.pc = "deal"
  /\ game' = [game EXCEPT !.pc = "create",
                         !.dealt = [u \in Users |-> IF sits[u] \in bots THEN None ELSE sits[u]]]
  /\ UNCHANGED <<committed, bots, worker, locking, drawn, late, sits, ticket, saw, unmarked, faults>>

(* One attempt of a request: answered; its answer lost; or late. *)
Call ==
  /\ game.pc \in {"create", "bots", "board", "second", "showdown", "settle", "delete"}
  /\ LET req     == RequestOf(game)
         handled == Handle(req, drawn + 1)
     IN  \/ /\ worker' = handled.worker
            /\ game' = Answered(game, handled.reply)
            /\ UNCHANGED <<late, faults>>
         \/ /\ Fault
            /\ worker' = handled.worker
            /\ game' = TriedAgain(game)
            /\ UNCHANGED late
         \/ /\ Fault
            /\ late' = late \cup {req}
            /\ game' = TriedAgain(game)
            /\ UNCHANGED worker
  /\ drawn' = IF worker.hand = None /\ worker'.hand # None THEN drawn + 1 ELSE drawn
  /\ UNCHANGED <<committed, bots, locking, sits, ticket, saw, unmarked>>

(* The betting: a fold, the next street, or the end of the river. *)
Bet ==
  /\ game.pc = "play"
  /\ \/ \E s \in Contenders(game) :
          game' = [game EXCEPT !.folded = @ \cup {s},
                               !.pc = IF Cardinality(Contenders(game)) = 2 THEN "settle" ELSE @]
     \/ game.street < River /\ game' = [game EXCEPT !.pc = "board"]
     \/ game.street = River /\ game' = [game EXCEPT !.pc = "showdown"]
     \/ /\ game.street = River
        /\ \E from \in TwiceFrom : game' = [game EXCEPT !.pc = "second", !.twice = from]
  /\ UNCHANGED <<committed, bots, worker, locking, drawn, late, sits, ticket, saw, unmarked, faults>>

(* A request whose client gave up arrives after all. *)
LateArrival ==
  /\ \E req \in late :
       /\ late' = late \ {req}
       /\ IF req.op = "commit"
          THEN /\ UNCHANGED worker
               /\ locking' = IF worker.hand = None /\ worker.pending = None
                             THEN locking \cup {drawn + 1} ELSE locking
               /\ drawn' = IF locking' # locking THEN drawn + 1 ELSE drawn
          ELSE /\ worker' = Handle(req, drawn + 1).worker
               /\ drawn' = IF worker.hand = None /\ worker'.hand # None THEN drawn + 1 ELSE drawn
               /\ UNCHANGED locking
  /\ UNCHANGED <<committed, bots, game, sits, ticket, saw, unmarked, faults>>

----------------------------------------------------------------------------
(* The commit, whose deck is locked off the handler's thread. *)

CommitStart ==
  /\ game.pc = "commit"
  /\ \/ /\ worker.hand # None
        /\ game' = Failed(game)
        /\ UNCHANGED <<locking, drawn, late, faults>>
     \/ /\ worker.hand = None /\ worker.pending # None
        /\ \/ game' = Announce(game, worker.pending) /\ UNCHANGED faults
           \/ game' = TriedAgain(game) /\ Fault
        /\ UNCHANGED <<locking, drawn, late>>
     \/ /\ worker.hand = None /\ worker.pending = None
        /\ locking' = locking \cup {drawn + 1}
        /\ drawn' = drawn + 1
        /\ game' = [game EXCEPT !.pc = "locking", !.waits = drawn + 1]
        /\ UNCHANGED <<late, faults>>
     \/ /\ Fault
        /\ late' = late \cup {[op |-> "commit"]}
        /\ game' = TriedAgain(game)
        /\ UNCHANGED <<locking, drawn>>
  /\ UNCHANGED <<committed, bots, worker, sits, ticket, saw, unmarked>>

(* The first handler to finish decides; every caller gets that commit. *)
Inserted(pending, master) == IF pending = None THEN master ELSE pending

CommitLocked ==
  /\ \E master \in locking :
       /\ locking' = locking \ {master}
       /\ worker' = [worker EXCEPT !.pending = Inserted(worker.pending, master)]
       /\ IF game.waits = master
          THEN \/ game' = Announce(game, worker'.pending) /\ UNCHANGED faults
               \/ game' = TriedAgain(game) /\ Fault
          ELSE UNCHANGED <<game, faults>>
  /\ UNCHANGED <<committed, bots, drawn, late, sits, ticket, saw, unmarked>>

(* The client's attempt times out while its handler still locks the deck. *)
CommitTimeout ==
  /\ game.pc = "locking"
  /\ Fault
  /\ game' = TriedAgain(game)
  /\ UNCHANGED <<committed, bots, worker, locking, drawn, late, sits, ticket, saw, unmarked>>

(* COMMIT_TTL: any hand's commit sweeps the expired ones. *)
CommitExpires ==
  /\ Fault
  /\ worker.pending # None
  /\ worker' = [worker EXCEPT !.pending = None]
  /\ UNCHANGED <<committed, bots, locking, drawn, late, game, sits, ticket, saw, unmarked>>

(* The worker keeps nothing on disk. *)
WorkerRestart ==
  /\ Fault
  /\ worker' = [pending |-> None, hand |-> None]
  /\ locking' = {} /\ unmarked' = {}
  /\ game' = IF game.pc = "locking" THEN TriedAgain(game) ELSE game
  /\ UNCHANGED <<committed, bots, drawn, late, sits, ticket, saw>>

----------------------------------------------------------------------------
(* Players: seats change hands, tickets go out, cards come in. *)

(* The game server holds an ActiveHand. *)
Playing == game.deal # None /\ game.pc \notin {"bots", "end"}

StandUp(u) ==
  /\ sits[u] # None
  /\ sits' = [sits EXCEPT ![u] = None]
  /\ UNCHANGED <<committed, bots, worker, locking, drawn, late, game, ticket, saw, unmarked, faults>>

SitDown(u, s) ==
  /\ sits[u] = None /\ \A v \in Users : sits[v] # s
  /\ sits' = [sits EXCEPT ![u] = s]
  /\ UNCHANGED <<committed, bots, worker, locking, drawn, late, game, ticket, saw, unmarked, faults>>

\* Mutant: the seat as it is now, whoever it was dealt to.
LiveSeat(u) == sits[u]

(* Whose seat a ticket may be sent for: dealt in, and still there. *)
TicketSeat(u) == IF sits[u] = game.dealt[u] THEN game.dealt[u] ELSE None

(* sync_tickets, for one connection. *)
SyncTicket(u) ==
  /\ Playing /\ TicketSeat(u) # None
  /\ ticket' = [ticket EXCEPT ![u] = [deal |-> game.deal, seat |-> TicketSeat(u)]]
  /\ UNCHANGED <<committed, bots, worker, locking, drawn, late, game, sits, saw, unmarked, faults>>

(* deliver_holes: the ticket is looked up in the hands the worker holds. *)
Deliver(u) ==
  /\ ticket[u] # None /\ worker.hand # None
  /\ worker.hand.id = ticket[u].deal
  /\ saw' = saw \cup {[user |-> u, seat |-> ticket[u].seat, deck |-> worker.hand.deck]}
  /\ unmarked' = unmarked \cup {ticket[u].seat}
  /\ UNCHANGED <<committed, bots, worker, locking, drawn, late, game, sits, ticket, faults>>

(* complete_delivery, after the frame was sent. *)
MarkDelivered(s) ==
  /\ s \in unmarked
  /\ unmarked' = unmarked \ {s}
  /\ worker' = IF worker.hand = None THEN worker
               ELSE [worker EXCEPT !.hand.delivered = @ \cup {s}]
  /\ UNCHANGED <<committed, bots, locking, drawn, late, game, sits, ticket, saw, faults>>

(* delivery_received answers no. *)
Undelivered(s) == worker.hand # None /\ s \notin worker.hand.delivered

(* can_void_delivery: a player reports that no cards came. *)
VoidDelivery(u) ==
  /\ game.pc = "play" /\ game.dealt[u] # None /\ Undelivered(game.dealt[u])
  /\ game' = [Failed(game) EXCEPT !.refunded = u]
  /\ UNCHANGED <<committed, bots, worker, locking, drawn, late, sits, ticket, saw, unmarked, faults>>

----------------------------------------------------------------------------
Next ==
  \/ Deal \/ Call \/ Bet \/ LateArrival
  \/ CommitStart \/ CommitLocked \/ CommitTimeout \/ CommitExpires
  \/ WorkerRestart
  \/ \E u \in Users : StandUp(u) \/ SyncTicket(u) \/ Deliver(u) \/ VoidDelivery(u)
  \/ \E u \in Users, s \in Seats : SitDown(u, s)
  \/ \E s \in Seats : MarkDelivered(s)

Spec == Init /\ [][Next]_vars

----------------------------------------------------------------------------
(* Types. *)
TypeOK ==
  /\ committed \in BOOLEAN /\ bots \in BotSeatings /\ drawn \in Nat /\ locking \subseteq 1..drawn
  /\ worker \in [pending : (1..drawn) \cup {None}, hand : SealedHand \cup {None}]
  /\ sits \in [Users -> Seats \cup {None}]
  /\ game.result \in {"none", "settled", "void"} /\ unmarked \subseteq Seats

(* A committed hand is played from the deck its commit announced: whatever *)
(* was lost, repeated or restarted in between, no other card is ever shown *)
(* to a player or put on the board.  A deal that goes ahead without the    *)
(* announced commit would be found out only at settlement, after a whole   *)
(* hand was played.                                                        *)
AnnouncedDeckIsPlayed ==
  committed /\ game.deal # None =>
    /\ game.used \subseteq {LockedDeck(game.announced)}
    /\ \A x \in saw : x.deck = LockedDeck(game.announced)

(* A hand that settles was one deal: every hole card a player fetched and  *)
(* every board, second-run and showdown card is from the deck it settles   *)
(* with, also when the worker dealt the hand id again in the meantime.     *)
SettledHandIsOneDeal ==
  game.result = "settled" =>
    /\ game.used \subseteq {game.deck}
    /\ \A x \in saw : x.deck = game.deck

(* Hole cards reach the player they were dealt to and nobody else, however *)
(* seats change hands during the hand.                                     *)
OnlyTheDealtPlayerSees ==
  \A x \in saw : game.dealt[x.user] = x.seat
=============================================================================
