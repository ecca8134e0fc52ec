------------------------ MODULE SealedDealer_proofs ------------------------
(***************************************************************************)
(* Proofs about SealedDealer for every number of players, seats, retries   *)
(* and faults: what a player is shown, and from which deck.                *)
(*                                                                         *)
(* The properties speak of cards already shown; the inductive invariant    *)
(* adds what ties them to the one deal the game server was given: deals    *)
(* are numbered by a counter that only grows, tickets name that deal, and  *)
(* a commit that is announced is the only one a deal can use.              *)
(***************************************************************************)
EXTENDS SealedDealer, TLAPS

Pcs == {"commit", "locking", "deal", "create", "bots", "play", "board", "second",
        "showdown", "settle", "delete", "end"}

Calls == {"create", "bots", "board", "second", "showdown", "settle", "delete"}

(* Before the worker answered create. *)
BeforeDeal == {"commit", "locking", "deal", "create"}

Decks == {"locked", "shuffled"} \X Nat

Numbers(n) == (1..n) \cup {None}

DealtIn == [Users -> Seats \cup {None}]

(* The game server's side of a hand, once n masters and deals were drawn. *)
Games(n) ==
  [pc : Pcs, tries : Nat, waits : Nat \cup {None},
   announced : Numbers(n), deal : Numbers(n), dealt : DealtIn, street : 0..3,
   twice : Numbers(3), folded : SUBSET Seats, used : SUBSET Decks,
   checked : SUBSET Decks,
   result : {"none", "settled", "void"}, deck : Decks \cup {None},
   refunded : Users \cup {None}]

GameType ==
  /\ game \in Games(drawn)
  /\ game.pc = "board" => game.street < 3
  /\ game.pc = "second" => game.twice \in 1..3
  /\ game.waits # None => game.pc = "locking"

TicketType ==
  ticket \in [Users -> [deal : Nat, seat : Seats] \cup {None}]

SawType == saw \subseteq [user : Users, seat : Seats, deck : Decks]

(* A request that may arrive late: well formed, and a create carries the   *)
(* announced commit.                                                       *)
Allowed(req) ==
    \/ req.op \in {"bots", "delete"}
    \/ /\ req.op = "create" /\ req.commit = game.announced
       /\ committed => game.announced # None
       /\ game.pc \notin {"commit", "locking", "deal"}
    \/ req.op = "board" /\ req.street \in 1..3
    \/ req.op = "second" /\ req.from \in 1..3
    \/ req.op = "showdown" /\ req.seats \subseteq Seats
    \/ req.op = "settle" /\ req.id \in Nat

LateInv == \A req \in late : req.op = "commit" \/ Allowed(req)

(* The commit: announced before the deal, and once. *)
CommitInv ==
  /\ game.pc \in {"commit", "locking"} => committed /\ game.announced = None
  /\ ~committed => game.announced = None
  /\ committed /\ game.announced = None =>
       worker.hand = None /\ game.pc \in {"commit", "locking", "end"}

(* The deal: one per game, numbered before anything later is drawn. *)
DealInv ==
  /\ game.pc \in BeforeDeal => game.deal = None
  /\ game.deal = None => /\ game.pc \in BeforeDeal \cup {"end"}
                         /\ game.used = {} /\ game.result # "settled"
  /\ worker.hand # None => worker.hand.id \in 1..drawn
  /\ committed /\ worker.hand # None =>
       worker.hand.commit = game.announced /\ worker.hand.deck = LockedDeck(game.announced)

(* What was shown came from the deal of the game. *)
ShownInv ==
  /\ \A u \in Users : ticket[u] # None =>
       /\ game.deal # None /\ ticket[u].deal = game.deal /\ ticket[u].seat = game.dealt[u]
  /\ \A x \in saw :
       /\ game.deal # None /\ game.dealt[x.user] = x.seat
       /\ worker.hand # None /\ worker.hand.id = game.deal => x.deck = worker.hand.deck
       /\ committed => x.deck = LockedDeck(game.announced)
       /\ game.result = "settled" => x.deck = game.deck
  /\ worker.hand # None /\ worker.hand.id = game.deal => game.used \subseteq {worker.hand.deck}
  /\ committed => game.used \subseteq {LockedDeck(game.announced)}

(* A settled game is over. *)
SettledInv ==
  game.result = "settled" =>
    /\ game.pc \in {"delete", "end"} /\ game.used \subseteq {game.deck}
    /\ worker.hand # None /\ worker.hand.id = game.deal => worker.hand.deck = game.deck

SealedInv ==
  TypeOK /\ GameType /\ TicketType /\ SawType /\ LateInv /\ CommitInv /\ DealInv
  /\ ShownInv /\ SettledInv

----------------------------------------------------------------------------
(* The worker's handlers. *)

(* The hands the worker may hold once n masters and deals were drawn. *)
Workers(n) == [pending : (1..n) \cup {None}, hand : SealedHand \cup {None}]

(* The worker forgets the hand, keeps its deal, or deals a new one. *)
Forgets(w) == w.hand = None

Keeps(v, w) ==
  /\ v.hand # None /\ w.hand # None
  /\ w.hand.id = v.hand.id /\ w.hand.deck = v.hand.deck /\ w.hand.commit = v.hand.commit

Deals(v, w, expected, id) ==
  /\ v.hand = None /\ w.hand # None /\ w.hand.id = id
  /\ CommitFits(v.pending, expected) /\ w.hand.commit = v.pending
  /\ w.hand.deck = IF v.pending = None THEN Shuffled(id) ELSE LockedDeck(v.pending)

LEMMA DeckTypes ==
  ASSUME NEW n \in Nat
  PROVE  LockedDeck(n) \in Decks /\ Shuffled(n) \in Decks
BY DEF LockedDeck, Shuffled, Decks

LEMMA NewHandType ==
  ASSUME NEW id \in Nat, NEW deck \in Decks, NEW commit \in Nat \cup {None}
  PROVE  /\ NewHand(id, deck, commit) \in SealedHand /\ NewHand(id, deck, commit) # None
         /\ NewHand(id, deck, commit).id = id
         /\ NewHand(id, deck, commit).deck = deck
         /\ NewHand(id, deck, commit).commit = commit
<1>1. NewHand(id, deck, commit) \in SealedHand
  BY DEF NewHand, SealedHand, Decks
<1>2. NewHand(id, deck, commit) # None
  BY <1>1, SealedAssumption
<1>3. /\ NewHand(id, deck, commit).id = id
      /\ NewHand(id, deck, commit).deck = deck
      /\ NewHand(id, deck, commit).commit = commit
  BY DEF NewHand
<1> QED BY <1>1, <1>2, <1>3

\* create_hand deals afresh only where no hand is held, and only with the
\* commit it was asked for.
LEMMA CreateFacts ==
  ASSUME NEW n \in Nat, NEW w \in Workers(n), NEW id \in Nat, NEW expected \in Nat \cup {None},
         NEW h, h = CreateHand(w, expected, id)
  PROVE  /\ h.worker \in Workers(n)
         /\ \/ Forgets(h.worker) \/ Keeps(w, h.worker) \/ Deals(w, h.worker, expected, id)
         /\ h.reply.ok => h.worker.hand # None /\ h.reply.id = h.worker.hand.id
<1>0. w = [pending |-> w.pending, hand |-> w.hand] /\ w.pending \in (1..n) \cup {None}
      /\ w.hand \in SealedHand \cup {None}
  BY DEF Workers
<1>1. CASE w.hand # None
  <2>1. h.worker = w
    BY <1>1 DEF CreateHand
  <2>2. h.reply = Refusal \/ h.reply = [ok |-> TRUE, id |-> w.hand.id]
    BY <1>1 DEF CreateHand
  <2> QED BY <1>1, <2>1, <2>2 DEF Keeps, Refusal
<1>2. CASE w.hand = None /\ ~CommitFits(w.pending, expected)
  <2>1. h.worker = [w EXCEPT !.pending = None] /\ h.reply = Refusal
    BY <1>2 DEF CreateHand
  <2> QED BY <1>0, <1>2, <2>1 DEF Forgets, Refusal, Workers
<1>3. CASE w.hand = None /\ CommitFits(w.pending, expected)
  <2>1. PICK d \in Decks :
          d = IF w.pending = None THEN Shuffled(id) ELSE LockedDeck(w.pending)
    BY <1>0, DeckTypes
  <2>2. PICK new : new = NewHand(id, d, w.pending)
    OBVIOUS
  <2>3. new \in SealedHand /\ new # None /\ new.id = id /\ new.deck = d
        /\ new.commit = w.pending
    BY <1>0, <2>1, <2>2, NewHandType
  <2>4. h.worker = [pending |-> None, hand |-> new] /\ h.reply.id = id
    BY <1>3, <2>1, <2>2 DEF CreateHand
  <2> QED BY <1>3, <2>1, <2>3, <2>4 DEF Deals, Workers
<1> QED BY <1>1, <1>2, <1>3

\* The worker's hand with its deal untouched.
LEMMA KeepsDeal ==
  ASSUME NEW n \in Nat, NEW w \in Workers(n), w.hand # None, NEW x \in SealedHand,
         x.id = w.hand.id, x.deck = w.hand.deck, x.commit = w.hand.commit
  PROVE  [w EXCEPT !.hand = x] \in Workers(n) /\ Keeps(w, [w EXCEPT !.hand = x])
<1>1. x # None
  BY SealedAssumption
<1> QED BY <1>1 DEF Workers, Keeps

\* What every request but create leaves of the worker's deal.
HandlerKeeps(w, h, n) ==
  /\ h.worker \in Workers(n)
  /\ Forgets(h.worker) \/ Keeps(w, h.worker)
  /\ h.reply.ok => w.hand # None /\ h.reply.deck = w.hand.deck

LEMMA BoardFacts ==
  ASSUME NEW n \in Nat, NEW w \in Workers(n), NEW street \in 1..3
  PROVE  HandlerKeeps(w, RevealBoard(w, street), n)
<1> DEFINE h == RevealBoard(w, street)
<1>1. CASE h = [worker |-> w, reply |-> Refusal]
  BY <1>1 DEF HandlerKeeps, Forgets, Keeps, Refusal
<1>2. CASE /\ w.hand # None
           /\ h = [worker |-> [w EXCEPT !.hand.stage = Reached(@, street)],
                   reply  |-> [ok |-> TRUE, deck |-> w.hand.deck]]
  <2> DEFINE x == [w.hand EXCEPT !.stage = Reached(@, street)]
  <2>1. w.hand \in SealedHand
    BY <1>2 DEF Workers
  <2>2. x \in SealedHand /\ x.id = w.hand.id /\ x.deck = w.hand.deck /\ x.commit = w.hand.commit
    BY <2>1 DEF SealedHand, Reached
  <2>3. h.worker = [w EXCEPT !.hand = x]
    BY <1>2
  <2> HIDE DEF x
  <2>5. h.worker \in Workers(n) /\ Keeps(w, h.worker)
    BY <1>2, <2>2, <2>3, KeepsDeal
  <2> QED BY <1>2, <2>5 DEF HandlerKeeps
<1> QED BY <1>1, <1>2 DEF RevealBoard

LEMMA SecondFacts ==
  ASSUME NEW n \in Nat, NEW w \in Workers(n), NEW from \in 1..3
  PROVE  HandlerKeeps(w, RevealSecondRun(w, from), n)
<1> DEFINE h == RevealSecondRun(w, from)
<1>1. CASE h = [worker |-> w, reply |-> Refusal]
  BY <1>1 DEF HandlerKeeps, Forgets, Keeps, Refusal
<1>2. CASE /\ w.hand # None
           /\ h = [worker |-> [w EXCEPT !.hand.second = from],
                   reply  |-> [ok |-> TRUE, deck |-> w.hand.deck]]
  <2> DEFINE x == [w.hand EXCEPT !.second = from]
  <2>1. w.hand \in SealedHand
    BY <1>2 DEF Workers
  <2>2. x \in SealedHand /\ x.id = w.hand.id /\ x.deck = w.hand.deck /\ x.commit = w.hand.commit
    BY <2>1 DEF SealedHand
  <2>3. h.worker = [w EXCEPT !.hand = x]
    BY <1>2
  <2> HIDE DEF x
  <2>4. h.worker \in Workers(n) /\ Keeps(w, h.worker)
    BY <1>2, <2>2, <2>3, KeepsDeal
  <2> QED BY <1>2, <2>4 DEF HandlerKeeps
<1> QED BY <1>1, <1>2 DEF RevealSecondRun

LEMMA ShowdownFacts ==
  ASSUME NEW n \in Nat, NEW w \in Workers(n), NEW seats \in SUBSET Seats
  PROVE  HandlerKeeps(w, RevealShowdown(w, seats), n)
<1> DEFINE h == RevealShowdown(w, seats)
<1>1. CASE h = [worker |-> w, reply |-> Refusal]
  BY <1>1 DEF HandlerKeeps, Forgets, Keeps, Refusal
<1>2. CASE /\ w.hand # None
           /\ h = [worker |-> [w EXCEPT !.hand = Shown(@, seats)],
                   reply  |-> [ok |-> TRUE, deck |-> w.hand.deck]]
  <2>0. w.hand \in SealedHand
    BY <1>2 DEF Workers
  <2> DEFINE x == Shown(w.hand, seats)
  <2>1. Reached(w.hand.stage, Showdown) \in 0..5
    BY <2>0 DEF SealedHand, Reached, Showdown
  <2>2. x \in SealedHand /\ x.id = w.hand.id /\ x.deck = w.hand.deck /\ x.commit = w.hand.commit
    BY <2>0, <2>1 DEF SealedHand, Shown
  <2>3. h.worker = [w EXCEPT !.hand = x]
    BY <1>2
  <2> HIDE DEF x
  <2>4. h.worker \in Workers(n) /\ Keeps(w, h.worker)
    BY <1>2, <2>2, <2>3, KeepsDeal
  <2> QED BY <1>2, <2>4 DEF HandlerKeeps
<1> QED BY <1>1, <1>2 DEF RevealShowdown

LEMMA SettleFacts ==
  ASSUME NEW n \in Nat, NEW w \in Workers(n), NEW id
  PROVE  /\ HandlerKeeps(w, SettleHand(w, id), n)
         /\ SettleHand(w, id).reply.ok => SettleHand(w, id).reply.id = w.hand.id
<1> DEFINE h == SettleHand(w, id)
<1>1. CASE h = [worker |-> w, reply |-> Refusal]
  BY <1>1 DEF HandlerKeeps, Forgets, Keeps, Refusal
<1>2. CASE /\ w.hand # None
           /\ h = [worker |-> [w EXCEPT !.hand.stage = Settled],
                   reply  |-> [ok |-> TRUE, id |-> w.hand.id, deck |-> w.hand.deck,
                               commit |-> w.hand.commit]]
  <2> DEFINE x == [w.hand EXCEPT !.stage = Settled]
  <2>1. w.hand \in SealedHand
    BY <1>2 DEF Workers
  <2>2. x \in SealedHand /\ x.id = w.hand.id /\ x.deck = w.hand.deck /\ x.commit = w.hand.commit
    BY <2>1 DEF SealedHand, Settled
  <2>3. h.worker = [w EXCEPT !.hand = x]
    BY <1>2
  <2> HIDE DEF x
  <2>4. h.worker \in Workers(n) /\ Keeps(w, h.worker)
    BY <1>2, <2>2, <2>3, KeepsDeal
  <2> QED BY <1>2, <2>4 DEF HandlerKeeps
<1> QED BY <1>1, <1>2 DEF SettleHand

LEMMA HandleCases ==
  ASSUME NEW req, NEW id
  PROVE  /\ req.op = "create"   => Handle(req, id) = CreateHand(worker, req.commit, id)
         /\ req.op = "bots"     => Handle(req, id) = BotHole(worker)
         /\ req.op = "board"    => Handle(req, id) = RevealBoard(worker, req.street)
         /\ req.op = "second"   => Handle(req, id) = RevealSecondRun(worker, req.from)
         /\ req.op = "showdown" => Handle(req, id) = RevealShowdown(worker, req.seats)
         /\ req.op = "settle"   => Handle(req, id) = SettleHand(worker, req.id)
         /\ req.op = "delete"   => Handle(req, id) = DeleteHand(worker)
<1>1. req.op = "create" => Handle(req, id) = CreateHand(worker, req.commit, id)
  BY Zenon DEF Handle
<1>2. req.op = "bots" => Handle(req, id) = BotHole(worker)
  BY Zenon DEF Handle
<1>3. req.op = "board" => Handle(req, id) = RevealBoard(worker, req.street)
  BY Zenon DEF Handle
<1>4. req.op = "second" => Handle(req, id) = RevealSecondRun(worker, req.from)
  BY Zenon DEF Handle
<1>5. req.op = "showdown" => Handle(req, id) = RevealShowdown(worker, req.seats)
  BY Zenon DEF Handle
<1>6. req.op = "settle" => Handle(req, id) = SettleHand(worker, req.id)
  BY Zenon DEF Handle
<1>7. req.op = "delete" => Handle(req, id) = DeleteHand(worker)
  BY Zenon DEF Handle
<1> QED BY <1>1, <1>2, <1>3, <1>4, <1>5, <1>6, <1>7

\* A request that arrives, whenever it arrives.
LEMMA HandleFacts ==
  ASSUME SealedInv, NEW req, Allowed(req), NEW h, h = Handle(req, drawn + 1)
  PROVE  /\ h.worker \in Workers(drawn)
         /\ \/ Forgets(h.worker) \/ Keeps(worker, h.worker)
            \/ req.op = "create" /\ Deals(worker, h.worker, game.announced, drawn + 1)
         /\ req.op = "create" /\ h.reply.ok =>
              h.worker.hand # None /\ h.reply.id = h.worker.hand.id
         /\ req.op \notin {"create", "delete"} /\ h.reply.ok =>
              worker.hand # None /\ h.reply.deck = worker.hand.deck
         /\ req.op = "settle" /\ h.reply.ok => h.reply.id = worker.hand.id
<1>1. drawn \in Nat /\ drawn + 1 \in Nat /\ worker \in Workers(drawn)
      /\ game.announced \in Nat \cup {None}
  BY DEF SealedInv, TypeOK, Workers, GameType, Games, Numbers
<1>2. CASE req.op = "create"
  <2>1. h = CreateHand(worker, game.announced, drawn + 1)
    BY <1>2, HandleCases DEF Allowed
  <2>2. /\ h.worker \in Workers(drawn)
        /\ \/ Forgets(h.worker) \/ Keeps(worker, h.worker)
           \/ Deals(worker, h.worker, game.announced, drawn + 1)
        /\ h.reply.ok => h.worker.hand # None /\ h.reply.id = h.worker.hand.id
    BY <1>1, <2>1, CreateFacts, ZenonT(40)
  <2> QED BY <1>2, <2>2
<1>3. CASE req.op = "bots"
  <2>1. h = [worker |-> worker,
             reply |-> IF worker.hand = None THEN Refusal
                       ELSE [ok |-> TRUE, deck |-> worker.hand.deck]]
    BY <1>3, HandleCases DEF BotHole
  <2> QED BY <1>1, <1>3, <2>1 DEF Forgets, Keeps, Refusal
<1>4. CASE req.op = "board"
  <2>1. h = RevealBoard(worker, req.street) /\ req.street \in 1..3
    BY <1>4, HandleCases DEF Allowed
  <2> QED BY <1>1, <1>4, <2>1, BoardFacts DEF HandlerKeeps
<1>5. CASE req.op = "second"
  <2>1. h = RevealSecondRun(worker, req.from) /\ req.from \in 1..3
    BY <1>5, HandleCases DEF Allowed
  <2> QED BY <1>1, <1>5, <2>1, SecondFacts DEF HandlerKeeps
<1>6. CASE req.op = "showdown"
  <2>1. h = RevealShowdown(worker, req.seats) /\ req.seats \in SUBSET Seats
    BY <1>6, HandleCases DEF Allowed
  <2> QED BY <1>1, <1>6, <2>1, ShowdownFacts DEF HandlerKeeps
<1>7. CASE req.op = "settle"
  <2>1. h = SettleHand(worker, req.id)
    BY <1>7, HandleCases
  <2> QED BY <1>1, <1>7, <2>1, SettleFacts DEF HandlerKeeps
<1>8. CASE req.op = "delete"
  <2>1. h = [worker |-> [pending |-> None, hand |-> None], reply |-> [ok |-> TRUE]]
    BY <1>8, HandleCases DEF DeleteHand
  <2> QED BY <1>1, <1>8, <2>1 DEF Forgets, Workers
<1> QED BY <1>2, <1>3, <1>4, <1>5, <1>6, <1>7, <1>8 DEF Allowed

----------------------------------------------------------------------------
(* The steps that leave players and tickets alone: the hand the worker     *)
(* holds moves on, or the game server moves to another point of the same   *)
(* deal, perhaps with cards of the hand the worker holds.                  *)

InPlay == {"bots", "play", "board", "second", "showdown", "settle"}

Moves(g, f) ==
  /\ f.announced = g.announced /\ f.deal = g.deal /\ f.dealt = g.dealt
  /\ f.deck = g.deck
  /\ \/ f.used = g.used
     \/ /\ worker.hand # None /\ f.used = g.used \cup {worker.hand.deck}
        /\ g.pc \in InPlay /\ g.result # "settled"
  /\ f.result = "settled" <=> g.result = "settled"
  /\ \/ f.pc = g.pc \/ f.pc = "end"
     \/ {g.pc, f.pc} \subseteq {"commit", "locking"}
     \/ g.pc \in InPlay /\ f.pc \in InPlay \cup {"delete"} /\ g.result # "settled"

(* The deal the worker holds after a step, by the announced commit. *)
HandStep ==
  \/ Forgets(worker')
  \/ Keeps(worker, worker')
  \/ /\ worker.hand = None /\ worker'.hand # None
     /\ worker'.hand.id = drawn + 1 /\ drawn' = drawn + 1
     /\ committed => /\ game.announced # None /\ worker'.hand.commit = game.announced
                     /\ worker'.hand.deck = LockedDeck(game.announced)

LEMMA CoreStep ==
  ASSUME SealedInv, TypeOK', GameType', Moves(game, game'), HandStep,
         drawn' \in {drawn, drawn + 1}, UNCHANGED <<committed, ticket, saw>>,
         \A req \in late' : req \in late \/ req.op = "commit" \/ Allowed(req)
  PROVE  SealedInv'
<1> USE DEF SealedInv
<1>0. drawn \in Nat /\ (worker.hand # None => worker.hand.id \in 1..drawn)
      /\ (game.deal # None => game.deal <= drawn) /\ (worker.hand # None => worker.hand.id \in Nat)
      /\ game.deal \in Nat \cup {None}
  BY SealedAssumption DEF TypeOK, GameType, Games, Numbers, DealInv, SealedHand
<1>1. TicketType' /\ SawType'
  BY DEF TicketType, SawType
<1>2. LateInv'
  BY DEF LateInv, Allowed, Moves, InPlay
<1>3. CommitInv'
  BY DEF CommitInv, Moves, HandStep, Forgets, Keeps, InPlay
<1>4. DealInv'
  <2>1. /\ game'.pc \in BeforeDeal => game'.deal = None
        /\ game'.deal = None => /\ game'.pc \in BeforeDeal \cup {"end"}
                                /\ game'.used = {} /\ game'.result # "settled"
    BY DEF DealInv, Moves, InPlay, BeforeDeal
  <2>2. worker'.hand # None => worker'.hand.id \in 1..drawn'
    BY <1>0 DEF DealInv, HandStep, Forgets, Keeps
  <2>3. committed /\ worker'.hand # None =>
          worker'.hand.commit = game'.announced /\ worker'.hand.deck = LockedDeck(game'.announced)
    BY DEF DealInv, HandStep, Forgets, Keeps, Moves
  <2> QED BY <2>1, <2>2, <2>3 DEF DealInv
<1>5. worker'.hand # None /\ worker'.hand.id = game'.deal /\ game'.deal # None =>
        /\ worker.hand # None /\ worker.hand.id = game.deal
        /\ worker'.hand.deck = worker.hand.deck
  BY <1>0, SealedAssumption DEF HandStep, Forgets, Keeps, Moves
<1>6. ShownInv'
  <2>1. \A u \in Users : ticket'[u] # None =>
          /\ game'.deal # None /\ ticket'[u].deal = game'.deal
          /\ ticket'[u].seat = game'.dealt[u]
    BY DEF ShownInv, Moves
  <2>2. ASSUME NEW x \in saw'
        PROVE  /\ game'.deal # None /\ game'.dealt[x.user] = x.seat
               /\ worker'.hand # None /\ worker'.hand.id = game'.deal => x.deck = worker'.hand.deck
               /\ committed => x.deck = LockedDeck(game'.announced)
               /\ game'.result = "settled" => x.deck = game'.deck
    BY <1>5, <2>2 DEF ShownInv, Moves
  <2>3. committed => game'.used \subseteq {LockedDeck(game'.announced)}
    BY DEF ShownInv, DealInv, Moves
  <2>5. game'.deal = None => game'.used = {}
    BY <1>4 DEF DealInv
  <2>4. worker'.hand # None /\ worker'.hand.id = game'.deal =>
          game'.used \subseteq {worker'.hand.deck}
    BY <1>0, <1>5, <2>5 DEF ShownInv, Moves
  <2> QED BY <2>1, <2>2, <2>3, <2>4 DEF ShownInv
<1>7. SettledInv'
  BY <1>5 DEF SettledInv, Moves, DealInv, InPlay
<1> QED BY <1>1, <1>2, <1>3, <1>4, <1>6, <1>7

LEMMA FailedFacts ==
  ASSUME NEW n \in Nat, NEW g \in Games(n)
  PROVE  /\ Failed(g) \in Games(n) /\ Failed(g).pc \in {"end", "delete"}
         /\ Failed(g).pc = IF g.pc \in {"commit", "locking", "create", "delete"}
                           THEN "end" ELSE "delete"
         /\ Failed(g).announced = g.announced /\ Failed(g).deal = g.deal
         /\ Failed(g).dealt = g.dealt /\ Failed(g).used = g.used /\ Failed(g).deck = g.deck
         /\ Failed(g).street = g.street /\ Failed(g).twice = g.twice /\ Failed(g).waits = None
         /\ Failed(g).result = IF g.result = "none" THEN "void" ELSE g.result
<1>1. PICK result \in {"none", "settled", "void"} :
        result = IF g.result = "none" THEN "void" ELSE g.result
  BY DEF Games
<1>2. PICK pc \in {"end", "delete"} :
        pc = IF g.pc \in {"commit", "locking", "create", "delete"} THEN "end" ELSE "delete"
  OBVIOUS
<1>3. Failed(g) = [g EXCEPT !.tries = 0, !.waits = None, !.result = result, !.pc = pc]
  BY <1>1, <1>2 DEF Failed, Games
<1> DEFINE f == [g EXCEPT !.tries = 0, !.waits = None, !.result = result, !.pc = pc]
<1>4. /\ f.pc = pc /\ f.result = result /\ f.announced = g.announced /\ f.deal = g.deal
      /\ f.dealt = g.dealt /\ f.used = g.used /\ f.deck = g.deck
      /\ f.street = g.street /\ f.twice = g.twice /\ f.waits = None
  BY DEF Games
<1>5. f \in Games(n)
  BY <1>1, <1>2, ZenonT(60) DEF Games, Pcs
<1> QED BY <1>1, <1>2, <1>3, <1>4, <1>5

LEMMA TriedFacts ==
  ASSUME NEW n \in Nat, NEW g \in Games(n), g.pc \notin {"deal", "end"},
         g.pc \in InPlay => g.result # "settled"
  PROVE  /\ TriedAgain(g) \in Games(n) /\ Moves(g, TriedAgain(g))
         /\ TriedAgain(g).pc \in {"board", "second"} => TriedAgain(g).pc = g.pc
         /\ TriedAgain(g).street = g.street /\ TriedAgain(g).twice = g.twice
         /\ TriedAgain(g).waits = None
<1>1. CASE g.tries + 1 < Attempts
  <2>1. PICK pc \in Pcs : pc = IF g.pc = "locking" THEN "commit" ELSE g.pc
    BY DEF Games, Pcs
  <2>t. PICK tries \in Nat : tries = g.tries + 1
    BY DEF Games
  <2>2. TriedAgain(g) = [g EXCEPT !.tries = tries, !.waits = None, !.pc = pc]
    BY <1>1, <2>1, <2>t DEF TriedAgain, Games
  <2> DEFINE f == [g EXCEPT !.tries = tries, !.waits = None, !.pc = pc]
  <2>3. /\ f.pc = pc /\ f.result = g.result /\ f.announced = g.announced /\ f.deal = g.deal
        /\ f.dealt = g.dealt /\ f.used = g.used /\ f.deck = g.deck
        /\ f.street = g.street /\ f.twice = g.twice /\ f.waits = None
    BY DEF Games
  <2>4. f \in Games(n)
    BY <2>1, Zenon DEF Games
  <2> HIDE DEF f
  <2>5. TriedAgain(g) = f
    BY <2>2 DEF f
  <2> QED BY <2>1, <2>3, <2>4, <2>5 DEF Moves
<1>2. CASE ~(g.tries + 1 < Attempts)
  <2>1. TriedAgain(g) = Failed(g)
    BY <1>2 DEF TriedAgain
  <2>2. g.pc \in Pcs
    BY DEF Games
  <2> QED BY <2>1, <2>2, FailedFacts DEF Moves, Pcs, InPlay
<1> QED BY <1>1, <1>2

LEMMA Grow ==
  ASSUME NEW n \in Nat, NEW m \in {n, n + 1}
  PROVE  /\ 1..n \subseteq 1..m /\ m \in Nat
         /\ \A g \in Games(n) : g \in Games(m)
         /\ \A w \in Workers(n) : w \in Workers(m)
<1>1. 1..n \subseteq 1..m /\ m \in Nat
  OBVIOUS
<1>2. Numbers(n) \subseteq Numbers(m)
  BY <1>1 DEF Numbers
<1>3. \A g \in Games(n) : g \in Games(m)
  BY <1>2, Zenon DEF Games
<1>4. \A w \in Workers(n) : w \in Workers(m)
  BY <1>1 DEF Workers
<1> QED BY <1>1, <1>3, <1>4

\* Players come and go.
LEMMA SeatsKeep ==
  ASSUME SealedInv,
         \E u \in Users : StandUp(u) \/ \E s \in Seats : SitDown(u, s)
  PROVE  SealedInv'
<1> USE DEF SealedInv
<1>1. UNCHANGED <<committed, bots, worker, locking, drawn, late, game, ticket, saw, unmarked, faults>>
  BY DEF StandUp, SitDown
<1>2. sits' \in [Users -> Seats \cup {None}]
  BY DEF TypeOK, StandUp, SitDown
<1>3. TypeOK' /\ GameType'
  BY <1>1, <1>2 DEF TypeOK, GameType
<1>4. Moves(game, game') /\ HandStep
  BY <1>1 DEF Moves, HandStep, Keeps, Forgets
<1> QED BY <1>1, <1>3, <1>4, CoreStep

\* The worker moves on, the game server stands still or waits again.
LEMMA WorkerMoves ==
  ASSUME SealedInv, worker' \in Workers(drawn), HandStep,
         game' \in Games(drawn), Moves(game, game'),
         game'.pc = "board" => game'.street < 3,
         game'.pc = "second" => game'.twice \in 1..3,
         game'.waits # None => game'.pc = "locking",
         locking' \subseteq 1..drawn', drawn' \in {drawn, drawn + 1},
         unmarked' \subseteq Seats,
         \A req \in late' : req \in late \/ req.op = "commit" \/ Allowed(req),
         UNCHANGED <<committed, bots, sits, ticket, saw>>
  PROVE  SealedInv'
<1> USE DEF SealedInv
<1>1. drawn \in Nat
  BY DEF TypeOK
<1>2. drawn' \in Nat /\ game' \in Games(drawn') /\ worker' \in Workers(drawn')
  BY <1>1, Grow
<1>3. GameType'
  BY <1>2 DEF GameType
<1>4. TypeOK'
  BY <1>2 DEF TypeOK, Workers, Games
<1> QED BY <1>3, <1>4, CoreStep

\* The game server moves on, the worker stands still.
LEMMA GameMoves ==
  ASSUME SealedInv, game' \in Games(drawn), Moves(game, game'),
         game'.pc = "board" => game'.street < 3,
         game'.pc = "second" => game'.twice \in 1..3,
         game'.waits # None => game'.pc = "locking",
         locking' \subseteq 1..drawn', drawn' \in {drawn, drawn + 1},
         \A req \in late' : req \in late \/ req.op = "commit" \/ Allowed(req),
         UNCHANGED <<committed, bots, worker, sits, ticket, saw, unmarked>>
  PROVE  SealedInv'
<1> USE DEF SealedInv
<1>1. drawn \in Nat /\ worker \in Workers(drawn)
  BY DEF TypeOK, Workers
<1>2. HandStep
  BY DEF HandStep, Forgets, Keeps
<1>3. worker' \in Workers(drawn) /\ unmarked' \subseteq Seats
  BY <1>1 DEF TypeOK
<1> QED BY <1>2, <1>3, WorkerMoves

LEMMA BetKeeps ==
  ASSUME SealedInv, Bet
  PROVE  SealedInv'
<1> USE DEF SealedInv
<1>1. /\ UNCHANGED <<committed, bots, worker, locking, drawn, late, sits, ticket, saw, unmarked, faults>>
      /\ game.pc = "play" /\ game \in Games(drawn) /\ game.result # "settled"
      /\ game.waits = None
      /\ locking \subseteq 1..drawn
  BY DEF Bet, GameType, SettledInv, TypeOK
<1>2. ASSUME NEW s \in Seats, NEW pc \in {"settle", "play"},
             game' = [game EXCEPT !.folded = @ \cup {s}, !.pc = pc]
      PROVE  SealedInv'
  <2>1. game' \in Games(drawn)
    <3>1. PICK folded \in SUBSET Seats : folded = game.folded \cup {s}
      BY <1>1 DEF Games
    <3> QED BY <1>1, <1>2, <3>1, ZenonT(40) DEF Games, Pcs
  <2>2. Moves(game, game') /\ game'.waits = None /\ game'.pc = pc
    BY <1>1, <1>2 DEF Games, Moves, InPlay
  <2> QED BY <1>1, <1>2, <2>1, <2>2, GameMoves
<1>3. ASSUME NEW pc \in {"board", "showdown"}, game' = [game EXCEPT !.pc = pc],
             pc = "board" => game.street < 3
      PROVE  SealedInv'
  <2>1. game' \in Games(drawn)
    BY <1>1, <1>3, ZenonT(40) DEF Games, Pcs
  <2>2. Moves(game, game') /\ game'.waits = None /\ game'.pc = pc /\ game'.street = game.street
    BY <1>1, <1>3 DEF Games, Moves, InPlay
  <2> QED BY <1>1, <1>3, <2>1, <2>2, GameMoves
<1>4. ASSUME NEW from \in TwiceFrom, game' = [game EXCEPT !.pc = "second", !.twice = from]
      PROVE  SealedInv'
  <2>0. from \in 1..3 /\ from \in Numbers(3)
    BY SealedAssumption DEF Numbers
  <2>1. game' \in Games(drawn)
    BY <1>1, <1>4, <2>0, ZenonT(40) DEF Games, Pcs
  <2>2. Moves(game, game') /\ game'.waits = None /\ game'.pc = "second" /\ game'.twice = from
    BY <1>1, <1>4 DEF Games, Moves, InPlay
  <2> QED BY <1>1, <2>0, <2>1, <2>2, GameMoves
<1>5. CASE \E s \in Contenders(game) :
             game' = [game EXCEPT !.folded = @ \cup {s},
                        !.pc = IF Cardinality(Contenders(game)) = 2 THEN "settle" ELSE @]
  <2>1. PICK s \in Seats : game' = [game EXCEPT !.folded = @ \cup {s},
                        !.pc = IF Cardinality(Contenders(game)) = 2 THEN "settle" ELSE @]
    BY <1>5 DEF Contenders
  <2>2. PICK pc \in {"settle", "play"} :
          pc = IF Cardinality(Contenders(game)) = 2 THEN "settle" ELSE game.pc
    BY <1>1
  <2> QED BY <1>2, <2>1, <2>2
<1> QED BY <1>3, <1>4, <1>5 DEF Bet, River

LEMMA VoidKeeps ==
  ASSUME SealedInv, NEW u \in Users, VoidDelivery(u)
  PROVE  SealedInv'
<1> USE DEF SealedInv
<1>1. /\ UNCHANGED <<committed, bots, worker, locking, drawn, late, sits, ticket, saw, unmarked, faults>>
      /\ game.pc = "play" /\ game \in Games(drawn) /\ game.result # "settled"
      /\ game.waits = None
      /\ locking \subseteq 1..drawn /\ drawn \in Nat
      /\ game' = [Failed(game) EXCEPT !.refunded = u]
  BY DEF VoidDelivery, GameType, SettledInv, TypeOK
<1>2. PICK g : g = Failed(game)
  OBVIOUS
<1>3. g \in Games(drawn) /\ Moves(game, g) /\ g.waits = None /\ g.pc = "delete"
  BY <1>1, <1>2, FailedFacts DEF Moves, InPlay
<1>4. game' = [g EXCEPT !.refunded = u]
  BY <1>1, <1>2
<1>5. game' \in Games(drawn)
  BY <1>3, <1>4, Zenon DEF Games
<1>6. Moves(game, game') /\ game'.waits = None /\ game'.pc = "delete"
  BY <1>3, <1>4 DEF Games, Moves
<1> QED BY <1>1, <1>5, <1>6, GameMoves

\* A commit is announced: nothing was dealt or shown before it.
LEMMA AnnounceKeeps ==
  ASSUME SealedInv, game.pc \in {"commit", "locking"}, NEW master \in 1..drawn,
         game' = Announce(game, master), worker' \in Workers(drawn), worker'.hand = worker.hand,
         locking' \subseteq 1..drawn,
         UNCHANGED <<committed, bots, drawn, late, sits, ticket, saw, unmarked>>
  PROVE  SealedInv'
<1> USE DEF SealedInv
<1>1. /\ committed /\ game.announced = None /\ worker'.hand = None /\ game.deal = None
      /\ game \in Games(drawn) /\ drawn \in Nat /\ game.used = {} /\ game.result # "settled"
  BY DEF CommitInv, DealInv, BeforeDeal, GameType, TypeOK
<1>2. /\ game'.pc = "deal" /\ game'.announced = master /\ game'.deal = None /\ game'.used = {}
      /\ game'.result = game.result /\ game'.waits = None
  BY <1>1 DEF Announce, Games
<1>3. game' \in Games(drawn)
  <2>1. master \in Numbers(drawn) /\ 0 \in Nat
    BY DEF Numbers
  <2> QED BY <1>1, <2>1, Zenon DEF Announce, Games, Pcs
<1>4. GameType'
  BY <1>2, <1>3 DEF GameType
<1>5. TypeOK'
  BY <1>1, <1>2 DEF TypeOK, Workers, Games
<1>6. TicketType' /\ SawType'
  BY DEF TicketType, SawType
<1>7. LateInv'
  BY DEF LateInv, Allowed
<1>8. master # None
  BY SealedAssumption
<1>9. CommitInv' /\ DealInv'
  BY <1>1, <1>2, <1>8 DEF CommitInv, DealInv, BeforeDeal
<1>10. ShownInv' /\ SettledInv'
  BY <1>1, <1>2 DEF ShownInv, SettledInv
<1> QED BY <1>4, <1>5, <1>6, <1>7, <1>9, <1>10

\* A client that gave up on an attempt, whoever noticed.
LEMMA TriedKeeps ==
  ASSUME SealedInv, game.pc \notin {"deal", "play", "end"}, game' = TriedAgain(game),
         worker' \in Workers(drawn), HandStep,
         locking' \subseteq 1..drawn', drawn' \in {drawn, drawn + 1}, unmarked' \subseteq Seats,
         \A req \in late' : req \in late \/ req.op = "commit" \/ Allowed(req),
         UNCHANGED <<committed, bots, sits, ticket, saw>>
  PROVE  SealedInv'
<1> USE DEF SealedInv
<1>1. drawn \in Nat /\ game \in Games(drawn) /\ (game.pc \in InPlay => game.result # "settled")
  BY DEF TypeOK, GameType, SettledInv, InPlay
<1>2. /\ game' \in Games(drawn) /\ Moves(game, game') /\ game'.waits = None
      /\ game'.pc \in {"board", "second"} => game'.pc = game.pc
      /\ game'.street = game.street /\ game'.twice = game.twice
  BY <1>1, TriedFacts
<1>3. /\ game'.pc = "board" => game'.street < 3
      /\ game'.pc = "second" => game'.twice \in 1..3
  BY <1>2 DEF GameType
<1> QED BY <1>2, <1>3, WorkerMoves

\* commit_hand: asked for, locked off the thread, timed out.
LEMMA CommitKeeps ==
  ASSUME SealedInv, CommitStart \/ CommitLocked \/ CommitTimeout
  PROVE  SealedInv'
<1> USE DEF SealedInv
<1>0. /\ drawn \in Nat /\ worker \in Workers(drawn) /\ locking \subseteq 1..drawn
      /\ unmarked \subseteq Seats /\ game \in Games(drawn)
      /\ worker.pending \in (1..drawn) \cup {None}
      /\ drawn + 1 \in Nat /\ drawn + 1 \in 1..(drawn + 1) /\ 1..drawn \subseteq 1..(drawn + 1)
  BY DEF TypeOK, Workers, GameType
<1>1. CASE CommitStart
  <2>0. game.pc = "commit" /\ UNCHANGED <<committed, bots, worker, sits, ticket, saw, unmarked>>
    BY <1>1 DEF CommitStart
  <2>w. HandStep /\ worker' \in Workers(drawn) /\ unmarked' \subseteq Seats
    BY <1>0, <2>0 DEF HandStep, Forgets, Keeps
  <2>1. CASE worker.hand # None /\ game' = Failed(game) /\ UNCHANGED <<locking, drawn, late, faults>>
    <3>1. /\ game' \in Games(drawn) /\ Moves(game, game') /\ game'.waits = None
          /\ game'.pc = "end"
      BY <1>0, <2>0, <2>1, FailedFacts DEF Moves
    <3> QED BY <1>0, <2>0, <2>1, <3>1, GameMoves
  <2>2. CASE /\ worker.pending # None /\ game' = Announce(game, worker.pending)
             /\ UNCHANGED <<locking, drawn, late>>
    BY <1>0, <2>0, <2>2, AnnounceKeeps
  <2>3. CASE game' = TriedAgain(game) /\ UNCHANGED <<locking, drawn, late>>
    BY <1>0, <2>0, <2>w, <2>3, TriedKeeps
  <2>4. CASE /\ locking' = locking \cup {drawn + 1} /\ drawn' = drawn + 1
             /\ game' = [game EXCEPT !.pc = "locking", !.waits = drawn + 1]
             /\ UNCHANGED late
    <3>1. PICK n \in Nat : n = drawn + 1
      BY <1>0
    <3>2. game' = [game EXCEPT !.pc = "locking", !.waits = n]
      BY <2>4, <3>1
    <3>3. game' \in Games(drawn)
      BY <1>0, <3>2, ZenonT(40) DEF Games, Pcs
    <3>4. Moves(game, game') /\ game'.pc = "locking"
      BY <1>0, <2>0, <3>2 DEF Games, Moves
    <3>5. locking' \subseteq 1..drawn'
      BY <1>0, <2>4
    <3> QED BY <2>0, <2>4, <3>3, <3>4, <3>5, GameMoves
  <2>5. CASE /\ late' = late \cup {[op |-> "commit"]} /\ game' = TriedAgain(game)
             /\ UNCHANGED <<locking, drawn>>
    <3>1. \A req \in late' : req \in late \/ req.op = "commit"
      BY <2>5
    <3> QED BY <1>0, <2>0, <2>w, <2>5, <3>1, TriedKeeps
  <2> QED BY <1>1, <2>1, <2>2, <2>3, <2>4, <2>5 DEF CommitStart
<1>2. CASE CommitLocked
  <2>0. UNCHANGED <<committed, bots, drawn, late, sits, ticket, saw, unmarked>>
    BY <1>2 DEF CommitLocked
  <2>1. PICK master \in locking :
          /\ locking' = locking \ {master}
          /\ worker' = [worker EXCEPT !.pending = Inserted(worker.pending, master)]
          /\ IF game.waits = master
             THEN \/ game' = Announce(game, worker'.pending) /\ UNCHANGED faults
                  \/ game' = TriedAgain(game) /\ Fault
             ELSE UNCHANGED <<game, faults>>
    BY <1>2 DEF CommitLocked
  <2>2. Inserted(worker.pending, master) \in 1..drawn
    BY <1>0 DEF Inserted
  <2>3. /\ worker' \in Workers(drawn) /\ worker'.hand = worker.hand
        /\ worker'.pending \in 1..drawn
    BY <1>0, <2>1, <2>2 DEF Workers
  <2>4. HandStep /\ locking' \subseteq 1..drawn'
    BY <1>0, <2>0, <2>1, <2>3 DEF HandStep, Forgets, Keeps
  <2>5. CASE game.waits = master
    <3>1. game.pc = "locking"
      BY <1>0, <2>5, SealedAssumption DEF GameType
    <3>2. CASE game' = Announce(game, worker'.pending)
      BY <2>0, <2>3, <2>4, <3>1, <3>2, AnnounceKeeps
    <3>3. CASE game' = TriedAgain(game)
      BY <1>0, <2>0, <2>3, <2>4, <3>1, <3>3, TriedKeeps
    <3> QED BY <2>1, <2>5, <3>2, <3>3
  <2>6. CASE game.waits # master
    <3>1. game' = game /\ Moves(game, game')
      BY <2>1, <2>6 DEF Moves
    <3> QED BY <1>0, <2>0, <2>3, <2>4, <3>1, WorkerMoves DEF GameType
  <2> QED BY <2>5, <2>6
<1>3. CASE CommitTimeout
  <2>0. /\ game.pc = "locking" /\ game' = TriedAgain(game)
        /\ UNCHANGED <<committed, bots, worker, locking, drawn, late, sits, ticket, saw, unmarked>>
    BY <1>3 DEF CommitTimeout
  <2>w. HandStep /\ worker' \in Workers(drawn) /\ unmarked' \subseteq Seats
    BY <1>0, <2>0 DEF HandStep, Forgets, Keeps
  <2> QED BY <1>0, <2>0, <2>w, TriedKeeps
<1> QED BY <1>1, <1>2, <1>3

\* Expired commits, a restart, and the delivery flag.
LEMMA WorkerKeeps ==
  ASSUME SealedInv, CommitExpires \/ WorkerRestart \/ \E s \in Seats : MarkDelivered(s)
  PROVE  SealedInv'
<1> USE DEF SealedInv
<1>0. /\ drawn \in Nat /\ worker \in Workers(drawn) /\ locking \subseteq 1..drawn
      /\ unmarked \subseteq Seats /\ game \in Games(drawn) /\ Moves(game, game)
  BY DEF TypeOK, Workers, GameType, Moves
<1>1. CASE CommitExpires
  <2>0. /\ worker' = [worker EXCEPT !.pending = None]
        /\ UNCHANGED <<committed, bots, locking, drawn, late, game, sits, ticket, saw, unmarked>>
    BY <1>1 DEF CommitExpires
  <2>1. worker' \in Workers(drawn) /\ HandStep
    BY <1>0, <2>0 DEF Workers, HandStep, Forgets, Keeps
  <2> QED BY <1>0, <2>0, <2>1, WorkerMoves DEF GameType
<1>2. CASE WorkerRestart
  <2>0. /\ worker' = [pending |-> None, hand |-> None] /\ locking' = {} /\ unmarked' = {}
        /\ game' = IF game.pc = "locking" THEN TriedAgain(game) ELSE game
        /\ UNCHANGED <<committed, bots, drawn, late, sits, ticket, saw>>
    BY <1>2 DEF WorkerRestart
  <2>1. worker' \in Workers(drawn) /\ HandStep
    BY <2>0 DEF Workers, HandStep, Forgets
  <2>2. CASE game.pc = "locking"
    BY <1>0, <2>0, <2>1, <2>2, TriedKeeps
  <2>3. CASE game.pc # "locking"
    BY <1>0, <2>0, <2>1, <2>3, WorkerMoves DEF GameType
  <2> QED BY <2>2, <2>3
<1>3. ASSUME NEW s \in Seats, MarkDelivered(s)
      PROVE  SealedInv'
  <2>0. /\ unmarked' = unmarked \ {s}
        /\ worker' = IF worker.hand = None THEN worker
                     ELSE [worker EXCEPT !.hand.delivered = @ \cup {s}]
        /\ UNCHANGED <<committed, bots, locking, drawn, late, game, sits, ticket, saw>>
    BY <1>3 DEF MarkDelivered
  <2>1. worker' \in Workers(drawn) /\ HandStep
    <3>1. CASE worker.hand = None
      BY <1>0, <2>0, <3>1 DEF HandStep, Forgets
    <3>2. CASE worker.hand # None
      <4> DEFINE x == [worker.hand EXCEPT !.delivered = @ \cup {s}]
      <4>1. worker.hand \in SealedHand
        BY <1>0, <3>2 DEF Workers
      <4>2. x \in SealedHand /\ x.id = worker.hand.id /\ x.deck = worker.hand.deck
            /\ x.commit = worker.hand.commit
        BY <4>1 DEF SealedHand
      <4>3. worker' = [worker EXCEPT !.hand = x]
        BY <2>0, <3>2
      <4> HIDE DEF x
      <4> QED BY <1>0, <3>2, <4>2, <4>3, KeepsDeal DEF HandStep
    <3> QED BY <3>1, <3>2
  <2> QED BY <1>0, <2>0, <2>1, WorkerMoves DEF GameType
<1> QED BY <1>1, <1>2, <1>3

\* A request that arrives moves the worker on as CoreStep asks.
LEMMA ArriveFacts ==
  ASSUME SealedInv, NEW req, Allowed(req), worker' = Handle(req, drawn + 1).worker,
         drawn' = IF worker.hand = None /\ worker'.hand # None THEN drawn + 1 ELSE drawn
  PROVE  worker' \in Workers(drawn) /\ HandStep /\ drawn' \in {drawn, drawn + 1}
<1>1. PICK h : h = Handle(req, drawn + 1)
  OBVIOUS
<1>2. /\ worker' \in Workers(drawn)
      /\ \/ Forgets(worker') \/ Keeps(worker, worker')
         \/ req.op = "create" /\ Deals(worker, worker', game.announced, drawn + 1)
  BY <1>1, HandleFacts
<1>3. CASE req.op = "create" /\ Deals(worker, worker', game.announced, drawn + 1)
  <2>1. committed => game.announced # None
    BY <1>3 DEF Allowed
  <2>2. committed => worker.pending = game.announced
    BY <1>3, <2>1 DEF Deals, CommitFits
  <2> QED BY <1>2, <1>3, <2>1, <2>2 DEF HandStep, Deals
<1> QED BY <1>2, <1>3 DEF HandStep

LEMMA LateKeeps ==
  ASSUME SealedInv, LateArrival
  PROVE  SealedInv'
<1> USE DEF SealedInv
<1>0. /\ drawn \in Nat /\ worker \in Workers(drawn) /\ locking \subseteq 1..drawn
      /\ unmarked \subseteq Seats /\ game \in Games(drawn) /\ Moves(game, game)
      /\ drawn + 1 \in 1..(drawn + 1) /\ 1..drawn \subseteq 1..(drawn + 1)
  BY DEF TypeOK, Workers, GameType, Moves
<1>1. UNCHANGED <<committed, bots, game, sits, ticket, saw, unmarked, faults>>
  BY DEF LateArrival
<1>2. PICK req \in late :
       /\ late' = late \ {req}
       /\ IF req.op = "commit"
          THEN /\ UNCHANGED worker
               /\ locking' = IF worker.hand = None /\ worker.pending = None
                             THEN locking \cup {drawn + 1} ELSE locking
               /\ drawn' = IF locking' # locking THEN drawn + 1 ELSE drawn
          ELSE /\ worker' = Handle(req, drawn + 1).worker
               /\ drawn' = IF worker.hand = None /\ worker'.hand # None THEN drawn + 1 ELSE drawn
               /\ UNCHANGED locking
  BY DEF LateArrival
<1>3. CASE req.op = "commit"
  <2>1. worker' = worker /\ drawn' \in {drawn, drawn + 1}
    BY <1>2, <1>3
  <2>2. locking' \subseteq 1..drawn'
    BY <1>0, <1>2, <1>3
  <2> QED BY <1>0, <1>1, <1>2, <2>1, <2>2, GameMoves DEF GameType
<1>4. CASE req.op # "commit"
  <2>1. /\ worker' = Handle(req, drawn + 1).worker /\ locking' = locking
        /\ drawn' = IF worker.hand = None /\ worker'.hand # None THEN drawn + 1 ELSE drawn
    BY <1>2, <1>4
  <2>2. Allowed(req)
    BY <1>4 DEF LateInv
  <2>3. worker' \in Workers(drawn) /\ HandStep /\ drawn' \in {drawn, drawn + 1}
    BY <2>1, <2>2, ArriveFacts
  <2>4. locking' \subseteq 1..drawn'
    BY <1>0, <2>1, <2>3
  <2> QED BY <1>0, <1>1, <1>2, <2>3, <2>4, WorkerMoves DEF GameType
<1> QED BY <1>3, <1>4

\* create_with: the seats are read once, before anything is dealt.
LEMMA DealKeeps ==
  ASSUME SealedInv, Deal
  PROVE  SealedInv'
<1> USE DEF SealedInv
<1>1. /\ game.pc = "deal" /\ game.deal = None /\ game \in Games(drawn) /\ game.used = {}
      /\ game.result # "settled" /\ game.waits = None
      /\ UNCHANGED <<committed, bots, worker, locking, drawn, late, sits, ticket, saw, unmarked, faults>>
  BY DEF Deal, DealInv, BeforeDeal, GameType
<1>2. PICK dealt \in DealtIn : game' = [game EXCEPT !.pc = "create", !.dealt = dealt]
  <2>1. [u \in Users |-> IF sits[u] \in bots THEN None ELSE sits[u]] \in DealtIn
    BY DEF TypeOK, DealtIn
  <2> QED BY <2>1 DEF Deal
<1>3. game' \in Games(drawn)
  BY <1>1, <1>2, ZenonT(40) DEF Games, Pcs
<1>4. /\ game'.pc = "create" /\ game'.deal = None /\ game'.used = {} /\ game'.waits = None
      /\ game'.result = game.result /\ game'.announced = game.announced
  BY <1>1, <1>2 DEF Games
<1>5. TypeOK' /\ GameType' /\ TicketType' /\ SawType'
  BY <1>1, <1>3, <1>4 DEF TypeOK, GameType, TicketType, SawType
<1>6. LateInv'
  BY <1>1, <1>4 DEF LateInv, Allowed
<1>7. CommitInv' /\ DealInv'
  BY <1>1, <1>4 DEF CommitInv, DealInv, BeforeDeal
<1>8. ShownInv' /\ SettledInv'
  BY <1>1, <1>4 DEF ShownInv, SettledInv
<1> QED BY <1>5, <1>6, <1>7, <1>8

\* sync_tickets: a ticket names the deal of the game and the seat dealt.
LEMMA TicketKeeps ==
  ASSUME SealedInv, NEW u \in Users, SyncTicket(u)
  PROVE  SealedInv'
<1> USE DEF SealedInv
<1>1. /\ UNCHANGED <<committed, bots, worker, locking, drawn, late, game, sits, saw, unmarked, faults>>
      /\ game.deal # None /\ game \in Games(drawn) /\ drawn \in Nat
      /\ ticket' = [ticket EXCEPT ![u] = [deal |-> game.deal, seat |-> TicketSeat(u)]]
      /\ TicketSeat(u) # None
  BY DEF SyncTicket, Playing, GameType, TypeOK
<1>2. TicketSeat(u) = game.dealt[u] /\ TicketSeat(u) \in Seats /\ game.deal \in Nat
  BY <1>1 DEF TicketSeat, Games, DealtIn, Numbers
<1>3. TypeOK' /\ GameType' /\ SawType' /\ LateInv' /\ CommitInv' /\ DealInv' /\ SettledInv'
  BY <1>1 DEF TypeOK, GameType, SawType, LateInv, Allowed, CommitInv, DealInv, SettledInv
<1>4. PICK t : t = [deal |-> game.deal, seat |-> TicketSeat(u)]
  OBVIOUS
<1>5. t \in [deal : Nat, seat : Seats] /\ t.deal = game.deal /\ t.seat = game.dealt[u]
  BY <1>2, <1>4
<1>6. TicketType'
  BY <1>1, <1>4, <1>5 DEF TicketType
<1>7. ShownInv'
  BY <1>1, <1>4, <1>5 DEF ShownInv, TicketType
<1> QED BY <1>3, <1>6, <1>7

\* deliver_holes: the cards of the seat, from the deal the ticket names.
LEMMA DeliverKeeps ==
  ASSUME SealedInv, NEW u \in Users, Deliver(u)
  PROVE  SealedInv'
<1> USE DEF SealedInv
<1>1. /\ UNCHANGED <<committed, bots, worker, locking, drawn, late, game, sits, ticket, faults>>
      /\ ticket[u] # None /\ worker.hand # None /\ worker.hand.id = ticket[u].deal
      /\ saw' = saw \cup {[user |-> u, seat |-> ticket[u].seat, deck |-> worker.hand.deck]}
      /\ unmarked' = unmarked \cup {ticket[u].seat}
  BY DEF Deliver
<1>2. /\ ticket[u].seat \in Seats /\ game.deal # None /\ ticket[u].deal = game.deal
      /\ ticket[u].seat = game.dealt[u] /\ worker.hand.deck \in Decks
  BY <1>1 DEF TicketType, ShownInv, TypeOK, SealedHand, Decks
<1>3. TypeOK' /\ GameType' /\ TicketType' /\ LateInv' /\ CommitInv' /\ DealInv' /\ SettledInv'
  BY <1>1, <1>2 DEF TypeOK, GameType, TicketType, LateInv, Allowed, CommitInv, DealInv, SettledInv
<1>4. PICK x : x = [user |-> u, seat |-> ticket[u].seat, deck |-> worker.hand.deck]
  OBVIOUS
<1>5. /\ x \in [user : Users, seat : Seats, deck : Decks] /\ saw' = saw \cup {x}
      /\ x.user = u /\ x.seat = game.dealt[u] /\ x.deck = worker.hand.deck
  BY <1>1, <1>2, <1>4
<1>6. SawType'
  BY <1>5 DEF SawType
<1>7. /\ committed => x.deck = LockedDeck(game.announced)
      /\ game.result = "settled" => x.deck = game.deck
  BY <1>1, <1>2, <1>5 DEF DealInv, SettledInv
<1>8. ShownInv'
  BY <1>1, <1>2, <1>5, <1>7 DEF ShownInv
<1> QED BY <1>3, <1>6, <1>8

----------------------------------------------------------------------------
(* The requests of the game server. *)

LEMMA RequestCases ==
  ASSUME NEW g
  PROVE  /\ g.pc = "create"   => RequestOf(g) = [op |-> "create", commit |-> g.announced]
         /\ g.pc = "bots"     => RequestOf(g) = [op |-> "bots"]
         /\ g.pc = "board"    => RequestOf(g) = [op |-> "board", street |-> g.street + 1]
         /\ g.pc = "second"   => RequestOf(g) = [op |-> "second", from |-> g.twice]
         /\ g.pc = "showdown" => RequestOf(g) = [op |-> "showdown", seats |-> Contenders(g)]
         /\ g.pc = "settle"   => RequestOf(g) = [op |-> "settle", id |-> g.deal]
         /\ g.pc = "delete"   => RequestOf(g) = [op |-> "delete"]
<1>1. g.pc = "create" => RequestOf(g) = [op |-> "create", commit |-> g.announced]
  BY Zenon DEF RequestOf
<1>2. g.pc = "bots" => RequestOf(g) = [op |-> "bots"]
  BY Zenon DEF RequestOf
<1>3. g.pc = "board" => RequestOf(g) = [op |-> "board", street |-> g.street + 1]
  BY Zenon DEF RequestOf
<1>4. g.pc = "second" => RequestOf(g) = [op |-> "second", from |-> g.twice]
  BY Zenon DEF RequestOf
<1>5. g.pc = "showdown" => RequestOf(g) = [op |-> "showdown", seats |-> Contenders(g)]
  BY Zenon DEF RequestOf
<1>6. g.pc = "settle" => RequestOf(g) = [op |-> "settle", id |-> g.deal]
  BY Zenon DEF RequestOf
<1>7. g.pc = "delete" => RequestOf(g) = [op |-> "delete"]
  BY Zenon DEF RequestOf
<1> QED BY <1>1, <1>2, <1>3, <1>4, <1>5, <1>6, <1>7

LEMMA RequestFacts ==
  ASSUME SealedInv, game.pc \in Calls, NEW req, req = RequestOf(game)
  PROVE  Allowed(req) /\ req.op = game.pc
<1> USE DEF SealedInv
<1>0. game \in Games(drawn)
  BY DEF GameType
<1>1. CASE game.pc = "create"
  <2>1. req = [op |-> "create", commit |-> game.announced]
    BY <1>1, RequestCases
  <2>2. committed => game.announced # None
    BY <1>1 DEF CommitInv
  <2> QED BY <1>1, <2>1, <2>2 DEF Allowed
<1>2. CASE game.pc = "bots"
  <2>1. req = [op |-> "bots"]
    BY <1>2, RequestCases
  <2> QED BY <1>2, <2>1 DEF Allowed
<1>3. CASE game.pc = "board"
  <2>1. req = [op |-> "board", street |-> game.street + 1]
    BY <1>3, RequestCases
  <2>2. game.street + 1 \in 1..3
    BY <1>0, <1>3 DEF GameType, Games
  <2> QED BY <1>3, <2>1, <2>2 DEF Allowed
<1>4. CASE game.pc = "second"
  <2>1. req = [op |-> "second", from |-> game.twice]
    BY <1>4, RequestCases
  <2> QED BY <1>4, <2>1 DEF Allowed, GameType
<1>5. CASE game.pc = "showdown"
  <2>1. req = [op |-> "showdown", seats |-> Contenders(game)]
    BY <1>5, RequestCases
  <2> QED BY <1>5, <2>1 DEF Allowed, Contenders
<1>6. CASE game.pc = "settle"
  <2>1. req = [op |-> "settle", id |-> game.deal]
    BY <1>6, RequestCases
  <2>2. game.deal \in Nat
    BY <1>0, <1>6 DEF DealInv, BeforeDeal, Games, Numbers
  <2> QED BY <1>6, <2>1, <2>2 DEF Allowed
<1>7. CASE game.pc = "delete"
  <2>1. req = [op |-> "delete"]
    BY <1>7, RequestCases
  <2> QED BY <1>7, <2>1 DEF Allowed
<1> QED BY <1>1, <1>2, <1>3, <1>4, <1>5, <1>6, <1>7 DEF Calls

Rested(g) == [g EXCEPT !.tries = 0]

\* create answered: the game server learns which deal it plays.
LEMMA CreatedKeeps ==
  ASSUME SealedInv, game.pc = "create", worker' \in Workers(drawn), HandStep,
         worker'.hand # None, NEW pc \in {"play", "bots"},
         game' = [[game EXCEPT !.tries = 0] EXCEPT !.deal = worker'.hand.id, !.pc = pc],
         drawn' \in {drawn, drawn + 1},
         UNCHANGED <<committed, bots, late, locking, sits, ticket, saw, unmarked>>
  PROVE  SealedInv'
<1> USE DEF SealedInv
<1>1. /\ drawn \in Nat /\ game \in Games(drawn) /\ game.deal = None /\ game.used = {}
      /\ game.result # "settled" /\ game.waits = None
      /\ worker.hand # None => worker.hand.id \in 1..drawn
  BY DEF TypeOK, GameType, DealInv, BeforeDeal, SealedHand
<1>2. drawn' \in Nat /\ game \in Games(drawn') /\ worker' \in Workers(drawn')
      /\ 1..drawn \subseteq 1..drawn'
  BY <1>1, Grow
<1>3. PICK id \in Nat : id = worker'.hand.id
  BY <1>2 DEF Workers, SealedHand
<1>4. id \in 1..drawn'
  BY <1>1, <1>3 DEF HandStep, Keeps, Forgets
<1>z. id # None /\ game' = [[game EXCEPT !.tries = 0] EXCEPT !.deal = id, !.pc = pc]
  BY <1>3, SealedAssumption
<1>5. /\ game'.pc = pc /\ game'.deal = id /\ game'.used = {} /\ game'.waits = None
      /\ game'.result = game.result /\ game'.announced = game.announced
      /\ game'.dealt = game.dealt
  BY <1>1, <1>z DEF Games
<1>6. id \in Numbers(drawn') /\ 0 \in Nat
  BY <1>4 DEF Numbers
<1>7. game' \in Games(drawn')
  BY <1>2, <1>z, <1>6, ZenonT(40) DEF Games, Pcs
<1>8. TypeOK' /\ GameType' /\ TicketType' /\ SawType'
  BY <1>2, <1>5, <1>7 DEF TypeOK, Workers, Games, GameType, TicketType, SawType
<1>9. LateInv'
  BY <1>5 DEF LateInv, Allowed
<1>10. CommitInv'
  BY <1>1, <1>5 DEF CommitInv
<1>11. DealInv'
  BY <1>3, <1>4, <1>5, <1>z DEF DealInv, BeforeDeal, HandStep, Keeps, Forgets
<1>12. ShownInv' /\ SettledInv'
  BY <1>1, <1>5 DEF ShownInv, SettledInv
<1> QED BY <1>8, <1>9, <1>10, <1>11, <1>12

\* settle answered and verified.
LEMMA SettleKeeps ==
  ASSUME SealedInv, game.pc = "settle", worker' \in Workers(drawn),
         worker.hand # None, worker.hand.id = game.deal,
         Forgets(worker') \/ Keeps(worker, worker'),
         game' = [[game EXCEPT !.tries = 0] EXCEPT !.pc = "delete", !.result = "settled",
                                                   !.deck = worker.hand.deck],
         UNCHANGED <<committed, bots, drawn, late, locking, sits, ticket, saw, unmarked>>
  PROVE  SealedInv'
<1> USE DEF SealedInv
<1>1. /\ drawn \in Nat /\ game \in Games(drawn) /\ game.deal # None /\ game.waits = None
      /\ worker.hand.deck \in Decks
  BY DEF TypeOK, GameType, DealInv, BeforeDeal, SealedHand, Decks
<1>2. PICK deck \in Decks : deck = worker.hand.deck
  BY <1>1
<1>3. game' = [[game EXCEPT !.tries = 0] EXCEPT !.pc = "delete", !.result = "settled", !.deck = deck]
      /\ 0 \in Nat
  BY <1>2
<1>4. /\ game'.pc = "delete" /\ game'.deal = game.deal /\ game'.used = game.used
      /\ game'.waits = None /\ game'.result = "settled" /\ game'.announced = game.announced
      /\ game'.dealt = game.dealt /\ game'.deck = deck
  BY <1>1, <1>3, ZenonT(40) DEF Games
<1>5. game' \in Games(drawn)
  BY <1>1, <1>3, ZenonT(60) DEF Games, Pcs
<1>6. TypeOK' /\ GameType' /\ TicketType' /\ SawType'
  BY <1>4, <1>5 DEF TypeOK, Workers, Games, GameType, TicketType, SawType
<1>7. LateInv'
  BY <1>4 DEF LateInv, Allowed
<1>8. CommitInv' /\ DealInv'
  BY <1>1, <1>4 DEF CommitInv, DealInv, BeforeDeal, Keeps, Forgets
<1>9. ShownInv' /\ SettledInv'
  BY <1>1, <1>2, <1>4 DEF ShownInv, SettledInv, Keeps, Forgets
<1> QED BY <1>6, <1>7, <1>8, <1>9

(* An answer with cards. *)
Plays(g, pc, street, used, checked) ==
  [[g EXCEPT !.tries = 0] EXCEPT !.pc = pc, !.street = street, !.used = used,
                                 !.checked = checked]

\* Board, second run, showdown and bots' cards answered.
LEMMA UsedKeeps ==
  ASSUME SealedInv, game.pc \in {"bots", "board", "second", "showdown"},
         worker' \in Workers(drawn), HandStep, worker.hand # None,
         NEW pc \in {"play", "showdown", "settle"}, NEW street \in 0..3,
         NEW checked \in SUBSET Decks,
         NEW used, used = game.used \cup {worker.hand.deck},
         game' = Plays(game, pc, street, used, checked),
         drawn' \in {drawn, drawn + 1},
         UNCHANGED <<committed, bots, late, locking, sits, ticket, saw, unmarked>>
  PROVE  SealedInv'
<1> USE DEF SealedInv
<1>1. /\ drawn \in Nat /\ game \in Games(drawn) /\ game.waits = None
      /\ worker.hand.deck \in Decks /\ game.result # "settled" /\ 1..drawn \subseteq 1..drawn'
      /\ locking \subseteq 1..drawn /\ unmarked \subseteq Seats
  BY DEF TypeOK, GameType, SettledInv, SealedHand, Decks
<1>2. used \in SUBSET Decks
  BY <1>1 DEF Games
<1>3. game' = [[game EXCEPT !.tries = 0] EXCEPT !.pc = pc, !.street = street, !.used = used,
                                                !.checked = checked]
      /\ 0 \in Nat
  BY DEF Plays
<1>4. /\ game'.pc = pc /\ game'.waits = None /\ Moves(game, game')
  BY <1>1, <1>2, <1>3 DEF Games, Moves, InPlay
<1>5. game' \in Games(drawn)
  BY <1>1, <1>2, <1>3, ZenonT(60) DEF Games, Pcs
<1> QED BY <1>1, <1>4, <1>5, WorkerMoves

\* An answered request of the game server.
LEMMA AnsweredKeeps ==
  ASSUME SealedInv, game.pc \in Calls, NEW req, req = RequestOf(game),
         NEW h, h = Handle(req, drawn + 1), NEW r, r = h.reply,
         worker' = h.worker, game' = Answered(game, r),
         drawn' = IF worker.hand = None /\ worker'.hand # None THEN drawn + 1 ELSE drawn,
         UNCHANGED <<committed, bots, late, locking, sits, ticket, saw, unmarked>>
  PROVE  SealedInv'
<1> USE DEF SealedInv
<1>0. /\ Allowed(req) /\ req.op = game.pc
  BY RequestFacts
<1>1. worker' \in Workers(drawn) /\ HandStep /\ drawn' \in {drawn, drawn + 1}
  BY <1>0, ArriveFacts
<1>2. /\ drawn \in Nat /\ game \in Games(drawn) /\ locking \subseteq 1..drawn'
      /\ unmarked \subseteq Seats /\ game.street \in 0..3
      /\ game.pc \in InPlay => game.result # "settled"
  BY <1>1 DEF TypeOK, GameType, SettledInv, InPlay, Games
<1>h. /\ req.op = "create" /\ r.ok => worker'.hand # None /\ r.id = worker'.hand.id
      /\ req.op \notin {"create", "delete"} /\ r.ok =>
           worker.hand # None /\ r.deck = worker.hand.deck
      /\ req.op = "settle" /\ r.ok => r.id = worker.hand.id
      /\ req.op # "create" => Forgets(worker') \/ Keeps(worker, worker')
  BY <1>0, HandleFacts
<1>4. CASE game.pc = "delete"
  <2>1. game' = [Rested(game) EXCEPT !.pc = "end"]
    BY <1>4, Zenon DEF Answered, Rested
  <2>2. game' = [[game EXCEPT !.tries = 0] EXCEPT !.pc = "end"] /\ 0 \in Nat
    BY <2>1 DEF Rested
  <2>3. game' \in Games(drawn)
    BY <1>2, <2>2, ZenonT(40) DEF Games, Pcs
  <2>4. Moves(game, game') /\ game'.pc = "end" /\ game'.waits = None
    BY <1>2, <1>4, <2>2 DEF Games, Moves, GameType
  <2> QED BY <1>1, <1>2, <2>3, <2>4, WorkerMoves
<1>5. CASE game.pc # "delete" /\ game' = Failed(game)
  <2>1. /\ game' \in Games(drawn) /\ Moves(game, game') /\ game'.pc \in {"end", "delete"}
        /\ game'.waits = None
    BY <1>2, <1>5, FailedFacts DEF Moves, Calls, InPlay
  <2> QED BY <1>1, <1>2, <2>1, WorkerMoves
<1>6. CASE game.pc = "create" /\ r.ok
  <2>1. game' = [Rested(game) EXCEPT !.deal = r.id, !.pc = IF bots = {} THEN "play" ELSE "bots"]
    BY <1>6, Zenon DEF Answered, Rested
  <2>2. PICK pc \in {"play", "bots"} : pc = IF bots = {} THEN "play" ELSE "bots"
    OBVIOUS
  <2>3. game' = [[game EXCEPT !.tries = 0] EXCEPT !.deal = worker'.hand.id, !.pc = pc]
    BY <1>0, <1>6, <1>h, <2>1, <2>2 DEF Rested
  <2> QED BY <1>0, <1>1, <1>6, <1>h, <2>3, CreatedKeeps
<1>7. CASE game.pc \in {"bots", "board", "second", "showdown"} /\ r.ok
  <2>1. worker.hand # None /\ r.deck = worker.hand.deck
    BY <1>0, <1>7, <1>h
  <2> DEFINE seen == game.used \cup {worker.hand.deck}
             kept == game.checked \cup {worker.hand.deck}
  <2>3. kept \in SUBSET Decks /\ game.checked \in SUBSET Decks
    BY <1>2, <2>1 DEF Games, TypeOK, SealedHand, Decks
  <2>4. game.used \cup {r.deck} = seen /\ game.checked \cup {r.deck} = kept
    BY <2>1
  <2> HIDE DEF seen, kept
  <2>2. \E pc \in {"play", "showdown", "settle"}, street \in 0..3, checked \in SUBSET Decks :
          game' = Plays(game, pc, street, seen, checked)
    <3>1. /\ Rested(game) \in Games(drawn) /\ Rested(game).street = game.street
          /\ Rested(game).checked = game.checked
      <4>1. Rested(game) \in Games(drawn)
        BY <1>2, 0 \in Nat, Zenon DEF Games, Rested
      <4> QED BY <1>2, <4>1 DEF Games, Rested
    <3>2. CASE game.pc = "bots"
      <4>0. game' = [Rested(game) EXCEPT !.pc = "play", !.used = game.used \cup {r.deck}]
        BY <1>7, <3>2, Zenon DEF Answered, Rested
      <4>1. game' = [Rested(game) EXCEPT !.pc = "play", !.used = seen]
        BY <2>4, <4>0
      <4>2. game' = [Rested(game) EXCEPT !.pc = "play", !.street = game.street, !.used = seen,
                                         !.checked = game.checked]
        BY <3>1, <4>1 DEF Games
      <4> QED BY <1>2, <2>3, <4>2 DEF Rested, Plays
    <3>3. CASE game.pc = "board"
      <4>0. game' = [Rested(game) EXCEPT !.pc = "play", !.street = @ + 1,
                       !.used = game.used \cup {r.deck}, !.checked = game.checked \cup {r.deck}]
        BY <1>7, <3>3, Zenon DEF Answered, Rested
      <4>1. game' = [Rested(game) EXCEPT !.pc = "play", !.street = @ + 1, !.used = seen, !.checked = kept]
        BY <2>4, <4>0
      <4>2. PICK street \in 0..3 : street = game.street + 1
        BY <1>2, <3>3 DEF GameType
      <4>3. game' = [Rested(game) EXCEPT !.pc = "play", !.street = street, !.used = seen, !.checked = kept]
        BY <3>1, <4>1, <4>2 DEF Games
      <4> QED BY <2>3, <4>3 DEF Rested, Plays
    <3>4. CASE game.pc = "second"
      <4>0. game' = [Rested(game) EXCEPT !.pc = "showdown",
                       !.used = game.used \cup {r.deck}, !.checked = game.checked \cup {r.deck}]
        BY <1>7, <3>4, Zenon DEF Answered, Rested
      <4>1. game' = [Rested(game) EXCEPT !.pc = "showdown", !.used = seen, !.checked = kept]
        BY <2>4, <4>0
      <4>2. game' = [Rested(game) EXCEPT !.pc = "showdown", !.street = game.street, !.used = seen, !.checked = kept]
        BY <3>1, <4>1 DEF Games
      <4> QED BY <1>2, <2>3, <4>2 DEF Rested, Plays
    <3>5. CASE game.pc = "showdown"
      <4>0. game' = [Rested(game) EXCEPT !.pc = "settle",
                       !.used = game.used \cup {r.deck}, !.checked = game.checked \cup {r.deck}]
        BY <1>7, <3>5, Zenon DEF Answered, Rested
      <4>1. game' = [Rested(game) EXCEPT !.pc = "settle", !.used = seen, !.checked = kept]
        BY <2>4, <4>0
      <4>2. game' = [Rested(game) EXCEPT !.pc = "settle", !.street = game.street, !.used = seen, !.checked = kept]
        BY <3>1, <4>1 DEF Games
      <4> QED BY <1>2, <2>3, <4>2 DEF Rested, Plays
    <3> QED BY <1>7, <3>2, <3>3, <3>4, <3>5
  <2>5. seen = game.used \cup {worker.hand.deck}
    BY DEF seen
  <2> QED BY <1>1, <1>7, <2>1, <2>2, <2>5, UsedKeeps
<1>8. CASE game.pc = "settle" /\ r.ok /\ Verified(game, r)
  <2>1. game' = [Rested(game) EXCEPT !.pc = "delete", !.result = "settled", !.deck = r.deck]
    BY <1>8, Zenon DEF Answered, Rested
  <2>2. /\ worker.hand # None /\ r.deck = worker.hand.deck /\ r.id = worker.hand.id
        /\ Forgets(worker') \/ Keeps(worker, worker')
    BY <1>0, <1>8, <1>h
  <2>3. worker.hand.id = game.deal
    BY <1>8, <2>2 DEF Verified
  <2>4. game' = [[game EXCEPT !.tries = 0] EXCEPT !.pc = "delete", !.result = "settled",
                                                  !.deck = worker.hand.deck]
    BY <2>1, <2>2 DEF Rested
  <2>5. drawn' = drawn
    BY <2>2
  <2> QED BY <1>1, <1>8, <2>2, <2>3, <2>4, <2>5, SettleKeeps
<1>9. CASE game.pc # "delete" /\ ~r.ok
  BY <1>5, <1>9, Zenon DEF Answered, Rested
<1>10. CASE game.pc = "settle" /\ r.ok /\ ~Verified(game, r)
  BY <1>5, <1>10, Zenon DEF Answered, Rested
<1> QED BY <1>4, <1>6, <1>7, <1>8, <1>9, <1>10 DEF Calls

LEMMA CallKeeps ==
  ASSUME SealedInv, Call
  PROVE  SealedInv'
<1> USE DEF SealedInv
<1>1. PICK req : req = RequestOf(game)
  OBVIOUS
<1>2. PICK h : h = Handle(req, drawn + 1)
  OBVIOUS
<1>3. /\ game.pc \in Calls
      /\ drawn' = IF worker.hand = None /\ worker'.hand # None THEN drawn + 1 ELSE drawn
      /\ UNCHANGED <<committed, bots, locking, sits, ticket, saw, unmarked>>
      /\ \/ worker' = h.worker /\ game' = Answered(game, h.reply) /\ UNCHANGED late
         \/ worker' = h.worker /\ game' = TriedAgain(game) /\ UNCHANGED late
         \/ late' = late \cup {req} /\ game' = TriedAgain(game) /\ UNCHANGED worker
  BY <1>1, <1>2 DEF Call, Calls
<1>4. Allowed(req) /\ game.pc \notin {"deal", "play", "end"}
  BY <1>1, <1>3, RequestFacts DEF Calls
<1>5. drawn \in Nat /\ worker \in Workers(drawn) /\ locking \subseteq 1..drawn /\ unmarked \subseteq Seats
  BY DEF TypeOK, Workers
<1>6. CASE worker' = h.worker /\ game' = Answered(game, h.reply) /\ UNCHANGED late
  <2>1. PICK r : r = h.reply
    OBVIOUS
  <2> QED BY <1>1, <1>2, <1>3, <1>6, <2>1, AnsweredKeeps
<1>7. CASE worker' = h.worker /\ game' = TriedAgain(game) /\ UNCHANGED late
  <2>1. worker' \in Workers(drawn) /\ HandStep /\ drawn' \in {drawn, drawn + 1}
    BY <1>2, <1>3, <1>4, <1>7, ArriveFacts
  <2>2. locking' \subseteq 1..drawn'
    BY <1>3, <1>5, <2>1
  <2> QED BY <1>3, <1>4, <1>5, <1>7, <2>1, <2>2, TriedKeeps
<1>8. CASE late' = late \cup {req} /\ game' = TriedAgain(game) /\ UNCHANGED worker
  <2>1. drawn' = drawn /\ HandStep
    BY <1>3, <1>8 DEF HandStep, Forgets, Keeps
  <2> QED BY <1>3, <1>4, <1>5, <1>8, <2>1, TriedKeeps
<1> QED BY <1>3, <1>6, <1>7, <1>8

----------------------------------------------------------------------------
\* The invariant holds of every hand, whatever is lost, late or restarted.
THEOREM SealedInvariant == Spec => []SealedInv
<1>1. Init => SealedInv
  <2> SUFFICES ASSUME Init PROVE SealedInv
    OBVIOUS
  <2>1. PICK pc \in {"commit", "deal"} : pc = IF committed THEN "commit" ELSE "deal"
    OBVIOUS
  <2>2. game = [NoGame EXCEPT !.pc = pc]
    BY <2>1 DEF Init
  <2>3. NoGame \in Games(0)
    <3>1. [u \in Users |-> None] \in DealtIn
      BY DEF DealtIn
    <3>2. None \in Numbers(0) /\ None \in Numbers(3) /\ 0 \in 0..3 /\ 0 \in Nat
      BY DEF Numbers
    <3> QED BY <3>1, <3>2, Zenon DEF NoGame, Games, Pcs
  <2>4. game \in Games(0)
    BY <2>2, <2>3, ZenonT(40) DEF Games, Pcs
  <2>5. /\ game.pc = pc /\ game.announced = None /\ game.deal = None /\ game.waits = None
        /\ game.used = {} /\ game.result = "none"
    BY <2>2 DEF NoGame
  <2>6. /\ worker.hand = None /\ worker.pending = None /\ drawn = 0 /\ late = {} /\ saw = {}
        /\ ticket = [u \in Users |-> None] /\ worker \in Workers(0)
    BY DEF Init, Workers
  <2>7. TypeOK
    BY <2>5, <2>6 DEF Init, TypeOK, Seatings, Workers
  <2>8. GameType /\ TicketType /\ SawType /\ LateInv
    BY <2>4, <2>5, <2>6 DEF GameType, TicketType, SawType, LateInv
  <2>9. CommitInv /\ DealInv /\ ShownInv /\ SettledInv
    BY <2>1, <2>5, <2>6 DEF CommitInv, DealInv, BeforeDeal, ShownInv, SettledInv
  <2> QED BY <2>7, <2>8, <2>9 DEF SealedInv
<1>2. SealedInv /\ [Next]_vars => SealedInv'
  <2> SUFFICES ASSUME SealedInv, [Next]_vars PROVE SealedInv'
    OBVIOUS
  <2>1. CASE UNCHANGED vars
    BY <2>1 DEF vars, SealedInv, TypeOK, GameType, TicketType, SawType, LateInv, Allowed,
                CommitInv, DealInv, ShownInv, SettledInv
  <2>2. CASE Next
    BY <2>2, DealKeeps, CallKeeps, BetKeeps, LateKeeps, CommitKeeps, WorkerKeeps,
       SeatsKeep, TicketKeeps, DeliverKeeps, VoidKeeps DEF Next
  <2> QED BY <2>1, <2>2
<1> QED BY <1>1, <1>2, PTL DEF Spec

\* However replies are lost and requests repeated, a committed hand is dealt
\* and boarded from the deck whose commitment the players were shown.
THEOREM SealedDeck == Spec => []AnnouncedDeckIsPlayed
<1>1. SealedInv => AnnouncedDeckIsPlayed
  BY DEF SealedInv, ShownInv, AnnouncedDeckIsPlayed
<1> QED BY <1>1, SealedInvariant, PTL

\* A worker that lost its hand and dealt the id again cannot settle it: what
\* settles is the deal whose cards every player and the board have shown.
THEOREM SealedOneDeal == Spec => []SettledHandIsOneDeal
<1>1. SealedInv => SettledHandIsOneDeal
  BY DEF SealedInv, ShownInv, SettledInv, SettledHandIsOneDeal
<1> QED BY <1>1, SealedInvariant, PTL

\* Tickets bind a connection to the seat it was dealt, so no one who sits down
\* later is shown another player's cards.
THEOREM SealedPrivacy == Spec => []OnlyTheDealtPlayerSees
<1>1. SealedInv => OnlyTheDealtPlayerSees
  BY DEF SealedInv, ShownInv, OnlyTheDealtPlayerSees
<1> QED BY <1>1, SealedInvariant, PTL
=============================================================================
