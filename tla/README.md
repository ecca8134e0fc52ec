# A TLA+ development of bluffking

bluffking is the public part of a card and draw-game platform: a Texas
Hold'em engine (`engine/`), the verifiable-dealing cryptography
(`mental-poker/`, `mp-wasm/`), the server side of the lottery and dice games
(`draw-games/`), the isolated dealer process and the public solver endpoint
(`server-integration/`, `gto-solver/`).

This directory models the parts of it in which state and order matter, checks
them with TLC on small instances, and proves with TLAPS, for every instance, the
safety properties of all of it except the lottery: the poker engine from the
betting round to the settlement of a hand, the ordered writer, the dealer room
and its membership, the bean authority, the sealed dealer and the solve endpoint.

## 1. Inventory

### The poker engine

| Component | State | Operations | Hard behaviour | What makes it correct |
|---|---|---|---|---|
| Betting round (`round.rs`) | seats with stack, contribution, folded/all-in flags, acted-since-full-raise and the bet each left; `current_bet`, `last_raise_size`, `actions_remaining`, `n_can_act`, the turn | open (plain, preflop with blinds and straddle), `apply_action`, `forfeit_player` | short posts, short all-ins that together reopen the action, seats retired out of turn, a lone live seat | chips conserved; closes exactly when nobody has a decision; reopening by a full raise only; always closes |
| Pots (`game/pots.rs`) | none; built from each seat's total at the end | layering, merging, refunds, four award paths, two-run split | unequal all-ins, folded overage, dead antes, odd chips, withheld reveals | every chip paid once, to a seat that may win it |
| Hand (`game/`) | phase, street, seats' copies, betting round, absorbed pot, board, pending board, hole slots, run-out choice | `start`, `apply_action`, `forfeit_player`, `inject_*`, `choose_runout`, `finish*` | blind mode pauses on every street; a caller may act, leave, withhold or settle in any order | copies agree with the round; books balance; the hand never hangs, never panics; the board is complete and in order |
| Action history (`game/actions.rs`) | the log of public records | `street_action_facts`, `last_aggressor_player_id` | replays from its own opening wager | says of every action what the round did |
| Solver (`solver/`), evaluator, deck, RNG | none of interest | numeric | floating point, Monte Carlo | not modelled |

The engine is single-threaded: its callers hold it behind a lock. What is hard
is the length and variety of legal call sequences.

### The draw games

| Component | State | Operations | Hard behaviour | What makes it correct |
|---|---|---|---|---|
| Ordered write-behind (`write_behind.rs`) | sequence counters, bounded channel, worker, watch channel, registry of drains | reserve/publish, enqueue, persist with retry, coalesce, `durable`, `drain`, `drain_all` | crash, lost acknowledgement, another owner, shutdown in the middle of an enqueue | in order, no gaps, applied once; an Ok means stored |
| Dealer room (`casino_room.rs`, `sicbo_room/`) | room state with a revision, members, writer, reservations, database row and wallets | poll, bet, dealer loop, settle, recover | three await points in a bet, an early deal, another game spending the same wallet, restarts | acknowledged wagers survive and are paid once; stakes stay covered; the commitment is stored before a wager |
| Membership and closing (`casino_room*.rs`, `room_clock.rs`) | seats index, joining/leaving marks, closing fence, idle watch | open, join, leave, sweep, close | commits of unknown outcome, joins during a close | one seat per player, no money left in a closed room |
| Bean authority (`beans*.rs`, `wallet.rs`) | memory copy of every wallet, mutation fences, epochs, pending effects, reservations | mutate, refresh, hydrate, accept and commit poker effects | SQL reads racing memory writes | never publishes an older balance than it showed |
| Lottery (`lottery/`) | periods, tickets, jackpots, job queue, published prefix | buy, draw, settle, refill, scratch, reveal | beacon late, re-entrant settlements, restarts | a period is drawn once and each ticket paid once |
| Solo sic bo, draw offers | one wallet row, one offer row | wager, claim | single transactions | an offer is used once |
| Records, catalog, bots, verifier | tables, pure functions | list, verify | none concurrent | not modelled |

Interactions: requests take a room's async lock, change a copy of its state,
reserve a slot in its writer and publish the snapshot; the writer's worker runs
the SQL transaction and reports through a watch channel; the bean authority is
told of stakes before the snapshot is queued and of commits after.

### Dealing and the solver endpoint

| Component | State | Operations | Hard behaviour | What makes it correct |
|---|---|---|---|---|
| Sealed dealer (`sealed_dealer.rs`) | in the worker: pending commits, hands with deck, stage and delivered seats; in the game server: the active hand, its announced commit, tickets sent | commit, create, board, second run, showdown, settle, delete, tickets, hole delivery, void | requests repeated and late, a worker that restarts and forgets, seats changing hands mid-hand | the announced deck is the one played, settled and shown, and only to the players dealt in |
| Solve endpoint (`gto_solve.rs`) | cache with FIFO queue and byte total, registry of per-source semaphores, global semaphore, blocking workers | look up, admit, solve, time out, cache | a worker that outlives its handler, guards racing the registry, equal spots solved at once | nothing leaks; the cache's books balance; the better answer stays |

The cryptographic crates are pure functions over group elements, and outside
the reach of a model checker.

## 2. Modules

| Module | Models |
|---|---|
| `BettingRound` | the round as a record and its operations as operators on it |
| `BettingStreet` | one street: the round plus history variables; the properties of the street |
| `ActionFacts` | the history projection, composed with the street it projects |
| `Pots`, `Settlement` | side pots and awards; one step from a finished hand to its payout |
| `GameHand` | a whole hand, plaintext or blind, built on `BettingRound` and `Pots` |
| `Poker_proofs` | the engine's proofs, in five parts: operators of the round, the street and its projection, pots, the hand, the settlement |
| `DurableLog` | abstract: a log with a durable prefix and an acknowledged position |
| `OrderedWriter` | one writer, its worker, waiters, shutdown and database row |
| `DealerRoom` | one sic-bo room: requests, dealer loop, wallet, reservations, writer, restart |
| `RoomMembership` | who sits where: opening, joining, leaving, sweeping, closing and recovering rooms |
| `BeanAuthority` | the memory wallets in front of the SQL rows: fences, loads, accepted results, SQL debits and credits |
| `LotteryWriter` | the lottery's working set, published prefix, ordered events and their transactions |
| `LotteryHall` | purchases, draws, settlements and scratch cards over `LotteryWriter`, and the SQL mode beside it |
| `SealedDealer` | one hand between the game server and the dealer's worker process |
| `GtoSolve` | admission, workers and cache of the solve endpoint |
| `OrderedWriter_proofs`, `DealerRoom_proofs`, `RoomMembership_proofs`, `BeanAuthority_proofs`, `SealedDealer_proofs`, `GtoSolve_proofs` | the inductive invariant of the component, its preservation, the theorems |
| `SumFacts` | lemmas about sums over finite sets, for the books of pots, wallets and the cache |
| `MC*` | instances for TLC |

### State and actions against the code

*Betting.* A seat is `0 .. N-1`; `players` vectors are sets and functions over
seats. `Legal` gathers the early returns of `apply_action`, `Wager` the
assignments of its arms, `AfterAction` adds the advance of the turn and
`check_done`. A raise target ranges over every value up to one above the
largest stack, so below-minimum and oversized raises are tried.
`ActionFacts` runs beside the street and replays every public record as
`street_action_facts` does. It starts from the nominal bring-in, so
the first half of `FactsMatchRound` is stated for streets the round opens at that
bring-in (`sameOpening`): after a straddler is all-in between the big blind and the
straddle, the round's bet is the short post and the projection reports a call of
it as a raise, although the comment on `current_street_action_facts` says calls and
raises are told apart; and for a straddle below the big blind, which nothing in
the engine forbids, the two take different increments. What still holds on a
short-straddle street is the second half, `RaiserIsNamed`: from the first wager
that really raises, the projection names the true last raiser and takes no later
call for a raise.

*Pots.* A pot is its amount, the seats that can win it and the seat an
uncalled layer is returned to. The evaluator is external: the settlement
quantifies over every weak order of the shown hands, on each board.

*Hand.* `CloseStreet` is the whole of `close_street_and_advance`; the plaintext
recursion through an all-in run-out is unrolled into the streets it deals,
which is exact because later rounds have the same stacks and are done as well.
The engine lets a blind-mode hand be acted on while a board is pending and then
forgets the street it was waiting for; `table.waits` says whether the caller
delivers a pending board first, as the sealed dealer does, and
`BoardIsProgressive` is about such callers. A hand whose board was withheld and
in which nobody survives (`NoSurvivor`) is voided by the caller, as the comment
asks: the model takes no further step with it, because settling it would trip
the conservation assertions. The board is the set of streets dealt, a hole one
of four slot states.

*Writer.* An item is a range of sequence numbers. `publish` (count, then send)
and `enqueue` (send, then count) are two steps each, as the atomics make them.
The persist callback is the dealer room's transaction: it reads the stored
revision first, so a retry after a lost acknowledgement applies nothing.

*Dealer room.* A bet request is a small program: ask; wait for the round's
commitment with the lock released; take the lock again and reserve the stake
inside the wallet transaction; accept and perhaps deal; wait for durability and
acknowledge. Each is an action, and so is every timeout. `Spend` is any other
game of the platform debiting the same wallet. Everybody is seated here;
membership is `RoomMembership`. Dice are `small` or `big` per round, fixed with
the seed.

*Membership.* A seat exists five times (index, member map, active wallet,
membership row, room row) and every operation writes them in several steps: an
open or join takes the player's membership lock, marks the member, commits SQL
and finishes or undoes; a leave deletes and finishes; the sweep reconciles what
was left in doubt; a close is marked under the room's lock and carried out by a
worker that retries its DELETE. A commit has three outcomes, stored, not stored
and unknown; an unknown one has landed or not by the time its row is next read.
The room's writer stores the latest state. Rooms are incarnations: a code may be
reused by another one, under a fresh id (`Uuid::new_v4`), so `OpenRoom` never
takes an incarnation some stored row still names.

*Beans.* A Mutation guard, its transaction and its publication are separate
steps, and a guard may be dropped with its COMMIT in flight, which then lands or
not. A generation is modelled by what it is compared for: whether a bump
happened since it was taken. Hydrate and the refresh loop wait for the
transactions they sampled, read one snapshot and install it if nothing bumped.
Hands and lottery effects are accepted in memory, committed and acknowledged by
their writers. `TakeSeat`, `TopUp`, `Deal` and `LeaveSeat` move the poker
reservation the available balance must respect.

*Lottery.* A command holds the command lock from its SQL look-up to its
acceptance; an accepted event changes `data` and is queued with frozen copies of
the rows it writes; the writer persists in order and moves `published` on. A
permanent error fences the writer, the loop discards the memory and loads it
again. A player's scratch cards are loaded on demand once that player's own jobs
are stored. The draw releases everything while it waits for the beacon. In SQL
mode several backends run the same steps as transactions. Every ticket wins and
a purchase buys one ticket: what matters is which rows are written and when.

*Sealed dealer.* A card is modelled by the deck it comes from, a deal by a
number of its own, so two deals of one hand id can be told apart. The client's
attempts, the handler's effect, a lost reply and a request that arrives after
its client gave up are separate. The worker locks a committed deck outside its
lock and inserts it afterwards. Tickets follow the live seat map while players
stand up and sit down. The seed exchange and configuration are the same in every
retry. `used` is every deck a card in play came from, `checked` the part of it
that `check_settled_cards` compares with the final deck: boards and hands shown,
not what `bot_hole` answered before the play. `SettledHandIsOneDeal` speaks of
all of `used`.

*Solve endpoint.* The registry look-up clones a semaphore, the acquisition
happens later; a dropped guard removes the entry first and returns its permit
afterwards. A solve is abstracted to whether it is final and how good it is;
final ones differ in quality too, and one replaces another whatever it is, so
`BestAnswerStays` compares the accuracy of provisional answers only.
`cache_insert` is one step: its lock covers all of it except that a look-up in
the middle misses and solves again.

## 3. Runs

| Run | Shows | Bounds and why they are enough |
|---|---|---|
| `BettingStreet` | the street's properties and the projection | 3 seats, stacks 0-6, blinds 1/2, straddle 4, every button: posts short of each blind and of the straddle, short all-ins and a re-raise all fit; larger tables are the theorems' |
| `Settlement` | pots and awards | 3 seats, 0-4 chips each: three levels, an uncalled top and odd chips |
| `Hand` | whole hands, both kinds of caller; every hand ends | stacks 1-3 against blinds 1/2, with straddle, antes, big-blind ante, bomb pot or dead small blind: short blinds, all-ins on every street and played-out streets |
| `OrderedWriter` | refinement of `DurableLog`, drains, back-pressure, waits end | both kinds of writer, channel of 2, 3 items per life, one restart: full channel, item in flight and item handed back at once |
| `DealerRoom` | wagers, payment, cover, commitment and reveal order, settlement | one user who changes a bet, another game, two rounds and a restart: the wallet is contended by rounds and games, not by users |
| `LotteryHall` | money, tickets, period rows, reports and draw order | one period, two calls of one or two users, one restart or fence, both modes, number tickets or scratch cards |
| `BeanAuthority` | published balances, covered losses | one user (wallets are independent), two concurrent mutators, one hand whose id collides with an old receipt, one lottery effect, one fault, with and without a wallet row |
| `RoomMembership` | seats and rows agree; nobody is stuck | two users, one code with two incarnations, four requests, two faults: a join, a leave and a close of the same room overlap and the code is reused |
| `SealedDealer` | one announced deck, one deal, private cards | two players or a player and a bot, two attempts a request, two faults: a lost reply or a late copy, and a restart on top of it; any number of faults is the theorems' (three were model-checked once) |
| `GtoSolve` | admission and cache | three requests of two sources, two permits; two small spots with keys of their own, which fit the cache together, and a wide one that collides with the first and needs all of it: two queued entries, replacement, collision and eviction of one or two |

Two runs expect a violation; each is a disagreement between the code and what
its comments say (PROJECT.json, findings):

* `ScratchRetry`: the SQL look-up of a scratch purchase hashes an identity
  without the declared reward version, the stored receipt has it; a retry of the
  same body after the receipt left memory is refused as another body. The
  `LotteryHall` run leaves the version undeclared.
* `RefundDebit`: a refund checks holds and local games but not lottery losses
  accepted in memory, and may take the beans they need. The `BeanAuthority` run
  has every other SQL operation.

Deadlock checking is off where a model legitimately ends: a closed street, a
settled hand, the last counted item, request or life.

`HandMovesOn` is a termination argument by ranking instead of a liveness
property: each step of a hand in play makes `Remaining` smaller, and
`NoStuckHand` says there always is one. Both are proved for hands of any size.

### Fairness

* Writer: its own steps are weakly fair; persisting is strongly fair, because
  the worker retries for ever and the property is about storage that recovers.
* Dealer room: time passes, the writer as above; the dealer loop runs every
  second and is strongly fair since tokio's mutex is first-come first-served,
  so requests cannot starve it. Requests are not assumed to make progress
  except to release the lock.
* Membership: a request's task runs on, the room's writer drains, the sweep
  comes round every minute and a close worker retries. Requests and faults are
  bounded, so weak fairness suffices.

## 4. Proofs

Everything below is for every value of the constants that satisfies the named
assumption of the module: any number of seats, users, rooms, requests and
faults, any capacity and any bound. The bounds of the runs (`MaxLives`,
`MaxFaults`, ...) are constants of the proofs too. TLC evaluates every
assumption, on the instances of the runs.

| Module | Theorems (property of a run) | Assumes |
|---|---|---|
| `Poker_proofs`, street | `StreetInvariant`, `StreetTypeOK`, `StreetBooksBalance`, `StreetClosesOnlyWhenSettled`, `StreetNoRedundantPrompt`, `StreetReraise` (`ReraiseOnlyWhenReopened`), `FactsAreTrue` (`FactsMatchRound`) | at least two seats, natural amounts, a positive big blind; for `FactsAreTrue` also that a straddle is not below the big blind (its half for streets opened at the remembered bring-in, the lemma `SameOpeningFacts`, does without) |
| `Poker_proofs`, hand | `HandInvariant`, `HandTypeOK`, `HandBooksHold` (`HandBooks`), `HandNeverStuck` (`NoStuckHand`), `HandBoardProgressive` (`BoardIsProgressive`), `HandMovesForward` (`HandMovesOn`), `HandNeverPanics` (`NeverPanics`) | every table is a `Table` with a positive big blind |
| `Poker_proofs`, settlement | `SettleInvariant`, `PotsAreChips` (`PotsAreLayersOfChips`), `QuittersLose` (`QuittersGetOnlyUncalled`), `TableStakesHold` (`CollectsAtTableStakes`), `TiesSplit` (`TiesSplitEvenly`) | natural amounts; the button is a seat |
| `OrderedWriter_proofs` | `WriterInvariant`, `WriterDrain` (`DrainedMeansStored`), `WriterBacklog` (`BacklogBounded`), `WriterImplementsLog` (`ImplementsDurableLog`) | a channel with at least one slot |
| `DealerRoom_proofs` | `RoomInvariant`, `RoomTypeOK`, `RoomPaysOnce` (`PaidOnce`), `RoomKeepsWagers` (`AckedWagerSurvives`), `RoomWindow` (`WagersInWindow`), `RoomStakesCovered` (`StakesCovered`) | positive stakes, natural times, betting ends after the lock time |
| `RoomMembership_proofs` | `MembershipInvariant`, `MembershipSeatIsBacked`, `MembershipNoOrphanRow`, `MembershipClosedHoldsNoBet` | finitely many users and rooms; `None` is no code, room or row |
| `BeanAuthority_proofs` | `BeanInvariant`, `BeanTypeOK`, `BeanPublished` (`PublishedIsCurrent`), `BeanLossesCovered` (`LossesCovered`) | finitely many users, hands and effects; natural amounts; for `BeanLossesCovered` also that no refund is made: with one it is false, which is what `RefundDebit` shows |
| `SealedDealer_proofs` | `SealedInvariant`, `SealedDeck` (`AnnouncedDeckIsPlayed`), `SealedOneDeal` (`SettledHandIsOneDeal`), `SealedPrivacy` (`OnlyTheDealtPlayerSees`) | finitely many users and seats; `None` is no seat, number or hand |
| `GtoSolve_proofs` | `AdmissionInvariant`, `AdmissionIsClean` (`IdleIsClean`), `CacheKeepsTheBest` (`BestAnswerStays`), `CacheIsBooked` (`CacheBooks`) | finitely many requests, at least one permit, no entry of size zero |

Hardly any of these properties is inductive by itself; each proof begins with
the invariant that is, as a conjunction of named parts.

Many are about sums: chips of seats, bytes of entries, beans of records. A sum
over seats counts them in order, and its lemmas are inductions over the count. A
sum over a finite set is the library's `SumFunctionOnSet`; `SumFacts` derives
from its definition that one element can be split off, and from this, always by
a smallest set for which the claim would fail, that sums split, add up, follow a
renaming and can be taken group by group.

**Betting.** `actions_remaining` is a number the code adjusts in several places;
it means something only through the set it stands for. `RoundInv` says

* `CountersInv`: `n_can_act` is the number of live seats; nobody is above the
  bet; `actions_remaining` is at most the number of live seats that have not
  acted since the last full raise, and where it is smaller (the counter is not
  restored when a short all-in leaves seats to answer) every one of those seats
  is short of the bet, so the matched-bet test of `check_done` keeps the round
  open for them;
* `OwingFirst`: reading clockwise from the turn, seats that owe a response come
  before those that do not, so the turn never lands on a seat with nothing to
  decide;
* an open round's turn is on a seat that owes a response, and a closed round is
  settled.

`ReopenInv` adds that, while two seats can act, a seat that acted and is asked
afresh faces a full raise since its last action. Part 1 of `Poker_proofs` holds
what is independent of the street, and serves the hand too: sums over seats after one changes,
cardinalities, the circular order, and what opening, wagering, folding and
`check_done` do to each part of the invariant.

For the projection, `ReplayInv` says that its commitments are the round's, and
its bet and increment too while two seats can act. With one live seat
`check_done` may lower the round's bet to what the opponents really put in, which
a replay of the log cannot see; the proof shows that this never matters, because
such a seat cannot raise. `ReplayInv` is stated under `sameOpening`. `RaiserInv`
is not: while two seats can act, the replay's bet is at most the round's until
the first true raise and equal to it from then on, so a true raise is always seen
and makes up for a short straddle.

**Hand.** `HandInv` has five parts: the type invariant; `PlayInv`, that on an
open street the round satisfies `RoundInv` and the seats' copies of stack, folded
and all-in are the round's, and that a round that is done waits for a board with
at most one seat able to act; `RestInv`, what is empty outside a street;
`ChipsInv`, that the absorbed pot and the open round are what the seats put in,
antes included; and `BoardInv`, that the board is that of the street, less the
pending one. An action reduces to the same lemmas about `AfterAction` and
`AfterForfeit` as on a street; what is new is closing one, where a round over the
seats still in is opened from the copies. `HandMovesForward` compares the
rankings of every pair of states: an action that leaves the chips where they were
takes one response away. `HandNeverPanics` adds `SettledInv` and the
conservation of pots: the slices of a seat's money between consecutive levels
telescope to what it put in (`Slice`), the pots of equal eligibility merge
without loss, and the shares of one pot, odd chips included, add up to it, for
one board and for the two halves of a pot run twice.

**Settlement.** `SettleInv` says little, that the payout is the award of its path
on the hand as it was; the work is in what the awards are. A pot is a group of
layers, so what a seat is paid is a sum over levels. `PotsAreChips` counts the
chips of a pot height by height: every chip lies in exactly one slice, and the
heights of a slice have the same payers. For `QuittersLose` a seat without a claim
is paid by refunded layers only, those above every other seat it could lose to,
and they telescope to `Uncalled`. `TableStakesHold` adds up the pots a seat
reaches: no more than its own stake from every other seat, and the dead ante.
`TiesSplit` shows that two seats that tie and put in the same have the same claim
on every pot and win it together or not at all, so that they differ by the odd
chip of each pot and run, which goes to the seat nearer to the button's left.

**Ordered writer.** `ChainInv` reads memory from storage outwards: the item being
written, the item handed back by a merge and the channel are consecutive ranges
that end at the newest snapshot sent. `StoredInv` is the heart of the retry
argument: storage is at the last acknowledged sequence or, after a lost
acknowledgement, at the end of the very item being retried, so a retry either
applies all of it or nothing. For the refinement, every step is one of four
kinds (quiet, accept, store, lose), and each kind is a step or a stutter of
`DurableLog` under the mapping; `LedgerInv` says that the entries stored are
older than those in memory, which is what makes them distinct.

**Dealer room.** `TableInv` follows the snapshots from the database row through
the queue to memory: each is one accepted change after the one before (`Link`),
and only the round storage already holds carries wagers (`OrderInv`), which is
why a restart never replaces the seed of a wager. `RiskInv` is what keeps other
games out: every stake in storage or in an unwritten snapshot is at most the
wallet *and* at most the reservation those games respect. `Carried` says of an
acknowledged wager, and of one whose request is still waiting, that every
snapshot from its revision on has it. `CommittingInv` covers the window between
a reservation and its acceptance, in which the lock is held.

**Membership.** `MembershipInv` says where each copy of a seat may disagree with
the others and who then holds the lock that will repair it: `SeatInv`,
`WalletInv` and `MemberInv` relate the index, the member map, the wallet and the
rows, and `OpeningInv` to `LeavingInv` give what the holder of a player's lock
relies on at every await of its operation, for each outcome of its commit.
`ClosingInv` says that a close worker owns exactly the members of its room. The
frame lemmas (`UserMoveStep`, `InRoomStep`) reduce a step of one player to that
player's part of the invariant. The proof needs incarnations to be fresh: a
create that reused the id of a stored row would break `StoredInv`.

**Beans.** `BeanInv` says who may still change a wallet that is being served.
`FenceInv`: nobody but a first grant, which leaves the row as it will be shown.
`TxInv`: the row lock lets one transaction of a user be open. `DailyInv`: a daily
claim that may publish is alone with its user. `LoadInv`, the heart of it: a load
that is still current has seen no guard taken since it began, waits for all that
was open when it sampled, and what it has read is what the user is owed.
`RecordInv` and `SeatInv` tie hands to receipts and seats. `CoverInv` is
`LossesCovered` without its maximum, and is inductive on top of `BeanInv`; every
action but a refund reads the balance after accepted losses before it spends.

**Sealed dealer.** Deals are numbered, and `DealInv`, `CommitInv` and `LateInv`
say that once a commit is announced nothing in the worker, on the wire or
arriving late can deal with another; `ShownInv` ties every card shown to the
deal the game server was given, not to whatever the worker holds now; it says the
same of the cards the game server used, so that a settlement, which names its
deal, needs no check of a bot's cards.

**Solve endpoint.** `RegistryInv` is the subtle part: guards may evict each
other's entries, and what remains true is that a registered semaphore always has
a user that has yet to evict it. `FreshInv` and `SlotInv` say that semaphores
are never confused across sources. `CacheIsBooked` follows an insertion through
its three structures: `Retain` keeps the queue free of repetitions, so what is
left of it after the oldest entries were popped is exactly what is left in the
map, and the total is the sum over it.

### What is only model-checked, and why

* Liveness (`WaitersResolve`, `AckedWagerSettles`, `MembershipSettles`): fairness
  and ENABLED are outside the prover's reach.
* The lottery (`MoneyMatchesTickets`, `PeriodBooks`, `NoSelfFence`,
  `ReportedIsStored`, `SoldBeforeDraw`): not proved. An inductive invariant would
  follow every queued event, with its frozen copies of rows, through both modes,
  fences, cold loads and restarts; a command applies its list of events by a
  fold (`FoldLeft`), for which no lemmas are at hand.

## 5. Plan

Modelled so far: everything in the table of modules. Still worth doing, in order:

1. Theorems about the lottery: `NoSelfFence` and `ReportedIsStored` first, whose
   writer has the shape of the ordered writer.
2. An atomic wallet as the abstract specification of `BeanAuthority`, and its
   composition with `DealerRoom` and `LotteryHall`, whose wallets it would
   replace.
3. Lottery retention and account purge beside purchases.
4. The verifier's prize rules as operators against a reference count.

## 6. Not modelled, and why

Cryptography (`mental-poker`, `mp-wasm`, the verifier's hashes), numerics
(`solver`, `gto-solver`) and static tables have no state a model checker adds
to. Wire formats, HTTP, WebSockets and event emission carry the state modelled
here and do not change it. Card identities and uniqueness checks on injected
cards are abstracted with the cards. Chips are unbounded naturals: the code's
`u32` sums are capped by table stakes far below their width.

Within the modelled components:

* Dealer room: bots, jackpots, spectators, account deletion, the practice
  wallet; a release pause is the same refusal as an unhealthy writer.
* Membership: the release handoff, the memory-only lifecycle of other games,
  spectators, sockets and names. Code allocation and room-registry claims are
  external. A leave's removal of the member, wallet and seat is one step, under
  one lock.
* Beans: account deletion and retirement, registration, leaderboard, receipt and
  ledger caches, byte and row limits; sic-bo reservations are in `DealerRoom`,
  the card rooms' are outside the repository.
* Lottery: account purge, retention deletes, byte and row limits, several tickets
  a purchase and the all-in price, caps, bonuses, notifications, presence, feed
  and views, trimming of the published set, other spenders of the wallet.
* Sealed dealer: one hand id; signing and authorization, evidence, metrics,
  diagnostics, socket deadlines and keep-alive, launching the worker.
  `replaced_during_hand` is external and never true in the model, which is the
  more permissive case. Who acts on `can_void_delivery`, and the window between
  sending cards and recording their delivery, belong to the game server.
* Solve endpoint: validation, tiers and the source offer. That a source has at
  most one solve at a time is not claimed: with one permit per source the guard
  removes the registry entry whether or not somebody holds a clone of its
  semaphore. So the comment in `IpInflightGuard::drop`, that an entry in use is
  never evicted, does not hold: a request that cloned its semaphore before an
  earlier guard evicted it, and takes its permit after, later evicts the entry
  of a third request, which is solving. `GtoSolve` states what does hold: nothing
  leaks.
