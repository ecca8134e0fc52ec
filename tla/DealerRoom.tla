----------------------------- MODULE DealerRoom -----------------------------
(***************************************************************************)
(* casino_room.rs with sicbo_room/store.rs: one dealer room.  Rounds run   *)
(* in memory (bet, lock, settle, show, next); every accepted change is     *)
(* queued to the room's ordered writer, which commits the snapshot and, of *)
(* a settled round, the wallets and receipts in one transaction.  Around   *)
(* it: place_bet's two waits for durability and its wallet transaction,    *)
(* the in-memory stake reservations other debits must respect, those       *)
(* debits, lost acknowledgements and process restarts.                     *)
(*                                                                         *)
(* Every user is seated throughout (admission and departure are not part   *)
(* of this module).  The writer is OrderedWriter seen from the room: a     *)
(* FIFO, the last acknowledged revision and whether its last try failed.   *)
(***************************************************************************)
EXTENDS Integers, Sequences, FiniteSetsExt

CONSTANTS
  Users, Nobody, \* seated players; Nobody is none of them
  Sides, Stakes, \* sides and stakes a wager may have
  Balance,       \* each player's beans at the start
  BetTime, LockTime, ShowTime,  \* BET_MS, BET_LOCK_MS, REVEAL_MS
  ExpiresAt,     \* the room clock: no new round from then on
  Capacity,      \* slots of the writer's channel
  MaxTime, MaxRounds, MaxBets, MaxLives  \* bounds (bets: per player and round)

ASSUME RoomAssumption ==
  /\ Nobody \notin Users /\ Stakes \subseteq Nat \ {0} /\ Balance \in Nat
  /\ LockTime \in Nat /\ BetTime \in Nat /\ LockTime < BetTime
  /\ {ShowTime, ExpiresAt, MaxTime, MaxBets, Capacity} \subseteq Nat
  /\ {MaxRounds, MaxLives} \subseteq Nat \ {0}
  /\ ExpiresAt + BetTime <= MaxTime  \* a round that opens comes due

VARIABLES
  now,      \* wall clock
  life,     \* which incarnation of the process is running
  dice,     \* the outcome each round's committed seed yields
  opened,   \* rounds ever created (their ids are never reused)
  room,     \* Room::state
  queue,    \* snapshots accepted and not acknowledged
  failing,  \* the writer's last attempt failed
  saved,    \* the last revision the writer acknowledged
  holder,   \* who holds the room lock across an await
  reserved, \* Reservations::sicbo for this room
  client,   \* each player's place_bet request
  db,       \* the room row
  wallet,   \* the wallet rows
  ledger,   \* the receipts: per round and player, the wagers paid
  acked,    \* history: each player's last acknowledged wager, until changed
  shown     \* history: rounds whose dice this process pushed to clients

core == <<room, queue, reserved>>
storage == <<db, wallet, ledger>>
fixed == <<now, life, dice>>
vars == <<fixed, opened, core, failing, saved, holder, client, storage, acked,
          shown>>

Outcomes == Sides \cup {"triple"}
NoBet == [side |-> "none", stake |-> 0]
Wagers == [side : Sides, stake : Stakes]

\* Even money; a triple loses both sides.
Delta(wager, outcome) ==
  IF wager.side = outcome THEN wager.stake ELSE -wager.stake

-----------------------------------------------------------------------------
(* The room's state and the dealer's rules over it.                        *)

NewRound(id, revision) ==
  [revision |-> revision, round |-> id, deadline |-> now + BetTime,
   bets |-> [u \in Users |-> NoBet], betRevisions |-> [u \in Users |-> 0],
   result |-> FALSE]

BettingOpen(s) == ~s.result /\ now < s.deadline - LockTime

Bettors(s) == {u \in Users : s.bets[u] # NoBet}

\* settle_round: the seed was fixed with the round, so nothing is drawn here.
SettleRound(s) == [s EXCEPT !.result = TRUE, !.deadline = now + ShowTime]

Due(s) == ~s.result /\ now >= s.deadline

CanAdvance(s) ==
  s.result /\ now >= s.deadline /\ now < ExpiresAt /\ opened < MaxRounds

OpenStake(s, u) == IF s.result THEN 0 ELSE s.bets[u].stake

-----------------------------------------------------------------------------
(* Accepting a change: refused unless the writer is healthy, otherwise     *)
(* queued, its stakes reserved and the memory state replaced, in one step. *)
(* The three are threaded through as one record.                           *)

Here == [room |-> room, queue |-> queue, reserved |-> reserved]

Healthy(c) == ~failing /\ Len(c.queue) < Capacity

\* Mutant: only the newest stake is held.
SicboAcceptedNewest(r, s) ==
  [revision |-> s.revision, stakes |-> [u \in Users |-> OpenStake(s, u)]]

\* Until its snapshot commits, the larger of the old and new stake is held.
SicboAccepted(r, s) ==
  [revision |-> s.revision,
   stakes |-> [u \in Users |-> Max({r.stakes[u], OpenStake(s, u)})]]

NoStakes == [revision |-> 0, stakes |-> [u \in Users |-> 0]]

\* A commit older than the newest accepted snapshot releases nothing.
SicboCommit(r, s) ==
  IF r.revision > s.revision THEN r
  ELSE IF \A u \in Users : OpenStake(s, u) = 0 THEN NoStakes
  ELSE [revision |-> s.revision, stakes |-> [u \in Users |-> OpenStake(s, u)]]

Accept(c, next, settles) ==
  IF ~Healthy(c) THEN c
  ELSE LET s == [next EXCEPT !.revision = c.room.revision + 1]
       IN [room |-> s,
           queue |-> Append(c.queue, [state |-> s, settles |-> settles]),
           reserved |-> SicboAccepted(c.reserved, s)]

\* Every seated player holds a wager: the round is due now.
DealWhenAllBet(c) ==
  IF c.room.result \/ Bettors(c.room) # Users THEN c
  ELSE Accept(c, SettleRound(c.room), TRUE)

Tick(c) ==
  IF Due(c.room) THEN Accept(c, SettleRound(c.room), TRUE)
  ELSE IF CanAdvance(c.room) THEN Accept(c, NewRound(opened + 1, 0), FALSE)
  ELSE c

SettleUnwatched(c) ==
  IF Due(c.room) THEN Accept(c, SettleRound(c.room), TRUE) ELSE c

\* The memory state becomes c's; clients see it at once.
Become(c) ==
  /\ room' = c.room /\ queue' = c.queue /\ reserved' = c.reserved
  /\ opened' = Max({opened, c.room.round})
  /\ shown' = IF c.room.result THEN shown \cup {c.room.round} ELSE shown

Init ==
  /\ now = 0 /\ life = 1 /\ opened = 1
  /\ dice \in [1 .. MaxRounds -> Outcomes]
  /\ room = NewRound(1, 1) /\ queue = <<>> /\ reserved = NoStakes
  /\ failing = FALSE /\ saved = 1 /\ holder = Nobody
  /\ client = [u \in Users |-> [pc |-> "idle"]]
  /\ db = room /\ wallet = [u \in Users |-> Balance]
  /\ ledger = [r \in 1 .. MaxRounds |-> [u \in Users |-> <<>>]]
  /\ acked = [u \in Users |-> [round |-> 0]]
  /\ shown = {}

-----------------------------------------------------------------------------
(* The dealer loop (settle_due) and a state poll (room_state).             *)

DealerPass ==
  /\ holder = Nobody
  /\ LET c == DealWhenAllBet(Here)
     IN \/ Become(Tick(c))             \* some seat is watching
        \/ Become(SettleUnwatched(c))  \* nobody is: open no new round
  /\ core' # core
  /\ UNCHANGED <<fixed, failing, saved, holder, client, storage, acked>>

Poll ==
  /\ holder = Nobody
  /\ Become(Tick(Here))
  /\ core' # core
  /\ UNCHANGED <<fixed, failing, saved, holder, client, storage, acked>>

-----------------------------------------------------------------------------
(* place_bet.  The request names the round, its commitment and the bet     *)
(* revision the player saw; NoBet cancels.                                 *)

SetClient(u, c) == client' = [client EXCEPT ![u] = c]

Finished(u) ==
  /\ SetClient(u, [pc |-> "idle"])
  /\ UNCHANGED <<fixed, opened, core, failing, saved, holder, storage, acked,
                 shown>>

BetRequest(u) ==
  /\ client[u].pc = "idle" /\ holder = Nobody
  /\ room.betRevisions[u] < MaxBets
  /\ \E w \in Wagers \cup {NoBet} :
       SetClient(u, [pc |-> "waiting", round |-> room.round, wager |-> w,
                     seen |-> room.betRevisions[u], target |-> room.revision])
  /\ UNCHANGED <<fixed, opened, core, failing, saved, holder, storage, acked,
                 shown>>

\* Mutant: the request does not wait for the round's commitment.
BetBeforeDurable(u) ==
  /\ client[u].pc = "waiting"
  /\ SetClient(u, [client[u] EXCEPT !.pc = "ready"])
  /\ UNCHANGED <<fixed, opened, core, failing, saved, holder, storage, acked,
                 shown>>

\* The round's commitment, and everything before, is durable.
BetDurable(u) ==
  /\ client[u].pc = "waiting" /\ saved >= client[u].target
  /\ SetClient(u, [client[u] EXCEPT !.pc = "ready"])
  /\ UNCHANGED <<fixed, opened, core, failing, saved, holder, storage, acked,
                 shown>>

BetTimeout(u) == client[u].pc \in {"waiting", "acking"} /\ Finished(u)

\* DealerRoom::bet on the state the lock now protects.
SameRound(u) == client[u].round = room.round

Unchanged(u) == room.bets[u] = client[u].wager

Admissible(u) ==
  /\ BettingOpen(room)
  /\ client[u].seen = room.betRevisions[u]
  /\ client[u].wager.stake <= wallet[u]
  /\ Healthy(Here)

WithBet(u) ==
  [room EXCEPT !.bets = [room.bets EXCEPT ![u] = client[u].wager],
               !.betRevisions = [room.betRevisions EXCEPT ![u] = @ + 1],
               !.revision = room.revision + 1]

BetRefused(u) ==
  /\ client[u].pc = "ready" /\ holder = Nobody
  /\ ~SameRound(u) \/ (~Unchanged(u) /\ ~Admissible(u))
  /\ Finished(u)

\* Under the room lock and the wallet row lock: the new stake is reserved
\* before the transaction that read the balance ends.
BetReserve(u) ==
  /\ client[u].pc = "ready" /\ holder = Nobody
  /\ SameRound(u) /\ (Unchanged(u) \/ Admissible(u))
  /\ reserved' = IF Unchanged(u) THEN reserved
                 ELSE SicboAccepted(reserved, WithBet(u))
  /\ holder' = u
  /\ SetClient(u, [client[u] EXCEPT !.pc = "committing"])
  /\ UNCHANGED <<fixed, opened, room, queue, failing, saved, storage, acked,
                 shown>>

\* The transaction ends and the wager is accepted, perhaps dealing the round.
BetAccept(u) ==
  /\ client[u].pc = "committing"
  /\ LET c == IF Unchanged(u) THEN Here ELSE Accept(Here, WithBet(u), FALSE)
     IN /\ Unchanged(u) \/ Healthy(Here)
        /\ Become(DealWhenAllBet(c))
        /\ SetClient(u, [pc |-> "acking", round |-> room.round,
                         wager |-> client[u].wager, target |-> c.room.revision])
  /\ acked' = IF Unchanged(u) THEN acked ELSE [acked EXCEPT ![u] = [round |-> 0]]
  /\ holder' = Nobody
  /\ UNCHANGED <<fixed, failing, saved, storage>>

\* The transaction fails, or the writer meanwhile refuses: nothing accepted.
BetLost(u) ==
  /\ client[u].pc = "committing"
  /\ SetClient(u, [pc |-> "idle"])
  /\ holder' = Nobody
  /\ UNCHANGED <<fixed, opened, core, failing, saved, storage, acked, shown>>

\* Mutant: the wager is acknowledged as soon as it is accepted.
BetAckBeforeDurable(u) ==
  /\ client[u].pc = "acking"
  /\ SetClient(u, [pc |-> "idle"])
  /\ acked' = [acked EXCEPT ![u] = IF client[u].wager = NoBet THEN [round |-> 0]
                ELSE [round |-> client[u].round, wager |-> client[u].wager]]
  /\ UNCHANGED <<fixed, opened, core, failing, saved, holder, storage, shown>>

BetAck(u) ==
  /\ client[u].pc = "acking" /\ saved >= client[u].target
  /\ SetClient(u, [pc |-> "idle"])
  /\ acked' = [acked EXCEPT ![u] = IF client[u].wager = NoBet THEN [round |-> 0]
                ELSE [round |-> client[u].round, wager |-> client[u].wager]]
  /\ UNCHANGED <<fixed, opened, core, failing, saved, holder, storage, shown>>

-----------------------------------------------------------------------------
(* Another game's debit of the same wallet, and the writer.                *)

RowLocked(u) == client[u].pc = "committing"

\* available_on under the wallet row lock: balance less reserved stakes.
Spend(u) ==
  /\ ~RowLocked(u)
  /\ \E amount \in Stakes :
       /\ amount <= wallet[u] - reserved.stakes[u]
       /\ wallet' = [wallet EXCEPT ![u] = @ - amount]
  /\ UNCHANGED <<fixed, opened, core, failing, saved, holder, client, db,
                 ledger, acked, shown>>

\* persist_round skips a bettor whose receipt for the round already exists.
Owed(s) == {u \in Bettors(s) : ledger[s.round][u] = <<>>}

Payout(s, u) == Delta(s.bets[u], dice[s.round])

Written(snapshot) == db.revision >= snapshot.state.revision

\* The transaction takes the bettors' wallet rows, and a balance that would
\* go negative fails its CHECK constraint.
CanCommit(snapshot) ==
  snapshot.settles =>
    \A u \in Owed(snapshot.state) :
      ~RowLocked(u) /\ wallet[u] + Payout(snapshot.state, u) >= 0

\* Mutant: neither the stored revision nor the receipts are consulted.
PersistAgain(snapshot) ==
  LET s == snapshot.state
      paid == IF snapshot.settles THEN Bettors(s) ELSE {}
  IN /\ CanCommit(snapshot)
     /\ db' = s
     /\ wallet' = [u \in Users |->
          IF u \in paid THEN wallet[u] + Payout(s, u) ELSE wallet[u]]
     /\ ledger' = [ledger EXCEPT ![s.round] = [u \in Users |->
          IF u \in paid THEN Append(@[u], s.bets[u]) ELSE @[u]]]

Persist(snapshot) ==
  IF Written(snapshot) THEN UNCHANGED storage
  ELSE LET s == snapshot.state
           paid == IF snapshot.settles THEN Owed(s) ELSE {}
       IN /\ CanCommit(snapshot)
          /\ db' = s
          /\ wallet' = [u \in Users |->
               IF u \in paid THEN wallet[u] + Payout(s, u) ELSE wallet[u]]
          /\ ledger' = [ledger EXCEPT ![s.round] = [u \in Users |->
               IF u \in paid THEN Append(@[u], s.bets[u]) ELSE @[u]]]

PersistOk ==
  /\ queue # <<>>
  /\ Persist(Head(queue))
  /\ queue' = Tail(queue) /\ saved' = Head(queue).state.revision
  /\ failing' = FALSE
  /\ reserved' = SicboCommit(reserved, Head(queue).state)
  /\ UNCHANGED <<fixed, opened, room, holder, client, acked, shown>>

PersistLostAck ==
  /\ queue # <<>>
  /\ Persist(Head(queue))
  /\ failing' = TRUE
  /\ UNCHANGED <<fixed, opened, core, saved, holder, client, acked, shown>>

PersistError ==
  /\ queue # <<>>
  /\ failing' = TRUE
  /\ UNCHANGED <<fixed, opened, core, saved, holder, client, storage, acked,
                 shown>>

-----------------------------------------------------------------------------
\* Mutant: the new process starts without reservations.
RestoredNothing == NoStakes

\* hydrate reads the stakes of the stored open round back into memory.
RestoredStakes == SicboCommit(NoStakes, db)

\* A new process recovers the room and the reservations from their rows.
Restart ==
  /\ life < MaxLives
  /\ life' = life + 1
  /\ room' = db /\ queue' = <<>> /\ reserved' = RestoredStakes
  /\ failing' = FALSE /\ saved' = db.revision /\ holder' = Nobody
  /\ client' = [u \in Users |-> [pc |-> "idle"]]
  /\ shown' = {}
  /\ UNCHANGED <<now, dice, opened, storage, acked>>

TimePasses ==
  /\ now < MaxTime
  /\ now' = now + 1
  /\ UNCHANGED <<life, dice, opened, core, failing, saved, holder, client,
                 storage, acked, shown>>

PlaceBet(u) ==
  \/ BetRequest(u) \/ BetDurable(u) \/ BetTimeout(u) \/ BetRefused(u)
  \/ BetReserve(u) \/ BetAccept(u) \/ BetLost(u) \/ BetAck(u)

Next ==
  \/ DealerPass \/ Poll
  \/ \E u \in Users : PlaceBet(u) \/ Spend(u)
  \/ PersistOk \/ PersistLostAck \/ PersistError
  \/ Restart \/ TimePasses

Spec == Init /\ [][Next]_vars

\* The dealer loop passes every second and the room lock is a FIFO lock, so the
\* loop is not starved of it; the writer retries until storage takes the write,
\* and a request that holds the lock finishes.
FairSpec ==
  /\ Spec
  /\ WF_vars(TimePasses) /\ SF_vars(DealerPass)
  /\ SF_vars(PersistOk)
  /\ \A u \in Users : WF_vars(BetAccept(u) \/ BetLost(u))

-----------------------------------------------------------------------------
TypeOK ==
  /\ now \in 0 .. MaxTime /\ life \in 1 .. MaxLives
  /\ room.revision = saved + Len(queue)
  /\ \A i \in DOMAIN queue : queue[i].state.revision = saved + i
  /\ db.revision \in {saved, saved + 1}
  /\ \A u \in Users : wallet[u] \in Nat /\ reserved.stakes[u] \in Nat

Settled(u, round, wager) == ledger[round][u] = <<wager>>

\* A wager whose HTTP request was acknowledged, and that the player has not
\* changed since, is in storage on its open round or has its receipt, whatever
\* was queued, lost or restarted meanwhile.
AckedWagerSurvives ==
  \A u \in Users :
    acked[u].round > 0 =>
      \/ db.round = acked[u].round /\ ~db.result /\ db.bets[u] = acked[u].wager
      \/ Settled(u, acked[u].round, acked[u].wager)

\* A round pays a player at most once, however often its commit is retried.
PaidOnce == \A r \in 1 .. MaxRounds, u \in Users : Len(ledger[r][u]) <= 1

\* What a player may still lose here: the wager storage would recover, the
\* wager in memory, and a settled round the writer has not committed.
Liability(u) ==
  Max({OpenStake(db, u), OpenStake(room, u)}
      \cup {IF Written(queue[i]) \/ Payout(queue[i].state, u) >= 0 THEN 0
            ELSE queue[i].state.bets[u].stake :
              i \in {j \in DOMAIN queue : queue[j].settles
                                          /\ u \in Bettors(queue[j].state)}})

\* Debits made by other games never eat into a stake at risk in the room: the
\* settlement that is coming cannot overdraw the wallet, which would fail its
\* CHECK constraint on every retry and wedge the room's writer.
StakesCovered == \A u \in Users : wallet[u] >= Liability(u)

\* A wager changes only on a round whose commitment storage already holds, so
\* that no restart replaces the seed it was placed on, and, within one process,
\* whose dice were not shown.
WagersInWindow ==
  [][room'.round = room.round /\ room'.bets # room.bets =>
       life' # life \/ (db.round >= room.round /\ room.round \notin shown)]_vars

\* Every acknowledged wager is eventually paid out or taken back by its player.
AckedWagerSettles ==
  \A u \in Users : \A r \in 1 .. MaxRounds :
    (acked[u].round = r) ~>
      (acked[u].round # r \/ Settled(u, r, acked[u].wager))

=============================================================================
