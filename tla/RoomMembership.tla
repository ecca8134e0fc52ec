-------------------------- MODULE RoomMembership ---------------------------
(***************************************************************************)
(* Who sits at a dealer room, and how a room is opened, left, reconciled,  *)
(* closed and recovered (casino_room.rs and casino_room_lifecycle.rs, the  *)
(* lifecycle of the sic bo rooms).                                         *)
(*                                                                         *)
(* A seat exists five times: in the registry's seat index, in the room's   *)
(* member map, as an active wallet, as a membership row and, through the   *)
(* room's own row, as a room that still exists.  A player's membership     *)
(* lock serialises that player's operations, a room's lock serialises the  *)
(* steps under it, and SQL sits between two lock holds.                    *)
(***************************************************************************)
EXTENDS Naturals, FiniteSets

CONSTANTS
  Users, Codes,
  Rooms,        \* room incarnations: each is opened once, with fresh ids
  MaxMembers,   \* MAX_MEMBERS
  MaxRounds,    \* bound on the rounds a room opens
  MaxRequests,  \* bound on create, join, leave and wager requests
  MaxFaults,    \* bound on lost acknowledgements, failures, crashes, purges
  None

(* The dealer state a room's row stores: the open round and its wagers. *)
Tables == [round : Nat, settled : BOOLEAN, bets : SUBSET Users]

(* A row of game_room_checkpoints: the incarnation and its dealer state. *)
Rows == [room : Rooms, table : Tables]

ASSUME MembershipAssumption ==
  /\ IsFiniteSet(Users) /\ IsFiniteSet(Rooms)
  /\ {MaxMembers, MaxRounds, MaxRequests, MaxFaults} \subseteq Nat
  /\ None \notin Codes \cup Rooms \cup Rows

VARIABLES
  rooms,     \* Registry.rooms: code -> room, or None
  seats,     \* Registry.seats: user -> code, or None
  room,      \* incarnation -> its code, flags, member map and dealer state
  wallet,    \* user -> the code its wallet is active for, or None
  op,        \* user -> the holder of its membership lock
  closing,   \* incarnation -> its close worker
  row,       \* game_room_checkpoints: code -> incarnation and state, or None
  member,    \* game_room_checkpoint_members: user -> code, or None
  purged,    \* users whose account was deleted
  requests, faults

memory  == <<rooms, seats, room, wallet, op, closing>>
storage == <<row, member, purged>>
vars    == <<memory, storage, requests, faults>>

(* A member's state: Member.joining, Member.leaving, or neither. *)
Standing == {"out", "joining", "seated", "leaving"}

FreshTable == [round |-> 0, settled |-> FALSE, bets |-> {}]

NoRoom ==
  [code |-> None, closed |-> FALSE, published |-> FALSE,
   standing |-> [u \in Users |-> "out"], table |-> FreshTable]

NoClosing ==
  [pc |-> "none", requireEmpty |-> FALSE, members |-> {}, round |-> 0]

Free == [pc |-> "free", code |-> None, room |-> None, out |-> "none"]

Init ==
  /\ rooms = [c \in Codes |-> None]
  /\ seats = [u \in Users |-> None]
  /\ room = [r \in Rooms |-> NoRoom]
  /\ wallet = [u \in Users |-> None]
  /\ op = [u \in Users |-> Free]
  /\ closing = [r \in Rooms |-> NoClosing]
  /\ row = [c \in Codes |-> None]
  /\ member = [u \in Users |-> None]
  /\ purged = {}
  /\ requests = 0 /\ faults = 0

----------------------------------------------------------------------------
(* Helpers. *)

(* The room a request, the dealer or the sweep finds under its code. *)
Registered(r) == room[r].code # None /\ rooms[room[r].code] = r

Members(x) == {u \in Users : x.standing[u] # "out"}
Seated(x)  == {u \in Users : x.standing[u] = "seated"}

OpenBets(x)  == ~x.table.settled /\ x.table.bets # {}
BetPending(x, u) == ~x.table.settled /\ u \in x.table.bets

SetStanding(x, u, s) == [x EXCEPT !.standing[u] = s]

(* release_seat: only if the index still names this room's code. *)
ReleaseSeats(us, c) ==
  [u \in Users |-> IF u \in us /\ seats[u] = c THEN None ELSE seats[u]]

(* wallet::activate: a wallet that is active for a room stays with it. *)
ActivateWallets(us, c) ==
  [u \in Users |-> IF u \in us /\ wallet[u] = None THEN c ELSE wallet[u]]

(* wallet::retire, for the session of this room. *)
RetireWallets(us, c) ==
  [u \in Users |-> IF u \in us /\ wallet[u] = c THEN None ELSE wallet[u]]

Settle(t) == [t EXCEPT !.settled = TRUE]

(* tick, whatever the clocks say: a due round settles, a settled one makes *)
(* way for the next unless the session has run out.                        *)
Ticked(t) ==
  IF ~t.settled THEN {t, Settle(t)}
  ELSE {t} \cup {[FreshTable EXCEPT !.round = n] : n \in {t.round + 1} \cap 1..MaxRounds}

(* deal_when_all_bet: every seated player holds a wager. *)
DealWhenAllBet(x) ==
  IF ~x.closed /\ ~x.table.settled /\ Seated(x) # {} /\ Seated(x) \subseteq x.table.bets
  THEN [x EXCEPT !.table = Settle(x.table)]
  ELSE x

(* empty_and_closed *)
EmptyAndClosed(x) ==
  IF Members(x) = {} /\ ~OpenBets(x) THEN [x EXCEPT !.closed = TRUE] ELSE x

(* Everything the room's writer accepted is stored; a write to a room row  *)
(* that is gone is complete.                                               *)
Flushed(r) ==
  LET stored == row[room[r].code]
  IN  IF stored = None THEN TRUE
      ELSE stored.room = r => stored.table = room[r].table

Fault == faults < MaxFaults /\ faults' = faults + 1

(* A membership request takes its player's lock (membership). *)
Request(u) ==
  /\ op[u].pc = "free"
  /\ requests < MaxRequests
  /\ requests' = requests + 1

(* What the request learns of its transaction. *)
Answered(u, pc, out) == op' = [op EXCEPT ![u] = [op[u] EXCEPT !.pc = pc, !.out = out]]

(* A COMMIT of `effect': acknowledged; failed before it was sent; or its   *)
(* acknowledgement is lost, and it landed or did not.                      *)
Commit(u, pc, effect, unchanged) ==
  \/ effect /\ Answered(u, pc, "done") /\ UNCHANGED faults
  \/ Fault /\ unchanged /\ Answered(u, pc, "refused")
  \/ Fault /\ (effect \/ unchanged) /\ Answered(u, pc, "unknown")

(* The transaction itself refuses: nothing is written. *)
Refused(u, pc) == Answered(u, pc, "refused") /\ UNCHANGED <<storage, faults>>

(* What a request knows of its admission after the commit.  An unknown one *)
(* asks for the row (member_row), which may not answer, and then for the   *)
(* wallet, which may not load: the seat is then only reserved.             *)
Verdicts(u) ==
  IF op[u].out = "done" THEN {"seated"}
  ELSE IF op[u].out = "refused" THEN {"refused"}
  ELSE IF member[u] = op[u].code THEN {"seated", "reserved"}
  ELSE {"refused", "reserved"}

----------------------------------------------------------------------------
(* Create: open_room_now. *)

(* room_code::allocate and its claim, which a closing room keeps. *)
Allocatable(c) ==
  /\ row[c] = None /\ rooms[c] = None
  /\ \A u \in Users : op[u].pc \in {"creating", "created"} => op[u].code # c
  /\ \A r \in Rooms : closing[r].pc # "none" => room[r].code # c

OpenRoom(u, c, r) ==
  /\ Request(u)
  /\ seats[u] = None
  /\ Allocatable(c)
  /\ room[r].code = None /\ \A v \in Users : op[v].room # r
  /\ \A k \in Codes : row[k] # None => row[k].room # r
  /\ op' = [op EXCEPT ![u] = [pc |-> "creating", code |-> c, room |-> r, out |-> "none"]]
  /\ UNCHANGED <<rooms, seats, room, wallet, closing, storage, faults>>

(* The room row and its first member, in one transaction. *)
OpenCommit(u) ==
  /\ op[u].pc = "creating"
  /\ IF u \in purged \/ member[u] # None
     THEN Refused(u, "created")
     ELSE Commit(u, "created",
            /\ row' = [row EXCEPT ![op[u].code] = [room |-> op[u].room, table |-> FreshTable]]
            /\ member' = [member EXCEPT ![u] = op[u].code]
            /\ UNCHANGED purged,
            UNCHANGED storage)
  /\ UNCHANGED <<rooms, seats, room, wallet, closing, requests>>

OpenInstall(u) ==
  LET c == op[u].code
      r == op[u].room
  IN
  /\ op[u].pc = "created"
  /\ \E verdict \in Verdicts(u) :
       IF verdict = "refused"
       THEN UNCHANGED <<rooms, seats, room, wallet>>
       ELSE /\ room' = [room EXCEPT ![r] =
                          [code |-> c, closed |-> FALSE, published |-> verdict = "seated",
                           standing |-> [v \in Users |->
                             IF v # u THEN "out"
                             ELSE IF verdict = "seated" THEN "seated" ELSE "joining"],
                           table |-> FreshTable]]
            /\ rooms' = [rooms EXCEPT ![c] = r]
            /\ seats' = [seats EXCEPT ![u] = c]
            /\ wallet' = IF verdict = "seated" THEN ActivateWallets({u}, c) ELSE wallet
  /\ op' = [op EXCEPT ![u] = Free]
  /\ UNCHANGED <<closing, storage, requests, faults>>

----------------------------------------------------------------------------
(* Join: join_room_now. *)

(* The handle is taken before the player's wallet is read. *)
JoinLookup(u, c) ==
  /\ Request(u)
  /\ rooms[c] # None
  /\ op' = [op EXCEPT ![u] = [pc |-> "looked", code |-> c, room |-> rooms[c], out |-> "none"]]
  /\ UNCHANGED <<rooms, seats, room, wallet, closing, storage, faults>>

\* Mutant: a join through a stale handle ignores the fence.
MayAdmitStale(u, r) ==
  /\ seats[u] = None
  /\ Cardinality(Members(room[r])) < MaxMembers

(* Seated already, in another room, closed or full: the join returns. *)
MayAdmit(u, r) ==
  /\ seats[u] = None
  /\ ~room[r].closed
  /\ Cardinality(Members(room[r])) < MaxMembers

JoinAdmit(u) ==
  LET r == op[u].room
  IN
  /\ op[u].pc = "looked"
  /\ IF MayAdmit(u, r)
     THEN /\ room' = [room EXCEPT ![r] = SetStanding(room[r], u, "joining")]
          /\ seats' = [seats EXCEPT ![u] = op[u].code]
          /\ op' = [op EXCEPT ![u].pc = "admitting"]
     ELSE /\ op' = [op EXCEPT ![u] = Free]
          /\ UNCHANGED <<room, seats>>
  /\ UNCHANGED <<rooms, wallet, closing, storage, requests, faults>>

(* The room's row is share-locked; a gone room or another seat refuses. *)
JoinCommit(u) ==
  /\ op[u].pc = "admitting"
  /\ IF u \in purged \/ row[op[u].code] = None \/ member[u] # None
     THEN Refused(u, "admitted")
     ELSE Commit(u, "admitted",
            /\ member' = [member EXCEPT ![u] = op[u].code]
            /\ UNCHANGED <<row, purged>>,
            UNCHANGED storage)
  /\ UNCHANGED <<rooms, seats, room, wallet, closing, requests>>

JoinFinish(u) ==
  LET c == op[u].code
      r == op[u].room
  IN
  /\ op[u].pc = "admitted"
  /\ \E verdict \in Verdicts(u) :
       \/ /\ verdict = "seated"
          /\ wallet' = ActivateWallets({u}, c)
          /\ room' = IF u \in Members(room[r])
                     THEN [room EXCEPT ![r] = SetStanding(room[r], u, "seated")] ELSE room
          /\ UNCHANGED seats
       \/ verdict = "reserved" /\ UNCHANGED <<wallet, room, seats>>
       \/ /\ verdict = "refused"
          /\ room' = [room EXCEPT ![r] = SetStanding(room[r], u, "out")]
          /\ seats' = ReleaseSeats({u}, c)
          /\ UNCHANGED wallet
  /\ op' = [op EXCEPT ![u] = Free]
  /\ UNCHANGED <<rooms, closing, storage, requests, faults>>

----------------------------------------------------------------------------
(* Leave: leave_room_now. *)

(* drop_room: an empty, closed room gets its close worker. *)
DropRoom(r, x) ==
  IF x.closed
  THEN [closing EXCEPT ![r] = [pc |-> "deleting", requireEmpty |-> TRUE,
                               members |-> {}, round |-> x.table.round]]
  ELSE closing

(* Under the room's lock: tick, refuse an open wager, block new ones. *)
LeaveBegin(u) ==
  LET c == seats[u]
      r == rooms[c]
  IN
  /\ Request(u)
  /\ c # None
  /\ IF r = None
     THEN /\ seats' = ReleaseSeats({u}, c)
          /\ UNCHANGED <<room, op>>
     ELSE \E t \in Ticked(room[r].table) :
            LET x == [room[r] EXCEPT !.table = t]
            IN  \/ /\ BetPending(x, u) \/ x.standing[u] \in {"joining", "leaving"}
                   /\ room' = [room EXCEPT ![r] = x]
                   /\ UNCHANGED <<seats, op>>
                \/ /\ ~BetPending(x, u) /\ x.standing[u] = "out"
                   /\ room' = [room EXCEPT ![r] = x]
                   /\ seats' = ReleaseSeats({u}, c)
                   /\ UNCHANGED op
                \/ /\ ~BetPending(x, u) /\ x.standing[u] = "seated"
                   /\ room' = [room EXCEPT ![r] = SetStanding(x, u, "leaving")]
                   /\ op' = [op EXCEPT ![u] =
                               [pc |-> "leaving", code |-> c, room |-> r, out |-> "none"]]
                   /\ UNCHANGED seats
  /\ UNCHANGED <<rooms, wallet, closing, storage, faults>>

(* The row is deleted once every settlement the wallet saw is stored. *)
LeaveDelete(u) ==
  /\ op[u].pc = "leaving"
  /\ Flushed(op[u].room)
  /\ Commit(u, "left",
       /\ member' = [member EXCEPT ![u] = IF @ = op[u].code THEN None ELSE @]
       /\ UNCHANGED <<row, purged>>,
       UNCHANGED storage)
  /\ UNCHANGED <<rooms, seats, room, wallet, closing, requests>>

(* Gone; certainly still seated; or maybe gone, which the sweep settles. *)
LeaveVerdicts(u) ==
  IF op[u].out = "done" THEN {"gone"}
  ELSE IF op[u].out = "refused" THEN {"seated"}
  ELSE {IF member[u] = op[u].code THEN "seated" ELSE "gone", "maybe"}

LeaveFinish(u) ==
  LET c == op[u].code
      r == op[u].room
  IN
  /\ op[u].pc = "left"
  /\ \E verdict \in LeaveVerdicts(u) :
       \/ /\ verdict = "gone"
          /\ LET x == EmptyAndClosed(DealWhenAllBet(SetStanding(room[r], u, "out")))
             IN  /\ room' = [room EXCEPT ![r] = x]
                 /\ closing' = DropRoom(r, x)
          /\ wallet' = RetireWallets({u}, c)
          /\ seats' = ReleaseSeats({u}, c)
       \/ /\ verdict = "seated"
          /\ room' = IF u \in Members(room[r])
                     THEN [room EXCEPT ![r] = SetStanding(room[r], u, "seated")] ELSE room
          /\ UNCHANGED <<wallet, seats, closing>>
       \/ verdict = "maybe" /\ UNCHANGED <<room, wallet, seats, closing>>
  /\ op' = [op EXCEPT ![u] = Free]
  /\ UNCHANGED <<rooms, storage, requests, faults>>

----------------------------------------------------------------------------
(* The table, as far as seats depend on it. *)

(* place_bet: a wager, or its cancellation, by a seated player. *)
MayWager(u, r) ==
  /\ ~room[r].closed
  /\ room[r].standing[u] = "seated"
  /\ ~room[r].table.settled

PlaceBet(u, c) ==
  LET r == rooms[c]
  IN
  /\ r # None /\ requests < MaxRequests /\ MayWager(u, r)
  /\ \E bets \in {room[r].table.bets \cup {u}, room[r].table.bets \ {u}} :
       room' = [room EXCEPT ![r] = DealWhenAllBet([room[r] EXCEPT !.table.bets = bets])]
  /\ requests' = requests + 1
  /\ UNCHANGED <<rooms, seats, wallet, op, closing, storage, faults>>

(* settle_due and the tick of a player's state request: never once closed. *)
Deal(r) ==
  /\ Registered(r) /\ ~room[r].closed
  /\ LET x == DealWhenAllBet(room[r])
     IN  \E t \in Ticked(x.table) : room' = [room EXCEPT ![r] = [x EXCEPT !.table = t]]
  /\ room' # room
  /\ UNCHANGED <<rooms, seats, wallet, op, closing, storage, requests, faults>>

(* persist: the ordered writer reaches the accepted state. *)
Persist(r) ==
  LET c == room[r].code
  IN
  /\ Registered(r) /\ ~Flushed(r)
  /\ row' = [row EXCEPT ![c].table = room[r].table]
  /\ UNCHANGED <<memory, member, purged, requests, faults>>

----------------------------------------------------------------------------
(* sweep, for one room, with the room's lock held across the read. *)

\* Mutant: the sweep also settles members whose operation is in flight.
ReconcilableInFlight(r) ==
  {u \in Users : room[r].standing[u] \in {"joining", "leaving"}}

(* The unsettled members whose membership lock the sweep could take. *)
Reconcilable(r) ==
  {u \in Users : room[r].standing[u] \in {"joining", "leaving"} /\ op[u].pc = "free"}

Sweep(r) ==
  LET x       == room[r]
      c       == x.code
      held    == Reconcilable(r)
      present == {u \in Users : member[u] = c}
      finish  == {u \in held \cap present : x.standing[u] = "joining"}
      stay    == {u \in held \cap present : x.standing[u] = "leaving"}
  IN
  /\ Registered(r) /\ ~x.closed
  /\ \E idle \in BOOLEAN :
       LET gone == (held \ present) \cup (IF idle THEN Seated(x) \ present ELSE {})
       IN
       /\ held # {} \/ gone # {}
       /\ \/ \* every wallet loads
             LET y == [x EXCEPT !.standing = [u \in Users |->
                         IF u \in gone THEN "out"
                         ELSE IF u \in finish \cup stay THEN "seated" ELSE x.standing[u]]]
                 z == EmptyAndClosed(
                        [y EXCEPT !.published = y.published
                                    \/ (Members(y) # {} /\ Members(y) = Seated(y))])
             IN  /\ room' = [room EXCEPT ![r] = z]
                 /\ wallet' = [u \in Users |-> IF u \in finish THEN ActivateWallets(finish, c)[u]
                                               ELSE RetireWallets(gone, c)[u]]
                 /\ seats' = ReleaseSeats(gone, c)
                 /\ closing' = DropRoom(r, z)
                 /\ UNCHANGED faults
          \/ \* one does not: the pass ends where it is
             /\ Fault
             /\ \E done \in SUBSET finish :
                  /\ done # finish
                  /\ room' = [room EXCEPT ![r].standing = [u \in Users |->
                                IF u \in done \cup stay THEN "seated" ELSE x.standing[u]]]
                  /\ wallet' = ActivateWallets(done, c)
             /\ UNCHANGED <<seats, closing>>
  /\ UNCHANGED <<rooms, op, storage, requests>>

----------------------------------------------------------------------------
(* Closing: begin_close and finish_close. *)

\* Mutant: an expired session closes over an open wager.
DueMidRound(x) == TRUE

(* IdleWatch: the session expired and its result has shown, or nobody did  *)
(* anything for ten minutes; never with a wager open.                      *)
Due(x) == ~OpenBets(x)

(* Every member's lock is taken, or the close waits for the next pass. *)
Closable(r) ==
  /\ ~room[r].closed
  /\ Due(room[r])
  /\ \A u \in Members(room[r]) : op[u].pc = "free" /\ room[r].standing[u] = "seated"

BeginClose(r) ==
  /\ Registered(r)
  /\ Closable(r)
  /\ room' = [room EXCEPT ![r].closed = TRUE]
  /\ closing' = [closing EXCEPT ![r] =
                   [pc |-> "deleting", requireEmpty |-> FALSE,
                    members |-> Members(room[r]), round |-> room[r].table.round]]
  /\ op' = [u \in Users |-> IF u \in Members(room[r]) THEN [Free EXCEPT !.pc = "held"] ELSE op[u]]
  /\ UNCHANGED <<rooms, seats, wallet, storage, requests, faults>>

\* Mutant: every close insists on an empty room.
OwnRowEmpty(r) ==
  LET stored == row[room[r].code]
  IN  /\ stored # None /\ stored.room = r /\ stored.table.round = closing[r].round
      /\ \A u \in Users : member[u] # room[r].code

(* The row this worker may delete: its own room's, at the round it fenced. *)
OwnRow(r) ==
  LET stored == row[room[r].code]
  IN  /\ stored # None /\ stored.room = r /\ stored.table.round = closing[r].round
      /\ closing[r].requireEmpty => \A u \in Users : member[u] # room[r].code

(* One attempt.  Anything but these two outcomes is retried. *)
FinishDelete(r) ==
  LET c == room[r].code
  IN
  /\ closing[r].pc = "deleting"
  /\ Flushed(r)
  /\ \/ /\ row[c] = None
        /\ closing' = [closing EXCEPT ![r].pc = "deleted"]
        /\ UNCHANGED <<row, member, faults>>
     \/ /\ OwnRow(r)
        /\ row' = [row EXCEPT ![c] = None]
        /\ member' = [u \in Users |-> IF member[u] = c THEN None ELSE member[u]]
        /\ \/ closing' = [closing EXCEPT ![r].pc = "deleted"] /\ UNCHANGED faults
           \/ Fault /\ UNCHANGED closing
  /\ UNCHANGED <<rooms, seats, room, wallet, op, purged, requests>>

FinishClose(r) ==
  LET c  == room[r].code
      us == closing[r].members
  IN
  /\ closing[r].pc = "deleted"
  /\ rooms' = IF rooms[c] = r THEN [rooms EXCEPT ![c] = None] ELSE rooms
  /\ wallet' = RetireWallets(us, c)
  /\ seats' = ReleaseSeats(us, c)
  /\ op' = [u \in Users |-> IF u \in us THEN Free ELSE op[u]]
  /\ room' = [room EXCEPT ![r].standing = [u \in Users |-> "out"]]
  /\ closing' = [closing EXCEPT ![r] = NoClosing]
  /\ UNCHANGED <<storage, requests, faults>>

----------------------------------------------------------------------------
(* A crash, and the recovery of every stored room (recover, install). *)

Recovered(r) ==
  LET cs == {c \in Codes : row[c] # None /\ row[c].room = r}
  IN  IF cs = {} THEN NoRoom
      ELSE LET c == CHOOSE k \in cs : TRUE
           IN  [code |-> c, closed |-> FALSE, published |-> TRUE, table |-> row[c].table,
                standing |-> [u \in Users |-> IF member[u] = c THEN "seated" ELSE "out"]]

Restart ==
  /\ Fault
  /\ room' = [r \in Rooms |-> Recovered(r)]
  /\ rooms' = [c \in Codes |-> IF row[c] = None THEN None ELSE row[c].room]
  /\ seats' = member
  /\ wallet' = member
  /\ op' = [u \in Users |-> Free]
  /\ closing' = [r \in Rooms |-> NoClosing]
  /\ UNCHANGED <<storage, requests>>

(* Deleting an account removes its membership row underneath the room. *)
PurgeAccount(u) ==
  /\ Fault
  /\ u \notin purged
  /\ purged' = purged \cup {u}
  /\ member' = [member EXCEPT ![u] = None]
  /\ UNCHANGED <<memory, row, requests>>

----------------------------------------------------------------------------
UserStep(u) ==
  \/ OpenCommit(u) \/ OpenInstall(u)
  \/ JoinAdmit(u) \/ JoinCommit(u) \/ JoinFinish(u)
  \/ LeaveDelete(u) \/ LeaveFinish(u)

Next ==
  \/ \E u \in Users, c \in Codes, r \in Rooms : OpenRoom(u, c, r)
  \/ \E u \in Users, c \in Codes : JoinLookup(u, c) \/ PlaceBet(u, c)
  \/ \E u \in Users : UserStep(u) \/ LeaveBegin(u) \/ PurgeAccount(u)
  \/ \E r \in Rooms : Sweep(r) \/ BeginClose(r) \/ FinishDelete(r) \/ FinishClose(r)
  \/ \E r \in Rooms : Deal(r) \/ Persist(r)
  \/ Restart

Spec == Init /\ [][Next]_vars

(* A request task runs on, the writer drains, the sweep comes round every  *)
(* minute and a close worker retries until its delete commits.  Faults and *)
(* requests are bounded, so weak fairness is enough: a lock that stays     *)
(* free is found free.                                                     *)
Fairness ==
  /\ \A u \in Users : WF_vars(UserStep(u))
  /\ \A r \in Rooms : /\ WF_vars(Persist(r)) /\ WF_vars(Sweep(r))
                       /\ WF_vars(FinishDelete(r)) /\ WF_vars(FinishClose(r))

FairSpec == Spec /\ Fairness

----------------------------------------------------------------------------
(* Types, and where a holder of a membership lock may be. *)
Phases == {"free", "creating", "created", "looked", "admitting", "admitted",
           "leaving", "left", "held"}

TypeOK ==
  /\ rooms \in [Codes -> Rooms \cup {None}]
  /\ seats \in [Users -> Codes \cup {None}] /\ wallet \in [Users -> Codes \cup {None}]
  /\ room \in [Rooms -> [code : Codes \cup {None}, closed : BOOLEAN, published : BOOLEAN,
                         standing : [Users -> Standing], table : Tables]]
  /\ op \in [Users -> [pc : Phases, code : Codes \cup {None}, room : Rooms \cup {None},
                       out : {"none", "done", "refused", "unknown"}]]
  /\ closing \in [Rooms -> [pc : {"none", "deleting", "deleted"}, requireEmpty : BOOLEAN,
                            members : SUBSET Users, round : Nat]]
  /\ row \in [Codes -> Rows \cup {None}] /\ member \in [Users -> Codes \cup {None}]
  /\ purged \subseteq Users /\ requests \in Nat /\ faults \in Nat

(* A player who may wager in an open room has everything the seat stands   *)
(* for: the seat index, an active wallet, the membership row and the row   *)
(* of this very room.  A join that got in past a close, or a sweep that    *)
(* finished a join from what it read too early, would leave a seat that a  *)
(* restart forgets.                                                        *)
SeatIsBacked ==
  \A c \in Codes : rooms[c] # None /\ ~room[rooms[c]].closed =>
    \A u \in Seated(room[rooms[c]]) :
      /\ seats[u] = c /\ wallet[u] = c
      /\ u \notin purged =>
           member[u] = c /\ row[c] # None /\ row[c].room = rooms[c]

(* No membership row is left behind: between two operations of a player, a *)
(* row names a room that holds the player.  An orphaned row would refuse   *)
(* every later create and join with in_other_room, and an empty room with  *)
(* one could never be deleted.                                             *)
NoOrphanRow ==
  \A u \in Users : member[u] # None /\ op[u].pc = "free" =>
    /\ rooms[member[u]] # None
    /\ u \in Members(room[rooms[member[u]]])

(* A closed room is never dealt again, so it holds no open wager: a player *)
(* who had one would lose the stake with the room.                         *)
ClosedHoldsNoBet == \A r \in Rooms : room[r].closed => ~OpenBets(room[r])

InDoubt(u) ==
  \/ op[u].pc # "free"
  \/ \E c \in Codes : rooms[c] # None /\ room[rooms[c]].standing[u] \in {"joining", "leaving"}

(* Nobody is stuck: every membership lock is given back, every join or     *)
(* leave of unknown outcome is finished or undone, and every room that     *)
(* began to close is gone.                                                 *)
MembershipSettles ==
  /\ \A u \in Users : []<>~InDoubt(u)
  /\ \A r \in Rooms : []<>(closing[r].pc = "none" /\ ~(room[r].closed /\ Registered(r)))
=============================================================================
