----------------------- MODULE RoomMembership_proofs -----------------------
(***************************************************************************)
(* Proofs for RoomMembership: a seat is backed by everything it stands     *)
(* for, no membership row is left behind and a closed room holds no open   *)
(* wager, for every number of players, codes, rooms, requests and faults.  *)
(***************************************************************************)
EXTENDS RoomMembership, FiniteSetTheorems, TLAPS

----------------------------------------------------------------------------
(* The inductive invariant. *)

(* A registered room carries its code, and an open room is registered. *)
RegistryInv ==
  /\ \A c \in Codes : rooms[c] # None => room[rooms[c]].code = c
  /\ \A r \in Rooms : room[r].code # None /\ ~room[r].closed => rooms[room[r].code] = r

(* A stored room is the one registered under its code, and is stored once. *)
StoredInv ==
  /\ \A c \in Codes : row[c] # None /\ rooms[c] # None => row[c].room = rooms[c]
  /\ \A c, d \in Codes : row[c] # None /\ row[d] # None /\ row[c].room = row[d].room => c = d

(* Two creates in flight have different codes and different rooms. *)
Opening(u) == op[u].pc \in {"creating", "created"}

OpeningsApart ==
  \A u, v \in Users : u # v /\ Opening(u) /\ Opening(v) =>
    op[u].code # op[v].code /\ op[u].room # op[v].room

(* A close worker owns a closed, registered room and exactly its members,  *)
(* and has deleted the row before it lets go.                              *)
ClosingInv ==
  \A r \in Rooms : closing[r].pc # "none" =>
    /\ room[r].closed /\ Registered(r)
    /\ \A u \in Users : room[r].standing[u] # "out" <=> u \in closing[r].members
    /\ closing[r].pc = "deleted" => row[room[r].code] = None

(* A member of a room, whatever its standing, is seated there by the index *)
(* (so nobody is a member of two rooms), and a member of a closed room has *)
(* its lock held by the close.                                             *)
SeatInv(u) ==
  \A r \in Rooms : room[r].standing[u] # "out" =>
    /\ Registered(r) /\ seats[u] = room[r].code
    /\ room[r].closed => op[u].pc = "held"

(* A wallet is active exactly for the room its player is fully in. *)
WalletInv(u) ==
  /\ \A r \in Rooms : room[r].standing[u] \in {"seated", "leaving"} => wallet[u] = room[r].code
  /\ wallet[u] # None =>
       /\ rooms[wallet[u]] # None
       /\ room[rooms[wallet[u]]].standing[u] \in {"seated", "leaving"}

(* A membership row belongs to a member of its stored room, or to a create *)
(* that is still to install the room; a seated player has one, unless the  *)
(* account was deleted.                                                    *)
MemberInv(u) ==
  /\ member[u] # None =>
       /\ row[member[u]] # None
       /\ \/ op[u].pc = "created" /\ op[u].code = member[u]
          \/ /\ rooms[member[u]] # None
             /\ room[rooms[member[u]]].standing[u] # "out"
  /\ \A r \in Rooms :
       ~room[r].closed /\ room[r].standing[u] = "seated" /\ u \notin purged =>
         member[u] = room[r].code

(* What the holder of a membership lock may rely on at each of its steps. *)
OpeningInv(u) ==
  Opening(u) =>
    /\ op[u].code \in Codes /\ op[u].room \in Rooms
    /\ seats[u] = None
    /\ rooms[op[u].code] = None /\ room[op[u].room].code = None

CreatingInv(u) ==
  op[u].pc = "creating" =>
    /\ member[u] = None /\ row[op[u].code] = None
    /\ \A c \in Codes : row[c] # None => row[c].room # op[u].room

CreatedInv(u) ==
  op[u].pc = "created" =>
    /\ op[u].out # "none"
    /\ row[op[u].code] # None => row[op[u].code].room = op[u].room
    /\ op[u].out = "done" => (u \notin purged => member[u] = op[u].code)
    /\ op[u].out = "refused" => member[u] = None

JoiningInv(u) ==
  /\ op[u].pc \in {"looked", "admitting", "admitted"} =>
       /\ op[u].code \in Codes /\ op[u].room \in Rooms
       /\ room[op[u].room].code = op[u].code
  /\ op[u].pc \in {"admitting", "admitted"} =>
       room[op[u].room].standing[u] = "joining" /\ ~room[op[u].room].closed
  /\ op[u].pc = "admitting" => member[u] = None
  /\ op[u].pc = "admitted" =>
       /\ op[u].out # "none"
       /\ op[u].out = "done" => (u \notin purged => member[u] = op[u].code)
       /\ op[u].out = "refused" => member[u] = None

LeavingInv(u) ==
  /\ op[u].pc \in {"leaving", "left"} =>
       /\ op[u].code \in Codes /\ op[u].room \in Rooms
       /\ room[op[u].room].code = op[u].code
       /\ room[op[u].room].standing[u] = "leaving" /\ ~room[op[u].room].closed
  /\ op[u].pc = "leaving" => (u \notin purged => member[u] = op[u].code)
  /\ op[u].pc = "left" =>
       /\ op[u].out # "none"
       /\ op[u].out = "done" => member[u] = None
       /\ op[u].out = "refused" => (u \notin purged => member[u] = op[u].code)

PlayerInv(u) ==
  /\ SeatInv(u) /\ WalletInv(u) /\ MemberInv(u)
  /\ OpeningInv(u) /\ CreatingInv(u) /\ CreatedInv(u) /\ JoiningInv(u) /\ LeavingInv(u)

MembershipInv ==
  /\ TypeOK /\ RegistryInv /\ StoredInv /\ OpeningsApart /\ ClosingInv /\ ClosedHoldsNoBet
  /\ \A u \in Users : PlayerInv(u)

----------------------------------------------------------------------------
(* Types, pointwise. *)

(* The states of one room and of a membership lock. *)
RoomStates ==
  [code : Codes \cup {None}, closed : BOOLEAN, published : BOOLEAN,
   standing : [Users -> Standing], table : Tables]

OpStates ==
  [pc : Phases, code : Codes \cup {None}, room : Rooms \cup {None},
   out : {"none", "done", "refused", "unknown"}]

Typed ==
  /\ None \notin Codes /\ None \notin Rooms
  /\ \A c \in Codes : rooms[c] \in Rooms \cup {None}
  /\ \A u \in Users : /\ seats[u] \in Codes \cup {None} /\ wallet[u] \in Codes \cup {None}
                      /\ member[u] \in Codes \cup {None} /\ op[u] \in OpStates
  /\ \A r \in Rooms : /\ room[r] \in RoomStates /\ room[r].code \in Codes \cup {None}
                      /\ \A u \in Users : room[r].standing[u] \in Standing
  /\ \A c \in Codes : row[c] # None => row[c].room \in Rooms

LEMMA TypedFacts == TypeOK => Typed
BY MembershipAssumption DEF TypeOK, Typed, RoomStates, OpStates, Rows

(* What changing one member's standing changes. *)
LEMMA SetStandingFacts ==
  ASSUME NEW x \in RoomStates, NEW u \in Users, NEW s \in Standing,
         NEW y, y = SetStanding(x, u, s)
  PROVE  /\ y \in RoomStates
         /\ y.code = x.code /\ y.closed = x.closed /\ y.table = x.table
         /\ y.standing[u] = s
         /\ \A v \in Users : v # u => y.standing[v] = x.standing[v]
BY DEF SetStanding, RoomStates

(* The initial states. *)
LEMMA InitInv == Init => MembershipInv
<1> SUFFICES ASSUME Init PROVE MembershipInv
  OBVIOUS
<1>1. TypeOK
  BY MembershipAssumption DEF Init, TypeOK, NoRoom, NoClosing, Free, FreshTable, Tables, Standing, Phases
<1>2. RegistryInv /\ StoredInv /\ OpeningsApart
  BY DEF Init, RegistryInv, StoredInv, OpeningsApart, Opening, NoRoom, Free
<1>3. ASSUME NEW u \in Users PROVE PlayerInv(u)
  BY DEF Init, PlayerInv, SeatInv, WalletInv, MemberInv, OpeningInv, Opening, CreatingInv,
         CreatedInv, JoiningInv, LeavingInv, Free, NoRoom
<1>4. ClosingInv /\ ClosedHoldsNoBet
  BY DEF Init, ClosingInv, ClosedHoldsNoBet, NoClosing, NoRoom
<1> QED
  BY <1>1, <1>2, <1>3, <1>4 DEF MembershipInv

----------------------------------------------------------------------------
(* Frames: what a step must leave alone to keep a player's invariant, and  *)
(* to keep the whole of it.                                                *)

Undisturbed(v) ==
  /\ op'[v] = op[v] /\ seats'[v] = seats[v] /\ wallet'[v] = wallet[v] /\ member'[v] = member[v]
  /\ (v \in purged' <=> v \in purged)
  /\ \A q \in Rooms :
       /\ room'[q].standing[v] = room[q].standing[v]
       /\ room[q].code # None => room'[q].code = room[q].code
       /\ room[q].standing[v] # "out" =>
            (room'[q].closed <=> room[q].closed) /\ rooms'[room[q].code] = rooms[room[q].code]
  /\ member[v] # None => row'[member[v]] # None
  /\ Opening(v) =>
       /\ rooms'[op[v].code] = None /\ room'[op[v].room].code = None
       /\ row'[op[v].code] # None =>
            row[op[v].code] # None /\ row'[op[v].code].room = row[op[v].code].room
       /\ \A c \in Codes : row'[c] # None /\ row'[c].room = op[v].room =>
            row[c] # None /\ row[c].room = op[v].room

(* A player that a step does not disturb keeps its invariant. *)
LEMMA PlayerKeeps ==
  ASSUME Typed, RegistryInv, NEW v \in Users, PlayerInv(v), Undisturbed(v)
  PROVE  PlayerInv(v)'
<1>0. /\ SeatInv(v) /\ WalletInv(v) /\ MemberInv(v) /\ OpeningInv(v)
      /\ CreatingInv(v) /\ CreatedInv(v) /\ JoiningInv(v) /\ LeavingInv(v)
  BY DEF PlayerInv
<1>1. SeatInv(v)'
  BY <1>0 DEF SeatInv, Undisturbed, Registered, Typed
<1>2. ASSUME NEW q \in Rooms, room[q].standing[v] # "out"
      PROVE  room'[q].code = room[q].code /\ rooms'[room[q].code] = q
  BY <1>0, <1>2 DEF SeatInv, Undisturbed, Registered
<1>3. ASSUME NEW c \in Codes, rooms[c] # None, room[rooms[c]].standing[v] # "out"
      PROVE  rooms'[c] = rooms[c] /\ room'[rooms[c]].standing[v] = room[rooms[c]].standing[v]
  BY <1>2, <1>3 DEF RegistryInv, Undisturbed, Typed
<1>4. WalletInv(v)'
  <2>1. ASSUME NEW q \in Rooms, room'[q].standing[v] \in {"seated", "leaving"}
        PROVE  wallet'[v] = room'[q].code
    BY <1>0, <1>2, <2>1 DEF WalletInv, Undisturbed
  <2>2. ASSUME wallet'[v] # None
        PROVE  rooms'[wallet'[v]] # None /\ room'[rooms'[wallet'[v]]].standing[v] \in {"seated", "leaving"}
    BY <1>0, <1>3, <2>2 DEF WalletInv, Undisturbed, Typed
  <2> QED
    BY <2>1, <2>2 DEF WalletInv
<1>5. MemberInv(v)'
  <2>1. ASSUME NEW q \in Rooms, ~room'[q].closed, room'[q].standing[v] = "seated", v \notin purged'
        PROVE  member'[v] = room'[q].code
    BY <1>0, <1>2, <2>1 DEF MemberInv, Undisturbed
  <2>2. ASSUME member'[v] # None
        PROVE  /\ row'[member'[v]] # None
               /\ \/ op'[v].pc = "created" /\ op'[v].code = member'[v]
                  \/ /\ rooms'[member'[v]] # None
                     /\ room'[rooms'[member'[v]]].standing[v] # "out"
    BY <1>0, <1>3, <2>2 DEF MemberInv, Undisturbed, Typed
  <2> QED
    BY <2>1, <2>2 DEF MemberInv
<1>6. OpeningInv(v)'
  BY <1>0 DEF OpeningInv, Opening, Undisturbed
<1>7. CreatingInv(v)' /\ CreatedInv(v)'
  BY <1>0 DEF OpeningInv, Opening, Undisturbed, CreatingInv, CreatedInv
<1>8. JoiningInv(v)' /\ LeavingInv(v)'
  BY <1>0 DEF JoiningInv, LeavingInv, Undisturbed, Typed
<1> QED
  BY <1>1, <1>4, <1>5, <1>6, <1>7, <1>8 DEF PlayerInv

(* A step of one player's lock holder: nobody else's seat, no registry     *)
(* entry and no close worker is touched, and the only row it may write is  *)
(* the room it is creating.                                                *)
UserMove(u) ==
  /\ rooms' = rooms /\ closing' = closing
  /\ \A v \in Users : v # u =>
       /\ op'[v] = op[v] /\ seats'[v] = seats[v] /\ wallet'[v] = wallet[v]
       /\ member'[v] = member[v] /\ (v \in purged' <=> v \in purged)
  /\ \A q \in Rooms :
       /\ room'[q].code = room[q].code /\ (room'[q].closed <=> room[q].closed)
       /\ \A v \in Users :
            v # u \/ room[q].closed => room'[q].standing[v] = room[q].standing[v]
  /\ \A c \in Codes :
       \/ row'[c] = row[c]
       \/ /\ op[u].pc = "creating" /\ c = op[u].code
          /\ row'[c] # None /\ row'[c].room = op[u].room

LEMMA UserMoveStep ==
  ASSUME MembershipInv, NEW u \in Users, UserMove(u), TypeOK', ClosedHoldsNoBet', PlayerInv(u)',
         \A v \in Users : v # u /\ Opening(u)' /\ Opening(v) =>
           op'[u].code # op[v].code /\ op'[u].room # op[v].room
  PROVE  MembershipInv'
<1>0. /\ Typed /\ RegistryInv /\ StoredInv /\ OpeningsApart /\ ClosingInv
      /\ \A v \in Users : PlayerInv(v)
  BY TypedFacts DEF MembershipInv
<1>1. OpeningInv(u) /\ CreatingInv(u)
  BY <1>0 DEF PlayerInv
<1>2. RegistryInv'
  BY <1>0 DEF RegistryInv, UserMove, Typed
<1>3. StoredInv'
  BY <1>0, <1>1 DEF StoredInv, UserMove, OpeningInv, Opening, CreatingInv
<1>4. OpeningsApart'
  BY <1>0 DEF OpeningsApart, Opening, UserMove
<1>5. ClosingInv'
  <2> SUFFICES ASSUME NEW r \in Rooms, closing'[r].pc # "none"
               PROVE  /\ room'[r].closed /\ Registered(r)'
                      /\ \A v \in Users : room'[r].standing[v] # "out" <=> v \in closing'[r].members
                      /\ closing'[r].pc = "deleted" => row'[room'[r].code] = None
    BY DEF ClosingInv
  <2>1. /\ room[r].closed /\ Registered(r)
        /\ \A v \in Users : room[r].standing[v] # "out" <=> v \in closing[r].members
        /\ closing[r].pc = "deleted" => row[room[r].code] = None
    BY <1>0 DEF ClosingInv, UserMove
  <2>2. op[u].pc = "creating" => op[u].code # room[r].code
    BY <1>0, <1>1, <2>1 DEF OpeningInv, Opening, Registered, Typed
  <2>3. room[r].code \in Codes
    BY <1>0, <2>1 DEF Typed, Registered
  <2> QED
    BY <2>1, <2>2, <2>3 DEF UserMove, Registered
<1>6. ASSUME NEW v \in Users, v # u PROVE PlayerInv(v)'
  <2>1. PlayerInv(v)
    BY <1>0
  <2>2. OpeningInv(v) /\ MemberInv(v)
    BY <2>1 DEF PlayerInv
  <2>3. op[u].pc = "creating" /\ Opening(v) => op[u].code # op[v].code /\ op[u].room # op[v].room
    BY <1>0, <1>6 DEF OpeningsApart, Opening
  <2>4. Opening(v) => op[v].code \in Codes /\ op[v].room \in Rooms
    BY <2>2 DEF OpeningInv
  <2>5. member[v] # None => member[v] \in Codes /\ row[member[v]] # None
    BY <1>0, <2>2 DEF MemberInv, Typed
  <2>6. member[v] # None => row'[member[v]] # None
    BY <2>5 DEF UserMove
  <2>7. Opening(v) =>
         /\ row'[op[v].code] # None =>
              row[op[v].code] # None /\ row'[op[v].code].room = row[op[v].code].room
         /\ \A c \in Codes : row'[c] # None /\ row'[c].room = op[v].room =>
              row[c] # None /\ row[c].room = op[v].room
    BY <2>3, <2>4 DEF UserMove
  <2>8. Opening(v) => rooms'[op[v].code] = None /\ room'[op[v].room].code = None
    BY <2>2 DEF UserMove, OpeningInv
  <2>9. Undisturbed(v)
    BY <1>6, <2>6, <2>7, <2>8 DEF UserMove, Undisturbed
  <2> QED
    BY <1>0, <2>1, <2>9, PlayerKeeps
<1> QED
  BY <1>2, <1>3, <1>4, <1>5, <1>6 DEF MembershipInv

----------------------------------------------------------------------------
(* Facts the steps of a player share. *)

LEMMA Parts ==
  ASSUME MembershipInv, NEW u \in Users
  PROVE  /\ TypeOK /\ Typed /\ RegistryInv /\ StoredInv /\ OpeningsApart /\ ClosingInv
         /\ ClosedHoldsNoBet
         /\ SeatInv(u) /\ WalletInv(u) /\ MemberInv(u) /\ OpeningInv(u)
         /\ CreatingInv(u) /\ CreatedInv(u) /\ JoiningInv(u) /\ LeavingInv(u)
BY TypedFacts DEF MembershipInv, PlayerInv

(* Nobody is a member of two rooms. *)
LEMMA OneSeat ==
  ASSUME NEW u \in Users, SeatInv(u), NEW q \in Rooms, NEW r \in Rooms,
         room[q].standing[u] # "out", room[r].standing[u] # "out"
  PROVE  q = r
BY DEF SeatInv, Registered

(* A player without a seat is nowhere. *)
LEMMA NoSeat ==
  ASSUME MembershipInv, NEW u \in Users, seats[u] = None
  PROVE  /\ \A q \in Rooms : room[q].standing[u] = "out"
         /\ wallet[u] = None
         /\ op[u].pc # "created" => member[u] = None
<1>0. Typed /\ SeatInv(u) /\ WalletInv(u) /\ MemberInv(u)
  BY Parts
<1>1. \A q \in Rooms : room[q].standing[u] = "out"
  BY <1>0 DEF SeatInv, Registered
<1> QED
  BY <1>0, <1>1 DEF WalletInv, MemberInv, Typed

(* A member of a room has no row, or the row of this room. *)
LEMMA RowOfSeat ==
  ASSUME MembershipInv, NEW u \in Users, NEW r \in Rooms, room[r].standing[u] # "out"
  PROVE  /\ op[u].pc \notin {"creating", "created"}
         /\ member[u] = None \/ member[u] = room[r].code
         /\ room[r].code \in Codes /\ rooms[room[r].code] = r /\ seats[u] = room[r].code
<1>0. Typed /\ RegistryInv /\ SeatInv(u) /\ MemberInv(u) /\ OpeningInv(u)
  BY Parts
<1>1. room[r].code \in Codes /\ rooms[room[r].code] = r /\ seats[u] = room[r].code
  BY <1>0 DEF SeatInv, Registered, Typed
<1>2. op[u].pc \notin {"creating", "created"}
  BY <1>0, <1>1 DEF OpeningInv, Opening, Typed
<1>3. ASSUME member[u] # None PROVE member[u] = room[r].code
  <2>1. /\ member[u] \in Codes /\ rooms[member[u]] \in Rooms
        /\ room[rooms[member[u]]].standing[u] # "out"
    BY <1>0, <1>2, <1>3 DEF MemberInv, Typed
  <2>2. rooms[member[u]] = r
    BY <1>0, <2>1, OneSeat
  <2> QED
    BY <1>0, <2>1, <2>2 DEF RegistryInv, Typed
<1> QED
  BY <1>1, <1>2, <1>3

(* The lock holder moves on. *)
LEMMA OpSet ==
  ASSUME TypeOK, NEW u \in Users, NEW w \in OpStates, op' = [op EXCEPT ![u] = w]
  PROVE  op' \in [Users -> OpStates] /\ op'[u] = w /\ \A v \in Users : v # u => op'[v] = op[v]
BY DEF TypeOK, OpStates

LEMMA AnsweredFacts ==
  ASSUME TypeOK, NEW u \in Users, NEW pc \in Phases,
         NEW out \in {"none", "done", "refused", "unknown"}, Answered(u, pc, out)
  PROVE  /\ op' \in [Users -> OpStates]
         /\ op'[u].pc = pc /\ op'[u].out = out
         /\ op'[u].code = op[u].code /\ op'[u].room = op[u].room
         /\ \A v \in Users : v # u => op'[v] = op[v]
<1>0. op[u] \in OpStates
  BY TypedFacts DEF Typed
<1>1. PICK w : w = [op[u] EXCEPT !.pc = pc, !.out = out]
  OBVIOUS
<1>2. /\ w \in OpStates
      /\ w.pc = pc /\ w.out = out /\ w.code = op[u].code /\ w.room = op[u].room
  BY <1>0, <1>1 DEF OpStates
<1>3. op' = [op EXCEPT ![u] = w]
  BY <1>1 DEF Answered
<1> QED
  BY <1>2, <1>3, OpSet

LEMMA FreeOp == Free \in OpStates
BY DEF Free, OpStates, Phases

----------------------------------------------------------------------------
(* Create, up to the install, and the lookup of a join. *)

LEMMA OpenRoomStep ==
  ASSUME MembershipInv, NEW u \in Users, NEW c \in Codes, NEW r \in Rooms, OpenRoom(u, c, r)
  PROVE  MembershipInv'
<1>0. /\ TypeOK /\ Typed /\ SeatInv(u) /\ WalletInv(u) /\ MemberInv(u) /\ ClosedHoldsNoBet
      /\ seats[u] = None /\ op[u].pc = "free"
  BY Parts DEF OpenRoom, Request
<1>1. member[u] = None
  BY <1>0, NoSeat
<1>2. PICK w : w = [pc |-> "creating", code |-> c, room |-> r, out |-> "none"]
  OBVIOUS
<1>3. w \in OpStates /\ w.pc = "creating" /\ w.code = c /\ w.room = r
  BY <1>2 DEF OpStates, Phases
<1>4. /\ op' = [op EXCEPT ![u] = w] /\ requests' = requests + 1
      /\ UNCHANGED <<rooms, seats, room, wallet, closing, row, member, purged, faults>>
  BY <1>2 DEF OpenRoom, Request, storage
<1>5. op' \in [Users -> OpStates] /\ op'[u] = w /\ \A v \in Users : v # u => op'[v] = op[v]
  BY <1>0, <1>3, <1>4, OpSet
<1>6. TypeOK'
  BY <1>0, <1>4, <1>5 DEF TypeOK, OpStates
<1>7. UserMove(u)
  BY <1>4, <1>5 DEF UserMove
<1>8. PlayerInv(u)'
  <2>1. SeatInv(u)' /\ WalletInv(u)' /\ MemberInv(u)'
    BY <1>0, <1>1, <1>4, <1>5 DEF SeatInv, WalletInv, MemberInv, Registered
  <2>2. OpeningInv(u)' /\ CreatingInv(u)'
    BY <1>0, <1>1, <1>3, <1>4, <1>5 DEF OpeningInv, CreatingInv, Opening, OpenRoom, Allocatable
  <2>3. CreatedInv(u)' /\ JoiningInv(u)' /\ LeavingInv(u)'
    BY <1>3, <1>5 DEF CreatedInv, JoiningInv, LeavingInv
  <2> QED
    BY <2>1, <2>2, <2>3 DEF PlayerInv
<1>9. \A v \in Users : v # u /\ Opening(u)' /\ Opening(v) =>
        op'[u].code # op[v].code /\ op'[u].room # op[v].room
  BY <1>3, <1>5 DEF OpenRoom, Allocatable, Opening
<1>10. ClosedHoldsNoBet'
  BY <1>0, <1>4 DEF ClosedHoldsNoBet
<1> QED
  BY <1>6, <1>7, <1>8, <1>9, <1>10, UserMoveStep

LEMMA JoinLookupStep ==
  ASSUME MembershipInv, NEW u \in Users, NEW c \in Codes, JoinLookup(u, c)
  PROVE  MembershipInv'
<1>0. /\ TypeOK /\ Typed /\ SeatInv(u) /\ WalletInv(u) /\ MemberInv(u) /\ ClosedHoldsNoBet
      /\ RegistryInv /\ rooms[c] # None /\ op[u].pc = "free"
  BY Parts DEF JoinLookup, Request
<1>2. PICK w : w = [pc |-> "looked", code |-> c, room |-> rooms[c], out |-> "none"]
  OBVIOUS
<1>3. /\ rooms[c] \in Rooms /\ w \in OpStates
      /\ w.pc = "looked" /\ w.code = c /\ w.room = rooms[c]
  BY <1>0, <1>2 DEF OpStates, Phases, Typed
<1>4. /\ op' = [op EXCEPT ![u] = w] /\ requests' = requests + 1
      /\ UNCHANGED <<rooms, seats, room, wallet, closing, row, member, purged, faults>>
  BY <1>2 DEF JoinLookup, Request, storage
<1>5. op' \in [Users -> OpStates] /\ op'[u] = w /\ \A v \in Users : v # u => op'[v] = op[v]
  BY <1>0, <1>3, <1>4, OpSet
<1>6. TypeOK'
  BY <1>0, <1>4, <1>5 DEF TypeOK, OpStates
<1>7. UserMove(u)
  BY <1>4, <1>5 DEF UserMove
<1>8. PlayerInv(u)'
  <2>1. SeatInv(u)' /\ WalletInv(u)' /\ MemberInv(u)'
    BY <1>0, <1>4, <1>5 DEF SeatInv, WalletInv, MemberInv, Registered
  <2>2. OpeningInv(u)' /\ CreatingInv(u)' /\ CreatedInv(u)' /\ LeavingInv(u)'
    BY <1>3, <1>5 DEF OpeningInv, Opening, CreatingInv, CreatedInv, LeavingInv
  <2>3. JoiningInv(u)'
    BY <1>0, <1>3, <1>4, <1>5 DEF JoiningInv, RegistryInv
  <2> QED
    BY <2>1, <2>2, <2>3 DEF PlayerInv
<1>9. ~Opening(u)'
  BY <1>3, <1>5 DEF Opening
<1>10. ClosedHoldsNoBet'
  BY <1>0, <1>4 DEF ClosedHoldsNoBet
<1> QED
  BY <1>6, <1>7, <1>8, <1>9, <1>10, UserMoveStep

LEMMA OpenCommitStep ==
  ASSUME MembershipInv, NEW u \in Users, OpenCommit(u)
  PROVE  MembershipInv'
<1> DEFINE c == op[u].code
           r == op[u].room
<1>0. /\ TypeOK /\ Typed /\ SeatInv(u) /\ WalletInv(u) /\ ClosedHoldsNoBet
      /\ OpeningInv(u) /\ CreatingInv(u) /\ OpeningsApart /\ op[u].pc = "creating"
  BY Parts DEF OpenCommit
<1>1. /\ c \in Codes /\ r \in Rooms /\ seats[u] = None /\ member[u] = None
      /\ rooms[c] = None /\ room[r].code = None /\ row[c] = None
  BY <1>0 DEF OpeningInv, CreatingInv, Opening
<1>2. /\ UNCHANGED <<rooms, seats, room, wallet, closing, requests>>
  BY DEF OpenCommit
<1>3. PICK out \in {"done", "refused", "unknown"} :
        /\ Answered(u, "created", out) /\ faults' \in Nat
        /\ \/ UNCHANGED <<row, member, purged>> /\ out # "done"
           \/ /\ row' = [row EXCEPT ![c] = [room |-> r, table |-> FreshTable]]
              /\ member' = [member EXCEPT ![u] = c]
              /\ UNCHANGED purged /\ out # "refused"
  BY <1>0 DEF OpenCommit, Commit, Refused, Fault, storage, TypeOK
<1>4. /\ op' \in [Users -> OpStates]
      /\ op'[u].pc = "created" /\ op'[u].out = out /\ op'[u].code = c /\ op'[u].room = r
      /\ \A v \in Users : v # u => op'[v] = op[v]
  BY <1>0, <1>3, AnsweredFacts DEF Phases
<1>5. \A v \in Users : v # u /\ Opening(u)' /\ Opening(v) =>
        op'[u].code # op[v].code /\ op'[u].room # op[v].room
  BY <1>0, <1>4 DEF OpeningsApart, Opening
<1>6. ClosedHoldsNoBet'
  BY <1>0, <1>2 DEF ClosedHoldsNoBet
<1>7. SeatInv(u)' /\ WalletInv(u)'
  BY <1>0, <1>1, <1>2, <1>4 DEF SeatInv, WalletInv, Registered, Typed
<1>8. OpeningInv(u)' /\ CreatingInv(u)' /\ JoiningInv(u)' /\ LeavingInv(u)'
  BY <1>1, <1>2, <1>4 DEF OpeningInv, CreatingInv, Opening, JoiningInv, LeavingInv
<1>9. \A q \in Rooms : room[q].standing[u] = "out"
  BY <1>1, NoSeat
<1>10. CASE UNCHANGED <<row, member, purged>> /\ out # "done"
  <2>1. TypeOK'
    BY <1>0, <1>2, <1>3, <1>4, <1>10 DEF TypeOK, OpStates
  <2>2. UserMove(u)
    BY <1>2, <1>4, <1>10 DEF UserMove
  <2>3. MemberInv(u)' /\ CreatedInv(u)'
    BY <1>1, <1>2, <1>4, <1>9, <1>10 DEF MemberInv, CreatedInv
  <2> QED
    BY <2>1, <2>2, <2>3, <1>5, <1>6, <1>7, <1>8, UserMoveStep DEF PlayerInv
<1>11. CASE /\ row' = [row EXCEPT ![c] = [room |-> r, table |-> FreshTable]]
            /\ member' = [member EXCEPT ![u] = c]
            /\ UNCHANGED purged /\ out # "refused"
  <2>0. [room |-> r, table |-> FreshTable] \in Rows
    BY <1>1 DEF Rows, Tables, FreshTable
  <2>1. row' \in [Codes -> Rows \cup {None}] /\ member' \in [Users -> Codes \cup {None}]
    BY <1>0, <1>1, <1>11, <2>0 DEF TypeOK
  <2>2. /\ row'[c] # None /\ row'[c].room = r /\ \A k \in Codes : k # c => row'[k] = row[k]
        /\ member'[u] = c /\ \A v \in Users : v # u => member'[v] = member[v]
    BY <1>0, <1>1, <1>11, <2>0, MembershipAssumption DEF TypeOK
  <2>3. TypeOK'
    BY <1>0, <1>2, <1>3, <1>4, <1>11, <2>1 DEF TypeOK, OpStates
  <2>4. UserMove(u)
    BY <1>0, <1>2, <1>4, <1>11, <2>2 DEF UserMove
  <2>5. MemberInv(u)' /\ CreatedInv(u)'
    BY <1>1, <1>2, <1>4, <1>9, <1>11, <2>2 DEF MemberInv, CreatedInv
  <2> QED
    BY <2>3, <2>4, <2>5, <1>5, <1>6, <1>7, <1>8, UserMoveStep DEF PlayerInv
<1> QED
  BY <1>3, <1>10, <1>11

----------------------------------------------------------------------------
(* Join. *)

(* A lock given back makes no promise. *)
LEMMA FreePlayer ==
  ASSUME NEW u \in Users, op'[u] = Free, SeatInv(u)', WalletInv(u)', MemberInv(u)'
  PROVE  PlayerInv(u)' /\ ~Opening(u)'
BY DEF PlayerInv, OpeningInv, Opening, CreatingInv, CreatedInv, JoiningInv, LeavingInv, Free

LEMMA JoinAdmitStep ==
  ASSUME MembershipInv, NEW u \in Users, JoinAdmit(u)
  PROVE  MembershipInv'
<1> DEFINE r == op[u].room
           c == op[u].code
<1>0. /\ TypeOK /\ Typed /\ RegistryInv /\ SeatInv(u) /\ WalletInv(u) /\ MemberInv(u)
      /\ JoiningInv(u) /\ ClosedHoldsNoBet /\ op[u].pc = "looked" /\ op[u] \in OpStates
  BY Parts DEF JoinAdmit, Typed
<1>1. r \in Rooms /\ c \in Codes /\ room[r].code = c
  BY <1>0 DEF JoiningInv
<1>2. UNCHANGED <<rooms, wallet, closing, row, member, purged, requests, faults>>
  BY DEF JoinAdmit, storage
<1>3. CASE ~MayAdmit(u, r)
  <2>1. op' = [op EXCEPT ![u] = Free] /\ UNCHANGED <<room, seats>>
    BY <1>3 DEF JoinAdmit
  <2>2. op' \in [Users -> OpStates] /\ op'[u] = Free /\ \A v \in Users : v # u => op'[v] = op[v]
    BY <1>0, <2>1, OpSet, FreeOp
  <2>3. TypeOK'
    BY <1>0, <1>2, <2>1, <2>2 DEF TypeOK, OpStates
  <2>4. SeatInv(u)' /\ WalletInv(u)' /\ MemberInv(u)'
    BY <1>0, <1>2, <2>1, <2>2 DEF SeatInv, WalletInv, MemberInv, Registered
  <2>5. UserMove(u)
    BY <1>2, <2>1, <2>2 DEF UserMove
  <2>6. ClosedHoldsNoBet'
    BY <1>0, <2>1 DEF ClosedHoldsNoBet
  <2> QED
    BY <2>2, <2>3, <2>4, <2>5, <2>6, FreePlayer, UserMoveStep
<1>4. CASE MayAdmit(u, r)
  <2>1. /\ room' = [room EXCEPT ![r] = SetStanding(room[r], u, "joining")]
        /\ seats' = [seats EXCEPT ![u] = c]
        /\ op' = [op EXCEPT ![u].pc = "admitting"]
        /\ seats[u] = None /\ ~room[r].closed
    BY <1>4 DEF JoinAdmit, MayAdmit
  <2>2. PICK w : w = [op[u] EXCEPT !.pc = "admitting"]
    OBVIOUS
  <2>3. w \in OpStates /\ w.pc = "admitting" /\ w.code = c /\ w.room = r
    BY <1>0, <2>2 DEF OpStates, Phases
  <2>4. op' = [op EXCEPT ![u] = w]
    BY <2>1, <2>2
  <2>5. op' \in [Users -> OpStates] /\ op'[u] = w /\ \A v \in Users : v # u => op'[v] = op[v]
    BY <1>0, <2>3, <2>4, OpSet
  <2>6. PICK y : y = SetStanding(room[r], u, "joining")
    OBVIOUS
  <2>7. room[r] \in RoomStates /\ "joining" \in Standing
    BY <1>0, <1>1 DEF Typed, Standing
  <2>8. /\ y \in RoomStates /\ y.standing[u] = "joining"
        /\ y.code = room[r].code /\ y.closed = room[r].closed /\ y.table = room[r].table
        /\ \A v \in Users : v # u => y.standing[v] = room[r].standing[v]
    BY <2>6, <2>7, SetStandingFacts
  <2>9. room' = [room EXCEPT ![r] = y]
    BY <2>1, <2>6
  <2>10. /\ room' \in [Rooms -> RoomStates] /\ room'[r] = y
         /\ \A q \in Rooms : q # r => room'[q] = room[q]
    BY <1>0, <1>1, <2>8, <2>9 DEF TypeOK, RoomStates
  <2>11. /\ seats' \in [Users -> Codes \cup {None}] /\ seats'[u] = c
         /\ \A v \in Users : v # u => seats'[v] = seats[v]
    BY <1>0, <1>1, <2>1 DEF TypeOK
  <2>12. TypeOK'
    BY <1>0, <1>2, <2>5, <2>10, <2>11 DEF TypeOK, OpStates, RoomStates
  <2>13. UserMove(u)
    BY <1>2, <2>1, <2>5, <2>8, <2>10, <2>11 DEF UserMove
  <2>14. /\ \A q \in Rooms : room[q].standing[u] = "out"
         /\ wallet[u] = None /\ member[u] = None
    BY <1>0, <2>1, NoSeat
  <2>15. SeatInv(u)'
    BY <1>0, <1>1, <1>2, <2>1, <2>8, <2>10, <2>11, <2>14 DEF SeatInv, Registered, RegistryInv, Typed
  <2>16. WalletInv(u)' /\ MemberInv(u)'
    BY <1>2, <2>8, <2>10, <2>14 DEF WalletInv, MemberInv
  <2>17. OpeningInv(u)' /\ CreatingInv(u)' /\ CreatedInv(u)' /\ LeavingInv(u)'
    BY <2>3, <2>5 DEF OpeningInv, Opening, CreatingInv, CreatedInv, LeavingInv
  <2>18. JoiningInv(u)'
    BY <1>1, <1>2, <2>1, <2>3, <2>5, <2>8, <2>10, <2>14 DEF JoiningInv
  <2>19. ~Opening(u)'
    BY <2>3, <2>5 DEF Opening
  <2>20. ClosedHoldsNoBet'
    BY <1>0, <2>8, <2>10 DEF ClosedHoldsNoBet, OpenBets
  <2> QED
    BY <2>12, <2>13, <2>15, <2>16, <2>17, <2>18, <2>19, <2>20, UserMoveStep DEF PlayerInv
<1> QED
  BY <1>3, <1>4

LEMMA JoinCommitStep ==
  ASSUME MembershipInv, NEW u \in Users, JoinCommit(u)
  PROVE  MembershipInv'
<1> DEFINE r == op[u].room
           c == op[u].code
<1>0. /\ TypeOK /\ Typed /\ RegistryInv /\ SeatInv(u) /\ WalletInv(u) /\ MemberInv(u)
      /\ JoiningInv(u) /\ ClosedHoldsNoBet /\ op[u].pc = "admitting"
  BY Parts DEF JoinCommit
<1>1. /\ r \in Rooms /\ c \in Codes /\ room[r].code = c /\ member[u] = None
      /\ room[r].standing[u] = "joining" /\ ~room[r].closed /\ rooms[c] = r
  BY <1>0 DEF JoiningInv, RegistryInv, Typed
<1>2. UNCHANGED <<rooms, seats, room, wallet, closing, requests>>
  BY DEF JoinCommit
<1>3. PICK out \in {"done", "refused", "unknown"} :
        /\ Answered(u, "admitted", out) /\ faults' \in Nat /\ UNCHANGED <<row, purged>>
        /\ \/ UNCHANGED member /\ out # "done"
           \/ member' = [member EXCEPT ![u] = c] /\ out # "refused" /\ row[c] # None
  BY <1>0 DEF JoinCommit, Commit, Refused, Fault, storage, TypeOK
<1>4. /\ op' \in [Users -> OpStates]
      /\ op'[u].pc = "admitted" /\ op'[u].out = out /\ op'[u].code = c /\ op'[u].room = r
      /\ \A v \in Users : v # u => op'[v] = op[v]
  BY <1>0, <1>3, AnsweredFacts DEF Phases
<1>5. /\ member' \in [Users -> Codes \cup {None}]
      /\ \A v \in Users : v # u => member'[v] = member[v]
      /\ \/ member'[u] = None /\ out # "done"
         \/ member'[u] = c /\ out # "refused" /\ row[c] # None
  BY <1>0, <1>1, <1>3 DEF TypeOK
<1>6. TypeOK'
  BY <1>0, <1>2, <1>3, <1>4, <1>5 DEF TypeOK, OpStates
<1>7. UserMove(u)
  BY <1>2, <1>3, <1>4, <1>5 DEF UserMove
<1>8. SeatInv(u)' /\ WalletInv(u)'
  BY <1>0, <1>1, <1>2, <1>4 DEF SeatInv, WalletInv, Registered
<1>9. \A q \in Rooms : room[q].standing[u] # "out" => q = r
  BY <1>0, <1>1, OneSeat
<1>10. MemberInv(u)'
  <2>1. \A q \in Rooms : room'[q].standing[u] # "seated"
    BY <1>1, <1>2, <1>9
  <2>2. member'[u] # None =>
          row'[member'[u]] # None /\ rooms'[member'[u]] = r /\ room'[r].standing[u] # "out"
    BY <1>1, <1>2, <1>3, <1>5
  <2> QED
    BY <1>0, <1>1, <2>1, <2>2 DEF MemberInv, Typed
<1>11. JoiningInv(u)'
  BY <1>1, <1>2, <1>3, <1>4, <1>5 DEF JoiningInv
<1>12. OpeningInv(u)' /\ CreatingInv(u)' /\ CreatedInv(u)' /\ LeavingInv(u)' /\ ~Opening(u)'
  BY <1>4 DEF OpeningInv, Opening, CreatingInv, CreatedInv, LeavingInv
<1>13. ClosedHoldsNoBet'
  BY <1>0, <1>2 DEF ClosedHoldsNoBet
<1> QED
  BY <1>6, <1>7, <1>8, <1>10, <1>11, <1>12, <1>13, UserMoveStep DEF PlayerInv

(* A player is in one room, with everything that goes with its standing,   *)
(* or nowhere.                                                             *)
SeatAt(u, r, c) ==
  /\ rooms[c] = r /\ room[r].code = c /\ seats[u] = c
  /\ \A q \in Rooms : q # r => room[q].standing[u] = "out"
  /\ room[r].standing[u] # "out"
  /\ room[r].closed => op[u].pc = "held"
  /\ room[r].standing[u] \in {"seated", "leaving"} => wallet[u] = c
  /\ room[r].standing[u] \notin {"seated", "leaving"} => wallet[u] = None
  /\ member[u] \in {None, c} /\ (member[u] = c => row[c] # None)
  /\ ~room[r].closed /\ room[r].standing[u] = "seated" /\ u \notin purged => member[u] = c

Nowhere(u) ==
  /\ \A q \in Rooms : room[q].standing[u] = "out"
  /\ wallet[u] = None /\ member[u] = None

LEMMA SeatAtInv ==
  ASSUME NEW u \in Users, NEW r \in Rooms, NEW c \in Codes, SeatAt(u, r, c)'
  PROVE  SeatInv(u)' /\ WalletInv(u)' /\ MemberInv(u)'
<1>0. c # None /\ r # None
  BY MembershipAssumption
<1>1. SeatInv(u)'
  BY <1>0 DEF SeatAt, SeatInv, Registered
<1>2. WalletInv(u)'
  BY <1>0 DEF SeatAt, WalletInv
<1>3. MemberInv(u)'
  <2>1. \A q \in Rooms : ~room'[q].closed /\ room'[q].standing[u] = "seated" /\ u \notin purged' =>
          member'[u] = room'[q].code
    BY DEF SeatAt
  <2>2. member'[u] # None => row'[member'[u]] # None /\ rooms'[member'[u]] = r
    BY <1>0 DEF SeatAt
  <2> QED
    BY <1>0, <2>1, <2>2 DEF SeatAt, MemberInv
<1> QED
  BY <1>1, <1>2, <1>3

LEMMA NowhereInv ==
  ASSUME NEW u \in Users, Nowhere(u)'
  PROVE  SeatInv(u)' /\ WalletInv(u)' /\ MemberInv(u)'
BY DEF Nowhere, SeatInv, WalletInv, MemberInv

(* The seat a member of an open room has. *)
LEMMA MemberSeat ==
  ASSUME MembershipInv, NEW u \in Users, NEW r \in Rooms, room[r].standing[u] # "out"
  PROVE  room[r].code \in Codes /\ SeatAt(u, r, room[r].code)
<1>0. Typed /\ SeatInv(u) /\ WalletInv(u) /\ MemberInv(u)
  BY Parts
<1>1. /\ room[r].code \in Codes /\ rooms[room[r].code] = r /\ seats[u] = room[r].code
      /\ member[u] = None \/ member[u] = room[r].code
  BY RowOfSeat
<1>2. \A q \in Rooms : q # r => room[q].standing[u] = "out"
  BY <1>0, OneSeat
<1>3. room[r].standing[u] \notin {"seated", "leaving"} => wallet[u] = None
  <2> SUFFICES ASSUME wallet[u] # None PROVE room[r].standing[u] \in {"seated", "leaving"}
    OBVIOUS
  <2>1. /\ rooms[wallet[u]] \in Rooms
        /\ room[rooms[wallet[u]]].standing[u] \in {"seated", "leaving"}
    BY <1>0 DEF WalletInv, Typed
  <2>2. rooms[wallet[u]] = r
    BY <1>2, <2>1
  <2> QED
    BY <2>1, <2>2
<1>4. room[r].standing[u] \in {"seated", "leaving"} => wallet[u] = room[r].code
  BY <1>0 DEF WalletInv
<1>5. /\ member[u] = room[r].code => row[room[r].code] # None
      /\ ~room[r].closed /\ room[r].standing[u] = "seated" /\ u \notin purged =>
           member[u] = room[r].code
  BY <1>0, <1>1 DEF MemberInv, Typed
<1>6. room[r].closed => op[u].pc = "held"
  BY <1>0 DEF SeatInv
<1> QED
  BY <1>1, <1>2, <1>3, <1>4, <1>5, <1>6 DEF SeatAt

(* Changing one member's standing in an open room. *)
LEMMA RoomSet ==
  ASSUME TypeOK, NEW r \in Rooms, NEW y \in RoomStates, room' = [room EXCEPT ![r] = y]
  PROVE  /\ room' \in [Rooms -> RoomStates] /\ room'[r] = y
         /\ \A q \in Rooms : q # r => room'[q] = room[q]
BY DEF TypeOK, RoomStates

Moves(r, u, s) == room' = [room EXCEPT ![r] = SetStanding(room[r], u, s)]

LEMMA StandingMove ==
  ASSUME MembershipInv, NEW r \in Rooms, NEW u \in Users, NEW s \in Standing, Moves(r, u, s)
  PROVE  /\ room' \in [Rooms -> RoomStates] /\ ClosedHoldsNoBet'
         /\ \A q \in Rooms : room'[q].code = room[q].code /\ room'[q].closed = room[q].closed
         /\ room'[r].standing[u] = s
         /\ \A q \in Rooms : \A v \in Users :
              q # r \/ v # u => room'[q].standing[v] = room[q].standing[v]
<1>0. TypeOK /\ room[r] \in RoomStates /\ ClosedHoldsNoBet
  BY TypedFacts DEF MembershipInv, Typed
<1>1. PICK y : y = SetStanding(room[r], u, s)
  OBVIOUS
<1>2. /\ y \in RoomStates /\ y.standing[u] = s
      /\ y.code = room[r].code /\ y.closed = room[r].closed /\ y.table = room[r].table
      /\ \A v \in Users : v # u => y.standing[v] = room[r].standing[v]
  BY <1>0, <1>1, SetStandingFacts
<1>3. /\ room' \in [Rooms -> RoomStates] /\ room'[r] = y
      /\ \A q \in Rooms : q # r => room'[q] = room[q]
  BY <1>0, <1>1, <1>2, RoomSet DEF Moves
<1>4. ClosedHoldsNoBet'
  BY <1>0, <1>2, <1>3 DEF ClosedHoldsNoBet, OpenBets
<1> QED
  BY <1>2, <1>3, <1>4

LEMMA JoinFinishStep ==
  ASSUME MembershipInv, NEW u \in Users, JoinFinish(u)
  PROVE  MembershipInv'
<1>r. PICK r \in Rooms, c \in Codes : r = op[u].room /\ c = op[u].code
  BY Parts DEF JoinFinish, JoiningInv
<1>0. /\ TypeOK /\ Typed /\ RegistryInv /\ SeatInv(u) /\ WalletInv(u) /\ MemberInv(u)
      /\ JoiningInv(u) /\ ClosedHoldsNoBet /\ op[u].pc = "admitted"
  BY Parts DEF JoinFinish
<1>1. /\ room[r].code = c
      /\ room[r].standing[u] = "joining" /\ ~room[r].closed /\ rooms[c] = r
      /\ op[u].out \in {"done", "refused", "unknown"}
  BY <1>0, <1>r DEF JoiningInv, RegistryInv, Typed, OpStates
<1>2. UNCHANGED <<rooms, closing, row, member, purged, requests, faults>>
  BY DEF JoinFinish, storage
<1>3. op' = [op EXCEPT ![u] = Free]
  BY DEF JoinFinish
<1>4. op' \in [Users -> OpStates] /\ op'[u] = Free /\ \A v \in Users : v # u => op'[v] = op[v]
  BY <1>0, <1>3, OpSet, FreeOp
<1>5. SeatAt(u, r, c)
  BY <1>1, MemberSeat
<1>6. wallet[u] = None /\ member[u] \in {None, c}
  BY <1>1, <1>5 DEF SeatAt
<1>8. PICK verdict \in Verdicts(u) :
       \/ /\ verdict = "seated"
          /\ wallet' = ActivateWallets({u}, c)
          /\ room' = IF u \in Members(room[r])
                     THEN [room EXCEPT ![r] = SetStanding(room[r], u, "seated")] ELSE room
          /\ UNCHANGED seats
       \/ verdict = "reserved" /\ UNCHANGED <<wallet, room, seats>>
       \/ /\ verdict = "refused"
          /\ room' = [room EXCEPT ![r] = SetStanding(room[r], u, "out")]
          /\ seats' = ReleaseSeats({u}, c)
          /\ UNCHANGED wallet
  BY <1>r DEF JoinFinish
<1>9. CASE verdict = "seated"
  <2>1. /\ room' = [room EXCEPT ![r] = SetStanding(room[r], u, "seated")]
        /\ wallet' = ActivateWallets({u}, c) /\ UNCHANGED seats
    BY <1>1, <1>8, <1>9 DEF Members
  <2>2. "seated" \in Standing
    BY DEF Standing
  <2>3. /\ room' \in [Rooms -> RoomStates] /\ ClosedHoldsNoBet'
        /\ \A q \in Rooms : room'[q].code = room[q].code /\ room'[q].closed = room[q].closed
        /\ room'[r].standing[u] = "seated"
        /\ \A q \in Rooms : \A v \in Users :
             q # r \/ v # u => room'[q].standing[v] = room[q].standing[v]
    <3>1. Moves(r, u, "seated")
      BY <2>1 DEF Moves
    <3> QED
      BY <2>2, <3>1, StandingMove
  <2>4. /\ wallet' \in [Users -> Codes \cup {None}] /\ wallet'[u] = c
        /\ \A v \in Users : v # u => wallet'[v] = wallet[v]
    BY <1>0, <1>1, <1>6, <2>1 DEF ActivateWallets, Typed
  <2>5. u \notin purged => member[u] = c
    BY <1>r, <1>0, <1>1, <1>9 DEF Verdicts, JoiningInv
  <2>6. TypeOK'
    BY <1>0, <1>2, <1>4, <2>1, <2>3, <2>4 DEF TypeOK, RoomStates, OpStates
  <2>7. UserMove(u)
    BY <1>1, <1>2, <1>4, <2>1, <2>3, <2>4 DEF UserMove
  <2>8. SeatAt(u, r, c)'
    BY <1>1, <1>2, <1>5, <2>1, <2>3, <2>4, <2>5 DEF SeatAt
  <2>9. SeatInv(u)' /\ WalletInv(u)' /\ MemberInv(u)'
    BY <1>1, <2>8, SeatAtInv
  <2> QED
    BY <1>4, <2>3, <2>6, <2>7, <2>9, FreePlayer, UserMoveStep
<1>10. CASE verdict = "reserved"
  <2>1. UNCHANGED <<wallet, room, seats>>
    BY <1>8, <1>10
  <2>2. TypeOK' /\ ClosedHoldsNoBet'
    BY <1>0, <1>2, <1>4, <2>1 DEF TypeOK, OpStates, ClosedHoldsNoBet
  <2>3. UserMove(u)
    BY <1>2, <1>4, <2>1 DEF UserMove
  <2>4. SeatInv(u)' /\ WalletInv(u)' /\ MemberInv(u)'
    BY <1>0, <1>1, <1>2, <2>1 DEF SeatInv, WalletInv, MemberInv, Registered
  <2> QED
    BY <1>4, <2>2, <2>3, <2>4, FreePlayer, UserMoveStep
<1>11. CASE verdict = "refused"
  <2>1. /\ room' = [room EXCEPT ![r] = SetStanding(room[r], u, "out")]
        /\ seats' = ReleaseSeats({u}, c) /\ UNCHANGED wallet
    BY <1>8, <1>11
  <2>2. "out" \in Standing
    BY DEF Standing
  <2>3. /\ room' \in [Rooms -> RoomStates] /\ ClosedHoldsNoBet'
        /\ \A q \in Rooms : room'[q].code = room[q].code /\ room'[q].closed = room[q].closed
        /\ room'[r].standing[u] = "out"
        /\ \A q \in Rooms : \A v \in Users :
             q # r \/ v # u => room'[q].standing[v] = room[q].standing[v]
    <3>1. Moves(r, u, "out")
      BY <2>1 DEF Moves
    <3> QED
      BY <2>2, <3>1, StandingMove
  <2>4. /\ seats' \in [Users -> Codes \cup {None}]
        /\ \A v \in Users : v # u => seats'[v] = seats[v]
    BY <1>0, <2>1 DEF ReleaseSeats, Typed
  <2>5. member[u] = None
    BY <1>r, <1>0, <1>1, <1>6, <1>11 DEF Verdicts, JoiningInv
  <2>6. TypeOK'
    BY <1>0, <1>2, <1>4, <2>1, <2>3, <2>4 DEF TypeOK, RoomStates, OpStates
  <2>7. UserMove(u)
    BY <1>1, <1>2, <1>4, <2>1, <2>3, <2>4 DEF UserMove
  <2>8. Nowhere(u)'
    BY <1>2, <1>5, <1>6, <2>1, <2>3, <2>5 DEF Nowhere, SeatAt
  <2>9. SeatInv(u)' /\ WalletInv(u)' /\ MemberInv(u)'
    BY <2>8, NowhereInv
  <2> QED
    BY <1>4, <2>3, <2>6, <2>7, <2>9, FreePlayer, UserMoveStep
<1> QED
  BY <1>8, <1>9, <1>10, <1>11

----------------------------------------------------------------------------
(* The table under the seats: a tick never opens a wager. *)

LEMMA TickedFacts ==
  ASSUME NEW tb \in Tables, NEW t \in Ticked(tb)
  PROVE  t \in Tables /\ (~t.settled /\ t.bets # {} => ~tb.settled /\ tb.bets # {})
<1>0. MaxRounds \in Nat
  BY MembershipAssumption
<1>1. CASE ~tb.settled
  <2>1. t = tb \/ t = Settle(tb)
    BY <1>1 DEF Ticked
  <2> QED
    BY <1>1, <2>1 DEF Settle, Tables
<1>2. CASE tb.settled
  <2>1. t = tb \/ \E n \in {tb.round + 1} \cap 1..MaxRounds : t = [FreshTable EXCEPT !.round = n]
    BY <1>2 DEF Ticked
  <2>2. ASSUME NEW n \in Nat, t = [FreshTable EXCEPT !.round = n]
        PROVE  t \in Tables /\ t.bets = {}
    <3>1. t = [round |-> n, settled |-> FALSE, bets |-> {}]
      BY <2>2 DEF FreshTable
    <3> QED
      BY <3>1 DEF Tables
  <2> QED
    BY <1>0, <1>2, <2>1, <2>2
<1> QED
  BY <1>1, <1>2

LEMMA WithTableFacts ==
  ASSUME NEW x \in RoomStates, NEW t \in Tables, NEW y, y = [x EXCEPT !.table = t]
  PROVE  /\ y \in RoomStates /\ y.table = t
         /\ y.code = x.code /\ y.closed = x.closed /\ y.standing = x.standing
BY DEF RoomStates

LEMMA DealWhenAllBetFacts ==
  ASSUME NEW x \in RoomStates, NEW y, y = DealWhenAllBet(x)
  PROVE  /\ y \in RoomStates
         /\ y.code = x.code /\ y.closed = x.closed /\ y.standing = x.standing
         /\ OpenBets(y) => OpenBets(x)
<1>1. y = x \/ y = [x EXCEPT !.table = Settle(x.table)]
  BY DEF DealWhenAllBet
<1>2. x.table \in Tables
  BY DEF RoomStates
<1>3. PICK t : t = Settle(x.table)
  OBVIOUS
<1>4. t \in Tables /\ t.settled = TRUE
  BY <1>2, <1>3 DEF Settle, Tables
<1>5. CASE y = x
  BY <1>5
<1>6. CASE y = [x EXCEPT !.table = t]
  BY <1>4, <1>6, WithTableFacts DEF OpenBets
<1> QED
  BY <1>1, <1>3, <1>5, <1>6

(* One room gets a new state. *)
Becomes(r, y) == room' = [room EXCEPT ![r] = y]

LEMMA BecomesFacts ==
  ASSUME MembershipInv, NEW r \in Rooms, NEW y \in RoomStates, Becomes(r, y),
         y.closed => ~OpenBets(y)
  PROVE  /\ room' \in [Rooms -> RoomStates] /\ room'[r] = y
         /\ \A q \in Rooms : q # r => room'[q] = room[q]
         /\ ClosedHoldsNoBet'
<1>0. TypeOK /\ ClosedHoldsNoBet
  BY DEF MembershipInv
<1>1. /\ room' \in [Rooms -> RoomStates] /\ room'[r] = y
      /\ \A q \in Rooms : q # r => room'[q] = room[q]
  BY <1>0, RoomSet DEF Becomes
<1>2. ClosedHoldsNoBet'
  BY <1>0, <1>1 DEF ClosedHoldsNoBet, OpenBets
<1> QED
  BY <1>1, <1>2

(* A step that moves only a table, or the copy of it in a row. *)
LEMMA TableStep ==
  ASSUME MembershipInv, TypeOK', ClosedHoldsNoBet',
         UNCHANGED <<rooms, seats, wallet, op, closing, member, purged>>,
         \A q \in Rooms : /\ room'[q].code = room[q].code /\ room'[q].closed = room[q].closed
                          /\ room'[q].standing = room[q].standing,
         \A c \in Codes : /\ row'[c] = None <=> row[c] = None
                          /\ row[c] # None => row'[c].room = row[c].room
  PROVE  MembershipInv'
<1>0. /\ Typed /\ RegistryInv /\ StoredInv /\ OpeningsApart /\ ClosingInv
      /\ \A v \in Users : PlayerInv(v)
  BY TypedFacts DEF MembershipInv
<1>1. RegistryInv' /\ StoredInv'
  BY <1>0 DEF RegistryInv, StoredInv, Typed
<1>2. OpeningsApart'
  BY <1>0 DEF OpeningsApart, Opening
<1>3. ClosingInv'
  BY <1>0 DEF ClosingInv, Registered, Typed
<1>4. ASSUME NEW v \in Users PROVE PlayerInv(v)'
  <2>1. PlayerInv(v) /\ OpeningInv(v) /\ MemberInv(v)
    BY <1>0 DEF PlayerInv
  <2>2. Undisturbed(v)
    BY <1>0, <2>1 DEF Undisturbed, Opening, OpeningInv, MemberInv, Typed
  <2> QED
    BY <1>0, <2>1, <2>2, PlayerKeeps
<1> QED
  BY <1>1, <1>2, <1>3, <1>4 DEF MembershipInv

LEMMA PlaceBetStep ==
  ASSUME MembershipInv, NEW u \in Users, NEW c \in Codes, PlaceBet(u, c)
  PROVE  MembershipInv'
<1>0. TypeOK /\ Typed /\ ClosedHoldsNoBet
  BY Parts
<1>1. PICK r \in Rooms : r = rooms[c] /\ ~room[r].closed
  BY <1>0 DEF PlaceBet, MayWager, Typed
<1>2. PICK bets \in {room[r].table.bets \cup {u}, room[r].table.bets \ {u}} :
        room' = [room EXCEPT ![r] = DealWhenAllBet([room[r] EXCEPT !.table.bets = bets])]
  BY <1>1 DEF PlaceBet
<1>3. room[r] \in RoomStates /\ room[r].table \in Tables /\ bets \subseteq Users
  BY <1>0, <1>2 DEF Typed, RoomStates, Tables
<1>4. PICK x : x = [room[r] EXCEPT !.table.bets = bets]
  OBVIOUS
<1>5. x \in RoomStates /\ x.code = room[r].code /\ x.closed = room[r].closed
      /\ x.standing = room[r].standing
  BY <1>3, <1>4 DEF RoomStates, Tables
<1>6. PICK y : y = DealWhenAllBet(x)
  OBVIOUS
<1>7. y \in RoomStates /\ y.code = room[r].code /\ y.closed = room[r].closed
      /\ y.standing = room[r].standing
  BY <1>5, <1>6, DealWhenAllBetFacts
<1>8. Becomes(r, y)
  BY <1>2, <1>4, <1>6 DEF Becomes
<1>9. /\ room' \in [Rooms -> RoomStates] /\ room'[r] = y
      /\ \A q \in Rooms : q # r => room'[q] = room[q]
      /\ ClosedHoldsNoBet'
  BY <1>1, <1>7, <1>8, BecomesFacts
<1>10. /\ UNCHANGED <<rooms, seats, wallet, op, closing, row, member, purged, faults>>
       /\ requests' = requests + 1
  BY DEF PlaceBet, storage
<1>11. TypeOK'
  BY <1>0, <1>9, <1>10 DEF TypeOK, RoomStates
<1>12. \A q \in Rooms : /\ room'[q].code = room[q].code /\ room'[q].closed = room[q].closed
                        /\ room'[q].standing = room[q].standing
  BY <1>7, <1>9
<1> QED
  BY <1>9, <1>10, <1>11, <1>12, TableStep

LEMMA DealStep ==
  ASSUME MembershipInv, NEW r \in Rooms, Deal(r)
  PROVE  MembershipInv'
<1>0. TypeOK /\ Typed /\ ClosedHoldsNoBet /\ ~room[r].closed
  BY TypedFacts DEF MembershipInv, Deal
<1>1. PICK x : x = DealWhenAllBet(room[r])
  OBVIOUS
<1>2. PICK t \in Ticked(x.table) : room' = [room EXCEPT ![r] = [x EXCEPT !.table = t]]
  BY <1>1 DEF Deal
<1>3. /\ x \in RoomStates /\ x.code = room[r].code /\ x.closed = room[r].closed
      /\ x.standing = room[r].standing
  BY <1>0, <1>1, DealWhenAllBetFacts DEF Typed
<1>4. t \in Tables
  BY <1>2, <1>3, TickedFacts DEF RoomStates
<1>5. PICK y : y = [x EXCEPT !.table = t]
  OBVIOUS
<1>6. y \in RoomStates /\ y.code = room[r].code /\ y.closed = room[r].closed
      /\ y.standing = room[r].standing
  BY <1>3, <1>4, <1>5, WithTableFacts
<1>7. Becomes(r, y)
  BY <1>2, <1>5 DEF Becomes
<1>8. /\ room' \in [Rooms -> RoomStates] /\ room'[r] = y
      /\ \A q \in Rooms : q # r => room'[q] = room[q]
      /\ ClosedHoldsNoBet'
  BY <1>0, <1>6, <1>7, BecomesFacts
<1>9. UNCHANGED <<rooms, seats, wallet, op, closing, row, member, purged, requests, faults>>
  BY DEF Deal, storage
<1>10. TypeOK'
  BY <1>0, <1>8, <1>9 DEF TypeOK, RoomStates
<1>11. \A q \in Rooms : /\ room'[q].code = room[q].code /\ room'[q].closed = room[q].closed
                        /\ room'[q].standing = room[q].standing
  BY <1>6, <1>8
<1> QED
  BY <1>8, <1>9, <1>10, <1>11, TableStep

LEMMA PersistStep ==
  ASSUME MembershipInv, NEW r \in Rooms, Persist(r)
  PROVE  MembershipInv'
<1>0. TypeOK /\ Typed /\ ClosedHoldsNoBet
  BY TypedFacts DEF MembershipInv
<1>1. PICK c \in Codes : c = room[r].code /\ row[c] # None
  BY <1>0 DEF Persist, Registered, Flushed, Typed
<1>2. row[c] \in Rows /\ room[r].table \in Tables
  BY <1>0, <1>1 DEF TypeOK
<1>3. PICK w : w = [row[c] EXCEPT !.table = room[r].table]
  OBVIOUS
<1>4. w \in Rows /\ w.room = row[c].room
  BY <1>2, <1>3 DEF Rows
<1>5. row' = [row EXCEPT ![c] = w]
  BY <1>1, <1>3 DEF Persist
<1>6. row' \in [Codes -> Rows \cup {None}] /\ row'[c] = w /\ \A k \in Codes : k # c => row'[k] = row[k]
  BY <1>0, <1>4, <1>5 DEF TypeOK
<1>7. UNCHANGED <<rooms, seats, room, wallet, op, closing, member, purged, requests, faults>>
  BY DEF Persist, memory
<1>8. TypeOK' /\ ClosedHoldsNoBet'
  BY <1>0, <1>6, <1>7 DEF TypeOK, ClosedHoldsNoBet
<1>9. w # None
  BY <1>4, MembershipAssumption
<1>10. \A k \in Codes : /\ row'[k] = None <=> row[k] = None
                        /\ row[k] # None => row'[k].room = row[k].room
  BY <1>1, <1>4, <1>6, <1>9
<1> QED
  BY <1>7, <1>8, <1>10, TableStep

----------------------------------------------------------------------------
(* Leave, and the deletion of an account. *)

LEMMA LeaveDeleteStep ==
  ASSUME MembershipInv, NEW u \in Users, LeaveDelete(u)
  PROVE  MembershipInv'
<1>r. PICK r \in Rooms, c \in Codes : r = op[u].room /\ c = op[u].code
  BY Parts DEF LeaveDelete, LeavingInv
<1>0. /\ TypeOK /\ Typed /\ LeavingInv(u) /\ ClosedHoldsNoBet /\ op[u].pc = "leaving"
  BY Parts DEF LeaveDelete
<1>1. /\ room[r].code = c /\ room[r].standing[u] = "leaving" /\ ~room[r].closed
      /\ u \notin purged => member[u] = c
  BY <1>0, <1>r DEF LeavingInv
<1>2. UNCHANGED <<rooms, seats, room, wallet, closing, requests>>
  BY DEF LeaveDelete
<1>3. SeatAt(u, r, c)
  BY <1>1, MemberSeat
<1>4. PICK out \in {"done", "refused", "unknown"} :
        /\ Answered(u, "left", out) /\ faults' \in Nat /\ UNCHANGED <<row, purged>>
        /\ \/ UNCHANGED member /\ out # "done"
           \/ /\ member' = [member EXCEPT ![u] = IF member[u] = c THEN None ELSE member[u]]
              /\ out # "refused"
  BY <1>0, <1>r DEF LeaveDelete, Commit, Fault, storage, TypeOK
<1>5. /\ op' \in [Users -> OpStates]
      /\ op'[u].pc = "left" /\ op'[u].out = out /\ op'[u].code = c /\ op'[u].room = r
      /\ \A v \in Users : v # u => op'[v] = op[v]
  BY <1>0, <1>r, <1>4, AnsweredFacts DEF Phases
<1>6. /\ member' \in [Users -> Codes \cup {None}]
      /\ \A v \in Users : v # u => member'[v] = member[v]
      /\ \/ member'[u] = member[u] /\ out # "done"
         \/ member'[u] = None /\ out # "refused"
  BY <1>0, <1>3, <1>4 DEF TypeOK, SeatAt
<1>7. TypeOK' /\ ClosedHoldsNoBet'
  BY <1>0, <1>2, <1>4, <1>5, <1>6 DEF TypeOK, OpStates, ClosedHoldsNoBet
<1>8. UserMove(u)
  BY <1>2, <1>4, <1>5, <1>6 DEF UserMove
<1>9. SeatAt(u, r, c)'
  BY <1>1, <1>2, <1>3, <1>4, <1>6 DEF SeatAt
<1>10. SeatInv(u)' /\ WalletInv(u)' /\ MemberInv(u)'
  BY <1>9, SeatAtInv
<1>11. LeavingInv(u)'
  BY <1>1, <1>2, <1>4, <1>5, <1>6 DEF LeavingInv
<1>12. OpeningInv(u)' /\ CreatingInv(u)' /\ CreatedInv(u)' /\ JoiningInv(u)' /\ ~Opening(u)'
  BY <1>5 DEF OpeningInv, Opening, CreatingInv, CreatedInv, JoiningInv
<1> QED
  BY <1>7, <1>8, <1>10, <1>11, <1>12, UserMoveStep DEF PlayerInv

LEMMA PurgeAccountStep ==
  ASSUME MembershipInv, NEW u \in Users, PurgeAccount(u)
  PROVE  MembershipInv'
<1>0. /\ TypeOK /\ Typed /\ OpeningsApart /\ ClosedHoldsNoBet
      /\ SeatInv(u) /\ WalletInv(u) /\ MemberInv(u) /\ OpeningInv(u)
      /\ CreatingInv(u) /\ CreatedInv(u) /\ JoiningInv(u) /\ LeavingInv(u)
  BY Parts
<1>1. /\ UNCHANGED <<rooms, seats, room, wallet, op, closing, row, requests>>
      /\ purged' = purged \cup {u} /\ member' = [member EXCEPT ![u] = None]
      /\ faults' \in Nat
  BY <1>0 DEF PurgeAccount, Fault, memory, TypeOK
<1>2. /\ member' \in [Users -> Codes \cup {None}] /\ member'[u] = None
      /\ \A v \in Users : v # u => member'[v] = member[v]
  BY <1>0, <1>1 DEF TypeOK
<1>3. TypeOK' /\ ClosedHoldsNoBet'
  BY <1>0, <1>1, <1>2 DEF TypeOK, ClosedHoldsNoBet
<1>4. UserMove(u)
  BY <1>1, <1>2 DEF UserMove
<1>5. SeatInv(u)' /\ WalletInv(u)' /\ MemberInv(u)'
  BY <1>0, <1>1, <1>2 DEF SeatInv, WalletInv, MemberInv, Registered
<1>6. OpeningInv(u)' /\ CreatingInv(u)' /\ CreatedInv(u)'
  BY <1>0, <1>1, <1>2 DEF OpeningInv, Opening, CreatingInv, CreatedInv
<1>7. JoiningInv(u)' /\ LeavingInv(u)'
  BY <1>0, <1>1, <1>2 DEF JoiningInv, LeavingInv
<1>8. \A v \in Users : v # u /\ Opening(u)' /\ Opening(v) =>
        op'[u].code # op[v].code /\ op'[u].room # op[v].room
  BY <1>0, <1>1 DEF OpeningsApart, Opening
<1> QED
  BY <1>3, <1>4, <1>5, <1>6, <1>7, <1>8, UserMoveStep DEF PlayerInv

LEMMA LeaveBeginStep ==
  ASSUME MembershipInv, NEW u \in Users, LeaveBegin(u)
  PROVE  MembershipInv'
<1>0. /\ TypeOK /\ Typed /\ RegistryInv /\ ClosedHoldsNoBet /\ op[u].pc = "free"
      /\ SeatInv(u) /\ WalletInv(u) /\ MemberInv(u)
  BY Parts DEF LeaveBegin, Request
<1>c. PICK c \in Codes : c = seats[u]
  BY <1>0 DEF LeaveBegin, Typed
<1>1. /\ UNCHANGED <<rooms, wallet, closing, row, member, purged, faults>>
      /\ requests' = requests + 1
  BY DEF LeaveBegin, Request, storage
<1>2. ASSUME UNCHANGED op, room' \in [Rooms -> RoomStates], ClosedHoldsNoBet',
             \A q \in Rooms : /\ room'[q].code = room[q].code /\ room'[q].closed = room[q].closed
                              /\ room'[q].standing = room[q].standing,
             \A q \in Rooms : room[q].standing[u] = "out",
             seats' = ReleaseSeats({u}, c)
      PROVE  MembershipInv'
  <2>1. wallet[u] = None /\ member[u] = None
    BY <1>0, <1>2 DEF WalletInv, MemberInv, Typed
  <2>2. /\ seats' \in [Users -> Codes \cup {None}]
        /\ \A v \in Users : v # u => seats'[v] = seats[v]
    BY <1>0, <1>2 DEF ReleaseSeats, Typed
  <2>a. room' \in [Rooms -> RoomStates] /\ UNCHANGED op
    BY <1>2
  <2>3. TypeOK'
    BY <1>0, <1>1, <2>2, <2>a DEF TypeOK, RoomStates
  <2>4. UserMove(u)
    BY <1>1, <1>2, <2>2 DEF UserMove
  <2>5. Nowhere(u)'
    BY <1>1, <1>2, <2>1 DEF Nowhere
  <2>6. SeatInv(u)' /\ WalletInv(u)' /\ MemberInv(u)'
    BY <2>5, NowhereInv
  <2>7. /\ OpeningInv(u)' /\ CreatingInv(u)' /\ CreatedInv(u)' /\ JoiningInv(u)' /\ LeavingInv(u)'
        /\ ~Opening(u)'
    BY <1>0, <1>2 DEF OpeningInv, Opening, CreatingInv, CreatedInv, JoiningInv, LeavingInv
  <2> QED
    BY <1>2, <2>3, <2>4, <2>6, <2>7, UserMoveStep DEF PlayerInv
<1>3. CASE rooms[c] = None
  <2>1. UNCHANGED <<room, op>> /\ seats' = ReleaseSeats({u}, c)
    BY <1>c, <1>3 DEF LeaveBegin
  <2>2. \A q \in Rooms : room[q].standing[u] = "out"
    BY <1>0, <1>c, <1>3 DEF SeatInv, Registered, Typed
  <2>3. room' \in [Rooms -> RoomStates] /\ ClosedHoldsNoBet'
    BY <1>0, <2>1 DEF TypeOK, RoomStates, ClosedHoldsNoBet
  <2> QED
    BY <1>2, <2>1, <2>2, <2>3
<1>4. CASE rooms[c] # None
  <2>1. PICK r \in Rooms : r = rooms[c]
    BY <1>0, <1>4 DEF Typed
  <2>2. PICK t, x : t \in Ticked(room[r].table) /\ x = [room[r] EXCEPT !.table = t] /\
          (\/ /\ room' = [room EXCEPT ![r] = x] /\ UNCHANGED <<seats, op>>
           \/ /\ x.standing[u] = "out" /\ room' = [room EXCEPT ![r] = x]
              /\ seats' = ReleaseSeats({u}, c) /\ UNCHANGED op
           \/ /\ x.standing[u] = "seated" /\ room' = [room EXCEPT ![r] = SetStanding(x, u, "leaving")]
              /\ op' = [op EXCEPT ![u] = [pc |-> "leaving", code |-> c, room |-> r, out |-> "none"]]
              /\ UNCHANGED seats)
    BY <1>c, <1>4, <2>1 DEF LeaveBegin
  <2>3. /\ room[r] \in RoomStates /\ room[r].table \in Tables
        /\ room[r].closed => ~OpenBets(room[r])
    BY <1>0 DEF Typed, ClosedHoldsNoBet, RoomStates
  <2>4. t \in Tables /\ (~t.settled /\ t.bets # {} => ~room[r].table.settled /\ room[r].table.bets # {})
    BY <2>2, <2>3, TickedFacts
  <2>5. /\ x \in RoomStates /\ x.table = t /\ x.code = room[r].code
        /\ x.closed = room[r].closed /\ x.standing = room[r].standing
    BY <2>2, <2>3, <2>4, WithTableFacts
  <2>6. x.closed => ~OpenBets(x)
    BY <2>3, <2>4, <2>5 DEF OpenBets
  <2>7. ASSUME room' = [room EXCEPT ![r] = x]
        PROVE  /\ room' \in [Rooms -> RoomStates] /\ ClosedHoldsNoBet'
               /\ \A q \in Rooms : /\ room'[q].code = room[q].code /\ room'[q].closed = room[q].closed
                                   /\ room'[q].standing = room[q].standing
    <3>1. Becomes(r, x)
      BY <2>7 DEF Becomes
    <3>2. /\ room' \in [Rooms -> RoomStates] /\ room'[r] = x
          /\ \A q \in Rooms : q # r => room'[q] = room[q]
          /\ ClosedHoldsNoBet'
      BY <2>5, <2>6, <3>1, BecomesFacts
    <3> QED
      BY <2>5, <3>2
  <2>8. CASE room' = [room EXCEPT ![r] = x] /\ UNCHANGED <<seats, op>>
    <3>1. TypeOK'
      BY <1>0, <1>1, <2>7, <2>8 DEF TypeOK, RoomStates
    <3> QED
      BY <1>1, <2>7, <2>8, <3>1, TableStep
  <2>9. CASE /\ x.standing[u] = "out" /\ room' = [room EXCEPT ![r] = x]
             /\ seats' = ReleaseSeats({u}, c) /\ UNCHANGED op
    <3>1. \A q \in Rooms : room[q].standing[u] = "out"
      BY <1>0, <1>c, <2>1, <2>5, <2>9 DEF SeatInv, Registered
    <3> QED
      BY <1>2, <2>7, <2>9, <3>1
  <2>10. CASE /\ x.standing[u] = "seated" /\ room' = [room EXCEPT ![r] = SetStanding(x, u, "leaving")]
              /\ op' = [op EXCEPT ![u] = [pc |-> "leaving", code |-> c, room |-> r, out |-> "none"]]
              /\ UNCHANGED seats
    <3>1. PICK w : w = [pc |-> "leaving", code |-> c, room |-> r, out |-> "none"]
      OBVIOUS
    <3>2. w \in OpStates /\ w.pc = "leaving" /\ w.code = c /\ w.room = r
      BY <3>1 DEF OpStates, Phases
    <3>3. op' \in [Users -> OpStates] /\ op'[u] = w /\ \A v \in Users : v # u => op'[v] = op[v]
      BY <1>0, <2>10, <3>1, <3>2, OpSet
    <3>4. PICK y : y = SetStanding(x, u, "leaving")
      OBVIOUS
    <3>a. "leaving" \in Standing
      BY DEF Standing
    <3>5. /\ y \in RoomStates /\ y.standing[u] = "leaving"
          /\ y.code = x.code /\ y.closed = x.closed /\ y.table = x.table
          /\ \A v \in Users : v # u => y.standing[v] = x.standing[v]
      BY <2>5, <3>4, <3>a, SetStandingFacts
    <3>6. Becomes(r, y) /\ (y.closed => ~OpenBets(y))
      BY <2>6, <2>10, <3>4, <3>5 DEF Becomes, OpenBets
    <3>7. /\ room' \in [Rooms -> RoomStates] /\ room'[r] = y
          /\ \A q \in Rooms : q # r => room'[q] = room[q]
          /\ ClosedHoldsNoBet'
      BY <3>5, <3>6, BecomesFacts
    <3>8. room[r].standing[u] = "seated" /\ room[r].code = c
      BY <1>0, <2>1, <2>5, <2>10 DEF RegistryInv, Typed
    <3>9. SeatAt(u, r, c)
      BY <3>8, MemberSeat
    <3>10. ~room[r].closed
      BY <1>0, <3>9 DEF SeatAt
    <3>11. TypeOK'
      BY <1>0, <1>1, <2>10, <3>3, <3>7 DEF TypeOK, RoomStates, OpStates
    <3>12. UserMove(u)
      BY <1>1, <2>5, <2>10, <3>3, <3>5, <3>7, <3>10 DEF UserMove
    <3>13. SeatAt(u, r, c)'
      BY <1>1, <2>5, <2>10, <3>5, <3>7, <3>8, <3>9, <3>10 DEF SeatAt
    <3>14. SeatInv(u)' /\ WalletInv(u)' /\ MemberInv(u)'
      BY <3>13, SeatAtInv
    <3>15. LeavingInv(u)'
      BY <1>1, <2>5, <3>2, <3>3, <3>5, <3>7, <3>8, <3>9, <3>10 DEF LeavingInv, SeatAt
    <3>16. OpeningInv(u)' /\ CreatingInv(u)' /\ CreatedInv(u)' /\ JoiningInv(u)' /\ ~Opening(u)'
      BY <3>2, <3>3 DEF OpeningInv, Opening, CreatingInv, CreatedInv, JoiningInv
    <3> QED
      BY <3>7, <3>11, <3>12, <3>14, <3>15, <3>16, UserMoveStep DEF PlayerInv
  <2> QED
    BY <2>2, <2>8, <2>9, <2>10
<1> QED
  BY <1>3, <1>4

(* A step inside one open room, which may close it once it is empty. *)
InRoom(r) ==
  /\ UNCHANGED <<rooms, row, member, purged>>
  /\ \A q \in Rooms : q # r => room'[q] = room[q] /\ closing'[q] = closing[q]
  /\ room'[r].code = room[r].code /\ Registered(r) /\ ~room[r].closed

(* A player to whom such a step does nothing. *)
LEMMA Bystander ==
  ASSUME MembershipInv, NEW r \in Rooms, NEW v \in Users, InRoom(r),
         op'[v] = op[v], seats'[v] = seats[v], wallet'[v] = wallet[v],
         room'[r].standing[v] = room[r].standing[v],
         room[r].standing[v] # "out" => ~room'[r].closed
  PROVE  PlayerInv(v)'
<1>0. Typed /\ RegistryInv /\ PlayerInv(v) /\ OpeningInv(v) /\ MemberInv(v)
  BY TypedFacts DEF MembershipInv, PlayerInv
<1>1. \A q \in Rooms :
        /\ room'[q].code = room[q].code /\ room'[q].standing[v] = room[q].standing[v]
        /\ room[q].standing[v] # "out" => (room'[q].closed <=> room[q].closed)
  BY DEF InRoom
<1>2. Undisturbed(v)
  BY <1>0, <1>1 DEF Undisturbed, InRoom, Opening, OpeningInv, MemberInv
<1> QED
  BY <1>0, <1>2, PlayerKeeps

LEMMA InRoomStep ==
  ASSUME MembershipInv, NEW r \in Rooms, InRoom(r), TypeOK', ClosedHoldsNoBet',
         \A v \in Users : PlayerInv(v)',
         \A v \in Users : Opening(v)' => op'[v] = op[v],
         closing'[r].pc # "none" =>
           /\ room'[r].closed /\ closing'[r].pc = "deleting"
           /\ \A v \in Users : room'[r].standing[v] # "out" <=> v \in closing'[r].members
  PROVE  MembershipInv'
<1>0. Typed /\ RegistryInv /\ StoredInv /\ OpeningsApart /\ ClosingInv
  BY TypedFacts DEF MembershipInv
<1>1. \A q \in Rooms : room'[q].code = room[q].code
  BY DEF InRoom
<1>2. RegistryInv'
  BY <1>0, <1>1 DEF RegistryInv, InRoom, Registered, Typed
<1>3. StoredInv'
  BY <1>0 DEF StoredInv, InRoom
<1>4. OpeningsApart'
  BY <1>0 DEF OpeningsApart, Opening
<1>5. ClosingInv'
  <2> SUFFICES ASSUME NEW q \in Rooms, closing'[q].pc # "none"
               PROVE  /\ room'[q].closed /\ Registered(q)'
                      /\ \A v \in Users : room'[q].standing[v] # "out" <=> v \in closing'[q].members
                      /\ closing'[q].pc = "deleted" => row'[room'[q].code] = None
    BY DEF ClosingInv
  <2>1. CASE q = r
    BY <2>1 DEF InRoom, Registered
  <2>2. CASE q # r
    BY <1>0, <2>2 DEF InRoom, Registered, ClosingInv
  <2> QED
    BY <2>1, <2>2
<1> QED
  BY <1>2, <1>3, <1>4, <1>5 DEF MembershipInv

LEMMA EmptyAndClosedFacts ==
  ASSUME NEW y \in RoomStates, ~y.closed, NEW z, z = EmptyAndClosed(y)
  PROVE  /\ z \in RoomStates
         /\ z.code = y.code /\ z.standing = y.standing /\ z.table = y.table
         /\ z.closed => ~OpenBets(z) /\ \A v \in Users : z.standing[v] = "out"
<1>1. z = y \/ (z = [y EXCEPT !.closed = TRUE] /\ Members(y) = {} /\ ~OpenBets(y))
  BY DEF EmptyAndClosed
<1>2. CASE z = y
  BY <1>2
<1>3. CASE z = [y EXCEPT !.closed = TRUE] /\ Members(y) = {} /\ ~OpenBets(y)
  <2>1. /\ z \in RoomStates
        /\ z.code = y.code /\ z.standing = y.standing /\ z.table = y.table
    BY <1>3 DEF RoomStates
  <2> QED
    BY <1>3, <2>1 DEF Members, OpenBets
<1> QED
  BY <1>1, <1>2, <1>3

CloseStates ==
  [pc : {"none", "deleting", "deleted"}, requireEmpty : BOOLEAN,
   members : SUBSET Users, round : Nat]

LEMMA DropRoomFacts ==
  ASSUME MembershipInv, NEW r \in Rooms, ~room[r].closed, NEW x \in RoomStates,
         closing' = DropRoom(r, x)
  PROVE  /\ closing' \in [Rooms -> CloseStates]
         /\ \A q \in Rooms : q # r => closing'[q] = closing[q]
         /\ closing'[r].pc # "none" =>
              x.closed /\ closing'[r].pc = "deleting" /\ closing'[r].members = {}
<1>0. closing \in [Rooms -> CloseStates] /\ closing[r].pc = "none"
  BY DEF MembershipInv, TypeOK, ClosingInv, CloseStates
<1>1. CASE ~x.closed
  BY <1>0, <1>1 DEF DropRoom
<1>2. CASE x.closed
  <2>1. PICK w : w = [pc |-> "deleting", requireEmpty |-> TRUE, members |-> {}, round |-> x.table.round]
    OBVIOUS
  <2>2. w \in CloseStates /\ w.pc = "deleting" /\ w.members = {}
    BY <2>1 DEF CloseStates, RoomStates, Tables
  <2>3. closing' = [closing EXCEPT ![r] = w]
    BY <1>2, <2>1 DEF DropRoom
  <2> QED
    BY <1>0, <1>2, <2>2, <2>3
<1> QED
  BY <1>1, <1>2

LEMMA LeaveFinishStep ==
  ASSUME MembershipInv, NEW u \in Users, LeaveFinish(u)
  PROVE  MembershipInv'
<1>r. PICK r \in Rooms, c \in Codes : r = op[u].room /\ c = op[u].code
  BY Parts DEF LeaveFinish, LeavingInv
<1>0. /\ TypeOK /\ Typed /\ RegistryInv /\ SeatInv(u) /\ WalletInv(u) /\ MemberInv(u)
      /\ LeavingInv(u) /\ ClosedHoldsNoBet /\ op[u].pc = "left"
  BY Parts DEF LeaveFinish
<1>1. /\ room[r].code = c
      /\ room[r].standing[u] = "leaving" /\ ~room[r].closed
      /\ op[u].out \in {"done", "refused", "unknown"}
  BY <1>0, <1>r DEF LeavingInv, Typed, OpStates
<1>2. UNCHANGED <<rooms, row, member, purged, requests, faults>>
  BY DEF LeaveFinish, storage
<1>3. op' = [op EXCEPT ![u] = Free]
  BY DEF LeaveFinish
<1>4. op' \in [Users -> OpStates] /\ op'[u] = Free /\ \A v \in Users : v # u => op'[v] = op[v]
  BY <1>0, <1>3, OpSet, FreeOp
<1>5. SeatAt(u, r, c)
  BY <1>1, MemberSeat
<1>6. wallet[u] = c /\ member[u] \in {None, c}
  BY <1>1, <1>5 DEF SeatAt
<1>7. PICK verdict \in LeaveVerdicts(u) :
       \/ /\ verdict = "gone"
          /\ LET x == EmptyAndClosed(DealWhenAllBet(SetStanding(room[r], u, "out")))
             IN  /\ room' = [room EXCEPT ![r] = x]
                 /\ closing' = DropRoom(r, x)
          /\ wallet' = RetireWallets({u}, c)
          /\ seats' = ReleaseSeats({u}, c)
       \/ /\ verdict = "seated"
          /\ room' = IF u \in Members(room[r])
                     THEN [room EXCEPT ![r] = SetStanding(room[r], u, "seated")] ELSE room
          /\ UNCHANGED <<wallet, seats, closing>>
       \/ verdict = "maybe" /\ UNCHANGED <<room, wallet, seats, closing>>
  BY <1>r DEF LeaveFinish
<1>8. CASE verdict = "gone"
  <2>1. PICK x1 : x1 = SetStanding(room[r], u, "out")
    OBVIOUS
  <2>2. PICK x2 : x2 = DealWhenAllBet(x1)
    OBVIOUS
  <2>3. PICK x : x = EmptyAndClosed(x2)
    OBVIOUS
  <2>4. /\ Becomes(r, x) /\ closing' = DropRoom(r, x)
        /\ wallet' = RetireWallets({u}, c) /\ seats' = ReleaseSeats({u}, c)
    BY <1>7, <1>8, <2>1, <2>2, <2>3 DEF Becomes
  <2>5. room[r] \in RoomStates /\ "out" \in Standing
    BY <1>0 DEF Typed, Standing
  <2>6. /\ x1 \in RoomStates /\ x1.standing[u] = "out"
        /\ x1.code = c /\ x1.closed = room[r].closed
        /\ \A v \in Users : v # u => x1.standing[v] = room[r].standing[v]
    BY <1>1, <2>1, <2>5, SetStandingFacts
  <2>7. x2 \in RoomStates /\ x2.code = c /\ x2.closed = room[r].closed /\ x2.standing = x1.standing
    BY <2>2, <2>6, DealWhenAllBetFacts
  <2>8. /\ x \in RoomStates /\ x.code = c /\ x.standing = x1.standing
        /\ x.closed => ~OpenBets(x) /\ \A v \in Users : x.standing[v] = "out"
    BY <1>1, <2>3, <2>7, EmptyAndClosedFacts
  <2>9. /\ room' \in [Rooms -> RoomStates] /\ room'[r] = x
        /\ \A q \in Rooms : q # r => room'[q] = room[q]
        /\ ClosedHoldsNoBet'
    BY <2>4, <2>8, BecomesFacts
  <2>10. /\ closing' \in [Rooms -> CloseStates]
         /\ \A q \in Rooms : q # r => closing'[q] = closing[q]
         /\ closing'[r].pc # "none" =>
              x.closed /\ closing'[r].pc = "deleting" /\ closing'[r].members = {}
    BY <1>1, <2>4, <2>8, DropRoomFacts
  <2>11. /\ wallet' \in [Users -> Codes \cup {None}] /\ wallet'[u] = None
         /\ seats' \in [Users -> Codes \cup {None}]
         /\ \A v \in Users : v # u => wallet'[v] = wallet[v] /\ seats'[v] = seats[v]
    BY <1>0, <1>6, <2>4 DEF RetireWallets, ReleaseSeats, Typed
  <2>12. member[u] = None
    BY <1>r, <1>0, <1>1, <1>6, <1>8 DEF LeaveVerdicts, LeavingInv
  <2>13. TypeOK'
    BY <1>0, <1>2, <1>4, <2>9, <2>10, <2>11 DEF TypeOK, RoomStates, OpStates, CloseStates
  <2>14. InRoom(r)
    BY <1>1, <1>2, <1>5, <2>8, <2>9, <2>10, <1>0 DEF InRoom, Registered, SeatAt, Typed
  <2>15. PlayerInv(u)'
    <3>1. Nowhere(u)'
      BY <1>2, <1>5, <2>6, <2>8, <2>9, <2>11, <2>12 DEF Nowhere, SeatAt
    <3> QED
      BY <1>4, <3>1, NowhereInv, FreePlayer
  <2>16. ASSUME NEW v \in Users, v # u PROVE PlayerInv(v)'
    BY <1>4, <2>6, <2>8, <2>9, <2>11, <2>14, <2>16, Bystander
  <2>17. \A v \in Users : Opening(v)' => op'[v] = op[v]
    BY <1>4 DEF Opening, Free
  <2> QED
    BY <2>8, <2>9, <2>10, <2>13, <2>14, <2>15, <2>16, <2>17, InRoomStep
<1>9. CASE verdict = "seated"
  <2>1. room' = [room EXCEPT ![r] = SetStanding(room[r], u, "seated")] /\ UNCHANGED <<wallet, seats, closing>>
    BY <1>1, <1>7, <1>9 DEF Members
  <2>2. "seated" \in Standing
    BY DEF Standing
  <2>3. /\ room' \in [Rooms -> RoomStates] /\ ClosedHoldsNoBet'
        /\ \A q \in Rooms : room'[q].code = room[q].code /\ room'[q].closed = room[q].closed
        /\ room'[r].standing[u] = "seated"
        /\ \A q \in Rooms : \A v \in Users :
             q # r \/ v # u => room'[q].standing[v] = room[q].standing[v]
    <3>1. Moves(r, u, "seated")
      BY <2>1 DEF Moves
    <3> QED
      BY <2>2, <3>1, StandingMove
  <2>4. u \notin purged => member[u] = c
    BY <1>r, <1>0, <1>1, <1>9 DEF LeaveVerdicts, LeavingInv
  <2>5. TypeOK'
    BY <1>0, <1>2, <1>4, <2>1, <2>3 DEF TypeOK, RoomStates, OpStates
  <2>6. UserMove(u)
    BY <1>1, <1>2, <1>4, <2>1, <2>3 DEF UserMove
  <2>7. SeatAt(u, r, c)'
    BY <1>1, <1>2, <1>5, <1>6, <2>1, <2>3, <2>4 DEF SeatAt
  <2>8. SeatInv(u)' /\ WalletInv(u)' /\ MemberInv(u)'
    BY <2>7, SeatAtInv
  <2> QED
    BY <1>4, <2>3, <2>5, <2>6, <2>8, FreePlayer, UserMoveStep
<1>10. CASE verdict = "maybe"
  <2>1. UNCHANGED <<room, wallet, seats, closing>>
    BY <1>7, <1>10
  <2>2. TypeOK' /\ ClosedHoldsNoBet'
    BY <1>0, <1>2, <1>4, <2>1 DEF TypeOK, OpStates, ClosedHoldsNoBet
  <2>3. UserMove(u)
    BY <1>2, <1>4, <2>1 DEF UserMove
  <2>4. SeatAt(u, r, c)'
    BY <1>1, <1>2, <1>5, <2>1 DEF SeatAt
  <2>5. SeatInv(u)' /\ WalletInv(u)' /\ MemberInv(u)'
    BY <2>4, SeatAtInv
  <2> QED
    BY <1>4, <2>2, <2>3, <2>5, FreePlayer, UserMoveStep
<1> QED
  BY <1>7, <1>8, <1>9, <1>10

----------------------------------------------------------------------------
(* The sweep. *)

(* A member it seats, from a row it read with the room's lock held. *)
LEMMA SweptIn ==
  ASSUME MembershipInv, NEW r \in Rooms, NEW v \in Users, InRoom(r),
         room[r].standing[v] \in {"joining", "leaving"}, op[v].pc = "free",
         member[v] = room[r].code, op' = op, seats'[v] = seats[v],
         wallet'[v] = IF wallet[v] = None THEN room[r].code ELSE wallet[v],
         room'[r].standing[v] = "seated", ~room'[r].closed
  PROVE  PlayerInv(v)'
<1>1. PICK c \in Codes : c = room[r].code /\ SeatAt(v, r, c)
  BY MemberSeat
<1>2. SeatAt(v, r, c)'
  <2>1. rooms' = rooms /\ row' = row /\ member' = member /\ room'[r].code = c
    BY <1>1 DEF InRoom
  <2>2. wallet'[v] = c /\ wallet[v] \in {None, c} /\ seats'[v] = c
    BY <1>1 DEF SeatAt
  <2>3. \A q \in Rooms : q # r => room'[q].standing[v] = "out"
    BY <1>1 DEF SeatAt, InRoom
  <2>4. c # None /\ row[c] # None /\ rooms[c] = r
    BY <1>1, MembershipAssumption DEF SeatAt
  <2> QED
    BY <1>1, <2>1, <2>2, <2>3, <2>4 DEF SeatAt
<1>3. SeatInv(v)' /\ WalletInv(v)' /\ MemberInv(v)'
  BY <1>2, SeatAtInv
<1>4. op'[v].pc = "free"
  OBVIOUS
<1>5. OpeningInv(v)' /\ CreatingInv(v)' /\ CreatedInv(v)' /\ JoiningInv(v)' /\ LeavingInv(v)'
  BY <1>4 DEF OpeningInv, Opening, CreatingInv, CreatedInv, JoiningInv, LeavingInv
<1> QED
  BY <1>3, <1>5 DEF PlayerInv

(* A member it removes, because the row it read is gone. *)
LEMMA SweptOut ==
  ASSUME MembershipInv, NEW r \in Rooms, NEW v \in Users, InRoom(r),
         room[r].standing[v] # "out",
         room[r].standing[v] \in {"joining", "leaving"} => op[v].pc = "free",
         member[v] # room[r].code, op' = op,
         wallet'[v] = IF wallet[v] = room[r].code THEN None ELSE wallet[v],
         room'[r].standing[v] = "out"
  PROVE  PlayerInv(v)'
<1>0. JoiningInv(v) /\ LeavingInv(v) /\ OpeningInv(v) /\ SeatInv(v) /\ Typed
  BY Parts
<1>1. PICK c \in Codes : c = room[r].code /\ SeatAt(v, r, c)
  BY MemberSeat
<1>2. member[v] = None /\ wallet[v] \in {None, c}
  BY <1>1 DEF SeatAt
<1>3. Nowhere(v)'
  BY <1>1, <1>2 DEF Nowhere, SeatAt, InRoom
<1>4. SeatInv(v)' /\ WalletInv(v)' /\ MemberInv(v)'
  BY <1>3, NowhereInv
<1>5. \A q \in Rooms : room[q].standing[v] # "out" => q = r
  BY <1>1 DEF SeatAt
<1>6. op[v].pc \notin {"admitting", "admitted"}
  BY <1>0, <1>5 DEF JoiningInv
<1>7. op[v].pc \notin {"leaving", "left"}
  BY <1>0, <1>5 DEF LeavingInv
<1>8. op[v].pc \notin {"creating", "created"}
  BY RowOfSeat
<1>9. \A q \in Rooms : room'[q].code = room[q].code
  BY DEF InRoom
<1>10. JoiningInv(v)' /\ LeavingInv(v)'
  BY <1>0, <1>6, <1>7, <1>9 DEF JoiningInv, LeavingInv
<1>11. OpeningInv(v)' /\ CreatingInv(v)' /\ CreatedInv(v)'
  BY <1>8 DEF OpeningInv, Opening, CreatingInv, CreatedInv
<1> QED
  BY <1>4, <1>10, <1>11 DEF PlayerInv

LEMMA SweepStep ==
  ASSUME MembershipInv, NEW r \in Rooms, Sweep(r)
  PROVE  MembershipInv'
<1>0. /\ TypeOK /\ Typed /\ ClosedHoldsNoBet /\ ~room[r].closed /\ Registered(r)
      /\ room[r] \in RoomStates
  BY TypedFacts DEF MembershipInv, Sweep, Typed
<1> DEFINE x == room[r]
           c == x.code
<1>c. c \in Codes /\ rooms[c] = r /\ c = room[r].code
  BY <1>0 DEF Registered, Typed
<1>1. UNCHANGED <<rooms, op, row, member, purged, requests>>
  BY DEF Sweep, storage
<1> DEFINE held    == Reconcilable(r)
           present == {u \in Users : member[u] = c}
           finish  == {u \in held \cap present : x.standing[u] = "joining"}
           stay    == {u \in held \cap present : x.standing[u] = "leaving"}
<1>2. \A v \in Users : Opening(v)' => op'[v] = op[v]
  BY <1>1
<1> DEFINE Gone(idle) == (held \ present) \cup (IF idle THEN Seated(x) \ present ELSE {})
           Y(idle) == [x EXCEPT !.standing = [u \in Users |->
                        IF u \in Gone(idle) THEN "out"
                        ELSE IF u \in finish \cup stay THEN "seated" ELSE x.standing[u]]]
           Z(idle) == EmptyAndClosed(
                        [Y(idle) EXCEPT !.published = Y(idle).published
                           \/ (Members(Y(idle)) # {} /\ Members(Y(idle)) = Seated(Y(idle)))])
           Full(idle) ==
             /\ room' = [room EXCEPT ![r] = Z(idle)]
             /\ wallet' = [u \in Users |-> IF u \in finish THEN ActivateWallets(finish, c)[u]
                                           ELSE RetireWallets(Gone(idle), c)[u]]
             /\ seats' = ReleaseSeats(Gone(idle), c)
             /\ closing' = DropRoom(r, Z(idle))
             /\ UNCHANGED faults
           Part(done) ==
             /\ room' = [room EXCEPT ![r].standing = [u \in Users |->
                           IF u \in done \cup stay THEN "seated" ELSE x.standing[u]]]
             /\ wallet' = ActivateWallets(done, c)
<1>x. PICK idle \in BOOLEAN :
        \/ Full(idle)
        \/ /\ Fault
           /\ \E done \in SUBSET finish : done # finish /\ Part(done)
           /\ UNCHANGED <<seats, closing>>
  BY DEF Sweep
<1> HIDE DEF Gone, Y, Z, Full, Part
<1>3. CASE Full(idle)
  <2> DEFINE gone == Gone(idle)
             y == Y(idle)
             z == Z(idle)
  <2>x. /\ room' = [room EXCEPT ![r] = z]
        /\ wallet' = [u \in Users |-> IF u \in finish THEN ActivateWallets(finish, c)[u]
                                      ELSE RetireWallets(gone, c)[u]]
        /\ seats' = ReleaseSeats(gone, c)
        /\ closing' = DropRoom(r, z)
        /\ UNCHANGED faults
    BY <1>3 DEF Full
  <2>y. y = [x EXCEPT !.standing = [u \in Users |->
              IF u \in gone THEN "out"
              ELSE IF u \in finish \cup stay THEN "seated" ELSE x.standing[u]]]
    BY DEF Y
  <2>1. /\ y \in RoomStates /\ y.code = c /\ ~y.closed /\ y.published \in BOOLEAN
        /\ \A v \in Users : y.standing[v] = IF v \in gone THEN "out"
                              ELSE IF v \in finish \cup stay THEN "seated" ELSE x.standing[v]
    BY <1>0, <1>c, <2>y DEF RoomStates, Standing
  <2>2. PICK y2 : y2 = [y EXCEPT !.published = y.published
                                    \/ (Members(y) # {} /\ Members(y) = Seated(y))]
    OBVIOUS
  <2>3. y2 \in RoomStates /\ y2.code = c /\ ~y2.closed /\ y2.standing = y.standing
    BY <2>1, <2>2 DEF RoomStates
  <2>4. /\ z \in RoomStates /\ z.code = c /\ z.standing = y.standing
        /\ z.closed => ~OpenBets(z) /\ \A v \in Users : z.standing[v] = "out"
    <3>1. z = EmptyAndClosed(y2)
      BY <2>2 DEF Z
    <3> QED
      BY <2>3, <3>1, EmptyAndClosedFacts
  <2>5. Becomes(r, z)
    BY <2>x DEF Becomes
  <2>6. /\ room' \in [Rooms -> RoomStates] /\ room'[r] = z
        /\ \A q \in Rooms : q # r => room'[q] = room[q]
        /\ ClosedHoldsNoBet'
    BY <2>4, <2>5, BecomesFacts
  <2>7. /\ closing' \in [Rooms -> CloseStates]
        /\ \A q \in Rooms : q # r => closing'[q] = closing[q]
        /\ closing'[r].pc # "none" =>
             z.closed /\ closing'[r].pc = "deleting" /\ closing'[r].members = {}
    BY <1>0, <2>x, <2>4, DropRoomFacts
  <2>8. /\ wallet' \in [Users -> Codes \cup {None}] /\ seats' \in [Users -> Codes \cup {None}]
        /\ \A v \in Users : wallet'[v] = IF v \in finish
                                         THEN (IF wallet[v] = None THEN c ELSE wallet[v])
                                         ELSE IF v \in gone /\ wallet[v] = c THEN None ELSE wallet[v]
        /\ \A v \in Users : v \notin gone => seats'[v] = seats[v]
    BY <1>0, <1>c, <2>x DEF RetireWallets, ReleaseSeats, ActivateWallets, Typed
  <2>9. TypeOK'
    BY <1>0, <1>1, <2>x, <2>6, <2>7, <2>8 DEF TypeOK, RoomStates, CloseStates
  <2>10. InRoom(r)
    BY <1>0, <1>1, <1>c, <2>4, <2>6, <2>7 DEF InRoom
  <2>11. ASSUME NEW v \in Users PROVE PlayerInv(v)'
    <3>0. room'[r].standing[v] # "out" => ~room'[r].closed
      BY <2>4, <2>6
    <3>1. CASE v \in gone
      <4>1. /\ room[r].standing[v] # "out" /\ member[v] # room[r].code /\ v \notin finish
            /\ room[r].standing[v] \in {"joining", "leaving"} => op[v].pc = "free"
        BY <1>c, <3>1 DEF Gone, Reconcilable, Seated
      <4>2. wallet'[v] = IF wallet[v] = room[r].code THEN None ELSE wallet[v]
        BY <1>c, <2>8, <3>1, <4>1
      <4>3. room'[r].standing[v] = "out"
        BY <2>1, <2>4, <2>6, <3>1
      <4> QED
        BY <1>1, <2>10, <4>1, <4>2, <4>3, SweptOut
    <3>2. CASE v \notin gone /\ v \in finish \cup stay
      <4>1. /\ room[r].standing[v] \in {"joining", "leaving"} /\ op[v].pc = "free"
            /\ member[v] = room[r].code
        BY <1>c, <3>2 DEF Reconcilable
      <4>2. room'[r].standing[v] = "seated" /\ seats'[v] = seats[v]
        BY <2>1, <2>4, <2>6, <2>8, <3>2
      <4>3. v \in stay => wallet[v] # None /\ v \notin finish
        <5>1. v \in stay => room[r].standing[v] = "leaving"
          OBVIOUS
        <5>2. WalletInv(v)
          BY Parts
        <5> QED
          BY <1>c, <5>1, <5>2, MembershipAssumption DEF WalletInv
      <4>4. wallet'[v] = IF wallet[v] = None THEN room[r].code ELSE wallet[v]
        BY <1>c, <2>8, <3>2, <4>3
      <4>5. ~room'[r].closed
        BY <3>0, <4>2
      <4> QED
        BY <1>1, <2>10, <4>1, <4>2, <4>4, <4>5, SweptIn
    <3>3. CASE v \notin gone /\ v \notin finish \cup stay
      <4>1. /\ room'[r].standing[v] = room[r].standing[v]
            /\ seats'[v] = seats[v] /\ wallet'[v] = wallet[v]
        BY <2>1, <2>4, <2>6, <2>8, <3>3
      <4> QED
        BY <1>1, <2>10, <3>0, <4>1, Bystander
    <3> QED
      BY <3>1, <3>2, <3>3
  <2> QED
    BY <1>2, <2>4, <2>6, <2>7, <2>9, <2>10, <2>11, InRoomStep
<1>4. CASE /\ Fault
           /\ \E done \in SUBSET finish : done # finish /\ Part(done)
           /\ UNCHANGED <<seats, closing>>
  <2>a. PICK done \in SUBSET finish : Part(done)
    BY <1>4
  <2>b. /\ room' = [room EXCEPT ![r].standing = [u \in Users |->
                      IF u \in done \cup stay THEN "seated" ELSE x.standing[u]]]
        /\ wallet' = ActivateWallets(done, c) /\ UNCHANGED <<seats, closing>> /\ Fault
    BY <1>4, <2>a DEF Part
  <2>1. PICK y : y = [x EXCEPT !.standing = [u \in Users |->
                                IF u \in done \cup stay THEN "seated" ELSE x.standing[u]]]
    OBVIOUS
  <2>2. /\ y \in RoomStates /\ y.code = c /\ ~y.closed
        /\ \A v \in Users : y.standing[v] =
             IF v \in done \cup stay THEN "seated" ELSE x.standing[v]
    BY <1>0, <1>c, <2>1 DEF RoomStates, Standing
  <2>3. Becomes(r, y)
    BY <2>b, <2>1 DEF Becomes
  <2>4. /\ room' \in [Rooms -> RoomStates] /\ room'[r] = y
        /\ \A q \in Rooms : q # r => room'[q] = room[q]
        /\ ClosedHoldsNoBet'
    BY <2>2, <2>3, BecomesFacts
  <2>5. /\ wallet' \in [Users -> Codes \cup {None}]
        /\ \A v \in Users : wallet'[v] = IF v \in done /\ wallet[v] = None THEN c ELSE wallet[v]
    BY <1>0, <2>b DEF ActivateWallets, Typed
  <2>6. faults' \in Nat
    BY <1>0, <2>b DEF Fault, TypeOK
  <2>7. TypeOK'
    BY <1>0, <1>1, <2>b, <2>4, <2>5, <2>6 DEF TypeOK, RoomStates
  <2>8. InRoom(r)
    BY <1>0, <1>1, <2>b, <1>c, <2>2, <2>4 DEF InRoom
  <2>9. ASSUME NEW v \in Users PROVE PlayerInv(v)'
    <3>1. CASE v \in done \cup stay
      <4>1. /\ room[r].standing[v] \in {"joining", "leaving"} /\ op[v].pc = "free"
            /\ member[v] = room[r].code
        BY <1>c, <3>1 DEF Reconcilable
      <4>2. v \in stay => wallet[v] # None
        <5>1. v \in stay => room[r].standing[v] = "leaving"
          OBVIOUS
        <5>2. WalletInv(v)
          BY Parts
        <5> QED
          BY <1>c, <5>1, <5>2, MembershipAssumption DEF WalletInv
      <4>3. wallet'[v] = IF wallet[v] = None THEN room[r].code ELSE wallet[v]
        BY <1>c, <2>5, <3>1, <4>2
      <4>4. room'[r].standing[v] = "seated" /\ ~room'[r].closed /\ seats'[v] = seats[v]
        BY <2>b, <2>2, <2>4, <3>1
      <4> QED
        BY <1>1, <2>8, <4>1, <4>3, <4>4, SweptIn
    <3>2. CASE v \notin done \cup stay
      <4>1. /\ room'[r].standing[v] = room[r].standing[v] /\ ~room'[r].closed
            /\ seats'[v] = seats[v] /\ wallet'[v] = wallet[v]
        BY <2>b, <2>2, <2>4, <2>5, <3>2
      <4> QED
        BY <1>1, <2>8, <4>1, Bystander
    <3> QED
      BY <3>1, <3>2
  <2>10. closing'[r].pc = "none"
    BY <1>0, <2>b DEF MembershipInv, ClosingInv
  <2> QED
    BY <1>2, <2>4, <2>7, <2>8, <2>9, <2>10, InRoomStep
<1> QED
  BY <1>3, <1>4, <1>x

----------------------------------------------------------------------------
(* The end of a create: the room is installed, or the code given back. *)

LEMMA OpenInstallStep ==
  ASSUME MembershipInv, NEW u \in Users, OpenInstall(u)
  PROVE  MembershipInv'
<1>r. PICK r \in Rooms, c \in Codes : r = op[u].room /\ c = op[u].code
  BY Parts DEF OpenInstall, OpeningInv, Opening
<1>0. /\ TypeOK /\ Typed /\ RegistryInv /\ StoredInv /\ OpeningsApart /\ ClosingInv
      /\ MemberInv(u) /\ OpeningInv(u) /\ CreatedInv(u) /\ ClosedHoldsNoBet
      /\ op[u].pc = "created"
  BY Parts DEF OpenInstall
<1>1. /\ seats[u] = None /\ rooms[c] = None /\ room[r].code = None
      /\ op[u].out \in {"done", "refused", "unknown"}
      /\ row[c] # None => row[c].room = r
  BY <1>0, <1>r DEF OpeningInv, Opening, CreatedInv, Typed, OpStates
<1>2. UNCHANGED <<closing, row, member, purged, requests, faults>>
  BY DEF OpenInstall, storage
<1>3. op' = [op EXCEPT ![u] = Free]
  BY DEF OpenInstall
<1>4. op' \in [Users -> OpStates] /\ op'[u] = Free /\ \A v \in Users : v # u => op'[v] = op[v]
  BY <1>0, <1>3, OpSet, FreeOp
<1>5. (\A q \in Rooms : room[q].standing[u] = "out") /\ wallet[u] = None
  BY <1>1, NoSeat
<1>6. member[u] \in {None, c} /\ (member[u] = c => row[c] # None)
  BY <1>0, <1>r, <1>5, MembershipAssumption DEF MemberInv, Typed
<1>7. PICK verdict \in Verdicts(u) :
        IF verdict = "refused"
        THEN UNCHANGED <<rooms, seats, room, wallet>>
        ELSE /\ room' = [room EXCEPT ![r] =
                          [code |-> c, closed |-> FALSE, published |-> verdict = "seated",
                           standing |-> [v \in Users |->
                             IF v # u THEN "out"
                             ELSE IF verdict = "seated" THEN "seated" ELSE "joining"],
                           table |-> FreshTable]]
             /\ rooms' = [rooms EXCEPT ![c] = r]
             /\ seats' = [seats EXCEPT ![u] = c]
             /\ wallet' = IF verdict = "seated" THEN ActivateWallets({u}, c) ELSE wallet
  BY <1>r DEF OpenInstall
<1>8. CASE verdict = "refused"
  <2>1. UNCHANGED <<rooms, seats, room, wallet>>
    BY <1>7, <1>8
  <2>2. member[u] = None
    BY <1>0, <1>r, <1>1, <1>6, <1>8 DEF Verdicts, CreatedInv
  <2>3. TypeOK' /\ ClosedHoldsNoBet'
    BY <1>0, <1>2, <1>4, <2>1 DEF TypeOK, OpStates, ClosedHoldsNoBet
  <2>4. UserMove(u)
    BY <1>2, <1>4, <2>1 DEF UserMove
  <2>5. Nowhere(u)'
    BY <1>2, <1>5, <2>1, <2>2 DEF Nowhere
  <2> QED
    BY <1>4, <2>3, <2>4, <2>5, NowhereInv, FreePlayer, UserMoveStep
<1>9. CASE verdict # "refused"
  <2>1. PICK s \in {"seated", "joining"} : s = IF verdict = "seated" THEN "seated" ELSE "joining"
    OBVIOUS
  <2>2. PICK y : y = [code |-> c, closed |-> FALSE, published |-> verdict = "seated",
                      standing |-> [v \in Users |->
                             IF v # u THEN "out"
                             ELSE IF verdict = "seated" THEN "seated" ELSE "joining"],
                      table |-> FreshTable]
    OBVIOUS
  <2>3. /\ y \in RoomStates /\ y.code = c /\ ~y.closed /\ y.standing[u] = s
        /\ \A v \in Users : v # u => y.standing[v] = "out"
    BY <2>1, <2>2 DEF RoomStates, Standing, Tables, FreshTable
  <2>4. Becomes(r, y)
    BY <1>7, <1>9, <2>2 DEF Becomes
  <2>5. /\ room' \in [Rooms -> RoomStates] /\ room'[r] = y
        /\ \A q \in Rooms : q # r => room'[q] = room[q]
        /\ ClosedHoldsNoBet'
    BY <2>3, <2>4, BecomesFacts
  <2>a. rooms' = [rooms EXCEPT ![c] = r] /\ seats' = [seats EXCEPT ![u] = c]
    BY <1>7, <1>9
  <2>6. /\ rooms' \in [Codes -> Rooms \cup {None}] /\ rooms'[c] = r
        /\ \A k \in Codes : k # c => rooms'[k] = rooms[k]
        /\ seats' \in [Users -> Codes \cup {None}] /\ seats'[u] = c
        /\ \A v \in Users : v # u => seats'[v] = seats[v]
    BY <1>0, <2>a DEF TypeOK
  <2>7. /\ wallet' \in [Users -> Codes \cup {None}]
        /\ s = "seated" => wallet'[u] = c
        /\ s = "joining" => wallet'[u] = None
        /\ \A v \in Users : v # u => wallet'[v] = wallet[v]
    BY <1>0, <1>5, <1>7, <1>9, <2>1 DEF ActivateWallets, TypeOK
  <2>8. TypeOK'
    BY <1>0, <1>2, <1>4, <2>5, <2>6, <2>7 DEF TypeOK, RoomStates, OpStates
  <2>9. /\ \A q \in Rooms : room[q].code = c => room[q].closed /\ q # r
        /\ \A q \in Rooms : room[q].code # None => q # r
    BY <1>0, <1>1, MembershipAssumption DEF RegistryInv
  <2>10. RegistryInv'
    <3>1. ASSUME NEW k \in Codes, rooms'[k] # None PROVE room'[rooms'[k]].code = k
      BY <1>0, <1>1, <2>3, <2>5, <2>6, <3>1, MembershipAssumption DEF RegistryInv, Typed
    <3>2. ASSUME NEW q \in Rooms, room'[q].code # None, ~room'[q].closed
          PROVE  rooms'[room'[q].code] = q
      BY <1>0, <2>3, <2>5, <2>6, <2>9, <3>2 DEF RegistryInv, Typed
    <3> QED
      BY <3>1, <3>2 DEF RegistryInv
  <2>11. StoredInv'
    BY <1>0, <1>1, <1>2, <2>6 DEF StoredInv
  <2>12. OpeningsApart'
    BY <1>0, <1>4 DEF OpeningsApart, Opening, Free
  <2>13. ASSUME NEW q \in Rooms, Registered(q)
         PROVE  q # r /\ room[q].code # c /\ rooms'[room[q].code] = q
    BY <1>0, <1>1, <2>6, <2>13, MembershipAssumption DEF Registered, Typed
  <2>14. ClosingInv'
    <3> SUFFICES ASSUME NEW q \in Rooms, closing'[q].pc # "none"
                 PROVE  /\ room'[q].closed /\ Registered(q)'
                        /\ \A v \in Users : room'[q].standing[v] # "out" <=> v \in closing'[q].members
                        /\ closing'[q].pc = "deleted" => row'[room'[q].code] = None
      BY DEF ClosingInv
    <3>1. /\ room[q].closed /\ Registered(q)
          /\ \A v \in Users : room[q].standing[v] # "out" <=> v \in closing[q].members
          /\ closing[q].pc = "deleted" => row[room[q].code] = None
      BY <1>0, <1>2 DEF ClosingInv
    <3> QED
      BY <1>2, <2>5, <2>13, <3>1 DEF Registered
  <2>15. ASSUME NEW v \in Users, v # u PROVE PlayerInv(v)'
    <3>1. PlayerInv(v) /\ SeatInv(v) /\ MemberInv(v) /\ OpeningInv(v)
      BY DEF MembershipInv, PlayerInv
    <3>2. \A q \in Rooms : room[q].standing[v] # "out" =>
            q # r /\ rooms'[room[q].code] = rooms[room[q].code]
      BY <2>13, <3>1 DEF SeatInv, Registered
    <3>3. \A q \in Rooms : room'[q].standing[v] = room[q].standing[v]
      BY <2>3, <2>5, <2>15, <3>2
    <3>4. Opening(v) => op[v].code # c /\ op[v].room # r /\ op[v].code \in Codes /\ op[v].room \in Rooms
      BY <1>0, <1>r, <2>15, <3>1 DEF OpeningsApart, Opening, OpeningInv
    <3>5. Opening(v) => rooms'[op[v].code] = None /\ room'[op[v].room].code = None
      BY <2>5, <2>6, <3>1, <3>4 DEF OpeningInv
    <3>6. Undisturbed(v)
      BY <1>2, <1>4, <2>5, <2>6, <2>7, <2>9, <2>15, <3>1, <3>2, <3>3, <3>5 DEF Undisturbed, MemberInv
    <3> QED
      BY <1>0, <3>1, <3>6, PlayerKeeps
  <2>16. PlayerInv(u)'
    <3>1. s = "seated" /\ u \notin purged => member[u] = c
      BY <1>0, <1>r, <1>1, <1>9, <2>1 DEF Verdicts, CreatedInv
    <3>2. \A q \in Rooms : q # r => room'[q].standing[u] = "out"
      BY <1>5, <2>5
    <3>3. SeatAt(u, r, c)'
      BY <1>2, <1>6, <2>3, <2>5, <2>6, <2>7, <3>1, <3>2 DEF SeatAt
    <3> QED
      BY <1>4, <3>3, SeatAtInv, FreePlayer
  <2> QED
    BY <2>5, <2>8, <2>10, <2>11, <2>12, <2>14, <2>15, <2>16 DEF MembershipInv
<1> QED
  BY <1>8, <1>9

----------------------------------------------------------------------------
(* Closing a room. *)

LEMMA BeginCloseStep ==
  ASSUME MembershipInv, NEW r \in Rooms, BeginClose(r)
  PROVE  MembershipInv'
<1>0. /\ TypeOK /\ Typed /\ Registered(r) /\ ~room[r].closed /\ ~OpenBets(room[r])
      /\ room[r] \in RoomStates
      /\ \A v \in Users : room[r].standing[v] # "out" =>
           op[v].pc = "free" /\ room[r].standing[v] = "seated"
  BY TypedFacts DEF MembershipInv, BeginClose, Closable, Due, Members, Typed
<1>1. UNCHANGED <<rooms, seats, wallet, row, member, purged, requests, faults>>
  BY DEF BeginClose, storage
<1>2. PICK y : y = [room[r] EXCEPT !.closed = TRUE]
  OBVIOUS
<1>3. /\ y \in RoomStates /\ y.code = room[r].code /\ y.closed
      /\ y.standing = room[r].standing /\ y.table = room[r].table
  BY <1>0, <1>2 DEF RoomStates
<1>4. Becomes(r, y)
  BY <1>2 DEF BeginClose, Becomes
<1>5. /\ room' \in [Rooms -> RoomStates] /\ room'[r] = y
      /\ \A q \in Rooms : q # r => room'[q] = room[q]
      /\ ClosedHoldsNoBet'
  <2>1. ~OpenBets(y)
    BY <1>0, <1>3 DEF OpenBets
  <2> QED
    BY <1>3, <1>4, <2>1, BecomesFacts
<1>6. PICK w : w = [pc |-> "deleting", requireEmpty |-> FALSE,
                    members |-> Members(room[r]), round |-> room[r].table.round]
  OBVIOUS
<1>7. w \in CloseStates /\ w.pc = "deleting" /\ w.members = Members(room[r])
  BY <1>0, <1>6 DEF CloseStates, RoomStates, Tables, Members
<1>8. /\ closing' \in [Rooms -> CloseStates] /\ closing'[r] = w
      /\ \A q \in Rooms : q # r => closing'[q] = closing[q]
  <2>1. closing' = [closing EXCEPT ![r] = w]
    BY <1>6 DEF BeginClose
  <2> QED
    BY <1>0, <1>7, <2>1 DEF TypeOK, CloseStates
<1>9. PICK h : h = [Free EXCEPT !.pc = "held"]
  OBVIOUS
<1>10. h \in OpStates /\ h.pc = "held"
  BY <1>9 DEF Free, OpStates, Phases
<1>11. op' = [u \in Users |-> IF u \in Members(room[r]) THEN h ELSE op[u]]
  BY <1>9 DEF BeginClose
<1>12. /\ op' \in [Users -> OpStates]
       /\ \A v \in Users : op'[v] = IF room[r].standing[v] # "out" THEN h ELSE op[v]
  BY <1>0, <1>10, <1>11 DEF Members, Typed
<1>13. TypeOK'
  BY <1>0, <1>1, <1>5, <1>8, <1>12 DEF TypeOK, RoomStates, OpStates, CloseStates
<1>14. InRoom(r)
  BY <1>0, <1>1, <1>3, <1>5, <1>8 DEF InRoom
<1>15. ASSUME NEW v \in Users PROVE PlayerInv(v)'
  <2>1. CASE room[r].standing[v] = "out"
    BY <1>1, <1>3, <1>5, <1>12, <1>14, <2>1, Bystander
  <2>2. CASE room[r].standing[v] # "out"
    <3>1. PICK c \in Codes : c = room[r].code /\ SeatAt(v, r, c)
      BY <2>2, MemberSeat
    <3>2. op'[v].pc = "held"
      BY <1>10, <1>12, <2>2
    <3>3. SeatAt(v, r, c)'
      BY <1>1, <1>3, <1>5, <2>2, <3>1, <3>2 DEF SeatAt
    <3>4. SeatInv(v)' /\ WalletInv(v)' /\ MemberInv(v)'
      BY <3>3, SeatAtInv
    <3>5. OpeningInv(v)' /\ CreatingInv(v)' /\ CreatedInv(v)' /\ JoiningInv(v)' /\ LeavingInv(v)'
      BY <3>2 DEF OpeningInv, Opening, CreatingInv, CreatedInv, JoiningInv, LeavingInv
    <3> QED
      BY <3>4, <3>5 DEF PlayerInv
  <2> QED
    BY <2>1, <2>2
<1>16. \A v \in Users : Opening(v)' => op'[v] = op[v]
  BY <1>10, <1>12 DEF Opening
<1>17. /\ room'[r].closed /\ closing'[r].pc = "deleting"
       /\ \A v \in Users : room'[r].standing[v] # "out" <=> v \in closing'[r].members
  BY <1>3, <1>5, <1>7, <1>8 DEF Members
<1> QED
  BY <1>5, <1>13, <1>14, <1>15, <1>16, <1>17, InRoomStep

LEMMA FinishDeleteStep ==
  ASSUME MembershipInv, NEW r \in Rooms, FinishDelete(r)
  PROVE  MembershipInv'
<1>0. /\ TypeOK /\ Typed /\ RegistryInv /\ StoredInv /\ OpeningsApart /\ ClosingInv
      /\ ClosedHoldsNoBet /\ closing[r].pc = "deleting"
  BY TypedFacts DEF MembershipInv, FinishDelete
<1>c. PICK c \in Codes : c = room[r].code /\ rooms[c] = r /\ room[r].closed
  BY <1>0 DEF ClosingInv, Registered, Typed
<1>1. UNCHANGED <<rooms, seats, room, wallet, op, purged, requests>>
  BY DEF FinishDelete
<1>2. /\ closing' \in [Rooms -> CloseStates]
      /\ \A q \in Rooms : q # r => closing'[q] = closing[q]
      /\ closing'[r].members = closing[r].members /\ closing'[r].pc # "none"
      /\ faults' \in Nat
  <2>1. PICK w : w = [closing[r] EXCEPT !.pc = "deleted"]
    OBVIOUS
  <2>2. closing \in [Rooms -> CloseStates] /\ closing[r] \in CloseStates
    BY <1>0 DEF TypeOK, CloseStates
  <2>3. w \in CloseStates /\ w.members = closing[r].members /\ w.pc = "deleted"
    BY <2>1, <2>2 DEF CloseStates
  <2>4. closing' = closing \/ closing' = [closing EXCEPT ![r] = w]
    BY <2>1 DEF FinishDelete
  <2>5. faults' \in Nat
    BY <1>0 DEF FinishDelete, Fault, TypeOK
  <2> QED
    BY <1>0, <2>2, <2>3, <2>4, <2>5
<1>3. \/ row[c] = None /\ UNCHANGED <<row, member>>
      \/ /\ row' = [row EXCEPT ![c] = None]
         /\ member' = [u \in Users |-> IF member[u] = c THEN None ELSE member[u]]
  BY <1>c DEF FinishDelete
<1>4. /\ row' \in [Codes -> Rows \cup {None}] /\ row'[c] = None
      /\ \A k \in Codes : k # c => row'[k] = row[k]
  BY <1>0, <1>3 DEF TypeOK
<1>5. /\ member' \in [Users -> Codes \cup {None}]
      /\ \A v \in Users : member'[v] = IF member[v] = c THEN None ELSE member[v]
  <2>1. CASE row[c] = None /\ UNCHANGED <<row, member>>
    <3>1. ASSUME NEW v \in Users PROVE member[v] # c
      <4>1. MemberInv(v)
        BY Parts
      <4> QED
        BY <2>1, <4>1, MembershipAssumption DEF MemberInv
    <3> QED
      BY <1>0, <2>1, <3>1 DEF TypeOK
  <2>2. CASE member' = [u \in Users |-> IF member[u] = c THEN None ELSE member[u]]
    BY <1>0, <2>2 DEF Typed
  <2> QED
    BY <1>3, <2>1, <2>2
<1>6. TypeOK' /\ ClosedHoldsNoBet'
  BY <1>0, <1>1, <1>2, <1>4, <1>5 DEF TypeOK, CloseStates, ClosedHoldsNoBet
<1>7. RegistryInv' /\ OpeningsApart'
  BY <1>0, <1>1 DEF RegistryInv, OpeningsApart, Opening
<1>8. StoredInv'
  BY <1>0, <1>1, <1>4 DEF StoredInv
<1>9. ClosingInv'
  <2> SUFFICES ASSUME NEW q \in Rooms, closing'[q].pc # "none"
               PROVE  /\ room'[q].closed /\ Registered(q)'
                      /\ \A v \in Users : room'[q].standing[v] # "out" <=> v \in closing'[q].members
                      /\ closing'[q].pc = "deleted" => row'[room'[q].code] = None
    BY DEF ClosingInv
  <2>1. CASE q = r
    BY <1>0, <1>c, <1>1, <1>2, <1>4, <2>1 DEF ClosingInv, Registered
  <2>2. CASE q # r
    <3>1. /\ room[q].closed /\ Registered(q) /\ room[q].code \in Codes
          /\ \A v \in Users : room[q].standing[v] # "out" <=> v \in closing[q].members
          /\ closing[q].pc = "deleted" => row[room[q].code] = None
      BY <1>0, <1>2, <2>2 DEF ClosingInv, Registered, Typed
    <3> QED
      BY <1>1, <1>2, <1>4, <2>2, <3>1 DEF Registered
  <2> QED
    BY <2>1, <2>2
<1>10. ASSUME NEW v \in Users PROVE PlayerInv(v)'
  <2>0. /\ PlayerInv(v) /\ SeatInv(v) /\ WalletInv(v) /\ MemberInv(v) /\ OpeningInv(v)
    BY DEF MembershipInv, PlayerInv
  <2>1. CASE member[v] = c
    <3>1. room[r].standing[v] # "out"
      BY <1>c, <2>0, <2>1, MembershipAssumption DEF MemberInv, OpeningInv, Opening
    <3>2. SeatAt(v, r, c)
      BY <1>c, <3>1, MemberSeat
    <3>3. op[v].pc = "held"
      BY <1>c, <3>2 DEF SeatAt
    <3>4. SeatAt(v, r, c)'
      BY <1>c, <1>1, <1>5, <2>1, <3>2, MembershipAssumption DEF SeatAt
    <3>5. SeatInv(v)' /\ WalletInv(v)' /\ MemberInv(v)'
      BY <3>4, SeatAtInv
    <3>6. OpeningInv(v)' /\ CreatingInv(v)' /\ CreatedInv(v)' /\ JoiningInv(v)' /\ LeavingInv(v)'
      BY <1>1, <3>3 DEF OpeningInv, Opening, CreatingInv, CreatedInv, JoiningInv, LeavingInv
    <3> QED
      BY <3>5, <3>6 DEF PlayerInv
  <2>2. CASE member[v] # c
    <3>1. Opening(v) => op[v].code \in Codes /\ op[v].code # c /\ op[v].room \in Rooms
      BY <1>c, <2>0, MembershipAssumption DEF OpeningInv
    <3>2. member[v] # None => member[v] \in Codes /\ row'[member[v]] # None
      BY <1>0, <1>4, <2>0, <2>2 DEF MemberInv, Typed
    <3>3. Undisturbed(v)
      BY <1>1, <1>4, <1>5, <2>0, <2>2, <3>1, <3>2 DEF Undisturbed, OpeningInv
    <3> QED
      BY <1>0, <2>0, <3>3, PlayerKeeps
  <2> QED
    BY <2>1, <2>2
<1> QED
  BY <1>6, <1>7, <1>8, <1>9, <1>10 DEF MembershipInv

LEMMA FinishCloseStep ==
  ASSUME MembershipInv, NEW r \in Rooms, FinishClose(r)
  PROVE  MembershipInv'
<1>0. /\ TypeOK /\ Typed /\ RegistryInv /\ StoredInv /\ OpeningsApart /\ ClosingInv
      /\ ClosedHoldsNoBet /\ closing[r].pc = "deleted" /\ room[r] \in RoomStates
  BY TypedFacts DEF MembershipInv, FinishClose, Typed
<1>c. PICK c \in Codes : c = room[r].code /\ rooms[c] = r /\ room[r].closed /\ row[c] = None
  BY <1>0 DEF ClosingInv, Registered, Typed
<1>u. PICK us \in SUBSET Users : us = closing[r].members
  BY <1>0 DEF TypeOK
<1>1. UNCHANGED <<row, member, purged, requests, faults>>
  BY DEF FinishClose, storage
<1>2. \A v \in Users : room[r].standing[v] # "out" <=> v \in us
  BY <1>0, <1>u DEF ClosingInv
<1>3. /\ rooms' \in [Codes -> Rooms \cup {None}] /\ rooms'[c] = None
      /\ \A k \in Codes : k # c => rooms'[k] = rooms[k]
  <2>1. rooms' = [rooms EXCEPT ![c] = None]
    BY <1>c DEF FinishClose
  <2> QED
    BY <1>0, <2>1 DEF TypeOK
<1>4. /\ wallet' \in [Users -> Codes \cup {None}] /\ seats' \in [Users -> Codes \cup {None}]
      /\ op' \in [Users -> OpStates]
      /\ \A v \in us : op'[v] = Free /\ (wallet'[v] = IF wallet[v] = c THEN None ELSE wallet[v])
      /\ \A v \in Users : v \notin us =>
           op'[v] = op[v] /\ wallet'[v] = wallet[v] /\ seats'[v] = seats[v]
  <2>1. /\ wallet' = RetireWallets(us, c) /\ seats' = ReleaseSeats(us, c)
        /\ op' = [v \in Users |-> IF v \in us THEN Free ELSE op[v]]
    BY <1>c, <1>u DEF FinishClose
  <2> QED
    BY <1>0, <2>1, FreeOp DEF RetireWallets, ReleaseSeats, Typed
<1>5. PICK y : y = [room[r] EXCEPT !.standing = [v \in Users |-> "out"]]
  OBVIOUS
<1>6. /\ y \in RoomStates /\ y.code = c /\ y.closed /\ y.table = room[r].table
      /\ \A v \in Users : y.standing[v] = "out"
  BY <1>0, <1>c, <1>5 DEF RoomStates, Standing
<1>7. Becomes(r, y) /\ ~OpenBets(y)
  BY <1>0, <1>c, <1>5, <1>6 DEF FinishClose, Becomes, ClosedHoldsNoBet, OpenBets
<1>8. /\ room' \in [Rooms -> RoomStates] /\ room'[r] = y
      /\ \A q \in Rooms : q # r => room'[q] = room[q]
      /\ ClosedHoldsNoBet'
  BY <1>6, <1>7, BecomesFacts
<1>9. /\ closing' \in [Rooms -> CloseStates] /\ closing'[r].pc = "none"
      /\ \A q \in Rooms : q # r => closing'[q] = closing[q]
  <2>1. NoClosing \in CloseStates /\ NoClosing.pc = "none"
    BY DEF NoClosing, CloseStates
  <2>2. closing' = [closing EXCEPT ![r] = NoClosing]
    BY DEF FinishClose
  <2> QED
    BY <1>0, <2>1, <2>2 DEF TypeOK, CloseStates
<1>10. TypeOK'
  BY <1>0, <1>1, <1>3, <1>4, <1>8, <1>9 DEF TypeOK, RoomStates, OpStates, CloseStates
<1>11. ASSUME NEW q \in Rooms, Registered(q), q # r
       PROVE  room[q].code \in Codes /\ room[q].code # c /\ rooms'[room[q].code] = q
  BY <1>0, <1>c, <1>3, <1>11 DEF Registered, Typed
<1>12. RegistryInv'
  <2>1. ASSUME NEW k \in Codes, rooms'[k] # None PROVE room'[rooms'[k]].code = k
    BY <1>0, <1>3, <1>6, <1>8, <1>c, <2>1 DEF RegistryInv, Typed
  <2>2. ASSUME NEW q \in Rooms, room'[q].code # None, ~room'[q].closed
        PROVE  rooms'[room'[q].code] = q
    <3>1. q # r /\ Registered(q)
      BY <1>0, <1>6, <1>8, <2>2 DEF RegistryInv, Registered
    <3> QED
      BY <1>8, <1>11, <3>1
  <2> QED
    BY <2>1, <2>2 DEF RegistryInv
<1>13. StoredInv'
  BY <1>0, <1>1, <1>3 DEF StoredInv
<1>14. OpeningsApart'
  BY <1>0, <1>4 DEF OpeningsApart, Opening, Free
<1>15. ClosingInv'
  <2> SUFFICES ASSUME NEW q \in Rooms, closing'[q].pc # "none"
               PROVE  /\ room'[q].closed /\ Registered(q)'
                      /\ \A v \in Users : room'[q].standing[v] # "out" <=> v \in closing'[q].members
                      /\ closing'[q].pc = "deleted" => row'[room'[q].code] = None
    BY DEF ClosingInv
  <2>1. q # r
    BY <1>9
  <2>2. /\ room[q].closed /\ Registered(q)
        /\ \A v \in Users : room[q].standing[v] # "out" <=> v \in closing[q].members
        /\ closing[q].pc = "deleted" => row[room[q].code] = None
    BY <1>0, <1>9, <2>1 DEF ClosingInv
  <2> QED
    BY <1>1, <1>8, <1>9, <1>11, <2>1, <2>2 DEF Registered
<1>16. ASSUME NEW v \in Users PROVE PlayerInv(v)'
  <2>0. PlayerInv(v) /\ SeatInv(v) /\ MemberInv(v) /\ OpeningInv(v)
    BY DEF MembershipInv, PlayerInv
  <2>1. CASE v \in us
    <3>1. SeatAt(v, r, c)
      BY <1>c, <1>2, <2>1, MemberSeat
    <3>2. member[v] = None /\ wallet[v] \in {None, c}
      BY <1>c, <3>1 DEF SeatAt
    <3>3. Nowhere(v)'
      BY <1>1, <1>4, <1>6, <1>8, <2>1, <3>1, <3>2 DEF Nowhere, SeatAt
    <3> QED
      BY <1>4, <2>1, <3>3, NowhereInv, FreePlayer
  <2>2. CASE v \notin us
    <3>1. \A q \in Rooms : room[q].standing[v] # "out" =>
            q # r /\ rooms'[room[q].code] = rooms[room[q].code]
      BY <1>2, <1>11, <2>0, <2>2 DEF SeatInv, Registered
    <3>2. \A q \in Rooms : /\ room'[q].standing[v] = room[q].standing[v]
                           /\ room'[q].code = room[q].code
      BY <1>c, <1>6, <1>8, <3>1
    <3>3. Opening(v) => rooms'[op[v].code] = None /\ room'[op[v].room].code = None
      BY <1>3, <2>0, <3>2 DEF OpeningInv
    <3>4. Undisturbed(v)
      BY <1>1, <1>4, <1>8, <2>0, <2>2, <3>1, <3>2, <3>3 DEF Undisturbed, MemberInv
    <3> QED
      BY <1>0, <2>0, <3>4, PlayerKeeps
  <2> QED
    BY <2>1, <2>2
<1> QED
  BY <1>8, <1>10, <1>12, <1>13, <1>14, <1>15, <1>16 DEF MembershipInv

----------------------------------------------------------------------------
(* A crash and the recovery. *)

(* A stored room comes back under the code its only row has. *)
LEMMA RecoveredRow ==
  ASSUME TypeOK, StoredInv, NEW c \in Codes, row[c] # None, NEW r \in Rooms, r = row[c].room
  PROVE  /\ Recovered(r) \in RoomStates /\ Recovered(r).code = c /\ ~Recovered(r).closed
         /\ \A v \in Users : Recovered(r).standing[v] = IF member[v] = c THEN "seated" ELSE "out"
<1> DEFINE cs == {k \in Codes : row[k] # None /\ row[k].room = r}
<1>1. cs = {c}
  BY DEF StoredInv
<1>2. (CHOOSE k \in cs : TRUE) = c
  BY <1>1
<1>3. Recovered(r) = [code |-> c, closed |-> FALSE, published |-> TRUE, table |-> row[c].table,
                      standing |-> [v \in Users |-> IF member[v] = c THEN "seated" ELSE "out"]]
  <2>1. cs # {}
    BY <1>1
  <2> QED
    BY <1>2, <2>1 DEF Recovered
<1>4. row[c].table \in Tables
  BY DEF TypeOK, Rows
<1> QED
  BY <1>3, <1>4 DEF RoomStates, Standing

LEMMA RecoveredNone ==
  ASSUME NEW r \in Rooms, \A c \in Codes : row[c] # None => row[c].room # r
  PROVE  /\ Recovered(r) \in RoomStates /\ Recovered(r).code = None /\ ~Recovered(r).closed
         /\ \A v \in Users : Recovered(r).standing[v] = "out"
<1>1. Recovered(r) = NoRoom
  BY DEF Recovered
<1> QED
  BY <1>1 DEF NoRoom, RoomStates, Standing, Tables, FreshTable

LEMMA RestartStep ==
  ASSUME MembershipInv, Restart
  PROVE  MembershipInv'
<1>0. TypeOK /\ Typed /\ StoredInv
  BY TypedFacts DEF MembershipInv
<1>1. /\ room' = [r \in Rooms |-> Recovered(r)]
      /\ rooms' = [c \in Codes |-> IF row[c] = None THEN None ELSE row[c].room]
      /\ seats' = member /\ wallet' = member
      /\ op' = [u \in Users |-> Free] /\ closing' = [r \in Rooms |-> NoClosing]
      /\ UNCHANGED <<row, member, purged, requests>> /\ faults' \in Nat
  BY <1>0 DEF Restart, Fault, storage, TypeOK
<1>2. ASSUME NEW c \in Codes, row[c] # None, NEW r \in Rooms, r = row[c].room
      PROVE  /\ room'[r] \in RoomStates /\ room'[r].code = c /\ ~room'[r].closed
             /\ \A v \in Users : room'[r].standing[v] = IF member[v] = c THEN "seated" ELSE "out"
  BY <1>0, <1>1, <1>2, RecoveredRow
<1>3. ASSUME NEW r \in Rooms, \A c \in Codes : row[c] # None => row[c].room # r
      PROVE  /\ room'[r] \in RoomStates /\ room'[r].code = None /\ ~room'[r].closed
             /\ \A v \in Users : room'[r].standing[v] = "out"
  BY <1>1, <1>3, RecoveredNone
<1>4. ASSUME NEW r \in Rooms PROVE room'[r] \in RoomStates /\ ~room'[r].closed
  BY <1>2, <1>3
<1>5. room' \in [Rooms -> RoomStates]
  BY <1>1, <1>4
<1>6. closing' \in [Rooms -> CloseStates] /\ \A r \in Rooms : closing'[r].pc = "none"
  BY <1>1 DEF NoClosing, CloseStates
<1>7. op' \in [Users -> OpStates] /\ \A v \in Users : op'[v] = Free
  BY <1>1, FreeOp
<1>8. /\ rooms' \in [Codes -> Rooms \cup {None}]
      /\ \A c \in Codes : rooms'[c] = IF row[c] = None THEN None ELSE row[c].room
  BY <1>0, <1>1 DEF Typed
<1>9. TypeOK'
  BY <1>0, <1>1, <1>5, <1>6, <1>7, <1>8 DEF TypeOK, RoomStates, OpStates, CloseStates
<1>10. RegistryInv'
  <2>1. ASSUME NEW c \in Codes, rooms'[c] # None PROVE room'[rooms'[c]].code = c
    BY <1>0, <1>2, <1>8, <2>1 DEF Typed
  <2>2. ASSUME NEW r \in Rooms, room'[r].code # None PROVE rooms'[room'[r].code] = r
    <3>1. PICK c \in Codes : row[c] # None /\ row[c].room = r
      BY <1>3, <2>2
    <3> QED
      BY <1>2, <1>8, <3>1
  <2> QED
    BY <2>1, <2>2 DEF RegistryInv
<1>11. StoredInv'
  BY <1>0, <1>1, <1>8 DEF StoredInv
<1>12. OpeningsApart' /\ ClosingInv' /\ ClosedHoldsNoBet'
  BY <1>4, <1>6, <1>7 DEF OpeningsApart, Opening, Free, ClosingInv, ClosedHoldsNoBet
<1>13. ASSUME NEW v \in Users PROVE PlayerInv(v)'
  <2>0. MemberInv(v)
    BY Parts
  <2>1. ASSUME NEW q \in Rooms, room'[q].standing[v] # "out"
        PROVE  member[v] \in Codes /\ row[member[v]] # None /\ row[member[v]].room = q
    <3>1. PICK c \in Codes : row[c] # None /\ row[c].room = q
      BY <1>3, <2>1
    <3> QED
      BY <1>2, <2>1, <3>1
  <2>2. CASE member[v] = None
    <3>1. \A q \in Rooms : room'[q].standing[v] = "out"
      BY <2>1, <2>2, MembershipAssumption
    <3>2. Nowhere(v)'
      BY <1>1, <2>2, <3>1 DEF Nowhere
    <3> QED
      BY <1>7, <3>2, NowhereInv, FreePlayer
  <2>3. CASE member[v] # None
    <3>1. PICK c \in Codes, r \in Rooms : c = member[v] /\ row[c] # None /\ r = row[c].room
      BY <1>0, <2>0, <2>3 DEF MemberInv, Typed
    <3>2. room'[r].code = c /\ ~room'[r].closed /\ room'[r].standing[v] = "seated"
      BY <1>2, <3>1
    <3>3. \A q \in Rooms : q # r => room'[q].standing[v] = "out"
      BY <2>1, <3>1
    <3>4. SeatAt(v, r, c)'
      BY <1>1, <1>8, <3>1, <3>2, <3>3 DEF SeatAt
    <3> QED
      BY <1>7, <3>4, SeatAtInv, FreePlayer
  <2> QED
    BY <2>2, <2>3
<1> QED
  BY <1>9, <1>10, <1>11, <1>12, <1>13 DEF MembershipInv

----------------------------------------------------------------------------
(* Every step keeps the invariant. *)
LEMMA NextInv == MembershipInv /\ [Next]_vars => MembershipInv'
<1> SUFFICES ASSUME MembershipInv, [Next]_vars PROVE MembershipInv'
  OBVIOUS
<1>1. ASSUME NEW u \in Users, NEW c \in Codes, NEW r \in Rooms, OpenRoom(u, c, r)
      PROVE  MembershipInv'
  BY <1>1, OpenRoomStep
<1>2. ASSUME NEW u \in Users, NEW c \in Codes, JoinLookup(u, c) \/ PlaceBet(u, c)
      PROVE  MembershipInv'
  BY <1>2, JoinLookupStep, PlaceBetStep
<1>3. ASSUME NEW u \in Users, UserStep(u) PROVE MembershipInv'
  BY <1>3, OpenCommitStep, OpenInstallStep, JoinAdmitStep, JoinCommitStep, JoinFinishStep,
     LeaveDeleteStep, LeaveFinishStep DEF UserStep
<1>4. ASSUME NEW u \in Users, LeaveBegin(u) \/ PurgeAccount(u) PROVE MembershipInv'
  BY <1>4, LeaveBeginStep, PurgeAccountStep
<1>5. ASSUME NEW r \in Rooms, Sweep(r) \/ BeginClose(r) \/ FinishDelete(r) \/ FinishClose(r)
      PROVE  MembershipInv'
  BY <1>5, SweepStep, BeginCloseStep, FinishDeleteStep, FinishCloseStep
<1>6. ASSUME NEW r \in Rooms, Deal(r) \/ Persist(r) PROVE MembershipInv'
  BY <1>6, DealStep, PersistStep
<1>7. ASSUME Restart PROVE MembershipInv'
  BY <1>7, RestartStep
<1>8. ASSUME UNCHANGED vars PROVE MembershipInv'
  <2>1. UNCHANGED <<rooms, seats, room, wallet, op, closing, row, member, purged, requests, faults>>
    BY <1>8 DEF vars, memory, storage
  <2>2. TypeOK /\ ClosedHoldsNoBet
    BY DEF MembershipInv
  <2>3. TypeOK' /\ ClosedHoldsNoBet'
    BY <2>1, <2>2 DEF TypeOK, ClosedHoldsNoBet
  <2> QED
    BY <2>1, <2>3, TableStep
<1> QED
  BY <1>1, <1>2, <1>3, <1>4, <1>5, <1>6, <1>7, <1>8 DEF Next

(* The inductive invariant holds in every reachable state of the room      *)
(* lifecycle (casino_room.rs, casino_room_lifecycle.rs): the registry, the *)
(* seat index, the member maps, the wallets, the rows and the lock holders *)
(* agree as MembershipInv says.                                            *)
THEOREM MembershipInvariant == Spec => []MembershipInv
<1>1. Init => MembershipInv
  BY InitInv
<1>2. MembershipInv /\ [Next]_vars => MembershipInv'
  BY NextInv
<1> QED
  BY <1>1, <1>2, PTL DEF Spec

(* A player who may wager in an open room has the seat index, an active    *)
(* wallet, the membership row and the row of this very room, however       *)
(* joins, leaves, sweeps, closes, crashes and lost acknowledgements fall.  *)
THEOREM MembershipSeatIsBacked == Spec => []SeatIsBacked
<1>1. MembershipInv => SeatIsBacked
  <2> SUFFICES ASSUME MembershipInv, NEW c \in Codes, rooms[c] # None, ~room[rooms[c]].closed,
                      NEW u \in Users, room[rooms[c]].standing[u] = "seated"
               PROVE  /\ seats[u] = c /\ wallet[u] = c
                      /\ u \notin purged =>
                           member[u] = c /\ row[c] # None /\ row[c].room = rooms[c]
    BY DEF SeatIsBacked, Seated
  <2>0. Typed /\ RegistryInv /\ StoredInv
    BY TypedFacts DEF MembershipInv
  <2>1. PICK r \in Rooms : r = rooms[c]
    BY <2>0 DEF Typed
  <2>2. room[r].code = c
    BY <2>0, <2>1 DEF RegistryInv
  <2>3. SeatAt(u, r, c)
    BY <2>1, <2>2, MemberSeat
  <2> QED
    BY <2>0, <2>1, <2>3 DEF SeatAt, StoredInv
<1> QED
  BY <1>1, MembershipInvariant, PTL

(* Between two operations of a player, its membership row names a          *)
(* registered room that holds it: no outcome of a COMMIT leaves a row that *)
(* would refuse every later create and join with in_other_room.            *)
THEOREM MembershipNoOrphanRow == Spec => []NoOrphanRow
<1>1. MembershipInv => NoOrphanRow
  <2> SUFFICES ASSUME MembershipInv, NEW u \in Users, member[u] # None, op[u].pc = "free"
               PROVE  rooms[member[u]] # None /\ u \in Members(room[rooms[member[u]]])
    BY DEF NoOrphanRow
  <2>1. MemberInv(u)
    BY Parts
  <2> QED
    BY <2>1 DEF MemberInv, Members
<1> QED
  BY <1>1, MembershipInvariant, PTL

(* A room that begin_close, or an emptying leave or sweep, has closed      *)
(* holds no open wager, so nobody's stake is lost with the room.           *)
THEOREM MembershipClosedHoldsNoBet == Spec => []ClosedHoldsNoBet
<1>1. MembershipInv => ClosedHoldsNoBet
  BY DEF MembershipInv
<1> QED
  BY <1>1, MembershipInvariant, PTL
=============================================================================
