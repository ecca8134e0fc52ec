------------------------- MODULE DealerRoom_proofs --------------------------
(***************************************************************************)
(* Proofs about DealerRoom for any players, stakes, clocks and restarts:   *)
(* wagers stay within their window, no round pays twice, an acknowledged   *)
(* wager survives, and stakes at risk are covered.                         *)
(*                                                                         *)
(* The inductive invariant follows the snapshots from storage through the  *)
(* writer's queue to memory: each is one dealer's step after the one       *)
(* before, and only the round storage already holds carries wagers.        *)
(***************************************************************************)
EXTENDS DealerRoom, SequenceTheorems, WellFoundedInduction, TLAPS

Bets == Wagers \cup {NoBet}

States ==
  [revision : Nat, round : 1 .. MaxRounds, deadline : Int, bets : [Users -> Bets],
   betRevisions : [Users -> Nat], result : BOOLEAN]

Snapshots == [state : States, settles : BOOLEAN]

Holds == [revision : Nat, stakes : [Users -> Nat]]

Cores == [room : States, queue : Seq(Snapshots), reserved : Holds]

Clean(s) == \A u \in Users : s.bets[u] = NoBet

(* One accepted change: a wager, the settlement, or the next round. *)
Link(s, t) ==
  /\ t.result => t.round = s.round /\ ~s.result /\ t.bets = s.bets
  /\ t.round # s.round => s.result /\ Clean(t)

(* Any number of them. *)
Later(s, t) == s.round <= t.round /\ (s.result => s.round < t.round)

(* Snapshots that storage does not hold yet. *)
Unwritten(q) == {i \in 1 .. Len(q) : q[i].state.revision > db.revision}

ChainInv(c) ==
  LET q == c.queue
  IN  /\ c.room.revision = saved + Len(q)
      /\ \A i \in 1 .. Len(q) : q[i].state.revision = saved + i
      /\ \A i \in 1 .. Len(q) : q[i].settles <=> q[i].state.result
      /\ q # <<>> => q[Len(q)].state = c.room
      /\ q = <<>> => db = c.room
      /\ \/ db.revision = saved /\ (q # <<>> => Link(db, q[1].state))
         \/ q # <<>> /\ db = q[1].state
      /\ \A i \in 1 .. Len(q) - 1 : Link(q[i].state, q[i + 1].state)

OrderInv(c) ==
  LET q == c.queue
  IN  /\ \A i, j \in 1 .. Len(q) : i < j => Later(q[i].state, q[j].state)
      /\ \A i \in Unwritten(q) : Later(db, q[i].state)
      /\ \A i \in Unwritten(q) : q[i].state.round > db.round => Clean(q[i].state)

(* What a player may lose is in the wallet and reserved. *)
RiskInv(c) ==
  LET q == c.queue
  IN  /\ q # <<>> => c.reserved.revision >= c.room.revision
      /\ \A u \in Users :
           /\ OpenStake(db, u) <= wallet[u] /\ OpenStake(db, u) <= c.reserved.stakes[u]
           /\ \A i \in Unwritten(q) :
                /\ q[i].state.bets[u].stake <= wallet[u]
                /\ q[i].state.bets[u].stake <= c.reserved.stakes[u]

TableInv(c) == c \in Cores /\ ChainInv(c) /\ OrderInv(c) /\ RiskInv(c)

ShownInv(c) ==
  \A r \in shown : r <= c.room.round /\ (r = c.room.round => c.room.result)

Stored(u, r, w) ==
  \/ db.round = r /\ ~db.result /\ db.bets[u] = w
  \/ ledger[r][u] = <<w>>

(* Wager w of u on round r is carried by every snapshot from a revision on. *)
Carried(c, u, r, w, target) ==
  /\ r \in 1 .. c.room.round
  /\ c.room.round = r => c.room.bets[u] = w
  /\ \A i \in 1 .. Len(c.queue) :
       saved + i >= target /\ c.queue[i].state.round = r => c.queue[i].state.bets[u] = w

AckedOn(c, u, a) ==
  a.round > 0 =>
    /\ a.wager # NoBet
    /\ Stored(u, a.round, a.wager)
    /\ Carried(c, u, a.round, a.wager, 0)

(* A request that waits for its round, or has it durable. *)
WaitOn(c, k) ==
  /\ k.pc \in {"waiting", "ready", "committing"} => k.round <= c.room.round
  /\ k.pc = "waiting" =>
       /\ k.target <= c.room.revision
       /\ db.revision >= k.target => db.round >= k.round
       /\ \A i \in 1 .. Len(c.queue) :
            saved + i >= k.target => c.queue[i].state.round >= k.round
  /\ k.pc \in {"ready", "committing"} => db.round >= k.round

(* A request whose accepted wager is not yet durable. *)
AckingOn(c, u, k) ==
  k.wager # NoBet =>
    /\ k.target <= c.room.revision
    /\ Carried(c, u, k.round, k.wager, k.target)
    /\ db.revision >= k.target => Stored(u, k.round, k.wager)
    /\ \A i \in 1 .. Len(c.queue) :
         saved + i = k.target => c.queue[i].state.round = k.round

PlayerInv(c, u) ==
  /\ AckedOn(c, u, acked[u])
  /\ WaitOn(c, client[u])
  /\ client[u].pc = "acking" => AckingOn(c, u, client[u])

(* A request between its reservation and its acceptance, under the lock. *)
CommittingInv(c, u) ==
  LET k == client[u]
  IN  k.pc = "committing" =>
        /\ k.round = c.room.round
        /\ \/ c.room.bets[u] = k.wager
           \/ /\ ~c.room.result /\ c.reserved.revision > c.room.revision
              /\ k.wager.stake <= wallet[u] /\ k.wager.stake <= c.reserved.stakes[u]

(* Receipts: none ahead of storage, all of a settled round, one each. *)
LedgerInv ==
  /\ ledger \in [1 .. MaxRounds -> [Users -> Seq(Bets)]]
  /\ \A r \in 1 .. MaxRounds, u \in Users :
       /\ (r > db.round \/ (r = db.round /\ ~db.result)) => ledger[r][u] = <<>>
       /\ (r = db.round /\ db.result) =>
            ledger[r][u] = IF db.bets[u] = NoBet THEN <<>> ELSE <<db.bets[u]>>
       /\ Len(ledger[r][u]) <= 1

Requests ==
  [pc : {"idle"}]
  \cup [pc : {"waiting", "ready", "committing"}, round : Nat, wager : Bets,
        seen : Nat, target : Nat]
  \cup [pc : {"acking"}, round : Nat, wager : Bets, target : Nat]

Acks == [round : {0}] \cup [round : Nat, wager : Bets]

RoomTypes ==
  /\ now \in 0 .. MaxTime /\ life \in 1 .. MaxLives
  /\ opened \in 1 .. MaxRounds /\ saved \in Nat
  /\ dice \in [1 .. MaxRounds -> Outcomes]
  /\ db \in States /\ wallet \in [Users -> Nat]
  /\ shown \subseteq Nat /\ holder \in Users \cup {Nobody}
  /\ client \in [Users -> Requests] /\ acked \in [Users -> Acks]

LockInv == \A u \in Users : client[u].pc = "committing" <=> holder = u

RoomInv ==
  /\ RoomTypes /\ LedgerInv /\ LockInv
  /\ TableInv(Here) /\ ShownInv(Here) /\ room.round <= opened
  /\ \A u \in Users : PlayerInv(Here, u) /\ CommittingInv(Here, u)

----------------------------------------------------------------------------
(* The dealer's rules. *)

LEMMA MaxOfTwo ==
  ASSUME NEW a \in Int, NEW b \in Int
  PROVE  Max({a, b}) = IF a >= b THEN a ELSE b
<1> DEFINE m == IF a >= b THEN a ELSE b
<1>1. m \in {a, b} /\ \A y \in {a, b} : m >= y
  OBVIOUS
<1>2. Max({a, b}) \in {a, b} /\ \A y \in {a, b} : Max({a, b}) >= y
  BY <1>1 DEF Max
<1> QED BY <1>2

LEMMA StakeTypes ==
  ASSUME NEW s \in States, NEW u \in Users
  PROVE  s.bets[u].stake \in Nat /\ OpenStake(s, u) \in Nat /\ OpenStake(s, u) <= s.bets[u].stake
<1>1. s.bets[u] \in Wagers \/ s.bets[u] = NoBet
  BY DEF States, Bets
<1>2. CASE s.bets[u] \in Wagers
  <2>1. s.bets[u].stake \in Stakes
    BY <1>2 DEF Wagers
  <2>2. s.bets[u].stake \in Nat
    BY <2>1, RoomAssumption
  <2> QED BY <2>2 DEF OpenStake
<1>3. CASE s.bets[u] = NoBet
  BY <1>3 DEF NoBet, OpenStake
<1> QED BY <1>1, <1>2, <1>3

LEMMA HeldMore ==
  ASSUME NEW r \in Holds, NEW s \in States
  PROVE  /\ SicboAccepted(r, s) \in Holds
         /\ SicboAccepted(r, s).revision = s.revision
         /\ \A u \in Users : /\ SicboAccepted(r, s).stakes[u] >= r.stakes[u]
                              /\ SicboAccepted(r, s).stakes[u] >= OpenStake(s, u)
                              /\ SicboAccepted(r, s).stakes[u] \in {r.stakes[u], OpenStake(s, u)}
<1>1. ASSUME NEW u \in Users
      PROVE  /\ Max({r.stakes[u], OpenStake(s, u)}) \in Nat
             /\ Max({r.stakes[u], OpenStake(s, u)}) >= r.stakes[u]
             /\ Max({r.stakes[u], OpenStake(s, u)}) >= OpenStake(s, u)
             /\ Max({r.stakes[u], OpenStake(s, u)}) \in {r.stakes[u], OpenStake(s, u)}
  <2>1. r.stakes[u] \in Nat /\ OpenStake(s, u) \in Nat
    BY StakeTypes DEF Holds
  <2> QED BY <2>1, MaxOfTwo
<1>2. s.revision \in Nat
  BY DEF States
<1> QED BY <1>1, <1>2 DEF SicboAccepted, Holds

(* Every snapshot of the table, and the room itself, is a state. *)
LEMMA TableTypes ==
  ASSUME NEW c, c \in Cores
  PROVE  /\ c.room \in States /\ c.queue \in Seq(Snapshots) /\ Len(c.queue) \in Nat
         /\ c.room.revision \in Nat /\ c.room.round \in Nat
         /\ \A i \in 1 .. Len(c.queue) : c.queue[i] \in Snapshots /\ c.queue[i].state \in States
         /\ c.reserved \in Holds
<1>1. c.room \in States /\ c.queue \in Seq(Snapshots) /\ c.reserved \in Holds
  BY DEF Cores
<1>2. Len(c.queue) \in Nat /\ \A i \in 1 .. Len(c.queue) : c.queue[i] \in Snapshots
  BY <1>1
<1>3. c.room.revision \in Nat /\ c.room.round \in Nat
  BY <1>1 DEF States
<1> QED BY <1>1, <1>2, <1>3 DEF Snapshots

LEMMA LaterTransitive ==
  ASSUME NEW r \in States, NEW s \in States, NEW t \in States, Later(s, t), r = s \/ Later(r, s)
  PROVE  Later(r, t)
<1>1. r.round \in Nat /\ s.round \in Nat /\ t.round \in Nat
  BY DEF States
<1> QED BY <1>1 DEF Later

(* Storage holds memory's state, or memory is the last unwritten snapshot. *)
LEMMA RoomFacts ==
  ASSUME NEW c, TableInv(c), db \in States, saved \in Nat
  PROVE  /\ db.revision \in {saved, saved + 1} /\ db.revision \in Nat
         /\ \/ db = c.room
            \/ Len(c.queue) \in Unwritten(c.queue) /\ c.queue[Len(c.queue)].state = c.room
         /\ db = c.room \/ Later(db, c.room)
         /\ db.round <= c.room.round
         /\ db.revision >= c.room.revision => db = c.room
         /\ \A i \in 1 .. Len(c.queue) : saved + i >= c.room.revision => c.queue[i].state = c.room
<1> DEFINE q == c.queue
<1>1. /\ Len(q) \in Nat /\ c.room \in States /\ q \in Seq(Snapshots)
      /\ \A i \in 1 .. Len(q) : q[i].state \in States
  BY TableTypes DEF TableInv
<1>2. db.revision \in Nat /\ db.round \in Nat /\ c.room.round \in Nat
  BY <1>1 DEF States
<1>3. /\ c.room.revision = saved + Len(q)
      /\ \A i \in 1 .. Len(q) : q[i].state.revision = saved + i
      /\ q # <<>> => q[Len(q)].state = c.room
      /\ q = <<>> => db = c.room
      /\ db.revision = saved \/ (q # <<>> /\ db = q[1].state)
  BY DEF TableInv, ChainInv
<1>4. q # <<>> => Len(q) >= 1
  BY <1>1
<1>5. db.revision \in {saved, saved + 1}
  BY <1>1, <1>3, <1>4
<1>6. /\ \/ db = c.room
         \/ Len(q) \in Unwritten(q) /\ q[Len(q)].state = c.room
      /\ db.revision >= c.room.revision => db = c.room
  <2>1. CASE q = <<>>
    BY <2>1, <1>3
  <2>2. CASE q # <<>> /\ Len(q) = 1 /\ db = q[1].state
    BY <2>2, <1>3
  <2>3. CASE q # <<>> /\ Len(q) > 1
    <3>1. Len(q) \in 1 .. Len(q) /\ q[Len(q)].state.revision > db.revision
      BY <2>3, <1>1, <1>2, <1>3, <1>5, SMTT(30)
    <3>2. db.revision < c.room.revision
      BY <2>3, <1>1, <1>2, <1>3, <1>5
    <3> QED BY <3>1, <3>2, <2>3, <1>3, <1>2, <1>1 DEF Unwritten
  <2>4. CASE q # <<>> /\ db.revision = saved
    <3>1. Len(q) \in 1 .. Len(q) /\ q[Len(q)].state.revision > db.revision
      BY <2>4, <1>1, <1>2, <1>3, <1>4
    <3>2. db.revision < c.room.revision
      BY <2>4, <1>1, <1>2, <1>3, <1>4
    <3> QED BY <3>1, <3>2, <2>4, <1>3, <1>2, <1>1 DEF Unwritten
  <2> QED BY <2>1, <2>2, <2>3, <2>4, <1>3, <1>4, <1>1
<1>7. db = c.room \/ Later(db, c.room)
  BY <1>6 DEF TableInv, OrderInv
<1>8. db.round <= c.room.round
  BY <1>7, <1>2 DEF Later
<1>9. \A i \in 1 .. Len(q) : saved + i >= c.room.revision => q[i].state = c.room
  <2>1. SUFFICES ASSUME NEW i \in 1 .. Len(q), saved + i >= c.room.revision
                 PROVE  q[i].state = c.room
    OBVIOUS
  <2>2. i = Len(q) /\ q # <<>>
    BY <2>1, <1>1, <1>3
  <2> QED BY <2>2, <1>3
<1> QED BY <1>2, <1>5, <1>6, <1>7, <1>8, <1>9

----------------------------------------------------------------------------
(* Accepting a change. *)

Accepted(c, s) ==
  [room |-> s, queue |-> Append(c.queue, [state |-> s, settles |-> s.result]),
   reserved |-> SicboAccepted(c.reserved, s)]

(* A state the room may accept next. *)
Acceptable(c, s) ==
  /\ s \in States /\ s.revision = c.room.revision + 1
  /\ Link(c.room, s) /\ Later(c.room, s)
  /\ s.round > db.round => Clean(s)
  /\ \A u \in Users :
       /\ s.bets[u].stake <= wallet[u]
       /\ s.bets[u].stake <= c.reserved.stakes[u] \/ ~s.result

LEMMA AcceptedRoom ==
  ASSUME NEW c, NEW s
  PROVE  Accepted(c, s).room = s
BY DEF Accepted

LEMMA AppendFacts ==
  ASSUME NEW c, c \in Cores, NEW s \in States, NEW d, d = Accepted(c, s)
  PROVE  /\ d \in Cores /\ d.room = s
         /\ d.queue # <<>> /\ Len(d.queue) = Len(c.queue) + 1
         /\ \A i \in 1 .. Len(c.queue) : d.queue[i] = c.queue[i]
         /\ d.queue[Len(c.queue) + 1].state = s /\ d.queue[Len(c.queue) + 1].settles = s.result
         /\ d.reserved = SicboAccepted(c.reserved, s)
<1> DEFINE e == [state |-> s, settles |-> s.result]
<1>1. e \in Snapshots
  BY DEF Snapshots, States
<1>2. c.queue \in Seq(Snapshots) /\ c.reserved \in Holds /\ Len(c.queue) \in Nat
  BY TableTypes
<1>3. d.room = s /\ d.queue = Append(c.queue, e) /\ d.reserved = SicboAccepted(c.reserved, s)
  BY DEF Accepted
<1> HIDE DEF e
<1>4. /\ Append(c.queue, e) \in Seq(Snapshots) /\ Append(c.queue, e) # <<>>
      /\ Len(Append(c.queue, e)) = Len(c.queue) + 1
      /\ \A i \in 1 .. Len(c.queue) : Append(c.queue, e)[i] = c.queue[i]
      /\ Append(c.queue, e)[Len(c.queue) + 1] = e
  BY <1>1, <1>2
<1>5. d \in Cores
  <2>1. SicboAccepted(c.reserved, s) \in Holds
    BY <1>2, HeldMore
  <2>2. d = [room |-> s, queue |-> Append(c.queue, e), reserved |-> SicboAccepted(c.reserved, s)]
    BY DEF Accepted, e
  <2> QED BY <2>1, <2>2, <1>4 DEF Cores
<1> QED BY <1>3, <1>4, <1>5 DEF e

LEMMA AcceptTable ==
  ASSUME NEW c, TableInv(c), db \in States, saved \in Nat, wallet \in [Users -> Nat],
         NEW s, Acceptable(c, s), NEW d, d = Accepted(c, s)
  PROVE  TableInv(d)
<1> DEFINE q == c.queue
<1> DEFINE p == d.queue
<1> DEFINE n == Len(c.queue)
<1>1. s \in States /\ c \in Cores
  BY DEF Acceptable, TableInv
<1>2. /\ d \in Cores /\ d.room = s /\ p # <<>> /\ Len(p) = n + 1
      /\ \A i \in 1 .. n : p[i] = q[i]
      /\ p[n + 1].state = s /\ p[n + 1].settles = s.result
      /\ d.reserved = SicboAccepted(c.reserved, s)
  BY <1>1, AppendFacts, SMTT(30)
<1>3. /\ n \in Nat /\ c.room \in States /\ c.reserved \in Holds
      /\ \A i \in 1 .. n : q[i].state \in States
      /\ c.room.revision \in Nat /\ q \in Seq(Snapshots)
  BY <1>1, TableTypes
<1>4. /\ c.room.revision = saved + n
      /\ \A i \in 1 .. n : q[i].state.revision = saved + i
      /\ \A i \in 1 .. n : q[i].settles <=> q[i].state.result
      /\ q # <<>> => q[n].state = c.room
      /\ q = <<>> => db = c.room
      /\ \/ db.revision = saved /\ (q # <<>> => Link(db, q[1].state))
         \/ q # <<>> /\ db = q[1].state
      /\ \A i \in 1 .. n - 1 : Link(q[i].state, q[i + 1].state)
  BY DEF TableInv, ChainInv
<1>5. s.revision = c.room.revision + 1 /\ Link(c.room, s) /\ Later(c.room, s)
  BY DEF Acceptable
<1>6. q # <<>> => n >= 1
  BY <1>3
<1>7. ASSUME NEW i \in 1 .. n + 1
      PROVE  (i \in 1 .. n /\ p[i] = q[i]) \/ (i = n + 1 /\ p[i].state = s)
  BY <1>2, <1>3
<1> HIDE DEF p, q, n
<1>8. ChainInv(d)
  <2>1. d.room.revision = saved + (n + 1)
    BY <1>2, <1>3, <1>4, <1>5
  <2>2. \A i \in 1 .. n + 1 : p[i].state.revision = saved + i
    <3>1. SUFFICES ASSUME NEW i \in 1 .. n + 1 PROVE p[i].state.revision = saved + i
      OBVIOUS
    <3>2. CASE i \in 1 .. n /\ p[i] = q[i]
      BY <3>2, <1>4
    <3>3. CASE i = n + 1 /\ p[i].state = s
      BY <3>3, <1>3, <1>4, <1>5
    <3> QED BY <3>2, <3>3, <1>7
  <2>3. \A i \in 1 .. n + 1 : p[i].settles <=> p[i].state.result
    BY <1>7, <1>2, <1>4
  <2>4. \/ db.revision = saved /\ Link(db, p[1].state)
        \/ db = p[1].state
    <3>1. CASE q = <<>>
      <4>1. n = 0
        BY <3>1 DEF n, q
      <4> QED BY <4>1, <3>1, <1>2, <1>4, <1>5, <1>3
    <3>2. CASE q # <<>>
      BY <3>2, <1>2, <1>3, <1>4, <1>6
    <3> QED BY <3>1, <3>2
  <2>5. \A i \in 1 .. n : Link(p[i].state, p[i + 1].state)
    <3>1. SUFFICES ASSUME NEW i \in 1 .. n PROVE Link(p[i].state, p[i + 1].state)
      OBVIOUS
    <3>2. CASE i = n
      <4>1. q[n].state = c.room
        BY <3>2, <1>3, <1>4 DEF n, q
      <4> QED BY <4>1, <3>2, <1>2, <1>5
    <3>3. CASE i # n
      <4>1. i \in 1 .. n - 1 /\ i + 1 \in 1 .. n
        BY <3>3, <1>3
      <4> QED BY <4>1, <1>2, <1>4
    <3> QED BY <3>2, <3>3
  <2>6. (n + 1) - 1 = n /\ p[Len(p)].state = d.room
    BY <1>2, <1>3
  <2> QED BY <2>1, <2>2, <2>3, <2>4, <2>5, <2>6, <1>2 DEF ChainInv, p
<1>9. db.revision \in Nat /\ (db = c.room \/ Later(db, c.room))
  BY RoomFacts
<1>10. OrderInv(d)
  <2>1. /\ \A i, j \in 1 .. n : i < j => Later(q[i].state, q[j].state)
        /\ \A i \in Unwritten(q) : Later(db, q[i].state)
        /\ \A i \in Unwritten(q) : q[i].state.round > db.round => Clean(q[i].state)
    BY DEF TableInv, OrderInv, n, q
  <2>2. ASSUME NEW i \in 1 .. n + 1, NEW j \in 1 .. n + 1, i < j
        PROVE  Later(p[i].state, p[j].state)
    <3>1. CASE j \in 1 .. n
      <4>1. i \in 1 .. n
        BY <3>1, <2>2, <1>3
      <4> QED BY <4>1, <3>1, <2>1, <2>2, <1>2
    <3>2. CASE j = n + 1
      <4>1. i \in 1 .. n /\ n \in 1 .. n /\ q[n].state = c.room
        BY <3>2, <2>2, <1>3, <1>4 DEF n, q
      <4>2. q[i].state = c.room \/ Later(q[i].state, c.room)
        BY <4>1, <2>1, <1>3
      <4>3. Later(q[i].state, s)
        BY <4>1, <4>2, <1>1, <1>3, <1>5, LaterTransitive
      <4> QED BY <4>3, <4>1, <3>2, <1>2
    <3> QED BY <3>1, <3>2, <1>3
  <2>3. ASSUME NEW i \in Unwritten(p)
        PROVE  /\ Later(db, p[i].state)
               /\ p[i].state.round > db.round => Clean(p[i].state)
    <3>1. i \in 1 .. n + 1 /\ p[i].state.revision > db.revision
      BY <1>2 DEF Unwritten, p
    <3>2. CASE i \in 1 .. n /\ p[i] = q[i]
      <4>1. i \in Unwritten(q)
        BY <3>1, <3>2 DEF Unwritten, n, q
      <4> QED BY <4>1, <3>2, <2>1
    <3>3. CASE i = n + 1 /\ p[i].state = s
      <4>1. Later(db, s)
        BY <1>1, <1>3, <1>5, <1>9, LaterTransitive
      <4> QED BY <4>1, <3>3 DEF Acceptable
    <3> QED BY <3>1, <3>2, <3>3, <1>7
  <2> QED BY <2>2, <2>3, <1>2 DEF OrderInv, p
<1>11. RiskInv(d)
  <2>1. /\ d.reserved \in Holds /\ d.reserved.revision = s.revision
        /\ \A u \in Users : /\ d.reserved.stakes[u] >= c.reserved.stakes[u]
                             /\ d.reserved.stakes[u] >= OpenStake(s, u)
    <3>1. c.reserved \in Holds /\ s \in States /\ d.reserved = SicboAccepted(c.reserved, s)
      BY <1>1, <1>2, <1>3
    <3> QED BY <3>1, HeldMore
  <2>2. ASSUME NEW u \in Users
        PROVE  /\ OpenStake(db, u) <= wallet[u] /\ OpenStake(db, u) <= d.reserved.stakes[u]
               /\ \A i \in Unwritten(p) :
                    /\ p[i].state.bets[u].stake <= wallet[u]
                    /\ p[i].state.bets[u].stake <= d.reserved.stakes[u]
    <3>1. /\ OpenStake(db, u) <= wallet[u] /\ OpenStake(db, u) <= c.reserved.stakes[u]
          /\ \A i \in Unwritten(q) :
               /\ q[i].state.bets[u].stake <= wallet[u]
               /\ q[i].state.bets[u].stake <= c.reserved.stakes[u]
      BY DEF TableInv, RiskInv, q
    <3>2. /\ d.reserved.stakes[u] \in Nat /\ c.reserved.stakes[u] \in Nat
          /\ d.reserved.stakes[u] >= c.reserved.stakes[u] /\ wallet[u] \in Nat
      BY <2>1, <1>3 DEF Holds
    <3>3. OpenStake(db, u) \in Nat
      BY StakeTypes
    <3>4. s.bets[u].stake \in Nat /\ s.bets[u].stake <= wallet[u]
          /\ s.bets[u].stake <= d.reserved.stakes[u]
      <4>1. s.bets[u].stake \in Nat
        BY <1>1, StakeTypes
      <4>2. CASE s.bets[u].stake <= c.reserved.stakes[u]
        BY <4>1, <4>2, <3>2 DEF Acceptable
      <4>3. CASE ~s.result
        BY <4>1, <4>3, <3>2, <2>1 DEF Acceptable, OpenStake
      <4> QED BY <4>2, <4>3 DEF Acceptable
    <3>5. ASSUME NEW i \in Unwritten(p)
          PROVE  /\ p[i].state.bets[u].stake <= wallet[u]
                 /\ p[i].state.bets[u].stake <= d.reserved.stakes[u]
      <4>1. i \in 1 .. n + 1 /\ p[i].state.revision > db.revision
        BY <1>2 DEF Unwritten, p
      <4>2. CASE i \in 1 .. n /\ p[i] = q[i]
        <5>1. i \in Unwritten(q) /\ q[i].state \in States
          BY <4>1, <4>2, <1>3 DEF Unwritten, n, q
        <5>2. q[i].state.bets[u].stake \in Nat
          BY <5>1, StakeTypes
        <5> QED BY <5>1, <5>2, <4>2, <3>1, <3>2
      <4>3. CASE i = n + 1 /\ p[i].state = s
        BY <4>3, <3>4
      <4> QED BY <4>1, <4>2, <4>3, <1>7
    <3> QED BY <3>1, <3>2, <3>3, <3>5
  <2>3. d.reserved.revision >= d.room.revision
    BY <2>1, <1>2, <1>1 DEF States
  <2> QED BY <2>2, <2>3 DEF RiskInv, p
<1> QED BY <1>2, <1>8, <1>10, <1>11 DEF TableInv

(* A wager another snapshot carries is carried by the new one. *)
LEMMA AcceptCarries ==
  ASSUME NEW c, TableInv(c), db \in States, saved \in Nat,
         NEW s, s \in States, s.revision = c.room.revision + 1, s.round >= c.room.round,
         NEW d, d = Accepted(c, s),
         NEW u \in Users, s.round = c.room.round => s.bets[u] = c.room.bets[u],
         NEW r, NEW w, NEW target, Carried(c, u, r, w, target)
  PROVE  Carried(d, u, r, w, target)
<1> DEFINE n == Len(c.queue)
<1>1. /\ d.room = s /\ Len(d.queue) = n + 1
      /\ \A i \in 1 .. n : d.queue[i] = c.queue[i]
      /\ d.queue[n + 1].state = s
  BY AppendFacts DEF TableInv
<1>2. n \in Nat /\ c.room.round \in Nat /\ s.round \in Nat
  BY TableTypes DEF TableInv, States
<1>3. /\ r \in 1 .. c.room.round
      /\ c.room.round = r => c.room.bets[u] = w
      /\ \A i \in 1 .. n :
           saved + i >= target /\ c.queue[i].state.round = r => c.queue[i].state.bets[u] = w
  BY DEF Carried
<1> HIDE DEF n
<1>4. r \in 1 .. s.round /\ (s.round = r => s.bets[u] = w)
  BY <1>2, <1>3
<1>5. ASSUME NEW i \in 1 .. n + 1, saved + i >= target /\ d.queue[i].state.round = r
      PROVE  d.queue[i].state.bets[u] = w
  <2>1. CASE i \in 1 .. n
    BY <2>1, <1>1, <1>3, <1>5
  <2>2. CASE i = n + 1
    BY <2>2, <1>1, <1>4, <1>5
  <2> QED BY <2>1, <2>2, <1>2
<1> QED BY <1>1, <1>4, <1>5 DEF Carried

LEMMA AcceptAcking ==
  ASSUME NEW c, TableInv(c), db \in States, saved \in Nat,
         NEW s, s \in States, s.revision = c.room.revision + 1, s.round >= c.room.round,
         NEW d, d = Accepted(c, s),
         NEW u \in Users, s.round = c.room.round => s.bets[u] = c.room.bets[u],
         NEW k, k.target \in Nat, AckingOn(c, u, k)
  PROVE  AckingOn(d, u, k)
<1> DEFINE n == Len(c.queue)
<1>1. SUFFICES ASSUME k.wager # NoBet
               PROVE  /\ k.target <= d.room.revision
                      /\ Carried(d, u, k.round, k.wager, k.target)
                      /\ db.revision >= k.target => Stored(u, k.round, k.wager)
                      /\ \A i \in 1 .. Len(d.queue) :
                           saved + i = k.target => d.queue[i].state.round = k.round
  BY DEF AckingOn
<1>2. /\ k.target <= c.room.revision
      /\ Carried(c, u, k.round, k.wager, k.target)
      /\ db.revision >= k.target => Stored(u, k.round, k.wager)
      /\ \A i \in 1 .. n : saved + i = k.target => c.queue[i].state.round = k.round
  BY <1>1 DEF AckingOn
<1>3. /\ d.room = s /\ Len(d.queue) = n + 1
      /\ \A i \in 1 .. n : d.queue[i] = c.queue[i]
  BY AppendFacts DEF TableInv
<1>4. n \in Nat /\ c.room.revision \in Nat
  BY TableTypes DEF TableInv
<1>5. c.room.revision = saved + n
  BY DEF TableInv, ChainInv
<1>6. Carried(d, u, k.round, k.wager, k.target)
  BY <1>2, AcceptCarries
<1> HIDE DEF n
<1>7. ASSUME NEW i \in 1 .. n + 1, saved + i = k.target
      PROVE  d.queue[i].state.round = k.round
  <2>1. i \in 1 .. n
    BY <1>7, <1>2, <1>4, <1>5
  <2> QED BY <2>1, <1>2, <1>3, <1>7
<1> QED BY <1>2, <1>3, <1>4, <1>6, <1>7

LEMMA RequestForms ==
  ASSUME NEW k \in Requests
  PROVE  /\ k.pc \in {"idle", "waiting", "ready", "committing", "acking"}
         /\ k.pc \in {"waiting", "ready", "committing"} =>
              /\ k.round \in Nat /\ k.wager \in Bets /\ k.target \in Nat
              /\ k \in [pc : {"waiting", "ready", "committing"}, round : Nat, wager : Bets,
                        seen : Nat, target : Nat]
         /\ k.pc = "acking" => k.round \in Nat /\ k.wager \in Bets /\ k.target \in Nat
<1>1. CASE k \in [pc : {"idle"}]
  BY <1>1
<1>2. CASE k \in [pc : {"waiting", "ready", "committing"}, round : Nat, wager : Bets,
                  seen : Nat, target : Nat]
  BY <1>2
<1>3. CASE k \in [pc : {"acking"}, round : Nat, wager : Bets, target : Nat]
  BY <1>3
<1> QED BY <1>1, <1>2, <1>3 DEF Requests

LEMMA AcceptPlayer ==
  ASSUME NEW c, TableInv(c), db \in States, saved \in Nat, client \in [Users -> Requests],
         NEW s, s \in States, s.revision = c.room.revision + 1, s.round >= c.room.round,
         NEW d, d = Accepted(c, s),
         NEW u \in Users, s.round = c.room.round => s.bets[u] = c.room.bets[u],
         PlayerInv(c, u)
  PROVE  PlayerInv(d, u)
<1> DEFINE n == Len(c.queue)
<1> DEFINE k == client[u]
<1>1. AckedOn(d, u, acked[u])
  <2>1. CASE acked[u].round > 0
    <3>1. Carried(c, u, acked[u].round, acked[u].wager, 0)
      BY <2>1 DEF PlayerInv, AckedOn
    <3>2. Carried(d, u, acked[u].round, acked[u].wager, 0)
      BY <3>1, AcceptCarries
    <3> QED BY <3>2, <2>1 DEF PlayerInv, AckedOn
  <2>2. CASE ~(acked[u].round > 0)
    BY <2>2 DEF AckedOn
  <2> QED BY <2>1, <2>2
<1>2. k.pc = "acking" => AckingOn(d, u, k)
  BY AcceptAcking, RequestForms DEF PlayerInv
<1>3. WaitOn(d, k)
  <2>1. /\ d.room = s /\ Len(d.queue) = n + 1
        /\ \A i \in 1 .. n : d.queue[i] = c.queue[i]
        /\ d.queue[n + 1].state = s
    BY AppendFacts DEF TableInv
  <2>2. n \in Nat /\ c.room.revision \in Nat /\ c.room.round \in Nat /\ s.round \in Nat
    BY TableTypes DEF TableInv, States
  <2>3. WaitOn(c, k) /\ k \in Requests
    BY DEF PlayerInv
  <2> HIDE DEF n, k
  <2>4. k.pc \in {"waiting", "ready", "committing"} => k.round <= d.room.round
    BY <2>1, <2>2, <2>3, RequestForms DEF WaitOn
  <2>5. ASSUME k.pc = "waiting"
        PROVE  /\ k.target <= d.room.revision
               /\ db.revision >= k.target => db.round >= k.round
               /\ \A i \in 1 .. Len(d.queue) :
                    saved + i >= k.target => d.queue[i].state.round >= k.round
    <3>1. k.round \in Nat /\ k.target \in Nat
      BY <2>5, <2>3, RequestForms
    <3>2. /\ k.target <= c.room.revision
          /\ db.revision >= k.target => db.round >= k.round
          /\ \A i \in 1 .. n :
               saved + i >= k.target => c.queue[i].state.round >= k.round
      BY <2>5, <2>3 DEF WaitOn, n
    <3>3. ASSUME NEW i \in 1 .. n + 1, saved + i >= k.target
          PROVE  d.queue[i].state.round >= k.round
      <4>1. CASE i \in 1 .. n
        BY <4>1, <3>2, <3>3, <2>1
      <4>2. CASE i = n + 1
        BY <4>2, <2>1, <2>4, <2>5
      <4> QED BY <4>1, <4>2, <2>2
    <3> QED BY <3>1, <3>2, <3>3, <2>1, <2>2
  <2> QED BY <2>3, <2>4, <2>5 DEF WaitOn
<1> QED BY <1>1, <1>2, <1>3 DEF PlayerInv

----------------------------------------------------------------------------
(* The dealer's steps. *)

(* A round keeps its wagers and its result, or a later one replaces it. *)
Dealt(c, d) ==
  \/ /\ d.room.round = c.room.round /\ d.room.bets = c.room.bets
     /\ c.room.result => d.room.result
  \/ d.room.round > c.room.round

Dealing(c, d) ==
  /\ TableInv(d) /\ Dealt(c, d)
  /\ \A u \in Users : PlayerInv(c, u) => PlayerInv(d, u)

LEMMA SettleFacts ==
  ASSUME NEW c, TableInv(c), RoomTypes, ~c.room.result, NEW d, d = Accept(c, SettleRound(c.room), TRUE)
  PROVE  /\ Dealing(c, d) /\ d.room.round = c.room.round /\ d.room.bets = c.room.bets
         /\ \A u \in Users : \A k : k.target \in Nat /\ AckingOn(c, u, k) => AckingOn(d, u, k)
<1>1. CASE ~Healthy(c)
  BY <1>1 DEF Accept, Dealing, Dealt
<1>2. CASE Healthy(c)
  <2> DEFINE s == [SettleRound(c.room) EXCEPT !.revision = c.room.revision + 1]
  <2>1. c.room \in States /\ c.room.revision \in Nat /\ c.room.round \in Nat /\ c.reserved \in Holds
    BY TableTypes DEF TableInv
  <2>2. now + ShowTime \in Int
    BY RoomAssumption DEF RoomTypes
  <2>3. /\ s \in States /\ s.revision = c.room.revision + 1 /\ s.result = TRUE
        /\ s.round = c.room.round /\ s.bets = c.room.bets
    <3>1. /\ SettleRound(c.room) \in States /\ SettleRound(c.room).result = TRUE
          /\ SettleRound(c.room).round = c.room.round /\ SettleRound(c.room).bets = c.room.bets
      BY <2>1, <2>2 DEF States, SettleRound
    <3>2. c.room.revision + 1 \in Nat
      BY <2>1
    <3> QED BY <3>1, <3>2 DEF States
  <2>4. d = [room |-> s, queue |-> Append(c.queue, [state |-> s, settles |-> TRUE]),
             reserved |-> SicboAccepted(c.reserved, s)]
    BY <1>2 DEF Accept
  <2> HIDE DEF s
  <2>5. d = Accepted(c, s)
    BY <2>3, <2>4 DEF Accepted
  <2>6. Acceptable(c, s)
    <3>1. /\ db \in States /\ saved \in Nat /\ wallet \in [Users -> Nat]
          /\ db.round \in Nat
      BY DEF RoomTypes, States
    <3>2. \/ db = c.room
          \/ Len(c.queue) \in Unwritten(c.queue) /\ c.queue[Len(c.queue)].state = c.room
      BY <3>1, RoomFacts
    <3>3. c.room.round > db.round => Clean(c.room)
      BY <3>1, <3>2, <2>1 DEF TableInv, OrderInv
    <3>4. ASSUME NEW u \in Users
          PROVE  c.room.bets[u].stake <= wallet[u] /\ c.room.bets[u].stake <= c.reserved.stakes[u]
      BY <3>2 DEF TableInv, RiskInv, OpenStake
    <3> QED BY <2>1, <2>3, <3>3, <3>4 DEF Acceptable, Link, Later, Clean
  <2>7. TableInv(d)
    BY <2>5, <2>6, AcceptTable DEF RoomTypes
  <2>8. d.room = s
    BY <2>5, AcceptedRoom
  <2>9. s.round >= c.room.round /\ db \in States /\ saved \in Nat /\ client \in [Users -> Requests]
    BY <2>1, <2>3 DEF RoomTypes
  <2>10. ASSUME NEW u \in Users, PlayerInv(c, u)
         PROVE  PlayerInv(d, u)
    BY <2>10, <2>3, <2>5, <2>9, AcceptPlayer
  <2>11. ASSUME NEW u \in Users, NEW k, k.target \in Nat, AckingOn(c, u, k)
         PROVE  AckingOn(d, u, k)
    BY <2>11, <2>3, <2>5, <2>9, AcceptAcking
  <2> QED BY <2>3, <2>7, <2>8, <2>10, <2>11 DEF Dealing, Dealt
<1> QED BY <1>1, <1>2

LEMMA AdvanceFacts ==
  ASSUME NEW c, TableInv(c), RoomTypes, CanAdvance(c.room), c.room.round <= opened,
         NEW d, d = Accept(c, NewRound(opened + 1, 0), FALSE)
  PROVE  Dealing(c, d)
<1>1. CASE ~Healthy(c)
  BY <1>1 DEF Accept, Dealing, Dealt
<1>2. CASE Healthy(c)
  <2> DEFINE s == [NewRound(opened + 1, 0) EXCEPT !.revision = c.room.revision + 1]
  <2>1. c.room \in States /\ c.room.revision \in Nat /\ c.room.round \in Nat /\ c.reserved \in Holds
    BY TableTypes DEF TableInv
  <2>2. now + BetTime \in Int /\ opened + 1 \in 1 .. MaxRounds /\ opened \in Nat
    BY RoomAssumption DEF RoomTypes, CanAdvance
  <2>3. /\ s.revision = c.room.revision + 1 /\ s.result = FALSE
        /\ s.round = opened + 1 /\ s.bets = [u \in Users |-> NoBet]
    BY DEF NewRound
  <2>4. s \in States
    <3>1. [u \in Users |-> NoBet] \in [Users -> Bets] /\ [u \in Users |-> 0] \in [Users -> Nat]
      BY DEF Bets
    <3>2. NewRound(opened + 1, 0) \in States
      BY <3>1, <2>2 DEF States, NewRound
    <3>3. c.room.revision + 1 \in Nat
      BY <2>1
    <3> QED BY <3>2, <3>3 DEF States
  <2>5. d = [room |-> s, queue |-> Append(c.queue, [state |-> s, settles |-> FALSE]),
             reserved |-> SicboAccepted(c.reserved, s)]
    BY <1>2 DEF Accept
  <2> HIDE DEF s
  <2>6. d = Accepted(c, s)
    BY <2>3, <2>5 DEF Accepted
  <2>7. s.round > c.room.round
    BY <2>1, <2>2, <2>3
  <2>8. Acceptable(c, s)
    <3>1. \A u \in Users : s.bets[u] = NoBet /\ s.bets[u].stake = 0 /\ wallet[u] \in Nat
      BY <2>3 DEF NoBet, RoomTypes
    <3>2. c.room.result
      BY DEF CanAdvance
    <3>3. ~s.result /\ Clean(s)
      BY <3>1, <2>3 DEF Clean
    <3>4. Link(c.room, s) /\ Later(c.room, s)
      BY <3>2, <3>3, <2>1, <2>2, <2>3, <2>7 DEF Link, Later
    <3> QED BY <3>1, <3>3, <3>4, <2>3, <2>4 DEF Acceptable
  <2>9. TableInv(d)
    BY <2>6, <2>8, AcceptTable DEF RoomTypes
  <2>10. d.room = s
    BY <2>6, AcceptedRoom
  <2>11. s.round >= c.room.round /\ s.round # c.room.round
    BY <2>1, <2>2, <2>3
  <2>12. \A u \in Users : PlayerInv(c, u) => PlayerInv(d, u)
    BY <2>1, <2>3, <2>4, <2>6, <2>11, AcceptPlayer DEF RoomTypes
  <2> QED BY <2>7, <2>9, <2>10, <2>12 DEF Dealing, Dealt
<1> QED BY <1>1, <1>2

LEMMA DealtTransitive ==
  ASSUME NEW c, NEW d, NEW e, c \in Cores, d \in Cores, e \in Cores, Dealt(c, d), Dealt(d, e)
  PROVE  Dealt(c, e)
<1>1. c.room.round \in Nat /\ d.room.round \in Nat /\ e.room.round \in Nat
  BY TableTypes
<1> QED BY <1>1 DEF Dealt

LEMMA DealWhenAllBetFacts ==
  ASSUME NEW c, TableInv(c), RoomTypes, NEW d, d = DealWhenAllBet(c)
  PROVE  /\ Dealing(c, d) /\ d.room.round = c.room.round /\ d.room.bets = c.room.bets
         /\ \A u \in Users : \A k : k.target \in Nat /\ AckingOn(c, u, k) => AckingOn(d, u, k)
<1>1. CASE d = c
  BY <1>1 DEF Dealing, Dealt
<1>2. CASE ~c.room.result /\ d = Accept(c, SettleRound(c.room), TRUE)
  BY <1>2, SettleFacts
<1> QED BY <1>1, <1>2 DEF DealWhenAllBet

LEMMA TickFacts ==
  ASSUME NEW c, TableInv(c), RoomTypes, c.room.round <= opened,
         NEW d, d = Tick(c) \/ d = SettleUnwatched(c)
  PROVE  Dealing(c, d)
<1>1. CASE d = c
  BY <1>1 DEF Dealing, Dealt
<1>2. CASE ~c.room.result /\ d = Accept(c, SettleRound(c.room), TRUE)
  BY <1>2, SettleFacts
<1>3. CASE CanAdvance(c.room) /\ d = Accept(c, NewRound(opened + 1, 0), FALSE)
  BY <1>3, AdvanceFacts
<1> QED BY <1>1, <1>2, <1>3 DEF Tick, SettleUnwatched, Due

(* What the table's invariant says depends on storage only through these. *)
LEMMA TableFrame ==
  ASSUME NEW d, TableInv(d), Here' = d, UNCHANGED <<db, saved, wallet>>
  PROVE  TableInv(Here)'
<1>1. (Here \in Cores)'
  BY DEF TableInv, Cores, States, Snapshots, Holds, Bets, Wagers, NoBet
<1>2. ChainInv(Here)'
  BY DEF TableInv, ChainInv, Clean, Link, NoBet
<1>3. OrderInv(Here)'
  BY DEF TableInv, OrderInv, Unwritten, Clean, Later, NoBet
<1>4. RiskInv(Here)'
  BY DEF TableInv, RiskInv, Unwritten, OpenStake
<1> QED BY <1>1, <1>2, <1>3, <1>4 DEF TableInv

LEMMA PlayerFrame ==
  ASSUME NEW d, NEW u \in Users, PlayerInv(d, u), Here' = d, UNCHANGED <<db, saved, ledger>>,
         client'[u] = client[u], acked'[u] = acked[u]
  PROVE  PlayerInv(Here, u)'
BY DEF PlayerInv, AckedOn, WaitOn, AckingOn, Carried, Stored, NoBet

LEMMA BecomeShown ==
  ASSUME RoomInv, NEW d, TableInv(d), Become(d),
         d.room.round > room.round \/ (d.room.round = room.round /\ (room.result => d.room.result))
  PROVE  /\ Here' = d /\ ShownInv(Here)' /\ room'.round <= opened'
         /\ opened' \in 1 .. MaxRounds /\ shown' \subseteq Nat
<1>1. Here.room = room /\ d.room \in States /\ d.room.round \in 1 .. MaxRounds /\ d.room.round \in Nat
  BY TableTypes DEF Here, TableInv, States
<1>2. room' = d.room /\ queue' = d.queue /\ reserved' = d.reserved
  BY DEF Become
<1>3. Here' = d
  <2>1. d = [room |-> d.room, queue |-> d.queue, reserved |-> d.reserved]
    BY DEF TableInv, Cores
  <2> QED BY <2>1, <1>2 DEF Here
<1>4. room.round \in Nat /\ opened \in 1 .. MaxRounds /\ opened \in Nat
  BY TableTypes DEF RoomInv, RoomTypes, TableInv, Here
<1>5. opened' = IF opened >= d.room.round THEN opened ELSE d.room.round
  BY <1>1, <1>4, MaxOfTwo DEF Become
<1>6. shown \subseteq Nat /\ \A r \in shown : r <= room.round /\ (r = room.round => room.result)
  BY DEF RoomInv, RoomTypes, ShownInv, Here
<1>7. shown' = IF d.room.result THEN shown \cup {d.room.round} ELSE shown
  BY DEF Become
<1>8. ASSUME NEW r \in shown'
      PROVE  r <= d.room.round /\ (r = d.room.round => d.room.result)
  <2>1. CASE r \in shown
    BY <2>1, <1>1, <1>4, <1>6
  <2>2. CASE r = d.room.round /\ d.room.result
    BY <2>2, <1>1
  <2> QED BY <2>1, <2>2, <1>7
<1>9. ShownInv(Here)'
  BY <1>3, <1>8 DEF ShownInv
<1>10. shown' \subseteq Nat
  BY <1>1, <1>6, <1>7
<1> QED BY <1>1, <1>2, <1>3, <1>4, <1>5, <1>9, <1>10

LEMMA LedgerFrame ==
  LedgerInv /\ UNCHANGED <<db, ledger>> => LedgerInv'
BY DEF LedgerInv, Bets, Wagers, NoBet

(* A step of the dealer alone keeps the invariant. *)
LEMMA DealerKeeps ==
  ASSUME RoomInv, holder = Nobody, NEW d, Dealing(Here, d), Become(d),
         UNCHANGED <<fixed, failing, saved, holder, client, storage, acked>>
  PROVE  RoomInv'
<1>1. /\ Here' = d /\ ShownInv(Here)' /\ room'.round <= opened'
      /\ opened' \in 1 .. MaxRounds /\ shown' \subseteq Nat
  BY BecomeShown DEF Dealing, Dealt, Here
<1>2. RoomTypes'
  BY <1>1 DEF RoomInv, RoomTypes, fixed, storage, Outcomes, States, Bets, Wagers, NoBet, Requests, Acks
<1>3. LedgerInv'
  BY LedgerFrame DEF RoomInv, storage
<1>4. LockInv'
  BY DEF RoomInv, LockInv
<1>5. TableInv(Here)'
  BY <1>1, TableFrame DEF Dealing, storage
<1>6. ASSUME NEW u \in Users PROVE PlayerInv(Here, u)'
  <2>1. PlayerInv(d, u)
    BY DEF Dealing, RoomInv
  <2> QED BY <2>1, <1>1, PlayerFrame DEF storage
<1>7. ASSUME NEW u \in Users PROVE CommittingInv(Here, u)'
  <2>1. client'[u].pc # "committing"
    BY RoomAssumption DEF RoomInv, LockInv
  <2> QED BY <2>1 DEF CommittingInv
<1> QED BY <1>1, <1>2, <1>3, <1>4, <1>5, <1>6, <1>7 DEF RoomInv

LEMMA DealerPassKeeps ==
  RoomInv /\ DealerPass => RoomInv' /\ (room'.round = room.round => room'.bets = room.bets)
<1> SUFFICES ASSUME RoomInv, DealerPass
             PROVE  RoomInv' /\ (room'.round = room.round => room'.bets = room.bets)
  OBVIOUS
<1>1. TableInv(Here) /\ RoomTypes /\ Here.room = room /\ room.round <= opened
  BY DEF RoomInv, Here
<1>2. PICK c : c = DealWhenAllBet(Here)
  OBVIOUS
<1>3. Dealing(Here, c) /\ c.room.round = Here.room.round
  BY <1>1, <1>2, DealWhenAllBetFacts
<1>4. PICK d : (d = Tick(c) \/ d = SettleUnwatched(c)) /\ Become(d)
  BY <1>2 DEF DealerPass
<1>5. Dealing(c, d)
  BY <1>1, <1>3, <1>4, TickFacts DEF Dealing
<1>6. Here \in Cores /\ c \in Cores /\ d \in Cores
  BY <1>1, <1>3, <1>5 DEF Dealing, TableInv
<1>7. Dealing(Here, d)
  BY <1>3, <1>5, <1>6, DealtTransitive DEF Dealing
<1>8. RoomInv'
  BY <1>4, <1>7, DealerKeeps DEF DealerPass
<1>9. room.round \in Nat
  BY <1>1, <1>6, TableTypes
<1> QED BY <1>1, <1>4, <1>7, <1>8, <1>9 DEF Dealing, Dealt, Become

LEMMA PollKeeps ==
  RoomInv /\ Poll => RoomInv' /\ (room'.round = room.round => room'.bets = room.bets)
<1> SUFFICES ASSUME RoomInv, Poll
             PROVE  RoomInv' /\ (room'.round = room.round => room'.bets = room.bets)
  OBVIOUS
<1>1. TableInv(Here) /\ RoomTypes /\ Here.room = room /\ room.round <= opened
  BY DEF RoomInv, Here
<1>2. PICK d : d = Tick(Here) /\ Become(d)
  BY DEF Poll
<1>3. Dealing(Here, d)
  BY <1>1, <1>2, TickFacts
<1>4. RoomInv'
  BY <1>2, <1>3, DealerKeeps DEF Poll
<1>5. room.round \in Nat
  BY <1>1, TableTypes DEF TableInv
<1> QED BY <1>1, <1>2, <1>3, <1>4, <1>5 DEF Dealing, Dealt, Become

----------------------------------------------------------------------------
(* place_bet: steps that change only the request and its history. *)

LEMMA PlayerSet ==
  ASSUME NEW d, NEW u \in Users, NEW k, NEW a, AckedOn(d, u, a), WaitOn(d, k),
         k.pc = "acking" => AckingOn(d, u, k),
         Here' = d, UNCHANGED <<db, saved, ledger>>, client'[u] = k, acked'[u] = a
  PROVE  PlayerInv(Here, u)'
BY DEF PlayerInv, AckedOn, WaitOn, AckingOn, Carried, Stored, NoBet

LEMMA RequestKeeps ==
  ASSUME RoomInv, NEW u \in Users, NEW k \in Requests, NEW a \in Acks,
         k.pc # "committing", client[u].pc # "committing",
         client' = [client EXCEPT ![u] = k], acked' = [acked EXCEPT ![u] = a],
         UNCHANGED <<fixed, opened, core, failing, saved, holder, storage, shown>>,
         AckedOn(Here, u, a), WaitOn(Here, k), k.pc = "acking" => AckingOn(Here, u, k)
  PROVE  RoomInv'
<1>1. /\ client'[u] = k /\ acked'[u] = a
      /\ client' \in [Users -> Requests] /\ acked' \in [Users -> Acks]
      /\ \A v \in Users \ {u} : client'[v] = client[v] /\ acked'[v] = acked[v]
  BY DEF RoomInv, RoomTypes
<1>2. Here' = Here
  BY DEF Here, core
<1>3. RoomTypes'
  BY <1>1 DEF RoomInv, RoomTypes, fixed, storage, Outcomes, States, Bets, Wagers, NoBet, Requests, Acks
<1>4. LedgerInv'
  BY LedgerFrame DEF RoomInv, storage
<1>5. LockInv'
  BY <1>1 DEF RoomInv, LockInv
<1>6. TableInv(Here)'
  BY <1>2, TableFrame DEF RoomInv, storage
<1>7. ASSUME NEW v \in Users PROVE PlayerInv(Here, v)'
  <2>1. CASE v = u
    BY <2>1, <1>1, <1>2, PlayerSet DEF storage
  <2>2. CASE v # u
    BY <2>2, <1>1, <1>2, PlayerFrame DEF RoomInv, storage
  <2> QED BY <2>1, <2>2
<1>8. ASSUME NEW v \in Users PROVE CommittingInv(Here, v)'
  <2>1. CASE v = u
    BY <2>1, <1>1 DEF CommittingInv
  <2>2. CASE v # u
    BY <2>2, <1>1, <1>2 DEF RoomInv, CommittingInv, storage
  <2> QED BY <2>1, <2>2
<1>9. ShownInv(Here)' /\ room'.round <= opened'
  BY <1>2 DEF RoomInv, ShownInv, core
<1> QED BY <1>3, <1>4, <1>5, <1>6, <1>7, <1>8, <1>9 DEF RoomInv

LEMMA IdleKeeps ==
  ASSUME RoomInv, NEW u \in Users, client[u].pc # "committing",
         client' = [client EXCEPT ![u] = [pc |-> "idle"]],
         UNCHANGED <<fixed, opened, core, failing, saved, holder, storage, shown, acked>>
  PROVE  RoomInv'
<1>1. [pc |-> "idle"] \in Requests
  BY DEF Requests
<1>2. acked[u] \in Acks /\ acked' = [acked EXCEPT ![u] = acked[u]] /\ AckedOn(Here, u, acked[u])
  BY DEF RoomInv, RoomTypes, PlayerInv
<1>3. WaitOn(Here, [pc |-> "idle"])
  BY DEF WaitOn
<1> QED BY <1>1, <1>2, <1>3, RequestKeeps

LEMMA BetRequestKeeps ==
  ASSUME RoomInv, NEW u \in Users, BetRequest(u)
  PROVE  RoomInv'
<1>1. PICK w \in Bets :
        client' = [client EXCEPT ![u] = [pc |-> "waiting", round |-> room.round, wager |-> w,
                                         seen |-> room.betRevisions[u], target |-> room.revision]]
  BY DEF BetRequest, SetClient, Bets
<1>2. PICK k : k = [pc |-> "waiting", round |-> room.round, wager |-> w,
                    seen |-> room.betRevisions[u], target |-> room.revision]
  OBVIOUS
<1>3. TableInv(Here) /\ Here.room = room /\ Here.queue = queue /\ room \in States
  BY TableTypes DEF RoomInv, Here, TableInv
<1>4. room.round \in Nat /\ room.betRevisions[u] \in Nat /\ room.revision \in Nat
  BY <1>3 DEF States
<1>5. k \in Requests
  BY <1>2, <1>4 DEF Requests
<1>6. acked[u] \in Acks /\ acked' = [acked EXCEPT ![u] = acked[u]] /\ AckedOn(Here, u, acked[u])
  BY DEF RoomInv, RoomTypes, PlayerInv, BetRequest
<1>7. k.pc = "waiting" /\ k.round = room.round /\ k.target = room.revision
  BY <1>2
<1>8. WaitOn(Here, k)
  <2>1. /\ db.revision >= room.revision => db = room
        /\ \A i \in 1 .. Len(queue) : saved + i >= room.revision => queue[i].state = room
    BY <1>3, RoomFacts DEF RoomInv, RoomTypes
  <2> QED BY <2>1, <1>3, <1>4, <1>7 DEF WaitOn
<1>9. client' = [client EXCEPT ![u] = k] /\ client[u].pc # "committing"
  BY <1>1, <1>2 DEF BetRequest
<1> QED BY <1>5, <1>6, <1>7, <1>8, <1>9, RequestKeeps DEF BetRequest

LEMMA BetDurableKeeps ==
  ASSUME RoomInv, NEW u \in Users, BetDurable(u)
  PROVE  RoomInv'
<1>1. PICK k : k = [client[u] EXCEPT !.pc = "ready"]
  OBVIOUS
<1>2. /\ client[u] \in Requests /\ client[u].pc = "waiting" /\ saved >= client[u].target
      /\ client' = [client EXCEPT ![u] = k]
  BY <1>1 DEF BetDurable, SetClient, RoomInv, RoomTypes
<1>3. client[u] \in [pc : {"waiting", "ready", "committing"}, round : Nat, wager : Bets,
                     seen : Nat, target : Nat]
  BY <1>2, RequestForms
<1>4. /\ k \in [pc : {"waiting", "ready", "committing"}, round : Nat, wager : Bets,
                seen : Nat, target : Nat]
      /\ k.pc = "ready" /\ k.round = client[u].round
  BY <1>1, <1>3
<1>5. k \in Requests
  BY <1>4 DEF Requests
<1>6. acked[u] \in Acks /\ acked' = [acked EXCEPT ![u] = acked[u]] /\ AckedOn(Here, u, acked[u])
  BY DEF RoomInv, RoomTypes, PlayerInv, BetDurable
<1>7. WaitOn(Here, k)
  <2>1. WaitOn(Here, client[u])
    BY DEF RoomInv, PlayerInv
  <2>2. db.revision \in {saved, saved + 1} /\ saved \in Nat
    BY RoomFacts DEF RoomInv, RoomTypes
  <2>3. db.revision >= client[u].target
    BY <2>2, <1>2, <1>3
  <2> QED BY <2>1, <2>3, <1>2, <1>4 DEF WaitOn
<1> QED BY <1>2, <1>4, <1>5, <1>6, <1>7, RequestKeeps DEF BetDurable

LEMMA BetAckKeeps ==
  ASSUME RoomInv, NEW u \in Users, BetAck(u)
  PROVE  RoomInv'
<1> DEFINE k == client[u]
<1>1. /\ k \in Requests /\ k.pc = "acking" /\ saved >= k.target
      /\ client' = [client EXCEPT ![u] = [pc |-> "idle"]]
      /\ acked' = [acked EXCEPT ![u] = IF k.wager = NoBet THEN [round |-> 0]
                    ELSE [round |-> k.round, wager |-> k.wager]]
  BY DEF BetAck, SetClient, RoomInv, RoomTypes
<1>2. k.round \in Nat /\ k.wager \in Bets /\ k.target \in Nat
  BY <1>1, RequestForms
<1>3. AckingOn(Here, u, k)
  BY <1>1 DEF RoomInv, PlayerInv
<1>4. db.revision \in {saved, saved + 1} /\ saved \in Nat
  BY RoomFacts DEF RoomInv, RoomTypes
<1> HIDE DEF k
<1>5. PICK a : a = IF k.wager = NoBet THEN [round |-> 0] ELSE [round |-> k.round, wager |-> k.wager]
  OBVIOUS
<1>6. a \in Acks
  BY <1>2, <1>5 DEF Acks
<1>7. AckedOn(Here, u, a)
  <2>1. CASE k.wager = NoBet
    BY <2>1, <1>5 DEF AckedOn
  <2>2. CASE k.wager # NoBet
    <3>1. a.round = k.round /\ a.wager = k.wager
      BY <2>2, <1>5
    <3>2. Stored(u, k.round, k.wager)
      BY <2>2, <1>1, <1>2, <1>3, <1>4 DEF AckingOn
    <3>3. Carried(Here, u, k.round, k.wager, k.target)
      BY <2>2, <1>3 DEF AckingOn
    <3>4. ASSUME NEW i \in 1 .. Len(Here.queue)
          PROVE  saved + i >= k.target
      BY <1>1, <1>2, <1>4
    <3>5. Carried(Here, u, k.round, k.wager, 0)
      BY <3>3, <3>4 DEF Carried
    <3> QED BY <3>1, <3>2, <3>5, <2>2 DEF AckedOn
  <2> QED BY <2>1, <2>2
<1>8. [pc |-> "idle"] \in Requests /\ WaitOn(Here, [pc |-> "idle"])
  BY DEF Requests, WaitOn
<1>9. client[u].pc # "committing" /\ acked' = [acked EXCEPT ![u] = a]
  BY <1>1, <1>5 DEF k
<1> QED BY <1>1, <1>6, <1>7, <1>8, <1>9, RequestKeeps DEF BetAck

----------------------------------------------------------------------------
(* place_bet: the steps that take, use and release the room lock. *)

LEMMA BetLostKeeps ==
  ASSUME RoomInv, NEW u \in Users, BetLost(u)
  PROVE  RoomInv'
<1>1. /\ client'[u] = [pc |-> "idle"] /\ client' \in [Users -> Requests]
      /\ \A v \in Users \ {u} : client'[v] = client[v]
      /\ holder = u /\ holder' = Nobody /\ acked' = acked
  BY DEF BetLost, SetClient, RoomInv, RoomTypes, LockInv, Requests
<1>2. Here' = Here
  BY DEF Here, core, BetLost
<1>3. RoomTypes'
  BY <1>1 DEF BetLost, RoomInv, RoomTypes, fixed, storage, Outcomes, States, Bets, Wagers, NoBet, Requests, Acks
<1>4. LedgerInv'
  BY LedgerFrame DEF RoomInv, storage, BetLost
<1>5. LockInv'
  BY <1>1, RoomAssumption DEF RoomInv, LockInv
<1>6. TableInv(Here)'
  BY <1>2, TableFrame DEF RoomInv, storage, BetLost
<1>7. ASSUME NEW v \in Users PROVE PlayerInv(Here, v)'
  <2>1. CASE v = u
    <3>1. WaitOn(Here, [pc |-> "idle"])
      BY DEF WaitOn
    <3>2. AckedOn(Here, u, acked[u])
      BY DEF RoomInv, PlayerInv
    <3> QED BY <3>1, <3>2, <2>1, <1>1, <1>2, PlayerSet DEF storage, BetLost
  <2>2. CASE v # u
    BY <2>2, <1>1, <1>2, PlayerFrame DEF RoomInv, storage, BetLost
  <2> QED BY <2>1, <2>2
<1>8. ASSUME NEW v \in Users PROVE CommittingInv(Here, v)'
  <2>1. client'[v].pc # "committing"
    BY <1>1, <1>5, RoomAssumption DEF LockInv
  <2> QED BY <2>1 DEF CommittingInv
<1>9. ShownInv(Here)' /\ room'.round <= opened'
  BY <1>2 DEF RoomInv, ShownInv, core, BetLost
<1> QED BY <1>3, <1>4, <1>5, <1>6, <1>7, <1>8, <1>9 DEF RoomInv

BetState(u) == [WithBet(u) EXCEPT !.revision = room.revision + 1]

LEMMA WithBetFacts ==
  ASSUME NEW u \in Users, room \in States, client[u].wager \in Bets, NEW s, s = BetState(u)
  PROVE  /\ WithBet(u) \in States /\ WithBet(u).revision = room.revision + 1
         /\ s \in States /\ s.revision = room.revision + 1
         /\ s.round = room.round /\ s.result = room.result
         /\ WithBet(u).result = room.result
         /\ WithBet(u).bets[u] = client[u].wager
         /\ s.bets[u] = client[u].wager
         /\ \A v \in Users \ {u} : s.bets[v] = room.bets[v]
<1>1. PICK n \in Nat : n = room.revision + 1
  BY DEF States
<1>2. PICK m \in Nat : m = room.betRevisions[u] + 1
  BY DEF States
<1>3. PICK b : b = [room.bets EXCEPT ![u] = client[u].wager]
  OBVIOUS
<1>4. PICK e : e = [room.betRevisions EXCEPT ![u] = m]
  OBVIOUS
<1>5. /\ b \in [Users -> Bets] /\ e \in [Users -> Nat]
      /\ b[u] = client[u].wager /\ \A v \in Users \ {u} : b[v] = room.bets[v]
  BY <1>3, <1>4 DEF States
<1>6. WithBet(u) = [revision |-> n, round |-> room.round, deadline |-> room.deadline,
                    bets |-> b, betRevisions |-> e, result |-> room.result]
  <2>1. WithBet(u) = [room EXCEPT !.bets = b, !.betRevisions = e, !.revision = n]
    BY <1>1, <1>2, <1>3, <1>4 DEF WithBet
  <2> QED BY <2>1 DEF States
<1>7. WithBet(u) \in States
  BY <1>5, <1>6 DEF States
<1>8. s = [revision |-> n, round |-> room.round, deadline |-> room.deadline,
           bets |-> b, betRevisions |-> e, result |-> room.result]
  BY <1>1, <1>6 DEF BetState
<1> QED BY <1>1, <1>5, <1>6, <1>7, <1>8

LEMMA BetReserveKeeps ==
  ASSUME RoomInv, NEW u \in Users, BetReserve(u)
  PROVE  RoomInv'
<1>1. PICK k : k = [client[u] EXCEPT !.pc = "committing"]
  OBVIOUS
<1>2. /\ client[u] \in Requests /\ client[u].pc = "ready" /\ holder = Nobody
      /\ client[u].round = room.round /\ holder' = u
      /\ client' = [client EXCEPT ![u] = k]
  BY <1>1 DEF BetReserve, SameRound, SetClient, RoomInv, RoomTypes
<1>3. client[u] \in [pc : {"waiting", "ready", "committing"}, round : Nat, wager : Bets,
                     seen : Nat, target : Nat]
  BY <1>2, RequestForms
<1>4. /\ k \in [pc : {"waiting", "ready", "committing"}, round : Nat, wager : Bets,
                seen : Nat, target : Nat]
      /\ k.pc = "committing" /\ k.round = client[u].round /\ k.wager = client[u].wager
  BY <1>1, <1>3
<1>5. k \in Requests
  BY <1>4 DEF Requests
<1>6. /\ client'[u] = k /\ client' \in [Users -> Requests]
      /\ \A v \in Users \ {u} : client'[v] = client[v]
  BY <1>2, <1>5 DEF RoomInv, RoomTypes
<1>7. /\ TableInv(Here) /\ Here.room = room /\ Here.queue = queue /\ Here.reserved = reserved
      /\ room \in States /\ reserved \in Holds /\ Here \in Cores
  BY TableTypes DEF RoomInv, TableInv, Here
<1>8. PICK d : d = [Here EXCEPT !.reserved = reserved']
  OBVIOUS
<1>9. Here' = d /\ d.room = room /\ d.queue = queue /\ d.reserved = reserved'
  BY <1>8 DEF Here, BetReserve
<1>10. \/ room.bets[u] = client[u].wager /\ reserved' = reserved
       \/ /\ Admissible(u) /\ reserved' = SicboAccepted(reserved, WithBet(u))
  BY DEF BetReserve, Unchanged
<1>11. /\ WithBet(u) \in States /\ WithBet(u).revision = room.revision + 1
       /\ WithBet(u).result = room.result /\ WithBet(u).bets[u] = client[u].wager
  BY <1>3, <1>7, WithBetFacts
<1>12. /\ reserved' \in Holds
       /\ reserved'.revision >= room.revision \/ reserved' = reserved
       /\ \A v \in Users : reserved'.stakes[v] >= reserved.stakes[v]
  <2>1. CASE reserved' = reserved
    BY <2>1, <1>7 DEF Holds
  <2>2. CASE reserved' = SicboAccepted(reserved, WithBet(u))
    <3>1. room.revision \in Nat
      BY <1>7 DEF States
    <3> QED BY <2>2, <3>1, <1>7, <1>11, HeldMore
  <2> QED BY <2>1, <2>2, <1>10
<1>13. TableInv(d)
  <2>1. d \in Cores
    BY <1>7, <1>8, <1>12 DEF Cores
  <2>2. ChainInv(d) /\ OrderInv(d)
    BY <1>7, <1>9 DEF TableInv, ChainInv, OrderInv
  <2>3. RiskInv(d)
    <3>1. queue # <<>> => d.reserved.revision >= room.revision
      BY <1>7, <1>9, <1>12 DEF TableInv, RiskInv
    <3>2. ASSUME NEW v \in Users
          PROVE  /\ OpenStake(db, v) <= wallet[v] /\ OpenStake(db, v) <= d.reserved.stakes[v]
                 /\ \A i \in Unwritten(queue) :
                      /\ queue[i].state.bets[v].stake <= wallet[v]
                      /\ queue[i].state.bets[v].stake <= d.reserved.stakes[v]
      <4>1. /\ OpenStake(db, v) <= wallet[v] /\ OpenStake(db, v) <= reserved.stakes[v]
            /\ \A i \in Unwritten(queue) :
                 /\ queue[i].state.bets[v].stake <= wallet[v]
                 /\ queue[i].state.bets[v].stake <= reserved.stakes[v]
        BY <1>7 DEF TableInv, RiskInv
      <4>2. /\ reserved.stakes[v] \in Nat /\ reserved'.stakes[v] \in Nat
            /\ reserved'.stakes[v] >= reserved.stakes[v]
        BY <1>7, <1>12 DEF Holds
      <4>3. OpenStake(db, v) \in Nat
        BY StakeTypes DEF RoomInv, RoomTypes
      <4>4. ASSUME NEW i \in Unwritten(queue) PROVE queue[i].state.bets[v].stake \in Nat
        <5>1. i \in 1 .. Len(queue)
          BY DEF Unwritten
        <5>2. queue[i].state \in States
          BY <5>1, <1>7, TableTypes
        <5> QED BY <5>2, StakeTypes
      <4> QED BY <4>1, <4>2, <4>3, <4>4, <1>9
    <3> QED BY <3>1, <3>2, <1>9 DEF RiskInv
  <2> QED BY <2>1, <2>2, <2>3 DEF TableInv
<1>14. \A v \in Users : PlayerInv(d, v)
  BY <1>7, <1>9 DEF RoomInv, PlayerInv, AckedOn, WaitOn, AckingOn, Carried
<1>15. RoomTypes'
  BY <1>2, <1>6 DEF BetReserve, RoomInv, RoomTypes, fixed, storage, Outcomes, States, Bets, Wagers, NoBet,
                    Requests, Acks
<1>16. LedgerInv'
  BY LedgerFrame DEF RoomInv, storage, BetReserve
<1>17. LockInv'
  BY <1>2, <1>4, <1>6, RoomAssumption DEF RoomInv, LockInv
<1>18. TableInv(Here)'
  BY <1>9, <1>13, TableFrame DEF BetReserve, storage
<1>19. ASSUME NEW v \in Users PROVE PlayerInv(Here, v)'
  <2>1. CASE v = u
    <3>1. WaitOn(d, client[u]) /\ AckedOn(d, u, acked[u])
      BY <1>14 DEF PlayerInv
    <3>2. WaitOn(d, k)
      BY <3>1, <1>2, <1>4 DEF WaitOn
    <3> QED BY <3>1, <3>2, <2>1, <1>4, <1>6, <1>9, PlayerSet DEF storage, BetReserve
  <2>2. CASE v # u
    BY <2>2, <1>6, <1>9, <1>14, PlayerFrame DEF storage, BetReserve
  <2> QED BY <2>1, <2>2
<1>20. ASSUME NEW v \in Users PROVE CommittingInv(Here, v)'
  <2>1. CASE v # u
    <3>1. client'[v].pc # "committing"
      BY <2>1, <1>2, <1>17 DEF LockInv
    <3> QED BY <3>1 DEF CommittingInv
  <2>2. CASE v = u
    <3>1. CASE room.bets[u] = client[u].wager
      BY <3>1, <2>2, <1>2, <1>4, <1>6, <1>9 DEF CommittingInv, BetReserve
    <3>2. CASE Admissible(u) /\ reserved' = SicboAccepted(reserved, WithBet(u))
      <4>1. ~room.result /\ k.wager.stake <= wallet[u]
        BY <3>2, <1>4 DEF Admissible, BettingOpen
      <4>2. OpenStake(WithBet(u), u) = k.wager.stake
        BY <4>1, <1>4, <1>11 DEF OpenStake
      <4>3. OpenStake(WithBet(u), u) \in Nat /\ reserved'.stakes[u] >= OpenStake(WithBet(u), u)
            /\ reserved'.stakes[u] \in Nat /\ reserved'.revision = room.revision + 1
        BY <3>2, <1>7, <1>11, <1>12, HeldMore, StakeTypes DEF Holds
      <4>4. room.revision \in Nat
        BY <1>7 DEF States
      <4>5. wallet' = wallet /\ room' = room /\ d.reserved.revision > room.revision
            /\ k.wager.stake <= d.reserved.stakes[u]
        BY <4>2, <4>3, <4>4, <1>9 DEF BetReserve, storage
      <4> QED BY <4>1, <4>5, <2>2, <1>2, <1>4, <1>6, <1>9 DEF CommittingInv
    <3> QED BY <3>1, <3>2, <1>10
  <2> QED BY <2>1, <2>2
<1>21. ShownInv(Here)' /\ room'.round <= opened'
  BY <1>7, <1>9 DEF RoomInv, ShownInv, BetReserve
<1> QED BY <1>15, <1>16, <1>17, <1>18, <1>19, <1>20, <1>21 DEF RoomInv

(* A wager the room holds is carried from the room's own revision on. *)
LEMMA FreshAck ==
  ASSUME NEW c, TableInv(c), RoomTypes, LedgerInv, NEW u \in Users,
         NEW k, k.round = c.room.round, k.wager = c.room.bets[u], k.target = c.room.revision
  PROVE  AckingOn(c, u, k)
<1>1. /\ db.revision >= c.room.revision => db = c.room
      /\ \A i \in 1 .. Len(c.queue) : saved + i >= c.room.revision => c.queue[i].state = c.room
  BY RoomFacts DEF RoomTypes
<1>2. c.room \in States /\ c.room.revision \in Nat /\ c.room.round \in Nat
      /\ Len(c.queue) \in Nat
  BY TableTypes DEF TableInv
<1>3. c.room.round \in 1 .. c.room.round /\ c.room.round \in 1 .. MaxRounds
  BY <1>2 DEF States
<1>4. Carried(c, u, k.round, k.wager, k.target)
  BY <1>1, <1>3 DEF Carried
<1>5. ASSUME db = c.room, k.wager # NoBet
      PROVE  Stored(u, k.round, k.wager)
  <2>1. CASE ~db.result
    BY <2>1, <1>5 DEF Stored
  <2>2. CASE db.result
    BY <2>2, <1>3, <1>5 DEF Stored, LedgerInv
  <2> QED BY <2>1, <2>2
<1>6. ASSUME NEW i \in 1 .. Len(c.queue), saved + i = k.target
      PROVE  c.queue[i].state.round = k.round
  <2>1. saved + i >= c.room.revision
    BY <1>6, <1>2
  <2> QED BY <2>1, <1>1
<1> QED BY <1>1, <1>2, <1>4, <1>5, <1>6 DEF AckingOn

LEMMA BetAcceptFacts ==
  ASSUME RoomInv, NEW u \in Users, BetAccept(u),
         NEW c, c = IF Unchanged(u) THEN Here ELSE Accept(Here, WithBet(u), FALSE)
  PROVE  /\ TableInv(c) /\ c.room.round = room.round /\ c.room.result = room.result
         /\ c.room.bets[u] = client[u].wager
         /\ Unchanged(u) => c = Here
         /\ ~Unchanged(u) => ~room.result
         /\ db.round >= room.round
         /\ \A v \in Users \ {u} : PlayerInv(c, v)
<1>1. /\ client[u] \in Requests /\ client[u].pc = "committing"
      /\ client[u].wager \in Bets
  BY RequestForms DEF RoomInv, RoomTypes, BetAccept
<1>2. /\ TableInv(Here) /\ Here.room = room /\ Here.queue = queue /\ Here.reserved = reserved
      /\ room \in States /\ reserved \in Holds /\ Here \in Cores
  BY TableTypes DEF RoomInv, TableInv, Here
<1>3. client[u].round = room.round /\ db.round >= room.round
  BY <1>1, <1>2 DEF RoomInv, CommittingInv, PlayerInv, WaitOn
<1>4. CASE Unchanged(u)
  <2>1. c = Here
    BY <1>4
  <2> QED BY <2>1, <1>2, <1>3, <1>4 DEF RoomInv, Unchanged
<1>5. CASE ~Unchanged(u)
  <2>1. PICK s : s = BetState(u)
    OBVIOUS
  <2>2. /\ s \in States /\ s.revision = room.revision + 1
        /\ s.round = room.round /\ s.result = room.result
        /\ s.bets[u] = client[u].wager
        /\ \A v \in Users \ {u} : s.bets[v] = room.bets[v]
    BY <2>1, <1>1, <1>2, WithBetFacts
  <2>3. /\ ~room.result /\ client[u].wager.stake <= wallet[u]
    BY <1>1, <1>2, <1>5 DEF RoomInv, CommittingInv, Unchanged
  <2>4. Healthy(Here)
    BY <1>5 DEF BetAccept
  <2>5. c = [room |-> s, queue |-> Append(Here.queue, [state |-> s, settles |-> FALSE]),
             reserved |-> SicboAccepted(Here.reserved, s)]
    BY <2>1, <2>4, <1>2, <1>5 DEF Accept, BetState
  <2>6. c = Accepted(Here, s) /\ c.room = s
    <3>1. s.result = FALSE
      BY <2>2, <2>3 DEF States
    <3>2. c = Accepted(Here, s)
      BY <3>1, <2>5 DEF Accepted
    <3> QED BY <3>2, AcceptedRoom
  <2>7. Acceptable(Here, s)
    <3>1. /\ db \in States /\ saved \in Nat /\ db.round \in Nat /\ room.round \in Nat
      <4>1. db \in States /\ saved \in Nat
        BY DEF RoomInv, RoomTypes
      <4> QED BY <4>1, <1>2 DEF States
    <3>2. \/ db = room
          \/ Len(queue) \in Unwritten(queue) /\ queue[Len(queue)].state = room
      BY <3>1, <1>2, RoomFacts
    <3>3. ASSUME NEW v \in Users
          PROVE  s.bets[v].stake <= wallet[v]
      <4>1. room.bets[v].stake <= wallet[v]
        BY <3>2, <2>3, <1>2 DEF TableInv, RiskInv, OpenStake
      <4> QED BY <4>1, <2>2, <2>3
    <3>4. ~(s.round > db.round)
      BY <3>1, <2>2, <1>3
    <3>5. Link(room, s) /\ Later(room, s)
      BY <3>1, <2>2, <2>3 DEF Link, Later
    <3> QED BY <3>3, <3>4, <3>5, <2>2, <2>3, <1>2 DEF Acceptable
  <2>8. TableInv(c)
    BY <2>6, <2>7, <1>2, AcceptTable DEF RoomInv, RoomTypes
  <2>9. s.round >= Here.room.round /\ s.revision = Here.room.revision + 1
    BY <2>2, <1>2 DEF States
  <2>10. db \in States /\ saved \in Nat /\ client \in [Users -> Requests]
    BY DEF RoomInv, RoomTypes
  <2>11. ASSUME NEW v \in Users, v # u
         PROVE  PlayerInv(c, v)
    <3>1. PlayerInv(Here, v) /\ s.bets[v] = Here.room.bets[v]
      BY <2>11, <2>2, <1>2 DEF RoomInv
    <3>2. s \in States /\ c = Accepted(Here, s) /\ TableInv(Here)
      BY <2>2, <2>6, <1>2
    <3> QED BY <3>1, <3>2, <2>9, <2>10, AcceptPlayer
  <2> QED BY <2>2, <2>3, <2>6, <2>8, <2>11, <1>3, <1>5
<1> QED BY <1>4, <1>5

LEMMA BetAcceptKeeps ==
  ASSUME RoomInv, NEW u \in Users, BetAccept(u)
  PROVE  /\ RoomInv'
         /\ room'.bets # room.bets =>
              life' = life /\ db.round >= room.round /\ room.round \notin shown
<1>1. PICK c : c = IF Unchanged(u) THEN Here ELSE Accept(Here, WithBet(u), FALSE)
  OBVIOUS
<1>2. /\ TableInv(c) /\ c.room.round = room.round /\ c.room.result = room.result
      /\ c.room.bets[u] = client[u].wager
      /\ Unchanged(u) => c = Here
      /\ ~Unchanged(u) => ~room.result
      /\ db.round >= room.round
      /\ \A v \in Users \ {u} : PlayerInv(c, v)
  BY <1>1, BetAcceptFacts
<1>3. PICK d : d = DealWhenAllBet(c)
  OBVIOUS
<1>4. PICK k : k = [pc |-> "acking", round |-> room.round,
                    wager |-> client[u].wager, target |-> c.room.revision]
  OBVIOUS
<1>5. Become(d) /\ client' = [client EXCEPT ![u] = k]
  BY <1>1, <1>3, <1>4 DEF BetAccept, SetClient
<1>6. RoomTypes /\ LedgerInv /\ Here.room = room
  BY DEF RoomInv, Here
<1>7. /\ Dealing(c, d) /\ d.room.round = c.room.round /\ d.room.bets = c.room.bets
      /\ \A v \in Users : \A m : m.target \in Nat /\ AckingOn(c, v, m) => AckingOn(d, v, m)
  BY <1>2, <1>3, <1>6, DealWhenAllBetFacts
<1>8. /\ room \in States /\ room.round \in Nat /\ c.room.revision \in Nat
      /\ client[u].pc = "committing" /\ client[u].wager \in Bets /\ holder = u
  <2>1. client[u] \in Requests /\ client[u].pc = "committing" /\ TableInv(Here)
    BY DEF RoomInv, RoomTypes, BetAccept
  <2> QED BY <2>1, <1>2, <1>6, TableTypes, RequestForms DEF TableInv, RoomInv, LockInv
<1>9. k \in Requests /\ k.pc = "acking" /\ k.round = room.round /\ k.wager = client[u].wager
      /\ k.target = c.room.revision
  BY <1>4, <1>8 DEF Requests
<1>10. /\ Here' = d /\ ShownInv(Here)' /\ room'.round <= opened'
       /\ opened' \in 1 .. MaxRounds /\ shown' \subseteq Nat
  <2>1. d.room.round = room.round /\ (room.result => d.room.result)
    BY <1>2, <1>7, <1>8 DEF Dealing, Dealt
  <2>2. TableInv(d)
    BY <1>7 DEF Dealing
  <2> QED BY <2>1, <2>2, <1>5, BecomeShown
<1>11. /\ client'[u] = k /\ client' \in [Users -> Requests]
       /\ \A v \in Users \ {u} : client'[v] = client[v]
       /\ holder' = Nobody /\ UNCHANGED <<fixed, saved, storage>>
  BY <1>5, <1>6, <1>9 DEF RoomTypes, BetAccept
<1>12. /\ acked' \in [Users -> Acks]
       /\ \A v \in Users \ {u} : acked'[v] = acked[v]
       /\ (Unchanged(u) /\ acked'[u] = acked[u]) \/ acked'[u] = [round |-> 0]
  BY <1>6 DEF RoomTypes, BetAccept, Acks
<1>13. RoomTypes'
  BY <1>6, <1>10, <1>11, <1>12, RoomAssumption
     DEF RoomTypes, fixed, storage, Outcomes, States, Bets, Wagers, NoBet, Requests, Acks
<1>14. LedgerInv'
  BY <1>6, <1>11, LedgerFrame DEF storage
<1>15. LockInv'
  BY <1>8, <1>9, <1>11, RoomAssumption DEF RoomInv, LockInv
<1>16. TableInv(Here)'
  BY <1>7, <1>10, <1>11, TableFrame DEF Dealing, storage
<1>17. ASSUME NEW v \in Users PROVE PlayerInv(Here, v)'
  <2>1. CASE v # u
    <3>1. PlayerInv(d, v)
      BY <2>1, <1>2, <1>7 DEF Dealing
    <3> QED BY <3>1, <2>1, <1>10, <1>11, <1>12, PlayerFrame DEF storage
  <2>2. CASE v = u
    <3>1. AckingOn(d, u, k)
      <4>1. AckingOn(c, u, k)
        BY <1>2, <1>6, <1>9, FreshAck
      <4> QED BY <4>1, <1>7, <1>8, <1>9
    <3>2. AckedOn(d, u, acked'[u])
      <4>1. CASE acked'[u] = [round |-> 0]
        BY <4>1 DEF AckedOn
      <4>2. CASE Unchanged(u) /\ acked'[u] = acked[u]
        <5>1. PlayerInv(c, u)
          BY <4>2, <1>2 DEF RoomInv
        <5> QED BY <5>1, <4>2, <1>7 DEF Dealing, PlayerInv
      <4> QED BY <4>1, <4>2, <1>12
    <3>3. WaitOn(d, k)
      BY <1>9 DEF WaitOn
    <3>4. PICK a : a = acked'[u]
      OBVIOUS
    <3> QED BY <3>1, <3>2, <3>3, <3>4, <2>2, <1>10, <1>11, PlayerSet DEF storage
  <2> QED BY <2>1, <2>2
<1>18. ASSUME NEW v \in Users PROVE CommittingInv(Here, v)'
  <2>1. client'[v].pc # "committing"
    BY <1>11, <1>15, RoomAssumption DEF LockInv
  <2> QED BY <2>1 DEF CommittingInv
<1>19. RoomInv'
  BY <1>10, <1>13, <1>14, <1>15, <1>16, <1>17, <1>18 DEF RoomInv
<1>20. ASSUME room'.bets # room.bets
       PROVE  life' = life /\ db.round >= room.round /\ room.round \notin shown
  <2>1. room' = d.room
    BY <1>5 DEF Become
  <2>2. ~room.result
    BY <2>1, <1>2, <1>6, <1>7, <1>20
  <2>3. room.round \notin shown
    BY <2>2, <1>6 DEF RoomInv, ShownInv
  <2> QED BY <2>3, <1>2, <1>11 DEF fixed
<1> QED BY <1>19, <1>20

----------------------------------------------------------------------------
(* Debits, restarts and time. *)

LEMMA SpendKeeps ==
  ASSUME RoomInv, NEW u \in Users, Spend(u)
  PROVE  RoomInv'
<1>1. PICK amount \in Stakes : /\ amount <= wallet[u] - reserved.stakes[u]
                                /\ wallet' = [wallet EXCEPT ![u] = wallet[u] - amount]
  BY DEF Spend
<1>2. /\ TableInv(Here) /\ Here.room = room /\ Here.queue = queue /\ Here.reserved = reserved
      /\ reserved \in Holds /\ Here \in Cores
  BY TableTypes DEF RoomInv, TableInv, Here
<1>3. amount \in Nat /\ wallet[u] \in Nat /\ reserved.stakes[u] \in Nat
  BY <1>2, RoomAssumption DEF RoomInv, RoomTypes, Holds
<1>4. /\ wallet' \in [Users -> Nat] /\ wallet'[u] >= reserved.stakes[u] /\ wallet'[u] \in Nat
      /\ \A v \in Users \ {u} : wallet'[v] = wallet[v]
  <2>1. wallet[u] - amount \in Nat /\ wallet[u] - amount >= reserved.stakes[u]
    BY <1>1, <1>3
  <2> QED BY <2>1, <1>1 DEF RoomInv, RoomTypes
<1>5. Here' = Here
  BY DEF Here, core, Spend
<1>6. RoomTypes'
  BY <1>4 DEF Spend, RoomInv, RoomTypes, fixed, Outcomes, States, Bets, Wagers, NoBet, Requests, Acks
<1>7. LedgerInv'
  BY LedgerFrame DEF RoomInv, Spend
<1>8. LockInv'
  BY DEF RoomInv, LockInv, Spend
<1>9. TableInv(Here)'
  <2>1. (Here \in Cores)'
    BY <1>2, <1>5 DEF Cores, States, Snapshots, Holds, Bets, Wagers, NoBet
  <2>2. ChainInv(Here)'
    BY <1>2, <1>5 DEF TableInv, ChainInv, Clean, Link, NoBet, Spend
  <2>3. OrderInv(Here)'
    BY <1>2, <1>5 DEF TableInv, OrderInv, Unwritten, Clean, Later, NoBet, Spend
  <2>4. ASSUME NEW v \in Users
        PROVE  /\ OpenStake(db, v) <= wallet'[v] /\ OpenStake(db, v) <= reserved.stakes[v]
               /\ \A i \in Unwritten(queue) :
                    /\ queue[i].state.bets[v].stake <= wallet'[v]
                    /\ queue[i].state.bets[v].stake <= reserved.stakes[v]
    <3>1. /\ OpenStake(db, v) <= wallet[v] /\ OpenStake(db, v) <= reserved.stakes[v]
          /\ \A i \in Unwritten(queue) :
               /\ queue[i].state.bets[v].stake <= wallet[v]
               /\ queue[i].state.bets[v].stake <= reserved.stakes[v]
      BY <1>2 DEF TableInv, RiskInv
    <3>2. CASE v # u
      BY <3>1, <3>2, <1>4
    <3>3. CASE v = u
      <4>1. OpenStake(db, u) \in Nat
        BY StakeTypes DEF RoomInv, RoomTypes
      <4>2. ASSUME NEW i \in Unwritten(queue) PROVE queue[i].state.bets[u].stake \in Nat
        <5>1. i \in 1 .. Len(queue)
          BY DEF Unwritten
        <5>2. queue[i].state \in States
          BY <5>1, <1>2, TableTypes
        <5> QED BY <5>2, StakeTypes
      <4> QED BY <3>1, <3>3, <4>1, <4>2, <1>3, <1>4
    <3> QED BY <3>2, <3>3
  <2>5. RiskInv(Here)'
    BY <2>4, <1>2, <1>5 DEF TableInv, RiskInv, Unwritten, OpenStake, Spend
  <2> QED BY <2>1, <2>2, <2>3, <2>5 DEF TableInv
<1>10. ASSUME NEW v \in Users PROVE PlayerInv(Here, v)'
  BY <1>5, PlayerFrame DEF RoomInv, Spend
<1>11. ASSUME NEW v \in Users PROVE CommittingInv(Here, v)'
  <2>1. CASE v = u
    BY <2>1 DEF CommittingInv, Spend, RowLocked
  <2>2. CASE v # u
    BY <2>2, <1>4, <1>5 DEF RoomInv, CommittingInv, Spend
  <2> QED BY <2>1, <2>2
<1>12. ShownInv(Here)' /\ room'.round <= opened'
  BY <1>5 DEF RoomInv, ShownInv, core, Spend
<1> QED BY <1>6, <1>7, <1>8, <1>9, <1>10, <1>11, <1>12 DEF RoomInv

(* Steps that leave all but the clock and the writer's health alone. *)
LEMMA IdleStepKeeps ==
  ASSUME RoomInv, (now \in 0 .. MaxTime)',
         UNCHANGED <<life, dice, opened, core, saved, holder, client, storage, acked, shown>>
  PROVE  RoomInv'
<1>1. Here' = Here
  BY DEF Here, core
<1>2. RoomTypes'
  BY DEF RoomInv, RoomTypes, storage, Outcomes, States, Bets, Wagers, NoBet, Requests, Acks
<1>3. LedgerInv'
  BY LedgerFrame DEF RoomInv, storage
<1>4. LockInv'
  BY DEF RoomInv, LockInv
<1>5. TableInv(Here)'
  BY <1>1, TableFrame DEF RoomInv, storage
<1>6. ASSUME NEW v \in Users PROVE PlayerInv(Here, v)'
  BY <1>1, PlayerFrame DEF RoomInv, storage
<1>7. ASSUME NEW v \in Users PROVE CommittingInv(Here, v)'
  BY <1>1 DEF RoomInv, CommittingInv, storage
<1>8. ShownInv(Here)' /\ room'.round <= opened'
  BY <1>1 DEF RoomInv, ShownInv, core
<1> QED BY <1>2, <1>3, <1>4, <1>5, <1>6, <1>7, <1>8 DEF RoomInv

LEMMA CommitHolds ==
  ASSUME NEW r \in Holds, NEW s \in States, NEW h, h = SicboCommit(r, s)
  PROVE  /\ h \in Holds
         /\ \/ h = r /\ r.revision > s.revision
            \/ r.revision <= s.revision /\ \A u \in Users : h.stakes[u] = OpenStake(s, u)
<1>1. s.revision \in Nat /\ r.revision \in Nat
  BY DEF States, Holds
<1>2. \A u \in Users : OpenStake(s, u) \in Nat
  BY StakeTypes
<1>3. CASE r.revision > s.revision
  BY <1>3 DEF SicboCommit
<1>4. CASE ~(r.revision > s.revision) /\ \A u \in Users : OpenStake(s, u) = 0
  <2>1. h = NoStakes
    BY <1>4 DEF SicboCommit
  <2>2. h \in Holds /\ \A u \in Users : h.stakes[u] = 0
    BY <2>1 DEF NoStakes, Holds
  <2> QED BY <2>2, <1>1, <1>4
<1>5. CASE ~(r.revision > s.revision) /\ ~\A u \in Users : OpenStake(s, u) = 0
  <2>1. h = [revision |-> s.revision, stakes |-> [u \in Users |-> OpenStake(s, u)]]
    BY <1>5 DEF SicboCommit
  <2>2. [u \in Users |-> OpenStake(s, u)] \in [Users -> Nat]
    BY <1>2
  <2>3. h \in Holds /\ \A u \in Users : h.stakes[u] = OpenStake(s, u)
    BY <2>1, <2>2, <1>1 DEF Holds
  <2> QED BY <2>3, <1>1, <1>5
<1> QED BY <1>3, <1>4, <1>5

LEMMA OneReceipt ==
  ASSUME NEW v, NEW w, <<v>> = <<w>>
  PROVE  v = w
<1>1. <<v>>[1] = <<w>>[1]
  OBVIOUS
<1> QED BY <1>1

LEMMA RestartKeeps ==
  ASSUME RoomInv, Restart
  PROVE  RoomInv'
<1>1. /\ db \in States /\ db.revision \in Nat /\ db.round \in 1 .. MaxRounds /\ db.round \in Nat
      /\ saved \in Nat /\ wallet \in [Users -> Nat]
  BY DEF RoomInv, RoomTypes, States
<1>2. /\ room' = db /\ queue' = <<>> /\ reserved' = SicboCommit(NoStakes, db)
      /\ saved' = db.revision /\ holder' = Nobody /\ shown' = {}
      /\ client' = [u \in Users |-> [pc |-> "idle"]]
      /\ UNCHANGED <<now, dice, opened, db, wallet, ledger, acked>>
  BY DEF Restart, RestoredStakes, storage
<1>3. NoStakes \in Holds /\ NoStakes.revision = 0
  BY DEF NoStakes, Holds
<1>4. reserved' \in Holds /\ \A u \in Users : reserved'.stakes[u] = OpenStake(db, u)
  BY <1>1, <1>2, <1>3, CommitHolds
<1>5. RoomTypes'
  <2>1. life' \in 1 .. MaxLives
    BY RoomAssumption DEF Restart, RoomInv, RoomTypes
  <2>2. client' \in [Users -> Requests]
    BY <1>2 DEF Requests
  <2> QED BY <2>1, <2>2, <1>1, <1>2
     DEF RoomInv, RoomTypes, Outcomes, States, Bets, Wagers, NoBet, Requests, Acks
<1>6. LedgerInv'
  BY <1>2, LedgerFrame DEF RoomInv
<1>7. ASSUME NEW u \in Users PROVE client'[u].pc = "idle"
  BY <1>2
<1>8. LockInv'
  BY <1>2, <1>7, RoomAssumption DEF LockInv
<1>9. PICK d : d = [room |-> db, queue |-> <<>>, reserved |-> reserved']
  OBVIOUS
<1>10. Here' = d /\ d.room = db /\ d.queue = <<>> /\ d.reserved = reserved' /\ Len(d.queue) = 0
  BY <1>2, <1>9 DEF Here
<1>11. TableInv(Here)'
  <2>1. d \in Cores
    BY <1>1, <1>4, <1>9 DEF Cores
  <2>2. (Here \in Cores)'
    BY <2>1, <1>10 DEF Cores, States, Snapshots, Holds, Bets, Wagers, NoBet
  <2>3. ChainInv(Here)'
    BY <1>1, <1>2, <1>10 DEF ChainInv
  <2>4. OrderInv(Here)'
    BY <1>10 DEF OrderInv, Unwritten
  <2>5. RiskInv(Here)'
    <3>1. ASSUME NEW u \in Users
          PROVE  OpenStake(db, u) <= wallet[u] /\ OpenStake(db, u) <= reserved'.stakes[u]
      <4>1. OpenStake(db, u) \in Nat
        BY <1>1, StakeTypes
      <4> QED BY <4>1, <1>4 DEF RoomInv, TableInv, RiskInv
    <3> QED BY <3>1, <1>2, <1>10 DEF RiskInv, Unwritten, OpenStake
  <2> QED BY <2>2, <2>3, <2>4, <2>5 DEF TableInv
<1>12. ASSUME NEW u \in Users PROVE PlayerInv(Here, u)'
  <2>1. WaitOn(Here, client[u])' /\ client'[u].pc # "acking"
    BY <1>7 DEF WaitOn
  <2>2. ASSUME acked[u].round > 0
        PROVE  /\ acked[u].wager # NoBet
               /\ Stored(u, acked[u].round, acked[u].wager)
               /\ acked[u].round \in 1 .. db.round
               /\ db.round = acked[u].round => db.bets[u] = acked[u].wager
    <3>1. /\ acked[u].wager # NoBet /\ Stored(u, acked[u].round, acked[u].wager)
          /\ acked[u].round \in 1 .. room.round
      BY <2>2 DEF RoomInv, PlayerInv, AckedOn, Carried, Here
    <3>2. acked[u].round \in 1 .. MaxRounds /\ acked[u].round \in Nat
      <4>1. room \in States
        BY TableTypes DEF RoomInv, TableInv, Here
      <4>2. room.round \in 1 .. MaxRounds
        BY <4>1 DEF States
      <4> QED BY <4>2, <3>1, RoomAssumption
    <3>3. CASE db.round = acked[u].round /\ ~db.result /\ db.bets[u] = acked[u].wager
      BY <3>1, <3>2, <3>3, <2>2
    <3>4. CASE ledger[acked[u].round][u] = <<acked[u].wager>>
      <4>1. ledger[acked[u].round][u] # <<>>
        BY <3>4
      <4>2. ~(acked[u].round > db.round \/ (acked[u].round = db.round /\ ~db.result))
        BY <4>1, <3>2 DEF RoomInv, LedgerInv
      <4>3. acked[u].round = db.round /\ db.result => db.bets[u] = acked[u].wager
        <5>1. SUFFICES ASSUME acked[u].round = db.round, db.result
                       PROVE  db.bets[u] = acked[u].wager
          OBVIOUS
        <5>2. ledger[acked[u].round][u] = IF db.bets[u] = NoBet THEN <<>> ELSE <<db.bets[u]>>
          BY <5>1, <3>2 DEF RoomInv, LedgerInv
        <5>3. ledger[acked[u].round][u] = <<db.bets[u]>>
          BY <5>2, <4>1
        <5> QED BY <5>3, <3>4, OneReceipt
      <4> QED BY <4>2, <4>3, <3>1, <3>2, <1>1
    <3> QED BY <3>1, <3>3, <3>4 DEF Stored
  <2>3. AckedOn(Here, u, acked[u])'
    BY <2>2, <1>2, <1>10 DEF AckedOn, Stored, Carried, NoBet
  <2> QED BY <2>1, <2>3 DEF PlayerInv
<1>13. ASSUME NEW u \in Users PROVE CommittingInv(Here, u)'
  BY <1>7 DEF CommittingInv
<1>14. ShownInv(Here)' /\ room'.round <= opened'
  <2>1. db.round <= room.round /\ room.round <= opened /\ room.round \in Nat /\ opened \in Nat
    BY RoomFacts, TableTypes DEF RoomInv, RoomTypes, Here, TableInv
  <2> QED BY <2>1, <1>1, <1>2 DEF ShownInv
<1> QED BY <1>5, <1>6, <1>8, <1>11, <1>12, <1>13, <1>14 DEF RoomInv

----------------------------------------------------------------------------
(* The writer. *)

LEMMA FirstReceipt ==
  ASSUME NEW b \in Bets
  PROVE  Append(<<>>, b) = <<b>> /\ <<b>> \in Seq(Bets) /\ Len(<<b>>) = 1
OBVIOUS

(* What the queue's head is to storage. *)
LEMMA HeadFacts ==
  ASSUME RoomInv, queue # <<>>, NEW h, h = Head(queue), NEW s, s = h.state
  PROVE  /\ h = queue[1] /\ s \in States /\ s.revision = saved + 1 /\ (h.settles <=> s.result)
         /\ Len(queue) \in Nat /\ Len(queue) >= 1 /\ saved \in Nat
         /\ s.round \in 1 .. MaxRounds /\ db.round \in 1 .. MaxRounds /\ db \in States
         /\ db.revision \in {saved, saved + 1}
         /\ Written(h) => db = s
         /\ ~Written(h) => Link(db, s) /\ Later(db, s) /\ 1 \in Unwritten(queue)
         /\ \A i \in 1 .. Len(queue) : i > 1 => i \in Unwritten(queue) /\ Later(s, queue[i].state)
<1>1. /\ TableInv(Here) /\ Here.room = room /\ Here.queue = queue /\ Here \in Cores
  BY DEF RoomInv, TableInv, Here
<1>2. /\ queue \in Seq(Snapshots) /\ Len(queue) \in Nat
      /\ \A i \in 1 .. Len(queue) : queue[i].state \in States
  BY <1>1, TableTypes
<1>3. h = queue[1] /\ Len(queue) >= 1 /\ 1 \in 1 .. Len(queue)
  BY <1>2
<1>4. saved \in Nat /\ db \in States
  BY DEF RoomInv, RoomTypes
<1>5. /\ \A i \in 1 .. Len(queue) : queue[i].state.revision = saved + i
      /\ (h.settles <=> s.result)
      /\ (db.revision = saved /\ Link(db, s)) \/ db = s
  BY <1>1, <1>3 DEF TableInv, ChainInv
<1>6. s \in States /\ s.revision = saved + 1
  BY <1>2, <1>3, <1>5
<1>7. s.round \in 1 .. MaxRounds /\ db.round \in 1 .. MaxRounds
  BY <1>4, <1>6 DEF States
<1>8. db.revision \in {saved, saved + 1}
  BY <1>5, <1>6
<1>9. Written(h) => db = s
  BY <1>4, <1>5, <1>6 DEF Written
<1>10. ~Written(h) => Link(db, s) /\ 1 \in Unwritten(queue)
  <2>1. ~Written(h) => db # s /\ db.revision = saved
    BY <1>4, <1>5, <1>6 DEF Written
  <2> QED BY <2>1, <1>3, <1>4, <1>5, <1>6 DEF Unwritten
<1>11. ~Written(h) => Later(db, s)
  BY <1>1, <1>3, <1>10 DEF TableInv, OrderInv
<1>12. ASSUME NEW i \in 1 .. Len(queue), i > 1
       PROVE  i \in Unwritten(queue) /\ Later(s, queue[i].state)
  <2>1. queue[i].state.revision > db.revision
    BY <1>12, <1>4, <1>5, <1>8
  <2>2. Later(queue[1].state, queue[i].state)
    BY <1>12, <1>1, <1>3 DEF TableInv, OrderInv
  <2> QED BY <2>1, <2>2, <1>3 DEF Unwritten
<1> QED BY <1>2, <1>3, <1>4, <1>5, <1>6, <1>7, <1>8, <1>9, <1>10, <1>11, <1>12

LEMMA PersistLedger ==
  ASSUME RoomInv, queue # <<>>, Persist(Head(queue)), NEW s, s = Head(queue).state
  PROVE  /\ db' = s /\ LedgerInv'
         /\ \A r \in 1 .. MaxRounds : r # s.round => ledger'[r] = ledger[r]
<1>1. PICK h : h = Head(queue)
  OBVIOUS
<1>2. /\ s \in States /\ (h.settles <=> s.result)
      /\ s.round \in 1 .. MaxRounds /\ db.round \in 1 .. MaxRounds
      /\ Written(h) => db = s
      /\ ~Written(h) => Link(db, s) /\ Later(db, s)
      /\ s = h.state
  BY <1>1, HeadFacts
<1>3. CASE Written(h)
  <2>1. db' = db /\ ledger' = ledger
    BY <1>1, <1>3 DEF Persist, storage
  <2> QED BY <2>1, <1>2, <1>3, LedgerFrame DEF RoomInv
<1>4. CASE ~Written(h)
  <2> DEFINE paid == IF h.settles THEN Owed(s) ELSE {}
  <2> DEFINE row == [u \in Users |->
                       IF u \in paid THEN Append(ledger[s.round][u], s.bets[u]) ELSE ledger[s.round][u]]
  <2>1. db' = s /\ ledger' = [ledger EXCEPT ![s.round] = row]
    BY <1>1, <1>2, <1>4 DEF Persist
  <2>2. /\ ledger \in [1 .. MaxRounds -> [Users -> Seq(Bets)]]
        /\ \A r \in 1 .. MaxRounds, u \in Users :
             /\ (r > db.round \/ (r = db.round /\ ~db.result)) => ledger[r][u] = <<>>
             /\ Len(ledger[r][u]) <= 1
    BY DEF RoomInv, LedgerInv
  <2>3. ASSUME NEW u \in Users
        PROVE  row[u] = IF s.result /\ s.bets[u] # NoBet THEN <<s.bets[u]>> ELSE <<>>
    <3>1. ledger[s.round][u] = <<>>
      BY <2>2, <1>2, <1>4 DEF Later
    <3>2. s.bets[u] \in Bets
      BY <1>2 DEF States
    <3>3. u \in paid <=> s.result /\ s.bets[u] # NoBet
      BY <3>1, <1>2 DEF Owed, Bettors
    <3>4. row[u] = IF u \in paid THEN Append(<<>>, s.bets[u]) ELSE <<>>
      BY <3>1
    <3> HIDE DEF row, paid
    <3> QED BY <3>2, <3>3, <3>4, FirstReceipt
  <2> HIDE DEF row, paid
  <2>4. row \in [Users -> Seq(Bets)] /\ \A u \in Users : Len(row[u]) <= 1
    <3>1. ASSUME NEW u \in Users PROVE row[u] \in Seq(Bets) /\ Len(row[u]) <= 1
      <4>1. s.bets[u] \in Bets
        BY <1>2 DEF States
      <4>2. CASE row[u] = <<>>
        BY <4>2
      <4>3. CASE row[u] = <<s.bets[u]>>
        BY <4>1, <4>3, FirstReceipt
      <4> QED BY <4>2, <4>3, <2>3
    <3>2. row = [u \in Users |-> row[u]]
      BY DEF row
    <3> QED BY <3>1, <3>2
  <2>5. /\ ledger' \in [1 .. MaxRounds -> [Users -> Seq(Bets)]] /\ ledger'[s.round] = row
        /\ \A r \in 1 .. MaxRounds : r # s.round => ledger'[r] = ledger[r]
    BY <2>1, <2>2, <2>4, <1>2
  <2>6. ASSUME NEW r \in 1 .. MaxRounds, NEW u \in Users
        PROVE  /\ (r > s.round \/ (r = s.round /\ ~s.result)) => ledger'[r][u] = <<>>
               /\ (r = s.round /\ s.result) =>
                    ledger'[r][u] = IF s.bets[u] = NoBet THEN <<>> ELSE <<s.bets[u]>>
               /\ Len(ledger'[r][u]) <= 1
    <3>1. CASE r = s.round
      BY <3>1, <2>3, <2>4, <2>5, <1>2
    <3>2. CASE r # s.round
      <4>1. ledger'[r][u] = ledger[r][u] /\ Len(ledger[r][u]) <= 1
        BY <3>2, <2>2, <2>5
      <4>2. r > s.round => r > db.round
        BY <1>2, <1>4 DEF Later
      <4> QED BY <4>1, <4>2, <3>2, <2>2
    <3> QED BY <3>1, <3>2
  <2>7. LedgerInv'
    <3>1. (ledger \in [1 .. MaxRounds -> [Users -> Seq(Bets)]])'
      BY <2>5 DEF Bets, Wagers, NoBet
    <3>2. ASSUME NEW r \in 1 .. MaxRounds, NEW u \in Users
          PROVE  (/\ (r > db.round \/ (r = db.round /\ ~db.result)) => ledger[r][u] = <<>>
                  /\ (r = db.round /\ db.result) =>
                       ledger[r][u] = IF db.bets[u] = NoBet THEN <<>> ELSE <<db.bets[u]>>
                  /\ Len(ledger[r][u]) <= 1)'
      BY <2>1, <2>6 DEF NoBet
    <3> QED BY <3>1, <3>2 DEF LedgerInv
  <2> QED BY <2>1, <2>5, <2>7
<1> QED BY <1>3, <1>4

LEMMA PersistWallet ==
  ASSUME RoomInv, queue # <<>>, Persist(Head(queue)), NEW s, s = Head(queue).state
  PROVE  /\ wallet' \in [Users -> Nat]
         /\ wallet' = wallet \/ (s.result /\ ~Written(Head(queue)))
         /\ \A u \in Users : client[u].pc = "committing" => wallet'[u] = wallet[u]
<1>1. PICK h : h = Head(queue)
  OBVIOUS
<1>2. /\ s \in States /\ (h.settles <=> s.result)
      /\ s.round \in 1 .. MaxRounds /\ s = h.state
  BY <1>1, HeadFacts
<1>3. wallet \in [Users -> Nat]
  BY DEF RoomInv, RoomTypes
<1>4. CASE Written(h)
  BY <1>1, <1>3, <1>4 DEF Persist, storage
<1>5. CASE ~Written(h)
  <2> DEFINE paid == IF h.settles THEN Owed(s) ELSE {}
  <2>1. /\ wallet' = [u \in Users |-> IF u \in paid THEN wallet[u] + Payout(s, u) ELSE wallet[u]]
        /\ CanCommit(h)
    BY <1>1, <1>2, <1>5 DEF Persist
  <2>2. CASE ~s.result
    BY <2>1, <2>2, <1>2, <1>3
  <2>3. CASE s.result
    <3>1. \A u \in paid : client[u].pc # "committing" /\ wallet[u] + Payout(s, u) >= 0
      BY <2>1, <2>3, <1>2 DEF CanCommit, RowLocked
    <3>2. ASSUME NEW u \in Users PROVE Payout(s, u) \in Int
      <4>1. s.bets[u].stake \in Nat
        BY <1>2, StakeTypes
      <4> QED BY <4>1 DEF Payout, Delta
    <3> HIDE DEF paid
    <3>3. ASSUME NEW u \in Users PROVE wallet'[u] \in Nat
      <4>1. CASE u \in paid
        BY <4>1, <3>1, <3>2, <2>1, <1>3
      <4>2. CASE u \notin paid
        BY <4>2, <2>1, <1>3
      <4> QED BY <4>1, <4>2
    <3>4. ASSUME NEW u \in Users, client[u].pc = "committing" PROVE wallet'[u] = wallet[u]
      BY <3>1, <3>4, <2>1
    <3>5. wallet' \in [Users -> Nat]
      BY <3>3, <2>1
    <3> QED BY <3>4, <3>5, <2>3, <1>1, <1>5
  <2> QED BY <2>2, <2>3
<1> QED BY <1>4, <1>5

(* The head is stored, and with k = 1 also acknowledged and dropped. *)
Stores(k) ==
  /\ queue # <<>> /\ Persist(Head(queue))
  /\ queue' \in Seq(Snapshots) /\ Len(queue') = Len(queue) - k
  /\ \A i \in 1 .. Len(queue) - k : queue'[i] = queue[i + k]
  /\ saved' = saved + k
  /\ \/ reserved' = reserved
     \/ k = 1 /\ reserved' = SicboCommit(reserved, Head(queue).state)
  /\ UNCHANGED <<fixed, opened, room, holder, client, acked, shown>>

LEMMA StoresReserved ==
  ASSUME RoomInv, NEW k \in {0, 1}, Stores(k), NEW s, s = Head(queue).state
  PROVE  /\ reserved \in Holds /\ reserved' \in Holds
         /\ \/ reserved' = reserved
            \/ /\ k = 1 /\ Len(queue) = 1 /\ reserved.revision <= room.revision
               /\ \A u \in Users : reserved'.stakes[u] = OpenStake(s, u)
<1>1. /\ s \in States /\ s.revision = saved + 1 /\ Len(queue) \in Nat /\ Len(queue) >= 1 /\ saved \in Nat
  <2>1. PICK h : h = Head(queue)
    OBVIOUS
  <2> QED BY <2>1, HeadFacts DEF Stores
<1>2. /\ reserved \in Holds /\ room.revision = saved + Len(queue)
      /\ reserved.revision >= room.revision
  BY TableTypes DEF RoomInv, TableInv, ChainInv, RiskInv, Here, Stores
<1>3. CASE reserved' = reserved
  BY <1>2, <1>3
<1>4. CASE k = 1 /\ reserved' = SicboCommit(reserved, s)
  <2>1. /\ reserved' \in Holds
        /\ \/ reserved' = reserved /\ reserved.revision > s.revision
           \/ reserved.revision <= s.revision /\ \A u \in Users : reserved'.stakes[u] = OpenStake(s, u)
    BY <1>1, <1>2, <1>4, CommitHolds
  <2>2. CASE reserved.revision <= s.revision /\ \A u \in Users : reserved'.stakes[u] = OpenStake(s, u)
    <3>1. reserved.revision \in Nat
      BY <1>2 DEF Holds
    <3>2. Len(queue) = 1 /\ reserved.revision <= room.revision
      <4>1. reserved.revision <= saved + 1 /\ saved + Len(queue) <= reserved.revision
        BY <2>2, <1>1, <1>2
      <4>2. Len(queue) = 1
        <5>1. PICK n \in Nat : n = Len(queue)
          BY <1>1
        <5>2. n <= 1 /\ n >= 1
          BY <5>1, <4>1, <3>1, <1>1
        <5> QED BY <5>1, <5>2
      <4> QED BY <4>1, <4>2, <1>2
    <3> QED BY <3>2, <2>1, <2>2, <1>2, <1>4
  <2> QED BY <2>1, <2>2, <1>2
<1> QED BY <1>3, <1>4 DEF Stores

LEMMA StoresTable ==
  ASSUME RoomInv, NEW k \in {0, 1}, Stores(k)
  PROVE  TableInv(Here)'
<1>1. PICK h : h = Head(queue)
  OBVIOUS
<1>2. PICK s : s = h.state
  OBVIOUS
<1> DEFINE n == Len(queue)
<1>3. /\ h = queue[1] /\ s \in States /\ s.revision = saved + 1 /\ (h.settles <=> s.result)
      /\ n \in Nat /\ n >= 1 /\ saved \in Nat
      /\ s.round \in 1 .. MaxRounds /\ db.round \in 1 .. MaxRounds /\ db \in States
      /\ db.revision \in {saved, saved + 1}
      /\ Written(h) => db = s
      /\ ~Written(h) => Link(db, s) /\ Later(db, s) /\ 1 \in Unwritten(queue)
      /\ \A i \in 1 .. n : i > 1 => i \in Unwritten(queue) /\ Later(s, queue[i].state)
  BY <1>1, <1>2, HeadFacts DEF Stores
<1>4. db' = s /\ wallet' \in [Users -> Nat] /\ (wallet' = wallet \/ (s.result /\ ~Written(h)))
  BY <1>1, <1>2, PersistLedger, PersistWallet DEF Stores
<1>5. /\ reserved \in Holds /\ reserved' \in Holds
      /\ \/ reserved' = reserved
         \/ n = 1 /\ k = 1 /\ \A u \in Users : reserved'.stakes[u] = OpenStake(s, u)
  BY <1>1, <1>2, StoresReserved
<1>6. /\ TableInv(Here) /\ Here.room = room /\ Here.queue = queue /\ Here.reserved = reserved
      /\ room \in States /\ \A i \in 1 .. n : queue[i].state \in States
  BY TableTypes DEF RoomInv, TableInv, Here
<1>7. /\ queue' \in Seq(Snapshots) /\ Len(queue') = n - k /\ room' = room /\ saved' = saved + k
      /\ \A i \in 1 .. n - k : queue'[i] = queue[i + k] /\ i + k \in 1 .. n
  BY <1>3 DEF Stores
<1>8. /\ Here'.room = room /\ Here'.queue = queue' /\ Here'.reserved = reserved'
  BY <1>7 DEF Here
<1> HIDE DEF n
<1>9. (Here \in Cores)'
  <2>1. [room |-> room, queue |-> queue', reserved |-> reserved'] \in Cores
    BY <1>5, <1>6, <1>7 DEF Cores
  <2> QED BY <2>1, <1>7 DEF Here, Cores, States, Snapshots, Holds, Bets, Wagers, NoBet
<1>10. ChainInv(Here)'
  <2>1. /\ room.revision = saved + n
        /\ \A i \in 1 .. n : queue[i].state.revision = saved + i
        /\ \A i \in 1 .. n : queue[i].settles <=> queue[i].state.result
        /\ queue[n].state = room
        /\ \A i \in 1 .. n - 1 : Link(queue[i].state, queue[i + 1].state)
    BY <1>6 DEF TableInv, ChainInv, Stores, n
  <2>2. room.revision = saved' + (n - k)
    BY <2>1, <1>3, <1>7
  <2>3. ASSUME NEW i \in 1 .. n - k
        PROVE  /\ queue'[i].state.revision = saved' + i
               /\ queue'[i].settles <=> queue'[i].state.result
    <3>1. i + k \in 1 .. n /\ queue'[i] = queue[i + k]
      BY <1>7
    <3> QED BY <3>1, <2>1, <1>3, <1>7
  <2>4. queue' # <<>> => n - k >= 1 /\ queue'[n - k].state = room
    <3>1. queue' # <<>> => n - k >= 1
      BY <1>7, <1>3
    <3>2. n - k >= 1 => n - k \in 1 .. n - k /\ (n - k) + k = n
      BY <1>3
    <3> QED BY <3>1, <3>2, <1>7, <2>1
  <2>5. queue' = <<>> => db' = room
    <3>1. queue' = <<>> => n = 1
      BY <1>3, <1>7
    <3> QED BY <3>1, <2>1, <1>3, <1>4, <1>2
  <2>6. \/ db'.revision = saved' /\ (queue' # <<>> => Link(db', queue'[1].state))
        \/ queue' # <<>> /\ db' = queue'[1].state
    <3>1. CASE k = 0
      <4>1. 1 \in 1 .. n - k /\ queue'[1] = queue[1] /\ queue' # <<>>
        <5>1. 1 \in 1 .. n - k /\ 1 + k = 1
          BY <3>1, <1>3
        <5>2. Len(queue') # 0
          BY <5>1, <1>3, <1>7
        <5>3. queue' # <<>>
          BY <5>2
        <5> QED BY <5>1, <5>3, <1>7
      <4> QED BY <4>1, <1>2, <1>3, <1>4
    <3>2. CASE k = 1
      <4>1. db'.revision = saved'
        BY <3>2, <1>3, <1>4, <1>7
      <4>2. ASSUME queue' # <<>> PROVE Link(db', queue'[1].state)
        <5>1. n - k >= 1
          BY <4>2, <2>4
        <5>2. 1 \in 1 .. n - k /\ 1 \in 1 .. n - 1 /\ 1 + k = 2
          BY <5>1, <3>2, <1>3
        <5>3. queue'[1] = queue[2]
          BY <5>2, <1>7
        <5>4. Link(queue[1].state, queue[1 + 1].state)
          BY <5>2, <2>1
        <5> QED BY <5>3, <5>4, <1>2, <1>3, <1>4
      <4> QED BY <4>1, <4>2
    <3> QED BY <3>1, <3>2
  <2>7. ASSUME NEW i \in 1 .. (n - k) - 1 PROVE Link(queue'[i].state, queue'[i + 1].state)
    <3>1. i \in 1 .. n - k /\ i + 1 \in 1 .. n - k /\ i + k \in 1 .. n - 1 /\ (i + 1) + k = (i + k) + 1
      BY <1>3
    <3> QED BY <3>1, <2>1, <1>7
  <2> QED BY <2>2, <2>3, <2>4, <2>5, <2>6, <2>7, <1>7, <1>8 DEF ChainInv, Link, Clean, NoBet
<1>11. ASSUME NEW i \in 1 .. n - k, queue'[i].state.revision > db'.revision
       PROVE  /\ i + k \in 1 .. n /\ i + k > 1 /\ i + k \in Unwritten(queue)
              /\ queue'[i] = queue[i + k] /\ Later(s, queue[i + k].state)
              /\ queue[i + k].state \in States
  <2>1. i + k \in 1 .. n /\ queue'[i] = queue[i + k] /\ queue[i + k].state.revision = saved + (i + k)
    BY <1>6, <1>7 DEF TableInv, ChainInv, n
  <2>2. i + k > 1
    BY <2>1, <1>3, <1>4, <1>11
  <2> QED BY <2>1, <2>2, <1>3, <1>6
<1>12. s.round >= db.round /\ s.round \in Nat /\ db.round \in Nat
  BY <1>3 DEF Later
<1>13. OrderInv(Here)'
  <2>1. ASSUME NEW i \in 1 .. n - k, NEW j \in 1 .. n - k, i < j
        PROVE  Later(queue'[i].state, queue'[j].state)
    <3>1. i + k \in 1 .. n /\ j + k \in 1 .. n /\ i + k < j + k
      BY <2>1, <1>3
    <3>2. Later(queue[i + k].state, queue[j + k].state)
      BY <3>1, <1>6 DEF TableInv, OrderInv, n
    <3> QED BY <3>2, <1>7
  <2>2. ASSUME NEW i \in 1 .. n - k, queue'[i].state.revision > db'.revision
        PROVE  /\ Later(db', queue'[i].state)
               /\ queue'[i].state.round > db'.round => Clean(queue'[i].state)
    <3>1. /\ i + k \in Unwritten(queue) /\ queue'[i] = queue[i + k]
          /\ Later(s, queue[i + k].state) /\ queue[i + k].state \in States
      BY <2>2, <1>11
    <3>2. queue[i + k].state.round \in Nat
      BY <3>1 DEF States
    <3>3. queue[i + k].state.round > s.round => queue[i + k].state.round > db.round
      BY <3>2, <1>12
    <3>4. queue[i + k].state.round > db.round => Clean(queue[i + k].state)
      BY <3>1, <1>6 DEF TableInv, OrderInv
    <3> QED BY <3>1, <3>3, <3>4, <1>4
  <2> QED BY <2>1, <2>2, <1>7, <1>8 DEF OrderInv, Unwritten, Later, Clean, NoBet
<1>14. RiskInv(Here)'
  <2>1. queue' # <<>> => reserved'.revision >= room.revision
    <3>1. queue' # <<>> => n - k # 0
      BY <1>7, <1>3
    <3> QED BY <3>1, <1>5, <1>6 DEF TableInv, RiskInv, Stores
  <2>2. ASSUME NEW u \in Users
        PROVE  OpenStake(s, u) <= wallet'[u] /\ OpenStake(s, u) <= reserved'.stakes[u]
    <3>1. OpenStake(s, u) \in Nat /\ s.bets[u].stake \in Nat /\ OpenStake(s, u) <= s.bets[u].stake
      BY <1>3, StakeTypes
    <3>2. OpenStake(s, u) <= wallet[u] /\ OpenStake(s, u) <= reserved.stakes[u]
      <4>1. CASE Written(h)
        BY <4>1, <1>3, <1>6 DEF TableInv, RiskInv
      <4>2. CASE ~Written(h)
        <5>1. s.bets[u].stake <= wallet[u] /\ s.bets[u].stake <= reserved.stakes[u]
          BY <4>2, <1>2, <1>3, <1>6 DEF TableInv, RiskInv
        <5>2. wallet[u] \in Nat /\ reserved.stakes[u] \in Nat
          BY <1>5 DEF RoomInv, RoomTypes, Holds
        <5> QED BY <5>1, <5>2, <3>1
      <4> QED BY <4>1, <4>2
    <3>3. OpenStake(s, u) <= wallet'[u]
      <4>1. CASE wallet' = wallet
        BY <4>1, <3>2
      <4>2. CASE s.result
        BY <4>2, <1>4 DEF OpenStake
      <4> QED BY <4>1, <4>2, <1>4
    <3>4. OpenStake(s, u) <= reserved'.stakes[u]
      BY <3>1, <3>2, <1>5
    <3> QED BY <3>3, <3>4
  <2>3. ASSUME NEW u \in Users, NEW i \in 1 .. n - k, queue'[i].state.revision > db'.revision
        PROVE  /\ queue'[i].state.bets[u].stake <= wallet'[u]
               /\ queue'[i].state.bets[u].stake <= reserved'.stakes[u]
    <3>1. /\ i + k \in Unwritten(queue) /\ queue'[i] = queue[i + k]
          /\ Later(s, queue[i + k].state) /\ queue[i + k].state \in States
      BY <2>3, <1>11
    <3>2. /\ queue[i + k].state.bets[u].stake <= wallet[u]
          /\ queue[i + k].state.bets[u].stake <= reserved.stakes[u]
      BY <3>1, <1>6 DEF TableInv, RiskInv
    <3>3. reserved' = reserved
      BY <1>3, <1>5
    <3>4. CASE wallet' = wallet
      BY <3>1, <3>2, <3>3, <3>4
    <3>5. CASE s.result
      <4>1. queue[i + k].state.round \in Nat
        BY <3>1 DEF States
      <4>2. queue[i + k].state.round > db.round
        BY <4>1, <3>1, <3>5, <1>12 DEF Later
      <4>3. Clean(queue[i + k].state)
        BY <4>2, <3>1, <1>6 DEF TableInv, OrderInv
      <4>4. queue[i + k].state.bets[u].stake = 0 /\ wallet'[u] \in Nat
        BY <4>3, <1>4 DEF Clean, NoBet
      <4> QED BY <4>4, <3>1, <3>2, <3>3
    <3> QED BY <3>4, <3>5, <1>4
  <2> QED BY <2>1, <2>2, <2>3, <1>4, <1>7, <1>8 DEF RiskInv, Unwritten, OpenStake
<1> QED BY <1>9, <1>10, <1>13, <1>14 DEF TableInv

(* What was stored, or is in the stored head, stays stored. *)
LEMMA StoresStored ==
  ASSUME RoomInv, NEW k \in {0, 1}, Stores(k), NEW s, s = Head(queue).state,
         NEW u \in Users, NEW r \in 1 .. MaxRounds, NEW w, w # NoBet,
         Stored(u, r, w) \/ s.round = r, s.round = r => s.bets[u] = w
  PROVE  Stored(u, r, w)'
<1>1. PICK h : h = Head(queue)
  OBVIOUS
<1>2. Written(h) => db = s
  BY <1>1, HeadFacts DEF Stores
<1>3. ~Written(h) => Link(db, s)
  BY <1>1, HeadFacts DEF Stores
<1>4. db' = s /\ LedgerInv' /\ \A q \in 1 .. MaxRounds : q # s.round => ledger'[q] = ledger[q]
  BY PersistLedger DEF Stores
<1>5. CASE s.round = r
  <2>1. CASE ~s.result
    BY <2>1, <1>4, <1>5 DEF Stored
  <2>2. CASE s.result
    <3>1. ledger'[r][u] = IF s.bets[u] = NoBet THEN <<>> ELSE <<s.bets[u]>>
      BY <2>2, <1>4, <1>5 DEF LedgerInv, NoBet
    <3>2. ledger'[r][u] = <<w>>
      BY <3>1, <1>5
    <3> QED BY <3>2 DEF Stored
  <2> QED BY <2>1, <2>2
<1>6. CASE s.round # r
  <2>1. ~(db.round = r /\ ~db.result)
    BY <1>2, <1>3, <1>6 DEF Link
  <2>2. ledger[r][u] = <<w>>
    BY <2>1, <1>6 DEF Stored
  <2> QED BY <2>2, <1>4, <1>6 DEF Stored
<1> QED BY <1>5, <1>6

LEMMA StoresPlayer ==
  ASSUME RoomInv, NEW k \in {0, 1}, Stores(k), NEW u \in Users
  PROVE  PlayerInv(Here, u)'
<1>1. PICK h : h = Head(queue)
  OBVIOUS
<1>2. PICK s : s = h.state
  OBVIOUS
<1> DEFINE n == Len(queue)
<1>3. /\ h = queue[1] /\ s \in States /\ s.revision = saved + 1
      /\ n \in Nat /\ n >= 1 /\ saved \in Nat
      /\ s.round \in 1 .. MaxRounds /\ db.round \in 1 .. MaxRounds /\ db \in States
      /\ db.revision \in {saved, saved + 1}
      /\ Written(h) => db = s
      /\ ~Written(h) => Later(db, s)
  BY <1>1, <1>2, HeadFacts DEF Stores
<1>4. db' = s
  BY <1>1, <1>2, PersistLedger DEF Stores
<1>5. /\ Here.room = room /\ Here.queue = queue /\ room \in States
      /\ room.round \in 1 .. MaxRounds /\ room.revision \in Nat
      /\ \A i \in 1 .. n : queue[i].state \in States
  <2>1. Here \in Cores /\ Here.room = room /\ Here.queue = queue
    BY DEF RoomInv, TableInv, Here
  <2>2. room \in States /\ room.revision \in Nat /\ \A i \in 1 .. n : queue[i].state \in States
    BY <2>1, TableTypes
  <2>3. room.round \in 1 .. MaxRounds
    BY <2>2 DEF States
  <2> QED BY <2>1, <2>2, <2>3
<1>6. /\ Len(queue') = n - k /\ room' = room /\ saved' = saved + k
      /\ client' = client /\ acked' = acked
      /\ \A i \in 1 .. n - k : queue'[i] = queue[i + k] /\ i + k \in 1 .. n
  BY <1>3 DEF Stores
<1>7. Here'.room = room /\ Here'.queue = queue'
  BY <1>6 DEF Here
<1>8. s.round >= db.round /\ s.round \in Nat /\ db.round \in Nat
  BY <1>3 DEF Later
<1> HIDE DEF n
<1>9. ASSUME NEW r, NEW w, NEW target \in Nat, Carried(Here, u, r, w, target)
      PROVE  /\ Carried(Here, u, r, w, target)'
             /\ r \in 1 .. MaxRounds
             /\ saved + 1 >= target /\ s.round = r => s.bets[u] = w
  <2>1. /\ r \in 1 .. room.round
        /\ room.round = r => room.bets[u] = w
        /\ \A i \in 1 .. n :
             saved + i >= target /\ queue[i].state.round = r => queue[i].state.bets[u] = w
    BY <1>5, <1>9 DEF Carried, n
  <2>2. ASSUME NEW i \in 1 .. n - k, saved' + i >= target /\ queue'[i].state.round = r
        PROVE  queue'[i].state.bets[u] = w
    <3>1. i + k \in 1 .. n /\ queue'[i] = queue[i + k] /\ saved + (i + k) >= target
      BY <2>2, <1>3, <1>6
    <3> QED BY <3>1, <2>1, <2>2
  <2>3. Carried(Here, u, r, w, target)'
    BY <2>1, <2>2, <1>6, <1>7 DEF Carried
  <2>4. r \in 1 .. MaxRounds
    BY <2>1, <1>5, RoomAssumption
  <2>5. saved + 1 >= target /\ s.round = r => s.bets[u] = w
    <3>1. 1 \in 1 .. n /\ queue[1].state = s
      BY <1>2, <1>3
    <3> QED BY <3>1, <2>1
  <2> QED BY <2>3, <2>4, <2>5
<1>10. AckedOn(Here, u, acked[u])'
  <2>1. SUFFICES ASSUME acked[u].round > 0
                 PROVE  /\ acked[u].wager # NoBet
                        /\ Stored(u, acked[u].round, acked[u].wager)'
                        /\ Carried(Here, u, acked[u].round, acked[u].wager, 0)'
    BY <1>6 DEF AckedOn, Stored, Carried, NoBet
  <2>2. PICK r, w : r = acked[u].round /\ w = acked[u].wager
    OBVIOUS
  <2>3. w # NoBet /\ Stored(u, r, w) /\ Carried(Here, u, r, w, 0)
    BY <2>1, <2>2 DEF RoomInv, PlayerInv, AckedOn
  <2>4. Carried(Here, u, r, w, 0)' /\ r \in 1 .. MaxRounds /\ (s.round = r => s.bets[u] = w)
    BY <2>3, <1>3, <1>9
  <2>5. Stored(u, r, w)'
    BY <2>3, <2>4, <1>1, <1>2, StoresStored
  <2> QED BY <2>2, <2>3, <2>4, <2>5, <1>6 DEF Stored, Carried
<1>11. WaitOn(Here, client[u])'
  <2> DEFINE c == client[u]
  <2>1. WaitOn(Here, c) /\ c \in Requests
    BY DEF RoomInv, RoomTypes, PlayerInv
  <2> HIDE DEF c
  <2>2. c.pc \in {"waiting", "ready", "committing"} => c.round <= room.round /\ c.round \in Nat
    BY <2>1, <1>5, RequestForms DEF WaitOn
  <2>3. c.pc \in {"ready", "committing"} => s.round >= c.round
    BY <2>1, <2>2, <1>8 DEF WaitOn
  <2>4. ASSUME c.pc = "waiting"
        PROVE  /\ c.target <= room.revision
               /\ s.revision >= c.target => s.round >= c.round
               /\ \A i \in 1 .. n - k : saved' + i >= c.target => queue'[i].state.round >= c.round
    <3>1. /\ c.target <= room.revision
          /\ \A i \in 1 .. n : saved + i >= c.target => queue[i].state.round >= c.round
      BY <2>1, <2>4, <1>5 DEF WaitOn, n
    <3>2. s.revision >= c.target => s.round >= c.round
      <4>1. 1 \in 1 .. n /\ queue[1].state = s /\ s.revision = saved + 1
        BY <1>2, <1>3
      <4> QED BY <4>1, <3>1
    <3>3. ASSUME NEW i \in 1 .. n - k, saved' + i >= c.target
          PROVE  queue'[i].state.round >= c.round
      <4>1. i + k \in 1 .. n /\ queue'[i] = queue[i + k] /\ saved' + i = saved + (i + k)
        BY <1>3, <1>6
      <4> QED BY <4>1, <3>1, <3>3
    <3> QED BY <3>1, <3>2, <3>3
  <2>5. c = client'[u]
    BY <1>6 DEF c
  <2> QED BY <2>2, <2>3, <2>4, <2>5, <1>4, <1>6, <1>7 DEF WaitOn
<1>12. ASSUME client[u].pc = "acking"
       PROVE  AckingOn(Here, u, client[u])'
  <2>1. PICK r, w, target : r = client[u].round /\ w = client[u].wager /\ target = client[u].target
    OBVIOUS
  <2>2. SUFFICES ASSUME w # NoBet
                 PROVE  /\ target <= room.revision
                        /\ Carried(Here, u, r, w, target)'
                        /\ s.revision >= target => Stored(u, r, w)'
                        /\ \A i \in 1 .. n - k : saved' + i = target => queue'[i].state.round = r
    BY <2>1, <1>4, <1>6, <1>7 DEF AckingOn, Stored, Carried, NoBet
  <2>3. /\ target <= room.revision
        /\ Carried(Here, u, r, w, target)
        /\ db.revision >= target => Stored(u, r, w)
        /\ \A i \in 1 .. n : saved + i = target => queue[i].state.round = r
    BY <2>1, <2>2, <1>5, <1>12 DEF RoomInv, PlayerInv, AckingOn, n
  <2>4. target \in Nat
    BY <2>1, <1>12, RequestForms DEF RoomInv, RoomTypes
  <2>5. /\ Carried(Here, u, r, w, target)' /\ r \in 1 .. MaxRounds
        /\ saved + 1 >= target /\ s.round = r => s.bets[u] = w
    BY <2>3, <2>4, <1>9
  <2>6. ASSUME s.revision >= target
        PROVE  Stored(u, r, w)'
    <3>1. s.round = r => s.bets[u] = w
      BY <2>5, <2>6, <1>3
    <3>2. Stored(u, r, w) \/ s.round = r
      <4>1. CASE db.revision >= target
        BY <4>1, <2>3
      <4>2. CASE ~(db.revision >= target)
        <5>1. saved + 1 = target /\ 1 \in 1 .. n /\ queue[1].state = s
          BY <4>2, <2>4, <2>6, <1>2, <1>3
        <5> QED BY <5>1, <2>3
      <4> QED BY <4>1, <4>2
    <3> QED BY <3>1, <3>2, <2>2, <2>5, <1>1, <1>2, StoresStored
  <2>7. ASSUME NEW i \in 1 .. n - k, saved' + i = target
        PROVE  queue'[i].state.round = r
    <3>1. i + k \in 1 .. n /\ queue'[i] = queue[i + k] /\ saved' + i = saved + (i + k)
      BY <1>3, <1>6
    <3> QED BY <3>1, <2>3, <2>7
  <2> QED BY <2>3, <2>5, <2>6, <2>7
<1> QED BY <1>6, <1>10, <1>11, <1>12 DEF PlayerInv

LEMMA StoresKeeps ==
  ASSUME RoomInv, NEW k \in {0, 1}, Stores(k)
  PROVE  RoomInv'
<1>1. PICK s : s = Head(queue).state
  OBVIOUS
<1>2. /\ db' = s /\ LedgerInv' /\ wallet' \in [Users -> Nat]
      /\ \A u \in Users : client[u].pc = "committing" => wallet'[u] = wallet[u]
  BY <1>1, PersistLedger, PersistWallet DEF Stores
<1>3. s \in States /\ saved \in Nat
  <2>1. PICK h : h = Head(queue)
    OBVIOUS
  <2> QED BY <2>1, <1>1, HeadFacts DEF Stores
<1>4. UNCHANGED <<now, life, dice, opened, room, holder, client, acked, shown>> /\ saved' \in Nat
  BY <1>3 DEF Stores, fixed
<1>5. RoomTypes'
  BY <1>2, <1>3, <1>4 DEF RoomInv, RoomTypes, Outcomes, States, Bets, Wagers, NoBet, Requests, Acks
<1>6. LockInv'
  BY <1>4 DEF RoomInv, LockInv
<1>7. TableInv(Here)' /\ \A u \in Users : PlayerInv(Here, u)'
  BY StoresTable, StoresPlayer
<1>8. ASSUME NEW u \in Users PROVE CommittingInv(Here, u)'
  <2>1. \/ reserved' = reserved
        \/ reserved.revision <= room.revision
    BY <1>1, StoresReserved
  <2>2. room.revision \in Nat /\ reserved.revision \in Nat
    BY TableTypes DEF RoomInv, TableInv, Here, Holds
  <2>3. CASE client[u].pc = "committing"
    <3>1. /\ client[u].round = room.round
          /\ \/ room.bets[u] = client[u].wager
             \/ /\ ~room.result /\ reserved.revision > room.revision
                /\ client[u].wager.stake <= wallet[u] /\ client[u].wager.stake <= reserved.stakes[u]
      BY <2>3 DEF RoomInv, CommittingInv, Here
    <3>2. CASE room.bets[u] = client[u].wager
      BY <3>1, <3>2, <1>4 DEF CommittingInv, Here
    <3>3. CASE room.bets[u] # client[u].wager
      <4>1. reserved' = reserved /\ wallet'[u] = wallet[u]
        BY <3>1, <3>3, <2>1, <2>2, <2>3, <1>2
      <4> QED BY <3>1, <3>3, <4>1, <1>4 DEF CommittingInv, Here
    <3> QED BY <3>2, <3>3
  <2>4. CASE client[u].pc # "committing"
    BY <2>4, <1>4 DEF CommittingInv
  <2> QED BY <2>3, <2>4
<1>9. ShownInv(Here)' /\ room'.round <= opened'
  BY <1>4 DEF RoomInv, ShownInv, Here
<1> QED BY <1>2, <1>5, <1>6, <1>7, <1>8, <1>9 DEF RoomInv

LEMMA PersistOkKeeps ==
  ASSUME RoomInv, PersistOk
  PROVE  RoomInv'
<1>1. queue \in Seq(Snapshots) /\ queue # <<>>
  BY TableTypes DEF RoomInv, TableInv, Here, PersistOk
<1>2. PICK h : h = Head(queue)
  OBVIOUS
<1>3. PICK s : s = h.state
  OBVIOUS
<1>4. s.revision = saved + 1
  BY <1>1, <1>2, <1>3, HeadFacts
<1>5. /\ Tail(queue) \in Seq(Snapshots) /\ Len(Tail(queue)) = Len(queue) - 1
      /\ \A i \in 1 .. Len(queue) - 1 : Tail(queue)[i] = queue[i + 1]
  BY <1>1
<1>6. Stores(1)
  BY <1>1, <1>2, <1>3, <1>4, <1>5 DEF PersistOk, Stores
<1> QED BY <1>6, StoresKeeps

LEMMA PersistLostAckKeeps ==
  ASSUME RoomInv, PersistLostAck
  PROVE  RoomInv'
<1>1. queue \in Seq(Snapshots) /\ queue # <<>> /\ saved \in Nat
  BY TableTypes DEF RoomInv, RoomTypes, TableInv, Here, PersistLostAck
<1>2. Len(queue) \in Nat /\ saved + 0 = saved /\ Len(queue) - 0 = Len(queue)
  BY <1>1
<1>3. \A i \in 1 .. Len(queue) - 0 : i + 0 = i
  BY <1>1
<1>4. Stores(0)
  BY <1>1, <1>2, <1>3 DEF PersistLostAck, Stores, core
<1> QED BY <1>4, StoresKeeps

----------------------------------------------------------------------------
(* The invariant and what it is for. *)

LEMMA InitRoom == Init => RoomInv
<1> SUFFICES ASSUME Init PROVE RoomInv
  OBVIOUS
<1>1. /\ now = 0 /\ opened = 1 /\ room = NewRound(1, 1) /\ queue = <<>> /\ reserved = NoStakes
      /\ saved = 1 /\ holder = Nobody /\ db = room /\ shown = {}
  BY DEF Init
<1>2. room \in States /\ room.revision = 1 /\ room.round = 1 /\ room.result = FALSE
      /\ \A u \in Users : room.bets[u] = NoBet
  <2>1. [u \in Users |-> NoBet] \in [Users -> Bets] /\ [u \in Users |-> 0] \in [Users -> Nat]
    BY DEF Bets
  <2>2. 1 \in 1 .. MaxRounds /\ now + BetTime \in Int
    BY <1>1, RoomAssumption
  <2> QED BY <2>1, <2>2, <1>1 DEF NewRound, States
<1>3. NoStakes \in Holds /\ \A u \in Users : reserved.stakes[u] = 0
  BY <1>1 DEF NoStakes, Holds
<1>4. ASSUME NEW u \in Users
      PROVE  /\ client[u].pc = "idle" /\ acked[u].round = 0 /\ OpenStake(db, u) = 0
             /\ wallet[u] = Balance /\ \A r \in 1 .. MaxRounds : ledger[r][u] = <<>>
  <2>1. OpenStake(db, u) = 0
    BY <1>1, <1>2 DEF OpenStake, NoBet
  <2> QED BY <2>1 DEF Init
<1>5. RoomTypes
  <2>1. life \in 1 .. MaxLives /\ now \in 0 .. MaxTime /\ opened \in 1 .. MaxRounds /\ Balance \in Nat
    BY RoomAssumption DEF Init
  <2>2. client \in [Users -> Requests] /\ acked \in [Users -> Acks]
    BY DEF Init, Requests, Acks
  <2>3. wallet \in [Users -> Nat]
    BY <2>1 DEF Init
  <2> QED BY <2>1, <2>2, <2>3, <1>1, <1>2 DEF RoomTypes, Init
<1>6. LedgerInv
  <2>1. ledger \in [1 .. MaxRounds -> [Users -> Seq(Bets)]]
    BY DEF Init
  <2>2. \A r \in 1 .. MaxRounds, u \in Users : ledger[r][u] = <<>> /\ Len(ledger[r][u]) <= 1
    BY <1>4
  <2> QED BY <2>1, <2>2, <1>1, <1>2 DEF LedgerInv
<1>7. LockInv
  BY <1>1, <1>4, RoomAssumption DEF LockInv
<1>8. /\ Here.room = room /\ Here.queue = <<>> /\ Here.reserved = reserved /\ Len(Here.queue) = 0
  BY <1>1 DEF Here
<1>9. TableInv(Here)
  <2>1. Here \in Cores
    BY <1>1, <1>2, <1>3 DEF Here, Cores
  <2>2. ChainInv(Here)
    BY <1>1, <1>2, <1>8 DEF ChainInv
  <2>3. OrderInv(Here)
    BY <1>8 DEF OrderInv, Unwritten
  <2>4. RiskInv(Here)
    BY <1>3, <1>4, <1>8, RoomAssumption DEF RiskInv, Unwritten
  <2> QED BY <2>1, <2>2, <2>3, <2>4 DEF TableInv
<1>10. ASSUME NEW u \in Users PROVE PlayerInv(Here, u) /\ CommittingInv(Here, u)
  BY <1>4 DEF PlayerInv, AckedOn, WaitOn, CommittingInv
<1>11. ShownInv(Here) /\ room.round <= opened
  BY <1>1, <1>2 DEF ShownInv
<1> QED BY <1>5, <1>6, <1>7, <1>9, <1>10, <1>11 DEF RoomInv

LEMMA FinishedKeeps ==
  ASSUME RoomInv, NEW u \in Users, Finished(u), client[u].pc # "committing"
  PROVE  RoomInv'
BY IdleKeeps DEF Finished, SetClient

(* What one step does: it keeps the invariant, and changes wagers in their window. *)
InWindow ==
  room'.round = room.round /\ room'.bets # room.bets =>
    life' # life \/ (db.round >= room.round /\ room.round \notin shown)

LEMMA PlaceBetKeeps ==
  ASSUME RoomInv, NEW u \in Users, PlaceBet(u) \/ Spend(u)
  PROVE  RoomInv' /\ InWindow
<1>1. CASE BetAccept(u)
  BY <1>1, BetAcceptKeeps DEF InWindow
<1>2. CASE BetRequest(u)
  BY <1>2, BetRequestKeeps DEF InWindow, BetRequest, core
<1>3. CASE BetDurable(u)
  BY <1>3, BetDurableKeeps DEF InWindow, BetDurable, core
<1>4. CASE BetTimeout(u)
  BY <1>4, FinishedKeeps DEF InWindow, BetTimeout, Finished, core
<1>5. CASE BetRefused(u)
  BY <1>5, FinishedKeeps DEF InWindow, BetRefused, Finished, core
<1>6. CASE BetReserve(u)
  BY <1>6, BetReserveKeeps DEF InWindow, BetReserve
<1>7. CASE BetLost(u)
  BY <1>7, BetLostKeeps DEF InWindow, BetLost, core
<1>8. CASE BetAck(u)
  BY <1>8, BetAckKeeps DEF InWindow, BetAck, core
<1>9. CASE Spend(u)
  BY <1>9, SpendKeeps DEF InWindow, Spend, core
<1> QED BY <1>1, <1>2, <1>3, <1>4, <1>5, <1>6, <1>7, <1>8, <1>9 DEF PlaceBet

LEMMA RoomStep == RoomInv /\ [Next]_vars => RoomInv' /\ (InWindow \/ UNCHANGED vars)
<1> SUFFICES ASSUME RoomInv, [Next]_vars PROVE RoomInv' /\ (InWindow \/ UNCHANGED vars)
  OBVIOUS
<1>1. CASE DealerPass
  BY <1>1, DealerPassKeeps DEF InWindow
<1>2. CASE Poll
  BY <1>2, PollKeeps DEF InWindow
<1>3. CASE \E u \in Users : PlaceBet(u) \/ Spend(u)
  BY <1>3, PlaceBetKeeps
<1>4. CASE PersistOk
  BY <1>4, PersistOkKeeps DEF InWindow, PersistOk
<1>5. CASE PersistLostAck
  BY <1>5, PersistLostAckKeeps DEF InWindow, PersistLostAck, core
<1>6. now \in 0 .. MaxTime /\ MaxTime \in Nat
  BY RoomAssumption DEF RoomInv, RoomTypes
<1>7. CASE PersistError
  BY <1>6, <1>7, IdleStepKeeps DEF InWindow, PersistError, core, fixed
<1>8. CASE Restart
  <2>1. life' # life
    BY <1>8 DEF Restart, RoomInv, RoomTypes
  <2> QED BY <2>1, <1>8, RestartKeeps DEF InWindow
<1>9. CASE TimePasses
  BY <1>6, <1>9, IdleStepKeeps DEF InWindow, TimePasses, core
<1>10. CASE UNCHANGED vars
  BY <1>6, <1>10, IdleStepKeeps DEF vars, fixed
<1> QED BY <1>1, <1>2, <1>3, <1>4, <1>5, <1>7, <1>8, <1>9, <1>10 DEF Next

(* The chain from storage through the writer to memory, the reservations   *)
(* over it, the receipts and every request in flight stay consistent       *)
(* through interleaved dealing, betting, debits, lost acknowledgements and *)
(* restarts.                                                               *)
THEOREM RoomInvariant == Spec => []RoomInv
<1>1. Init => RoomInv
  BY InitRoom
<1>2. RoomInv /\ [Next]_vars => RoomInv'
  BY RoomStep
<1> QED BY <1>1, <1>2, PTL DEF Spec

(* Revisions have no gap: memory is ahead of the acknowledged revision by  *)
(* exactly the queue, storage by at most the snapshot whose answer was     *)
(* lost, and no balance or reservation is negative.                        *)
THEOREM RoomTypeOK == Spec => []TypeOK
<1>1. RoomInv => TypeOK
  <2> SUFFICES ASSUME RoomInv PROVE TypeOK
    OBVIOUS
  <2>1. TableInv(Here) /\ Here.room = room /\ Here.queue = queue /\ Here.reserved = reserved
    BY DEF RoomInv, Here
  <2>2. queue \in Seq(Snapshots) /\ reserved \in Holds
    BY <2>1, TableTypes DEF TableInv
  <2>3. DOMAIN queue = 1 .. Len(queue)
    BY <2>2
  <2>4. db.revision \in {saved, saved + 1}
    BY <2>1, RoomFacts DEF RoomInv, RoomTypes
  <2>5. /\ room.revision = saved + Len(queue)
        /\ \A i \in 1 .. Len(queue) : queue[i].state.revision = saved + i
    BY <2>1 DEF TableInv, ChainInv
  <2> QED BY <2>2, <2>3, <2>4, <2>5 DEF TypeOK, RoomInv, RoomTypes, Holds
<1> QED BY <1>1, RoomInvariant, PTL

(* persist_round pays a bettor at most once per round, however often the   *)
(* writer retries a commit whose answer was lost.                          *)
THEOREM RoomPaysOnce == Spec => []PaidOnce
<1>1. RoomInv => PaidOnce
  BY DEF RoomInv, LedgerInv, PaidOnce
<1> QED BY <1>1, RoomInvariant, PTL

(* A wager place_bet acknowledged is in storage on its open round or has   *)
(* its receipt, through any later queueing, failed write and restart.      *)
THEOREM RoomKeepsWagers == Spec => []AckedWagerSurvives
<1>1. RoomInv => AckedWagerSurvives
  BY DEF RoomInv, PlayerInv, AckedOn, Stored, AckedWagerSurvives, Settled
<1> QED BY <1>1, RoomInvariant, PTL

(* place_bet and the dealer change a wager only on a round whose seed      *)
(* storage holds and whose dice this process has not shown.                *)
THEOREM RoomWindow == Spec => WagersInWindow
<1>1. RoomInv /\ [Next]_vars => (InWindow \/ UNCHANGED vars)
  BY RoomStep
<1> QED BY <1>1, RoomInvariant, PTL DEF Spec, WagersInWindow, InWindow

LEMMA MaxBelow ==
  ASSUME NEW b \in Nat, NEW S \in SUBSET (0 .. b), S # {}
  PROVE  Max(S) \in 0 .. b
<1> DEFINE T == {b - x : x \in S}
<1> DEFINE R == OpToRel(<, Nat)
<1>1. T \subseteq Nat /\ T # {}
  OBVIOUS
<1>2. \E x \in T : \A y \in T : ~(<<y, x>> \in R)
  <2> HIDE DEF T, R
  <2>1. IsWellFoundedOn(R, Nat)
    BY NatLessThanWellFounded DEF R
  <2> QED BY <1>1, <2>1, WFMin
<1>3. PICK x \in T : \A y \in T : ~(<<y, x>> \in R)
  BY <1>2
<1>4. ASSUME NEW y \in T PROVE ~(y < x)
  BY <1>1, <1>3 DEF OpToRel
<1>5. PICK m \in S : x = b - m
  BY <1>3
<1>6. ASSUME NEW n \in S PROVE m >= n
  <2>1. b - n \in T
    OBVIOUS
  <2>2. n \in Int /\ m \in Int /\ x = b - m
    BY <1>5
  <2>3. ~(b - n < x)
    BY <2>1, <1>4
  <2> QED BY <2>2, <2>3
<1>7. Max(S) \in S
  BY <1>6 DEF Max
<1> QED BY <1>7

(* The debits other games make while a round is in flight never reach into *)
(* a stake the room may still collect: no settlement can overdraw a wallet *)
(* and wedge the writer.                                                   *)
THEOREM RoomStakesCovered == Spec => []StakesCovered
<1>1. RoomInv => StakesCovered
  <2> SUFFICES ASSUME RoomInv, NEW u \in Users PROVE wallet[u] >= Liability(u)
    BY DEF StakesCovered
  <2>1. TableInv(Here) /\ Here.room = room /\ Here.queue = queue
    BY DEF RoomInv, Here
  <2>2. /\ room \in States /\ queue \in Seq(Snapshots) /\ Len(queue) \in Nat
        /\ \A i \in 1 .. Len(queue) : queue[i].state \in States
    BY <2>1, TableTypes DEF TableInv
  <2>3. db \in States /\ saved \in Nat /\ wallet[u] \in Nat
    BY DEF RoomInv, RoomTypes
  <2>4. OpenStake(db, u) \in 0 .. wallet[u]
    <3>1. OpenStake(db, u) \in Nat
      BY <2>3, StakeTypes
    <3> QED BY <3>1, <2>1, <2>3 DEF TableInv, RiskInv
  <2>5. OpenStake(room, u) \in 0 .. wallet[u]
    <3>1. OpenStake(room, u) \in Nat /\ room.bets[u].stake \in Nat /\ OpenStake(room, u) <= room.bets[u].stake
      BY <2>2, StakeTypes
    <3>2. \/ db = room
          \/ Len(queue) \in Unwritten(queue) /\ queue[Len(queue)].state = room
      BY <2>1, <2>3, RoomFacts
    <3>3. OpenStake(room, u) <= wallet[u]
      <4>1. CASE db = room
        BY <4>1, <2>1 DEF TableInv, RiskInv
      <4>2. CASE Len(queue) \in Unwritten(queue) /\ queue[Len(queue)].state = room
        <5>1. room.bets[u].stake <= wallet[u]
          BY <4>2, <2>1 DEF TableInv, RiskInv
        <5> QED BY <5>1, <3>1, <2>3
      <4> QED BY <4>1, <4>2, <3>2
    <3> QED BY <3>1, <3>3, <2>3
  <2> DEFINE owing == {j \in DOMAIN queue : queue[j].settles /\ u \in Bettors(queue[j].state)}
  <2> DEFINE at(i) == IF Written(queue[i]) \/ Payout(queue[i].state, u) >= 0 THEN 0
                      ELSE queue[i].state.bets[u].stake
  <2>6. ASSUME NEW i \in owing PROVE at(i) \in 0 .. wallet[u]
    <3>1. i \in 1 .. Len(queue) /\ queue[i].state \in States
      BY <2>2
    <3>2. CASE Written(queue[i]) \/ Payout(queue[i].state, u) >= 0
      BY <3>2, <2>3
    <3>3. CASE ~(Written(queue[i]) \/ Payout(queue[i].state, u) >= 0)
      <4>1. queue[i].state.bets[u].stake \in Nat
        BY <3>1, StakeTypes
      <4>2. queue[i].state.revision \in Nat /\ db.revision \in Nat
        BY <3>1, <2>3 DEF States
      <4>3. i \in Unwritten(queue)
        BY <4>2, <3>1, <3>3 DEF Unwritten, Written
      <4>4. queue[i].state.bets[u].stake <= wallet[u]
        BY <4>3, <2>1 DEF TableInv, RiskInv
      <4>5. at(i) = queue[i].state.bets[u].stake
        BY <3>3
      <4> HIDE DEF at
      <4> QED BY <4>1, <4>4, <4>5, <2>3
    <3> QED BY <3>2, <3>3
  <2>7. Liability(u) = Max({OpenStake(db, u), OpenStake(room, u)} \cup {at(i) : i \in owing})
    BY DEF Liability
  <2> HIDE DEF owing, at
  <2>8. PICK S : S = {OpenStake(db, u), OpenStake(room, u)} \cup {at(i) : i \in owing}
    OBVIOUS
  <2>9. S \in SUBSET (0 .. wallet[u]) /\ S # {}
    BY <2>4, <2>5, <2>6, <2>8
  <2>10. Max(S) <= wallet[u] /\ Max(S) \in Int
    <3>1. Max(S) \in 0 .. wallet[u]
      BY <2>3, <2>9, MaxBelow
    <3> QED BY <3>1, <2>3
  <2> QED BY <2>3, <2>7, <2>8, <2>10
<1> QED BY <1>1, RoomInvariant, PTL
=============================================================================
