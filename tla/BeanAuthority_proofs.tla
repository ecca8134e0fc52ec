------------------------ MODULE BeanAuthority_proofs ------------------------
(***************************************************************************)
(* Proofs about BeanAuthority for every number of users, writers, hands    *)
(* and effects: a readable wallet is current, and what is at risk stays    *)
(* covered as long as no refund is made.                                   *)
(***************************************************************************)
EXTENDS BeanAuthority, SumFacts

(* The accepted records a user's row does not contain. *)
Uncounted(u) == {r \in Overlay(u) : ~Committed(r)}

(* What a balance in memory stands for. *)
Shown(v) == IF v = NoRow THEN Grant ELSE v

OpenFor(m, u) == job[m].tx = "open" /\ job[m].user = u
Touches(m, u) == job[m].user = u /\ (job[m].guard \/ job[m].tx = "open")

(* A served wallet has no writer but the first grant's. *)
FenceInv ==
  \A u \in Users : Readable(u) =>
    \A m \in Mutators : Touches(m, u) => job[m].kind = "grant"

(* The row lock, and what an open transaction will leave. *)
TxInv ==
  /\ \A m \in Mutators :
       /\ job[m].guard \/ job[m].tx = "open" => job[m].user \in Users /\ job[m].kind # "idle"
       /\ job[m].tx = "open" => job[m].after \in Nat
       /\ job[m].tx = "open" /\ job[m].kind = "grant" => job[m].after = Row(job[m].user)
  /\ \A m, n \in Mutators : \A u \in Users : OpenFor(m, u) /\ OpenFor(n, u) => m = n
  /\ \A u \in dayUsed : sql[u] # NoRow

(* A daily claim that may still publish is the only writer of its user, has
   no accepted record beside it, and its row is the one it wrote or read. *)
DailyInv ==
  \A m \in Mutators : job[m].current =>
    /\ job[m].guard /\ job[m].kind = "daily"
    /\ Overlay(job[m].user) = {}
    /\ \A n \in Mutators : n # m /\ Touches(n, job[m].user) =>
         ~job[n].guard /\ job[n].kind = "grant"
    /\ job[m].tx \in {"done", "ended"} =>
         job[m].after = sql[job[m].user] /\ sql[job[m].user] # NoRow

(* A load that may still install: no guard was taken since it began, what it
   waits for is all that was open, and what it read is what is owed. *)
LoadInv ==
  /\ load.phase # "idle" => load.users = Users \/ ready
  /\ load.phase = "read" => load.value \in [load.users -> Int \cup {NoRow}]
  /\ load.current => \A u \in load.users :
       /\ Active(u) = {}
       /\ load.phase = "sampled" => \A m \in Mutators : OpenFor(m, u) => m \in load.waits
       /\ load.phase = "read" => /\ \A m \in Mutators : ~OpenFor(m, u)
                                 /\ Shown(load.value[u]) = Owed(u)

Undecided(h) == hold[h] # Nothing /\ accepted[h] = Nothing

(* A dealt hand has no receipt before its result is accepted; an effect is
   one user's. *)
RecordInv ==
  /\ \A h \in Hands : Undecided(h) => ~Committed(h)
  /\ \A e \in Effects : \A u, v \in DOMAIN accepted[e] : u = v

(* The table plays one hand at a time, and a seat that is still taken holds at
   least the stack it was dealt in with. *)
SeatInv ==
  /\ \A g, h \in Hands : Undecided(g) /\ Undecided(h) => g = h
  /\ \A h \in Hands, u \in Users :
       Undecided(h) /\ u \in DOMAIN hold[h] /\ seat[u] > 0 => seat[u] >= hold[h][u]

BeanInv ==
  /\ TypeOK /\ FenceInv /\ TxInv /\ DailyInv /\ LoadInv /\ RecordInv /\ SeatInv
  /\ PublishedIsCurrent

(* An amount that covers the user's seat and the hand being played. *)
Covers(n, u) ==
  /\ n >= seat[u]
  /\ \A h \in Hands : Undecided(h) /\ u \in DOMAIN hold[h] => n >= hold[h][u]

CoverInv ==
  \A u \in Users :
       /\ Covers(Owed(u) + revoked[u], u)
       /\ \A m \in Mutators : OpenFor(m, u) =>
            Covers(job[m].after - Row(u) + Owed(u) + revoked[u], u)

-----------------------------------------------------------------------------
(* What is owed.                                                           *)

LEMMA RecordsFinite == IsFiniteSet(Records)
BY BeanAssumption, FS_Union DEF Records

LEMMA OwedFacts ==
  ASSUME TypeOK, NEW u \in Users
  PROVE  /\ Delta(u) \in [Records -> Int]
         /\ Uncounted(u) \in SUBSET Records /\ IsFiniteSet(Uncounted(u))
         /\ Row(u) \in Nat
         /\ Owed(u) \in Int
         /\ Owed(u) = Row(u) + SumFunctionOnSet(Delta(u), Uncounted(u))
<1>1. Delta(u) \in [Records -> Int]
  BY DEF TypeOK, Delta, IsAmounts
<1>2. Uncounted(u) \in SUBSET Records /\ IsFiniteSet(Uncounted(u))
  BY RecordsFinite, FS_Subset DEF Uncounted, Overlay
<1>3. Row(u) \in Nat
  BY BeanAssumption DEF TypeOK, Row
<1>4. SumFunctionOnSet(Delta(u), Uncounted(u)) \in Int
  BY <1>1, <1>2, SumType
<1>5. Owed(u) = Row(u) + SumFunctionOnSet(Delta(u), Uncounted(u))
  BY DEF Owed, Net, Uncounted
<1> QED BY <1>1, <1>2, <1>3, <1>4, <1>5

\* Steps that change neither the row nor the records leave the sum alone.
LEMMA OwedKept ==
  ASSUME TypeOK, TypeOK', NEW u \in Users, Row(u)' = Row(u),
         Uncounted(u)' = Uncounted(u),
         \A r \in Uncounted(u) : Delta(u)'[r] = Delta(u)[r]
  PROVE  Owed(u)' = Owed(u)
<1>1. IsFiniteSet(Uncounted(u))
  BY OwedFacts
<1>2. SumFunctionOnSet(Delta(u), Uncounted(u)) = SumFunctionOnSet(Delta(u)', Uncounted(u))
  BY <1>1, SumSame
<1>3. Owed(u) = Row(u) + SumFunctionOnSet(Delta(u), Uncounted(u))
  BY OwedFacts
<1>4. Owed(u)' = Row(u)' + SumFunctionOnSet(Delta(u)', Uncounted(u)')
  BY DEF Owed, Net, Uncounted
<1> QED BY <1>2, <1>3, <1>4

LEMMA OwedFrame ==
  ASSUME UNCHANGED <<sql, ledger, accepted>>, NEW u
  PROVE  /\ Owed(u)' = Owed(u) /\ Row(u)' = Row(u) /\ Overlay(u)' = Overlay(u)
         /\ Uncounted(u)' = Uncounted(u)
BY DEF Owed, Row, Overlay, Net, Delta, Committed, Uncounted

\* A record is accepted: what is owed moves by the user's part of it.
LEMMA OwedAccepts ==
  ASSUME TypeOK, NEW u \in Users, NEW r \in Records, NEW d,
         u \in DOMAIN d, d[u] \in Int, accepted[r] = Nothing, ~Committed(r),
         accepted' = [accepted EXCEPT ![r] = d], UNCHANGED <<sql, ledger>>
  PROVE  Owed(u)' = Owed(u) + d[u] /\ Row(u)' = Row(u)
<1> DEFINE f == Delta(u)
           S == Uncounted(u)
<1>1. r \notin S
  BY DEF Uncounted, Overlay, Nothing
<1>2. Uncounted(u)' = S \cup {r}
  BY DEF TypeOK, Uncounted, Overlay, Committed
<1>3. Delta(u)' = [f EXCEPT ![r] = d[u]]
  BY DEF TypeOK, Delta
<1>4. /\ f \in [Records -> Int] /\ S \in SUBSET Records /\ IsFiniteSet(S)
      /\ Row(u) \in Nat /\ Owed(u) = Row(u) + SumFunctionOnSet(f, S)
  BY OwedFacts
<1>5. Row(u)' = Row(u)
  BY DEF Row
<1> HIDE DEF f, S
<1> DEFINE g == [f EXCEPT ![r] = d[u]]
<1>6. SumFunctionOnSet(g, S \cup {r}) = g[r] + SumFunctionOnSet(g, S)
  <2>1. \A x \in S \cup {r} : g[x] \in Int
    BY <1>4
  <2> QED BY <2>1, <1>1, <1>4, SumAdd
<1>7. SumFunctionOnSet(f, S) = SumFunctionOnSet(g, S)
  <2>1. \A x \in S : f[x] = g[x]
    BY <1>1, <1>4
  <2> HIDE DEF g
  <2> QED BY <2>1, <1>4, SumSame
<1>8. SumFunctionOnSet(f, S) \in Int
  BY <1>4, SumType
<1>9. Owed(u)' = Row(u)' + SumFunctionOnSet(Delta(u)', Uncounted(u)')
  BY DEF Owed, Net, Uncounted
<1>10. g[r] = d[u]
  BY <1>4
<1> HIDE DEF g
<1>11. Delta(u)' = g
  BY <1>3 DEF g
<1> QED BY <1>2, <1>4, <1>5, <1>6, <1>7, <1>8, <1>9, <1>10, <1>11

\* A record leaves the ones the row lacks: the rest is owed.
LEMMA OwedWithout ==
  ASSUME TypeOK, NEW u \in Users, NEW r \in Uncounted(u),
         Uncounted(u)' = Uncounted(u) \ {r},
         \A x \in Uncounted(u) \ {r} : Delta(u)'[x] = Delta(u)[x]
  PROVE  Owed(u)' = Row(u)' + (Owed(u) - Row(u) - accepted[r][u])
<1> DEFINE f == Delta(u)
           S == Uncounted(u)
<1>1. /\ f \in [Records -> Int] /\ S \in SUBSET Records /\ IsFiniteSet(S)
      /\ Row(u) \in Nat /\ Owed(u) = Row(u) + SumFunctionOnSet(f, S)
  BY OwedFacts
<1>2. f[r] = accepted[r][u] /\ f[r] \in Int
  BY <1>1 DEF Delta, Uncounted, Overlay
<1>3. SumFunctionOnSet(f, S) = f[r] + SumFunctionOnSet(f, S \ {r})
  <2>1. \A x \in S : f[x] \in Int
    BY <1>1
  <2> HIDE DEF f, S
  <2> QED BY <2>1, <1>1, SumRemove DEF S
<1>4. IsFiniteSet(S \ {r})
  BY <1>1, FS_RemoveElement
<1>5. SumFunctionOnSet(f, S \ {r}) = SumFunctionOnSet(Delta(u)', S \ {r})
  BY <1>4, SumSame
<1>6. SumFunctionOnSet(f, S \ {r}) \in Int
  <2>1. \A x \in S \ {r} : f[x] \in Int
    BY <1>1
  <2> QED BY <2>1, <1>4, SumType
<1>7. Owed(u)' = Row(u)' + SumFunctionOnSet(Delta(u)', Uncounted(u)')
  BY DEF Owed, Net, Uncounted
<1>8. Owed(u)' = Row(u)' + SumFunctionOnSet(f, S \ {r})
  BY <1>5, <1>7
<1>9. SumFunctionOnSet(f, S \ {r}) = Owed(u) - Row(u) - accepted[r][u]
  <2> HIDE DEF f, S
  <2> QED BY <1>1, <1>2, <1>3, <1>6
<1> QED BY <1>8, <1>9

\* With no record of the user's outstanding, the row is what is owed.
LEMMA OwedAlone ==
  ASSUME NEW u \in Users, TypeOK, Overlay(u) = {}
  PROVE  Owed(u) = Row(u)
<1>1. Uncounted(u) = {}
  BY DEF Uncounted
<1>2. SumFunctionOnSet(Delta(u), {}) = 0
  BY SumEmpty
<1> QED BY <1>1, <1>2, OwedFacts

\* The accepted losses bound what the outstanding records can take.
LEMMA LossesBound ==
  ASSUME TypeOK, NEW u \in Users
  PROVE  Losses(u) \in Nat /\ Owed(u) >= Row(u) - Losses(u)
<1> DEFINE f == Delta(u)
           S == Uncounted(u)
           l == [r \in Records |-> Max({0, -f[r]})]
           k == [r \in Records |-> f[r] + l[r]]
<1>1. /\ f \in [Records -> Int] /\ S \in SUBSET Records /\ IsFiniteSet(S)
      /\ Row(u) \in Nat /\ Owed(u) = Row(u) + SumFunctionOnSet(f, S)
  BY OwedFacts
<1>2. Losses(u) = SumFunctionOnSet(l, Overlay(u))
  BY DEF Losses
<1>3. S \subseteq Overlay(u) /\ IsFiniteSet(Overlay(u)) /\ Overlay(u) \subseteq Records
  BY RecordsFinite, FS_Subset DEF Uncounted, Overlay
<1> HIDE DEF f, S
<1>4. \A r \in Records : l[r] \in Nat /\ l[r] >= -f[r]
  <2> TAKE r \in Records
  <2>1. f[r] \in Int
    BY <1>1
  <2>2. Max({0, -f[r]}) = IF 0 >= -f[r] THEN 0 ELSE -f[r]
    BY <2>1, MaxOfTwo
  <2> QED BY <2>1, <2>2
<1> HIDE DEF l
<1>5. SumFunctionOnSet(l, Overlay(u)) \in Nat /\ SumFunctionOnSet(l, S) <= SumFunctionOnSet(l, Overlay(u))
  <2>1. \A r \in Overlay(u) : l[r] \in Nat
    BY <1>3, <1>4
  <2> QED BY <2>1, <1>3, SumOfNaturals
<1> DEFINE n == [r \in S |-> -f[r]]
<1>6. SumFunctionOnSet(n, S) <= SumFunctionOnSet(l, S)
  <2>1. \A r \in S : n[r] \in Int /\ l[r] \in Int /\ n[r] <= l[r]
    BY <1>1, <1>4
  <2> HIDE DEF n
  <2> QED BY <2>1, <1>1, SumMonotone
<1>7. SumFunctionOnSet(n, S) = 0 - SumFunctionOnSet(f, S)
  <2>1. \A r \in S : f[r] \in Int /\ n[r] = 0 - f[r]
    BY <1>1
  <2> HIDE DEF n
  <2> QED BY <2>1, <1>1, SumNegate
<1>8. SumFunctionOnSet(f, S) \in Int /\ SumFunctionOnSet(l, S) \in Nat
  <2>1. \A r \in S : f[r] \in Int /\ l[r] \in Nat
    BY <1>1, <1>4
  <2> QED BY <2>1, <1>1, SumType, SumOfNaturals
<1> HIDE DEF n
<1> QED BY <1>1, <1>2, <1>5, <1>6, <1>7, <1>8
-----------------------------------------------------------------------------
(* A bump of the users' generation changes nothing but what is current.    *)

LEMMA BumpFacts ==
  ASSUME TypeOK, NEW us
  PROVE  /\ BumpedJobs(us) \in [Mutators -> Jobs]
         /\ \A m \in Mutators :
              /\ BumpedJobs(us)[m].kind = job[m].kind
              /\ BumpedJobs(us)[m].user = job[m].user
              /\ BumpedJobs(us)[m].guard = job[m].guard
              /\ BumpedJobs(us)[m].tx = job[m].tx
              /\ BumpedJobs(us)[m].after = job[m].after
              /\ BumpedJobs(us)[m].current => job[m].current /\ job[m].user \notin us
         /\ BumpedLoad(us) \in Loads(load.value)
         /\ BumpedLoad(us).kind = load.kind /\ BumpedLoad(us).phase = load.phase
         /\ BumpedLoad(us).users = load.users /\ BumpedLoad(us).waits = load.waits
         /\ BumpedLoad(us).value = load.value
         /\ BumpedLoad(us).current => load.current /\ load.users \cap us = {}
<1>1. ASSUME NEW m \in Mutators
      PROVE  /\ BumpedJobs(us)[m] \in Jobs
             /\ BumpedJobs(us)[m].kind = job[m].kind
             /\ BumpedJobs(us)[m].user = job[m].user
             /\ BumpedJobs(us)[m].guard = job[m].guard
             /\ BumpedJobs(us)[m].tx = job[m].tx
             /\ BumpedJobs(us)[m].after = job[m].after
             /\ BumpedJobs(us)[m].current => job[m].current /\ job[m].user \notin us
  BY DEF BumpedJobs, Stale, TypeOK, Jobs
<1>2. BumpedJobs(us) \in [Mutators -> Jobs]
  BY <1>1 DEF BumpedJobs
<1>3. /\ BumpedLoad(us) \in Loads(load.value)
      /\ BumpedLoad(us).kind = load.kind /\ BumpedLoad(us).phase = load.phase
      /\ BumpedLoad(us).users = load.users /\ BumpedLoad(us).waits = load.waits
      /\ BumpedLoad(us).value = load.value
      /\ BumpedLoad(us).current => load.current /\ load.users \cap us = {}
  BY DEF BumpedLoad, TypeOK, Loads
<1> QED BY <1>1, <1>2, <1>3

(* Steps that keep every guard and every transaction. *)
SameJob(m) ==
  /\ job'[m].kind = job[m].kind /\ job'[m].user = job[m].user
  /\ job'[m].guard = job[m].guard /\ job'[m].tx = job[m].tx
  /\ job'[m].after = job[m].after
  /\ job'[m].current => job[m].current
SameJobs == \A m \in Mutators : SameJob(m)
SameLoad ==
  /\ load'.phase = load.phase /\ load'.users = load.users
  /\ load'.waits = load.waits /\ load'.value = load.value
  /\ load'.current => load.current

LEMMA BumpSame ==
  ASSUME TypeOK, NEW us, job' = BumpedJobs(us), load' = BumpedLoad(us)
  PROVE  /\ SameJobs /\ SameLoad
         /\ job' \in [Mutators -> Jobs] /\ load' \in Loads(load'.value)
         /\ \A m \in Mutators : job'[m].current => job[m].user \notin us
         /\ load'.current => load.users \cap us = {}
BY BumpFacts DEF SameJobs, SameJob, SameLoad

LEMMA FenceKept ==
  ASSUME FenceInv, SameJobs, \A u \in Users : Readable(u)' => Readable(u)
  PROVE  FenceInv'
BY DEF FenceInv, SameJobs, SameJob, Touches

LEMMA TxKept ==
  ASSUME TxInv, SameJobs, UNCHANGED <<sql, dayUsed>>
  PROVE  TxInv'
<1>1. \A u : Row(u)' = Row(u)
  BY DEF Row
<1> QED BY <1>1 DEF TxInv, SameJobs, SameJob, OpenFor

LEMMA DailyKept ==
  ASSUME DailyInv, SameJobs, UNCHANGED sql,
         \A m \in Mutators : job'[m].current =>
           Overlay(job[m].user)' = Overlay(job[m].user)
  PROVE  DailyInv'
<1>1. ASSUME NEW m \in Mutators, job'[m].current
      PROVE  /\ job'[m].guard /\ job'[m].kind = "daily"
             /\ Overlay(job[m].user)' = {}
             /\ \A n \in Mutators : n # m /\ Touches(n, job[m].user)' =>
                  ~job'[n].guard /\ job'[n].kind = "grant"
             /\ job'[m].tx \in {"done", "ended"} =>
                  job'[m].after = sql'[job'[m].user] /\ sql'[job'[m].user] # NoRow
  <2>1. job[m].current /\ job'[m].user = job[m].user
    BY <1>1 DEF SameJobs, SameJob
  <2>2. \A n \in Mutators : Touches(n, job[m].user)' => Touches(n, job[m].user)
    BY <2>1 DEF SameJobs, SameJob, Touches
  <2> QED BY <1>1, <2>1, <2>2 DEF DailyInv, SameJobs, SameJob
<1> QED BY <1>1 DEF DailyInv

LEMMA LoadKept ==
  ASSUME LoadInv, SameJobs, SameLoad, ready => ready',
         load'.current => \A u \in load.users : Owed(u)' = Owed(u)
  PROVE  LoadInv'
<1>1. \A u : Active(u)' = Active(u)
  BY DEF Active, SameJobs, SameJob
<1>2. \A u : \A m \in Mutators : OpenFor(m, u)' = OpenFor(m, u)
  BY DEF OpenFor, SameJobs, SameJob
<1>3. (load.phase # "idle" => load.users = Users \/ ready)'
  BY DEF LoadInv, SameLoad
<1>4. (load.phase = "read" => load.value \in [load.users -> Int \cup {NoRow}])'
  BY DEF LoadInv, SameLoad
<1>5. ASSUME load'.current, NEW u \in load'.users
      PROVE  /\ Active(u)' = {}
             /\ load'.phase = "sampled" => \A m \in Mutators : OpenFor(m, u)' => m \in load'.waits
             /\ load'.phase = "read" => /\ \A m \in Mutators : ~OpenFor(m, u)'
                                        /\ Shown(load'.value[u]) = Owed(u)'
  BY <1>1, <1>2, <1>5 DEF LoadInv, SameLoad
<1>6. ASSUME NEW u PROVE Shown(load'.value[u]) = Shown(load.value[u])'
  BY DEF Shown
<1> QED BY <1>3, <1>4, <1>5, <1>6 DEF LoadInv

LEMMA RecordsKept ==
  ASSUME RecordInv, UNCHANGED <<hold, ledger, accepted>>
  PROVE  RecordInv'
BY DEF RecordInv, Undecided, Committed

LEMMA SeatsKept ==
  ASSUME SeatInv, UNCHANGED seat,
         \A h \in Hands : Undecided(h)' => Undecided(h) /\ hold'[h] = hold[h]
  PROVE  SeatInv'
BY DEF SeatInv

LEMMA SeatsFrame ==
  ASSUME SeatInv, UNCHANGED <<seat, hold, accepted>>
  PROVE  SeatInv'
BY SeatsKept DEF Undecided

LEMMA PublishedKept ==
  ASSUME PublishedIsCurrent,
         \A u \in Users : Readable(u)' =>
           Readable(u) /\ wallet'[u] = wallet[u] /\ Owed(u)' = Owed(u)
  PROVE  PublishedIsCurrent'
BY DEF PublishedIsCurrent

\* What only the tables change: seats and holds.
LEMMA TablesOnly ==
  ASSUME BeanInv, UNCHANGED <<sql, dayUsed, ledger, ready, wallet, avail, accepted, job, load>>
  PROVE  FenceInv' /\ TxInv' /\ DailyInv' /\ LoadInv' /\ PublishedIsCurrent'
<1> USE DEF BeanInv
<1>1. SameJobs /\ SameLoad
  BY DEF SameJobs, SameJob, SameLoad
<1>2. \A u : /\ Owed(u)' = Owed(u) /\ Overlay(u)' = Overlay(u)
             /\ Readable(u)' = Readable(u)
  BY OwedFrame DEF Readable
<1> QED BY <1>1, <1>2, FenceKept, TxKept, DailyKept, LoadKept, PublishedKept

LEMMA SeatSteps ==
  ASSUME BeanInv, NEW u \in Users, NEW n \in Nat,
         \/ TakeSeat(u, n) \/ TopUp(u, n) \/ LeaveSeat(u)
  PROVE  BeanInv'
<1> USE DEF BeanInv
<1>1. UNCHANGED <<sql, dayUsed, ledger, ready, wallet, avail, pending, accepted,
                  grants, hold, job, load, faults, revoked>>
  BY DEF TakeSeat, TopUp, LeaveSeat, database, memory
<1>2. TypeOK'
  <2>1. seat' = [seat EXCEPT ![u] = n] \/ seat' = [seat EXCEPT ![u] = 0]
    BY Zenon DEF TakeSeat, TopUp, LeaveSeat
  <2>2. seat' \in [Users -> Nat]
    BY <2>1 DEF TypeOK
  <2> QED BY <1>1, <2>2 DEF TypeOK
<1>3. RecordInv'
  BY <1>1, RecordsKept
<1>4. SeatInv'
  <2>1. \A h : Undecided(h)' = Undecided(h)
    BY <1>1 DEF Undecided
  <2>2. \A v \in Users : v # u => seat'[v] = seat[v]
    BY DEF TypeOK, TakeSeat, TopUp, LeaveSeat
  <2>3. CASE TakeSeat(u, n)
    <3>1. \A h \in Hands : ~(Undecided(h) /\ u \in DOMAIN hold[h])
      BY <2>3 DEF TakeSeat, Open, Undecided
    <3> QED BY <1>1, <2>1, <2>2, <3>1 DEF SeatInv
  <2>4. CASE TopUp(u, n)
    <3>1. seat'[u] = n /\ seat[u] > 0 /\ seat[u] < n /\ seat[u] \in Nat
      BY <2>4 DEF TopUp, TypeOK
    <3>2. \A h \in Hands : u \in DOMAIN hold[h] => hold[h][u] \in Nat
      BY DEF TypeOK, IsAmounts
    <3> QED BY <1>1, <2>1, <2>2, <3>1, <3>2 DEF SeatInv
  <2>5. CASE LeaveSeat(u)
    <3>1. seat'[u] = 0
      BY <2>5 DEF LeaveSeat, TypeOK
    <3> QED BY <1>1, <2>1, <2>2, <3>1 DEF SeatInv
  <2> QED BY <2>3, <2>4, <2>5
<1> QED BY <1>1, <1>2, <1>3, <1>4, TablesOnly

LEMMA DealStep ==
  ASSUME BeanInv, NEW h \in Hands, NEW S \in SUBSET Users, Deal(h, S)
  PROVE  BeanInv'
<1> USE DEF BeanInv
<1>1. UNCHANGED <<sql, dayUsed, ledger, ready, wallet, avail, pending, accepted,
                  grants, seat, job, load, faults, revoked>>
  BY DEF Deal, database, memory
<1>2. TypeOK'
  <2>1. \A u \in S : seat[u] \in Nat
    BY DEF TypeOK, Deal
  <2>2. /\ hold' = [g \in Hands |-> hold'[g]]
        /\ \A g \in Hands : IsAmounts(hold'[g], Nat)
    BY <2>1 DEF TypeOK, Deal, IsAmounts
  <2> QED BY <1>1, <2>2 DEF TypeOK
<1>3. RecordInv'
  <2>1. \A g \in Hands : g # h => hold'[g] = hold[g]
    BY DEF Deal, TypeOK
  <2>2. ~Committed(h) /\ UNCHANGED <<ledger, accepted>>
    BY <1>1 DEF Deal
  <2> QED BY <2>1, <2>2 DEF RecordInv, Undecided, Committed
<1>4. SeatInv'
  <2>1. /\ \A g \in Hands : Undecided(g)' => g = h
        /\ hold'[h] = [v \in S |-> seat[v]]
    BY <1>1 DEF Deal, TypeOK, Undecided
  <2>2. \A u \in S : hold'[h][u] = seat'[u] /\ seat'[u] \in Nat
    BY <1>1, <2>1 DEF TypeOK
  <2> QED BY <2>1, <2>2 DEF SeatInv
<1> QED BY <1>1, <1>2, <1>3, <1>4, TablesOnly

LEMMA AcceptGrantStep ==
  ASSUME BeanInv, NEW u \in Users, AcceptGrant(u)
  PROVE  BeanInv'
<1> USE DEF BeanInv
<1>0. UNCHANGED <<sql, dayUsed, ledger, ready, avail, pending, accepted, seat, hold,
                  faults, revoked>>
  BY DEF AcceptGrant, database, table
<1>1. /\ SameJobs /\ SameLoad
      /\ job' \in [Mutators -> Jobs] /\ load' \in Loads(load'.value)
  BY BumpSame DEF AcceptGrant
<1>2. TypeOK'
  <2>1. wallet' \in [Users -> Int \cup {NoRow}] /\ grants' \in SUBSET Users
    BY BeanAssumption DEF TypeOK, AcceptGrant
  <2> QED BY <1>0, <1>1, <2>1 DEF TypeOK
<1>3. \A v : /\ Owed(v)' = Owed(v) /\ Overlay(v)' = Overlay(v)
             /\ Readable(v)' = Readable(v)
  BY <1>0, OwedFrame DEF Readable
<1>4. RecordInv'
  BY <1>0, RecordsKept
<1>5. PublishedIsCurrent'
  BY <1>3, BeanAssumption DEF PublishedIsCurrent, AcceptGrant, TypeOK
<1>6. DailyInv'
  BY <1>0, <1>1, <1>3, DailyKept DEF SameJobs, SameJob
<1> QED BY <1>0, <1>1, <1>2, <1>3, <1>4, <1>5, <1>6, FenceKept, TxKept, LoadKept,
          SeatsFrame
-----------------------------------------------------------------------------
(* Accepted records.                                                       *)

\* A record that is not the user's does not change what is owed.
LEMMA OwedOthers ==
  ASSUME TypeOK, TypeOK', NEW v \in Users, NEW r \in Records, NEW d,
         v \notin DOMAIN accepted[r], v \notin DOMAIN d,
         accepted' = [accepted EXCEPT ![r] = d], UNCHANGED <<sql, ledger>>
  PROVE  Owed(v)' = Owed(v) /\ Overlay(v)' = Overlay(v)
<1>1. \A x \in Records : v \in DOMAIN accepted'[x] <=> v \in DOMAIN accepted[x]
  BY DEF TypeOK
<1>2. Overlay(v)' = Overlay(v)
  BY <1>1 DEF Overlay
<1>3. Uncounted(v)' = Uncounted(v) /\ Row(v)' = Row(v)
  BY <1>2 DEF Uncounted, Committed, Row
<1>4. \A x \in Overlay(v) : accepted'[x] = accepted[x]
  BY <1>1 DEF Overlay, TypeOK
<1>5. \A x \in Uncounted(v) : Delta(v)'[x] = Delta(v)[x]
  BY <1>4 DEF Uncounted, Overlay, Delta
<1> QED BY <1>2, <1>3, <1>5, OwedKept

\* Everything an acceptance changes at once: the wallets, the overlay and the
\* generations of the same users.
LEMMA AcceptedStep ==
  ASSUME BeanInv, NEW r \in Records, NEW d, d \in [DOMAIN d -> Int],
         DOMAIN d \subseteq Users,
         r \in Effects => \A u, v \in DOMAIN d : u = v,
         accepted[r] = Nothing, ~Committed(r),
         \A u \in DOMAIN d : wallet[u] # NoRow,
         wallet' = [u \in Users |-> IF u \in DOMAIN d THEN wallet[u] + d[u] ELSE wallet[u]],
         accepted' = [accepted EXCEPT ![r] = d],
         job' = BumpedJobs(DOMAIN d), load' = BumpedLoad(DOMAIN d),
         seat' \in [Users -> Nat], SeatInv',
         UNCHANGED <<sql, dayUsed, ledger, ready, avail, pending, grants, hold, faults, revoked>>
  PROVE  BeanInv'
<1> USE DEF BeanInv
<1> DEFINE S == DOMAIN d
<1>1. /\ SameJobs /\ SameLoad
      /\ job' \in [Mutators -> Jobs] /\ load' \in Loads(load'.value)
      /\ \A m \in Mutators : job'[m].current => job[m].user \notin S
      /\ load'.current => load.users \cap S = {}
  BY BumpSame
<1>2. TypeOK'
  <2>1. wallet' \in [Users -> Int \cup {NoRow}]
    BY DEF TypeOK
  <2>2. /\ accepted' = [x \in Records |-> accepted'[x]]
        /\ \A x \in Records : IsAmounts(accepted'[x], Int)
    BY DEF TypeOK, IsAmounts
  <2> QED BY <1>1, <2>1, <2>2 DEF TypeOK
<1>3. \A v \in Users : v \in S => Owed(v)' = Owed(v) + d[v]
  BY OwedAccepts
<1>4. \A v \in Users : v \notin S => Owed(v)' = Owed(v) /\ Overlay(v)' = Overlay(v)
  <2>1. \A v \in Users : v \notin DOMAIN accepted[r]
    BY DEF Nothing
  <2> QED BY <1>2, <2>1, OwedOthers
<1>5. FenceInv'
  BY <1>1, FenceKept DEF Readable
<1>6. TxInv'
  BY <1>1, TxKept
<1>7. DailyInv'
  <2>1. \A m \in Mutators : job'[m].current => job[m].user \in Users \ S
    BY <1>1 DEF SameJobs, SameJob, DailyInv, TxInv
  <2> QED BY <2>1, <1>1, <1>4, DailyKept DEF SameJobs, SameJob
<1>8. LoadInv'
  <2>1. load.users \subseteq Users
    BY DEF TypeOK, Loads
  <2> QED BY <2>1, <1>1, <1>4, LoadKept
<1>9. RecordInv'
  <2>1. \A x \in Records : x # r => accepted'[x] = accepted[x]
    BY DEF TypeOK
  <2>2. accepted'[r] = d
    BY DEF TypeOK
  <2>3. \A h \in Hands : h # r => Undecided(h)' = Undecided(h)
    BY <2>1 DEF Undecided, Records
  <2>4. \A h \in Hands : Committed(h)' = Committed(h)
    BY DEF Committed
  <2>5. \A e \in Effects : \A u, v \in DOMAIN accepted'[e] : u = v
    BY <2>1, <2>2 DEF RecordInv, Records
  <2> QED BY <2>3, <2>4, <2>5 DEF RecordInv
<1>10. PublishedIsCurrent'
  <2> SUFFICES ASSUME NEW v \in Users, Readable(v)'
      PROVE  (IF wallet'[v] = NoRow THEN Grant ELSE wallet'[v]) = Owed(v)'
    BY DEF PublishedIsCurrent
  <2>1. (IF wallet[v] = NoRow THEN Grant ELSE wallet[v]) = Owed(v)
    BY DEF PublishedIsCurrent, Readable
  <2>2. CASE v \in S
    <3>1. wallet[v] \in Int /\ d[v] \in Int /\ wallet'[v] = wallet[v] + d[v]
      BY <2>2 DEF TypeOK
    <3> QED BY <2>1, <2>2, <3>1, <1>3, BeanAssumption
  <2>3. CASE v \notin S
    BY <2>1, <2>3, <1>4
  <2> QED BY <2>2, <2>3
<1> QED BY <1>2, <1>5, <1>6, <1>7, <1>8, <1>9, <1>10

LEMMA AcceptHandStep ==
  ASSUME BeanInv, NEW h \in Hands, NEW d \in Results(h), AcceptHand(h, d)
  PROVE  BeanInv'
<1> USE DEF BeanInv
<1>1. d \in [DOMAIN hold[h] -> Int] /\ DOMAIN hold[h] \subseteq Users
  BY BeanAssumption DEF Results, TypeOK, IsAmounts
<1>2. DOMAIN d = DOMAIN hold[h]
  BY <1>1
<1>3. ~Committed(h)
  BY DEF RecordInv, Undecided, AcceptHand, Nothing
<1>4. h \in Records /\ h \notin Effects
  BY BeanAssumption DEF Records
<1>5. UNCHANGED <<sql, dayUsed, ledger, ready, avail, pending, grants, hold, faults, revoked>>
  BY DEF AcceptHand, database
<1>6. Undecided(h)
  BY DEF Undecided, AcceptHand, Nothing
<1>7. seat' \in [Users -> Nat]
  <2>1. \A u \in DOMAIN hold[h] : /\ hold[h][u] \in Nat /\ d[u] \in Int /\ d[u] >= -hold[h][u]
                                  /\ seat[u] \in Nat
                                  /\ seat[u] > 0 => seat[u] >= hold[h][u]
    BY <1>1, <1>2, <1>6 DEF Results, SeatInv, TypeOK, IsAmounts
  <2>2. \A u \in Users : u \in DOMAIN hold[h] /\ seat[u] > 0 => seat[u] + d[u] \in Nat
    BY <2>1
  <2> QED BY <2>2 DEF AcceptHand, TypeOK
<1>8. SeatInv'
  <2>1. \A g \in Hands : Undecided(g) => g = h
    BY <1>6 DEF SeatInv
  <2>2. d # Nothing
    BY <1>2 DEF AcceptHand, Nothing
  <2>3. \A g \in Hands : ~Undecided(g)'
    BY <1>5, <2>1, <2>2 DEF Undecided, AcceptHand, TypeOK, Records
  <2> QED BY <2>3 DEF SeatInv
<1> QED
  BY <1>1, <1>2, <1>3, <1>4, <1>5, <1>7, <1>8, AcceptedStep DEF AcceptHand

LEMMA AcceptEffectStep ==
  ASSUME BeanInv, NEW e \in Effects, NEW u \in Users, NEW n \in Int, AcceptEffect(e, u, n)
  PROVE  BeanInv'
<1> USE DEF BeanInv
<1> DEFINE d == [v \in {u} |-> n]
<1>1. /\ DOMAIN d = {u} /\ d \in [DOMAIN d -> Int] /\ DOMAIN d \subseteq Users
      /\ \A x, y \in DOMAIN d : x = y
  OBVIOUS
<1>2. /\ wallet' = [v \in Users |-> IF v \in DOMAIN d THEN wallet[v] + d[v] ELSE wallet[v]]
      /\ \A v \in DOMAIN d : wallet[v] # NoRow
  BY DEF AcceptEffect, MaySpendMemory, TypeOK
<1>3. UNCHANGED <<sql, dayUsed, ledger, ready, avail, pending, grants, seat, hold, faults, revoked>>
  BY DEF AcceptEffect, database, table
<1>4. e \in Records /\ seat' \in [Users -> Nat]
  BY <1>3 DEF Records, TypeOK
<1>5. /\ accepted[e] = Nothing /\ ~Committed(e)
      /\ accepted' = [accepted EXCEPT ![e] = d]
      /\ job' = BumpedJobs(DOMAIN d) /\ load' = BumpedLoad(DOMAIN d)
  BY <1>1 DEF AcceptEffect
<1>6. SeatInv'
  <2>1. \A h \in Hands : accepted'[h] = accepted[h]
    BY <1>5, BeanAssumption DEF TypeOK, Records
  <2> QED BY <1>3, <2>1, SeatsKept DEF Undecided
<1> HIDE DEF d
<1> QED BY <1>1, <1>2, <1>3, <1>4, <1>5, <1>6, AcceptedStep

-----------------------------------------------------------------------------
(* The writers of the records.                                             *)

LEMMA CommitRecordOwed ==
  ASSUME BeanInv, NEW r \in Records, CommitRecord(r), TypeOK', NEW v \in Users
  PROVE  Owed(v)' = Owed(v) /\ Overlay(v)' = Overlay(v)
<1> USE DEF BeanInv
<1>1. UNCHANGED accepted /\ ~Committed(r)
  BY DEF CommitRecord, memory
<1>2. Overlay(v)' = Overlay(v) /\ Delta(v)' = Delta(v)
  BY <1>1 DEF Overlay, Delta
<1>3. Committed(r)' /\ \A x \in Records : x # r => Committed(x)' = Committed(x)
  <2>1. \/ ledger' = ledger \cup {<<r, "own">>}
        \/ ledger' = ledger \cup {<<r, "quarantine">>}
    BY DEF CommitRecord, ReceiptOf
  <2>2. Committed(r)'
    BY <2>1 DEF Committed
  <2>3. \A x \in Records : x # r => Committed(x)' = Committed(x)
    BY <2>1 DEF Committed
  <2> QED BY <2>2, <2>3
<1>4. CASE v \in DOMAIN accepted[r]
  <2>1. r \in Uncounted(v) /\ Uncounted(v)' = Uncounted(v) \ {r}
    BY <1>1, <1>2, <1>3, <1>4 DEF Uncounted, Overlay
  <2>2. Owed(v)' = Row(v)' + (Owed(v) - Row(v) - accepted[r][v])
    BY <2>1, <1>2, OwedWithout
  <2>3. Row(v) \in Nat /\ accepted[r][v] \in Int /\ Owed(v) \in Int
    BY <1>4, OwedFacts DEF TypeOK, IsAmounts
  <2>4. sql'[v] = Row(v) + accepted[r][v] /\ sql'[v] \in Int
    BY <1>4, <2>3 DEF CommitRecord
  <2>5. Row(v)' = Row(v) + accepted[r][v]
    BY <2>4, BeanAssumption DEF Row
  <2> QED BY <1>2, <2>2, <2>3, <2>5
<1>5. CASE v \notin DOMAIN accepted[r]
  <2>1. Uncounted(v)' = Uncounted(v)
    BY <1>2, <1>3, <1>5 DEF Uncounted, Overlay
  <2>2. Row(v)' = Row(v)
    BY <1>5 DEF CommitRecord, Row
  <2> QED BY <1>2, <2>1, <2>2, OwedKept
<1> QED BY <1>4, <1>5

LEMMA CommitRecordStep ==
  ASSUME BeanInv, NEW r \in Records, CommitRecord(r)
  PROVE  BeanInv'
<1> USE DEF BeanInv
<1> DEFINE S == DOMAIN accepted[r]
<1>0. UNCHANGED <<dayUsed, ready, wallet, avail, pending, accepted, grants, seat, hold,
                  job, load, faults, revoked>>
  BY DEF CommitRecord, memory, table
<1>1. /\ S \subseteq Users
      /\ \A u \in S : Row(u) + accepted[r][u] \in Nat /\ ~Locked(u)
      /\ \A u \in Users : u \in S => sql'[u] = Row(u) + accepted[r][u]
      /\ \A u \in Users : u \notin S => sql'[u] = sql[u]
  <2>1. S \subseteq Users /\ \A u \in S : accepted[r][u] \in Int
    BY DEF TypeOK, IsAmounts
  <2>2. \A u \in S : Row(u) \in Nat
    BY <2>1, OwedFacts
  <2> QED BY <2>1, <2>2 DEF CommitRecord
<1>2. TypeOK'
  <2>1. sql' \in [Users -> Nat \cup {NoRow}]
    BY <1>1 DEF CommitRecord, TypeOK
  <2>2. ledger' \in SUBSET (Records \X {"own", "quarantine", "solo"})
    BY DEF CommitRecord, ReceiptOf, TypeOK
  <2> QED BY <1>0, <2>1, <2>2 DEF TypeOK
<1>3. \A v \in Users : Owed(v)' = Owed(v) /\ Overlay(v)' = Overlay(v)
  BY <1>2, CommitRecordOwed
<1>4. SameJobs /\ SameLoad
  BY <1>0 DEF SameJobs, SameJob, SameLoad
<1>5. FenceInv'
  BY <1>0, <1>4, FenceKept DEF Readable
<1>6. TxInv'
  <2>1. \A m \in Mutators : job[m].tx = "open" => job[m].user \notin S
    BY <1>1 DEF Locked
  <2>2. \A u \in Users \ S : Row(u)' = Row(u)
    BY <1>1 DEF Row
  <2>3. \A u \in dayUsed : sql'[u] # NoRow
    BY <1>1, BeanAssumption DEF TxInv, TypeOK
  <2> QED BY <1>0, <2>1, <2>2, <2>3 DEF TxInv, OpenFor
<1>7. DailyInv'
  <2>1. ASSUME NEW m \in Mutators, job[m].current
        PROVE  sql'[job[m].user] = sql[job[m].user] /\ Overlay(job[m].user)' = {}
    <3>1. job[m].user \in Users /\ Overlay(job[m].user) = {}
      BY <2>1 DEF DailyInv, TxInv
    <3>2. job[m].user \notin S
      BY <3>1 DEF Overlay
    <3> QED BY <3>1, <3>2, <1>0, <1>1, <1>3
  <2> QED BY <1>0, <2>1 DEF DailyInv, Touches
<1>8. LoadInv'
  <2>1. load.users \subseteq Users
    BY DEF TypeOK, Loads
  <2> QED BY <2>1, <1>0, <1>3, <1>4, LoadKept
<1>9. RecordInv'
  <2>1. \A x \in Records : x # r => Committed(x)' = Committed(x)
    BY DEF CommitRecord, Committed, ReceiptOf
  <2>2. accepted[r] # Nothing
    BY DEF CommitRecord, Nothing
  <2> QED BY <1>0, <2>1, <2>2 DEF RecordInv, Undecided, Records
<1>10. PublishedIsCurrent'
  BY <1>0, <1>3, PublishedKept DEF Readable
<1>11. SeatInv'
  BY <1>0, SeatsFrame
<1> QED BY <1>2, <1>5, <1>6, <1>7, <1>8, <1>9, <1>10, <1>11

LEMMA AcknowledgeStep ==
  ASSUME BeanInv, NEW r \in Records, Acknowledge(r)
  PROVE  BeanInv'
<1> USE DEF BeanInv
<1> DEFINE S == DOMAIN accepted[r]
<1>0. UNCHANGED <<sql, dayUsed, ledger, ready, wallet, avail, pending, grants, seat,
                  faults, revoked>>
  BY DEF Acknowledge, database
<1>1. /\ SameJobs /\ SameLoad
      /\ job' \in [Mutators -> Jobs] /\ load' \in Loads(load'.value)
      /\ \A m \in Mutators : job'[m].current => job[m].user \notin S
  BY BumpSame DEF Acknowledge
<1>2. /\ \A x \in Records : x # r => accepted'[x] = accepted[x]
      /\ accepted'[r] = Nothing /\ S # {} /\ Committed(r)
  BY DEF Acknowledge, TypeOK
<1>3. TypeOK'
  <2>1. IsAmounts(Nothing, Int) /\ IsAmounts(Nothing, Nat)
    BY DEF IsAmounts, Nothing
  <2>2. /\ accepted' = [x \in Records |-> accepted'[x]]
        /\ \A x \in Records : IsAmounts(accepted'[x], Int)
    BY <2>1 DEF Acknowledge, TypeOK
  <2>3. /\ hold' = [h \in Hands |-> hold'[h]]
        /\ \A h \in Hands : IsAmounts(hold'[h], Nat)
    BY <2>1 DEF Acknowledge, TypeOK
  <2> QED BY <1>0, <1>1, <2>2, <2>3 DEF TypeOK
<1>4. \A v \in Users : Owed(v)' = Owed(v)
  <2> TAKE v \in Users
  <2>1. Uncounted(v)' = Uncounted(v) /\ Row(v)' = Row(v)
    BY <1>0, <1>2 DEF Uncounted, Overlay, Committed, Row, Nothing
  <2>2. \A x \in Uncounted(v) : Delta(v)'[x] = Delta(v)[x]
    BY <1>2 DEF Uncounted, Overlay, Delta
  <2> QED BY <1>3, <2>1, <2>2, OwedKept
<1>5. FenceInv' /\ TxInv'
  BY <1>0, <1>1, FenceKept, TxKept DEF Readable
<1>6. DailyInv'
  <2>1. \A v : v \notin S => Overlay(v)' = Overlay(v)
    BY <1>2 DEF Overlay, Nothing
  <2> QED BY <1>0, <1>1, <2>1, DailyKept DEF SameJobs, SameJob
<1>7. LoadInv'
  <2>1. load.users \subseteq Users
    BY DEF TypeOK, Loads
  <2> QED BY <2>1, <1>0, <1>1, <1>4, LoadKept
<1>8. RecordInv'
  <2>1. \A h \in Hands : Undecided(h)' => Undecided(h)
    BY <1>2 DEF Acknowledge, Undecided, Records
  <2>2. \A h \in Hands : Committed(h)' = Committed(h)
    BY <1>0 DEF Committed
  <2>3. \A e \in Effects : \A u, v \in DOMAIN accepted'[e] : u = v
    BY <1>2 DEF RecordInv, Records, Nothing
  <2> QED BY <2>1, <2>2, <2>3 DEF RecordInv
<1>9. PublishedIsCurrent'
  BY <1>0, <1>4, PublishedKept DEF Readable
<1>10. SeatInv'
  <2>1. \A h \in Hands : Undecided(h)' => Undecided(h) /\ hold'[h] = hold[h]
    BY <1>2 DEF Acknowledge, Undecided, Records
  <2> QED BY <1>0, <2>1, SeatsKept
<1> QED BY <1>3, <1>5, <1>6, <1>7, <1>8, <1>9, <1>10

\* A fenced user is not served.
LEMMA FencedOff ==
  ASSUME TypeOK, NEW u \in Users, Invalidated(u), UNCHANGED ready
  PROVE  /\ avail' \in [Users -> BOOLEAN] /\ pending' \in SUBSET Users
         /\ \A v \in Users : Readable(v)' => Readable(v) /\ v # u
<1>1. avail' \in [Users -> BOOLEAN] /\ pending' \in SUBSET Users
  BY DEF Invalidated, TypeOK
<1>2. \A v \in Users : avail'[v] = IF v = u THEN avail[u] /\ ~ready ELSE avail[v]
  BY DEF Invalidated, TypeOK
<1> QED BY <1>1, <1>2 DEF Readable

LEMMA AbandonStep ==
  ASSUME BeanInv, NEW e \in Effects, NEW u \in Users, Abandon(e, u)
  PROVE  BeanInv'
<1> USE DEF BeanInv
<1>0. UNCHANGED <<sql, dayUsed, ledger, ready, wallet, grants, seat, hold>>
  BY DEF Abandon, database, table
<1>1. /\ SameJobs /\ SameLoad
      /\ job' \in [Mutators -> Jobs] /\ load' \in Loads(load'.value)
      /\ \A m \in Mutators : job'[m].current => job[m].user # u
      /\ load'.current => u \notin load.users
  BY BumpSame DEF Abandon
<1>2. /\ e \in Records /\ accepted' = [accepted EXCEPT ![e] = Nothing]
      /\ \A v \in Users : v # u => v \notin DOMAIN accepted[e]
  BY DEF Abandon, RecordInv, Records
<1>3. /\ avail' \in [Users -> BOOLEAN] /\ pending' \in SUBSET Users
      /\ \A v \in Users : Readable(v)' => Readable(v) /\ v # u
  BY <1>0, FencedOff DEF Abandon
<1>4. TypeOK'
  <2>1. IsAmounts(Nothing, Int)
    BY DEF IsAmounts, Nothing
  <2>2. /\ accepted' = [x \in Records |-> accepted'[x]]
        /\ \A x \in Records : IsAmounts(accepted'[x], Int)
    BY <1>2, <2>1 DEF TypeOK
  <2>3. accepted[e][u] \in Int
    BY <1>2 DEF Abandon, TypeOK, IsAmounts
  <2>4. Max({0, accepted[e][u]}) \in Nat
    BY <2>3, MaxOfTwo
  <2>5. revoked' \in [Users -> Nat] /\ faults' \in Nat
    BY <2>4 DEF Abandon, TypeOK
  <2> QED BY <1>0, <1>1, <1>3, <2>2, <2>5 DEF TypeOK
<1>5. \A v \in Users : v # u => Owed(v)' = Owed(v) /\ Overlay(v)' = Overlay(v)
  <2>1. DOMAIN Nothing = {}
    BY DEF Nothing
  <2> QED BY <1>0, <1>2, <1>4, <2>1, OwedOthers
<1>6. FenceInv' /\ TxInv'
  BY <1>0, <1>1, <1>3, FenceKept, TxKept
<1>7. DailyInv'
  <2>1. \A m \in Mutators : job'[m].current => job[m].user \in Users \ {u}
    BY <1>1 DEF SameJobs, SameJob, DailyInv, TxInv
  <2> QED BY <2>1, <1>0, <1>1, <1>5, DailyKept DEF SameJobs, SameJob
<1>8. LoadInv'
  <2>1. load.users \subseteq Users
    BY DEF TypeOK, Loads
  <2> QED BY <2>1, <1>0, <1>1, <1>5, LoadKept
<1>9. RecordInv'
  <2>1. \A x \in Records : x # e => accepted'[x] = accepted[x]
    BY <1>2 DEF TypeOK
  <2>2. accepted'[e] = Nothing
    BY <1>2 DEF TypeOK
  <2>3. \A h \in Hands : h # e
    BY BeanAssumption
  <2> QED BY <1>0, <2>1, <2>2, <2>3 DEF RecordInv, Undecided, Committed, Records, Nothing
<1>10. PublishedIsCurrent'
  BY <1>0, <1>3, <1>5, PublishedKept
<1>11. SeatInv'
  <2>1. \A h \in Hands : accepted'[h] = accepted[h]
    BY <1>2, BeanAssumption DEF TypeOK, Records
  <2> QED BY <1>0, <2>1, SeatsKept DEF Undecided
<1> QED BY <1>4, <1>6, <1>7, <1>8, <1>9, <1>10, <1>11

-----------------------------------------------------------------------------
(* Loads.                                                                  *)

\* What only the load changes.
LEMMA LoadsOnly ==
  ASSUME BeanInv, load' \in Loads(load'.value), faults' \in Nat, LoadInv',
         UNCHANGED <<database, memory, table, job, revoked>>
  PROVE  BeanInv'
<1> USE DEF BeanInv
<1>0. UNCHANGED <<sql, dayUsed, ledger, ready, wallet, avail, pending, accepted, grants,
                  seat, hold, job, revoked>>
  BY DEF database, memory, table
<1>1. SameJobs
  BY <1>0 DEF SameJobs, SameJob
<1>2. TypeOK'
  BY <1>0 DEF TypeOK
<1>3. \A u : /\ Owed(u)' = Owed(u) /\ Overlay(u)' = Overlay(u)
             /\ Readable(u)' = Readable(u)
  BY <1>0, OwedFrame DEF Readable
<1>4. DailyInv'
  BY <1>0, <1>1, <1>3, DailyKept
<1>5. RecordInv' /\ SeatInv'
  BY <1>0, RecordsKept, SeatsFrame
<1>6. FenceInv' /\ TxInv' /\ PublishedIsCurrent'
  BY <1>0, <1>1, <1>3, FenceKept, TxKept, PublishedKept
<1> QED BY <1>2, <1>4, <1>5, <1>6

LEMMA NoLoadFacts ==
  /\ NoLoad \in Loads(NoLoad.value) /\ NoLoad.phase = "idle" /\ ~NoLoad.current
BY DEF NoLoad, Loads, Nothing

LEMMA StartLoadStep ==
  ASSUME BeanInv, StartHydrate \/ \E u \in Users : StartRefresh(u)
  PROVE  BeanInv'
<1> USE DEF BeanInv
<1>1. PICK us \in SUBSET Users, k \in {"hydrate", "refresh"} :
        /\ load' = [NoLoad EXCEPT !.kind = k, !.phase = "captured", !.users = us,
                      !.current = TRUE]
        /\ us = Users \/ ready
        /\ \A u \in us : Active(u) = {}
  <2>1. CASE StartHydrate
    BY <2>1 DEF StartHydrate, Active
  <2>2. ASSUME NEW u \in Users, StartRefresh(u)
        PROVE  \E us \in SUBSET Users, k \in {"hydrate", "refresh"} :
                 /\ load' = [NoLoad EXCEPT !.kind = k, !.phase = "captured", !.users = us,
                               !.current = TRUE]
                 /\ us = Users \/ ready
                 /\ \A v \in us : Active(v) = {}
    <3>1. {u} \in SUBSET Users /\ \A v \in {u} : Active(v) = {}
      BY <2>2 DEF StartRefresh
    <3> QED BY <2>2, <3>1 DEF StartRefresh
  <2> QED BY <2>1, <2>2
<1>2. UNCHANGED <<database, memory, table, job, faults, revoked>>
  BY DEF StartHydrate, StartRefresh
<1>3. UNCHANGED <<ready, job, faults>>
  BY <1>2 DEF memory
<1>4. /\ load' \in Loads(load'.value) /\ load'.phase = "captured" /\ load'.users = us
  BY <1>1 DEF NoLoad, Loads
<1>5. \A u \in us : Active(u)' = {}
  BY <1>1, <1>3 DEF Active
<1>6. LoadInv'
  BY <1>1, <1>3, <1>4, <1>5 DEF LoadInv
<1>7. faults' \in Nat
  BY <1>3 DEF TypeOK
<1> QED BY <1>2, <1>4, <1>6, <1>7, LoadsOnly

LEMMA SampleStep ==
  ASSUME BeanInv, SampleTransactions
  PROVE  BeanInv'
<1> USE DEF BeanInv
<1>1. UNCHANGED <<database, memory, table, job, faults, revoked>>
  BY DEF SampleTransactions
<1>2. UNCHANGED <<ready, job, faults>>
  BY <1>1 DEF memory
<1>3. /\ load' \in Loads(load'.value) /\ load'.phase = "sampled" /\ load'.users = load.users
      /\ load'.current = load.current
      /\ load'.waits = {m \in Mutators : job[m].tx = "open"}
  BY DEF SampleTransactions, TypeOK, Loads
<1>4. LoadInv'
  <2>1. \A u : Active(u)' = Active(u)
    BY <1>2 DEF Active
  <2>2. \A u : \A m \in Mutators : OpenFor(m, u)' => m \in load'.waits
    BY <1>2, <1>3 DEF OpenFor
  <2>3. load.phase = "captured"
    BY DEF SampleTransactions
  <2> QED BY <1>2, <1>3, <2>1, <2>2, <2>3 DEF LoadInv
<1>5. faults' \in Nat
  BY <1>2 DEF TypeOK
<1> QED BY <1>1, <1>3, <1>4, <1>5, LoadsOnly

\* What one snapshot yields is what the user is owed.
LEMMA SnapshotIsOwed ==
  ASSUME TypeOK, NEW u \in Users, ~SnapshotFails(u)
  PROVE  SnapshotOf(u) \in Int \cup {NoRow} /\ Shown(SnapshotOf(u)) = Owed(u)
<1>1. Unseen(u, Records) = Uncounted(u)
  BY DEF Unseen, Uncounted, Overlay
<1>2. CASE sql[u] = NoRow
  <2>1. Overlay(u) = {}
    BY <1>2 DEF SnapshotFails
  <2>2. Owed(u) = Row(u)
    BY <2>1, OwedAlone
  <2> QED BY <1>2, <2>2 DEF SnapshotOf, Shown, Row
<1>3. CASE sql[u] # NoRow
  <2>1. SnapshotOf(u) = Owed(u)
    BY <1>1, <1>3 DEF SnapshotOf, Owed, Row, Uncounted
  <2> QED BY <2>1, OwedFacts, BeanAssumption DEF Shown
<1> QED BY <1>2, <1>3

LEMMA ReadSnapshotStep ==
  ASSUME BeanInv, ReadSnapshot
  PROVE  BeanInv'
<1> USE DEF BeanInv
<1>1. UNCHANGED <<database, memory, table, job, faults, revoked>>
  BY DEF ReadSnapshot
<1>2. UNCHANGED <<sql, ledger, accepted, ready, job, faults>>
  BY <1>1 DEF memory, database
<1>3. faults' \in Nat
  BY <1>2 DEF TypeOK
<1>4. CASE load' = NoLoad
  <2>1. LoadInv'
    BY <1>4, NoLoadFacts DEF LoadInv
  <2> QED BY <1>1, <1>3, <1>4, <2>1, NoLoadFacts, LoadsOnly
<1>5. CASE /\ \A u \in load.users : ~SnapshotFails(u)
           /\ load' = [load EXCEPT !.phase = "read",
                         !.value = [u \in load.users |-> SnapshotOf(u)]]
  <2>1. /\ load' \in Loads(load'.value) /\ load'.phase = "read" /\ load'.users = load.users
        /\ load'.current = load.current /\ load'.value = [u \in load.users |-> SnapshotOf(u)]
    BY <1>5 DEF TypeOK, Loads
  <2>2. \A u \in load.users : SnapshotOf(u) \in Int \cup {NoRow} /\ Shown(SnapshotOf(u)) = Owed(u)
    BY <1>5, SnapshotIsOwed DEF TypeOK, Loads
  <2>3. \A u : Active(u)' = Active(u) /\ Owed(u)' = Owed(u)
    BY <1>2, OwedFrame DEF Active
  <2>4. load.current => \A u \in load.users : \A m \in Mutators : ~OpenFor(m, u)'
    BY <1>2 DEF LoadInv, ReadSnapshot, OpenFor
  <2>5. \A u \in load.users : Shown(load.value[u])' = Owed(u)'
    BY <2>1, <2>2, <2>3 DEF Shown
  <2>6. load.phase = "sampled"
    BY DEF ReadSnapshot
  <2>7. (load.phase = "read" => load.value \in [load.users -> Int \cup {NoRow}])'
    BY <2>1, <2>2
  <2>8. LoadInv'
    BY <1>2, <2>1, <2>3, <2>4, <2>5, <2>6, <2>7 DEF LoadInv
  <2> QED BY <1>1, <1>3, <2>1, <2>8, LoadsOnly
<1> QED BY <1>4, <1>5 DEF ReadSnapshot

LEMMA LoadFailsStep ==
  ASSUME BeanInv, LoadFails
  PROVE  BeanInv'
<1> USE DEF BeanInv
<1>1. /\ UNCHANGED <<database, memory, table, job, revoked>>
      /\ load' = NoLoad /\ faults' = faults + 1
  BY DEF LoadFails
<1>2. faults' \in Nat
  BY <1>1 DEF TypeOK
<1>3. LoadInv'
  BY <1>1, NoLoadFacts DEF LoadInv
<1> QED BY <1>1, <1>2, <1>3, NoLoadFacts, LoadsOnly

LEMMA InstallStep ==
  ASSUME BeanInv, Install
  PROVE  BeanInv'
<1> USE DEF BeanInv
<1>0. UNCHANGED <<sql, dayUsed, ledger, accepted, grants, seat, hold, job, faults, revoked>>
  BY DEF Install, database, table
<1>1. SameJobs
  BY <1>0 DEF SameJobs, SameJob
<1>2. load' = NoLoad /\ load.phase = "read" /\ load.users \subseteq Users
  BY DEF Install, TypeOK, Loads
<1>3. LoadInv'
  BY <1>2, NoLoadFacts DEF LoadInv
<1>4. \A u : Owed(u)' = Owed(u) /\ Overlay(u)' = Overlay(u)
  BY <1>0, OwedFrame
<1>5. DailyInv' /\ TxInv' /\ RecordInv' /\ SeatInv'
  BY <1>0, <1>1, <1>4, DailyKept, TxKept, RecordsKept, SeatsFrame
<1>6. CASE MayInstall
  <2>1. /\ wallet' = [u \in Users |-> IF u \in load.users THEN load.value[u] ELSE wallet[u]]
        /\ avail' = [u \in Users |-> avail[u] \/ u \in load.users]
        /\ pending' = pending \ load.users
        /\ ready' = TRUE
    BY <1>6 DEF Install
  <2>2. TypeOK'
    <3>1. wallet' \in [Users -> Int \cup {NoRow}]
      BY <1>2, <2>1 DEF TypeOK, LoadInv
    <3>2. avail' \in [Users -> BOOLEAN] /\ pending' \in SUBSET Users /\ ready' \in BOOLEAN
      BY <2>1 DEF TypeOK
    <3> QED BY <1>0, <1>2, <3>1, <3>2, NoLoadFacts DEF TypeOK
  <2>3. \A u \in Users : u \notin load.users => /\ Readable(u)' => Readable(u)
                                               /\ wallet'[u] = wallet[u]
    BY <1>2, <2>1 DEF LoadInv, Readable
  <2>4. \A u \in load.users : /\ Active(u) = {} /\ \A m \in Mutators : ~OpenFor(m, u)
                              /\ Shown(load.value[u]) = Owed(u)
    BY <1>2, <1>6 DEF MayInstall, LoadInv
  <2>5. FenceInv'
    <3>1. \A u \in load.users : \A m \in Mutators : ~Touches(m, u)
      BY <2>4 DEF Touches, OpenFor, Active
    <3> QED BY <1>0, <2>3, <3>1 DEF FenceInv, Touches
  <2>6. PublishedIsCurrent'
    BY <1>2, <1>4, <2>1, <2>3, <2>4 DEF PublishedIsCurrent, Shown
  <2> QED BY <1>3, <1>5, <2>2, <2>5, <2>6
<1>7. CASE ~MayInstall
  <2>1. UNCHANGED <<wallet, avail, pending, ready>>
    BY <1>7 DEF Install
  <2>2. TypeOK'
    BY <1>0, <1>2, <2>1, NoLoadFacts DEF TypeOK
  <2>3. FenceInv' /\ PublishedIsCurrent'
    BY <1>1, <1>4, <2>1, FenceKept, PublishedKept DEF Readable
  <2> QED BY <1>3, <1>5, <2>2, <2>3
<1> QED BY <1>6, <1>7

-----------------------------------------------------------------------------
(* Guards and transactions.                                                *)

\* What every step of one writer leaves alone.
LEMMA JobsOnly ==
  ASSUME BeanInv, job' \in [Mutators -> Jobs], load' \in Loads(load'.value),
         avail' \in [Users -> BOOLEAN], pending' \in SUBSET Users,
         grants' \in SUBSET Users, faults' \in Nat,
         \A u \in Users : Readable(u)' => Readable(u),
         UNCHANGED <<database, ready, wallet, accepted, table, revoked>>
  PROVE  /\ TypeOK' /\ RecordInv' /\ SeatInv' /\ PublishedIsCurrent'
         /\ \A u : /\ Owed(u)' = Owed(u) /\ Row(u)' = Row(u)
                   /\ Overlay(u)' = Overlay(u)
         /\ UNCHANGED <<sql, dayUsed, ready>>
<1> USE DEF BeanInv
<1>0. UNCHANGED <<sql, dayUsed, ledger, ready, wallet, accepted, seat, hold, revoked>>
  BY DEF database, table
<1>1. TypeOK'
  BY <1>0 DEF TypeOK
<1>2. \A u : /\ Owed(u)' = Owed(u) /\ Row(u)' = Row(u)
             /\ Overlay(u)' = Overlay(u)
  BY <1>0, OwedFrame
<1>3. RecordInv' /\ SeatInv'
  BY <1>0, RecordsKept, SeatsFrame
<1>4. PublishedIsCurrent'
  BY <1>0, <1>2, PublishedKept
<1> QED BY <1>0, <1>1, <1>2, <1>3, <1>4

\* Every step of a writer that bumps its user: no load of that user installs.
LEMMA LoadBumped ==
  ASSUME LoadInv, SameLoad, NEW u, load'.current => u \notin load.users,
         ready => ready',
         \A v : Owed(v)' = Owed(v),
         \A n \in Mutators : job'[n].user # u =>
           (job'[n].guard => job[n].guard) /\ (job'[n].tx = "open" => job[n].tx = "open")
             /\ (job'[n].guard \/ job'[n].tx = "open" => job'[n].user = job[n].user)
  PROVE  LoadInv'
<1>1. (load.phase # "idle" => load.users = Users \/ ready)'
  BY DEF LoadInv, SameLoad
<1>2. (load.phase = "read" => load.value \in [load.users -> Int \cup {NoRow}])'
  BY DEF LoadInv, SameLoad
<1>3. ASSUME load'.current, NEW v \in load'.users
      PROVE  /\ Active(v)' = {}
             /\ load'.phase = "sampled" => \A m \in Mutators : OpenFor(m, v)' => m \in load'.waits
             /\ load'.phase = "read" => /\ \A m \in Mutators : ~OpenFor(m, v)'
                                        /\ Shown(load.value[v])' = Owed(v)'
  <2>1. v # u /\ v \in load.users /\ load.current
    BY <1>3 DEF SameLoad
  <2>2. Active(v)' \subseteq Active(v)
    BY <2>1 DEF Active
  <2>3. \A m \in Mutators : OpenFor(m, v)' => OpenFor(m, v)
    BY <2>1 DEF OpenFor
  <2>4. Shown(load.value[v])' = Shown(load.value[v])
    BY DEF Shown, SameLoad
  <2> QED BY <2>1, <2>2, <2>3, <2>4 DEF LoadInv, SameLoad
<1> QED BY <1>1, <1>2, <1>3 DEF LoadInv

LEMMA BeginStep ==
  ASSUME BeanInv, NEW m \in Mutators, NEW u \in Users, NEW k \in Kinds \cup {"grant"},
         Begin(m, u, k)
  PROVE  BeanInv'
<1> USE DEF BeanInv
<1> DEFINE C == /\ k = "daily" /\ Readable(u) /\ Active(u) = {}
                /\ wallet[u] # NoRow /\ Overlay(u) = {}
<1>1. UNCHANGED <<database, ready, wallet, accepted, grants, table, faults, revoked>>
  BY DEF Begin
<1>2. job[m].tx = "none" /\ ~job[m].guard /\ job[m].user = Nobody
  BY DEF Begin, Idle
<1>3. /\ job'[m] \in Jobs /\ job'[m].kind = k /\ job'[m].user = u /\ job'[m].guard
      /\ job'[m].tx = "none" /\ job'[m].current = C
  <2>1. BumpedJobs({u}) \in [Mutators -> Jobs] /\ C \in BOOLEAN
    BY BumpFacts
  <2>2. job'[m] = [Idle EXCEPT !.kind = k, !.user = u, !.guard = TRUE, !.current = C]
    BY <2>1 DEF Begin
  <2> HIDE DEF C
  <2>3. job'[m] = [kind |-> k, user |-> u, guard |-> TRUE, tx |-> "none", after |-> 0,
                   current |-> C]
    BY <2>2 DEF Idle
  <2> QED BY <2>1, <2>3 DEF Jobs
<1>4. \A n \in Mutators : n # m =>
        SameJob(n) /\ job'[n] \in Jobs /\ (job'[n].current => job[n].user # u)
  BY BumpFacts DEF Begin, SameJob
<1>5. job' \in [Mutators -> Jobs]
  <2>1. job' = [n \in Mutators |-> job'[n]]
    BY BumpFacts DEF Begin
  <2> QED BY <1>3, <1>4, <2>1
<1>6. /\ SameLoad /\ load' \in Loads(load'.value)
      /\ load'.current => u \notin load.users
  BY BumpFacts DEF Begin, SameLoad
<1>7. /\ avail' \in [Users -> BOOLEAN] /\ pending' \in SUBSET Users
      /\ \A v \in Users : Readable(v)' => Readable(v) /\ (k # "grant" => v # u)
  <2>1. CASE k = "grant"
    BY <1>1, <2>1 DEF Begin, TypeOK, Readable
  <2>2. CASE k # "grant"
    BY <1>1, <2>2, FencedOff DEF Begin
  <2> QED BY <2>1, <2>2
<1>8. /\ TypeOK' /\ RecordInv' /\ SeatInv' /\ PublishedIsCurrent'
      /\ \A v : /\ Owed(v)' = Owed(v) /\ Row(v)' = Row(v)
                /\ Overlay(v)' = Overlay(v)
      /\ UNCHANGED <<sql, dayUsed, ready>>
  <2>1. grants' \in SUBSET Users /\ faults' \in Nat
    BY <1>1 DEF TypeOK
  <2> QED BY <1>1, <1>5, <1>6, <1>7, <2>1, JobsOnly
<1>9. FenceInv'
  <2>1. \A v \in Users, n \in Mutators : n # m => Touches(n, v)' = Touches(n, v)
    BY <1>4 DEF Touches, SameJob
  <2>2. \A v \in Users : Touches(m, v)' => v = u
    BY <1>3 DEF Touches
  <2> QED BY <1>3, <1>4, <1>7, <2>1, <2>2 DEF FenceInv, SameJob
<1>10. TxInv'
  <2>1. \A n \in Mutators : job'[n].tx = "open" => n # m
    BY <1>3
  <2>2. k # "idle"
    BY BeanAssumption
  <2> QED BY <1>3, <1>4, <1>8, <2>1, <2>2 DEF TxInv, SameJob, OpenFor
<1>11. DailyInv'
  <2>1. ASSUME C, NEW n \in Mutators, n # m, Touches(n, u)'
        PROVE  ~job'[n].guard /\ job'[n].kind = "grant"
    <3>1. Touches(n, u) /\ n \notin Active(u)
      BY <2>1, <1>4 DEF Touches, SameJob
    <3>2. job[n].kind = "grant" /\ ~job[n].guard
      BY <2>1, <3>1 DEF FenceInv, Touches, Active
    <3> QED BY <2>1, <3>2, <1>4 DEF SameJob
  <2>2. ASSUME C PROVE Overlay(u)' = {}
    BY <2>2, <1>8
  <2>3. ASSUME NEW n \in Mutators, n # m, job'[n].current
        PROVE  /\ job'[n].guard /\ job'[n].kind = "daily" /\ Overlay(job[n].user)' = {}
               /\ \A o \in Mutators : o # n /\ Touches(o, job[n].user)' =>
                    ~job'[o].guard /\ job'[o].kind = "grant"
               /\ job'[n].tx \in {"done", "ended"} =>
                    job'[n].after = sql'[job'[n].user] /\ sql'[job'[n].user] # NoRow
    <3>1. job[n].current /\ job'[n].user = job[n].user /\ job[n].user # u /\ SameJob(n)
      BY <2>3, <1>4 DEF SameJob
    <3>2. \A o \in Mutators : Touches(o, job[n].user)' => o # m /\ Touches(o, job[n].user)
      BY <3>1, <1>3, <1>4 DEF Touches, SameJob
    <3> QED BY <2>3, <3>1, <3>2, <1>4, <1>8 DEF DailyInv, SameJob
  <2> HIDE DEF C
  <2>4. job'[m].current => C /\ job'[m].kind = "daily"
    BY <1>3 DEF C
  <2> QED BY <1>3, <2>1, <2>2, <2>3, <2>4 DEF DailyInv
<1>12. LoadInv'
  <2>1. \A n \in Mutators : job'[n].user # u =>
           (job'[n].guard => job[n].guard) /\ (job'[n].tx = "open" => job[n].tx = "open")
             /\ (job'[n].guard \/ job'[n].tx = "open" => job'[n].user = job[n].user)
    BY <1>3, <1>4 DEF SameJob
  <2> QED BY <1>6, <1>8, <2>1, LoadBumped
<1> QED BY <1>8, <1>9, <1>10, <1>11, <1>12

\* The steps of one transaction take no new guard.
LEMMA FenceWriter ==
  ASSUME FenceInv, \A u \in Users : Readable(u)' => Readable(u),
         \A n \in Mutators, u \in Users : Touches(n, u)' =>
           Touches(n, u) /\ job'[n].kind = job[n].kind
  PROVE  FenceInv'
BY DEF FenceInv

\* The largest of an amount and of finitely many others.
LEMMA MaxRange ==
  ASSUME NEW S, IsFiniteSet(S), NEW f \in [S -> Int], NEW a \in Int, NEW T,
         a \in T, \A x \in S : f[x] \in T, \A t \in T : t = a \/ \E x \in S : t = f[x]
  PROVE  /\ Max(T) \in T
         /\ Max(T) \in Int /\ Max(T) >= a /\ \A x \in S : Max(T) >= f[x]
<1> DEFINE R == {f[x] : x \in S}
<1>1. f \in Surjection(S, R)
  BY DEF Surjection
<1>2. IsFiniteSet(R)
  BY <1>1, FS_Surjection
<1>3. T = {a} \cup R
  OBVIOUS
<1>4. IsFiniteSet(T)
  BY <1>2, <1>3, FS_Singleton, FS_Union
<1>5. T \in SUBSET Int /\ T # {}
  OBVIOUS
<1>6. Max(T) \in T /\ \A y \in T : y <= Max(T)
  BY <1>4, <1>5, MaxOfFinite
<1> QED BY <1>5, <1>6

\* A debit keeps the accepted losses and the larger of seat and holds.
LEMMA ReservedFacts ==
  ASSUME TypeOK, NEW u \in Users, NEW b \in BOOLEAN
  PROVE  /\ Reserved(u, b) \in Nat
         /\ Reserved(u, b) >= seat[u] + (IF b THEN Losses(u) ELSE 0)
         /\ \A h \in Open(u) : Reserved(u, b) >= hold[h][u] + (IF b THEN Losses(u) ELSE 0)
<1> DEFINE f == [h \in Open(u) |-> hold[h][u]]
           T == {seat[u]} \cup {hold[h][u] : h \in Open(u)}
<1>1. IsFiniteSet(Open(u))
  BY BeanAssumption, FS_Subset DEF Open
<1>2. f \in [Open(u) -> Nat] /\ seat[u] \in Nat
  BY DEF Open, TypeOK, IsAmounts
<1>3. seat[u] \in T /\ \A h \in Open(u) : f[h] \in T
  OBVIOUS
<1>4. \A t \in T : t = seat[u] \/ \E h \in Open(u) : t = f[h]
  OBVIOUS
<1>5. \A h \in Open(u) : f[h] = hold[h][u] /\ hold[h][u] \in Nat
  BY <1>2
<1>6. Reserved(u, b) = Max(T) + (IF b THEN Losses(u) ELSE 0)
  BY DEF Reserved
<1>7. Losses(u) \in Nat
  BY LossesBound
<1> HIDE DEF T, f
<1>8. Max(T) \in Int /\ Max(T) >= seat[u] /\ \A h \in Open(u) : Max(T) >= f[h]
  <2>1. f \in [Open(u) -> Int]
    BY <1>2
  <2> QED BY <1>1, <1>2, <1>3, <1>4, <2>1, MaxRange
<1> QED BY <1>2, <1>5, <1>6, <1>7, <1>8

LEMMA MinOfTwo ==
  ASSUME NEW a \in Int, NEW b \in Int
  PROVE  Min({a, b}) = IF a <= b THEN a ELSE b
<1>1. \E x \in {a, b} : \A y \in {a, b} : x =< y
  OBVIOUS
<1>2. Min({a, b}) \in {a, b} /\ \A y \in {a, b} : Min({a, b}) =< y
  BY <1>1 DEF Min
<1> QED BY <1>2

\* What an allowed operation leaves is a balance.
LEMMA AfterFacts ==
  ASSUME TypeOK, NEW u \in Users, NEW k \in Kinds \cup {"grant"}, Allowed(k, u)
  PROVE  After(k, u) \in Nat /\ (k = "grant" => After(k, u) = Row(u))
<1>1. Row(u) \in Nat
  BY OwedFacts
<1>2. CASE k = "debit"
  <2> DEFINE R == Reserved(u, TRUE)
             x == sql[u] - R
  <2>1. sql[u] \in Nat /\ Max({0, x}) >= 1
    BY <1>2 DEF Allowed, Available, TypeOK
  <2>2. R \in Nat
    BY ReservedFacts
  <2> HIDE DEF R
  <2>3. x \in Int
    BY <2>1, <2>2
  <2>4. sql[u] >= 1
    <3>1. x <= sql[u]
      BY <2>1, <2>2
    <3> HIDE DEF x
    <3>2. Max({0, x}) = IF 0 >= x THEN 0 ELSE x
      BY <2>3, MaxOfTwo
    <3> QED BY <2>1, <2>3, <3>1, <3>2
  <2>5. After(k, u) = sql[u] - 1
    BY <1>2 DEF After
  <2> QED BY <1>2, <2>1, <2>4, <2>5
<1>3. CASE k = "refund"
  <2>1. sql[u] \in Nat
    BY <1>3 DEF Allowed, TypeOK
  <2>2. Min({1, sql[u]}) = IF 1 <= sql[u] THEN 1 ELSE sql[u]
    BY <2>1, MinOfTwo
  <2>3. After(k, u) = sql[u] - Min({1, sql[u]})
    BY <1>3 DEF After
  <2> QED BY <1>3, <2>1, <2>2, <2>3
<1>4. CASE k \in {"credit", "daily", "grant"}
  <2>1. DailyGrant \in Nat
    BY BeanAssumption
  <2> QED BY <1>1, <1>4, <2>1 DEF After
<1> QED BY <1>2, <1>3, <1>4, BeanAssumption

\* One writer's job is replaced.
LEMMA JobChange ==
  ASSUME TypeOK, NEW m \in Mutators, NEW j \in Jobs, job' = [job EXCEPT ![m] = j]
  PROVE  /\ job' \in [Mutators -> Jobs] /\ job'[m] = j
         /\ \A n \in Mutators : n # m => job'[n] = job[n]
BY DEF TypeOK

LEMMA OpenTxStep ==
  ASSUME BeanInv, NEW m \in Mutators, OpenTx(m)
  PROVE  BeanInv'
<1> USE DEF BeanInv
<1>0. PICK u \in Users : u = job[m].user
  BY DEF OpenTx, TxInv
<1>1. UNCHANGED <<sql, dayUsed, ledger, ready, wallet, avail, pending, accepted, grants,
                  seat, hold, load, faults, revoked>>
  BY DEF OpenTx, database, memory, table
<1>2. /\ job[m].kind \in Kinds \cup {"grant"} /\ job[m] \in Jobs
      /\ job[m].guard /\ job[m].tx = "none"
  BY DEF OpenTx, TxInv, TypeOK, Jobs
<1>3. /\ After(job[m].kind, u) \in Nat
      /\ job[m].kind = "grant" => After(job[m].kind, u) = Row(u)
  BY <1>0, <1>2, AfterFacts DEF OpenTx
<1> DEFINE a == After(job[m].kind, u)
           j == [job[m] EXCEPT !.tx = "open", !.after = a]
<1>4. job' = [job EXCEPT ![m] = j] /\ ~Locked(u)
  BY <1>0 DEF OpenTx
<1>5. /\ job'[m].kind = job[m].kind /\ job'[m].user = u /\ job'[m].guard
      /\ job'[m].tx = "open" /\ job'[m].after = a
      /\ job'[m].current = job[m].current
      /\ \A n \in Mutators : n # m => job'[n] = job[n]
      /\ job' \in [Mutators -> Jobs]
  <2>1. a \in Nat
    BY <1>3
  <2> HIDE DEF a
  <2>2. /\ j \in Jobs /\ j.kind = job[m].kind /\ j.user = u /\ j.guard
        /\ j.tx = "open" /\ j.after = a /\ j.current = job[m].current
    BY <1>0, <1>2, <2>1 DEF Jobs
  <2> HIDE DEF j
  <2> QED BY <1>4, <2>2, JobChange
<1>6. /\ TypeOK' /\ RecordInv' /\ SeatInv' /\ PublishedIsCurrent'
      /\ \A v : /\ Owed(v)' = Owed(v) /\ Row(v)' = Row(v)
                /\ Overlay(v)' = Overlay(v)
  <2>1. /\ load' \in Loads(load'.value) /\ avail' \in [Users -> BOOLEAN]
        /\ pending' \in SUBSET Users /\ grants' \in SUBSET Users /\ faults' \in Nat
    BY <1>1 DEF TypeOK
  <2>2. UNCHANGED <<database, ready, wallet, accepted, table, revoked>>
    BY <1>1 DEF database, table
  <2>3. \A v \in Users : Readable(v)' => Readable(v)
    BY <1>1 DEF Readable
  <2> QED BY <1>5, <2>1, <2>2, <2>3, JobsOnly
<1>7. \A n \in Mutators : \A v : Touches(n, v)' = Touches(n, v) /\ job'[n].kind = job[n].kind
  BY <1>0, <1>2, <1>5 DEF Touches
<1>8. FenceInv'
  BY <1>1, <1>7, FenceWriter DEF Readable
<1>9. TxInv'
  <2>1. /\ \A n \in Mutators : n # m => OpenFor(n, u)' = OpenFor(n, u) /\ ~OpenFor(n, u)
        /\ \A n \in Mutators, v \in Users : n # m => OpenFor(n, v)' = OpenFor(n, v)
        /\ \A v \in Users : OpenFor(m, v)' => v = u
    BY <1>4, <1>5 DEF OpenFor, Locked
  <2>2. \A n, o \in Mutators : \A v \in Users : (OpenFor(n, v) /\ OpenFor(o, v))' => n = o
    BY <2>1 DEF TxInv
  <2>3. \A n \in Mutators :
       /\ job'[n].guard \/ job'[n].tx = "open" => job'[n].user \in Users /\ job'[n].kind # "idle"
       /\ job'[n].tx = "open" => job'[n].after \in Nat
    BY <1>2, <1>3, <1>5, BeanAssumption DEF TxInv
  <2>4. \A n \in Mutators :
          job'[n].tx = "open" /\ job'[n].kind = "grant" => job'[n].after = Row(job[n].user)'
    BY <1>0, <1>3, <1>5, <1>6 DEF TxInv
  <2> QED BY <1>1, <2>2, <2>3, <2>4 DEF TxInv
<1>10. DailyInv'
  <2>1. \A n \in Mutators : job'[n].user = job[n].user
    BY <1>0, <1>5
  <2> QED BY <1>1, <1>2, <1>5, <1>6, <1>7, <2>1 DEF DailyInv
<1>11. LoadInv'
  <2>1. m \in Active(u)
    BY <1>0, <1>2 DEF Active
  <2>2. load.current => u \notin load.users
    BY <2>1 DEF LoadInv
  <2>3. SameLoad
    BY <1>1 DEF SameLoad
  <2> QED BY <1>1, <1>5, <1>6, <2>2, <2>3, LoadBumped
<1> QED BY <1>6, <1>8, <1>9, <1>10, <1>11

LEMMA RefuseTxStep ==
  ASSUME BeanInv, NEW m \in Mutators, RefuseTx(m)
  PROVE  BeanInv'
<1> USE DEF BeanInv
<1>0. PICK u \in Users : u = job[m].user
  BY DEF RefuseTx, TxInv
<1> DEFINE a == IF job[m].kind = "daily" THEN sql[u] ELSE 0
           j == [job[m] EXCEPT !.tx = "ended", !.after = a]
<1>1. UNCHANGED <<sql, dayUsed, ledger, ready, wallet, avail, pending, accepted, grants,
                  seat, hold, load, faults, revoked>>
  BY DEF RefuseTx, database, memory, table
<1>2. /\ job[m].guard /\ job[m].tx = "none" /\ ~Allowed(job[m].kind, u)
      /\ job[m] \in Jobs
  BY <1>0 DEF RefuseTx, TypeOK
<1>3. a \in Nat \cup {NoRow} /\ job' = [job EXCEPT ![m] = j]
  BY <1>0 DEF RefuseTx, TypeOK
<1>4. job[m].kind = "daily" => a = sql[u] /\ sql[u] # NoRow
  BY <1>2 DEF Allowed, TxInv
<1> HIDE DEF a
<1>5. /\ job'[m].kind = job[m].kind /\ job'[m].user = u /\ job'[m].guard
      /\ job'[m].tx = "ended" /\ job'[m].after = a
      /\ job'[m].current = job[m].current
      /\ \A n \in Mutators : n # m => job'[n] = job[n]
      /\ job' \in [Mutators -> Jobs]
  <2>1. /\ j \in Jobs /\ j.kind = job[m].kind /\ j.user = u /\ j.guard
        /\ j.tx = "ended" /\ j.after = a /\ j.current = job[m].current
    BY <1>0, <1>2, <1>3 DEF Jobs
  <2> HIDE DEF j
  <2> QED BY <1>3, <2>1, JobChange
<1>6. /\ TypeOK' /\ RecordInv' /\ SeatInv' /\ PublishedIsCurrent'
      /\ \A v : /\ Owed(v)' = Owed(v) /\ Row(v)' = Row(v)
                /\ Overlay(v)' = Overlay(v)
  <2>1. /\ load' \in Loads(load'.value) /\ avail' \in [Users -> BOOLEAN]
        /\ pending' \in SUBSET Users /\ grants' \in SUBSET Users /\ faults' \in Nat
    BY <1>1 DEF TypeOK
  <2>2. UNCHANGED <<database, ready, wallet, accepted, table, revoked>>
    BY <1>1 DEF database, table
  <2>3. \A v \in Users : Readable(v)' => Readable(v)
    BY <1>1 DEF Readable
  <2> QED BY <1>5, <2>1, <2>2, <2>3, JobsOnly
<1>7. \A n \in Mutators : \A v : Touches(n, v)' = Touches(n, v) /\ job'[n].kind = job[n].kind
  BY <1>0, <1>2, <1>5 DEF Touches
<1>8. FenceInv'
  BY <1>1, <1>7, FenceWriter DEF Readable
<1>9. TxInv'
  <2>1. \A n \in Mutators : job'[n].tx = "open" => n # m /\ job'[n] = job[n]
    BY <1>5
  <2>2. \A n \in Mutators : \A v : OpenFor(n, v)' => OpenFor(n, v)
    BY <2>1 DEF OpenFor
  <2>3. \A n \in Mutators :
       job'[n].guard \/ job'[n].tx = "open" => job'[n].user \in Users /\ job'[n].kind # "idle"
    BY <1>0, <1>2, <1>5 DEF TxInv
  <2>4. \A n \in Mutators :
          job'[n].tx = "open" /\ job'[n].kind = "grant" => job'[n].after = Row(job[n].user)'
    BY <2>1, <1>6 DEF TxInv
  <2> QED BY <1>1, <2>1, <2>2, <2>3, <2>4 DEF TxInv
<1>10. DailyInv'
  <2>1. \A n \in Mutators : job'[n].user = job[n].user
    BY <1>0, <1>5
  <2>2. job[m].current => a = sql[u] /\ sql[u] # NoRow
    BY <1>4 DEF DailyInv
  <2> QED BY <1>1, <1>2, <1>5, <1>6, <1>7, <2>1, <2>2 DEF DailyInv
<1>11. LoadInv'
  <2>1. SameLoad
    BY <1>1 DEF SameLoad
  <2>2. load'.current => Nobody \notin load.users
    BY BeanAssumption DEF TypeOK, Loads
  <2>3. \A n \in Mutators :
           (job'[n].guard => job[n].guard) /\ (job'[n].tx = "open" => job[n].tx = "open")
             /\ (job'[n].guard \/ job'[n].tx = "open" => job'[n].user = job[n].user)
    BY <1>0, <1>2, <1>5
  <2> QED BY <1>1, <1>6, <2>1, <2>2, <2>3, LoadBumped
<1> QED BY <1>6, <1>8, <1>9, <1>10, <1>11

LEMMA IdleFacts ==
  /\ Idle \in Jobs /\ Idle.kind = "idle" /\ Idle.user = Nobody /\ Idle.guard = FALSE
  /\ Idle.tx = "none" /\ Idle.after = 0 /\ Idle.current = FALSE
BY DEF Idle, Jobs

\* The end of a transaction: nobody waits for it any more.
LEMMA EndedFacts ==
  ASSUME TypeOK, NEW m \in Mutators, NEW t \in {"done", "failed"}, Ended(m, t)
  PROVE  /\ job' \in [Mutators -> Jobs] /\ load' \in Loads(load'.value)
         /\ \A n \in Mutators : n # m => job'[n] = job[n]
         /\ job'[m].tx # "open"
         /\ job'[m].guard = job[m].guard
         /\ job'[m].current => job[m].guard /\ job[m].current
         /\ job[m].guard => /\ job'[m].kind = job[m].kind /\ job'[m].user = job[m].user
                            /\ job'[m].tx = t
                            /\ job[m].kind = "daily" => job'[m].after = job[m].after
         /\ load'.phase = load.phase /\ load'.users = load.users
         /\ load'.value = load.value /\ load'.current = load.current
         /\ load'.waits = load.waits \ {m}
<1> DEFINE a == IF job[m].kind = "daily" THEN job[m].after ELSE 0
           j == [job[m] EXCEPT !.tx = t, !.after = a]
<1>1. job[m] \in Jobs /\ load \in Loads(load.value)
  BY DEF TypeOK
<1>2. job' = [job EXCEPT ![m] = IF ~job[m].guard THEN Idle ELSE j]
  BY DEF Ended
<1>3. a \in Nat \cup {NoRow} /\ (job[m].kind = "daily" => a = job[m].after)
  BY <1>1 DEF Jobs
<1> HIDE DEF a
<1>4. /\ j \in Jobs /\ j.kind = job[m].kind /\ j.user = job[m].user /\ j.guard = job[m].guard
      /\ j.tx = t /\ j.after = a /\ j.current = job[m].current
  BY <1>1, <1>3 DEF Jobs
<1> HIDE DEF j
<1>5. (IF ~job[m].guard THEN Idle ELSE j) \in Jobs
  BY <1>4, IdleFacts
<1>6. /\ job' \in [Mutators -> Jobs] /\ job'[m] = IF ~job[m].guard THEN Idle ELSE j
      /\ \A n \in Mutators : n # m => job'[n] = job[n]
  BY <1>2, <1>5, JobChange
<1>7. job[m].guard \in BOOLEAN
  BY <1>1 DEF Jobs
<1>8. /\ job'[m].tx # "open"
      /\ job'[m].guard = job[m].guard
      /\ job'[m].current => job[m].guard /\ job[m].current
      /\ job[m].guard => /\ job'[m].kind = job[m].kind /\ job'[m].user = job[m].user
                         /\ job'[m].tx = t
                         /\ job[m].kind = "daily" => job'[m].after = job[m].after
  BY <1>3, <1>4, <1>6, <1>7, IdleFacts
<1>9. /\ load' \in Loads(load'.value)
      /\ load'.phase = load.phase /\ load'.users = load.users
      /\ load'.value = load.value /\ load'.current = load.current
      /\ load'.waits = load.waits \ {m}
  BY <1>1 DEF Ended, Loads
<1> QED BY <1>6, <1>8, <1>9

\* A load only loses the transaction that ended.
LEMMA EndedLoad ==
  ASSUME TypeOK, LoadInv, NEW m \in Mutators, NEW t \in {"done", "failed"}, Ended(m, t),
         UNCHANGED ready,
         \A v \in Users : v # job[m].user => Owed(v)' = Owed(v),
         job[m].tx = "open"
  PROVE  LoadInv'
<1>1. (load.phase # "idle" => load.users = Users \/ ready)'
  BY EndedFacts DEF LoadInv
<1>2. (load.phase = "read" => load.value \in [load.users -> Int \cup {NoRow}])'
  BY EndedFacts DEF LoadInv
<1>3. ASSUME load'.current, NEW v \in load'.users
      PROVE  /\ Active(v)' = {}
             /\ load'.phase = "sampled" => \A n \in Mutators : OpenFor(n, v)' => n \in load'.waits
             /\ load'.phase = "read" => /\ \A n \in Mutators : ~OpenFor(n, v)'
                                        /\ Shown(load.value[v])' = Owed(v)'
  <2>1. v \in load.users /\ load.current /\ v \in Users
    BY <1>3, EndedFacts DEF TypeOK, Loads
  <2>2. Active(v)' \subseteq Active(v)
    BY EndedFacts DEF Active
  <2>3. \A n \in Mutators : OpenFor(n, v)' => n # m /\ OpenFor(n, v)
    BY EndedFacts DEF OpenFor
  <2>4. load.phase = "read" => v # job[m].user
    BY <2>1 DEF LoadInv, OpenFor
  <2>5. Shown(load.value[v])' = Shown(load.value[v])
    BY EndedFacts DEF Shown
  <2>6. Active(v)' = {}
    BY <2>1, <2>2 DEF LoadInv
  <2>7. load.phase' = load.phase /\ load'.waits = load.waits \ {m}
    BY EndedFacts
  <2>8. load.phase = "sampled" => \A n \in Mutators : OpenFor(n, v)' => n \in load'.waits
    BY <2>1, <2>3, <2>7 DEF LoadInv
  <2>9. load.phase = "read" => /\ \A n \in Mutators : ~OpenFor(n, v)'
                               /\ Shown(load.value[v])' = Owed(v)'
    BY <2>1, <2>3, <2>4, <2>5 DEF LoadInv
  <2> QED BY <2>6, <2>7, <2>8, <2>9
<1> QED BY <1>1, <1>2, <1>3 DEF LoadInv

LEMMA CommitTxStep ==
  ASSUME BeanInv, NEW m \in Mutators, CommitTx(m)
  PROVE  BeanInv'
<1> USE DEF BeanInv
<1>0. PICK u \in Users : u = job[m].user
  BY DEF CommitTx, TxInv
<1>1. UNCHANGED <<ledger, ready, wallet, avail, pending, accepted, grants, seat, hold,
                  faults, revoked>>
  BY DEF CommitTx, memory, table
<1>2. /\ job[m].tx = "open" /\ Ended(m, "done") /\ job[m].after \in Nat
      /\ sql' = [sql EXCEPT ![u] = job[m].after]
      /\ dayUsed' \subseteq dayUsed \cup {u}
  BY <1>0 DEF CommitTx, TxInv
<1>3. /\ job' \in [Mutators -> Jobs] /\ load' \in Loads(load'.value)
      /\ \A n \in Mutators : n # m => job'[n] = job[n]
      /\ job'[m].tx # "open"
      /\ job'[m].guard = job[m].guard
      /\ job'[m].current => job[m].guard /\ job[m].current
      /\ job[m].guard => /\ job'[m].kind = job[m].kind /\ job'[m].user = u
                         /\ job'[m].tx = "done"
                         /\ job[m].kind = "daily" => job'[m].after = job[m].after
  BY <1>0, <1>2, EndedFacts
<1>4. TypeOK'
  <2>1. sql' \in [Users -> Nat \cup {NoRow}] /\ dayUsed' \in SUBSET Users
    BY <1>2 DEF TypeOK
  <2> QED BY <1>1, <1>3, <2>1 DEF TypeOK
<1>5. /\ sql'[u] = job[m].after /\ sql'[u] # NoRow
      /\ \A v \in Users : v # u => sql'[v] = sql[v]
  BY <1>2, BeanAssumption DEF TypeOK
<1>6. /\ \A v : Overlay(v)' = Overlay(v) /\ Readable(v)' = Readable(v)
      /\ \A v : Uncounted(v)' = Uncounted(v) /\ Delta(v)' = Delta(v)
  BY <1>1 DEF Overlay, Readable, Uncounted, Committed, Delta
<1>7. \A v \in Users : v # u => Owed(v)' = Owed(v) /\ Row(v)' = Row(v)
  <2>1. \A v \in Users : v # u => Row(v)' = Row(v)
    BY <1>5 DEF Row
  <2> QED BY <1>4, <1>6, <2>1, OwedKept
<1>8. job[m].kind = "grant" => Owed(u)' = Owed(u) /\ Row(u)' = Row(u)
  <2>1. job[m].kind = "grant" => Row(u)' = Row(u)
    BY <1>0, <1>2, <1>5 DEF Row, TxInv
  <2> QED BY <1>4, <1>6, <2>1, OwedKept
<1>9. \A n \in Mutators : \A v : Touches(n, v)' =>
        v = job[n].user /\ Touches(n, v) /\ job'[n].kind = job[n].kind
  BY <1>0, <1>3 DEF Touches
<1>10. FenceInv'
  BY <1>6, <1>9, FenceWriter
<1>11. TxInv'
  <2>1. \A n \in Mutators : job'[n].tx = "open" =>
          n # m /\ job'[n] = job[n] /\ job[n].user \in Users /\ job[n].user # u
    BY <1>0, <1>2, <1>3 DEF TxInv, OpenFor
  <2>2. \A n \in Mutators : \A v : OpenFor(n, v)' => OpenFor(n, v)
    BY <2>1 DEF OpenFor
  <2>3. \A n \in Mutators :
       job'[n].guard \/ job'[n].tx = "open" => job'[n].user \in Users /\ job'[n].kind # "idle"
    BY <1>3 DEF TxInv
  <2>4. \A n \in Mutators :
          job'[n].tx = "open" /\ job'[n].kind = "grant" => job'[n].after = Row(job[n].user)'
    BY <2>1, <1>7 DEF TxInv
  <2>5. \A v \in dayUsed' : sql'[v] # NoRow
    BY <1>2, <1>5 DEF TxInv, TypeOK
  <2> QED BY <2>1, <2>2, <2>3, <2>4, <2>5 DEF TxInv
<1>12. DailyInv'
  <2> SUFFICES ASSUME NEW n \in Mutators, job'[n].current
      PROVE  /\ job'[n].guard /\ job'[n].kind = "daily"
             /\ Overlay(job[n].user)' = {}
             /\ \A o \in Mutators : o # n /\ Touches(o, job[n].user)' =>
                  ~job'[o].guard /\ job'[o].kind = "grant"
             /\ job'[n].tx \in {"done", "ended"} =>
                  job'[n].after = sql'[job'[n].user] /\ sql'[job'[n].user] # NoRow
    BY DEF DailyInv
  <2>1. /\ job[n].current /\ job'[n].user = job[n].user /\ job'[n].guard = job[n].guard
        /\ job'[n].kind = job[n].kind /\ job[n].user \in Users
    BY <1>0, <1>3 DEF DailyInv, TxInv
  <2>2. \A o \in Mutators : Touches(o, job[n].user)' =>
          Touches(o, job[n].user) /\ job'[o].kind = job[o].kind /\ job'[o].guard = job[o].guard
    BY <1>3, <1>9, <2>1
  <2>3. CASE n = m
    BY <1>0, <1>2, <1>3, <1>5, <1>6, <2>1, <2>2, <2>3 DEF DailyInv
  <2>4. CASE n # m
    <3>1. sql'[job[n].user] = sql[job[n].user]
            \/ /\ job[n].user = u /\ job[m].kind = "grant"
      BY <1>0, <1>2, <1>5, <2>1, <2>4 DEF DailyInv, Touches
    <3>2. sql[job[n].user] # NoRow => sql'[job[n].user] = sql[job[n].user]
      BY <3>1, <1>5, <1>8 DEF Row
    <3> QED BY <1>3, <1>6, <2>1, <2>2, <2>4, <3>2 DEF DailyInv
  <2> QED BY <2>3, <2>4
<1>13. LoadInv'
  BY <1>0, <1>1, <1>2, <1>7, EndedLoad
<1>14. RecordInv' /\ SeatInv'
  BY <1>1, RecordsKept, SeatsFrame
<1>15. PublishedIsCurrent'
  <2>1. Readable(u) => job[m].kind = "grant"
    BY <1>0, <1>2 DEF FenceInv, Touches
  <2> QED BY <1>1, <1>6, <1>7, <1>8, <2>1, PublishedKept
<1> QED BY <1>4, <1>10, <1>11, <1>12, <1>13, <1>14, <1>15

LEMMA AbortTxStep ==
  ASSUME BeanInv, NEW m \in Mutators, AbortTx(m)
  PROVE  BeanInv'
<1> USE DEF BeanInv
<1>0. PICK u \in Users : u = job[m].user
  BY DEF AbortTx, TxInv
<1>1. UNCHANGED <<sql, dayUsed, ledger, ready, wallet, avail, pending, accepted, grants,
                  seat, hold, revoked>>
  BY DEF AbortTx, database, memory, table
<1>2. job[m].tx = "open" /\ Ended(m, "failed") /\ faults' \in Nat
  BY DEF AbortTx, TypeOK
<1>3. /\ job' \in [Mutators -> Jobs] /\ load' \in Loads(load'.value)
      /\ \A n \in Mutators : n # m => job'[n] = job[n]
      /\ job'[m].tx # "open"
      /\ job'[m].guard = job[m].guard
      /\ job'[m].current => job[m].guard /\ job[m].current
      /\ job[m].guard => /\ job'[m].kind = job[m].kind /\ job'[m].user = u
                         /\ job'[m].tx = "failed"
  BY <1>0, <1>2, EndedFacts
<1>4. /\ TypeOK' /\ RecordInv' /\ SeatInv' /\ PublishedIsCurrent'
      /\ \A v : /\ Owed(v)' = Owed(v) /\ Row(v)' = Row(v)
                /\ Overlay(v)' = Overlay(v)
  <2>1. /\ avail' \in [Users -> BOOLEAN]
        /\ pending' \in SUBSET Users /\ grants' \in SUBSET Users
    BY <1>1 DEF TypeOK
  <2>2. UNCHANGED <<database, ready, wallet, accepted, table, revoked>>
    BY <1>1 DEF database, table
  <2>3. \A v \in Users : Readable(v)' => Readable(v)
    BY <1>1 DEF Readable
  <2> QED BY <1>2, <1>3, <2>1, <2>2, <2>3, JobsOnly
<1>5. \A n \in Mutators : \A v : Touches(n, v)' =>
        v = job[n].user /\ Touches(n, v) /\ job'[n].kind = job[n].kind
  BY <1>0, <1>3 DEF Touches
<1>6. FenceInv'
  BY <1>1, <1>5, FenceWriter DEF Readable
<1>7. TxInv'
  <2>1. \A n \in Mutators : job'[n].tx = "open" => n # m /\ job'[n] = job[n]
    BY <1>3
  <2>2. \A n \in Mutators : \A v : OpenFor(n, v)' => OpenFor(n, v)
    BY <2>1 DEF OpenFor
  <2>3. \A n \in Mutators :
       job'[n].guard \/ job'[n].tx = "open" => job'[n].user \in Users /\ job'[n].kind # "idle"
    BY <1>3 DEF TxInv
  <2>4. \A n \in Mutators :
          job'[n].tx = "open" /\ job'[n].kind = "grant" => job'[n].after = Row(job[n].user)'
    BY <2>1, <1>4 DEF TxInv
  <2> QED BY <1>1, <2>1, <2>2, <2>3, <2>4 DEF TxInv
<1>8. DailyInv'
  <2> SUFFICES ASSUME NEW n \in Mutators, job'[n].current
      PROVE  /\ job'[n].guard /\ job'[n].kind = "daily"
             /\ Overlay(job[n].user)' = {}
             /\ \A o \in Mutators : o # n /\ Touches(o, job[n].user)' =>
                  ~job'[o].guard /\ job'[o].kind = "grant"
             /\ job'[n].tx \in {"done", "ended"} =>
                  job'[n].after = sql'[job'[n].user] /\ sql'[job'[n].user] # NoRow
    BY DEF DailyInv
  <2>1. /\ job[n].current /\ job'[n].user = job[n].user /\ job'[n].guard = job[n].guard
        /\ job'[n].kind = job[n].kind
    BY <1>0, <1>3 DEF DailyInv
  <2>2. \A o \in Mutators : Touches(o, job[n].user)' =>
          Touches(o, job[n].user) /\ job'[o].kind = job[o].kind /\ job'[o].guard = job[o].guard
    BY <1>3, <1>5, <2>1
  <2>3. job'[n].tx \in {"done", "ended"} => job'[n] = job[n]
    BY <1>3, <2>1 DEF DailyInv
  <2> QED BY <1>1, <1>4, <2>1, <2>2, <2>3 DEF DailyInv
<1>9. LoadInv'
  BY <1>1, <1>2, <1>4, EndedLoad
<1> QED BY <1>4, <1>6, <1>7, <1>8, <1>9

LEMMA PublishDailyStep ==
  ASSUME BeanInv, NEW m \in Mutators, PublishDaily(m)
  PROVE  BeanInv'
<1> USE DEF BeanInv
<1>0. PICK u \in Users : u = job[m].user
  BY DEF PublishDaily, TxInv
<1>1. UNCHANGED <<sql, dayUsed, ledger, ready, accepted, grants, seat, hold, faults, revoked>>
  BY DEF PublishDaily, database, table
<1>2. /\ job[m].current /\ ready /\ job[m].tx \in {"done", "ended"}
      /\ wallet' = [wallet EXCEPT ![u] = job[m].after]
      /\ avail' = [avail EXCEPT ![u] = TRUE]
      /\ pending' = pending \ {u}
      /\ job' = [BumpedJobs({u}) EXCEPT ![m] = Idle] /\ load' = BumpedLoad({u})
  BY <1>0 DEF PublishDaily, MayPublish
<1>3. /\ Overlay(u) = {} /\ job[m].after = sql[u] /\ sql[u] # NoRow
      /\ \A n \in Mutators : n # m /\ Touches(n, u) => ~job[n].guard /\ job[n].kind = "grant"
  BY <1>0, <1>2 DEF DailyInv
<1>4. /\ \A n \in Mutators : n # m => SameJob(n) /\ (job'[n].current => job[n].user # u)
      /\ job'[m] = Idle /\ job' \in [Mutators -> Jobs]
  <2>1. BumpedJobs({u}) \in [Mutators -> Jobs]
    BY BumpFacts
  <2>2. \A n \in Mutators : n # m => job'[n] = BumpedJobs({u})[n]
    BY <1>2, <2>1
  <2>3. job'[m] = Idle /\ job' \in [Mutators -> Jobs]
    BY <1>2, <2>1, IdleFacts
  <2> QED BY <2>2, <2>3, BumpFacts DEF SameJob
<1>5. /\ SameLoad /\ load' \in Loads(load'.value)
      /\ load'.current => u \notin load.users
  BY <1>2, BumpFacts DEF SameLoad
<1>6. \A v : /\ Owed(v)' = Owed(v) /\ Row(v)' = Row(v) /\ Overlay(v)' = Overlay(v)
  BY <1>1, OwedFrame
<1>7. TypeOK'
  <2>1. wallet' \in [Users -> Int \cup {NoRow}]
    BY <1>2, <1>3 DEF TypeOK
  <2>2. avail' \in [Users -> BOOLEAN] /\ pending' \in SUBSET Users
    BY <1>2 DEF TypeOK
  <2> QED BY <1>1, <1>4, <1>5, <2>1, <2>2 DEF TypeOK
<1>8. /\ \A v \in Users : v # u => Readable(v)' = Readable(v) /\ wallet'[v] = wallet[v]
      /\ wallet'[u] = sql[u]
  BY <1>1, <1>2, <1>3 DEF TypeOK, Readable
<1>9. /\ \A n \in Mutators : \A v : Touches(n, v)' => n # m
      /\ \A n \in Mutators : \A v : n # m => Touches(n, v)' = Touches(n, v)
      /\ \A n \in Mutators : n # m => job'[n].kind = job[n].kind
  BY <1>4, IdleFacts DEF Touches, SameJob
<1>10. FenceInv'
  BY <1>3, <1>8, <1>9 DEF FenceInv
<1>11. TxInv'
  <2>1. \A n \in Mutators : job'[n].guard \/ job'[n].tx = "open" => n # m
    BY <1>4, IdleFacts
  <2> QED BY <1>1, <1>4, <1>6, <2>1 DEF TxInv, SameJob, OpenFor
<1>12. DailyInv'
  <2> SUFFICES ASSUME NEW n \in Mutators, job'[n].current
      PROVE  /\ job'[n].guard /\ job'[n].kind = "daily"
             /\ Overlay(job[n].user)' = {}
             /\ \A o \in Mutators : o # n /\ Touches(o, job[n].user)' =>
                  ~job'[o].guard /\ job'[o].kind = "grant"
             /\ job'[n].tx \in {"done", "ended"} =>
                  job'[n].after = sql'[job'[n].user] /\ sql'[job'[n].user] # NoRow
    BY DEF DailyInv
  <2>1. n # m
    BY <1>4, IdleFacts
  <2>2. SameJob(n) /\ job[n].current /\ job'[n].user = job[n].user
    BY <1>4, <2>1 DEF SameJob
  <2>3. \A o \in Mutators : Touches(o, job[n].user)' =>
          Touches(o, job[n].user) /\ job'[o].kind = job[o].kind /\ job'[o].guard = job[o].guard
    BY <1>4, <1>9, <2>2 DEF SameJob
  <2> QED BY <1>1, <1>6, <2>2, <2>3 DEF DailyInv, SameJob
<1>13. LoadInv'
  <2>1. \A n \in Mutators : job'[n].user # u =>
           (job'[n].guard => job[n].guard) /\ (job'[n].tx = "open" => job[n].tx = "open")
             /\ (job'[n].guard \/ job'[n].tx = "open" => job'[n].user = job[n].user)
    BY <1>4, IdleFacts DEF SameJob
  <2> QED BY <1>1, <1>5, <1>6, <2>1, LoadBumped
<1>14. RecordInv' /\ SeatInv'
  BY <1>1, RecordsKept, SeatsFrame
<1>15. PublishedIsCurrent'
  <2>1. Owed(u) = sql[u]
    BY <1>3, OwedAlone DEF Row
  <2> QED BY <1>3, <1>6, <1>8, <2>1 DEF PublishedIsCurrent
<1> QED BY <1>7, <1>10, <1>11, <1>12, <1>13, <1>14, <1>15

LEMMA DropGuardStep ==
  ASSUME BeanInv, NEW m \in Mutators, DropGuard(m)
  PROVE  BeanInv'
<1> USE DEF BeanInv
<1>0. PICK u \in Users : u = job[m].user
  BY DEF DropGuard, TxInv
<1>1. UNCHANGED <<database, ready, wallet, accepted, table, faults, revoked>>
  BY DEF DropGuard
<1> DEFINE j == IF job[m].tx = "open" THEN [BumpedJobs({u})[m] EXCEPT !.guard = FALSE] ELSE Idle
<1>2. /\ job' = [BumpedJobs({u}) EXCEPT ![m] = j] /\ load' = BumpedLoad({u})
      /\ grants' \in SUBSET Users /\ job[m].guard
  BY <1>0 DEF DropGuard, TypeOK
<1>3. /\ j \in Jobs /\ ~j.guard /\ ~j.current
      /\ j.tx = "open" => /\ job[m].tx = "open" /\ j.user = u /\ j.kind = job[m].kind
                          /\ j.after = job[m].after
  <2>1. /\ BumpedJobs({u})[m] \in Jobs /\ BumpedJobs({u})[m].kind = job[m].kind
        /\ BumpedJobs({u})[m].user = u /\ BumpedJobs({u})[m].after = job[m].after
        /\ ~BumpedJobs({u})[m].current
    BY <1>0, BumpFacts
  <2> HIDE DEF BumpedJobs
  <2>2. CASE job[m].tx = "open"
    BY <2>1, <2>2 DEF Jobs
  <2>3. CASE job[m].tx # "open"
    BY <2>3, IdleFacts
  <2> QED BY <2>2, <2>3
<1> HIDE DEF j
<1>4. /\ \A n \in Mutators : n # m => SameJob(n) /\ (job'[n].current => job[n].user # u)
      /\ job'[m] = j /\ job' \in [Mutators -> Jobs]
  <2>1. BumpedJobs({u}) \in [Mutators -> Jobs]
    BY BumpFacts
  <2>2. \A n \in Mutators : n # m => job'[n] = BumpedJobs({u})[n]
    BY <1>2, <2>1
  <2>3. job'[m] = j /\ job' \in [Mutators -> Jobs]
    BY <1>2, <1>3, <2>1
  <2> QED BY <2>2, <2>3, BumpFacts DEF SameJob
<1>5. /\ SameLoad /\ load' \in Loads(load'.value)
      /\ load'.current => u \notin load.users
  BY <1>2, BumpFacts DEF SameLoad
<1>6. /\ avail' \in [Users -> BOOLEAN] /\ pending' \in SUBSET Users
      /\ \A v \in Users : Readable(v)' => Readable(v)
  <2>1. CASE job[m].kind = "grant"
    BY <1>0, <1>1, <2>1 DEF DropGuard, TypeOK, Readable
  <2>2. CASE job[m].kind # "grant"
    BY <1>0, <1>1, <2>2, FencedOff DEF DropGuard
  <2> QED BY <2>1, <2>2
<1>7. /\ TypeOK' /\ RecordInv' /\ SeatInv' /\ PublishedIsCurrent'
      /\ \A v : /\ Owed(v)' = Owed(v) /\ Row(v)' = Row(v)
                /\ Overlay(v)' = Overlay(v)
      /\ UNCHANGED <<sql, dayUsed, ready>>
  <2>1. faults' \in Nat
    BY <1>1 DEF TypeOK
  <2> QED BY <1>1, <1>2, <1>4, <1>5, <1>6, <2>1, JobsOnly
<1>8. \A n \in Mutators : \A v : Touches(n, v)' =>
        Touches(n, v) /\ job'[n].kind = job[n].kind /\ (job'[n].guard => job[n].guard)
  BY <1>0, <1>3, <1>4 DEF Touches, SameJob
<1>9. FenceInv'
  BY <1>6, <1>8, FenceWriter
<1>10. TxInv'
  <2>1. \A n \in Mutators : job'[n].tx = "open" =>
          /\ job[n].tx = "open" /\ job'[n].user = job[n].user
          /\ job'[n].kind = job[n].kind /\ job'[n].after = job[n].after
    BY <1>0, <1>3, <1>4 DEF SameJob
  <2>2. \A n \in Mutators : job'[n].guard => job[n].guard /\ job'[n].user = job[n].user
                                             /\ job'[n].kind = job[n].kind
    BY <1>3, <1>4 DEF SameJob
  <2>3. \A n \in Mutators : \A v : OpenFor(n, v)' => OpenFor(n, v)
    BY <2>1 DEF OpenFor
  <2> QED BY <1>7, <2>1, <2>2, <2>3 DEF TxInv
<1>11. DailyInv'
  <2> SUFFICES ASSUME NEW n \in Mutators, job'[n].current
      PROVE  /\ job'[n].guard /\ job'[n].kind = "daily"
             /\ Overlay(job[n].user)' = {}
             /\ \A o \in Mutators : o # n /\ Touches(o, job[n].user)' =>
                  ~job'[o].guard /\ job'[o].kind = "grant"
             /\ job'[n].tx \in {"done", "ended"} =>
                  job'[n].after = sql'[job'[n].user] /\ sql'[job'[n].user] # NoRow
    BY DEF DailyInv
  <2>1. n # m
    BY <1>3, <1>4
  <2>2. SameJob(n) /\ job[n].current /\ job'[n].user = job[n].user
    BY <1>4, <2>1 DEF SameJob
  <2>3. \A o \in Mutators : Touches(o, job[n].user)' =>
          Touches(o, job[n].user) /\ job'[o].kind = job[o].kind /\ (job'[o].guard => job[o].guard)
    BY <1>8, <2>2
  <2> QED BY <1>7, <2>2, <2>3 DEF DailyInv, SameJob
<1>12. LoadInv'
  <2>1. \A n \in Mutators : job'[n].user # u =>
           (job'[n].guard => job[n].guard) /\ (job'[n].tx = "open" => job[n].tx = "open")
             /\ (job'[n].guard \/ job'[n].tx = "open" => job'[n].user = job[n].user)
    BY <1>3, <1>4 DEF SameJob
  <2> QED BY <1>5, <1>7, <2>1, LoadBumped
<1> QED BY <1>7, <1>9, <1>10, <1>11, <1>12

LEMMA RestartStep ==
  ASSUME BeanInv, Restart
  PROVE  BeanInv'
<1> USE DEF BeanInv
<1>1. UNCHANGED <<sql, dayUsed, ledger, seat, revoked>>
  BY DEF Restart, database
<1>2. /\ ready' = FALSE /\ wallet' = [u \in Users |-> NoRow] /\ avail' = [u \in Users |-> TRUE]
      /\ pending' = {} /\ grants' = {} /\ accepted' = [r \in Records |-> Nothing]
      /\ hold' = [h \in Hands |-> Nothing] /\ load' = NoLoad /\ faults' = faults + 1
  BY DEF Restart
<1>3. \A m \in Mutators :
        /\ job'[m] \in Jobs /\ ~job'[m].guard /\ ~job'[m].current
        /\ job'[m].tx = "open" => /\ job[m].tx = "open" /\ job'[m].user = job[m].user
                                  /\ job'[m].kind = job[m].kind /\ job'[m].after = job[m].after
  <2> TAKE m \in Mutators
  <2>1. job[m] \in Jobs
    BY DEF TypeOK
  <2>2. CASE job[m].tx = "open"
    <3>1. job'[m] = [job[m] EXCEPT !.guard = FALSE, !.current = FALSE]
      BY <2>2 DEF Restart
    <3> QED BY <2>1, <2>2, <3>1 DEF Jobs
  <2>3. CASE job[m].tx # "open"
    <3>1. job'[m] = Idle
      BY <2>3 DEF Restart
    <3> QED BY <3>1, IdleFacts
  <2> QED BY <2>2, <2>3
<1>4. TypeOK'
  <2>1. IsAmounts(Nothing, Int) /\ IsAmounts(Nothing, Nat)
    BY DEF IsAmounts, Nothing
  <2>2. /\ accepted' = [x \in Records |-> accepted'[x]]
        /\ \A x \in Records : IsAmounts(accepted'[x], Int)
    BY <1>2, <2>1
  <2>3. /\ hold' = [h \in Hands |-> hold'[h]]
        /\ \A h \in Hands : IsAmounts(hold'[h], Nat)
    BY <1>2, <2>1
  <2>4. job' \in [Mutators -> Jobs]
    <3>1. job' = [m \in Mutators |-> job'[m]]
      BY DEF Restart
    <3> QED BY <1>3, <3>1
  <2>5. wallet' \in [Users -> Int \cup {NoRow}] /\ avail' \in [Users -> BOOLEAN]
    BY <1>2
  <2>6. faults' \in Nat
    BY <1>2 DEF TypeOK
  <2> QED BY <1>1, <1>2, <2>2, <2>3, <2>4, <2>5, <2>6, NoLoadFacts DEF TypeOK
<1>5. FenceInv' /\ PublishedIsCurrent'
  BY <1>2 DEF FenceInv, PublishedIsCurrent, Readable
<1>6. TxInv'
  <2>1. \A u : Row(u)' = Row(u)
    BY <1>1 DEF Row
  <2>2. \A n \in Mutators : \A v : OpenFor(n, v)' => OpenFor(n, v)
    BY <1>3 DEF OpenFor
  <2> QED BY <1>1, <1>3, <2>1, <2>2 DEF TxInv
<1>7. DailyInv'
  BY <1>3 DEF DailyInv
<1>8. LoadInv'
  BY <1>2, NoLoadFacts DEF LoadInv
<1>9. RecordInv' /\ SeatInv'
  <2>1. \A h \in Hands : ~Undecided(h)'
    BY <1>2 DEF Undecided
  <2>2. \A e \in Effects : DOMAIN accepted'[e] = {}
    BY <1>2 DEF Records, Nothing
  <2> QED BY <2>1, <2>2 DEF RecordInv, SeatInv
<1> QED BY <1>4, <1>5, <1>6, <1>7, <1>8, <1>9

LEMMA BeanInitInv ==
  ASSUME Init PROVE BeanInv
<1>1. /\ ready = FALSE /\ wallet = [u \in Users |-> NoRow] /\ avail = [u \in Users |-> TRUE]
      /\ pending = {} /\ grants = {} /\ accepted = [r \in Records |-> Nothing]
      /\ hold = [h \in Hands |-> Nothing] /\ load = NoLoad /\ faults = 0
      /\ job = [m \in Mutators |-> Idle] /\ sql \in [Users -> InitialRows]
      /\ dayUsed = {} /\ ledger = Legacy \X {"solo"} /\ seat = [u \in Users |-> 0]
      /\ revoked = [u \in Users |-> 0]
  BY DEF Init
<1>2. TypeOK
  <2>1. IsAmounts(Nothing, Int) /\ IsAmounts(Nothing, Nat)
    BY DEF IsAmounts, Nothing
  <2>2. /\ accepted = [x \in Records |-> accepted[x]]
        /\ \A x \in Records : IsAmounts(accepted[x], Int)
    BY <1>1, <2>1
  <2>3. /\ hold = [h \in Hands |-> hold[h]]
        /\ \A h \in Hands : IsAmounts(hold[h], Nat)
    BY <1>1, <2>1
  <2>4. /\ sql \in [Users -> Nat \cup {NoRow}]
        /\ ledger \in SUBSET (Records \X {"own", "quarantine", "solo"})
    BY <1>1, BeanAssumption DEF Records
  <2>5. /\ wallet \in [Users -> Int \cup {NoRow}] /\ avail \in [Users -> BOOLEAN]
        /\ seat \in [Users -> Nat] /\ revoked \in [Users -> Nat]
        /\ job \in [Mutators -> Jobs]
    BY <1>1, IdleFacts
  <2> QED BY <1>1, <2>2, <2>3, <2>4, <2>5, NoLoadFacts DEF TypeOK
<1>3. FenceInv /\ PublishedIsCurrent
  BY <1>1 DEF FenceInv, PublishedIsCurrent, Readable
<1>4. TxInv /\ DailyInv
  BY <1>1, IdleFacts DEF TxInv, DailyInv, OpenFor
<1>5. LoadInv
  BY <1>1, NoLoadFacts DEF LoadInv
<1>6. RecordInv /\ SeatInv
  <2>1. \A h \in Hands : ~Undecided(h)
    BY <1>1 DEF Undecided
  <2>2. \A e \in Effects : DOMAIN accepted[e] = {}
    BY <1>1 DEF Records, Nothing
  <2> QED BY <2>1, <2>2 DEF RecordInv, SeatInv
<1> QED BY <1>2, <1>3, <1>4, <1>5, <1>6 DEF BeanInv

LEMMA BeanStutter ==
  ASSUME BeanInv, UNCHANGED vars PROVE BeanInv'
<1>1. UNCHANGED <<database, memory, table, job, load, revoked, faults>>
  BY DEF vars
<1>2. load' \in Loads(load'.value) /\ faults' \in Nat
  BY <1>1 DEF BeanInv, TypeOK
<1>3. LoadInv'
  <2>1. UNCHANGED <<sql, ledger, accepted, ready, job, load>>
    BY <1>1 DEF database, memory
  <2>2. SameJobs /\ SameLoad /\ \A u : Owed(u)' = Owed(u)
    BY <2>1, OwedFrame DEF SameJobs, SameJob, SameLoad
  <2> QED BY <2>1, <2>2, LoadKept DEF BeanInv
<1> QED BY <1>1, <1>2, <1>3, LoadsOnly

LEMMA BeanNextInv ==
  ASSUME BeanInv, [Next]_vars PROVE BeanInv'
<1>1. ASSUME NEW m \in Mutators, NEW u \in Users, NEW k \in Kinds \cup {"grant"}, Begin(m, u, k)
      PROVE  BeanInv'
  BY <1>1, BeginStep
<1>2. ASSUME NEW m \in Mutators,
             OpenTx(m) \/ RefuseTx(m) \/ CommitTx(m) \/ AbortTx(m) \/ PublishDaily(m) \/ DropGuard(m)
      PROVE  BeanInv'
  BY <1>2, OpenTxStep, RefuseTxStep, CommitTxStep, AbortTxStep, PublishDailyStep, DropGuardStep
<1>3. ASSUME NEW u \in Users, AcceptGrant(u) \/ LeaveSeat(u)
      PROVE  BeanInv'
  BY <1>3, AcceptGrantStep, SeatSteps
<1>4. ASSUME NEW u \in Users, NEW n \in 1..MaxBalance, TakeSeat(u, n) \/ TopUp(u, n)
      PROVE  BeanInv'
  <2>1. n \in Nat
    BY BeanAssumption
  <2> QED BY <1>4, <2>1, SeatSteps
<1>5. ASSUME NEW h \in Hands, NEW S \in SUBSET Users, Deal(h, S)
      PROVE  BeanInv'
  BY <1>5, DealStep
<1>6. ASSUME NEW h \in Hands, NEW d \in Results(h), AcceptHand(h, d)
      PROVE  BeanInv'
  BY <1>6, AcceptHandStep
<1>7. ASSUME NEW e \in Effects, NEW u \in Users,
             Abandon(e, u) \/ \E d \in {-1, 1} : AcceptEffect(e, u, d)
      PROVE  BeanInv'
  BY <1>7, AbandonStep, AcceptEffectStep
<1>8. ASSUME NEW r \in Records, CommitRecord(r) \/ Acknowledge(r)
      PROVE  BeanInv'
  BY <1>8, CommitRecordStep, AcknowledgeStep
<1>9. CASE Loading
  BY <1>9, StartLoadStep, SampleStep, ReadSnapshotStep, InstallStep DEF Loading
<1>10. CASE LoadFails \/ Restart
  BY <1>10, LoadFailsStep, RestartStep
<1>11. CASE UNCHANGED vars
  BY <1>11, BeanStutter
<1> QED BY <1>1, <1>2, <1>3, <1>4, <1>5, <1>6, <1>7, <1>8, <1>9, <1>10, <1>11 DEF Next

\* The inductive invariant of the bean authority.
THEOREM BeanInvariant == Spec => []BeanInv
<1>1. Init => BeanInv
  BY BeanInitInv
<1>2. BeanInv /\ [Next]_vars => BeanInv'
  BY BeanNextInv
<1> QED BY <1>1, <1>2, PTL DEF Spec

\* Every reachable state of the authority is well typed: no durable row, seat
\* reservation or hold goes below zero.
THEOREM BeanTypeOK == Spec => []TypeOK
<1>1. BeanInv => TypeOK
  BY DEF BeanInv
<1> QED BY <1>1, BeanInvariant, PTL

\* A balance that may be read from memory is the durable balance with every
\* accepted effect added, whatever mutations, cancelled requests, loads and
\* restarts race with each other.
THEOREM BeanPublished == Spec => []PublishedIsCurrent
<1>1. BeanInv => PublishedIsCurrent
  BY DEF BeanInv
<1> QED BY <1>1, BeanInvariant, PTL

-----------------------------------------------------------------------------
(* What is at risk stays covered.                                          *)

LEMMA CoversTypes ==
  ASSUME TypeOK, NEW u \in Users
  PROVE  /\ seat[u] \in Nat /\ Owed(u) \in Int /\ revoked[u] \in Nat /\ Row(u) \in Nat
         /\ \A h \in Hands : u \in DOMAIN hold[h] => hold[h][u] \in Nat
         /\ \A m \in Mutators : TxInv /\ OpenFor(m, u) => job[m].after \in Nat
BY OwedFacts DEF TypeOK, IsAmounts, TxInv, OpenFor

LEMMA OwedTypeAfter ==
  ASSUME TypeOK', NEW u \in Users
  PROVE  Row(u)' \in Nat /\ Owed(u)' \in Int
<1>1. Delta(u)' \in [Records -> Int]
  BY DEF TypeOK, Delta, IsAmounts
<1>2. Uncounted(u)' \in SUBSET Records /\ IsFiniteSet(Uncounted(u)')
  BY RecordsFinite, FS_Subset DEF Uncounted, Overlay
<1>3. Row(u)' \in Nat
  BY BeanAssumption DEF TypeOK, Row
<1>4. SumFunctionOnSet(Delta(u)', Uncounted(u)') \in Int
  BY <1>1, <1>2, SumType
<1>5. Owed(u)' = Row(u)' + SumFunctionOnSet(Delta(u)', Uncounted(u)')
  BY DEF Owed, Net, Uncounted
<1> QED BY <1>3, <1>4, <1>5

\* More money covers less risk.
LEMMA CoversKept ==
  ASSUME TypeOK, TypeOK', NEW u \in Users, NEW n \in Int, NEW k \in Int, Covers(n, u), k >= n,
         seat'[u] <= seat[u],
         \A h \in Hands : Undecided(h)' => Undecided(h) /\ hold'[h] = hold[h]
  PROVE  Covers(k, u)'
<1>1. seat[u] \in Nat /\ seat'[u] \in Nat
  BY DEF TypeOK
<1>2. \A h \in Hands : u \in DOMAIN hold[h] => hold[h][u] \in Nat
  BY CoversTypes
<1>3. k >= seat'[u]
  BY <1>1 DEF Covers
<1>4. ASSUME NEW h \in Hands, Undecided(h)', u \in DOMAIN hold'[h]
      PROVE  k >= hold'[h][u]
  <2>1. Undecided(h) /\ u \in DOMAIN hold[h] /\ hold'[h][u] = hold[h][u]
    BY <1>4
  <2>2. n >= hold[h][u] /\ hold[h][u] \in Nat
    BY <1>2, <2>1 DEF Covers
  <2> QED BY <2>1, <2>2
<1> QED BY <1>3, <1>4 DEF Covers

\* The covered amount, alone and after an open transaction.
LEMMA CoverFrom ==
  ASSUME TypeOK', TxInv', NEW u \in Users,
         \E n \in Int : Covers(n, u)' /\ n <= Owed(u)' + revoked'[u],
         \A m \in Mutators : OpenFor(m, u)' =>
           \E n \in Int : Covers(n, u)' /\ n <= job'[m].after - Row(u)' + Owed(u)' + revoked'[u]
  PROVE  /\ Covers(Owed(u) + revoked[u], u)'
         /\ \A m \in Mutators : OpenFor(m, u)' =>
              Covers(job[m].after - Row(u) + Owed(u) + revoked[u], u)'
<1>1. /\ seat'[u] \in Nat /\ Owed(u)' \in Int /\ revoked'[u] \in Nat /\ Row(u)' \in Nat
      /\ \A h \in Hands : u \in DOMAIN hold'[h] => hold'[h][u] \in Nat
      /\ \A m \in Mutators : OpenFor(m, u)' => job'[m].after \in Nat
  BY OwedTypeAfter DEF TypeOK, IsAmounts, TxInv, OpenFor
<1>2. Covers(Owed(u) + revoked[u], u)'
  BY <1>1 DEF Covers
<1>3. ASSUME NEW m \in Mutators, OpenFor(m, u)'
      PROVE  Covers(job[m].after - Row(u) + Owed(u) + revoked[u], u)'
  <2>1. PICK k \in Int : k = job'[m].after - Row(u)' + Owed(u)' + revoked'[u]
    BY <1>1, <1>3
  <2>2. PICK n \in Int : Covers(n, u)' /\ n <= k
    BY <1>3, <2>1
  <2>3. k >= seat'[u] /\ \A h \in Hands : Undecided(h)' /\ u \in DOMAIN hold'[h] => k >= hold'[h][u]
    BY <1>1, <2>1, <2>2 DEF Covers
  <2> QED BY <2>1, <2>3 DEF Covers
<1> QED BY <1>2, <1>3

\* Steps that leave what is owed, release risk and open no transaction.
LEMMA CoverFrame ==
  ASSUME TypeOK, TypeOK', TxInv, TxInv', CoverInv,
         \A u \in Users : /\ Owed(u)' = Owed(u) /\ revoked'[u] = revoked[u]
                          /\ seat'[u] <= seat[u],
         \A m \in Mutators, u \in Users : OpenFor(m, u)' =>
           OpenFor(m, u) /\ job'[m].after = job[m].after /\ Row(u)' = Row(u),
         \A h \in Hands : Undecided(h)' => Undecided(h) /\ hold'[h] = hold[h]
  PROVE  CoverInv'
<1>1. ASSUME NEW u \in Users
      PROVE  /\ Covers(Owed(u) + revoked[u], u)'
             /\ \A m \in Mutators : OpenFor(m, u)' =>
                  Covers(job[m].after - Row(u) + Owed(u) + revoked[u], u)'
  <2>1. \E n \in Int : Covers(n, u)' /\ n <= Owed(u)' + revoked'[u]
    <3>1. PICK n \in Int : n = Owed(u) + revoked[u] /\ Covers(n, u)
      BY CoversTypes DEF CoverInv
    <3>2. n <= Owed(u)' + revoked'[u]
      BY <3>1
    <3>3. Covers(n, u)'
      BY <3>1, CoversKept
    <3> QED BY <3>1, <3>2, <3>3
  <2>2. ASSUME NEW m \in Mutators, OpenFor(m, u)'
        PROVE  \E n \in Int : Covers(n, u)' /\ n <= job'[m].after - Row(u)' + Owed(u)' + revoked'[u]
    <3>1. PICK n \in Int : n = job[m].after - Row(u) + Owed(u) + revoked[u] /\ Covers(n, u)
      BY <2>2, CoversTypes DEF CoverInv
    <3>2. n <= job'[m].after - Row(u)' + Owed(u)' + revoked'[u]
      BY <2>2, <3>1
    <3>3. Covers(n, u)'
      BY <3>1, CoversKept
    <3> QED BY <3>1, <3>2, <3>3
  <2> QED BY <2>1, <2>2, CoverFrom
<1> QED BY <1>1 DEF CoverInv

\* The steps that only move guards, loads and wallets.
LEMMA CoverQuiet ==
  ASSUME BeanInv, BeanInv', CoverInv,
         UNCHANGED <<sql, ledger, accepted, seat, hold, revoked>>,
         \A m \in Mutators : job'[m].tx = "open" =>
           job[m].tx = "open" /\ job'[m].user = job[m].user /\ job'[m].after = job[m].after
  PROVE  CoverInv'
<1>1. \A u : Owed(u)' = Owed(u) /\ Row(u)' = Row(u)
  BY OwedFrame
<1>2. \A h \in Hands : Undecided(h)' => Undecided(h) /\ hold'[h] = hold[h]
  BY DEF Undecided
<1>3. \A m \in Mutators : \A u : OpenFor(m, u)' => OpenFor(m, u) /\ job'[m].after = job[m].after
  BY DEF OpenFor
<1>4. \A u \in Users : seat'[u] <= seat[u]
  BY DEF BeanInv, TypeOK
<1> QED BY <1>1, <1>2, <1>3, <1>4, CoverFrame DEF BeanInv

LEMMA CoverQuietSteps ==
  ASSUME BeanInv, BeanInv', CoverInv,
         \/ \E m \in Mutators, u \in Users, k \in Kinds \cup {"grant"} : Begin(m, u, k)
         \/ \E m \in Mutators : RefuseTx(m) \/ AbortTx(m) \/ PublishDaily(m) \/ DropGuard(m)
         \/ \E u \in Users : AcceptGrant(u)
         \/ Loading \/ LoadFails
  PROVE  CoverInv'
<1> DEFINE Quiet == /\ UNCHANGED <<sql, ledger, accepted, seat, hold, revoked>>
                    /\ \A m \in Mutators : job'[m].tx = "open" =>
                         /\ job[m].tx = "open" /\ job'[m].user = job[m].user
                         /\ job'[m].after = job[m].after
<1>0. TypeOK
  BY DEF BeanInv
<1>1. ASSUME NEW m \in Mutators, NEW u \in Users, NEW k \in Kinds \cup {"grant"}, Begin(m, u, k)
      PROVE  Quiet
  <2>1. UNCHANGED <<sql, ledger, accepted, seat, hold, revoked>>
    BY <1>1 DEF Begin, database, table
  <2>2. job'[m].tx = "none"
    <3>1. BumpedJobs({u}) \in [Mutators -> Jobs]
      BY <1>0, BumpFacts
    <3>2. PICK c : job'[m] = [Idle EXCEPT !.kind = k, !.user = u, !.guard = TRUE, !.current = c]
      BY <1>1, <3>1 DEF Begin
    <3> QED BY <3>2 DEF Idle
  <2>3. \A n \in Mutators : n # m => job'[n] = BumpedJobs({u})[n]
    <3>1. PICK j : job' = [BumpedJobs({u}) EXCEPT ![m] = j]
      BY <1>1, Zenon DEF Begin
    <3>2. BumpedJobs({u}) \in [Mutators -> Jobs]
      BY <1>0, BumpFacts
    <3> QED BY <3>1, <3>2
  <2> QED BY <1>0, <2>1, <2>2, <2>3, BumpFacts
<1>2. ASSUME NEW m \in Mutators, RefuseTx(m)
      PROVE  Quiet
  <2>1. UNCHANGED <<sql, ledger, accepted, seat, hold, revoked>>
    BY <1>2 DEF RefuseTx, database, memory, table
  <2>2. \A n \in Mutators : job'[n].tx = "open" => n # m
    BY <1>0, <1>2 DEF RefuseTx, TypeOK, Jobs
  <2>3. \A n \in Mutators : n # m => job'[n] = job[n]
    BY <1>0, <1>2 DEF RefuseTx, TypeOK
  <2> QED BY <2>1, <2>2, <2>3
<1>3. ASSUME NEW m \in Mutators, AbortTx(m)
      PROVE  Quiet
  <2>1. UNCHANGED <<sql, ledger, accepted, seat, hold, revoked>>
    BY <1>3 DEF AbortTx, database, memory, table
  <2>2. Ended(m, "failed")
    BY <1>3 DEF AbortTx
  <2> QED BY <1>0, <2>1, <2>2, EndedFacts
<1>4. ASSUME NEW m \in Mutators, PublishDaily(m)
      PROVE  Quiet
  <2>1. UNCHANGED <<sql, ledger, accepted, seat, hold, revoked>>
    BY <1>4 DEF PublishDaily, database, table
  <2>2. PICK u : job' = [BumpedJobs({u}) EXCEPT ![m] = Idle]
    BY <1>4 DEF PublishDaily
  <2>3. /\ job'[m].tx = "none" /\ \A n \in Mutators : n # m => job'[n] = BumpedJobs({u})[n]
    BY <1>0, <2>2, BumpFacts, IdleFacts
  <2> QED BY <1>0, <2>1, <2>3, BumpFacts
<1>5. ASSUME NEW m \in Mutators, DropGuard(m)
      PROVE  Quiet
  <2>1. UNCHANGED <<sql, ledger, accepted, seat, hold, revoked>>
    BY <1>5 DEF DropGuard, database, table
  <2>2. PICK u : job' = [BumpedJobs({u}) EXCEPT ![m] =
                  IF job[m].tx = "open" THEN [BumpedJobs({u})[m] EXCEPT !.guard = FALSE] ELSE Idle]
    BY <1>5 DEF DropGuard
  <2> DEFINE b == BumpedJobs({u})
  <2>3. /\ b \in [Mutators -> Jobs]
        /\ \A n \in Mutators : b[n].tx = job[n].tx /\ b[n].user = job[n].user /\ b[n].after = job[n].after
    BY <1>0, BumpFacts
  <2> HIDE DEF b
  <2>4. /\ job'[m] = IF job[m].tx = "open" THEN [b[m] EXCEPT !.guard = FALSE] ELSE Idle
        /\ \A n \in Mutators : n # m => job'[n] = b[n]
    BY <2>2, <2>3 DEF b
  <2>5. job'[m].tx = "open" => job[m].tx = "open" /\ job'[m].user = b[m].user /\ job'[m].after = b[m].after
    <3>1. CASE job[m].tx = "open"
      BY <2>3, <2>4, <3>1 DEF Jobs
    <3>2. CASE job[m].tx # "open"
      BY <2>4, <3>2, IdleFacts
    <3> QED BY <3>1, <3>2
  <2> QED BY <2>1, <2>3, <2>4, <2>5
<1>6. ASSUME NEW u \in Users, AcceptGrant(u)
      PROVE  Quiet
  <2>1. UNCHANGED <<sql, ledger, accepted, seat, hold, revoked>>
    BY <1>6 DEF AcceptGrant, database, table
  <2> QED BY <1>0, <1>6, <2>1, BumpFacts DEF AcceptGrant
<1>7. ASSUME Loading \/ LoadFails
      PROVE  Quiet
  BY <1>7 DEF Loading, LoadFails, StartHydrate, StartRefresh, SampleTransactions, ReadSnapshot,
     Install, database, memory, table
<1>8. Quiet
  BY <1>1, <1>2, <1>3, <1>4, <1>5, <1>6, <1>7
<1> QED BY <1>8, CoverQuiet

\* A wallet that may be spent is what is owed, and only a first grant's
\* transaction, which changes nothing, is open beside it.
LEMMA SpendableFacts ==
  ASSUME BeanInv, NEW u \in Users, MaySpendMemory(u)
  PROVE  /\ wallet[u] = Owed(u) /\ wallet[u] \in Int
         /\ \A m \in Mutators : OpenFor(m, u) => job[m].after = Row(u)
<1> USE DEF BeanInv
<1>1. Readable(u) /\ wallet[u] # NoRow
  BY DEF MaySpendMemory
<1>2. wallet[u] = Owed(u)
  BY <1>1 DEF PublishedIsCurrent
<1>3. \A m \in Mutators : OpenFor(m, u) => job[m].after = Row(u)
  BY <1>1 DEF FenceInv, TxInv, OpenFor, Touches
<1> QED BY <1>2, <1>3, OwedFacts

\* What is available is unreserved.
LEMMA AvailableFacts ==
  ASSUME TypeOK, NEW u \in Users, NEW w \in Int, NEW b \in BOOLEAN
  PROVE  /\ Available(u, w, b) \in Nat
         /\ Available(u, w, b) > 0 => Available(u, w, b) = w - Reserved(u, b)
<1>1. Reserved(u, b) \in Nat
  BY ReservedFacts
<1>2. PICK x \in Int : x = w - Reserved(u, b)
  BY <1>1
<1>3. Available(u, w, b) = Max({0, x})
  BY <1>2 DEF Available
<1>4. Max({0, x}) = IF 0 >= x THEN 0 ELSE x
  BY MaxOfTwo
<1> QED BY <1>2, <1>3, <1>4

LEMMA CoverSeat ==
  ASSUME BeanInv, BeanInv', CoverInv, NEW u \in Users, NEW n \in Nat,
         TakeSeat(u, n) \/ TopUp(u, n)
  PROVE  CoverInv'
<1> USE DEF BeanInv
<1>1. UNCHANGED <<sql, ledger, accepted, hold, job, revoked>>
  BY DEF TakeSeat, TopUp, database, memory
<1>2. seat'[u] = n /\ \A v \in Users : v # u => seat'[v] = seat[v]
  BY DEF TakeSeat, TopUp, TypeOK
<1>3. /\ \A v : Owed(v)' = Owed(v) /\ Row(v)' = Row(v)
      /\ \A v : \A m \in Mutators : OpenFor(m, v)' = OpenFor(m, v)
      /\ \A h : Undecided(h)' = Undecided(h)
  BY <1>1, OwedFrame DEF OpenFor, Undecided
<1>4. Owed(u) \in Int /\ Owed(u) >= n /\ \A m \in Mutators : OpenFor(m, u) => job[m].after = Row(u)
  <2>1. /\ wallet[u] = Owed(u) /\ wallet[u] \in Int
        /\ \A m \in Mutators : OpenFor(m, u) => job[m].after = Row(u)
    BY SpendableFacts DEF TakeSeat, TopUp
  <2>2. CASE TakeSeat(u, n)
    <3>1. n > 0 /\ Available(u, wallet[u], FALSE) >= n
      BY <2>2 DEF TakeSeat
    <3>2. PICK r \in Nat : r = Reserved(u, FALSE)
      BY ReservedFacts
    <3>3. Available(u, wallet[u], FALSE) \in Nat
      BY <2>1, AvailableFacts
    <3>4. Available(u, wallet[u], FALSE) > 0 =>
            Available(u, wallet[u], FALSE) = wallet[u] - Reserved(u, FALSE)
      BY <2>1, AvailableFacts
    <3>5. PICK a \in Nat : a >= n /\ (a > 0 => a = wallet[u] - r)
      BY <3>1, <3>2, <3>3, <3>4
    <3>6. wallet[u] - r >= n
      BY <3>1, <3>5
    <3> QED BY <2>1, <3>6
  <2>3. CASE TopUp(u, n)
    BY <2>1, <2>3 DEF TopUp
  <2> QED BY <2>1, <2>2, <2>3
<1>5. \A h \in Hands : Undecided(h) /\ u \in DOMAIN hold[h] =>
        Owed(u) + revoked[u] >= hold[h][u]
  BY DEF CoverInv, Covers
<1>6. ASSUME NEW v \in Users
      PROVE  /\ Covers(Owed(v) + revoked[v], v)'
             /\ \A m \in Mutators : OpenFor(m, v)' =>
                  Covers(job[m].after - Row(v) + Owed(v) + revoked[v], v)'
  <2>1. CASE v # u
    BY <1>1, <1>2, <1>3, <2>1 DEF CoverInv, Covers
  <2>2. CASE v = u
    <3>1. revoked[u] \in Nat /\ Row(u) \in Nat
      BY CoversTypes
    <3>2. Covers(Owed(u) + revoked[u], u)'
      BY <1>1, <1>2, <1>3, <1>4, <1>5, <3>1 DEF Covers
    <3>3. \A m \in Mutators : OpenFor(m, u)' =>
            (job[m].after - Row(u) + Owed(u) + revoked[u])' = (Owed(u) + revoked[u])'
      BY <1>1, <1>3, <1>4, <3>1
    <3>4. \A m \in Mutators : OpenFor(m, u)' =>
            Covers(job[m].after - Row(u) + Owed(u) + revoked[u], u)'
      BY <3>2, <3>3 DEF Covers
    <3> QED BY <2>2, <3>2, <3>4
  <2> QED BY <2>1, <2>2
<1> QED BY <1>6 DEF CoverInv

LEMMA CoverLeave ==
  ASSUME BeanInv, BeanInv', CoverInv, NEW u \in Users, LeaveSeat(u)
  PROVE  CoverInv'
<1> USE DEF BeanInv
<1>1. UNCHANGED <<sql, ledger, accepted, hold, job, revoked>>
  BY DEF LeaveSeat, database, memory
<1>2. \A v \in Users : seat'[v] <= seat[v]
  BY DEF LeaveSeat, TypeOK
<1>3. /\ \A v : Owed(v)' = Owed(v) /\ Row(v)' = Row(v)
      /\ \A v : \A m \in Mutators : OpenFor(m, v)' = OpenFor(m, v)
      /\ \A h \in Hands : Undecided(h)' = Undecided(h)
  BY <1>1, OwedFrame DEF OpenFor, Undecided
<1> QED BY <1>1, <1>2, <1>3, CoverFrame

LEMMA CoverDeal ==
  ASSUME BeanInv, BeanInv', CoverInv, NEW h \in Hands, NEW S \in SUBSET Users, Deal(h, S)
  PROVE  CoverInv'
<1> USE DEF BeanInv
<1>1. UNCHANGED <<sql, ledger, accepted, seat, job, revoked>>
  BY DEF Deal, database, memory
<1>2. /\ \A v : Owed(v)' = Owed(v) /\ Row(v)' = Row(v)
      /\ \A v : \A m \in Mutators : OpenFor(m, v)' = OpenFor(m, v)
  BY <1>1, OwedFrame DEF OpenFor
<1>3. \A g \in Hands : Undecided(g)' => g = h
  BY <1>1 DEF Deal, TypeOK, Undecided
<1>4. hold'[h] = [v \in S |-> seat[v]]
  BY DEF Deal, TypeOK
<1>5. ASSUME NEW v \in Users, NEW n, Covers(n, v)
      PROVE  n >= seat'[v] /\ \A g \in Hands : Undecided(g)' /\ v \in DOMAIN hold'[g] => n >= hold'[g][v]
  BY <1>1, <1>3, <1>4, <1>5 DEF Covers
<1> QED BY <1>1, <1>2, <1>5 DEF CoverInv, Covers

LEMMA CoverOpen ==
  ASSUME BeanInv, BeanInv', CoverInv, "refund" \notin Kinds, NEW m \in Mutators, OpenTx(m)
  PROVE  CoverInv'
<1> USE DEF BeanInv
<1>0. PICK u \in Users : u = job[m].user
  BY DEF OpenTx, TxInv
<1>1. UNCHANGED <<sql, ledger, accepted, seat, hold, revoked>>
  BY DEF OpenTx, database, memory, table
<1>2. \A v : Owed(v)' = Owed(v) /\ Row(v)' = Row(v)
  BY <1>1, OwedFrame
<1>3. /\ job'[m].after = After(job[m].kind, u) /\ job'[m].user = u
      /\ \A n \in Mutators : n # m => job'[n] = job[n]
  BY <1>0 DEF OpenTx, TypeOK, Jobs
<1>4. /\ job[m].kind \in (Kinds \ {"refund"}) \cup {"grant"} /\ Allowed(job[m].kind, u)
  BY <1>0 DEF OpenTx, TxInv, TypeOK, Jobs
<1>5. /\ Row(u) \in Nat /\ Owed(u) \in Int /\ revoked[u] \in Nat /\ seat[u] \in Nat
      /\ \A h \in Hands : u \in DOMAIN hold[h] => hold[h][u] \in Nat
  BY CoversTypes
<1>6. PICK a \in Nat : a = After(job[m].kind, u)
  BY <1>4, AfterFacts
<1>7. Covers(a - Row(u) + Owed(u) + revoked[u], u)
  <2>1. CASE job[m].kind = "debit"
    <3>1. sql[u] \in Nat /\ Row(u) = sql[u] /\ a = sql[u] - 1
      BY <1>4, <1>6, <2>1 DEF Allowed, After, Row, TypeOK
    <3>2. PICK l \in Nat : l = Losses(u) /\ Owed(u) >= Row(u) - l
      BY LossesBound
    <3>3. PICK r \in Nat : /\ r = Reserved(u, TRUE) /\ r >= seat[u] + l
                           /\ \A h \in Open(u) : r >= hold[h][u] + l
      BY <3>2, ReservedFacts
    <3>4. PICK x \in Int : x = sql[u] - r
      BY <3>1
    <3>5. Max({0, x}) >= 1
      <4>1. Available(u, sql[u], TRUE) = Max({0, x})
        BY <3>3, <3>4 DEF Available
      <4>2. Available(u, sql[u], TRUE) >= 1
        BY <1>4, <2>1 DEF Allowed
      <4> QED BY <4>1, <4>2
    <3>6. Max({0, x}) = IF 0 >= x THEN 0 ELSE x
      BY MaxOfTwo
    <3>7. sql[u] - r >= 1
      BY <3>4, <3>5, <3>6
    <3>8. a - Row(u) + Owed(u) + revoked[u] >= r - l
      <4>1. a >= r
        BY <3>1, <3>7
      <4> QED BY <1>5, <3>2, <4>1
    <3>9. \A h \in Hands : u \in DOMAIN hold[h] => h \in Open(u)
      BY DEF Open
    <3>10. PICK k \in Int : k = a - Row(u) + Owed(u) + revoked[u] /\ k >= r - l
      BY <1>5, <3>8
    <3>11. k >= seat[u] /\ \A h \in Hands : u \in DOMAIN hold[h] => k >= hold[h][u]
      <4>1. k >= seat[u]
        <5>1. r >= seat[u] + l
          BY <3>3
        <5>2. k >= r - l
          BY <3>10
        <5> QED BY <1>5, <5>1, <5>2
      <4>2. ASSUME NEW h \in Hands, u \in DOMAIN hold[h] PROVE k >= hold[h][u]
        <5>1. hold[h][u] \in Nat /\ r >= hold[h][u] + l
          BY <1>5, <3>3, <3>9, <4>2
        <5>2. k >= r - l
          BY <3>10
        <5> QED BY <5>1, <5>2
      <4> QED BY <4>1, <4>2
    <3> QED BY <3>10, <3>11 DEF Covers
  <2>2. CASE job[m].kind # "debit"
    <3>1. a >= Row(u)
      BY <1>4, <1>5, <1>6, <2>2, BeanAssumption DEF After
    <3>2. Covers(Owed(u) + revoked[u], u)
      BY DEF CoverInv
    <3> QED BY <1>5, <1>6, <3>1, <3>2 DEF Covers
  <2> QED BY <2>1, <2>2
<1>8. \A h \in Hands : Undecided(h)' = Undecided(h)
  BY <1>1 DEF Undecided
<1>9. \A n, v : Covers(n, v) =>
        n >= seat'[v] /\ \A g \in Hands : Undecided(g)' /\ v \in DOMAIN hold'[g] => n >= hold'[g][v]
  BY <1>1, <1>8 DEF Covers
<1>10. ASSUME NEW v \in Users
      PROVE  /\ Covers(Owed(v) + revoked[v], v)'
             /\ \A n \in Mutators : OpenFor(n, v)' =>
                  Covers(job[n].after - Row(v) + Owed(v) + revoked[v], v)'
  <2>1. Covers(Owed(v) + revoked[v], v)'
    BY <1>1, <1>2, <1>9 DEF CoverInv, Covers
  <2>2. ASSUME NEW n \in Mutators, OpenFor(n, v)', n # m
        PROVE  Covers(job[n].after - Row(v) + Owed(v) + revoked[v], v)'
    <3>1. OpenFor(n, v) /\ job'[n].after = job[n].after
      BY <1>3, <2>2 DEF OpenFor
    <3> QED BY <3>1, <1>1, <1>2, <1>9 DEF CoverInv, Covers
  <2>3. ASSUME OpenFor(m, v)'
        PROVE  Covers(job[m].after - Row(v) + Owed(v) + revoked[v], v)'
    <3>1. v = u /\ job'[m].after = a
      BY <1>3, <1>6, <2>3 DEF OpenFor
    <3> QED BY <3>1, <1>1, <1>2, <1>7, <1>9 DEF Covers
  <2> QED BY <2>1, <2>2, <2>3
<1> QED BY <1>10 DEF CoverInv

LEMMA CoverCommit ==
  ASSUME BeanInv, BeanInv', CoverInv, NEW m \in Mutators, CommitTx(m)
  PROVE  CoverInv'
<1> USE DEF BeanInv
<1>0. PICK u \in Users : u = job[m].user
  BY DEF CommitTx, TxInv
<1>1. UNCHANGED <<ledger, accepted, seat, hold, revoked>>
  BY DEF CommitTx, memory, table
<1>2. /\ job[m].tx = "open" /\ Ended(m, "done") /\ job[m].after \in Nat
      /\ sql' = [sql EXCEPT ![u] = job[m].after] /\ OpenFor(m, u)
  BY <1>0 DEF CommitTx, TxInv, OpenFor
<1>3. \A v : Uncounted(v)' = Uncounted(v) /\ Delta(v)' = Delta(v)
  BY <1>1 DEF Overlay, Uncounted, Committed, Delta
<1>4. \A v \in Users : v # u => Owed(v)' = Owed(v) /\ Row(v)' = Row(v)
  <2>1. \A v \in Users : v # u => Row(v)' = Row(v)
    BY <1>2 DEF Row, TypeOK
  <2> QED BY <1>3, <2>1, OwedKept
<1>5. Owed(u)' = job[m].after - Row(u) + Owed(u)
  <2>1. Row(u)' = job[m].after
    BY <1>2, BeanAssumption DEF Row, TypeOK
  <2>2. PICK s \in Int : s = SumFunctionOnSet(Delta(u), Uncounted(u))
    <3>1. Delta(u) \in [Records -> Int] /\ Uncounted(u) \in SUBSET Records /\ IsFiniteSet(Uncounted(u))
      BY OwedFacts
    <3> QED BY <3>1, SumType
  <2>3. Owed(u) = Row(u) + s /\ Row(u) \in Nat
    BY <2>2, OwedFacts
  <2>4. Owed(u)' = Row(u)' + SumFunctionOnSet(Delta(u)', Uncounted(u)')
    BY DEF Owed, Net, Uncounted
  <2>5. Owed(u)' = Row(u)' + s
    BY <1>3, <2>2, <2>4
  <2> QED BY <1>2, <2>1, <2>3, <2>5
<1>6. \A n \in Mutators, v \in Users : OpenFor(n, v)' =>
        OpenFor(n, v) /\ n # m /\ v # u /\ job'[n] = job[n]
  <2>1. job'[m].tx # "open" /\ \A n \in Mutators : n # m => job'[n] = job[n]
    BY <1>2, EndedFacts
  <2> QED BY <1>2, <2>1 DEF OpenFor, TxInv
<1>7. \A h \in Hands : Undecided(h)' = Undecided(h)
  BY <1>1 DEF Undecided
<1>8. \A n, v : Covers(n, v) =>
        n >= seat'[v] /\ \A g \in Hands : Undecided(g)' /\ v \in DOMAIN hold'[g] => n >= hold'[g][v]
  BY <1>1, <1>7 DEF Covers
<1>9. ASSUME NEW v \in Users
      PROVE  /\ Covers(Owed(v) + revoked[v], v)'
             /\ \A n \in Mutators : OpenFor(n, v)' =>
                  Covers(job[n].after - Row(v) + Owed(v) + revoked[v], v)'
  <2>1. CASE v = u
    <3>1. Covers(job[m].after - Row(u) + Owed(u) + revoked[u], u)
      BY <1>2 DEF CoverInv
    <3>2. Covers(Owed(u)' + revoked[u], u)
      BY <1>5, <3>1
    <3> QED BY <1>1, <1>6, <1>8, <2>1, <3>2 DEF Covers
  <2>2. CASE v # u
    <3>1. Covers(Owed(v) + revoked[v], v)'
      BY <1>1, <1>4, <1>8, <2>2 DEF CoverInv, Covers
    <3>2. ASSUME NEW n \in Mutators, OpenFor(n, v)'
          PROVE  Covers(job[n].after - Row(v) + Owed(v) + revoked[v], v)'
      <4>1. OpenFor(n, v) /\ job'[n] = job[n]
        BY <1>6, <3>2
      <4> QED BY <4>1, <1>1, <1>4, <1>8, <2>2 DEF CoverInv, Covers
    <3> QED BY <3>1, <3>2
  <2> QED BY <2>1, <2>2
<1> QED BY <1>9 DEF CoverInv

LEMMA CoverHand ==
  ASSUME BeanInv, BeanInv', CoverInv, NEW h \in Hands, NEW d \in Results(h), AcceptHand(h, d)
  PROVE  CoverInv'
<1> USE DEF BeanInv
<1> DEFINE S == DOMAIN hold[h]
<1>1. UNCHANGED <<sql, ledger, hold, revoked>> /\ accepted' = [accepted EXCEPT ![h] = d]
  BY DEF AcceptHand, database
<1>2. /\ S \subseteq Users /\ d \in [S -> Int] /\ DOMAIN d = S
      /\ \A u \in S : hold[h][u] \in Nat /\ d[u] >= -hold[h][u]
  BY BeanAssumption DEF Results, TypeOK, IsAmounts
<1>3. /\ h \in Records /\ accepted[h] = Nothing /\ Undecided(h) /\ ~Committed(h)
  BY DEF RecordInv, Undecided, AcceptHand, Nothing, Records
<1>4. \A g \in Hands : ~Undecided(g)'
  <2>1. \A g \in Hands : Undecided(g) => g = h
    BY <1>3 DEF SeatInv
  <2>2. d # Nothing
    BY <1>2 DEF AcceptHand, Nothing
  <2> QED BY <1>1, <2>1, <2>2 DEF Undecided, TypeOK, Records
<1>5. \A v \in Users : v \in S => Owed(v)' = Owed(v) + d[v] /\ Row(v)' = Row(v)
  BY <1>1, <1>2, <1>3, OwedAccepts
<1>6. \A v \in Users : v \notin S => Owed(v)' = Owed(v) /\ Row(v)' = Row(v)
  <2>1. \A v \in Users : v \notin DOMAIN accepted[h]
    BY <1>3 DEF Nothing
  <2>2. \A v : Row(v)' = Row(v)
    BY <1>1 DEF Row
  <2> QED BY <1>1, <1>2, <1>3, <2>1, <2>2, OwedOthers
<1>7. \A v \in Users : seat'[v] = IF v \in S /\ seat[v] > 0 THEN seat[v] + d[v] ELSE seat[v]
  BY DEF AcceptHand
<1>8. SameJobs
  BY BumpSame DEF AcceptHand
<1>9. \A v : \A m \in Mutators : OpenFor(m, v)' = OpenFor(m, v) /\ job'[m].after = job[m].after
  BY <1>8 DEF SameJobs, SameJob, OpenFor
\* The same argument for what is owed now and after an open transaction.
<1>10. ASSUME NEW v \in Users, NEW n \in Int, Covers(n, v),
              NEW k \in Int, k = IF v \in S THEN n + d[v] ELSE n
       PROVE  Covers(k, v)'
  <2>1. seat[v] \in Nat /\ n >= seat[v]
    BY <1>10 DEF Covers, TypeOK
  <2>2. CASE v \in S
    <3>1. d[v] \in Int /\ hold[h][v] \in Nat /\ d[v] >= -hold[h][v] /\ n >= hold[h][v]
      BY <1>2, <1>3, <1>10, <2>2 DEF Covers
    <3>2. k >= seat'[v]
      BY <1>7, <1>10, <2>1, <2>2, <3>1
    <3> QED BY <1>4, <3>2 DEF Covers
  <2>3. CASE v \notin S
    BY <1>4, <1>7, <1>10, <2>1, <2>3 DEF Covers
  <2> QED BY <2>2, <2>3
<1>11. ASSUME NEW v \in Users
       PROVE  /\ Covers(Owed(v) + revoked[v], v)'
              /\ \A m \in Mutators : OpenFor(m, v)' =>
                   Covers(job[m].after - Row(v) + Owed(v) + revoked[v], v)'
  <2>1. PICK x \in Int : x = IF v \in S THEN d[v] ELSE 0
    BY <1>2
  <2>2. /\ Owed(v) \in Int /\ revoked[v] \in Nat /\ Row(v) \in Nat
        /\ Owed(v)' = Owed(v) + x /\ Row(v)' = Row(v) /\ revoked'[v] = revoked[v]
    BY <1>1, <1>5, <1>6, <2>1, CoversTypes
  <2>3. \E n \in Int : Covers(n, v)' /\ n <= Owed(v)' + revoked'[v]
    <3>1. PICK n \in Int : n = Owed(v) + revoked[v] /\ Covers(n, v)
      BY <2>2 DEF CoverInv
    <3>2. PICK k \in Int : k = n + x
      BY <3>1
    <3>3. Covers(k, v)'
      BY <1>10, <2>1, <3>1, <3>2
    <3>4. k <= Owed(v)' + revoked'[v]
      BY <2>2, <3>1, <3>2
    <3> QED BY <3>3, <3>4
  <2>4. ASSUME NEW m \in Mutators, OpenFor(m, v)'
        PROVE  \E n \in Int : Covers(n, v)' /\ n <= job'[m].after - Row(v)' + Owed(v)' + revoked'[v]
    <3>1. OpenFor(m, v) /\ job'[m].after = job[m].after /\ job[m].after \in Nat
      BY <1>9, <2>4, CoversTypes
    <3>2. PICK n \in Int : n = job[m].after - Row(v) + Owed(v) + revoked[v] /\ Covers(n, v)
      BY <2>2, <3>1 DEF CoverInv
    <3>3. PICK k \in Int : k = n + x
      BY <3>2
    <3>4. Covers(k, v)'
      BY <1>10, <2>1, <3>2, <3>3
    <3>5. k <= job'[m].after - Row(v)' + Owed(v)' + revoked'[v]
      BY <2>2, <3>1, <3>2, <3>3
    <3> QED BY <3>4, <3>5
  <2> QED BY <2>3, <2>4, CoverFrom
<1> QED BY <1>11 DEF CoverInv

LEMMA CoverEffect ==
  ASSUME BeanInv, BeanInv', CoverInv, NEW e \in Effects, NEW u \in Users, NEW d \in Int,
         AcceptEffect(e, u, d)
  PROVE  CoverInv'
<1> USE DEF BeanInv
<1> DEFINE f == [v \in {u} |-> d]
<1>1. /\ UNCHANGED <<sql, ledger, seat, hold, revoked>>
      /\ accepted' = [accepted EXCEPT ![e] = f] /\ accepted[e] = Nothing /\ ~Committed(e)
      /\ e \in Records
  BY DEF AcceptEffect, database, table, Records
<1>2. \A h \in Hands : Undecided(h)' = Undecided(h)
  <2>1. \A h \in Hands : accepted'[h] = accepted[h]
    BY <1>1, BeanAssumption DEF TypeOK, Records
  <2> QED BY <1>1, <2>1 DEF Undecided
<1>3. DOMAIN f = {u} /\ f[u] = d
  OBVIOUS
<1> HIDE DEF f
<1>4. Owed(u)' = Owed(u) + d
  BY <1>1, <1>3, OwedAccepts
<1>5. \A v : Row(v)' = Row(v)
  BY <1>1 DEF Row
<1>6. \A v \in Users : v # u => Owed(v)' = Owed(v)
  <2>1. \A v : v \notin DOMAIN accepted[e]
    BY <1>1 DEF Nothing
  <2> QED BY <1>1, <1>3, <2>1, OwedOthers
<1>7. SameJobs
  BY BumpSame DEF AcceptEffect
<1>8. \A v : \A m \in Mutators : OpenFor(m, v)' = OpenFor(m, v) /\ job'[m].after = job[m].after
  BY <1>7 DEF SameJobs, SameJob, OpenFor
<1>9. /\ wallet[u] = Owed(u) /\ wallet[u] \in Int
      /\ \A m \in Mutators : OpenFor(m, u) => job[m].after = Row(u)
  BY SpendableFacts DEF AcceptEffect
<1>10. /\ seat[u] \in Nat /\ revoked[u] \in Nat /\ Row(u) \in Nat
       /\ \A h \in Hands : u \in DOMAIN hold[h] => hold[h][u] \in Nat
  BY CoversTypes
<1>11. PICK k \in Int : k = Owed(u) + d + revoked[u]
  BY <1>9, <1>10
<1>12. Covers(k, u)'
  <2>1. CASE d >= 0
    <3>1. PICK n \in Int : n = Owed(u) + revoked[u] /\ Covers(n, u)
      BY <1>9, <1>10 DEF CoverInv
    <3>2. k >= n
      BY <1>9, <1>10, <1>11, <2>1, <3>1
    <3>3. seat'[u] <= seat[u]
      BY <1>1, <1>10
    <3> QED BY <1>1, <1>2, <3>1, <3>2, <3>3, CoversKept
  <2>2. CASE d < 0
    <3>1. PICK r \in Nat : /\ r = Reserved(u, FALSE) /\ r >= seat[u]
                           /\ \A h \in Open(u) : r >= hold[h][u]
      <4>1. Reserved(u, FALSE) \in Nat
        BY ReservedFacts
      <4>2. Reserved(u, FALSE) >= seat[u] + 0 /\ \A h \in Open(u) : Reserved(u, FALSE) >= hold[h][u] + 0
        BY ReservedFacts
      <4>3. seat[u] + 0 = seat[u] /\ \A h \in Open(u) : hold[h][u] + 0 = hold[h][u]
        BY <1>10 DEF Open
      <4>4. Reserved(u, FALSE) >= seat[u]
        BY <4>2, <4>3
      <4>5. \A h \in Open(u) : Reserved(u, FALSE) >= hold[h][u]
        BY <4>2, <4>3
      <4> QED BY <4>1, <4>4, <4>5
    <3>2. PICK x \in Int : x = wallet[u] - r
      BY <1>9
    <3>3. Max({0, x}) >= -d
      <4>1. Available(u, wallet[u], FALSE) = Max({0, x})
        BY <3>1, <3>2 DEF Available
      <4>2. Available(u, wallet[u], FALSE) >= -d
        BY DEF AcceptEffect
      <4> QED BY <4>1, <4>2
    <3>4. Max({0, x}) = IF 0 >= x THEN 0 ELSE x
      BY MaxOfTwo
    <3>5. k >= r
      BY <1>9, <1>10, <1>11, <2>2, <3>2, <3>3, <3>4
    <3>6. ASSUME NEW h \in Hands, u \in DOMAIN hold[h] PROVE k >= hold[h][u]
      <4>1. r >= hold[h][u] /\ hold[h][u] \in Nat
        BY <1>10, <3>1, <3>6 DEF Open
      <4> QED BY <3>5, <4>1
    <3>7. k >= seat'[u]
      <4>1. r >= seat[u]
        BY <3>1
      <4> QED BY <1>1, <1>10, <3>5, <4>1
    <3> QED BY <1>1, <3>6, <3>7 DEF Covers
  <2> QED BY <2>1, <2>2
<1>13. ASSUME NEW v \in Users
       PROVE  /\ Covers(Owed(v) + revoked[v], v)'
              /\ \A m \in Mutators : OpenFor(m, v)' =>
                   Covers(job[m].after - Row(v) + Owed(v) + revoked[v], v)'
  <2>1. CASE v = u
    <3>1. k <= Owed(u)' + revoked'[u]
      BY <1>1, <1>4, <1>9, <1>10, <1>11
    <3>2. \A m \in Mutators : OpenFor(m, u)' =>
            k <= job'[m].after - Row(u)' + Owed(u)' + revoked'[u]
      BY <1>1, <1>4, <1>5, <1>8, <1>9, <1>10, <1>11
    <3> QED BY <1>12, <2>1, <3>1, <3>2, CoverFrom
  <2>2. CASE v # u
    <3>1. \A n : Covers(n, v) =>
            n >= seat'[v] /\ \A g \in Hands : Undecided(g)' /\ v \in DOMAIN hold'[g] => n >= hold'[g][v]
      BY <1>1, <1>2 DEF Covers
    <3>2. Owed(v)' = Owed(v) /\ Row(v)' = Row(v) /\ revoked' = revoked
      BY <1>1, <1>5, <1>6, <2>2
    <3> QED BY <1>8, <3>1, <3>2 DEF CoverInv, Covers
  <2> QED BY <2>1, <2>2
<1> QED BY <1>13 DEF CoverInv

LEMMA CoverCommitRecord ==
  ASSUME BeanInv, BeanInv', CoverInv, NEW r \in Records, CommitRecord(r)
  PROVE  CoverInv'
<1> USE DEF BeanInv
<1>1. UNCHANGED <<accepted, seat, hold, job, revoked>>
  BY DEF CommitRecord, memory, table
<1>2. \A u \in Users : Owed(u)' = Owed(u)
  BY CommitRecordOwed
<1>3. \A m \in Mutators, u \in Users : OpenFor(m, u)' =>
        OpenFor(m, u) /\ job'[m].after = job[m].after /\ Row(u)' = Row(u)
  <2> SUFFICES ASSUME NEW m \in Mutators, NEW u \in Users, OpenFor(m, u)'
      PROVE  OpenFor(m, u) /\ job'[m].after = job[m].after /\ Row(u)' = Row(u)
    OBVIOUS
  <2>1. OpenFor(m, u)
    BY <1>1 DEF OpenFor
  <2>2. u \notin DOMAIN accepted[r]
    BY <2>1 DEF CommitRecord, Locked, OpenFor
  <2>3. sql'[u] = sql[u]
    BY <2>2 DEF CommitRecord
  <2> QED BY <1>1, <2>1, <2>3 DEF Row
<1>4. \A h \in Hands : Undecided(h)' => Undecided(h) /\ hold'[h] = hold[h]
  BY <1>1 DEF Undecided
<1>5. \A u \in Users : seat'[u] <= seat[u]
  BY <1>1 DEF TypeOK
<1> QED BY <1>1, <1>2, <1>3, <1>4, <1>5, CoverFrame

LEMMA CoverAcknowledge ==
  ASSUME BeanInv, BeanInv', CoverInv, NEW r \in Records, Acknowledge(r)
  PROVE  CoverInv'
<1> USE DEF BeanInv
<1>1. UNCHANGED <<sql, ledger, seat, revoked>>
  BY DEF Acknowledge, database
<1>2. /\ \A x \in Records : x # r => accepted'[x] = accepted[x]
      /\ accepted'[r] = Nothing /\ Committed(r)
  BY DEF Acknowledge, TypeOK
<1>3. \A v \in Users : Owed(v)' = Owed(v) /\ Row(v)' = Row(v)
  <2> TAKE v \in Users
  <2>1. Uncounted(v)' = Uncounted(v) /\ Row(v)' = Row(v)
    BY <1>1, <1>2 DEF Uncounted, Overlay, Committed, Row, Nothing
  <2>2. \A x \in Uncounted(v) : Delta(v)'[x] = Delta(v)[x]
    BY <1>2 DEF Uncounted, Overlay, Delta
  <2> QED BY <2>1, <2>2, OwedKept
<1>4. SameJobs
  BY BumpSame DEF Acknowledge
<1>5. \A v : \A m \in Mutators : OpenFor(m, v)' => OpenFor(m, v) /\ job'[m].after = job[m].after
  BY <1>4 DEF SameJobs, SameJob, OpenFor
<1>6. \A h \in Hands : Undecided(h)' => Undecided(h) /\ hold'[h] = hold[h]
  BY <1>2 DEF Acknowledge, Undecided, Records
<1>7. \A u \in Users : seat'[u] <= seat[u]
  BY <1>1 DEF TypeOK
<1> QED BY <1>1, <1>3, <1>5, <1>6, <1>7, CoverFrame

\* A win taken back is remembered, a loss taken back is money returned.
LEMMA CoverAbandon ==
  ASSUME BeanInv, BeanInv', CoverInv, NEW e \in Effects, NEW u \in Users, Abandon(e, u)
  PROVE  CoverInv'
<1> USE DEF BeanInv
<1>1. /\ UNCHANGED <<sql, ledger, seat, hold>> /\ e \in Records
      /\ accepted' = [accepted EXCEPT ![e] = Nothing]
      /\ u \in DOMAIN accepted[e] /\ ~Committed(e)
      /\ \A v \in Users : v # u => v \notin DOMAIN accepted[e]
  BY DEF Abandon, database, table, RecordInv, Records
<1>2. PICK x \in Int : x = accepted[e][u]
  BY <1>1 DEF TypeOK, IsAmounts
<1>3. /\ Row(u) \in Nat /\ Owed(u) \in Int /\ revoked[u] \in Nat
      /\ \A v : Row(v)' = Row(v)
  BY <1>1, CoversTypes DEF Row
<1>4. Owed(u)' = Owed(u) - x
  <2>1. \A y \in Records : y # e => accepted'[y] = accepted[y]
    BY <1>1 DEF TypeOK
  <2>2. accepted'[e] = Nothing
    BY <1>1 DEF TypeOK
  <2>3. e \in Uncounted(u) /\ Uncounted(u)' = Uncounted(u) \ {e}
    BY <1>1, <2>1, <2>2 DEF Uncounted, Overlay, Committed, Nothing
  <2>4. \A y \in Uncounted(u) \ {e} : Delta(u)'[y] = Delta(u)[y]
    BY <2>1 DEF Uncounted, Overlay, Delta
  <2>5. Owed(u)' = Row(u)' + (Owed(u) - Row(u) - accepted[e][u])
    BY <2>3, <2>4, OwedWithout
  <2> QED BY <1>2, <1>3, <2>5
<1>5. revoked'[u] \in Int /\ revoked'[u] >= revoked[u] + x /\ revoked'[u] >= revoked[u]
  <2>1. Max({0, x}) = IF 0 >= x THEN 0 ELSE x
    BY MaxOfTwo
  <2>2. revoked'[u] = revoked[u] + Max({0, x})
    BY <1>2 DEF Abandon, TypeOK
  <2> QED BY <1>3, <2>1, <2>2
<1>6. \A v \in Users : v # u => Owed(v)' = Owed(v) /\ revoked'[v] = revoked[v]
  <2>1. DOMAIN Nothing = {}
    BY DEF Nothing
  <2> QED BY <1>1, <2>1, OwedOthers DEF Abandon, TypeOK
<1>7. SameJobs
  BY BumpSame DEF Abandon
<1>8. \A v : \A m \in Mutators : OpenFor(m, v)' => OpenFor(m, v) /\ job'[m].after = job[m].after
  BY <1>7 DEF SameJobs, SameJob, OpenFor
<1>9. \A h \in Hands : Undecided(h)' => Undecided(h) /\ hold'[h] = hold[h]
  <2>1. \A h \in Hands : accepted'[h] = accepted[h]
    BY <1>1, BeanAssumption DEF TypeOK, Records
  <2> QED BY <1>1, <2>1 DEF Undecided
<1>10. \A v \in Users : seat'[v] <= seat[v]
  BY <1>1 DEF TypeOK
<1>11. ASSUME NEW v \in Users
       PROVE  /\ Covers(Owed(v) + revoked[v], v)'
              /\ \A m \in Mutators : OpenFor(m, v)' =>
                   Covers(job[m].after - Row(v) + Owed(v) + revoked[v], v)'
  <2>0. /\ Owed(v) \in Int /\ revoked[v] \in Int /\ Owed(v)' \in Int /\ revoked'[v] \in Int
        /\ Row(v) \in Nat /\ Row(v)' = Row(v)
        /\ Owed(v) + revoked[v] <= Owed(v)' + revoked'[v]
    BY <1>3, <1>4, <1>5, <1>6, CoversTypes
  <2>1. \E n \in Int : Covers(n, v)' /\ n <= Owed(v)' + revoked'[v]
    <3>1. PICK n \in Int : n = Owed(v) + revoked[v] /\ Covers(n, v)
      BY <2>0 DEF CoverInv
    <3>2. Covers(n, v)'
      BY <1>9, <1>10, <3>1, CoversKept
    <3> QED BY <2>0, <3>1, <3>2
  <2>2. ASSUME NEW m \in Mutators, OpenFor(m, v)'
        PROVE  \E n \in Int : Covers(n, v)' /\ n <= job'[m].after - Row(v)' + Owed(v)' + revoked'[v]
    <3>1. OpenFor(m, v) /\ job'[m].after = job[m].after /\ job[m].after \in Nat
      BY <1>8, <2>2, CoversTypes
    <3>2. PICK n \in Int : n = job[m].after - Row(v) + Owed(v) + revoked[v] /\ Covers(n, v)
      BY <2>0, <3>1 DEF CoverInv
    <3>3. Covers(n, v)'
      BY <1>9, <1>10, <3>2, CoversKept
    <3>4. n <= job'[m].after - Row(v)' + Owed(v)' + revoked'[v]
      BY <2>0, <3>1, <3>2
    <3> QED BY <3>3, <3>4
  <2> QED BY <2>1, <2>2, CoverFrom
<1> QED BY <1>11 DEF CoverInv

LEMMA CoverRestart ==
  ASSUME BeanInv, BeanInv', CoverInv, Restart
  PROVE  CoverInv'
<1> USE DEF BeanInv
<1>1. /\ \A u \in Users : seat'[u] = 0 /\ Overlay(u)' = {}
      /\ \A h \in Hands : ~Undecided(h)'
      /\ UNCHANGED <<sql, revoked>>
  BY DEF Restart, database, Overlay, Undecided, Nothing
<1>2. ASSUME NEW u \in Users, NEW n \in Nat PROVE Covers(n, u)'
  BY <1>1 DEF Covers
<1>3. \A u \in Users : Owed(u)' = Row(u)' /\ Row(u)' \in Nat /\ revoked'[u] \in Nat
  <2> TAKE u \in Users
  <2>1. Uncounted(u)' = {}
    BY <1>1 DEF Uncounted
  <2>2. SumFunctionOnSet(Delta(u)', {}) = 0
    BY SumEmpty
  <2>3. Owed(u)' = Row(u)' + SumFunctionOnSet(Delta(u)', Uncounted(u)')
    BY DEF Owed, Net, Uncounted
  <2> QED BY <2>1, <2>2, <2>3, OwedTypeAfter DEF TypeOK
<1>4. ASSUME NEW u \in Users
      PROVE  /\ Covers(Owed(u) + revoked[u], u)'
             /\ \A m \in Mutators : OpenFor(m, u)' =>
                  Covers(job[m].after - Row(u) + Owed(u) + revoked[u], u)'
  <2>1. \E n \in Int : Covers(n, u)' /\ n <= Owed(u)' + revoked'[u]
    BY <1>2, <1>3
  <2>2. ASSUME NEW m \in Mutators, OpenFor(m, u)'
        PROVE  \E n \in Int : Covers(n, u)' /\ n <= job'[m].after - Row(u)' + Owed(u)' + revoked'[u]
    <3>1. job'[m].after \in Nat
      BY <2>2 DEF TxInv, OpenFor
    <3>2. 0 <= job'[m].after - Row(u)' + Owed(u)' + revoked'[u]
      BY <1>3, <3>1
    <3> QED BY <1>2, <3>2
  <2> QED BY <2>1, <2>2, CoverFrom
<1> QED BY <1>4 DEF CoverInv

LEMMA CoverInit ==
  ASSUME Init, BeanInv PROVE CoverInv
<1> USE DEF BeanInv
<1>1. /\ \A u \in Users : seat[u] = 0 /\ Overlay(u) = {} /\ revoked[u] = 0
      /\ \A h \in Hands : ~Undecided(h)
      /\ \A m \in Mutators : job[m].tx # "open"
  BY IdleFacts DEF Init, Overlay, Undecided, Nothing
<1>2. \A u \in Users : Owed(u) = Row(u) /\ Row(u) \in Nat
  BY <1>1, OwedAlone, OwedFacts
<1> QED BY <1>1, <1>2 DEF CoverInv, Covers, OpenFor

LEMMA CoverNext ==
  ASSUME BeanInv, BeanInv', CoverInv, "refund" \notin Kinds, [Next]_vars
  PROVE  CoverInv'
<1>1. CASE \/ \E m \in Mutators, u \in Users, k \in Kinds \cup {"grant"} : Begin(m, u, k)
           \/ \E m \in Mutators : RefuseTx(m) \/ AbortTx(m) \/ PublishDaily(m) \/ DropGuard(m)
           \/ \E u \in Users : AcceptGrant(u)
           \/ Loading \/ LoadFails
  BY <1>1, CoverQuietSteps
<1>2. ASSUME NEW m \in Mutators, OpenTx(m) \/ CommitTx(m)
      PROVE  CoverInv'
  BY <1>2, CoverOpen, CoverCommit
<1>3. ASSUME NEW u \in Users, LeaveSeat(u)
      PROVE  CoverInv'
  BY <1>3, CoverLeave
<1>4. ASSUME NEW u \in Users, NEW n \in 1..MaxBalance, TakeSeat(u, n) \/ TopUp(u, n)
      PROVE  CoverInv'
  <2>1. n \in Nat
    BY BeanAssumption
  <2> QED BY <1>4, <2>1, CoverSeat
<1>5. ASSUME NEW h \in Hands, NEW S \in SUBSET Users, Deal(h, S)
      PROVE  CoverInv'
  BY <1>5, CoverDeal
<1>6. ASSUME NEW h \in Hands, NEW d \in Results(h), AcceptHand(h, d)
      PROVE  CoverInv'
  BY <1>6, CoverHand
<1>7. ASSUME NEW e \in Effects, NEW u \in Users,
             Abandon(e, u) \/ \E d \in {-1, 1} : AcceptEffect(e, u, d)
      PROVE  CoverInv'
  BY <1>7, CoverAbandon, CoverEffect
<1>8. ASSUME NEW r \in Records, CommitRecord(r) \/ Acknowledge(r)
      PROVE  CoverInv'
  BY <1>8, CoverCommitRecord, CoverAcknowledge
<1>9. CASE Restart
  BY <1>9, CoverRestart
<1>10. CASE UNCHANGED vars
  <2>1. UNCHANGED <<sql, ledger, accepted, seat, hold, revoked, job>>
    BY <1>10 DEF vars, database, memory, table
  <2> QED BY <2>1, CoverQuiet
<1> QED BY <1>1, <1>2, <1>3, <1>4, <1>5, <1>6, <1>7, <1>8, <1>9, <1>10 DEF Next

LEMMA CoverMeansLosses ==
  ASSUME TypeOK, TxInv, CoverInv PROVE LossesCovered
<1> SUFFICES ASSUME NEW u \in Users
    PROVE  LET atRisk == Max({seat[u]} \cup {hold[h][u] : h \in {g \in Open(u) : accepted[g] = Nothing}})
               spent == {m \in Mutators : job[m].tx = "open" /\ job[m].user = u}
               covered == Owed(u) + revoked[u]
           IN /\ covered >= atRisk
              /\ \A m \in spent : job[m].after - Row(u) + covered >= atRisk
  BY DEF LossesCovered
<1> DEFINE P == {g \in Open(u) : accepted[g] = Nothing}
           f == [h \in P |-> hold[h][u]]
           T == {seat[u]} \cup {hold[h][u] : h \in P}
<1>1. IsFiniteSet(P)
  BY BeanAssumption, FS_Subset DEF Open
<1>2. f \in [P -> Nat] /\ seat[u] \in Nat
  BY DEF Open, TypeOK, IsAmounts
<1>3. seat[u] \in T /\ \A h \in P : f[h] \in T
  OBVIOUS
<1>4. \A t \in T : t = seat[u] \/ \E h \in P : t = f[h]
  OBVIOUS
<1>5. \A h \in P : h \in Hands /\ Undecided(h) /\ u \in DOMAIN hold[h] /\ f[h] = hold[h][u]
  BY DEF Open, Undecided, Nothing
<1>6. \A n : Covers(n, u) => n >= seat[u] /\ \A h \in P : n >= f[h]
  BY <1>5 DEF Covers
<1> HIDE DEF f, T, P
<1>7. Max(T) \in T
  <2>1. f \in [P -> Int] /\ seat[u] \in Int
    BY <1>2
  <2> QED BY <1>1, <1>3, <1>4, <2>1, MaxRange
<1>8. \A n : Covers(n, u) => n >= Max(T)
  BY <1>4, <1>6, <1>7
<1>9. Owed(u) + revoked[u] >= Max(T)
  BY <1>8 DEF CoverInv
<1>10. ASSUME NEW m \in Mutators, OpenFor(m, u)
       PROVE  job[m].after - Row(u) + (Owed(u) + revoked[u]) >= Max(T)
  <2>1. job[m].after - Row(u) + Owed(u) + revoked[u] >= Max(T)
    BY <1>8, <1>10 DEF CoverInv
  <2>2. job[m].after \in Nat /\ Row(u) \in Nat /\ Owed(u) \in Int /\ revoked[u] \in Nat
    BY <1>10, CoversTypes
  <2>3. job[m].after - Row(u) + (Owed(u) + revoked[u]) = job[m].after - Row(u) + Owed(u) + revoked[u]
    BY <2>2
  <2> QED BY <2>1, <2>3
<1> QED BY <1>9, <1>10 DEF T, P, OpenFor

\* What is at risk is covered in every state, unless refunds are taken back:
\* a refund lowers the row below the accepted losses.
THEOREM BeanLossesCovered ==
  ASSUME "refund" \notin Kinds PROVE Spec => []LossesCovered
<1>1. Init /\ BeanInv => CoverInv
  BY CoverInit
<1>2. BeanInv /\ BeanInv' /\ CoverInv /\ [Next]_vars => CoverInv'
  BY CoverNext
<1>3. BeanInv /\ CoverInv => LossesCovered
  BY CoverMeansLosses DEF BeanInv
<1> QED BY <1>1, <1>2, <1>3, BeanInvariant, PTL DEF Spec
=============================================================================
