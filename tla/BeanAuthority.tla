--------------------------- MODULE BeanAuthority ---------------------------
(***************************************************************************)
(* The gold-bean authority: one in-memory wallet per user in front of the  *)
(* SQL wallet rows (beans_read_memory.rs, beans_pending_effects.rs,        *)
(* beans_reservations.rs and the SQL operations of beans.rs).              *)
(*                                                                         *)
(* Poker hands and lottery effects are accepted in memory and committed    *)
(* later by their writers; every other writer holds a Mutation guard       *)
(* around its SQL transaction, which fences the user's memory wallet until *)
(* the refresh loop has read it again.  A guard may be dropped while its   *)
(* COMMIT is still in flight.                                              *)
(*                                                                         *)
(* A generation number is modelled by what it is compared for: `current'   *)
(* says that no bump of the user's generation happened since it was taken. *)
(***************************************************************************)
EXTENDS Integers, FiniteSets, FiniteSetsExt

CONSTANTS
  Users,       \* wallet owners
  Mutators,    \* concurrent holders of a Mutation guard
  Hands,       \* ids of poker hands
  Effects,     \* ids of lottery effects
  Legacy,      \* hands whose id an old solo receipt already uses
  Kinds,       \* the SQL operations tried: debit, refund, credit, daily
  Grant,       \* GRANT: the first balance of a wallet
  DailyGrant,  \* DAILY_REFILL_TO
  InitialRows, \* wallet rows a user may have before the process starts
  MaxBalance,  \* bound on a balance
  MaxFaults,   \* bound on restarts, aborted transactions and failed loads
  NoRow,       \* no wallet row, no wallet in memory
  Nobody       \* the user of an idle job

ASSUME BeanAssumption ==
  /\ IsFiniteSet(Users) /\ IsFiniteSet(Hands) /\ IsFiniteSet(Effects)
  /\ Hands \cap Effects = {} /\ Legacy \subseteq Hands
  /\ Kinds \subseteq {"debit", "refund", "credit", "daily"}
  /\ {Grant, DailyGrant, MaxBalance, MaxFaults} \subseteq Nat
  /\ InitialRows \subseteq Nat \cup {NoRow}
  /\ NoRow \notin Int /\ Nobody \notin Users

VARIABLES
  sql,       \* wallets.balance, or NoRow
  dayUsed,   \* users whose daily_usage row of today is committed
  ledger,    \* wallet_ledger play rows: <<record, id it is written under>>
  ready,     \* Inner.ready
  wallet,    \* User.wallet's balance, or NoRow
  avail,     \* User.available
  pending,   \* Inner.pending
  accepted,  \* User.poker and User.effects: record -> user -> delta
  grants,    \* first grants waiting in the ordered writer
  seat,      \* the user's reserved table stack
  hold,      \* holds: hand -> user -> amount at risk (empty: no open hand)
  job,       \* mutator -> its guard and its transaction
  load,      \* the refresh loop, or hydrate
  revoked,   \* history: wins that were accepted and then abandoned
  faults

database == <<sql, dayUsed, ledger>>
memory   == <<ready, wallet, avail, pending, accepted, grants>>
table    == <<seat, hold>>
vars     == <<database, memory, table, job, load, revoked, faults>>

Records == Hands \cup Effects
Nothing == [u \in {} |-> 0]
Idle    == [kind |-> "idle", user |-> Nobody, guard |-> FALSE, tx |-> "none",
            after |-> 0, current |-> FALSE]
NoLoad  == [kind |-> "idle", phase |-> "idle", users |-> {}, current |-> FALSE,
            waits |-> {}, value |-> Nothing]

(* An amount for each of some users. *)
IsAmounts(f, T) == f \in [DOMAIN f -> T] /\ DOMAIN f \subseteq Users

Jobs ==
  [kind : Kinds \cup {"grant", "idle"}, user : Users \cup {Nobody}, guard : BOOLEAN,
   tx : {"none", "open", "done", "ended", "failed"}, after : Nat \cup {NoRow},
   current : BOOLEAN]
Loads(value) ==
  [kind : {"idle", "refresh", "hydrate"}, phase : {"idle", "captured", "sampled", "read"},
   users : SUBSET Users, current : BOOLEAN, waits : SUBSET Mutators, value : {value}]

(* One type invariant. *)
TypeOK ==
  /\ sql \in [Users -> Nat \cup {NoRow}]
  /\ dayUsed \in SUBSET Users
  /\ ledger \in SUBSET (Records \X {"own", "quarantine", "solo"})
  /\ ready \in BOOLEAN
  /\ wallet \in [Users -> Int \cup {NoRow}]
  /\ avail \in [Users -> BOOLEAN]
  /\ pending \in SUBSET Users /\ grants \in SUBSET Users
  /\ accepted = [r \in Records |-> accepted[r]]
  /\ \A r \in Records : IsAmounts(accepted[r], Int)
  /\ seat \in [Users -> Nat]
  /\ hold = [h \in Hands |-> hold[h]]
  /\ \A h \in Hands : IsAmounts(hold[h], Nat)
  /\ job \in [Mutators -> Jobs]
  /\ load \in Loads(load.value)
  /\ revoked \in [Users -> Nat]
  /\ faults \in Nat

-----------------------------------------------------------------------------
(* Reading the state. *)

(* Inner.active_users *)
Active(u) == {m \in Mutators : job[m].guard /\ job[m].user = u}

(* The wallet row is locked by an open transaction. *)
Locked(u) == \E m \in Mutators : job[m].tx = "open" /\ job[m].user = u

(* What the accepted records do to the user's balance. *)
Delta(u)   == [r \in Records |-> IF u \in DOMAIN accepted[r] THEN accepted[r][u] ELSE 0]
Overlay(u) == {r \in Records : u \in DOMAIN accepted[r]}
Net(S, u)  == SumFunctionOnSet(Delta(u), S)
Losses(u)  == SumFunctionOnSet([r \in Records |-> Max({0, -Delta(u)[r]})], Overlay(u))

(* The ledger rows that prove a record committed: its own receipt or the
   quarantine receipt that names it, never an old solo receipt. *)
Committed(r) == {<<r, "own">>, <<r, "quarantine">>} \cap ledger # {}

(* profile, ensure: a fenced wallet is not served. *)
Readable(u) == ready /\ avail[u]

(* initial_grant_ready: the row of a first grant is committed. *)
GrantDurable(u) == sql[u] # NoRow

(* ensure_on: a missing row is inserted with the grant. *)
Row(u) == IF sql[u] = NoRow THEN Grant ELSE sql[u]

(* Hands the user was dealt into whose hold is not released. *)
Open(u) == {h \in Hands : u \in DOMAIN hold[h]}

\* Mutant: a SQL debit forgets the accepted losses its row lacks.
ReservedInMemory(u, sqlBalance) == Max({seat[u]} \cup {hold[h][u] : h \in Open(u)})

(* reserved: per table the larger of the hold and of the seat; a debit of the
   SQL balance also keeps the accepted losses covered. *)
Reserved(u, sqlBalance) ==
  Max({seat[u]} \cup {hold[h][u] : h \in Open(u)})
    + (IF sqlBalance THEN Losses(u) ELSE 0)

(* available *)
Available(u, balance, sqlBalance) == Max({0, balance - Reserved(u, sqlBalance)})

(* Bound: no sequence of commits of what is now accepted or open lets the
   balance pass MaxBalance after adding n. *)
Bounded(u, n) ==
  LET rows == {Row(u)} \cup {job[m].after : m \in {k \in Mutators : job[k].tx = "open" /\ job[k].user = u}}
      wins == SumFunctionOnSet([r \in Records |-> Max({0, Delta(u)[r]})],
                               {r \in Overlay(u) : ~Committed(r)})
  IN n > 0 => Max(rows) + wins + n <= MaxBalance

-----------------------------------------------------------------------------
(* Generations. *)

Stale(j, us) == IF j.user \in us THEN [j EXCEPT !.current = FALSE] ELSE j

(* Inner.epoch advances and becomes the generation of `us'. *)
BumpedJobs(us) == [m \in Mutators |-> Stale(job[m], us)]
BumpedLoad(us) ==
  IF load.kind = "hydrate" \/ load.users \cap us # {}
  THEN [load EXCEPT !.current = FALSE] ELSE load

(* invalidate_locked without the generation; nothing to fence before ready. *)
Invalidated(u) ==
  /\ avail' = [avail EXCEPT ![u] = @ /\ ~ready]
  /\ pending' = IF ready THEN pending \cup {u} ELSE pending

-----------------------------------------------------------------------------
(* Mutation guards and the SQL transactions under them. *)

(* The ordered writer of first grants works on one user at a time. *)
GrantTurn(u) == u \in grants /\ \A n \in Mutators : job[n].kind # "grant"

(* mutation, daily_mutation and the grant writer's begin_mutation: register,
   bump, and (except for a grant) fence the user. *)
Begin(m, u, k) ==
  /\ job[m] = Idle
  /\ k = "grant" => GrantTurn(u)
  /\ k = "daily" => /\ Readable(u) /\ wallet[u] # NoRow /\ GrantDurable(u)
                    /\ \A n \in Active(u) : job[n].kind # "daily"
  /\ job' = [BumpedJobs({u}) EXCEPT ![m] =
               [Idle EXCEPT !.kind = k, !.user = u, !.guard = TRUE,
                  !.current = /\ k = "daily"
                              /\ Readable(u) /\ Active(u) = {}
                              /\ wallet[u] # NoRow /\ Overlay(u) = {}]]
  /\ load' = BumpedLoad({u})
  /\ IF k = "grant" THEN UNCHANGED <<avail, pending>> ELSE Invalidated(u)
  /\ UNCHANGED <<database, ready, wallet, accepted, grants, table, faults, revoked>>

(* What each operation may write, under the row lock. *)
Allowed(k, u) ==
  CASE k = "debit"  -> ready /\ sql[u] # NoRow /\ Available(u, sql[u], TRUE) >= 1
    [] k = "refund" -> sql[u] # NoRow /\ seat[u] = 0 /\ Open(u) = {}
    [] k = "credit" -> TRUE
    [] k = "daily"  -> u \notin dayUsed
    [] k = "grant"  -> TRUE

After(k, u) ==
  CASE k = "debit"  -> sql[u] - 1
    [] k = "refund" -> sql[u] - Min({1, sql[u]})
    [] k = "credit" -> Row(u) + 1
    [] k = "daily"  -> Row(u) + DailyGrant
    [] k = "grant"  -> Row(u)

(* BEGIN, lock the wallet row, check, write. *)
OpenTx(m) ==
  LET u == job[m].user IN
  /\ job[m].guard /\ job[m].tx = "none" /\ ~Locked(u)
  /\ Allowed(job[m].kind, u)
  /\ Bounded(u, After(job[m].kind, u) - Row(u))
  /\ job' = [job EXCEPT ![m].tx = "open", ![m].after = After(job[m].kind, u)]
  /\ UNCHANGED <<database, memory, table, load, faults, revoked>>

(* The check refuses: a rollback that is acknowledged.  An already claimed
   day still reports the balance it read. *)
RefuseTx(m) ==
  LET u == job[m].user IN
  /\ job[m].guard /\ job[m].tx = "none" /\ ~Locked(u)
  /\ ~Allowed(job[m].kind, u)
  /\ job' = [job EXCEPT ![m].tx = "ended", ![m].after = IF job[m].kind = "daily" THEN sql[u] ELSE 0]
  /\ UNCHANGED <<database, memory, table, load, faults, revoked>>

(* The server ends transaction m: nobody waits for it any more.  Only a daily
   claim still uses the balance it wrote. *)
Ended(m, t) ==
  /\ job' = [job EXCEPT ![m] = IF ~job[m].guard THEN Idle
               ELSE [job[m] EXCEPT !.tx = t,
                       !.after = IF job[m].kind = "daily" THEN job[m].after ELSE 0]]
  /\ load' = [load EXCEPT !.waits = @ \ {m}]

(* COMMIT takes effect in the database, whether or not anyone is listening. *)
CommitTx(m) ==
  /\ job[m].tx = "open"
  /\ sql' = [sql EXCEPT ![job[m].user] = job[m].after]
  /\ dayUsed' = IF job[m].kind = "daily" THEN dayUsed \cup {job[m].user} ELSE dayUsed
  /\ Ended(m, "done")
  /\ UNCHANGED <<ledger, memory, table, faults, revoked>>

AbortTx(m) ==
  /\ job[m].tx = "open" /\ faults < MaxFaults
  /\ faults' = faults + 1
  /\ Ended(m, "failed")
  /\ UNCHANGED <<database, memory, table, revoked>>

(* publish_daily's conditions. *)
MayPublish(m) ==
  /\ job[m].kind = "daily" /\ job[m].tx \in {"done", "ended"}
  /\ ready /\ job[m].current
  /\ Active(job[m].user) = {m}

(* publish_daily: the wallet is published without a reload, then the guard is
   dropped without fencing. *)
PublishDaily(m) ==
  LET u == job[m].user IN
  /\ job[m].guard /\ MayPublish(m)
  /\ wallet' = [wallet EXCEPT ![u] = job[m].after]
  /\ avail' = [avail EXCEPT ![u] = TRUE]
  /\ pending' = pending \ {u}
  /\ job' = [BumpedJobs({u}) EXCEPT ![m] = Idle]
  /\ load' = BumpedLoad({u})
  /\ UNCHANGED <<database, ready, accepted, grants, table, faults, revoked>>

(* Drop for Mutation, after the transaction or in the middle of it when the
   request is cancelled: the transaction then lives on at the server. *)
DropGuard(m) ==
  LET u == job[m].user IN
  /\ job[m].guard /\ ~MayPublish(m)
  /\ IF job[m].kind = "grant"
     THEN /\ pending' = IF ready THEN pending \cup {u} ELSE pending
          /\ UNCHANGED avail
     ELSE Invalidated(u)
  /\ grants' = IF job[m].kind = "grant" /\ job[m].tx = "done" THEN grants \ {u} ELSE grants
  /\ job' = [BumpedJobs({u}) EXCEPT ![m] =
               IF job[m].tx = "open" THEN [@ EXCEPT !.guard = FALSE] ELSE Idle]
  /\ load' = BumpedLoad({u})
  /\ UNCHANGED <<database, ready, wallet, accepted, table, faults, revoked>>

-----------------------------------------------------------------------------
(* The first grant. *)

(* ensure: a readable user without a wallet gets the grant in memory; the row
   is written by the ordered grant writer. *)
AcceptGrant(u) ==
  /\ Readable(u) /\ wallet[u] = NoRow
  /\ wallet' = [wallet EXCEPT ![u] = Grant]
  /\ grants' = grants \cup {u}
  /\ job' = BumpedJobs({u}) /\ load' = BumpedLoad({u})
  /\ UNCHANGED <<database, ready, avail, pending, accepted, table, faults, revoked>>

-----------------------------------------------------------------------------
(* Table stacks and holds. *)

MaySpendMemory(u) == Readable(u) /\ Active(u) = {} /\ wallet[u] # NoRow

(* with_admission_balance: a seat is taken from the unreserved balance, and
   not while a dealt hand of the user is still undecided. *)
TakeSeat(u, n) ==
  /\ MaySpendMemory(u) /\ seat[u] = 0 /\ n > 0
  /\ \A h \in Open(u) : accepted[h] # Nothing
  /\ Available(u, wallet[u], FALSE) >= n
  /\ seat' = [seat EXCEPT ![u] = n]
  /\ UNCHANGED <<database, memory, hold, job, load, faults, revoked>>

(* reserve_poker_stack: a top-up replaces this table's own reservation. *)
TopUp(u, n) ==
  /\ MaySpendMemory(u) /\ 0 < seat[u] /\ seat[u] < n
  /\ wallet[u] >= n
  /\ seat' = [seat EXCEPT ![u] = n]
  /\ UNCHANGED <<database, memory, hold, job, load, faults, revoked>>

(* A departure releases the seat; the hold of a dealt hand stays. *)
LeaveSeat(u) ==
  /\ seat[u] > 0
  /\ seat' = [seat EXCEPT ![u] = 0]
  /\ UNCHANGED <<database, memory, hold, job, load, faults, revoked>>

(* holds::open: the hand holds the stack of everyone dealt in; the table runs
   one hand at a time. *)
Deal(h, S) ==
  /\ hold[h] = Nothing /\ accepted[h] = Nothing /\ ~Committed(h)
  /\ S # {} /\ \A u \in S : seat[u] > 0
  /\ \A g \in Hands : hold[g] # Nothing => accepted[g] # Nothing
  /\ hold' = [hold EXCEPT ![h] = [u \in S |-> seat[u]]]
  /\ UNCHANGED <<database, memory, seat, job, load, faults, revoked>>

-----------------------------------------------------------------------------
(* Accepted results and their writers. *)

(* hand_effects: one delta per player, a loss at most the stack dealt in. *)
Results(h) == {d \in [DOMAIN hold[h] -> -MaxBalance..1] :
                 \A u \in DOMAIN d : d[u] >= -hold[h][u]}

(* accept_poker_effects_with: every wallet is validated, then all of them are
   changed at once; neither the fence nor an active writer refuses it. *)
AcceptHand(h, d) ==
  LET S == DOMAIN hold[h] IN
  /\ ready /\ S # {} /\ accepted[h] = Nothing
  /\ \A u \in S : wallet[u] # NoRow /\ wallet[u] + d[u] >= 0 /\ Bounded(u, d[u])
  /\ wallet' = [u \in Users |-> IF u \in S THEN wallet[u] + d[u] ELSE wallet[u]]
  /\ seat' = [u \in Users |-> IF u \in S /\ seat[u] > 0 THEN seat[u] + d[u] ELSE seat[u]]
  /\ accepted' = [accepted EXCEPT ![h] = d]
  /\ job' = BumpedJobs(S) /\ load' = BumpedLoad(S)
  /\ UNCHANGED <<database, ready, avail, pending, grants, hold, faults, revoked>>

(* accept_effect: refused under a fence, an active writer or a balance that
   is not the expected one. *)
AcceptEffect(e, u, d) ==
  /\ accepted[e] = Nothing /\ ~Committed(e)
  /\ MaySpendMemory(u) /\ GrantDurable(u)
  /\ Available(u, wallet[u], FALSE) >= -d
  /\ wallet[u] + d >= 0 /\ Bounded(u, d)
  /\ wallet' = [wallet EXCEPT ![u] = @ + d]
  /\ accepted' = [accepted EXCEPT ![e] = [v \in {u} |-> d]]
  /\ job' = BumpedJobs({u}) /\ load' = BumpedLoad({u})
  /\ UNCHANGED <<database, ready, avail, pending, grants, table, faults, revoked>>

(* settle_unless_taken, receipt_on: an id taken by an old solo receipt moves
   the receipt to its quarantine id. *)
ReceiptOf(r) == <<r, IF <<r, "solo">> \in ledger THEN "quarantine" ELSE "own">>

(* settle_hand_on with memory_accepted, and the lottery writer: the row is
   made if missing, the delta applied unless it overdraws, the receipt
   written; one transaction for every player. *)
CommitRecord(r) ==
  LET S == DOMAIN accepted[r] IN
  /\ S # {} /\ ~Committed(r)
  /\ \A u \in S : ~Locked(u) /\ Row(u) + accepted[r][u] >= 0
  /\ sql' = [u \in Users |-> IF u \in S THEN Row(u) + accepted[r][u] ELSE sql[u]]
  /\ ledger' = ledger \cup {ReceiptOf(r)}
  /\ UNCHANGED <<dayUsed, memory, table, job, load, faults, revoked>>

(* poker_committed and effect_committed: the acknowledgement removes the
   overlay and the hold, never the published wallet. *)
Acknowledge(r) ==
  LET S == DOMAIN accepted[r] IN
  /\ S # {} /\ Committed(r)
  /\ accepted' = [accepted EXCEPT ![r] = Nothing]
  /\ hold' = [h \in Hands |-> IF h = r THEN Nothing ELSE hold[h]]
  /\ job' = BumpedJobs(S) /\ load' = BumpedLoad(S)
  /\ UNCHANGED <<database, ready, wallet, avail, pending, grants, seat, faults, revoked>>

(* effect_abandoned: the lottery writer was fenced before this effect. *)
Abandon(e, u) ==
  /\ accepted[e] # Nothing /\ u \in DOMAIN accepted[e] /\ ~Committed(e)
  /\ faults < MaxFaults /\ faults' = faults + 1
  /\ revoked' = [revoked EXCEPT ![u] = @ + Max({0, accepted[e][u]})]
  /\ accepted' = [accepted EXCEPT ![e] = Nothing]
  /\ Invalidated(u)
  /\ job' = BumpedJobs({u}) /\ load' = BumpedLoad({u})
  /\ UNCHANGED <<database, ready, wallet, grants, table>>

-----------------------------------------------------------------------------
(* Loading from SQL: hydrate and the refresh loop, one at a time (loader). *)

StartHydrate ==
  /\ load = NoLoad /\ ~ready
  /\ \A m \in Mutators : ~job[m].guard
  /\ load' = [NoLoad EXCEPT !.kind = "hydrate", !.phase = "captured", !.users = Users,
                !.current = TRUE]
  /\ UNCHANGED <<database, memory, table, job, faults, revoked>>

(* refresh_loop picks a pending user nobody is writing. *)
StartRefresh(u) ==
  /\ load = NoLoad /\ ready
  /\ u \in pending /\ Active(u) = {}
  /\ load' = [NoLoad EXCEPT !.kind = "refresh", !.phase = "captured", !.users = {u},
                !.current = TRUE]
  /\ UNCHANGED <<database, memory, table, job, faults, revoked>>

(* OpenTransactions::sample *)
SampleTransactions ==
  /\ load.phase = "captured"
  /\ load' = [load EXCEPT !.phase = "sampled",
                !.waits = {m \in Mutators : job[m].tx = "open"}]
  /\ UNCHANGED <<database, memory, table, job, faults, revoked>>

Unseen(u, S) == {r \in Overlay(u) \cap S : ~Committed(r)}

(* What one snapshot yields: the row and the accepted records it does not
   already contain, hands first. *)
SnapshotFails(u) ==
  /\ Overlay(u) # {}
  /\ \/ sql[u] = NoRow
     \/ sql[u] + Net(Unseen(u, Hands), u) < 0
     \/ sql[u] + Net(Unseen(u, Records), u) < 0
SnapshotOf(u) == IF sql[u] = NoRow THEN NoRow ELSE sql[u] + Net(Unseen(u, Records), u)

(* Once the sampled transactions have ended, one MVCC snapshot. *)
ReadSnapshot ==
  /\ load.phase = "sampled" /\ load.waits = {}
  /\ load' = IF \E u \in load.users : SnapshotFails(u) THEN NoLoad
             ELSE [load EXCEPT !.phase = "read",
                     !.value = [u \in load.users |-> SnapshotOf(u)]]
  /\ UNCHANGED <<database, memory, table, job, faults, revoked>>

\* Mutant: a value read before the user changed is installed all the same.
MayInstallAnyGeneration == \A u \in load.users : Active(u) = {}

MayInstall ==
  /\ load.current
  /\ IF load.kind = "hydrate" THEN \A m \in Mutators : ~job[m].guard
     ELSE \A u \in load.users : Active(u) = {}

(* The end of hydrate and of a refresh: install the value, or drop it when
   anything happened to the user meanwhile. *)
Install ==
  /\ load.phase = "read"
  /\ load' = NoLoad
  /\ IF MayInstall
     THEN /\ wallet' = [u \in Users |-> IF u \in load.users THEN load.value[u] ELSE wallet[u]]
          /\ avail' = [u \in Users |-> avail[u] \/ u \in load.users]
          /\ pending' = pending \ load.users
          /\ ready' = TRUE
     ELSE UNCHANGED <<wallet, avail, pending, ready>>
  /\ UNCHANGED <<database, accepted, grants, table, job, faults, revoked>>

(* A load that fails or times out leaves the user pending. *)
LoadFails ==
  /\ load # NoLoad /\ faults < MaxFaults
  /\ faults' = faults + 1
  /\ load' = NoLoad
  /\ UNCHANGED <<database, memory, table, job, revoked>>

(* The process dies while no table is occupied; its open transactions end
   later at the server, what was only accepted is lost. *)
Restart ==
  /\ ready /\ faults < MaxFaults
  /\ \A u \in Users : seat[u] = 0
  /\ \A h \in Hands : hold[h] # Nothing => accepted[h] # Nothing
  /\ faults' = faults + 1
  /\ ready' = FALSE
  /\ wallet' = [u \in Users |-> NoRow] /\ avail' = [u \in Users |-> TRUE]
  /\ pending' = {} /\ grants' = {}
  /\ accepted' = [r \in Records |-> Nothing]
  /\ hold' = [h \in Hands |-> Nothing]
  /\ load' = NoLoad
  /\ job' = [m \in Mutators |-> IF job[m].tx = "open"
                                THEN [job[m] EXCEPT !.guard = FALSE, !.current = FALSE]
                                ELSE Idle]
  /\ UNCHANGED <<database, seat, revoked>>

-----------------------------------------------------------------------------
Init ==
  /\ sql \in [Users -> InitialRows]
  /\ dayUsed = {}
  /\ ledger = Legacy \X {"solo"}
  /\ ready = FALSE
  /\ wallet = [u \in Users |-> NoRow] /\ avail = [u \in Users |-> TRUE]
  /\ pending = {} /\ grants = {}
  /\ accepted = [r \in Records |-> Nothing]
  /\ seat = [u \in Users |-> 0]
  /\ hold = [h \in Hands |-> Nothing]
  /\ job = [m \in Mutators |-> Idle]
  /\ load = NoLoad
  /\ revoked = [u \in Users |-> 0]
  /\ faults = 0

Loading == \/ StartHydrate \/ SampleTransactions \/ ReadSnapshot \/ Install
           \/ \E u \in Users : StartRefresh(u)

Next ==
  \/ \E m \in Mutators, u \in Users, k \in Kinds \cup {"grant"} : Begin(m, u, k)
  \/ \E m \in Mutators : \/ OpenTx(m) \/ RefuseTx(m) \/ CommitTx(m) \/ AbortTx(m)
                         \/ PublishDaily(m) \/ DropGuard(m)
  \/ \E u \in Users : AcceptGrant(u) \/ LeaveSeat(u)
  \/ \E u \in Users, n \in 1..MaxBalance : TakeSeat(u, n) \/ TopUp(u, n)
  \/ \E h \in Hands, S \in SUBSET Users : Deal(h, S)
  \/ \E h \in Hands : \E d \in Results(h) : AcceptHand(h, d)
  \/ \E e \in Effects, u \in Users : \/ Abandon(e, u)
                                     \/ \E d \in {-1, 1} : AcceptEffect(e, u, d)
  \/ \E r \in Records : CommitRecord(r) \/ Acknowledge(r)
  \/ Loading
  \/ LoadFails
  \/ Restart

Spec == Init /\ [][Next]_vars

-----------------------------------------------------------------------------
(* What the user is owed: the row, or the grant it would be made with, and
   every accepted record the ledger does not contain. *)
Owed(u) == Row(u) + Net({r \in Overlay(u) : ~Committed(r)}, u)

(* A readable wallet is never stale: whenever memory serves a user's balance,
   it is the committed row plus the accepted results the row lacks, each
   counted once, although transactions commit after their request was
   cancelled, loads overlap writers and acknowledgements are lost. *)
PublishedIsCurrent ==
  \A u \in Users : Readable(u) =>
    (IF wallet[u] = NoRow THEN Grant ELSE wallet[u]) = Owed(u)

(* "Keep these losses covered until COMMIT": what a user is owed, also after
   every SQL transaction still open, covers the table stack and the hands
   whose result is not accepted yet, so every accepted result can be
   committed.  The one exception is a lottery win that is taken back because
   its writer was fenced: its amount is missing until it is paid again. *)
LossesCovered ==
  \A u \in Users :
    LET atRisk == Max({seat[u]} \cup {hold[h][u] : h \in {g \in Open(u) : accepted[g] = Nothing}})
        spent == {m \in Mutators : job[m].tx = "open" /\ job[m].user = u}
        covered == Owed(u) + revoked[u]
    IN /\ covered >= atRisk
       /\ \A m \in spent : job[m].after - Row(u) + covered >= atRisk
=============================================================================
