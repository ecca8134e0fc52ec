------------------------------ MODULE GtoSolve ------------------------------
(***************************************************************************)
(* The solve endpoint (server-integration/gto_solve.rs): a request looks   *)
(* its spot up in the cache, takes its source's in-flight slot and a       *)
(* global permit, runs the solver on a blocking thread and caches what it  *)
(* found.  Handlers run on several threads; a worker outlives the handler  *)
(* that timed out or whose client went away.                               *)
(*                                                                         *)
(* A spot stands for its canonical representation, the tier's iteration    *)
(* cap included; KeyOf is the 64-bit hash, which may collide.  What is     *)
(* solved is abstracted to how the solve stopped and how good it is.       *)
(* Validation happens before any of this state is touched and is left out. *)
(***************************************************************************)
EXTENDS Naturals, Sequences, SequencesExt, FiniteSetsExt

CONSTANTS
  Requests, Ips,
  Spots, Keys, KeyOf, SizeOf,  \* spot_key and cached_spot_bytes of a spot
  MaxCacheBytes, MaxSolves,    \* MAX_CACHE_BYTES, max_concurrent_solves
  Qualities,                   \* exploitability, lower is better
  None

MaxPerIp == 1  \* MAX_INFLIGHT_PER_IP

(* CachedSpot: an answer; "stale" once its provisional_until has passed. *)
Entries == [spot : Spots, stop : {"final", "budget", "stale"}, quality : Nat]

ASSUME SolveAssumption ==
  /\ KeyOf \in [Spots -> Keys] /\ SizeOf \in [Spots -> Nat \ {0}]
  /\ MaxCacheBytes \in Nat /\ MaxSolves \in Nat \ {0} /\ Qualities \subseteq Nat
  /\ IsFiniteSet(Requests) /\ None \notin Requests /\ None \notin Entries

VARIABLES
  asks,      \* what every request asks: its source and its spot
  handler,   \* where its handler is
  sem,       \* the in-flight semaphore it cloned, named by its creator
  guard,     \* its IpInflightGuard: none, held, or dropping ("evicted")
  worker,    \* its blocking task
  result,    \* what the task found
  registry,  \* ip_inflight_registry
  holders,   \* the holders of every in-flight semaphore
  free,      \* free permits of solve_semaphore
  store      \* the cached entries, cache_order and cache_bytes

vars == <<asks, handler, sem, guard, worker, result, registry, holders,
          free, store>>

admission == <<sem, guard, registry, holders, free>>

(* solve_cache, cache_order and cache_bytes. *)
EmptyCache == [entries |-> [k \in Keys |-> None], order |-> <<>>, bytes |-> 0]

Init ==
  /\ asks \in [Requests -> [ip : Ips, spot : Spots]]
  /\ handler = [r \in Requests |-> "new"]
  /\ sem = [r \in Requests |-> None] /\ guard = [r \in Requests |-> "none"]
  /\ worker = [r \in Requests |-> "none"]
  /\ result = [r \in Requests |-> None]
  /\ registry = [i \in Ips |-> None] /\ holders = [r \in Requests |-> {}]
  /\ free = MaxSolves
  /\ store = EmptyCache

Goto(r, pc) == handler' = [handler EXCEPT ![r] = pc]

----------------------------------------------------------------------------
(* The cache. *)

(* spot_key: the key a spot is cached under, shared by spots that collide. *)
SpotKey(spot) == KeyOf[spot]

(* The stored spot_repr decides whether an entry is for this spot. *)
SameSpot(entry, spot) == entry # None /\ entry.spot = spot

(* A stored entry is for the spot asked, and final or fresh. *)
Servable(entry, spot) == SameSpot(entry, spot) /\ entry.stop # "stale"

Lookup(r) ==
  LET entry == store.entries[SpotKey(asks[r].spot)]
  IN  /\ handler[r] = "new"
      /\ Goto(r, IF Servable(entry, asks[r].spot) THEN "done" ELSE "entry")
      /\ UNCHANGED <<asks, worker, result, admission, store>>

(* PROVISIONAL_CACHE_TTL passes for an entry. *)
Expire(k) ==
  /\ store.entries[k] # None /\ store.entries[k].stop = "budget"
  /\ store' = [store EXCEPT !.entries[k].stop = "stale"]
  /\ UNCHANGED <<asks, handler, worker, result, admission>>

\* Mutant: the later result always wins.
SupersedesAlways(old, new) == TRUE

(* supersede: final beats provisional, then the lower exploitability. *)
Supersedes(old, new) ==
  \/ new.stop = "final"
  \/ old.stop # "final" /\ new.quality < old.quality

SizeUnder(s, k) == IF s.entries[k] = None THEN 0 ELSE SizeOf[s.entries[k].spot]

(* The bytes of the entries under the keys S. *)
BytesOf(s, S) == SumFunctionOnSet([k \in Keys |-> SizeUnder(s, k)], S)

(* The queue without a key: the places that hold another one, in order. *)
Retain(q, key) ==
  LET kept == {i \in DOMAIN q : q[i] # key}
  IN  [n \in 1..Cardinality(kept) |->
         q[CHOOSE i \in kept : Cardinality({j \in kept : j <= i}) = n]]

\* Mutant: a replaced entry stays in the running total.
WithoutEntry(s, k) ==
  [s EXCEPT !.entries[k] = None, !.order = Retain(@, k)]

(* The entry under a key, its place in the queue and its bytes are dropped. *)
Without(s, k) ==
  IF s.entries[k] = None THEN s
  ELSE [entries |-> [s.entries EXCEPT ![k] = None],
        order   |-> Retain(s.order, k),
        bytes   |-> s.bytes - SizeUnder(s, k)]

(* The oldest entries are evicted until one of this size fits. *)
Evicted(s, size) ==
  LET oldest(n) == {s.order[i] : i \in 1..n}
      total(n) == BytesOf(s, oldest(n))
      fits(n) == s.bytes - total(n) + size <= MaxCacheBytes
      n == CHOOSE m \in 0..Len(s.order) :
             /\ fits(m) \/ m = Len(s.order)
             /\ \A j \in 0..m - 1 : ~fits(j)
  IN  [entries |-> [k \in Keys |-> IF k \in oldest(n) THEN None ELSE s.entries[k]],
       order   |-> SubSeq(s.order, n + 1, Len(s.order)),
       bytes   |-> s.bytes - total(n)]

(* cache_insert, under the lock of the queue. *)
CacheInsert(s, key, new) ==
  LET old  == s.entries[key]
      size == SizeOf[new.spot]
      same == SameSpot(old, new.spot)
      room == Evicted(Without(s, key), size)
  IN  IF size > MaxCacheBytes THEN s
      ELSE IF same /\ ~Supersedes(old, new)
      THEN IF old.stop = "final" THEN s ELSE [s EXCEPT !.entries[key].stop = "budget"]
      ELSE [entries |-> [room.entries EXCEPT ![key] = new],
            order   |-> Append(room.order, key),
            bytes   |-> room.bytes + size]

----------------------------------------------------------------------------
(* Admission: acquire_ip_inflight clones the semaphore under the shard     *)
(* lock and tries it afterwards.                                           *)

GetEntry(r) ==
  LET ip == asks[r].ip
  IN  /\ handler[r] = "entry"
      /\ registry' = IF registry[ip] = None THEN [registry EXCEPT ![ip] = r] ELSE registry
      /\ sem' = [sem EXCEPT ![r] = registry'[ip]]
      /\ Goto(r, "try")
      /\ UNCHANGED <<asks, guard, worker, result, holders, free, store>>

Available(s) == MaxPerIp - Cardinality(holders[s])

TryIp(r) ==
  /\ handler[r] = "try"
  /\ IF Available(sem[r]) > 0
       THEN /\ holders' = [holders EXCEPT ![sem[r]] = @ \cup {r}]
            /\ guard' = [guard EXCEPT ![r] = "held"]
            /\ Goto(r, "global")
       ELSE Goto(r, "busy") /\ UNCHANGED <<holders, guard>>
  /\ UNCHANGED <<asks, sem, worker, result, registry, free, store>>

(* The global permit; permit and guard move into the blocking task. *)
TryGlobal(r) ==
  /\ handler[r] = "global"
  /\ IF free > 0
       THEN /\ free' = free - 1
            /\ worker' = [worker EXCEPT ![r] = "solving"]
            /\ Goto(r, "waiting")
       ELSE Goto(r, "busy") /\ UNCHANGED <<free, worker>>
  /\ UNCHANGED <<asks, sem, guard, result, registry, holders, store>>

(* Whoever owns the guard is done with it. *)
Dropping(r) == guard[r] # "none" /\ (handler[r] = "busy" \/ worker[r] = "exiting")

\* Mutant: the permit about to be returned is not counted.
ReclaimableIdle(s) == Available(s) >= MaxPerIp

(* The predicate of remove_if: the registered semaphore will be idle. *)
Reclaimable(s) == Available(s) + 1 >= MaxPerIp

(* The body of IpInflightGuard::drop, before its permit goes back. *)
EvictEntry(r) ==
  LET ip == asks[r].ip
  IN  /\ Dropping(r) /\ guard[r] = "held"
      /\ registry' = IF registry[ip] # None /\ Reclaimable(registry[ip])
                      THEN [registry EXCEPT ![ip] = None] ELSE registry
      /\ guard' = [guard EXCEPT ![r] = "evicted"]
      /\ UNCHANGED <<asks, handler, sem, worker, result, holders, free, store>>

ReturnIp(r) ==
  /\ Dropping(r) /\ guard[r] = "evicted"
  /\ holders' = [holders EXCEPT ![sem[r]] = @ \ {r}]
  /\ guard' = [guard EXCEPT ![r] = "none"] /\ sem' = [sem EXCEPT ![r] = None]
  /\ UNCHANGED <<asks, handler, worker, result, registry, free, store>>

----------------------------------------------------------------------------
(* The blocking task. *)

(* A result is final or stopped at its budget, and of some quality. *)
Outcomes(spot) == [spot : {spot}, stop : {"final", "budget"}, quality : Qualities]

(* The solve stops: converged or capped, at its budget, refused, cancelled *)
(* or panicked.                                                            *)
SolveEnds(r) ==
  /\ worker[r] = "solving"
  /\ worker' = [worker EXCEPT ![r] = "exiting"]
  /\ \/ \E outcome \in Outcomes(asks[r].spot) : result' = [result EXCEPT ![r] = outcome]
     \/ UNCHANGED result
  /\ UNCHANGED <<asks, handler, admission, store>>

(* The guard is gone; the global permit goes back with the task. *)
WorkerExit(r) ==
  /\ worker[r] = "exiting" /\ guard[r] = "none"
  /\ free' = free + 1
  /\ worker' = [worker EXCEPT ![r] = "done"]
  /\ result' = [result EXCEPT ![r] = IF handler[r] = "gone" THEN None ELSE @]
  /\ UNCHANGED <<asks, handler, sem, guard, registry, holders, store>>

(* The handler gets the result, answers with it and caches it. *)
Finish(r) ==
  /\ handler[r] = "waiting" /\ worker[r] = "done"
  /\ IF result[r] = None
       THEN Goto(r, "failed") /\ UNCHANGED store
       ELSE /\ store' = CacheInsert(store, SpotKey(asks[r].spot), result[r])
            /\ Goto(r, "done")
  /\ result' = [result EXCEPT ![r] = None]
  /\ UNCHANGED <<asks, worker, admission>>

(* SOLVE_TIMEOUT, or the client disconnects: the task runs on until it     *)
(* sees the cancel flag, and its result is dropped.                        *)
GiveUp(r) ==
  /\ handler[r] = "waiting"
  /\ Goto(r, "gone")
  /\ result' = [result EXCEPT ![r] = None]
  /\ UNCHANGED <<asks, worker, admission, store>>

----------------------------------------------------------------------------
Next ==
  \/ \E r \in Requests :
       \/ Lookup(r) \/ GetEntry(r) \/ TryIp(r) \/ TryGlobal(r)
       \/ EvictEntry(r) \/ ReturnIp(r)
       \/ SolveEnds(r) \/ WorkerExit(r) \/ Finish(r) \/ GiveUp(r)
  \/ \E k \in Keys : Expire(k)

Spec == Init /\ [][Next]_vars

----------------------------------------------------------------------------
InFlight(r) ==
  handler[r] \in {"try", "global"} \/ guard[r] # "none" \/ worker[r] \in {"solving", "exiting"}

(* The registry cannot grow across sources and no permit is lost: a source *)
(* with nothing in flight has no entry, and permits that nobody in flight  *)
(* holds are free, whichever way handlers refused, timed out or lost their *)
(* client.  Guards may evict each other's entries on the way.              *)
IdleIsClean ==
  /\ \A i \in Ips : (\A r \in Requests : asks[r].ip = i => ~InFlight(r)) => registry[i] = None
  /\ \A s \in Requests : \A r \in holders[s] : InFlight(r)
  /\ free = MaxSolves - Cardinality({r \in Requests : worker[r] \in {"solving", "exiting"}})

(* The three parts of the cache move together: the queue holds the cached  *)
(* keys once each, and the running total is theirs and within the budget.  *)
CacheBooks ==
  /\ IsInjective(store.order)
  /\ ToSet(store.order) = {k \in Keys : store.entries[k] # None}
  /\ store.bytes = BytesOf(store, ToSet(store.order))
  /\ store.bytes <= MaxCacheBytes

(* Solves of one spot that race never leave it worse off: what is cached   *)
(* for it stays final once it is, and until then does not get less         *)
(* accurate.  One final answer replaces another whatever their quality.    *)
BestAnswerStays ==
  [][\A k \in Keys :
       LET old == store.entries[k]
           new == store'.entries[k]
       IN  old # None /\ new # None /\ old.spot = new.spot =>
             /\ old.stop = "final" => new.stop = "final"
             /\ old.stop # "final" /\ new.stop # "final" => new.quality <= old.quality]_vars
=============================================================================
