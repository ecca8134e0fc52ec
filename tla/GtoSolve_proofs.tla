-------------------------- MODULE GtoSolve_proofs ---------------------------
(***************************************************************************)
(* Proofs about GtoSolve for every number of requests, sources and solves: *)
(* admission leaves nothing behind, racing solves of one spot never        *)
(* replace a better answer by a worse one, and the cache's queue and its   *)
(* running total are those of its entries.                                 *)
(***************************************************************************)
EXTENDS GtoSolve, SumFacts, SequenceTheorems

HandlerStates ==
  {"new", "entry", "try", "global", "waiting", "busy", "done", "failed", "gone"}

AdmissionTypes ==
  /\ asks \in [Requests -> [ip : Ips, spot : Spots]]
  /\ handler \in [Requests -> HandlerStates]
  /\ sem \in [Requests -> Requests \cup {None}]
  /\ guard \in [Requests -> {"none", "held", "evicted"}]
  /\ worker \in [Requests -> {"none", "solving", "exiting", "done"}]
  /\ registry \in [Ips -> Requests \cup {None}]
  /\ holders \in [Requests -> SUBSET Requests]

(* Where the guard and the task of a request may be. *)
PhaseInv ==
  \A r \in Requests :
    /\ handler[r] \in {"new", "entry", "try"} => guard[r] = "none" /\ worker[r] = "none"
    /\ handler[r] = "global" => guard[r] = "held" /\ worker[r] = "none"
    /\ handler[r] = "busy" => worker[r] = "none"
    /\ worker[r] = "solving" => guard[r] = "held"
    /\ handler[r] = "try" => sem[r] # None

(* A semaphore is named by the request that created it, once. *)
FreshInv ==
  \A r \in Requests : handler[r] \in {"new", "entry"} =>
    /\ \A q \in Requests : sem[q] # r
    /\ \A i \in Ips : registry[i] # r

(* A semaphore serves one source, and has one slot. *)
SlotInv ==
  /\ \A r, s \in Requests : r \in holders[s] <=> (guard[r] # "none" /\ sem[r] = s)
  /\ \A r \in Requests : guard[r] # "none" => sem[r] # None
  /\ \A s \in Requests : holders[s] = {} \/ \E r \in Requests : holders[s] = {r}
  /\ \A r \in Requests : sem[r] # None => asks[sem[r]].ip = asks[r].ip

(* A registered semaphore has a user that has yet to evict it; a guard that *)
(* evicted never finds its semaphore registered again.                     *)
RegistryInv ==
  /\ \A i \in Ips : registry[i] # None =>
       /\ asks[registry[i]].ip = i
       /\ \E r \in Requests : /\ asks[r].ip = i /\ sem[r] = registry[i]
                              /\ handler[r] = "try" \/ guard[r] = "held"
  /\ \A r \in Requests : guard[r] = "evicted" => registry[asks[r].ip] # sem[r]

Solving == {r \in Requests : worker[r] \in {"solving", "exiting"}}

PermitInv == free = MaxSolves - Cardinality(Solving)

AdmissionInv ==
  AdmissionTypes /\ PhaseInv /\ FreshInv /\ SlotInv /\ RegistryInv /\ PermitInv

(* What the cache holds. *)
IsCache(s) ==
  /\ s = [entries |-> s.entries, order |-> s.order, bytes |-> s.bytes]
  /\ s.entries \in [Keys -> Entries \cup {None}]

CacheTypes ==
  /\ asks \in [Requests -> [ip : Ips, spot : Spots]]
  /\ result \in [Requests -> Entries \cup {None}]
  /\ IsCache(store)

----------------------------------------------------------------------------
(* Admission. *)

LEMMA Slots ==
  ASSUME AdmissionInv, NEW s \in Requests
  PROVE  /\ Available(s) > 0 <=> holders[s] = {}
         /\ Reclaimable(s)
<1>1. CASE holders[s] = {}
  <2>1. Cardinality(holders[s]) = 0
    BY <1>1, FS_EmptySet
  <2> QED BY <1>1, <2>1 DEF Available, Reclaimable, MaxPerIp
<1>2. CASE \E r \in Requests : holders[s] = {r}
  <2>1. Cardinality(holders[s]) = 1
    BY <1>2, FS_Singleton
  <2> QED BY <1>2, <2>1 DEF Available, Reclaimable, MaxPerIp
<1> QED BY <1>1, <1>2 DEF AdmissionInv, SlotInv

LEMMA SolvingFinite ==
  /\ IsFiniteSet(Solving) /\ Cardinality(Solving) \in Nat
  /\ \A r \in Requests \ Solving :
       /\ IsFiniteSet(Solving \cup {r})
       /\ Cardinality(Solving \cup {r}) = Cardinality(Solving) + 1
  /\ \A r \in Solving : Cardinality(Solving \ {r}) = Cardinality(Solving) - 1
<1>1. IsFiniteSet(Solving)
  BY SolveAssumption, FS_Subset DEF Solving
<1>2. Cardinality(Solving) \in Nat
  BY <1>1, FS_CardinalityType
<1>3. ASSUME NEW r \in Requests \ Solving
      PROVE  /\ IsFiniteSet(Solving \cup {r})
             /\ Cardinality(Solving \cup {r}) = Cardinality(Solving) + 1
  BY <1>1, FS_AddElement
<1>4. ASSUME NEW r \in Solving
      PROVE  Cardinality(Solving \ {r}) = Cardinality(Solving) - 1
  BY <1>1, FS_RemoveElement
<1> QED BY <1>1, <1>2, <1>3, <1>4

\* The steps of a handler on its way to a solve.
LEMMA HandlerKeeps ==
  ASSUME AdmissionInv, NEW r \in Requests,
         Lookup(r) \/ GetEntry(r) \/ TryIp(r) \/ TryGlobal(r)
  PROVE  AdmissionInv'
<1> USE SolveAssumption DEF AdmissionInv, Goto
<1>1. CASE Lookup(r)
  <2>0. /\ handler[r] = "new" /\ \E pc \in {"done", "entry"} : handler' = [handler EXCEPT ![r] = pc]
        /\ UNCHANGED <<asks, worker, result, sem, guard, registry, holders, free, store>>
    BY <1>1 DEF Lookup, admission
  <2>1. AdmissionTypes'
    BY <2>0 DEF AdmissionTypes, HandlerStates
  <2>2. PhaseInv' /\ FreshInv'
    BY <2>0 DEF AdmissionTypes, PhaseInv, FreshInv
  <2>3. SlotInv'
    BY <2>0 DEF SlotInv
  <2>4. RegistryInv'
    BY <2>0 DEF AdmissionTypes, RegistryInv
  <2>5. PermitInv'
    BY <2>0 DEF PermitInv, Solving
  <2> QED BY <2>1, <2>2, <2>3, <2>4, <2>5
<1>2. CASE GetEntry(r)
  <2> DEFINE ip == asks[r].ip
  <2>0. /\ handler[r] = "entry" /\ handler' = [handler EXCEPT ![r] = "try"]
        /\ registry' = IF registry[ip] = None THEN [registry EXCEPT ![ip] = r] ELSE registry
        /\ sem' = [sem EXCEPT ![r] = registry'[ip]]
        /\ UNCHANGED <<asks, guard, worker, result, holders, free, store>>
    BY <1>2 DEF GetEntry
  <2>a. ip \in Ips /\ guard[r] = "none" /\ worker[r] = "none"
    BY <2>0 DEF AdmissionTypes, PhaseInv
  <2>b. /\ registry'[ip] \in Requests
        /\ registry'[ip] = IF registry[ip] = None THEN r ELSE registry[ip]
        /\ \A i \in Ips \ {ip} : registry'[i] = registry[i]
    BY <2>0, <2>a DEF AdmissionTypes
  <2>c. sem'[r] = registry'[ip] /\ \A q \in Requests \ {r} : sem'[q] = sem[q]
    BY <2>0 DEF AdmissionTypes
  <2>1. AdmissionTypes'
    BY <2>0, <2>a, <2>b DEF AdmissionTypes, HandlerStates
  <2>2. PhaseInv'
    BY <2>0, <2>b, <2>c DEF AdmissionTypes, PhaseInv
  <2>3. FreshInv'
    <3> SUFFICES ASSUME NEW q \in Requests, handler'[q] \in {"new", "entry"}
                 PROVE  /\ \A p \in Requests : sem'[p] # q
                        /\ \A i \in Ips : registry'[i] # q
      BY DEF FreshInv
    <3>1. q # r /\ handler[q] \in {"new", "entry"}
      BY <2>0 DEF AdmissionTypes
    <3> QED BY <2>a, <2>b, <2>c, <3>1 DEF FreshInv
  <2>4. SlotInv'
    <3>1. \A q, s \in Requests : q \in holders'[s] <=> (guard'[q] # "none" /\ sem'[q] = s)
      BY <2>0, <2>a, <2>c DEF SlotInv
    <3>2. \A q \in Requests : guard'[q] # "none" => sem'[q] # None
      BY <2>0, <2>a, <2>c DEF SlotInv
    <3>3. \A q \in Requests : sem'[q] # None => asks'[sem'[q]].ip = asks'[q].ip
      BY <2>0, <2>a, <2>b, <2>c DEF SlotInv, RegistryInv
    <3> QED BY <2>0, <3>1, <3>2, <3>3 DEF SlotInv
  <2>5. RegistryInv'
    <3>1. ASSUME NEW i \in Ips, registry'[i] # None
          PROVE  /\ asks'[registry'[i]].ip = i
                 /\ \E q \in Requests : /\ asks'[q].ip = i /\ sem'[q] = registry'[i]
                                        /\ handler'[q] = "try" \/ guard'[q] = "held"
      <4>1. CASE i = ip
        <5>1. asks'[r].ip = i /\ sem'[r] = registry'[i] /\ handler'[r] = "try"
          BY <2>0, <2>c, <4>1 DEF AdmissionTypes
        <5>2. asks'[registry'[i]].ip = i
          BY <2>0, <2>a, <2>b, <4>1 DEF RegistryInv
        <5> QED BY <5>1, <5>2
      <4>2. CASE i # ip
        <5>1. registry'[i] = registry[i]
          BY <2>b, <4>2
        <5>2. PICK q \in Requests : /\ asks[q].ip = i /\ sem[q] = registry[i]
                                    /\ handler[q] = "try" \/ guard[q] = "held"
          BY <3>1, <5>1 DEF RegistryInv
        <5>3. q # r
          BY <4>2, <5>2
        <5>4. asks'[q].ip = i /\ sem'[q] = registry'[i] /\ (handler'[q] = "try" \/ guard'[q] = "held")
          BY <2>0, <2>c, <5>1, <5>2, <5>3 DEF AdmissionTypes
        <5> QED BY <2>0, <3>1, <5>1, <5>4 DEF RegistryInv
      <4> QED BY <4>1, <4>2
    <3>2. ASSUME NEW q \in Requests, guard'[q] = "evicted"
          PROVE  registry'[asks'[q].ip] # sem'[q]
      <4>1. q # r /\ guard[q] = "evicted" /\ sem'[q] = sem[q] /\ asks[q].ip \in Ips
        BY <2>0, <2>a, <2>c, <3>2 DEF AdmissionTypes
      <4>2. sem[q] # r
        BY <2>0 DEF FreshInv
      <4> QED BY <2>0, <2>b, <4>1, <4>2 DEF RegistryInv
    <3> QED BY <3>1, <3>2 DEF RegistryInv
  <2>6. PermitInv'
    BY <2>0 DEF PermitInv, Solving
  <2> QED BY <2>1, <2>2, <2>3, <2>4, <2>5, <2>6
<1>3. CASE TryIp(r)
  <2>0. /\ handler[r] = "try"
        /\ UNCHANGED <<asks, sem, worker, result, registry, free, store>>
    BY <1>3 DEF TryIp
  <2>a. guard[r] = "none" /\ worker[r] = "none" /\ sem[r] \in Requests
    BY <2>0 DEF AdmissionTypes, PhaseInv
  <2>6. PermitInv'
    BY <2>0 DEF PermitInv, Solving
  <2>1. CASE holders[sem[r]] = {}
    <3>0. /\ holders' = [holders EXCEPT ![sem[r]] = @ \cup {r}]
          /\ guard' = [guard EXCEPT ![r] = "held"] /\ handler' = [handler EXCEPT ![r] = "global"]
      BY <1>3, <2>a, <2>1, Slots DEF TryIp
    <3>a. holders'[sem[r]] = {r} /\ \A s \in Requests \ {sem[r]} : holders'[s] = holders[s]
      BY <2>a, <2>1, <3>0 DEF AdmissionTypes
    <3>b. guard'[r] = "held" /\ \A q \in Requests \ {r} : guard'[q] = guard[q]
      BY <3>0 DEF AdmissionTypes
    <3>1. AdmissionTypes'
      BY <2>0, <2>a, <3>0 DEF AdmissionTypes, HandlerStates
    <3>2. PhaseInv' /\ FreshInv'
      BY <2>0, <2>a, <3>0 DEF AdmissionTypes, PhaseInv, FreshInv
    <3>3. SlotInv'
      <4>1. \A q, s \in Requests : q \in holders'[s] <=> (guard'[q] # "none" /\ sem'[q] = s)
        BY <2>0, <2>a, <2>1, <3>a, <3>b DEF SlotInv
      <4>2. \A s \in Requests : holders'[s] = {} \/ \E q \in Requests : holders'[s] = {q}
        BY <2>a, <3>a DEF SlotInv
      <4>3. \A q \in Requests : guard'[q] # "none" => sem'[q] # None
        BY <2>0, <2>a, <3>b DEF SlotInv
      <4> QED BY <2>0, <4>1, <4>2, <4>3 DEF SlotInv
    <3>4. RegistryInv'
      BY <2>0, <2>a, <3>0 DEF AdmissionTypes, RegistryInv
    <3> QED BY <2>6, <3>1, <3>2, <3>3, <3>4
  <2>2. CASE holders[sem[r]] # {}
    <3>0. handler' = [handler EXCEPT ![r] = "busy"] /\ UNCHANGED <<holders, guard>>
      BY <1>3, <2>a, <2>2, Slots DEF TryIp
    <3>1. AdmissionTypes'
      BY <2>0, <3>0 DEF AdmissionTypes, HandlerStates
    <3>2. PhaseInv' /\ FreshInv'
      BY <2>0, <2>a, <3>0 DEF AdmissionTypes, PhaseInv, FreshInv
    <3>3. SlotInv'
      BY <2>0, <3>0 DEF SlotInv
    <3>4. RegistryInv'
      <4>1. ASSUME NEW i \in Ips, registry[i] # None
            PROVE  \E q \in Requests : /\ asks[q].ip = i /\ sem[q] = registry[i]
                                       /\ handler'[q] = "try" \/ guard[q] = "held"
        <5>1. PICK q \in Requests : /\ asks[q].ip = i /\ sem[q] = registry[i]
                                    /\ handler[q] = "try" \/ guard[q] = "held"
          BY <4>1 DEF RegistryInv
        <5>2. CASE q # r
          BY <3>0, <5>1, <5>2 DEF AdmissionTypes
        <5>3. CASE q = r
          <6>1. PICK p \in Requests : p \in holders[sem[r]]
            BY <2>a, <2>2 DEF AdmissionTypes
          <6>2. guard[p] # "none" /\ sem[p] = sem[r]
            BY <2>a, <6>1 DEF SlotInv
          <6>3. asks[p].ip = i /\ sem[p] = registry[i]
            BY <2>a, <5>1, <5>3, <6>2 DEF SlotInv
          <6>4. guard[p] = "held"
            BY <6>2, <6>3 DEF RegistryInv, AdmissionTypes
          <6> QED BY <6>3, <6>4
        <5> QED BY <5>2, <5>3
      <4> QED BY <2>0, <3>0, <4>1 DEF RegistryInv
    <3> QED BY <2>6, <3>1, <3>2, <3>3, <3>4
  <2> QED BY <2>1, <2>2
<1>4. CASE TryGlobal(r)
  <2>0. /\ handler[r] = "global"
        /\ UNCHANGED <<asks, sem, guard, result, registry, holders, store>>
        /\ \/ /\ free' = free - 1 /\ worker' = [worker EXCEPT ![r] = "solving"]
              /\ handler' = [handler EXCEPT ![r] = "waiting"]
           \/ handler' = [handler EXCEPT ![r] = "busy"] /\ UNCHANGED <<free, worker>>
    BY <1>4 DEF TryGlobal
  <2>a. guard[r] = "held" /\ worker[r] = "none"
    BY <2>0 DEF PhaseInv
  <2>1. AdmissionTypes'
    BY <2>0 DEF AdmissionTypes, HandlerStates
  <2>2. PhaseInv' /\ FreshInv'
    BY <2>0, <2>a DEF AdmissionTypes, PhaseInv, FreshInv
  <2>3. SlotInv'
    BY <2>0 DEF SlotInv
  <2>4. RegistryInv'
    BY <2>0 DEF AdmissionTypes, RegistryInv
  <2>5. PermitInv'
    <3>1. CASE free' = free - 1 /\ worker' = [worker EXCEPT ![r] = "solving"]
      <4>1. Solving' = Solving \cup {r} /\ r \in Requests \ Solving
        BY <2>a, <3>1 DEF Solving, AdmissionTypes
      <4>2. Cardinality(Solving') = Cardinality(Solving) + 1 /\ Cardinality(Solving) \in Nat
        BY <4>1, SolvingFinite
      <4>3. free' = MaxSolves - (Cardinality(Solving) + 1)
        BY <3>1, <4>2 DEF PermitInv
      <4> QED BY <4>2, <4>3 DEF PermitInv
    <3>2. CASE UNCHANGED <<free, worker>>
      BY <3>2 DEF PermitInv, Solving
    <3> QED BY <2>0, <3>1, <3>2
  <2> QED BY <2>1, <2>2, <2>3, <2>4, <2>5
<1> QED BY <1>1, <1>2, <1>3, <1>4

\* The guard's drop, and the blocking task.
LEMMA TaskKeeps ==
  ASSUME AdmissionInv, NEW r \in Requests,
         EvictEntry(r) \/ ReturnIp(r) \/ SolveEnds(r) \/ WorkerExit(r) \/ Finish(r) \/ GiveUp(r)
  PROVE  AdmissionInv'
<1> USE SolveAssumption DEF AdmissionInv, Goto
<1>1. CASE EvictEntry(r)
  <2> DEFINE ip == asks[r].ip
  <2>0. /\ guard[r] = "held" /\ Dropping(r) /\ guard' = [guard EXCEPT ![r] = "evicted"]
        /\ registry' = IF registry[ip] # None /\ Reclaimable(registry[ip])
                        THEN [registry EXCEPT ![ip] = None] ELSE registry
        /\ UNCHANGED <<asks, handler, sem, worker, result, holders, free, store>>
    BY <1>1 DEF EvictEntry
  <2>a. ip \in Ips /\ sem[r] \in Requests
    BY <2>0 DEF AdmissionTypes, SlotInv
  <2>b. registry'[ip] = None /\ \A i \in Ips \ {ip} : registry'[i] = registry[i]
    BY <2>0, <2>a, Slots DEF AdmissionTypes
  <2>c. guard'[r] = "evicted" /\ \A q \in Requests \ {r} : guard'[q] = guard[q]
    BY <2>0 DEF AdmissionTypes
  <2>1. AdmissionTypes'
    BY <2>0, <2>a DEF AdmissionTypes
  <2>2. PhaseInv' /\ FreshInv'
    <3>1. worker[r] # "solving" /\ handler[r] # "global"
      BY <2>0 DEF Dropping, PhaseInv
    <3>2. PhaseInv'
      BY <2>0, <2>c, <3>1 DEF PhaseInv
    <3>3. FreshInv'
      BY <2>0, <2>a, <2>b DEF FreshInv
    <3> QED BY <3>2, <3>3
  <2>3. SlotInv'
    BY <2>0, <2>c DEF SlotInv
  <2>4. RegistryInv'
    <3>1. ASSUME NEW i \in Ips, registry'[i] # None
          PROVE  /\ asks[registry'[i]].ip = i
                 /\ \E q \in Requests : /\ asks[q].ip = i /\ sem[q] = registry'[i]
                                        /\ handler[q] = "try" \/ guard'[q] = "held"
      <4>1. i # ip /\ registry'[i] = registry[i]
        BY <2>b, <3>1
      <4> QED BY <2>c, <3>1, <4>1 DEF RegistryInv
    <3>2. ASSUME NEW q \in Requests, guard'[q] = "evicted"
          PROVE  registry'[asks[q].ip] # sem[q]
      <4>1. CASE asks[q].ip = ip
        <5>1. sem[q] \in Requests
          BY <2>a, <2>c, <3>2 DEF AdmissionTypes, SlotInv
        <5> QED BY <2>b, <4>1, <5>1
      <4>2. CASE asks[q].ip # ip
        <5>1. q # r /\ asks[q].ip \in Ips
          BY <4>2 DEF AdmissionTypes
        <5> QED BY <2>b, <2>c, <3>2, <4>2, <5>1 DEF RegistryInv
      <4> QED BY <4>1, <4>2
    <3> QED BY <2>0, <3>1, <3>2 DEF RegistryInv
  <2>5. PermitInv'
    BY <2>0 DEF PermitInv, Solving
  <2> QED BY <2>1, <2>2, <2>3, <2>4, <2>5
<1>2. CASE ReturnIp(r)
  <2>0. /\ guard[r] = "evicted" /\ guard' = [guard EXCEPT ![r] = "none"]
        /\ Dropping(r) /\ holders' = [holders EXCEPT ![sem[r]] = @ \ {r}]
        /\ sem' = [sem EXCEPT ![r] = None]
        /\ UNCHANGED <<asks, handler, worker, result, registry, free, store>>
    BY <1>2 DEF ReturnIp
  <2>a. /\ sem[r] \in Requests /\ handler[r] # "try" /\ worker[r] # "solving"
        /\ handler[r] # "global"
    BY <2>0 DEF AdmissionTypes, SlotInv, PhaseInv
  <2>b. /\ guard'[r] = "none" /\ \A q \in Requests \ {r} : guard'[q] = guard[q]
        /\ sem'[r] = None /\ \A q \in Requests \ {r} : sem'[q] = sem[q]
        /\ \A s \in Requests : holders'[s] = IF s = sem[r] THEN holders[s] \ {r} ELSE holders[s]
    BY <2>0, <2>a DEF AdmissionTypes
  <2>1. AdmissionTypes'
    BY <2>0, <2>a DEF AdmissionTypes
  <2>2. PhaseInv'
    BY <2>0, <2>a, <2>b DEF PhaseInv
  <2>3. FreshInv'
    BY <2>0, <2>b DEF FreshInv
  <2>4. SlotInv'
    <3>1. ASSUME NEW q \in Requests, NEW s \in Requests
          PROVE  q \in holders'[s] <=> (guard'[q] # "none" /\ sem'[q] = s)
      <4>1. q \in holders[s] <=> (guard[q] # "none" /\ sem[q] = s)
        BY DEF SlotInv
      <4>2. CASE q = r
        BY <2>b, <4>1, <4>2
      <4>3. CASE q # r
        BY <2>b, <4>1, <4>3
      <4> QED BY <4>2, <4>3
    <3>2. ASSUME NEW s \in Requests
          PROVE  holders'[s] = {} \/ \E q \in Requests : holders'[s] = {q}
      <4>1. CASE holders[s] = {}
        BY <2>b, <4>1
      <4>2. ASSUME NEW p \in Requests, holders[s] = {p}
            PROVE  holders'[s] = {} \/ \E q \in Requests : holders'[s] = {q}
        <5>1. holders'[s] = {p} \/ holders'[s] = {p} \ {r}
          BY <2>b, <4>2
        <5>2. {p} \ {r} = {} \/ {p} \ {r} = {p}
          OBVIOUS
        <5> QED BY <5>1, <5>2
      <4> QED BY <4>1, <4>2 DEF SlotInv
    <3>3. \A q \in Requests : guard'[q] # "none" => sem'[q] # None
      BY <2>b DEF SlotInv
    <3>4. \A q \in Requests : sem'[q] # None => asks'[sem'[q]].ip = asks'[q].ip
      BY <2>0, <2>b DEF SlotInv
    <3> QED BY <3>1, <3>2, <3>3, <3>4 DEF SlotInv
  <2>5. RegistryInv'
    <3>1. ASSUME NEW i \in Ips, registry[i] # None
          PROVE  /\ asks[registry[i]].ip = i
                 /\ \E q \in Requests : /\ asks[q].ip = i /\ sem'[q] = registry[i]
                                        /\ handler[q] = "try" \/ guard'[q] = "held"
      <4>1. PICK q \in Requests : /\ asks[q].ip = i /\ sem[q] = registry[i]
                                  /\ handler[q] = "try" \/ guard[q] = "held"
        BY <3>1 DEF RegistryInv
      <4>2. q # r
        BY <2>0, <2>a, <4>1
      <4> QED BY <2>b, <3>1, <4>1, <4>2 DEF RegistryInv
    <3>2. \A q \in Requests : guard'[q] = "evicted" => registry[asks[q].ip] # sem'[q]
      BY <2>b DEF RegistryInv
    <3> QED BY <2>0, <3>1, <3>2 DEF RegistryInv
  <2>6. PermitInv'
    BY <2>0 DEF PermitInv, Solving
  <2> QED BY <2>1, <2>2, <2>3, <2>4, <2>5, <2>6
<1>3. CASE SolveEnds(r)
  <2>0. /\ worker[r] = "solving" /\ worker' = [worker EXCEPT ![r] = "exiting"]
        /\ UNCHANGED <<asks, handler, sem, guard, registry, holders, free>>
    BY <1>3 DEF SolveEnds, admission
  <2>1. AdmissionTypes'
    BY <2>0 DEF AdmissionTypes
  <2>2. PhaseInv' /\ FreshInv'
    BY <2>0 DEF AdmissionTypes, PhaseInv, FreshInv
  <2>3. SlotInv' /\ RegistryInv'
    BY <2>0 DEF SlotInv, RegistryInv
  <2>4. PermitInv'
    <3>1. Solving' = Solving
      BY <2>0 DEF Solving, AdmissionTypes
    <3> QED BY <2>0, <3>1 DEF PermitInv
  <2> QED BY <2>1, <2>2, <2>3, <2>4
<1>4. CASE WorkerExit(r)
  <2>0. /\ worker[r] = "exiting" /\ worker' = [worker EXCEPT ![r] = "done"] /\ free' = free + 1
        /\ UNCHANGED <<asks, handler, sem, guard, registry, holders>>
    BY <1>4 DEF WorkerExit
  <2>1. AdmissionTypes'
    BY <2>0 DEF AdmissionTypes
  <2>2. PhaseInv' /\ FreshInv'
    BY <2>0 DEF AdmissionTypes, PhaseInv, FreshInv
  <2>3. SlotInv' /\ RegistryInv'
    BY <2>0 DEF SlotInv, RegistryInv
  <2>4. PermitInv'
    <3>1. Solving' = Solving \ {r} /\ r \in Solving
      BY <2>0 DEF Solving, AdmissionTypes
    <3>2. Cardinality(Solving') = Cardinality(Solving) - 1 /\ Cardinality(Solving) \in Nat
      BY <3>1, SolvingFinite
    <3>3. free' = MaxSolves - (Cardinality(Solving) - 1)
      BY <2>0, <3>2 DEF PermitInv
    <3> QED BY <3>2, <3>3 DEF PermitInv
  <2> QED BY <2>1, <2>2, <2>3, <2>4
<1>5. CASE Finish(r) \/ GiveUp(r)
  <2>0. /\ handler[r] = "waiting"
        /\ \E pc \in {"failed", "done", "gone"} : handler' = [handler EXCEPT ![r] = pc]
        /\ UNCHANGED <<asks, worker, sem, guard, registry, holders, free>>
    BY <1>5 DEF Finish, GiveUp, admission
  <2>1. AdmissionTypes'
    BY <2>0 DEF AdmissionTypes, HandlerStates
  <2>2. PhaseInv' /\ FreshInv'
    BY <2>0 DEF AdmissionTypes, PhaseInv, FreshInv
  <2>3. SlotInv'
    BY <2>0 DEF SlotInv
  <2>4. RegistryInv'
    BY <2>0 DEF AdmissionTypes, RegistryInv
  <2>5. PermitInv'
    BY <2>0 DEF PermitInv, Solving
  <2> QED BY <2>1, <2>2, <2>3, <2>4, <2>5
<1> QED BY <1>1, <1>2, <1>3, <1>4, <1>5

\* No interleaving of handlers, guards and tasks breaks admission's books.
THEOREM AdmissionInvariant == Spec => []AdmissionInv
<1>1. Init => AdmissionInv
  <2> SUFFICES ASSUME Init PROVE AdmissionInv
    OBVIOUS
  <2>1. AdmissionTypes /\ PhaseInv /\ FreshInv /\ SlotInv /\ RegistryInv
    BY SolveAssumption DEF Init, AdmissionTypes, HandlerStates, PhaseInv, FreshInv, SlotInv,
                           RegistryInv
  <2>2. Solving = {}
    BY DEF Init, Solving
  <2>3. PermitInv
    BY <2>2, FS_EmptySet, SolveAssumption DEF Init, PermitInv
  <2> QED BY <2>1, <2>3 DEF AdmissionInv
<1>2. AdmissionInv /\ [Next]_vars => AdmissionInv'
  <2> SUFFICES ASSUME AdmissionInv, [Next]_vars PROVE AdmissionInv'
    OBVIOUS
  <2>1. CASE \E r \in Requests : Lookup(r) \/ GetEntry(r) \/ TryIp(r) \/ TryGlobal(r)
    BY <2>1, HandlerKeeps
  <2>2. CASE \E r \in Requests : \/ EvictEntry(r) \/ ReturnIp(r) \/ SolveEnds(r)
                                 \/ WorkerExit(r) \/ Finish(r) \/ GiveUp(r)
    BY <2>2, TaskKeeps
  <2>3. CASE UNCHANGED vars \/ \E k \in Keys : Expire(k)
    <3>1. UNCHANGED <<asks, handler, worker, sem, guard, registry, holders, free>>
      BY <2>3 DEF vars, Expire, admission
    <3> QED BY <3>1 DEF AdmissionInv, AdmissionTypes, PhaseInv, FreshInv, SlotInv, RegistryInv,
                        PermitInv, Solving
  <2> QED BY <2>1, <2>2, <2>3 DEF Next
<1> QED BY <1>1, <1>2, PTL DEF Spec

\* A source with nothing in flight leaves no registry entry, every slot is
\* held by a request in flight, and every permit not held by a running task
\* is free, although guards evict before they release.
THEOREM AdmissionIsClean == Spec => []IdleIsClean
<1>1. AdmissionInv => IdleIsClean
  <2> SUFFICES ASSUME AdmissionInv PROVE IdleIsClean
    OBVIOUS
  <2>1. \A i \in Ips : (\A r \in Requests : asks[r].ip = i => ~InFlight(r)) => registry[i] = None
    BY DEF AdmissionInv, RegistryInv, InFlight
  <2>2. \A s \in Requests : \A r \in holders[s] : InFlight(r)
    BY DEF AdmissionInv, AdmissionTypes, SlotInv, InFlight
  <2>3. free = MaxSolves - Cardinality({r \in Requests : worker[r] \in {"solving", "exiting"}})
    BY DEF AdmissionInv, PermitInv, Solving
  <2> QED BY <2>1, <2>2, <2>3 DEF IdleIsClean
<1> QED BY <1>1, AdmissionInvariant, PTL

----------------------------------------------------------------------------
(* The cache. *)

\* Eviction and removal only empty entries.
LEMMA RoomFacts ==
  ASSUME NEW s, s.entries \in [Keys -> Entries \cup {None}], NEW key \in Keys, NEW size, NEW k \in Keys
  PROVE  Evicted(Without(s, key), size).entries[k] \in {None, s.entries[k]}
<1>1. Without(s, key).entries[k] \in {None, s.entries[k]}
  BY DEF Without
<1>2. \A t : Evicted(t, size).entries[k] \in {None, t.entries[k]}
  BY DEF Evicted
<1> QED BY <1>1, <1>2

(* What may follow an entry under its key. *)
NoWorse(old, new) ==
  old # None /\ new # None /\ old.spot = new.spot =>
    /\ old.stop = "final" => new.stop = "final"
    /\ old.stop # "final" /\ new.stop # "final" => new.quality <= old.quality

LEMMA InsertFacts ==
  ASSUME NEW s, IsCache(s), NEW key \in Keys, NEW new \in Entries,
         NEW t, t = CacheInsert(s, key, new)
  PROVE  IsCache(t) /\ \A k \in Keys : NoWorse(s.entries[k], t.entries[k])
<1> DEFINE old == s.entries[key]
<1>1. PICK room : room = Evicted(Without(s, key), SizeOf[new.spot])
  OBVIOUS
<1>2. \/ t = s
      \/ /\ old # None /\ old.stop # "final"
         /\ t = [s EXCEPT !.entries[key].stop = "budget"]
      \/ /\ SameSpot(old, new.spot) => Supersedes(old, new)
         /\ t = [entries |-> [room.entries EXCEPT ![key] = new],
                 order |-> Append(room.order, key), bytes |-> room.bytes + SizeOf[new.spot]]
  BY <1>1 DEF CacheInsert, SameSpot
<1>3. CASE t = s
  BY <1>3 DEF NoWorse, IsCache, Entries
<1>4. CASE /\ old # None /\ old.stop # "final"
           /\ t = [s EXCEPT !.entries[key].stop = "budget"]
  <2>1. old \in Entries
    BY <1>4 DEF IsCache
  <2>2. PICK x \in Entries : x = [old EXCEPT !.stop = "budget"]
    BY <2>1 DEF Entries
  <2>3. x.stop = "budget" /\ x.quality = old.quality
    BY <2>1, <2>2 DEF Entries
  <2>4. t = [entries |-> [s.entries EXCEPT ![key] = x], order |-> s.order, bytes |-> s.bytes]
    BY <1>4, <2>2 DEF IsCache
  <2> QED BY <1>4, <2>1, <2>3, <2>4 DEF IsCache, NoWorse, Entries
<1>5. CASE /\ SameSpot(old, new.spot) => Supersedes(old, new)
           /\ t = [entries |-> [room.entries EXCEPT ![key] = new],
                   order |-> Append(room.order, key), bytes |-> room.bytes + SizeOf[new.spot]]
  <2>1. /\ room.entries = [k \in Keys |-> room.entries[k]]
        /\ \A k \in Keys : room.entries[k] \in {None, s.entries[k]}
    <3>1. room.entries = [k \in Keys |-> room.entries[k]]
      BY <1>1 DEF Evicted
    <3> QED BY <1>1, <3>1, RoomFacts DEF IsCache
  <2>2. t.entries = [room.entries EXCEPT ![key] = new] /\ IsCache(t)
    BY <1>5, <2>1 DEF IsCache
  <2>3. t.entries[key] = new /\ \A k \in Keys \ {key} : t.entries[k] \in {None, s.entries[k]}
    BY <2>1, <2>2
  <2>4. NoWorse(old, new)
    <3>1. CASE old # None /\ old.spot = new.spot
      <4>1. old \in Entries /\ Supersedes(old, new)
        BY <1>5, <3>1 DEF IsCache, SameSpot
      <4> QED BY <4>1 DEF NoWorse, Supersedes, Entries
    <3> QED BY <3>1 DEF NoWorse
  <2> QED BY <2>2, <2>3, <2>4 DEF NoWorse, IsCache, Entries
<1> QED BY <1>2, <1>3, <1>4, <1>5

\* What one step does to the cache.
LEMMA CacheStep ==
  ASSUME CacheTypes, [Next]_vars
  PROVE  CacheTypes' /\ \A k \in Keys : NoWorse(store.entries[k], store'.entries[k])
<1> USE SolveAssumption DEF CacheTypes
<1>a. \A k \in Keys : NoWorse(store.entries[k], store.entries[k])
  BY DEF NoWorse, IsCache, Entries
<1>1. ASSUME NEW r \in Requests, SolveEnds(r)
      PROVE  CacheTypes' /\ store' = store
  <2>1. ASSUME NEW outcome \in Outcomes(asks[r].spot)
        PROVE  outcome \in Entries
    <3>1. asks[r].spot \in Spots /\ Qualities \subseteq Nat
      OBVIOUS
    <3>2. PICK stop \in {"final", "budget"}, q \in Qualities :
            outcome = [spot |-> asks[r].spot, stop |-> stop, quality |-> q]
      BY <2>1 DEF Outcomes
    <3> QED BY <3>1, <3>2 DEF Entries
  <2> QED BY <1>1, <2>1 DEF SolveEnds
<1>2. ASSUME NEW r \in Requests, Finish(r)
      PROVE  CacheTypes' /\ \A k \in Keys : NoWorse(store.entries[k], store'.entries[k])
  <2>1. asks' = asks /\ result' = [result EXCEPT ![r] = None]
    BY <1>2 DEF Finish
  <2>2. result' \in [Requests -> Entries \cup {None}]
    BY <2>1
  <2>3. CASE store' = store
    BY <1>a, <2>1, <2>2, <2>3
  <2>4. CASE result[r] # None /\ store' = CacheInsert(store, SpotKey(asks[r].spot), result[r])
    <3>1. result[r] \in Entries /\ SpotKey(asks[r].spot) \in Keys
      BY <2>4 DEF SpotKey
    <3> QED BY <2>1, <2>2, <2>4, <3>1, InsertFacts
  <2> QED BY <1>2, <2>3, <2>4 DEF Finish
<1>3. ASSUME NEW k \in Keys, Expire(k)
      PROVE  CacheTypes' /\ \A j \in Keys : NoWorse(store.entries[j], store'.entries[j])
  <2>1. /\ store.entries[k] # None /\ store.entries[k].stop = "budget"
        /\ store' = [store EXCEPT !.entries[k].stop = "stale"]
        /\ asks' = asks /\ result' = result
    BY <1>3 DEF Expire
  <2>2. store.entries[k] \in Entries
    BY <2>1 DEF IsCache
  <2>3. PICK x \in Entries : x = [store.entries[k] EXCEPT !.stop = "stale"]
    BY <2>2 DEF Entries
  <2>4. x.stop = "stale" /\ x.quality = store.entries[k].quality
    BY <2>2, <2>3 DEF Entries
  <2>5. store' = [entries |-> [store.entries EXCEPT ![k] = x], order |-> store.order,
                  bytes |-> store.bytes]
    BY <2>1, <2>3 DEF IsCache
  <2>6. IsCache(store')
    BY <2>5 DEF IsCache
  <2> QED BY <2>1, <2>2, <2>4, <2>5, <2>6 DEF IsCache, NoWorse, Entries
<1>4. ASSUME NEW r \in Requests,
             \/ Lookup(r) \/ GetEntry(r) \/ TryIp(r) \/ TryGlobal(r) \/ EvictEntry(r)
             \/ ReturnIp(r) \/ WorkerExit(r) \/ GiveUp(r)
      PROVE  CacheTypes' /\ store' = store
  <2>1. /\ asks' = asks /\ store' = store
        /\ \/ result' = result
           \/ result' = [result EXCEPT ![r] = None]
           \/ result' = [result EXCEPT ![r] = IF handler[r] = "gone" THEN None ELSE @]
    BY <1>4 DEF Lookup, GetEntry, TryIp, TryGlobal, EvictEntry, ReturnIp, WorkerExit, GiveUp
  <2>2. result' \in [Requests -> Entries \cup {None}]
    BY <2>1
  <2> QED BY <2>1, <2>2
<1>5. CASE UNCHANGED vars
  BY <1>a, <1>5 DEF vars
<1> QED BY <1>a, <1>1, <1>2, <1>3, <1>4, <1>5 DEF Next

\* supersede: whatever races, expires or is evicted, a final answer cached for a
\* spot is followed only by final ones, and a provisional one never by a less
\* accurate provisional one.
THEOREM CacheKeepsTheBest == Spec => BestAnswerStays
<1>1. Init => CacheTypes
  BY DEF Init, CacheTypes, IsCache, EmptyCache
<1>2. CacheTypes /\ [Next]_vars => CacheTypes'
  BY CacheStep
<1>3. Spec => []CacheTypes
  BY <1>1, <1>2, PTL DEF Spec
<1>4. CacheTypes /\ [Next]_vars =>
        [\A k \in Keys :
           LET old == store.entries[k]
               new == store'.entries[k]
           IN  old # None /\ new # None /\ old.spot = new.spot =>
                 /\ old.stop = "final" => new.stop = "final"
                 /\ old.stop # "final" /\ new.stop # "final" => new.quality <= old.quality]_vars
  BY CacheStep DEF NoWorse
<1> QED BY <1>3, <1>4, PTL DEF Spec, BestAnswerStays

----------------------------------------------------------------------------
(* The queue and the running total. *)

\* The keys a queue holds.
LEMMA QueueFacts ==
  ASSUME NEW S, NEW q \in Seq(S)
  PROVE  /\ DOMAIN q = 1 .. Len(q) /\ Len(q) \in Nat /\ IsFiniteSet(ToSet(q))
         /\ ToSet(q) \in SUBSET S
         /\ \A x : x \in ToSet(q) <=> \E i \in 1 .. Len(q) : x = q[i]
<1>1. DOMAIN q = 1 .. Len(q) /\ Len(q) \in Nat
  OBVIOUS
<1>2. IsFiniteSet(1 .. Len(q))
  BY <1>1, FS_Interval
<1>3. IsFiniteSet({q[i] : i \in 1 .. Len(q)})
  BY <1>2, ImageFinite
<1>4. ToSet(q) = {q[i] : i \in 1 .. Len(q)}
  BY <1>1 DEF ToSet
<1> QED BY <1>1, <1>3, <1>4

\* The places up to i but for the place p.
LEMMA PlacesWithout ==
  ASSUME NEW len \in Nat, NEW p \in 1 .. len, NEW i \in Int, 0 <= i, i <= len
  PROVE  Cardinality({j \in (1 .. len) \ {p} : j <= i}) = IF i < p THEN i ELSE i - 1
<1>1. IsFiniteSet(1 .. i) /\ Cardinality(1 .. i) = i
  BY FS_Interval
<1>2. CASE i < p
  <2>1. {j \in (1 .. len) \ {p} : j <= i} = 1 .. i
    BY <1>2
  <2> QED BY <1>1, <1>2, <2>1
<1>3. CASE ~(i < p)
  <2>1. {j \in (1 .. len) \ {p} : j <= i} = (1 .. i) \ {p} /\ p \in 1 .. i
    BY <1>3
  <2>2. Cardinality((1 .. i) \ {p}) = i - 1
    BY <1>1, <2>1, FS_RemoveElement
  <2> QED BY <1>3, <2>1, <2>2
<1> QED BY <1>2, <1>3

\* retain takes one key out of a queue that holds every key once.
LEMMA RetainFacts ==
  ASSUME NEW S, NEW q \in Seq(S), IsInjective(q), NEW key \in ToSet(q)
  PROVE  /\ Retain(q, key) \in Seq(S) /\ IsInjective(Retain(q, key))
         /\ ToSet(Retain(q, key)) = ToSet(q) \ {key}
<1>1. PICK p \in 1 .. Len(q) : q[p] = key
  BY QueueFacts
<1>2. \A i, j \in 1 .. Len(q) : q[i] = q[j] => i = j
  BY QueueFacts DEF IsInjective
<1> DEFINE kept == {i \in DOMAIN q : q[i] # key}
           next(n) == IF n < p THEN n ELSE n + 1
           t == [n \in 1 .. Len(q) - 1 |-> q[next(n)]]
<1>3. kept = (1 .. Len(q)) \ {p} /\ Len(q) \in Nat
  BY <1>1, <1>2, QueueFacts
<1>4. Cardinality(kept) = Len(q) - 1
  <2>1. IsFiniteSet(1 .. Len(q)) /\ Cardinality(1 .. Len(q)) = Len(q)
    BY <1>3, FS_Interval
  <2>2. Cardinality((1 .. Len(q)) \ {p}) = Len(q) - 1
    <3> HIDE DEF kept
    <3> QED BY <2>1, FS_RemoveElement
  <2> QED BY <1>3, <2>2
<1>5. \A i \in kept : Cardinality({j \in kept : j <= i}) = IF i < p THEN i ELSE i - 1
  <2> TAKE i \in kept
  <2>1. i \in Int /\ 0 <= i /\ i <= Len(q)
    BY <1>3
  <2>2. {j \in kept : j <= i} = {j \in (1 .. Len(q)) \ {p} : j <= i}
    BY <1>3
  <2>3. Cardinality({j \in (1 .. Len(q)) \ {p} : j <= i}) = IF i < p THEN i ELSE i - 1
    <3> HIDE DEF kept
    <3> QED BY <1>3, <2>1, PlacesWithout
  <2> QED BY <2>2, <2>3
<1>6. Retain(q, key) = t
  <2>1. \A n \in 1 .. Len(q) - 1 :
          (CHOOSE i \in kept : Cardinality({j \in kept : j <= i}) = n) = next(n)
    <3> TAKE n \in 1 .. Len(q) - 1
    <3> DEFINE place == CHOOSE i \in kept : Cardinality({j \in kept : j <= i}) = n
    <3>1. next(n) \in kept
      BY <1>3
    <3>2. Cardinality({j \in kept : j <= next(n)}) = n
      <4> HIDE DEF kept
      <4>1. Cardinality({j \in kept : j <= next(n)}) = IF next(n) < p THEN next(n) ELSE next(n) - 1
        BY <1>5, <3>1
      <4> QED BY <4>1, <1>1, <1>3
    <3>3. place \in kept /\ Cardinality({j \in kept : j <= place}) = n
      <4> HIDE DEF kept, next
      <4> QED BY <3>1, <3>2
    <3>4. n = IF place < p THEN place ELSE place - 1
      <4> HIDE DEF kept, place
      <4> QED BY <1>5, <3>3
    <3>5. place \in 1 .. Len(q) /\ place # p
      BY <1>3, <3>3
    <3>6. place = next(n)
      <4> HIDE DEF place, kept
      <4> QED BY <1>1, <3>4, <3>5
    <3> QED BY <3>6
  <2>2. Retain(q, key) = [n \in 1 .. Cardinality(kept) |->
                            q[CHOOSE i \in kept : Cardinality({j \in kept : j <= i}) = n]]
    BY DEF Retain
  <2>3. Retain(q, key) = [n \in 1 .. Len(q) - 1 |->
                            q[CHOOSE i \in kept : Cardinality({j \in kept : j <= i}) = n]]
    BY <1>4, <2>2
  <2> DEFINE place == [n \in 1 .. Len(q) - 1 |->
                         CHOOSE i \in kept : Cardinality({j \in kept : j <= i}) = n]
  <2>4. Retain(q, key) = [n \in 1 .. Len(q) - 1 |-> q[place[n]]]
    BY <2>3
  <2>5. \A n \in 1 .. Len(q) - 1 : place[n] = next(n)
    BY <2>1
  <2> HIDE DEF place, kept
  <2> QED BY <2>4, <2>5
<1>7. t \in Seq(S) /\ Len(t) = Len(q) - 1
  <2>1. \A n \in 1 .. Len(q) - 1 : next(n) \in 1 .. Len(q)
    BY <1>1, <1>3
  <2>2. \A n \in 1 .. Len(q) - 1 : q[next(n)] \in S
    BY <2>1
  <2>3. Len(q) - 1 \in Nat
    BY <1>1, <1>3
  <2> QED BY <2>2, <2>3
<1>8. IsInjective(t)
  BY <1>1, <1>2, <1>3 DEF IsInjective
<1>9. ToSet(t) = ToSet(q) \ {key}
  <2>1. \A x : x \in ToSet(t) <=> \E n \in 1 .. Len(q) - 1 : x = q[next(n)]
    <3>1. \A x : x \in ToSet(t) <=> \E n \in 1 .. Len(t) : x = t[n]
      BY <1>7, QueueFacts
    <3> QED BY <1>7, <3>1
  <2>2. \A x \in ToSet(t) : x \in ToSet(q) /\ x # key
    <3> TAKE x \in ToSet(t)
    <3>1. PICK n \in 1 .. Len(q) - 1 : x = q[next(n)]
      BY <2>1
    <3>2. next(n) \in 1 .. Len(q) /\ next(n) # p
      BY <1>1, <1>3
    <3> QED BY <1>1, <1>2, <3>1, <3>2, QueueFacts
  <2>3. \A x \in ToSet(q) \ {key} : x \in ToSet(t)
    <3> TAKE x \in ToSet(q) \ {key}
    <3>1. PICK i \in 1 .. Len(q) : x = q[i]
      BY QueueFacts
    <3>2. i # p
      BY <1>1, <3>1
    <3>3. PICK n \in 1 .. Len(q) - 1 : next(n) = i
      <4>1. CASE i < p
        BY <1>1, <1>3, <4>1
      <4>2. CASE i > p
        <5>1. i - 1 \in 1 .. Len(q) - 1 /\ next(i - 1) = i
          BY <1>1, <1>3, <4>2
        <5> QED BY <5>1
      <4> QED BY <1>1, <3>2, <4>1, <4>2
    <3> QED BY <2>1, <3>1, <3>3
  <2> QED BY <2>2, <2>3
<1> QED BY <1>6, <1>7, <1>8, <1>9

(* The keys with an entry. *)
Cached(s) == {k \in Keys : s.entries[k] # None}

(* The queue and the running total are those of the entries. *)
Booked(s) ==
  /\ IsCache(s) /\ s.order \in Seq(Keys) /\ IsInjective(s.order)
  /\ ToSet(s.order) = Cached(s) /\ s.bytes = BytesOf(s, ToSet(s.order))

\* Bytes add up, and only depend on the entries.
LEMMA BytesFacts ==
  ASSUME NEW s, IsCache(s), NEW S \in SUBSET Keys, IsFiniteSet(S)
  PROVE  /\ BytesOf(s, S) \in Nat
         /\ \A T \in SUBSET S : BytesOf(s, S) = BytesOf(s, T) + BytesOf(s, S \ T)
         /\ \A t : (\A k \in S : SizeUnder(t, k) = SizeUnder(s, k)) => BytesOf(t, S) = BytesOf(s, S)
<1> DEFINE f == [k \in Keys |-> SizeUnder(s, k)]
<1>1. \A k \in S : f[k] \in Nat /\ f[k] \in Int
  <2> TAKE k \in S
  <2>1. s.entries[k] \in Entries \cup {None}
    BY DEF IsCache
  <2>2. SizeUnder(s, k) \in Nat
    BY <2>1, SolveAssumption DEF SizeUnder, Entries
  <2> QED BY <2>2
<1>2. \A T : BytesOf(s, T) = SumFunctionOnSet(f, T)
  BY DEF BytesOf
<1>3. ASSUME NEW t, \A k \in S : SizeUnder(t, k) = SizeUnder(s, k)
      PROVE  BytesOf(t, S) = BytesOf(s, S)
  <2> DEFINE h == [k \in Keys |-> SizeUnder(t, k)]
  <2>1. \A k \in S : h[k] = f[k]
    BY <1>3
  <2>2. BytesOf(t, S) = SumFunctionOnSet(h, S)
    BY DEF BytesOf
  <2> HIDE DEF f, h
  <2>3. SumFunctionOnSet(h, S) = SumFunctionOnSet(f, S)
    BY <2>1, SumSame
  <2> QED BY <1>2, <2>2, <2>3
<1> HIDE DEF f
<1>4. SumFunctionOnSet(f, S) \in Nat
  BY <1>1, SumOfNaturals
<1>5. \A T \in SUBSET S : SumFunctionOnSet(f, S) = SumFunctionOnSet(f, T) + SumFunctionOnSet(f, S \ T)
  BY <1>1, SumSplit
<1> QED BY <1>2, <1>3, <1>4, <1>5

\* Entries that go take their bytes with them.
LEMMA DropFacts ==
  ASSUME NEW s, Booked(s), NEW D \in SUBSET Cached(s),
         NEW t, t.entries = [k \in Keys |-> IF k \in D THEN None ELSE s.entries[k]],
         t = [entries |-> t.entries, order |-> t.order, bytes |-> t.bytes],
         t.order \in Seq(Keys), IsInjective(t.order), ToSet(t.order) = ToSet(s.order) \ D,
         t.bytes = s.bytes - BytesOf(s, D)
  PROVE  Booked(t)
<1>1. IsCache(t) /\ IsCache(s)
  BY DEF IsCache, Booked
<1>2. ToSet(t.order) = Cached(t)
  BY DEF Cached, Booked
<1> DEFINE S == Cached(s)
<1>3. IsFiniteSet(S) /\ S \in SUBSET Keys /\ s.bytes = BytesOf(s, S)
  <2>1. s.order \in Seq(Keys) /\ ToSet(s.order) = S /\ s.bytes = BytesOf(s, ToSet(s.order))
    BY DEF Booked
  <2>2. S \in SUBSET Keys
    BY DEF Cached
  <2> HIDE DEF S
  <2>3. IsFiniteSet(ToSet(s.order))
    BY <2>1, QueueFacts
  <2> QED BY <2>1, <2>2, <2>3
<1>4. IsFiniteSet(S \ D) /\ IsFiniteSet(D) /\ S \ D \in SUBSET Keys /\ D \in SUBSET S
  BY <1>3, FS_Subset
<1> HIDE DEF S
<1>5. BytesOf(s, S) = BytesOf(s, D) + BytesOf(s, S \ D) /\ BytesOf(s, D) \in Nat /\ BytesOf(s, S \ D) \in Nat
  <2>1. BytesOf(s, S) = BytesOf(s, D) + BytesOf(s, S \ D)
    BY <1>1, <1>3, <1>4, BytesFacts
  <2>2. BytesOf(s, D) \in Nat
    <3>1. D \in SUBSET Keys
      BY <1>3, <1>4
    <3> QED BY <1>1, <1>4, <3>1, BytesFacts
  <2>3. BytesOf(s, S \ D) \in Nat
    BY <1>1, <1>4, BytesFacts
  <2> QED BY <2>1, <2>2, <2>3
<1>6. BytesOf(t, S \ D) = BytesOf(s, S \ D)
  <2>1. \A k \in S \ D : SizeUnder(t, k) = SizeUnder(s, k)
    BY <1>4 DEF SizeUnder
  <2> QED BY <1>1, <1>4, <2>1, BytesFacts
<1>7. t.bytes = BytesOf(t, ToSet(t.order))
  <2>1. ToSet(t.order) = S \ D
    BY DEF Booked, S
  <2>2. t.bytes = BytesOf(s, S) - BytesOf(s, D)
    BY <1>3
  <2>3. t.bytes = BytesOf(s, S \ D)
    BY <1>5, <2>2
  <2> QED BY <1>6, <2>1, <2>3
<1> QED BY <1>1, <1>2, <1>7 DEF Booked

LEMMA WithoutFacts ==
  ASSUME NEW s, Booked(s), NEW key \in Keys
  PROVE  Booked(Without(s, key)) /\ Without(s, key).entries[key] = None
<1>1. CASE s.entries[key] = None
  BY <1>1 DEF Without
<1>2. CASE s.entries[key] # None
  <2>1. PICK t : t = Without(s, key)
    OBVIOUS
  <2>2. t = [entries |-> [s.entries EXCEPT ![key] = None], order |-> Retain(s.order, key),
             bytes |-> s.bytes - SizeUnder(s, key)]
    BY <1>2, <2>1 DEF Without
  <2>3. key \in ToSet(s.order) /\ key \in Cached(s)
    BY <1>2 DEF Booked, Cached
  <2>4. /\ Retain(s.order, key) \in Seq(Keys) /\ IsInjective(Retain(s.order, key))
        /\ ToSet(Retain(s.order, key)) = ToSet(s.order) \ {key}
    BY <2>3, RetainFacts DEF Booked
  <2>5. BytesOf(s, {key}) = SizeUnder(s, key)
    <3> DEFINE f == [k \in Keys |-> SizeUnder(s, k)]
    <3>1. f[key] = SizeUnder(s, key) /\ BytesOf(s, {key}) = SumFunctionOnSet(f, {key})
      BY DEF BytesOf
    <3>2. SizeUnder(s, key) \in Int
      <4>1. s.entries[key] \in Entries
        BY <1>2 DEF Booked, IsCache
      <4> QED BY <4>1, SolveAssumption DEF SizeUnder, Entries
    <3> HIDE DEF f
    <3> QED BY <3>1, <3>2, SumOne
  <2>6. t.entries = [k \in Keys |-> IF k \in {key} THEN None ELSE s.entries[k]]
    BY <2>2 DEF Booked, IsCache
  <2>7. /\ t = [entries |-> t.entries, order |-> t.order, bytes |-> t.bytes]
        /\ t.order \in Seq(Keys) /\ IsInjective(t.order)
        /\ ToSet(t.order) = ToSet(s.order) \ {key}
        /\ t.bytes = s.bytes - BytesOf(s, {key})
    BY <2>2, <2>4, <2>5
  <2>8. Booked(t)
    <3> DEFINE D == {key}
    <3>1. D \in SUBSET Cached(s)
      BY <2>3
    <3>2. D = {key}
      OBVIOUS
    <3> HIDE DEF D
    <3> QED BY <2>6, <2>7, <3>1, <3>2, DropFacts
  <2> QED BY <2>1, <2>6, <2>8
<1> QED BY <1>1, <1>2

\* Eviction leaves the books right and room for the new entry.
LEMMA EvictedFacts ==
  ASSUME NEW s, Booked(s), NEW size \in Nat, size <= MaxCacheBytes
  PROVE  /\ Booked(Evicted(s, size)) /\ Evicted(s, size).bytes + size <= MaxCacheBytes
         /\ \A k \in Keys : Evicted(s, size).entries[k] \in {None, s.entries[k]}
<1> DEFINE q == s.order
           len == Len(q)
           oldest(n) == {q[i] : i \in 1..n}
           total(n) == BytesOf(s, oldest(n))
           fits(n) == s.bytes - total(n) + size <= MaxCacheBytes
           stops == {m \in 0..len : fits(m) \/ m = len}
           n == CHOOSE m \in 0..len : /\ fits(m) \/ m = len
                                      /\ \A j \in 0..m - 1 : ~fits(j)
<1>1. /\ q \in Seq(Keys) /\ IsInjective(q) /\ ToSet(q) = Cached(s) /\ s.bytes = BytesOf(s, ToSet(q))
      /\ len \in Nat /\ IsCache(s)
  BY DEF Booked
<1>2. oldest(len) = ToSet(q)
  BY <1>1, QueueFacts
<1>3. n \in 0..len /\ (fits(n) \/ n = len)
  <2> HIDE DEF fits
  <2>1. stops \in SUBSET Nat /\ len \in stops
    BY <1>1
  <2>2. PICK m \in stops : \A y \in stops : m <= y
    <3> HIDE DEF stops
    <3> QED BY <2>1, LeastElement
  <2>3. m \in 0..len /\ (fits(m) \/ m = len) /\ \A j \in 0..m - 1 : ~fits(j)
    BY <1>1, <2>2
  <2> QED BY <2>3
<1>4. Evicted(s, size) =
        [entries |-> [k \in Keys |-> IF k \in oldest(n) THEN None ELSE s.entries[k]],
         order   |-> SubSeq(q, n + 1, len),
         bytes   |-> s.bytes - total(n)]
  BY DEF Evicted
<1> HIDE DEF n
<1>5. fits(n)
  <2>1. CASE n = len
    <3>1. s.bytes = total(n)
      BY <1>1, <1>2, <2>1
    <3>2. s.bytes \in Nat
      BY <1>1, QueueFacts, BytesFacts
    <3> HIDE DEF total
    <3> QED BY <3>1, <3>2, SolveAssumption
  <2> QED BY <1>3, <2>1
<1>6. PICK t : t = Evicted(s, size)
  OBVIOUS
<1> DEFINE D == oldest(n)
           rest == SubSeq(q, n + 1, len)
<1>7. D \in SUBSET Cached(s)
  BY <1>1, <1>3, QueueFacts
<1>8. rest \in Seq(Keys) /\ Len(rest) = len - n /\ \A i \in 1 .. len - n : rest[i] = q[n + i]
  <2>1. \A i \in n + 1 .. len : q[i] \in Keys
    BY <1>1, <1>3
  <2>2. /\ rest \in Seq(Keys) /\ Len(rest) = IF n + 1 <= len THEN len - (n + 1) + 1 ELSE 0
        /\ \A i \in 1 .. len - (n + 1) + 1 : rest[i] = q[n + 1 + i - 1]
    <3>1. n + 1 \in Int /\ len \in Int
      BY <1>1, <1>3
    <3> QED BY <2>1, <3>1, SubSeqProperties
  <2> HIDE DEF rest
  <2> QED BY <1>1, <1>3, <2>2
<1>9. \A i, j \in 1 .. len : q[i] = q[j] => i = j
  BY <1>1, QueueFacts DEF IsInjective
<1> HIDE DEF rest
<1>10. IsInjective(rest)
  <2>1. DOMAIN rest = 1 .. len - n
    BY <1>8
  <2>2. ASSUME NEW i \in 1 .. len - n, NEW j \in 1 .. len - n, rest[i] = rest[j] PROVE i = j
    <3>1. n + i \in 1 .. len /\ n + j \in 1 .. len /\ q[n + i] = q[n + j]
      BY <1>1, <1>3, <1>8, <2>2
    <3>2. n + i = n + j
      BY <1>9, <3>1
    <3> QED BY <1>3, <3>2
  <2> QED BY <2>1, <2>2 DEF IsInjective
<1>11. ToSet(rest) = ToSet(q) \ D
  <2>1. \A x : x \in ToSet(rest) <=> \E i \in 1 .. len - n : x = q[n + i]
    <3>1. \A x : x \in ToSet(rest) <=> \E i \in 1 .. Len(rest) : x = rest[i]
      BY <1>8, QueueFacts
    <3> QED BY <1>8, <3>1
  <2>2. \A x : x \in ToSet(q) <=> \E i \in 1 .. len : x = q[i]
    BY <1>1, QueueFacts
  <2>3. \A x \in ToSet(rest) : x \in ToSet(q) /\ x \notin D
    <3> TAKE x \in ToSet(rest)
    <3>1. PICK i \in 1 .. len - n : x = q[n + i]
      BY <2>1
    <3>2. n + i \in 1 .. len /\ \A j \in 1 .. n : j \in 1 .. len /\ j # n + i
      BY <1>1, <1>3
    <3> QED BY <1>9, <2>2, <3>1, <3>2
  <2>4. \A x \in ToSet(q) \ D : x \in ToSet(rest)
    <3> TAKE x \in ToSet(q) \ D
    <3>1. PICK i \in 1 .. len : x = q[i]
      BY <2>2
    <3>2. i \notin 1 .. n
      BY <3>1
    <3>3. i - n \in 1 .. len - n /\ q[i] = q[n + (i - n)]
      BY <1>1, <1>3, <3>2
    <3> QED BY <2>1, <3>1, <3>3
  <2> QED BY <2>3, <2>4
<1>12. /\ t.entries = [k \in Keys |-> IF k \in D THEN None ELSE s.entries[k]]
       /\ t = [entries |-> t.entries, order |-> t.order, bytes |-> t.bytes]
       /\ t.order = rest /\ t.bytes = s.bytes - BytesOf(s, D)
  <2>1. t = [entries |-> [k \in Keys |-> IF k \in D THEN None ELSE s.entries[k]],
             order |-> rest, bytes |-> s.bytes - BytesOf(s, D)]
    BY <1>4, <1>6 DEF rest
  <2> HIDE DEF D
  <2> QED BY <2>1
<1> HIDE DEF D, q, len
<1>13. Booked(t)
  BY <1>7, <1>8, <1>10, <1>11, <1>12, DropFacts DEF q
<1>14. t.bytes + size <= MaxCacheBytes
  BY <1>5, <1>12 DEF D
<1>15. \A k \in Keys : t.entries[k] \in {None, s.entries[k]}
  BY <1>12
<1> QED BY <1>6, <1>13, <1>14, <1>15

(* The cache is booked and within its budget. *)
InBudget(s) == Booked(s) /\ s.bytes <= MaxCacheBytes

\* An entry that is marked keeps its place and its size.
LEMMA MarkFacts ==
  ASSUME NEW s, InBudget(s), NEW key \in Keys, s.entries[key] # None,
         NEW x \in Entries, x.spot = s.entries[key].spot,
         NEW t, t = [entries |-> [s.entries EXCEPT ![key] = x], order |-> s.order, bytes |-> s.bytes]
  PROVE  InBudget(t)
<1>1. IsCache(s) /\ IsCache(t) /\ t.order = s.order /\ t.bytes = s.bytes
  BY DEF InBudget, Booked, IsCache
<1>2. x # None
  BY SolveAssumption
<1>3. \A k \in Keys : SizeUnder(t, k) = SizeUnder(s, k) /\ (t.entries[k] = None <=> s.entries[k] = None)
  BY <1>1, <1>2 DEF SizeUnder, IsCache
<1>4. Cached(t) = Cached(s)
  BY <1>3 DEF Cached
<1>5. s.order \in Seq(Keys) /\ s.bytes = BytesOf(s, ToSet(s.order))
  BY DEF InBudget, Booked
<1>6. IsFiniteSet(ToSet(s.order)) /\ ToSet(s.order) \in SUBSET Keys
  BY <1>5, QueueFacts
<1>7. BytesOf(t, ToSet(s.order)) = BytesOf(s, ToSet(s.order))
  BY <1>1, <1>3, <1>6, BytesFacts
<1> QED BY <1>1, <1>4, <1>5, <1>7 DEF InBudget, Booked

\* cache_insert keeps the three parts of the cache together.
LEMMA InsertBooks ==
  ASSUME NEW s, InBudget(s), NEW key \in Keys, NEW new \in Entries,
         NEW t, t = CacheInsert(s, key, new)
  PROVE  InBudget(t)
<1> DEFINE old == s.entries[key]
           size == SizeOf[new.spot]
<1>1. PICK room : room = Evicted(Without(s, key), size)
  OBVIOUS
<1>2. \/ t = s
      \/ /\ old # None
         /\ t = [s EXCEPT !.entries[key].stop = "budget"]
      \/ /\ ~(size > MaxCacheBytes)
         /\ t = [entries |-> [room.entries EXCEPT ![key] = new],
                 order |-> Append(room.order, key), bytes |-> room.bytes + size]
  BY <1>1 DEF CacheInsert, SameSpot
<1>3. CASE old # None /\ t = [s EXCEPT !.entries[key].stop = "budget"]
  <2>1. old \in Entries /\ s = [entries |-> s.entries, order |-> s.order, bytes |-> s.bytes]
    BY <1>3 DEF InBudget, Booked, IsCache
  <2>2. PICK x \in Entries : x = [old EXCEPT !.stop = "budget"]
    BY <2>1 DEF Entries
  <2>3. x.spot = old.spot
    BY <2>1, <2>2 DEF Entries
  <2>4. t = [entries |-> [s.entries EXCEPT ![key] = x], order |-> s.order, bytes |-> s.bytes]
    BY <1>3, <2>1, <2>2
  <2> QED BY <1>3, <2>3, <2>4, MarkFacts
<1>4. CASE /\ ~(size > MaxCacheBytes)
           /\ t = [entries |-> [room.entries EXCEPT ![key] = new],
                   order |-> Append(room.order, key), bytes |-> room.bytes + size]
  <2>1. new.spot \in Spots /\ size \in Nat
    BY SolveAssumption DEF Entries
  <2>2. size <= MaxCacheBytes
    BY <1>4, <2>1, SolveAssumption
  <2>3. Booked(Without(s, key)) /\ Without(s, key).entries[key] = None
    BY WithoutFacts DEF InBudget
  <2> HIDE DEF size
  <2>4. /\ Booked(room) /\ room.bytes + size <= MaxCacheBytes
        /\ room.entries[key] = None
    BY <1>1, <2>1, <2>2, <2>3, EvictedFacts
  <2>5. IsCache(room) /\ room.order \in Seq(Keys) /\ IsInjective(room.order)
        /\ ToSet(room.order) = Cached(room) /\ room.bytes = BytesOf(room, ToSet(room.order))
    BY <2>4 DEF Booked
  <2> DEFINE S == ToSet(room.order)
  <2>6. /\ t.entries = [room.entries EXCEPT ![key] = new] /\ IsCache(t)
        /\ t.order = Append(room.order, key) /\ t.bytes = room.bytes + size
    BY <1>4, <2>5 DEF IsCache
  <2>7. key \notin S /\ S \in SUBSET Keys /\ IsFiniteSet(S)
    <3>1. key \notin Cached(room)
      BY <2>4 DEF Cached
    <3> QED BY <2>5, <3>1, QueueFacts
  <2>8. /\ t.order \in Seq(Keys) /\ Len(t.order) = Len(room.order) + 1
        /\ \A i \in 1 .. Len(room.order) : t.order[i] = room.order[i]
        /\ t.order[Len(room.order) + 1] = key
    BY <2>5, <2>6, AppendProperties
  <2>9. /\ Len(room.order) \in Nat /\ DOMAIN room.order = 1 .. Len(room.order)
        /\ DOMAIN t.order = 1 .. Len(room.order) + 1
        /\ \A k : k \in S <=> \E i \in 1 .. Len(room.order) : k = room.order[i]
        /\ \A k : k \in ToSet(t.order) <=> \E i \in 1 .. Len(room.order) + 1 : k = t.order[i]
    <3>1. /\ DOMAIN t.order = 1 .. Len(t.order)
          /\ \A k : k \in ToSet(t.order) <=> \E i \in 1 .. Len(t.order) : k = t.order[i]
      BY <2>8, QueueFacts
    <3>2. /\ Len(room.order) \in Nat /\ DOMAIN room.order = 1 .. Len(room.order)
          /\ \A k : k \in S <=> \E i \in 1 .. Len(room.order) : k = room.order[i]
      BY <2>5, QueueFacts
    <3> QED BY <2>8, <3>1, <3>2
  <2> HIDE DEF S
  <2>10. ToSet(t.order) = S \cup {key}
    <3>1. PICK n \in Nat : n = Len(room.order)
      BY <2>9
    <3>2. \A i \in 1 .. n + 1 : i \in 1 .. n \/ i = n + 1
      OBVIOUS
    <3>3. \A i \in 1 .. n : i \in 1 .. n + 1
      OBVIOUS
    <3>4. n + 1 \in 1 .. n + 1
      OBVIOUS
    <3>5. \A k : k \in ToSet(t.order) => k \in S \cup {key}
      <4> SUFFICES ASSUME NEW k, k \in ToSet(t.order) PROVE k \in S \/ k = key
        OBVIOUS
      <4>1. PICK i \in 1 .. n + 1 : k = t.order[i]
        BY <2>9, <3>1
      <4>2. CASE i \in 1 .. n
        BY <2>8, <2>9, <3>1, <4>1, <4>2
      <4>3. CASE i = n + 1
        BY <2>8, <3>1, <4>1, <4>3
      <4> QED BY <3>2, <4>2, <4>3
    <3>6. \A k \in S : k \in ToSet(t.order)
      <4> TAKE k \in S
      <4>1. PICK i \in 1 .. n : k = room.order[i]
        BY <2>9, <3>1
      <4>2. k = t.order[i] /\ i \in 1 .. n + 1
        BY <2>8, <3>1, <3>3, <4>1
      <4> QED BY <2>9, <3>1, <4>2
    <3>7. key \in ToSet(t.order)
      BY <2>8, <2>9, <3>1, <3>4
    <3> QED BY <3>5, <3>6, <3>7
  <2>11. IsInjective(t.order)
    <3>1. \A i, j \in 1 .. Len(room.order) : room.order[i] = room.order[j] => i = j
      BY <2>5, <2>9 DEF IsInjective
    <3>2. \A i \in 1 .. Len(room.order) : t.order[i] # key
      BY <2>7, <2>8, <2>9
    <3>3. \A i \in 1 .. Len(room.order) + 1 : i \in 1 .. Len(room.order) \/ i = Len(room.order) + 1
      BY <2>9
    <3> QED BY <2>8, <2>9, <3>1, <3>2, <3>3 DEF IsInjective
  <2>12. \A k \in Keys : t.entries[k] = IF k = key THEN new ELSE room.entries[k]
    BY <2>5, <2>6 DEF IsCache
  <2>13. Cached(t) = S \cup {key}
    BY <2>5, <2>12, SolveAssumption DEF Cached, S
  <2>14. BytesOf(t, S \cup {key}) = room.bytes + size
    <3>1. \A k \in S : SizeUnder(t, k) = SizeUnder(room, k)
      BY <2>7, <2>12 DEF SizeUnder
    <3>2. BytesOf(t, S) = room.bytes
      BY <2>5, <2>7, <3>1, BytesFacts DEF S
    <3> DEFINE f == [k \in Keys |-> SizeUnder(t, k)]
    <3>3. \A k \in S \cup {key} : f[k] \in Int
      <4> TAKE k \in S \cup {key}
      <4>1. k \in Keys /\ t.entries[k] \in Entries \cup {None}
        BY <2>6, <2>7 DEF IsCache
      <4> QED BY <4>1, SolveAssumption DEF SizeUnder, Entries
    <3>4. f[key] = size
      BY <2>12, SolveAssumption DEF SizeUnder, size
    <3>5. BytesOf(t, S) = SumFunctionOnSet(f, S)
          /\ BytesOf(t, S \cup {key}) = SumFunctionOnSet(f, S \cup {key})
      BY DEF BytesOf
    <3> HIDE DEF f
    <3>6. SumFunctionOnSet(f, S \cup {key}) = f[key] + SumFunctionOnSet(f, S)
      BY <2>7, <3>3, SumAdd
    <3>7. room.bytes \in Nat
      BY <2>5, <2>7, BytesFacts DEF S
    <3> QED BY <2>1, <3>2, <3>4, <3>5, <3>6, <3>7
  <2> QED BY <2>4, <2>6, <2>8, <2>10, <2>11, <2>13, <2>14 DEF InBudget, Booked
<1> QED BY <1>2, <1>3, <1>4

\* cache_insert's three parts move together: after any sequence of solves,
\* replacements, collisions and evictions the queue holds exactly the cached
\* keys, once each, and the running total is the size of what is cached and
\* never over MAX_CACHE_BYTES.
THEOREM CacheIsBooked == Spec => []CacheBooks
<1> DEFINE I == CacheTypes /\ InBudget(store)
<1>1. Init => I
  <2> SUFFICES ASSUME Init PROVE I
    OBVIOUS
  <2>1. CacheTypes /\ store = EmptyCache
    BY DEF Init, CacheTypes, IsCache, EmptyCache
  <2>2. store.order = <<>> /\ store.bytes = 0 /\ \A k \in Keys : store.entries[k] = None
    BY <2>1 DEF EmptyCache
  <2>3. ToSet(store.order) = {} /\ IsInjective(store.order) /\ store.order \in Seq(Keys)
    BY <2>2 DEF ToSet, IsInjective
  <2>4. Cached(store) = {}
    BY <2>2 DEF Cached
  <2>5. BytesOf(store, {}) = 0
    BY SumEmpty DEF BytesOf
  <2>6. Booked(store)
    BY <2>1, <2>2, <2>3, <2>4, <2>5 DEF Booked, CacheTypes
  <2>7. store.bytes <= MaxCacheBytes
    BY <2>2, SolveAssumption
  <2> QED BY <2>1, <2>6, <2>7 DEF InBudget
<1>2. I /\ [Next]_vars => I'
  <2> SUFFICES ASSUME CacheTypes, InBudget(store), [Next]_vars PROVE InBudget(store')
    BY CacheStep DEF I
  <2>1. CASE store' = store
    BY <2>1
  <2>2. ASSUME NEW r \in Requests, Finish(r) PROVE InBudget(store')
    <3>1. CASE result[r] # None /\ store' = CacheInsert(store, SpotKey(asks[r].spot), result[r])
      <4>1. result[r] \in Entries /\ SpotKey(asks[r].spot) \in Keys
        BY <3>1, SolveAssumption DEF CacheTypes, SpotKey
      <4> QED BY <3>1, <4>1, InsertBooks
    <3> QED BY <2>1, <2>2, <3>1 DEF Finish
  <2>3. ASSUME NEW k \in Keys, Expire(k) PROVE InBudget(store')
    <3>1. /\ store.entries[k] # None
          /\ store' = [store EXCEPT !.entries[k].stop = "stale"]
      BY <2>3 DEF Expire
    <3>2. store.entries[k] \in Entries /\ IsCache(store)
      BY <3>1 DEF CacheTypes, IsCache
    <3>3. PICK x \in Entries : x = [store.entries[k] EXCEPT !.stop = "stale"]
      BY <3>2 DEF Entries
    <3>4. x.spot = store.entries[k].spot
      BY <3>2, <3>3 DEF Entries
    <3>5. store' = [entries |-> [store.entries EXCEPT ![k] = x], order |-> store.order,
                    bytes |-> store.bytes]
      BY <3>1, <3>2, <3>3 DEF IsCache
    <3> QED BY <3>1, <3>4, <3>5, MarkFacts
  <2>4. ASSUME NEW r \in Requests,
               \/ Lookup(r) \/ GetEntry(r) \/ TryIp(r) \/ TryGlobal(r) \/ EvictEntry(r)
               \/ ReturnIp(r) \/ SolveEnds(r) \/ WorkerExit(r) \/ GiveUp(r)
        PROVE  store' = store
    BY <2>4 DEF Lookup, GetEntry, TryIp, TryGlobal, EvictEntry, ReturnIp, SolveEnds, WorkerExit, GiveUp
  <2>5. CASE UNCHANGED vars
    BY <2>1, <2>5 DEF vars
  <2> QED BY <2>1, <2>2, <2>3, <2>4, <2>5 DEF Next
<1>3. I => CacheBooks
  BY DEF InBudget, Booked, Cached, CacheBooks
<1> QED BY <1>1, <1>2, <1>3, PTL DEF Spec
=============================================================================
