------------------------ MODULE OrderedWriter_proofs ------------------------
(***************************************************************************)
(* OrderedWriter's safety for every capacity, number of waiters, of        *)
(* accepted snapshots and of process lives: WriterInv is inductive, implies*)
(* the writer's invariants and carries the refinement of DurableLog.       *)
(*                                                                         *)
(* The argument: what the worker holds and what the channel holds are the  *)
(* consecutive sequence numbers after the last durable one, and storage is *)
(* either exactly there or, after a lost acknowledgement, at the end of    *)
(* the item being retried.                                                 *)
(***************************************************************************)
EXTENDS OrderedWriter, SequenceTheorems, WellFoundedInduction, TLAPS

(* Where the head, and the item merge handed back, end. *)
HeadEnd == IF head = <<>> THEN progress.sequence ELSE head[1].hi
CarryEnd == IF carry = <<>> THEN HeadEnd ELSE carry[1].hi

(* The newest snapshot that reached the channel: enqueue sends before it   *)
(* counts, publish counts before it sends.                                 *)
Sent == IF call = "sent" THEN sequence + 1
        ELSE IF call = "publishing" THEN sequence - 1 ELSE sequence

Phases == {"recv", "merging", "persist", "backoff", "stopped"}
Items == [lo : Nat, hi : Nat]

WriterTypes ==
  /\ coalesces \in BOOLEAN /\ life \in 1 .. MaxLives
  /\ base \in Nat /\ stored \in Nat
  /\ call \in {"none", "reserved", "publishing", "sent"}
  /\ sequence \in 0 .. MaxAccepts /\ queued = sequence
  /\ queue \in Seq(Items) /\ sender \in BOOLEAN
  /\ worker \in Phases
  /\ IF worker \in {"merging", "persist", "backoff"}
       THEN \E item \in Items : head = <<item>>
       ELSE head = <<>>
  /\ \/ carry = <<>>
     \/ \E item \in Items : carry = <<item>>
  /\ progress \in [sequence : 0 .. MaxAccepts, error : BOOLEAN]
  /\ waiter \in [Waiters -> [base : Nat, target : Nat,
                  state : {"idle", "waiting", "ok", "closed", "gone"}]]
  /\ drain \in [target : Nat, state : {"idle", "draining", "drained", "timeout"}]

(* The owner's side of the calls in progress. *)
CallInv ==
  /\ call \in {"reserved", "sent"} => sequence < MaxAccepts
  /\ call = "publishing" => sequence > 0
  /\ ~sender => call = "none"
  /\ Len(queue) + Reserved <= Capacity

(* What is in memory follows on from what is durable, without gaps. *)
ChainInv ==
  /\ head # <<>> => head[1].lo = progress.sequence + 1 /\ head[1].hi >= head[1].lo
  /\ carry # <<>> => carry[1] = Item(HeadEnd + 1)
  /\ \A i \in 1 .. Len(queue) : queue[i] = Item(CarryEnd + i)
  /\ worker # "stopped" => CarryEnd + Len(queue) = Sent
  /\ worker = "stopped" => carry = <<>> /\ queue = <<>>
  /\ worker = "merging" => carry = <<>> /\ coalesces
  /\ (head # <<>> /\ ~coalesces) => head[1].hi = head[1].lo
  /\ ~coalesces => carry = <<>>

(* Storage is at the last durable sequence, or at the end of an item whose *)
(* acknowledgement was lost.                                               *)
StoredInv ==
  \/ stored = base + progress.sequence
  \/ worker \in {"persist", "backoff"} /\ stored = base + head[1].hi

(* Only a fenced worker settles without storing. *)
CompletedInv ==
  \/ completed = progress.sequence
  \/ completed = Settled /\ worker = "stopped"

WaitInv ==
  /\ \A w \in Waiters :
       /\ waiter[w].state = "waiting" => waiter[w].base = base
       /\ waiter[w].state = "ok" => waiter[w].base + waiter[w].target <= stored
  /\ drain.state = "drained" => drain.target <= completed

WriterInv ==
  WriterTypes /\ CallInv /\ ChainInv /\ StoredInv /\ CompletedInv /\ WaitInv

-----------------------------------------------------------------------------
(* What the parts say together. *)

\* The chain of numbers in memory never runs past what was accepted.
LEMMA ChainBounds ==
  ASSUME WriterInv
  PROVE  /\ HeadEnd \in Nat /\ CarryEnd \in Nat /\ Sent \in Nat /\ Len(queue) \in Nat
         /\ progress.sequence <= HeadEnd /\ HeadEnd <= CarryEnd
         /\ Sent <= MaxAccepts
         /\ worker # "stopped" => CarryEnd + Len(queue) = Sent
         /\ head # <<>> => head[1] \in Items /\ head[1].hi = HeadEnd
         /\ CarryEnd <= MaxAccepts
         /\ worker \in {"merging", "persist", "backoff"} => head # <<>>
<1> USE WriterAssumption DEF WriterInv
<1>1. HeadEnd \in Nat /\ progress.sequence <= HeadEnd
  BY DEF WriterTypes, ChainInv, HeadEnd, Items
<1>2. CarryEnd \in Nat /\ HeadEnd <= CarryEnd
  BY <1>1 DEF WriterTypes, ChainInv, CarryEnd, Items, Item
<1>3. Sent \in Nat /\ Sent <= MaxAccepts
  BY DEF WriterTypes, CallInv, Sent
<1>4. head # <<>> => head[1] \in Items /\ head[1].hi = HeadEnd
  BY DEF WriterTypes, HeadEnd
<1>5. Len(queue) \in Nat
  BY DEF WriterTypes
<1>6. worker # "stopped" => CarryEnd + Len(queue) = Sent
  BY DEF ChainInv
<1>7. CarryEnd <= MaxAccepts
  <2>1. CASE worker # "stopped"
    BY <2>1, <1>2, <1>3, <1>5, <1>6
  <2>2. CASE worker = "stopped"
    BY <2>2 DEF WriterTypes, ChainInv, CarryEnd, HeadEnd, Phases
  <2> QED BY <2>1, <2>2
<1>8. worker \in {"merging", "persist", "backoff"} => head # <<>>
  <2>1. ASSUME NEW item, head = <<item>> PROVE head # <<>>
    <3>1. Len(<<item>>) = 1 /\ Len(<<>>) = 0
      OBVIOUS
    <3> QED BY <2>1, <3>1
  <2> QED BY <2>1 DEF WriterTypes
<1> QED BY <1>1, <1>2, <1>3, <1>4, <1>5, <1>6, <1>7, <1>8

\* The item a persisting worker has in hand.
LEMMA HeadToPersist ==
  ASSUME WriterInv, worker = "persist"
  PROVE  /\ head # <<>> /\ head[1] \in Items /\ head[1].hi = HeadEnd
         /\ HeadEnd \in 1 .. MaxAccepts
<1>1. head # <<>> /\ head[1] \in Items /\ head[1].hi = HeadEnd
  BY ChainBounds
<1>2. head[1].lo = progress.sequence + 1 /\ head[1].hi >= head[1].lo
  BY <1>1 DEF WriterInv, ChainInv
<1>3. progress.sequence \in Nat
  BY DEF WriterInv, WriterTypes
<1> QED BY <1>1, <1>2, <1>3, ChainBounds, WriterAssumption

\* Taking the first item off the channel, and putting one at its end.
LEMMA ChannelEnds ==
  ASSUME NEW q \in Seq(Items), NEW n \in Nat, \A i \in 1 .. Len(q) : q[i] = Item(n + i)
  PROVE  /\ q # <<>> => /\ Head(q) = Item(n + 1) /\ Head(q) \in Items
                        /\ Tail(q) \in Seq(Items) /\ Len(Tail(q)) = Len(q) - 1
                        /\ \A i \in 1 .. Len(Tail(q)) : Tail(q)[i] = Item(n + 1 + i)
         /\ LET m == Item(n + Len(q) + 1)
            IN  /\ Append(q, m) \in Seq(Items) /\ Len(Append(q, m)) = Len(q) + 1
                /\ \A i \in 1 .. Len(Append(q, m)) : Append(q, m)[i] = Item(n + i)
<1>1. ASSUME q # <<>>
      PROVE  /\ Head(q) = Item(n + 1) /\ Head(q) \in Items
             /\ Tail(q) \in Seq(Items) /\ Len(Tail(q)) = Len(q) - 1
             /\ \A i \in 1 .. Len(Tail(q)) : Tail(q)[i] = Item(n + 1 + i)
  <2>1. Len(q) >= 1 /\ Head(q) = q[1]
    BY <1>1
  <2>2. Tail(q) \in Seq(Items) /\ Len(Tail(q)) = Len(q) - 1
    BY <1>1
  <2>3. \A i \in 1 .. Len(Tail(q)) : Tail(q)[i] = q[i + 1]
    BY <1>1
  <2>4. \A i \in 1 .. Len(Tail(q)) : Tail(q)[i] = Item(n + (i + 1))
    BY <2>2, <2>3
  <2>5. \A i \in 1 .. Len(Tail(q)) : n + (i + 1) = n + 1 + i
    BY <2>2
  <2> QED BY <2>1, <2>2, <2>4, <2>5 DEF Items, Item
<1>2. Item(n + Len(q) + 1) \in Items
  BY DEF Item, Items
<1>3. ASSUME NEW m, m = Item(n + Len(q) + 1)
      PROVE  /\ Append(q, m) \in Seq(Items) /\ Len(Append(q, m)) = Len(q) + 1
             /\ \A i \in 1 .. Len(Append(q, m)) : Append(q, m)[i] = Item(n + i)
  <2>1. Append(q, m) \in Seq(Items) /\ Len(Append(q, m)) = Len(q) + 1
    BY <1>2, <1>3
  <2>2. \A i \in 1 .. Len(q) + 1 : Append(q, m)[i] = IF i = Len(q) + 1 THEN m ELSE q[i]
    BY <1>2, <1>3
  <2>3. n + Len(q) + 1 = n + (Len(q) + 1)
    OBVIOUS
  <2> QED BY <2>1, <2>2, <2>3, <1>3
<1> QED BY <1>1, <1>3

-----------------------------------------------------------------------------
(* One lemma per actor: every step keeps every part. *)

\* The owner's steps: reserve, publish, enqueue, drop.
LEMMA OwnerKeeps ==
  ASSUME WriterInv, Owner
  PROVE  WriterInv'
<1> USE WriterAssumption DEF WriterInv, process, owner, task, waits, db
<1>1. CASE TryReserve
  <2>1. WriterTypes'
    BY <1>1 DEF WriterTypes, Phases, Items, TryReserve
  <2>2. CallInv'
    BY <1>1 DEF WriterTypes, CallInv, Reserved, TryReserve, Health, FreeSlots
  <2>3. ChainInv'
    BY <1>1 DEF WriterTypes, ChainInv, CarryEnd, HeadEnd, Sent, TryReserve
  <2>4. StoredInv'
    BY <1>1 DEF WriterTypes, StoredInv, TryReserve
  <2>5. CompletedInv'
    BY <1>1 DEF WriterTypes, CompletedInv, TryReserve
  <2>6. WaitInv'
    BY <1>1 DEF WriterTypes, WaitInv, TryReserve
  <2> QED BY <2>1, <2>2, <2>3, <2>4, <2>5, <2>6
<1>2. CASE DropReservation
  <2>1. WriterTypes'
    BY <1>2 DEF WriterTypes, Phases, Items, DropReservation
  <2>2. CallInv'
    BY <1>2 DEF WriterTypes, CallInv, Reserved, DropReservation
  <2>3. ChainInv'
    BY <1>2 DEF WriterTypes, ChainInv, CarryEnd, HeadEnd, Sent, DropReservation
  <2>4. StoredInv'
    BY <1>2 DEF WriterTypes, StoredInv, DropReservation
  <2>5. CompletedInv'
    BY <1>2 DEF WriterTypes, CompletedInv, DropReservation
  <2>6. WaitInv'
    BY <1>2 DEF WriterTypes, WaitInv, DropReservation
  <2> QED BY <2>1, <2>2, <2>3, <2>4, <2>5, <2>6
<1>3. CASE PublishCount
  <2>1. WriterTypes'
    BY <1>3 DEF WriterTypes, Phases, Items, CallInv, PublishCount
  <2>2. CallInv'
    BY <1>3 DEF WriterTypes, CallInv, Reserved, PublishCount
  <2>3. ChainInv'
    BY <1>3 DEF WriterTypes, ChainInv, CarryEnd, HeadEnd, Sent, PublishCount
  <2>4. StoredInv'
    BY <1>3 DEF WriterTypes, StoredInv, PublishCount
  <2>5. CompletedInv'
    BY <1>3 DEF WriterTypes, CompletedInv, PublishCount
  <2>6. WaitInv'
    BY <1>3 DEF WriterTypes, WaitInv, PublishCount
  <2> QED BY <2>1, <2>2, <2>3, <2>4, <2>5, <2>6
<1>4. CASE PublishSend
  <2> DEFINE next == Append(queue, Item(CarryEnd + Len(queue) + 1))
  <2>a. /\ next \in Seq(Items) /\ Len(next) = Len(queue) + 1
        /\ \A i \in 1 .. Len(next) : next[i] = Item(CarryEnd + i)
    BY ChannelEnds, ChainBounds DEF WriterTypes, ChainInv
  <2>b. CarryEnd' = CarryEnd /\ HeadEnd' = HeadEnd
    BY <1>4 DEF PublishSend, CarryEnd, HeadEnd
  <2>c. IF Closed THEN queue' = queue ELSE queue' = next
    <3>1. ~Closed => sequence = CarryEnd + Len(queue) + 1
      BY <1>4, ChainBounds DEF PublishSend, Closed, Sent, WriterTypes
    <3> QED BY <1>4, <3>1 DEF PublishSend
  <2> HIDE DEF next
  <2>1. WriterTypes'
    BY <1>4, <2>a, <2>c DEF WriterTypes, Phases, PublishSend
  <2>2. CallInv'
    BY <1>4, <2>a, <2>c DEF WriterTypes, CallInv, Reserved, PublishSend
  <2>3. ChainInv'
    <3>1. CASE Closed
      BY <1>4, <2>b, <2>c, <3>1, ChainBounds DEF WriterTypes, ChainInv, PublishSend, Closed
    <3>2. CASE ~Closed
      <4>1. Sent' = Sent + 1
        BY <1>4 DEF PublishSend, Sent, WriterTypes
      <4> QED BY <1>4, <2>a, <2>b, <2>c, <3>2, <4>1, ChainBounds, SMTT(30)
              DEF WriterTypes, ChainInv, PublishSend, Closed
    <3> QED BY <3>1, <3>2
  <2>4. StoredInv'
    BY <1>4 DEF WriterTypes, StoredInv, PublishSend
  <2>5. CompletedInv'
    BY <1>4 DEF WriterTypes, CompletedInv, PublishSend
  <2>6. WaitInv'
    BY <1>4 DEF WriterTypes, WaitInv, PublishSend
  <2> QED BY <2>1, <2>2, <2>3, <2>4, <2>5, <2>6
<1>5. CASE EnqueueSend
  <2> DEFINE next == Append(queue, Item(CarryEnd + Len(queue) + 1))
  <2>a. /\ next \in Seq(Items) /\ Len(next) = Len(queue) + 1
        /\ \A i \in 1 .. Len(next) : next[i] = Item(CarryEnd + i)
    BY ChannelEnds, ChainBounds DEF WriterTypes, ChainInv
  <2>b. CarryEnd' = CarryEnd /\ HeadEnd' = HeadEnd
    BY <1>5 DEF EnqueueSend, CarryEnd, HeadEnd
  <2>c. queue' = next
    <3>1. sequence + 1 = CarryEnd + Len(queue) + 1
      BY <1>5, ChainBounds DEF EnqueueSend, Closed, Sent, WriterTypes
    <3> QED BY <1>5, <3>1 DEF EnqueueSend
  <2> HIDE DEF next
  <2>1. WriterTypes'
    BY <1>5, <2>a, <2>c DEF WriterTypes, Phases, EnqueueSend
  <2>2. CallInv'
    BY <1>5, <2>a, <2>c DEF WriterTypes, CallInv, Reserved, EnqueueSend, FreeSlots
  <2>3. ChainInv'
    BY <1>5, <2>a, <2>b, <2>c, ChainBounds DEF WriterTypes, ChainInv, Sent, EnqueueSend, Closed
  <2>4. StoredInv'
    BY <1>5 DEF WriterTypes, StoredInv, EnqueueSend
  <2>5. CompletedInv'
    BY <1>5 DEF WriterTypes, CompletedInv, EnqueueSend
  <2>6. WaitInv'
    BY <1>5 DEF WriterTypes, WaitInv, EnqueueSend
  <2> QED BY <2>1, <2>2, <2>3, <2>4, <2>5, <2>6
<1>6. CASE EnqueueCount
  <2>1. WriterTypes'
    BY <1>6 DEF WriterTypes, Phases, Items, CallInv, EnqueueCount
  <2>2. CallInv'
    BY <1>6 DEF WriterTypes, CallInv, Reserved, EnqueueCount
  <2>3. ChainInv'
    BY <1>6 DEF WriterTypes, ChainInv, CarryEnd, HeadEnd, Sent, EnqueueCount
  <2>4. StoredInv'
    BY <1>6 DEF WriterTypes, StoredInv, EnqueueCount
  <2>5. CompletedInv'
    BY <1>6 DEF WriterTypes, CompletedInv, EnqueueCount
  <2>6. WaitInv'
    BY <1>6 DEF WriterTypes, WaitInv, EnqueueCount
  <2> QED BY <2>1, <2>2, <2>3, <2>4, <2>5, <2>6
<1>7. CASE DropWriter
  <2>1. WriterTypes'
    BY <1>7 DEF WriterTypes, Phases, Items, DropWriter
  <2>2. CallInv'
    BY <1>7 DEF WriterTypes, CallInv, Reserved, DropWriter
  <2>3. ChainInv'
    BY <1>7 DEF WriterTypes, ChainInv, CarryEnd, HeadEnd, Sent, DropWriter
  <2>4. StoredInv'
    BY <1>7 DEF WriterTypes, StoredInv, DropWriter
  <2>5. CompletedInv'
    BY <1>7 DEF WriterTypes, CompletedInv, DropWriter
  <2>6. WaitInv'
    BY <1>7 DEF WriterTypes, WaitInv, DropWriter
  <2> QED BY <2>1, <2>2, <2>3, <2>4, <2>5, <2>6
<1> QED BY <1>1, <1>2, <1>3, <1>4, <1>5, <1>6, <1>7 DEF Owner

\* The worker: receive, merge, persist, back off, end.
LEMMA WorkerKeeps ==
  ASSUME WriterInv, Worker
  PROVE  WriterInv'
<1> USE WriterAssumption DEF WriterInv, process, owner, task, waits, db
<1>1. CASE Receive
  <2>4. StoredInv'
    BY <1>1 DEF WriterTypes, StoredInv, Receive, Loaded
  <2>5. CompletedInv'
    BY <1>1 DEF WriterTypes, CompletedInv, Receive
  <2>6. WaitInv'
    BY <1>1 DEF WriterTypes, WaitInv, Receive
  <2>a. CASE carry # <<>> /\ head' = carry /\ carry' = <<>> /\ UNCHANGED queue
    <3>1. WriterTypes'
      BY <1>1, <2>a DEF WriterTypes, Phases, Receive, Loaded
    <3>2. CallInv'
      BY <1>1, <2>a DEF WriterTypes, CallInv, Reserved, Receive
    <3>3. HeadEnd' = CarryEnd /\ CarryEnd' = CarryEnd
      BY <1>1, <2>a DEF WriterTypes, Receive, HeadEnd, CarryEnd
    <3>4. ChainInv'
      BY <1>1, <2>a, <3>3 DEF WriterTypes, ChainInv, Sent, Receive, Loaded, Item, HeadEnd
    <3> QED BY <3>1, <3>2, <3>4, <2>4, <2>5, <2>6
  <2>b. CASE /\ carry = <<>> /\ queue # <<>>
             /\ head' = <<Head(queue)>> /\ queue' = Tail(queue) /\ UNCHANGED carry
    <3>1. /\ Head(queue) = Item(CarryEnd + 1) /\ Head(queue) \in Items
          /\ Tail(queue) \in Seq(Items) /\ Len(Tail(queue)) = Len(queue) - 1
          /\ \A i \in 1 .. Len(Tail(queue)) : Tail(queue)[i] = Item(CarryEnd + 1 + i)
      BY <2>b, ChannelEnds, ChainBounds DEF WriterTypes, ChainInv
    <3>2. CarryEnd = progress.sequence
      BY <1>1, <2>b DEF WriterTypes, Receive, HeadEnd, CarryEnd
    <3>3. HeadEnd' = CarryEnd + 1 /\ CarryEnd' = CarryEnd + 1
      BY <1>1, <2>b, <3>1 DEF Receive, HeadEnd, CarryEnd, Item
    <3>4. WriterTypes'
      BY <1>1, <2>b, <3>1 DEF WriterTypes, Phases, Receive, Loaded
    <3>5. CallInv'
      BY <1>1, <2>b, <3>1 DEF WriterTypes, CallInv, Reserved, Receive
    <3>6. ChainInv'
      BY <1>1, <2>b, <3>1, <3>2, <3>3, ChainBounds
      DEF WriterTypes, ChainInv, Sent, Receive, Loaded, Item
    <3> QED BY <3>4, <3>5, <3>6, <2>4, <2>5, <2>6
  <2> QED BY <1>1, <2>a, <2>b DEF Receive
<1>2. CASE Fold
  <2>a. /\ Head(queue) = Item(CarryEnd + 1) /\ Head(queue) \in Items
        /\ Tail(queue) \in Seq(Items) /\ Len(Tail(queue)) = Len(queue) - 1
        /\ \A i \in 1 .. Len(Tail(queue)) : Tail(queue)[i] = Item(CarryEnd + 1 + i)
    BY <1>2, ChannelEnds, ChainBounds DEF WriterTypes, ChainInv, Fold
  <2>b. head # <<>> /\ carry = <<>> /\ coalesces /\ CarryEnd = head[1].hi
    BY <1>2 DEF Fold, WriterTypes, ChainInv, CarryEnd, HeadEnd
  <2>d. head' = <<[lo |-> head[1].lo, hi |-> CarryEnd + 1]>> /\ head'[1] \in Items
    <3>1. head[1] \in Items /\ Head(queue).hi = CarryEnd + 1
      BY <2>a, <2>b, ChainBounds DEF Item
    <3>2. [head[1] EXCEPT !.hi = Head(queue).hi] = [lo |-> head[1].lo, hi |-> CarryEnd + 1]
      BY <3>1 DEF Items
    <3>3. [lo |-> head[1].lo, hi |-> CarryEnd + 1] \in Items
      BY <3>1, ChainBounds DEF Items
    <3> QED BY <1>2, <3>2, <3>3 DEF Fold
  <2>c. HeadEnd' = CarryEnd + 1 /\ CarryEnd' = CarryEnd + 1
    BY <1>2, <2>b, <2>d DEF Fold, HeadEnd, CarryEnd
  <2>1. WriterTypes'
    BY <1>2, <2>a, <2>d DEF WriterTypes, Phases, Fold
  <2>2. CallInv'
    BY <1>2, <2>a DEF WriterTypes, CallInv, Reserved, Fold
  <2>3. ChainInv'
    <3>1. head'[1].lo = head[1].lo /\ head'[1].hi = CarryEnd + 1 /\ head' # <<>>
      BY <2>d
    <3>2. /\ carry' = <<>> /\ queue' = Tail(queue) /\ worker' = "merging" /\ coalesces'
          /\ progress' = progress /\ Sent' = Sent
      BY <1>2, <2>b DEF Fold, Sent
    <3>3. head[1].lo = progress.sequence + 1 /\ progress.sequence \in Nat
      BY <2>b DEF ChainInv, WriterTypes
    <3>4. CarryEnd' + Len(queue') = Sent'
      BY <1>2, <2>a, <2>c, <3>2, ChainBounds DEF Fold
    <3>5. \A i \in 1 .. Len(queue') : queue'[i] = Item(CarryEnd' + i)
      BY <2>a, <2>c, <3>2, ChainBounds
    <3>6. head'[1].hi >= head'[1].lo
      BY <3>1, <3>3, ChainBounds
    <3> QED BY <2>b, <3>1, <3>2, <3>3, <3>4, <3>5, <3>6 DEF ChainInv
  <2>4. StoredInv'
    BY <1>2 DEF WriterTypes, StoredInv, Fold
  <2>5. CompletedInv'
    BY <1>2 DEF WriterTypes, CompletedInv, Fold
  <2>6. WaitInv'
    BY <1>2 DEF WriterTypes, WaitInv, Fold
  <2> QED BY <2>1, <2>2, <2>3, <2>4, <2>5, <2>6
<1>3. CASE HandBack
  <2>a. /\ Head(queue) = Item(CarryEnd + 1) /\ Head(queue) \in Items
        /\ Tail(queue) \in Seq(Items) /\ Len(Tail(queue)) = Len(queue) - 1
        /\ \A i \in 1 .. Len(Tail(queue)) : Tail(queue)[i] = Item(CarryEnd + 1 + i)
    BY <1>3, ChannelEnds, ChainBounds DEF WriterTypes, ChainInv, HandBack
  <2>b. head # <<>> /\ carry = <<>> /\ coalesces /\ CarryEnd = HeadEnd
    <3>1. head # <<>>
      BY <1>3, ChainBounds DEF HandBack
    <3>2. carry = <<>> /\ coalesces
      BY <1>3 DEF HandBack, ChainInv
    <3> QED BY <3>1, <3>2 DEF CarryEnd
  <2>c. HeadEnd' = HeadEnd /\ CarryEnd' = CarryEnd + 1
    BY <1>3, <2>a, <2>b DEF HandBack, HeadEnd, CarryEnd, Item
  <2>1. WriterTypes'
    BY <1>3, <2>a DEF WriterTypes, Phases, HandBack
  <2>2. CallInv'
    BY <1>3, <2>a DEF WriterTypes, CallInv, Reserved, HandBack
  <2>3. ChainInv'
    BY <1>3, <2>a, <2>b, <2>c, ChainBounds DEF WriterTypes, ChainInv, Sent, HandBack
  <2>4. StoredInv'
    BY <1>3 DEF WriterTypes, StoredInv, HandBack
  <2>5. CompletedInv'
    BY <1>3 DEF WriterTypes, CompletedInv, HandBack
  <2>6. WaitInv'
    BY <1>3 DEF WriterTypes, WaitInv, HandBack
  <2> QED BY <2>1, <2>2, <2>3, <2>4, <2>5, <2>6
<1>4. CASE NothingQueued
  <2>1. WriterTypes'
    BY <1>4 DEF WriterTypes, Phases, Items, NothingQueued
  <2>2. CallInv'
    BY <1>4 DEF WriterTypes, CallInv, Reserved, NothingQueued
  <2>3. ChainInv'
    BY <1>4 DEF WriterTypes, ChainInv, CarryEnd, HeadEnd, Sent, NothingQueued
  <2>4. StoredInv'
    BY <1>4 DEF WriterTypes, StoredInv, NothingQueued
  <2>5. CompletedInv'
    BY <1>4 DEF WriterTypes, CompletedInv, NothingQueued
  <2>6. WaitInv'
    BY <1>4 DEF WriterTypes, WaitInv, NothingQueued
  <2> QED BY <2>1, <2>2, <2>3, <2>4, <2>5, <2>6
<1>5. CASE PersistOk
  <2>a. head # <<>> /\ head[1] \in Items /\ head[1].hi = HeadEnd /\ HeadEnd \in 1 .. MaxAccepts
    BY <1>5, HeadToPersist DEF PersistOk
  <2>b. stored' \in Nat /\ stored' = base + head[1].hi /\ stored' >= stored
    <3>1. base \in Nat /\ stored \in Nat /\ progress.sequence \in Nat
      BY DEF WriterTypes
    <3>2. Transact(head[1])
      BY <1>5 DEF PersistOk
    <3>3. IF stored >= base + HeadEnd THEN stored' = stored ELSE stored' = base + HeadEnd
      BY <2>a, <3>2 DEF Transact, Written
    <3>4. stored <= base + HeadEnd
      BY <2>a, <3>1, ChainBounds DEF StoredInv
    <3> QED BY <2>a, <3>1, <3>3, <3>4
  <2>c. HeadEnd' = HeadEnd /\ CarryEnd' = CarryEnd
    BY <1>5, <2>a DEF PersistOk, HeadEnd, CarryEnd
  <2>1. WriterTypes'
    BY <1>5, <2>a, <2>b DEF WriterTypes, Phases, PersistOk
  <2>2. CallInv'
    BY <1>5 DEF WriterTypes, CallInv, Reserved, PersistOk
  <2>3. ChainInv'
    BY <1>5, <2>a, <2>c, ChainBounds DEF WriterTypes, ChainInv, Sent, PersistOk
  <2>4. StoredInv'
    BY <1>5, <2>b DEF StoredInv, PersistOk, WriterTypes
  <2>5. CompletedInv'
    BY <1>5 DEF WriterTypes, CompletedInv, PersistOk
  <2>6. WaitInv'
    BY <1>5, <2>a, <2>b, ChainBounds DEF WriterTypes, WaitInv, CompletedInv, PersistOk
  <2> QED BY <2>1, <2>2, <2>3, <2>4, <2>5, <2>6
<1>6. CASE PersistError
  <2>1. WriterTypes'
    BY <1>6 DEF WriterTypes, Phases, Items, PersistError
  <2>2. CallInv'
    BY <1>6 DEF WriterTypes, CallInv, Reserved, PersistError
  <2>3. ChainInv'
    BY <1>6 DEF WriterTypes, ChainInv, CarryEnd, HeadEnd, Sent, PersistError
  <2>4. StoredInv'
    BY <1>6 DEF WriterTypes, StoredInv, PersistError
  <2>5. CompletedInv'
    BY <1>6 DEF WriterTypes, CompletedInv, PersistError
  <2>6. WaitInv'
    BY <1>6 DEF WriterTypes, WaitInv, PersistError
  <2> QED BY <2>1, <2>2, <2>3, <2>4, <2>5, <2>6
<1>7. CASE PersistLostAck
  <2>a. head # <<>> /\ head[1] \in Items /\ head[1].hi = HeadEnd /\ HeadEnd \in 1 .. MaxAccepts
    BY <1>7, HeadToPersist DEF PersistLostAck
  <2>b. stored' \in Nat /\ stored' = base + head[1].hi /\ stored' >= stored
    <3>1. base \in Nat /\ stored \in Nat /\ progress.sequence \in Nat
      BY DEF WriterTypes
    <3>2. Transact(head[1])
      BY <1>7 DEF PersistLostAck
    <3>3. IF stored >= base + HeadEnd THEN stored' = stored ELSE stored' = base + HeadEnd
      BY <2>a, <3>2 DEF Transact, Written
    <3>4. stored <= base + HeadEnd
      BY <2>a, <3>1, ChainBounds DEF StoredInv
    <3> QED BY <2>a, <3>1, <3>3, <3>4
  <2>1. WriterTypes'
    BY <1>7, <2>a, <2>b DEF WriterTypes, Phases, PersistLostAck
  <2>2. CallInv'
    BY <1>7 DEF WriterTypes, CallInv, Reserved, PersistLostAck
  <2>3. ChainInv'
    BY <1>7 DEF WriterTypes, ChainInv, CarryEnd, HeadEnd, Sent, PersistLostAck
  <2>4. StoredInv'
    BY <1>7, <2>b DEF StoredInv, PersistLostAck
  <2>5. CompletedInv'
    BY <1>7 DEF WriterTypes, CompletedInv, PersistLostAck
  <2>6. WaitInv'
    BY <1>7, <2>a, <2>b, SMTT(30) DEF WriterTypes, WaitInv, PersistLostAck
  <2> QED BY <2>1, <2>2, <2>3, <2>4, <2>5, <2>6
<1>8. CASE PersistFenced
  <2>a. head # <<>> /\ head[1] \in Items /\ head[1].hi = HeadEnd /\ HeadEnd \in 1 .. MaxAccepts
    BY <1>8, HeadToPersist DEF PersistFenced
  <2>1. WriterTypes'
    <3>1. queue' \in Seq(Items)
      BY <1>8 DEF PersistFenced
    <3>2. progress' \in [sequence : 0 .. MaxAccepts, error : BOOLEAN]
      BY <1>8 DEF PersistFenced, WriterTypes
    <3> QED BY <1>8, <3>1, <3>2 DEF WriterTypes, Phases, PersistFenced
  <2>2. CallInv'
    BY <1>8 DEF WriterTypes, CallInv, Reserved, PersistFenced
  <2>3. ChainInv'
    BY <1>8 DEF WriterTypes, ChainInv, CarryEnd, HeadEnd, Sent, PersistFenced
  <2>4. StoredInv'
    BY <1>8, <2>a DEF WriterTypes, StoredInv, PersistFenced, Written
  <2>5. CompletedInv'
    BY <1>8 DEF WriterTypes, CompletedInv, PersistFenced
  <2>6. WaitInv'
    BY <1>8, <2>a DEF WriterTypes, WaitInv, CompletedInv, PersistFenced, Settled
  <2> QED BY <2>1, <2>2, <2>3, <2>4, <2>5, <2>6
<1>9. CASE BackoffOver
  <2>1. WriterTypes'
    BY <1>9 DEF WriterTypes, Phases, Items, BackoffOver
  <2>2. CallInv'
    BY <1>9 DEF WriterTypes, CallInv, Reserved, BackoffOver
  <2>3. ChainInv'
    BY <1>9 DEF WriterTypes, ChainInv, CarryEnd, HeadEnd, Sent, BackoffOver
  <2>4. StoredInv'
    BY <1>9 DEF WriterTypes, StoredInv, BackoffOver
  <2>5. CompletedInv'
    BY <1>9 DEF WriterTypes, CompletedInv, BackoffOver
  <2>6. WaitInv'
    BY <1>9 DEF WriterTypes, WaitInv, BackoffOver
  <2> QED BY <2>1, <2>2, <2>3, <2>4, <2>5, <2>6
<1>10. CASE WorkerEnds
  <2>1. WriterTypes'
    BY <1>10 DEF WriterTypes, Phases, Items, WorkerEnds
  <2>2. CallInv'
    BY <1>10 DEF WriterTypes, CallInv, Reserved, WorkerEnds
  <2>3. ChainInv'
    BY <1>10 DEF WriterTypes, ChainInv, CarryEnd, HeadEnd, Sent, WorkerEnds
  <2>4. StoredInv'
    BY <1>10 DEF WriterTypes, StoredInv, WorkerEnds
  <2>5. CompletedInv'
    BY <1>10 DEF WriterTypes, CompletedInv, WorkerEnds
  <2>6. WaitInv'
    BY <1>10 DEF WriterTypes, WaitInv, WorkerEnds
  <2> QED BY <2>1, <2>2, <2>3, <2>4, <2>5, <2>6
<1> QED BY <1>1, <1>2, <1>3, <1>4, <1>5, <1>6, <1>7, <1>8, <1>9, <1>10 DEF Worker

\* What the worker reported durable is stored.
LEMMA StoredCovers ==
  ASSUME WriterInv
  PROVE  base + progress.sequence <= stored
<1> USE DEF WriterInv
<1>1. base \in Nat /\ progress.sequence \in Nat /\ stored \in Nat
  BY DEF WriterTypes
<1>2. CASE stored = base + progress.sequence
  BY <1>1, <1>2
<1>3. CASE worker \in {"persist", "backoff"} /\ stored = base + head[1].hi
  <2>1. head[1].hi = HeadEnd /\ HeadEnd \in Nat /\ progress.sequence <= HeadEnd
    BY <1>3, ChainBounds
  <2> QED BY <1>1, <1>3, <2>1
<1> QED BY <1>2, <1>3 DEF StoredInv

\* durable(): starting to wait, and the two ways it resolves.
LEMMA WaitKeeps ==
  ASSUME WriterInv, Wait
  PROVE  WriterInv'
<1> USE WriterAssumption DEF WriterInv, process, owner, task, waits, db
<1> SUFFICES ASSUME NEW w \in Waiters, StartWaiting(w) \/ Durable(w) \/ WaitFails(w)
             PROVE  WriterInv'
  BY DEF Wait
<1>1. CASE StartWaiting(w)
  <2>1. WriterTypes'
    BY <1>1 DEF WriterTypes, Phases, Items, StartWaiting
  <2>2. CallInv'
    BY <1>1 DEF WriterTypes, CallInv, Reserved, StartWaiting
  <2>3. ChainInv'
    BY <1>1 DEF WriterTypes, ChainInv, CarryEnd, HeadEnd, Sent, StartWaiting
  <2>4. StoredInv'
    BY <1>1 DEF WriterTypes, StoredInv, StartWaiting
  <2>5. CompletedInv'
    BY <1>1 DEF WriterTypes, CompletedInv, StartWaiting
  <2>6. WaitInv'
    BY <1>1 DEF WriterTypes, WaitInv, StartWaiting
  <2> QED BY <2>1, <2>2, <2>3, <2>4, <2>5, <2>6
<1>2. CASE Durable(w)
  <2>1. WriterTypes'
    <3>1. waiter' = [waiter EXCEPT ![w].state = "ok"]
      BY <1>2 DEF Durable
    <3>2. waiter' \in [Waiters -> [base : Nat, target : Nat,
                          state : {"idle", "waiting", "ok", "closed", "gone"}]]
      BY <3>1 DEF WriterTypes
    <3>3. UNCHANGED <<process, owner, queue, task, drain, db>>
      BY <1>2 DEF Durable
    <3> QED BY <3>2, <3>3 DEF WriterTypes, Phases, Items
  <2>2. CallInv'
    BY <1>2 DEF WriterTypes, CallInv, Reserved, Durable
  <2>3. ChainInv'
    BY <1>2 DEF WriterTypes, ChainInv, CarryEnd, HeadEnd, Sent, Durable
  <2>4. StoredInv'
    BY <1>2 DEF WriterTypes, StoredInv, Durable
  <2>5. CompletedInv'
    BY <1>2 DEF WriterTypes, CompletedInv, Durable
  <2>6. WaitInv'
    <3>1. base + progress.sequence <= stored
      BY StoredCovers
    <3>2. /\ \A v \in Waiters \ {w} : waiter'[v] = waiter[v]
          /\ waiter'[w].state = "ok" /\ waiter'[w].base = base
          /\ waiter'[w].target = waiter[w].target /\ waiter[w].target <= progress.sequence
      BY <1>2 DEF Durable, WaitInv, WriterTypes
    <3>3. \A v \in Waiters : waiter[v].target \in Nat /\ waiter[v].base \in Nat
      BY DEF WriterTypes
    <3>4. waiter'[w].base + waiter'[w].target <= stored
      BY <3>1, <3>2, <3>3 DEF WriterTypes
    <3>5. UNCHANGED <<base, stored, drain, completed>>
      BY <1>2 DEF Durable
    <3> QED BY <3>2, <3>4, <3>5 DEF WaitInv
  <2> QED BY <2>1, <2>2, <2>3, <2>4, <2>5, <2>6
<1>3. CASE WaitFails(w)
  <2>1. WriterTypes'
    <3>1. waiter' = [waiter EXCEPT ![w].state = "closed"]
      BY <1>3 DEF WaitFails
    <3>2. waiter' \in [Waiters -> [base : Nat, target : Nat,
                          state : {"idle", "waiting", "ok", "closed", "gone"}]]
      BY <3>1 DEF WriterTypes
    <3>3. UNCHANGED <<process, owner, queue, task, drain, db>>
      BY <1>3 DEF WaitFails
    <3> QED BY <3>2, <3>3 DEF WriterTypes, Phases, Items
  <2>2. CallInv'
    BY <1>3 DEF WriterTypes, CallInv, Reserved, WaitFails
  <2>3. ChainInv'
    BY <1>3 DEF WriterTypes, ChainInv, CarryEnd, HeadEnd, Sent, WaitFails
  <2>4. StoredInv'
    BY <1>3 DEF WriterTypes, StoredInv, WaitFails
  <2>5. CompletedInv'
    BY <1>3 DEF WriterTypes, CompletedInv, WaitFails
  <2>6. WaitInv'
    BY <1>3 DEF WriterTypes, WaitInv, WaitFails
  <2> QED BY <2>1, <2>2, <2>3, <2>4, <2>5, <2>6
<1> QED BY <1>1, <1>2, <1>3 DEF Wait

\* drain_all, and a restart.
LEMMA RestKeeps ==
  ASSUME WriterInv, StartDrain \/ DrainEnds \/ Restart
  PROVE  WriterInv'
<1> USE WriterAssumption DEF WriterInv, process, owner, task, waits, db
<1>1. CASE StartDrain
  <2>1. WriterTypes'
    BY <1>1 DEF WriterTypes, Phases, Items, StartDrain
  <2>2. CallInv'
    BY <1>1 DEF WriterTypes, CallInv, Reserved, StartDrain
  <2>3. ChainInv'
    BY <1>1 DEF WriterTypes, ChainInv, CarryEnd, HeadEnd, Sent, StartDrain
  <2>4. StoredInv'
    BY <1>1 DEF WriterTypes, StoredInv, StartDrain
  <2>5. CompletedInv'
    BY <1>1 DEF WriterTypes, CompletedInv, StartDrain
  <2>6. WaitInv'
    BY <1>1 DEF WriterTypes, WaitInv, StartDrain
  <2> QED BY <2>1, <2>2, <2>3, <2>4, <2>5, <2>6
<1>2. CASE DrainEnds
  <2>1. WriterTypes'
    BY <1>2 DEF WriterTypes, Phases, Items, DrainEnds
  <2>2. CallInv'
    BY <1>2 DEF WriterTypes, CallInv, Reserved, DrainEnds
  <2>3. ChainInv'
    BY <1>2 DEF WriterTypes, ChainInv, CarryEnd, HeadEnd, Sent, DrainEnds
  <2>4. StoredInv'
    BY <1>2 DEF WriterTypes, StoredInv, DrainEnds
  <2>5. CompletedInv'
    BY <1>2 DEF WriterTypes, CompletedInv, DrainEnds
  <2>6. WaitInv'
    BY <1>2 DEF WriterTypes, WaitInv, DrainEnds
  <2> QED BY <2>1, <2>2, <2>3, <2>4, <2>5, <2>6
<1>3. CASE Restart
  <2>1. WriterTypes'
    <3>1. waiter' \in [Waiters -> [base : Nat, target : Nat,
                         state : {"idle", "waiting", "ok", "closed", "gone"}]]
      BY <1>3 DEF WriterTypes, Restart
    <3>2. queue' \in Seq(Items) /\ life' \in 1 .. MaxLives /\ base' \in Nat /\ stored' \in Nat
      BY <1>3 DEF WriterTypes, Restart
    <3> QED BY <1>3, <3>1, <3>2 DEF WriterTypes, Phases, Restart
  <2>2. CallInv'
    BY <1>3 DEF WriterTypes, CallInv, Reserved, Restart
  <2>3. ChainInv'
    BY <1>3 DEF WriterTypes, ChainInv, CarryEnd, HeadEnd, Sent, Restart
  <2>4. StoredInv'
    BY <1>3 DEF WriterTypes, StoredInv, Restart
  <2>5. CompletedInv'
    BY <1>3 DEF WriterTypes, CompletedInv, Restart
  <2>6. WaitInv'
    BY <1>3 DEF WriterTypes, WaitInv, Restart
  <2> QED BY <2>1, <2>2, <2>3, <2>4, <2>5, <2>6
<1> QED BY <1>1, <1>2, <1>3

\* The inductive invariant holds throughout: the numbers in memory follow on
\* from what is durable without gap or repetition, storage is never more than
\* one retried item ahead of what the worker knows, and only a fence settles
\* what is not stored.
THEOREM WriterInvariant == Spec => []WriterInv
<1>1. Init => WriterInv
  BY WriterAssumption
  DEF Init, Boot, Idle, WriterInv, WriterTypes, CallInv, ChainInv, StoredInv, CompletedInv,
      WaitInv, Phases, Items, HeadEnd, CarryEnd, Sent, Reserved
<1>2. WriterInv /\ [Next]_vars => WriterInv'
  <2> SUFFICES ASSUME WriterInv, [Next]_vars PROVE WriterInv'
    OBVIOUS
  <2>1. CASE Owner
    BY <2>1, OwnerKeeps
  <2>2. CASE Worker
    BY <2>2, WorkerKeeps
  <2>3. CASE Wait
    BY <2>3, WaitKeeps
  <2>4. CASE StartDrain \/ DrainEnds \/ Restart
    BY <2>4, RestKeeps
  <2>5. CASE UNCHANGED vars
    BY <2>5 DEF vars, process, owner, task, waits, db, WriterInv, WriterTypes, CallInv,
                ChainInv, StoredInv, CompletedInv, WaitInv, HeadEnd, CarryEnd, Sent, Reserved
  <2> QED BY <2>1, <2>2, <2>3, <2>4, <2>5 DEF Next
<1> QED BY <1>1, <1>2, PTL DEF Spec

\* drain_all reports success only for what is stored, however the worker,
\* the owner and the failures of storage interleave with it.
THEOREM WriterDrain == Spec => []DrainedMeansStored
<1>1. WriterInv => DrainedMeansStored
  BY StoredCovers DEF WriterInv, WriterTypes, CompletedInv, WaitInv, DrainedMeansStored
<1> QED BY <1>1, WriterInvariant, PTL

\* No reservation is ever without its slot, and a writer that does not
\* coalesce lags its owner by at most the channel and the item in hand.
THEOREM WriterBacklog == Spec => []BacklogBounded
<1>1. WriterInv => BacklogBounded
  <2> SUFFICES ASSUME WriterInv PROVE BacklogBounded
    OBVIOUS
  <2>1. Len(queue) + Reserved <= Capacity
    BY DEF WriterInv, CallInv
  <2>2. ASSUME ~coalesces, ~Closed
        PROVE  sequence - progress.sequence <= Capacity + 1
    <3>1. CarryEnd <= progress.sequence + 1
      BY <2>2, ChainBounds DEF WriterInv, WriterTypes, ChainInv, CarryEnd, HeadEnd
    <3>2. CarryEnd + Len(queue) = Sent
      BY <2>2, ChainBounds DEF Closed
    <3>3. sequence <= Sent + Reserved
      BY DEF WriterInv, WriterTypes, Sent, Reserved
    <3>4. /\ sequence \in Nat /\ progress.sequence \in Nat /\ Capacity \in Nat
          /\ Reserved \in Nat
      BY WriterAssumption DEF WriterInv, WriterTypes, Reserved
    <3> QED BY <2>1, <3>1, <3>2, <3>3, <3>4, ChainBounds, SMTT(30)
  <2> QED BY <2>1, <2>2 DEF BacklogBounded
<1> QED BY <1>1, WriterInvariant, PTL

-----------------------------------------------------------------------------
(* The refinement of DurableLog. *)

(* How many of this life's snapshots are stored, and the last one that is  *)
(* stored or in memory.                                                    *)
Ahead == stored - base
Last == CarryEnd + Len(queue)

(* A ledger entry: the life and the number of a snapshot. *)
Ent(l, n) == <<l, n>>
LifeOf(e) == e[1]
NumberOf(e) == e[2]
EntSet == Nat \X Nat

(* The entries of one life from a (exclusive) to b. *)
Run(l, a, b) == [i \in 1 .. b - a |-> Ent(l, a + i)]

(* Storage holds one entry per revision, none of them from the future. *)
LedgerInv ==
  /\ ledger \in Seq(EntSet) /\ Len(ledger) = stored /\ base <= stored
  /\ \A i \in 1 .. Len(ledger) :
       /\ LifeOf(ledger[i]) \in Nat /\ LifeOf(ledger[i]) <= life
       /\ NumberOf(ledger[i]) \in Nat
       /\ LifeOf(ledger[i]) = life => NumberOf(ledger[i]) <= Ahead

LogInv == WriterInv /\ LedgerInv

LEMMA EntFacts ==
  ASSUME NEW l \in Nat, NEW n \in Nat
  PROVE  Ent(l, n) \in EntSet /\ LifeOf(Ent(l, n)) = l /\ NumberOf(Ent(l, n)) = n
BY DEF Ent, EntSet, LifeOf, NumberOf

\* Runs are sequences of entries ...
LEMMA RunType ==
  ASSUME NEW l \in Nat, NEW a \in Nat, NEW b \in Nat, a <= b
  PROVE  /\ Run(l, a, b) \in Seq(EntSet) /\ Len(Run(l, a, b)) = b - a
         /\ \A i \in 1 .. b - a : Run(l, a, b)[i] = Ent(l, a + i)
<1>1. b - a \in Nat
  OBVIOUS
<1>2. \A i \in 1 .. b - a : a + i \in Nat
  OBVIOUS
<1> QED BY <1>1, <1>2, EntFacts DEF Run

\* ... and adjacent runs concatenate.
LEMMA RunConcat ==
  ASSUME NEW l \in Nat, NEW a \in Nat, NEW b \in Nat, NEW c \in Nat, a <= b, b <= c
  PROVE  Run(l, a, b) \o Run(l, b, c) = Run(l, a, c)
<1> DEFINE r == Run(l, a, b)
           q == Run(l, b, c)
           t == Run(l, a, c)
<1>1. t \in Seq(EntSet) /\ Len(t) = c - a /\ \A i \in 1 .. c - a : t[i] = Ent(l, a + i)
  <2>1. a <= c
    OBVIOUS
  <2> QED BY <2>1, RunType
<1>2. r \in Seq(EntSet) /\ Len(r) = b - a /\ \A i \in 1 .. b - a : r[i] = Ent(l, a + i)
  BY RunType
<1>3. q \in Seq(EntSet) /\ Len(q) = c - b /\ \A i \in 1 .. c - b : q[i] = Ent(l, b + i)
  BY RunType
<1> HIDE DEF r, q, t
<1>4. /\ r \o q \in Seq(EntSet) /\ Len(r \o q) = Len(r) + Len(q)
      /\ \A i \in 1 .. Len(r) + Len(q) :
           (r \o q)[i] = IF i <= Len(r) THEN r[i] ELSE q[i - Len(r)]
  BY <1>2, <1>3, ConcatProperties
<1>5. Len(r \o q) = c - a
  BY <1>2, <1>3, <1>4
<1>6. ASSUME NEW i \in 1 .. c - a PROVE (r \o q)[i] = t[i]
  <2>1. CASE i <= b - a
    BY <2>1, <1>1, <1>2, <1>3, <1>4
  <2>2. CASE i > b - a
    <3>1. i - (b - a) \in 1 .. c - b /\ b + (i - (b - a)) = a + i
      BY <2>2
    <3>2. (r \o q)[i] = q[i - (b - a)]
      BY <2>2, <1>2, <1>3, <1>4
    <3> QED BY <3>1, <3>2, <1>1, <1>3
  <2>3. i <= b - a \/ i > b - a
    OBVIOUS
  <2> QED BY <2>1, <2>2, <2>3
<1>7. r \o q = t
  BY <1>1, <1>4, <1>5, <1>6, SeqEqual
<1> QED BY <1>7 DEF r, q, t

\* An empty run.
LEMMA RunEmpty ==
  ASSUME NEW l \in Nat, NEW a \in Nat
  PROVE  Run(l, a, a) = <<>>
<1>1. Run(l, a, a) \in Seq(EntSet) /\ Len(Run(l, a, a)) = 0
  BY RunType
<1> QED BY <1>1, EmptySeq

\* Storage lies between the durable sequence and the end of the head.
LEMMA AheadBounds ==
  WriterInv => /\ Ahead \in Nat /\ Ahead <= HeadEnd /\ HeadEnd <= CarryEnd /\ CarryEnd <= Last
               /\ HeadEnd \in Nat /\ CarryEnd \in Nat /\ Last \in Nat /\ life \in Nat
               /\ head = <<>> => Ahead = HeadEnd
               /\ base <= stored /\ stored = base + Ahead
<1> SUFFICES ASSUME WriterInv
             PROVE  /\ Ahead \in Nat /\ Ahead <= HeadEnd /\ HeadEnd <= CarryEnd
                    /\ CarryEnd <= Last
                    /\ HeadEnd \in Nat /\ CarryEnd \in Nat /\ Last \in Nat /\ life \in Nat
                    /\ head = <<>> => Ahead = HeadEnd
                    /\ base <= stored /\ stored = base + Ahead
  OBVIOUS
<1>1. base \in Nat /\ stored \in Nat /\ progress.sequence \in Nat /\ life \in Nat
  BY WriterAssumption DEF WriterInv, WriterTypes
<1>2. CASE stored = base + progress.sequence
  <2>1. Ahead = progress.sequence
    BY <1>1, <1>2 DEF Ahead
  <2>2. head = <<>> => HeadEnd = progress.sequence
    BY DEF HeadEnd
  <2> QED BY <1>1, <1>2, <2>1, <2>2, ChainBounds DEF Last
<1>3. CASE worker \in {"persist", "backoff"} /\ stored = base + head[1].hi
  <2>1. head # <<>> /\ head[1].hi = HeadEnd
    BY <1>3, ChainBounds
  <2>2. Ahead = HeadEnd
    BY <1>1, <1>3, <2>1, ChainBounds DEF Ahead
  <2> QED BY <1>1, <1>3, <2>1, <2>2, ChainBounds DEF Last
<1> QED BY <1>2, <1>3 DEF WriterInv, StoredInv

\* What is accepted and not stored is exactly the numbers from Ahead to Last.
LEMMA PendingIsRun == WriterInv => PendingEntries = Run(life, Ahead, Last)
<1> SUFFICES ASSUME WriterInv PROVE PendingEntries = Run(life, Ahead, Last)
  OBVIOUS
<1>1. Unwritten = Run(life, Ahead, HeadEnd)
  <2>1. CASE head = <<>>
    BY <2>1, AheadBounds, RunEmpty DEF Unwritten
  <2>2. CASE head # <<>>
    <3>1. /\ head[1].hi = HeadEnd /\ head[1].lo = progress.sequence + 1
          /\ HeadEnd >= progress.sequence + 1 /\ progress.sequence \in Nat
          /\ base \in Nat /\ stored \in Nat
      BY <2>2, ChainBounds DEF WriterInv, WriterTypes, ChainInv
    <3>2. CASE stored = base + progress.sequence
      <4>1. ~Written(head[1]) /\ Ahead = progress.sequence
        <5>1. ~(stored >= base + head[1].hi)
          BY <3>1, <3>2, ChainBounds
        <5>2. stored - base = progress.sequence
          BY <3>1, <3>2
        <5> QED BY <5>1, <5>2 DEF Written, Ahead
      <4>2. Carried(head[1]) = Run(life, Ahead, HeadEnd)
        <5>1. head[1].hi - head[1].lo + 1 = HeadEnd - Ahead
          BY <3>1, <4>1, AheadBounds
        <5>2. \A i \in 1 .. HeadEnd - Ahead : head[1].lo + i - 1 = Ahead + i
          BY <3>1, <4>1, AheadBounds
        <5> QED BY <5>1, <5>2 DEF Carried, Run, Ent
      <4> QED BY <2>2, <4>1, <4>2 DEF Unwritten
    <3>3. CASE worker \in {"persist", "backoff"} /\ stored = base + head[1].hi
      <4>1. Written(head[1]) /\ Ahead = HeadEnd
        BY <3>1, <3>3, AheadBounds DEF Written, Ahead
      <4> QED BY <2>2, <4>1, AheadBounds, RunEmpty DEF Unwritten
    <3> QED BY <3>2, <3>3 DEF WriterInv, StoredInv
  <2> QED BY <2>1, <2>2
<1>2. Entry(carry) = Run(life, HeadEnd, CarryEnd)
  <2>1. CASE carry = <<>>
    <3>1. Entry(carry) = [i \in 1 .. 0 |-> <<life, carry[i].hi>>] /\ CarryEnd = HeadEnd
      BY <2>1 DEF Entry, CarryEnd
    <3>2. CarryEnd - HeadEnd = 0
      BY <3>1, AheadBounds
    <3>3. \A i \in 1 .. 0 : <<life, carry[i].hi>> = Ent(life, HeadEnd + i)
      OBVIOUS
    <3> QED BY <3>1, <3>2, <3>3 DEF Run
  <2>2. CASE carry # <<>>
    <3>1. carry[1] = Item(HeadEnd + 1) /\ Len(carry) = 1
      BY <2>2 DEF WriterInv, WriterTypes, ChainInv
    <3>2. CarryEnd = HeadEnd + 1 /\ carry[1].hi = HeadEnd + 1 /\ CarryEnd - HeadEnd = 1
      BY <2>2, <3>1, AheadBounds DEF CarryEnd, Item
    <3>3. \A i \in 1 .. 1 : carry[i].hi = HeadEnd + i
      BY <3>2
    <3> QED BY <3>1, <3>2, <3>3 DEF Entry, Run, Ent
  <2> QED BY <2>1, <2>2
<1>3. Entry(queue) = Run(life, CarryEnd, Last)
  <2>1. ASSUME NEW i \in 1 .. Len(queue) PROVE queue[i].hi = CarryEnd + i
    <3>1. queue[i] = Item(CarryEnd + i)
      BY DEF WriterInv, ChainInv
    <3> QED BY <3>1 DEF Item
  <2>2. Last - CarryEnd = Len(queue)
    BY AheadBounds, ChainBounds DEF Last
  <2> QED BY <2>1, <2>2 DEF Entry, Run, Ent
<1>4. /\ life \in Nat /\ Ahead \in Nat /\ HeadEnd \in Nat /\ CarryEnd \in Nat /\ Last \in Nat
      /\ Ahead <= HeadEnd /\ HeadEnd <= CarryEnd /\ CarryEnd <= Last /\ HeadEnd <= Last
  BY AheadBounds
<1>5. Run(life, HeadEnd, CarryEnd) \o Run(life, CarryEnd, Last) = Run(life, HeadEnd, Last)
  BY <1>4, RunConcat, ZenonT(40)
<1>6. Run(life, Ahead, HeadEnd) \o Run(life, HeadEnd, Last) = Run(life, Ahead, Last)
  BY <1>4, RunConcat, ZenonT(40)
<1> QED BY <1>1, <1>2, <1>3, <1>5, <1>6, Zenon DEF PendingEntries

-----------------------------------------------------------------------------
(* What a step does to the log, in four kinds. *)

QuietStep == UNCHANGED <<life, base, stored, ledger>> /\ Last' = Last

AcceptStep ==
  UNCHANGED <<life, base, stored, ledger>> /\ Last' = Last + 1 /\ Last < MaxAccepts

StoreStep ==
  /\ UNCHANGED <<life, base>> /\ Last' = Last
  /\ Ahead' \in Ahead + 1 .. Last /\ stored' = base + Ahead'
  /\ ledger' = ledger \o Run(life, Ahead, Ahead')

LoseStep ==
  /\ UNCHANGED <<stored, ledger>> /\ Last' = Ahead'
  /\ \/ UNCHANGED <<life, base>>
     \/ life' = life + 1 /\ base' = stored

\* Steps that touch neither the channel nor the worker, and steps of a running
\* worker that leave the owner alone, move nothing.
LEMMA QuietOwner ==
  ASSUME UNCHANGED <<queue, head, carry, progress>>
  PROVE  Last' = Last
BY DEF Last, CarryEnd, HeadEnd

LEMMA QuietWorker ==
  ASSUME WriterInv, WriterInv', worker # "stopped", worker' # "stopped",
         UNCHANGED <<call, sequence>>
  PROVE  Last' = Last
BY DEF WriterInv, ChainInv, Last, Sent

\* A transaction that writes stores the head, the next run of entries.
LEMMA TransactStores ==
  ASSUME WriterInv, worker = "persist", Transact(head[1]), UNCHANGED <<life, base>>,
         Last' = Last
  PROVE  QuietStep \/ StoreStep
<1>1. /\ head # <<>> /\ head[1].hi = HeadEnd /\ head[1].lo = progress.sequence + 1
      /\ HeadEnd >= progress.sequence + 1 /\ progress.sequence \in Nat
      /\ base \in Nat /\ stored \in Nat
  BY ChainBounds DEF WriterInv, WriterTypes, ChainInv
<1>2. CASE Written(head[1])
  BY <1>2 DEF Transact, db, QuietStep
<1>3. CASE ~Written(head[1])
  <2>1. stored' = base + HeadEnd /\ ledger' = ledger \o Carried(head[1])
    BY <1>1, <1>3 DEF Transact
  <2>2. stored = base + progress.sequence
    BY <1>1, <1>3, ChainBounds DEF WriterInv, StoredInv, Written
  <2>3. Ahead = progress.sequence /\ Ahead' = HeadEnd
    BY <1>1, <2>1, <2>2, ChainBounds DEF Ahead
  <2>4. Carried(head[1]) = Run(life, Ahead, HeadEnd)
    <3>1. head[1].hi - head[1].lo + 1 = HeadEnd - Ahead
      BY <1>1, <2>3, ChainBounds
    <3>2. \A i \in 1 .. HeadEnd - Ahead : head[1].lo + i - 1 = Ahead + i
      BY <1>1, <2>3, ChainBounds
    <3> QED BY <3>1, <3>2 DEF Carried, Run, Ent
  <2>5. HeadEnd \in Ahead + 1 .. Last
    BY <1>1, <2>3, AheadBounds
  <2> QED BY <2>1, <2>3, <2>4, <2>5 DEF StoreStep
<1> QED BY <1>2, <1>3

\* Every step is of one of the four kinds.
LEMMA StepKinds ==
  ASSUME WriterInv, WriterInv', [Next]_vars
  PROVE  QuietStep \/ AcceptStep \/ StoreStep \/ LoseStep
<1> USE DEF process, owner, task, waits, db
<1>1. CASE TryReserve \/ DropReservation \/ PublishCount \/ EnqueueCount \/ DropWriter
  BY <1>1, QuietOwner DEF TryReserve, DropReservation, PublishCount, EnqueueCount, DropWriter,
                          QuietStep
<1>2. CASE PublishSend \/ EnqueueSend
  <2>1. CASE Closed
    BY <1>2, <2>1, QuietOwner DEF PublishSend, EnqueueSend, QuietStep
  <2>2. CASE ~Closed
    <3>1. worker # "stopped" /\ worker' # "stopped"
      BY <1>2, <2>2 DEF Closed, PublishSend, EnqueueSend
    <3>2. Last = Sent /\ Last' = Sent'
      BY <3>1 DEF WriterInv, ChainInv, Last
    <3>3. Sent' = Sent + 1 /\ Sent < MaxAccepts
      <4>1. sequence \in 0 .. MaxAccepts /\ MaxAccepts \in Nat
        BY WriterAssumption DEF WriterInv, WriterTypes
      <4>2. CASE PublishSend
        BY <4>1, <4>2 DEF PublishSend, Sent
      <4>3. CASE EnqueueSend
        BY <4>1, <4>3 DEF EnqueueSend, Sent
      <4> QED BY <1>2, <4>2, <4>3
    <3> QED BY <1>2, <3>2, <3>3 DEF PublishSend, EnqueueSend, AcceptStep
  <2> QED BY <2>1, <2>2
<1>3. CASE Receive \/ Fold \/ HandBack \/ NothingQueued \/ PersistError \/ BackoffOver
  <2>1. worker # "stopped" /\ worker' # "stopped"
    BY <1>3 DEF Receive, Fold, HandBack, NothingQueued, PersistError, BackoffOver, Loaded
  <2>2. UNCHANGED <<call, sequence, life, base, stored, ledger>>
    BY <1>3 DEF Receive, Fold, HandBack, NothingQueued, PersistError, BackoffOver
  <2> QED BY <2>1, <2>2, QuietWorker DEF QuietStep
<1>4. CASE PersistOk \/ PersistLostAck
  <2>1. /\ worker = "persist" /\ worker' # "stopped" /\ Transact(head[1])
        /\ UNCHANGED <<call, sequence, life, base>>
    BY <1>4 DEF PersistOk, PersistLostAck
  <2> QED BY <2>1, QuietWorker, TransactStores
<1>5. CASE WorkerEnds
  BY <1>5, QuietOwner DEF WorkerEnds, QuietStep
<1>6. CASE PersistFenced
  <2>1. head' = <<>> /\ carry' = <<>> /\ queue' = <<>> /\ UNCHANGED <<life, base, stored, ledger>>
    BY <1>6 DEF PersistFenced
  <2>2. Last' = HeadEnd' /\ HeadEnd' = Ahead'
    <3>1. (head = <<>> => Ahead = HeadEnd)' /\ (HeadEnd \in Nat)'
      BY AheadBounds, PTL
    <3>2. CarryEnd' = HeadEnd' /\ Len(queue') = 0
      BY <2>1 DEF CarryEnd
    <3>3. Last' = HeadEnd' + 0
      BY <3>2 DEF Last
    <3>4. HeadEnd' \in Nat /\ HeadEnd' = Ahead'
      BY <2>1, <3>1
    <3>5. \A n \in Nat : n + 0 = n
      OBVIOUS
    <3> QED BY <3>3, <3>4, <3>5, Zenon
  <2> QED BY <2>1, <2>2 DEF LoseStep
<1>7. CASE Wait
  BY <1>7, QuietOwner DEF Wait, StartWaiting, Durable, WaitFails, QuietStep
<1>8. CASE StartDrain \/ DrainEnds
  BY <1>8, QuietOwner DEF StartDrain, DrainEnds, QuietStep
<1>9. CASE Restart
  BY <1>9 DEF Restart, LoseStep, Last, CarryEnd, HeadEnd, Ahead, WriterInv, WriterTypes
<1>10. CASE UNCHANGED vars
  BY <1>10, QuietOwner DEF vars, QuietStep
<1> QED BY <1>1, <1>2, <1>3, <1>4, <1>5, <1>6, <1>7, <1>8, <1>9, <1>10 DEF Next, Owner, Worker

\* The ledger: one entry per stored revision, none ahead of its life.
LEMMA LedgerKeeps ==
  ASSUME LogInv, WriterInv', [Next]_vars
  PROVE  LedgerInv'
<1> USE DEF LogInv
<1>1. /\ Ahead \in Nat /\ Last \in Nat /\ life \in Nat /\ base \in Nat /\ stored \in Nat
      /\ base <= stored /\ stored = base + Ahead
  BY AheadBounds DEF WriterInv, WriterTypes
<1>2. /\ (Ahead \in Nat)' /\ (life \in Nat)' /\ (base <= stored)' /\ (stored = base + Ahead)'
      /\ (stored \in Nat)' /\ (base \in Nat)'
  <2>1. stored' \in Nat /\ base' \in Nat
    BY DEF WriterInv, WriterTypes
  <2>2. (Ahead \in Nat)' /\ (life \in Nat)' /\ (base <= stored)' /\ (stored = base + Ahead)'
    BY AheadBounds, PTL
  <2> QED BY <2>1, <2>2
<1>3. CASE QuietStep \/ AcceptStep
  BY <1>3 DEF QuietStep, AcceptStep, LedgerInv, Ahead
<1>4. CASE LoseStep
  <2>1. CASE UNCHANGED <<life, base>>
    BY <1>4, <2>1 DEF LoseStep, LedgerInv, Ahead
  <2>2. CASE life' = life + 1 /\ base' = stored
    <3>1. \A i \in 1 .. Len(ledger) : LifeOf(ledger[i]) \in Nat /\ LifeOf(ledger[i]) <= life
      BY DEF LedgerInv
    <3>2. \A i \in 1 .. Len(ledger) : LifeOf(ledger[i]) <= life' /\ LifeOf(ledger[i]) # life'
      BY <1>1, <2>2, <3>1
    <3>3. ledger' = ledger /\ stored' = stored
      BY <1>4 DEF LoseStep
    <3> QED BY <1>2, <3>2, <3>3 DEF LedgerInv
  <2> QED BY <1>4, <2>1, <2>2 DEF LoseStep
<1>5. CASE StoreStep
  <2> DEFINE more == Run(life, Ahead, Ahead')
  <2>1. /\ life' = life /\ base' = base /\ stored' = base + Ahead' /\ ledger' = ledger \o more
        /\ Ahead' \in Nat /\ Ahead < Ahead' /\ Ahead <= Ahead'
    BY <1>1, <1>5 DEF StoreStep
  <2>2. /\ more \in Seq(EntSet) /\ Len(more) = Ahead' - Ahead
        /\ \A i \in 1 .. Ahead' - Ahead : more[i] = Ent(life, Ahead + i)
    BY <1>1, <2>1, RunType, ZenonT(40)
  <2> HIDE DEF more
  <2>3. /\ ledger \in Seq(EntSet) /\ Len(ledger) = stored
        /\ \A i \in 1 .. Len(ledger) :
             /\ LifeOf(ledger[i]) \in Nat /\ LifeOf(ledger[i]) <= life
             /\ NumberOf(ledger[i]) \in Nat
             /\ LifeOf(ledger[i]) = life => NumberOf(ledger[i]) <= Ahead
    BY DEF LedgerInv
  <2>4. /\ ledger' \in Seq(EntSet) /\ Len(ledger') = Len(ledger) + Len(more)
        /\ \A i \in 1 .. Len(ledger) + Len(more) :
             ledger'[i] = IF i <= Len(ledger) THEN ledger[i] ELSE more[i - Len(ledger)]
    BY <2>1, <2>2, <2>3, ConcatProperties
  <2>5. Len(ledger') = stored'
    BY <1>1, <2>1, <2>2, <2>3, <2>4
  <2>6. ASSUME NEW i \in 1 .. Len(ledger')
        PROVE  /\ LifeOf(ledger'[i]) \in Nat /\ LifeOf(ledger'[i]) <= life
               /\ NumberOf(ledger'[i]) \in Nat
               /\ LifeOf(ledger'[i]) = life => NumberOf(ledger'[i]) <= Ahead'
    <3>1. CASE i <= Len(ledger)
      <4>1. i \in 1 .. Len(ledger) /\ ledger'[i] = ledger[i]
        BY <1>1, <2>3, <2>4, <3>1
      <4> QED BY <1>1, <2>1, <2>3, <4>1
    <3>2. CASE ~(i <= Len(ledger))
      <4>1. i - Len(ledger) \in 1 .. Ahead' - Ahead /\ ledger'[i] = more[i - Len(ledger)]
        <5>1. i \in 1 .. Len(ledger) + Len(more)
          BY <2>4
        <5>2. Len(ledger) \in Nat /\ Len(more) = Ahead' - Ahead
          BY <1>1, <2>2, <2>3
        <5>3. ledger'[i] = more[i - Len(ledger)]
          BY <2>4, <3>2, <5>1
        <5> QED BY <1>1, <2>1, <3>2, <5>1, <5>2, <5>3, SMTT(30)
      <4>2. ledger'[i] = Ent(life, Ahead + (i - Len(ledger)))
        BY <2>2, <4>1
      <4>3. Ahead + (i - Len(ledger)) \in Nat /\ Ahead + (i - Len(ledger)) <= Ahead'
        BY <1>1, <2>1, <4>1
      <4>4. LifeOf(ledger'[i]) = life /\ NumberOf(ledger'[i]) = Ahead + (i - Len(ledger))
        BY <1>1, <4>2, <4>3, EntFacts
      <4> QED BY <1>1, <4>3, <4>4
    <3> QED BY <3>1, <3>2
  <2> QED BY <1>2, <2>1, <2>4, <2>5, <2>6 DEF LedgerInv
<1> QED BY <1>3, <1>4, <1>5, StepKinds

\* LogInv holds throughout.
LEMMA LogInvariant == Spec => []LogInv
<1>1. Init => LedgerInv
  <2> SUFFICES ASSUME Init PROVE LedgerInv
    OBVIOUS
  <2>1. ledger = <<>> /\ stored = 0 /\ base = 0
    BY DEF Init
  <2>2. <<>> \in Seq(EntSet) /\ Len(<<>>) = 0
    BY EmptySeq
  <2> QED BY <2>1, <2>2 DEF LedgerInv
<1>2. LogInv /\ WriterInv' /\ [Next]_vars => LedgerInv'
  BY LedgerKeeps
<1> QED BY <1>1, <1>2, WriterInvariant, PTL DEF Spec, LogInv

-----------------------------------------------------------------------------
(* What was acknowledged. *)

\* A bounded non-empty set of numbers has a largest element.
LEMMA LargestNumber ==
  ASSUME NEW S \in SUBSET Nat, S # {}, NEW top \in Nat, \A n \in S : n <= top
  PROVE  \E m \in S : \A n \in S : m >= n
<1> DEFINE T == {top - n : n \in S}
           R == OpToRel(<, Nat)
<1>1. T \subseteq Nat /\ T # {}
  <2>1. \A n \in S : top - n \in Nat
    OBVIOUS
  <2>2. PICK n \in S : TRUE
    OBVIOUS
  <2>3. top - n \in T
    OBVIOUS
  <2> QED BY <2>1, <2>3
<1>2. \E x \in T : \A y \in T : ~(<<y, x>> \in R)
  <2> HIDE DEF T, R
  <2>1. IsWellFoundedOn(R, Nat)
    BY NatLessThanWellFounded DEF R
  <2> QED BY <1>1, <2>1, WFMin
<1>3. PICK x \in T : \A y \in T : ~(<<y, x>> \in R)
  BY <1>2
<1>4. ASSUME NEW y \in T PROVE ~(y < x)
  BY <1>1, <1>3 DEF OpToRel
<1>5. PICK m \in S : x = top - m
  BY <1>3
<1>6. ASSUME NEW n \in S PROVE m >= n
  BY <1>4, <1>5
<1> QED BY <1>6

\* The furthest acknowledged position is one of them and is stored.
LEMMA AckedMax ==
  WriterInv => /\ AckedUpTo \in AckedPositions /\ \A m \in AckedPositions : AckedUpTo >= m
               /\ AckedPositions \subseteq Nat /\ AckedUpTo \in Nat /\ AckedUpTo <= stored
<1> SUFFICES ASSUME WriterInv
             PROVE  /\ AckedUpTo \in AckedPositions
                    /\ \A m \in AckedPositions : AckedUpTo >= m
                    /\ AckedPositions \subseteq Nat /\ AckedUpTo \in Nat /\ AckedUpTo <= stored
  OBVIOUS
<1>1. AckedPositions \subseteq Nat /\ 0 \in AckedPositions
  BY DEF AckedPositions, WriterInv, WriterTypes
<1>2. stored \in Nat /\ \A n \in AckedPositions : n <= stored
  BY DEF AckedPositions, WriterInv, WriterTypes, WaitInv
<1>3. \E m \in AckedPositions : \A n \in AckedPositions : m >= n
  BY <1>1, <1>2, LargestNumber
<1>4. AckedUpTo \in AckedPositions /\ \A m \in AckedPositions : AckedUpTo >= m
  BY <1>3 DEF AckedUpTo
<1> QED BY <1>1, <1>2, <1>4

\* A step acknowledges nothing, or one more position that is already stored.
LEMMA AckedStep ==
  ASSUME WriterInv, WriterInv', [Next]_vars
  PROVE  \/ AckedUpTo' = AckedUpTo
         \/ /\ AckedUpTo' \in AckedUpTo + 1 .. stored
            /\ UNCHANGED <<life, base, stored, ledger>> /\ Last' = Last
<1> USE DEF process, owner, task, waits, db
<1>1. CASE AckedPositions' = AckedPositions
  BY <1>1 DEF AckedUpTo
<1>2. ASSUME NEW w \in Waiters, Durable(w)
      PROVE  \/ AckedUpTo' = AckedUpTo
             \/ /\ AckedUpTo' \in AckedUpTo + 1 .. stored
                /\ UNCHANGED <<life, base, stored, ledger>> /\ Last' = Last
  <2>1. UNCHANGED <<life, base, stored, ledger>> /\ Last' = Last
    BY <1>2, QuietOwner DEF Durable
  <2>2. AckedPositions \subseteq AckedPositions'
    <3>1. \A v \in Waiters : waiter[v].state = "ok" => waiter'[v] = waiter[v]
      BY <1>2 DEF Durable, WriterInv, WriterTypes
    <3> QED BY <3>1 DEF AckedPositions
  <2>3. AckedUpTo \in Nat /\ AckedUpTo \in AckedPositions
    BY AckedMax
  <2>4. /\ (\A m \in AckedPositions : AckedUpTo >= m)' /\ (AckedUpTo \in Nat)'
        /\ (AckedUpTo <= stored)'
    BY AckedMax, PTL
  <2>5. AckedUpTo' >= AckedUpTo /\ stored \in Nat
    BY <2>2, <2>3, <2>4 DEF WriterInv, WriterTypes
  <2> QED BY <2>1, <2>3, <2>4, <2>5
<1>3. ASSUME NEW w \in Waiters, StartWaiting(w) \/ WaitFails(w)
      PROVE  AckedPositions' = AckedPositions
  <2>1. \A v \in Waiters : /\ waiter'[v].state = "ok" <=> waiter[v].state = "ok"
                           /\ waiter[v].state = "ok" => waiter'[v] = waiter[v]
    BY <1>3 DEF StartWaiting, WaitFails, WriterInv, WriterTypes
  <2> QED BY <2>1 DEF AckedPositions
<1>4. ASSUME Restart PROVE AckedPositions' = AckedPositions
  <2>1. \A v \in Waiters : /\ waiter'[v].state = "ok" <=> waiter[v].state = "ok"
                           /\ waiter[v].state = "ok" => waiter'[v] = waiter[v]
    BY <1>4 DEF Restart, WriterInv, WriterTypes
  <2> QED BY <2>1 DEF AckedPositions
<1>5. ASSUME waiter' = waiter PROVE AckedPositions' = AckedPositions
  BY <1>5 DEF AckedPositions
<1>6. CASE Owner
  BY <1>1, <1>5, <1>6 DEF Owner, TryReserve, DropReservation, PublishCount, PublishSend, EnqueueSend,
                          EnqueueCount, DropWriter
<1>7. CASE Worker
  BY <1>1, <1>5, <1>7 DEF Worker, Receive, Fold, HandBack, NothingQueued, PersistOk, PersistError,
                          PersistLostAck, PersistFenced, BackoffOver, WorkerEnds
<1>8. CASE StartDrain \/ DrainEnds
  BY <1>1, <1>5, <1>8 DEF StartDrain, DrainEnds
<1>9. CASE UNCHANGED vars
  BY <1>1, <1>5, <1>9 DEF vars
<1>10. CASE Wait
  BY <1>1, <1>2, <1>3, <1>10 DEF Wait
<1> QED BY <1>1, <1>4, <1>6, <1>7, <1>8, <1>9, <1>10 DEF Next

-----------------------------------------------------------------------------
(* Every step of the writer is a step of the log, or none. *)

\* The log is the ledger and then the run in memory.
LEMMA LogIs ==
  LogInv => /\ AcceptedLog = ledger \o Run(life, Ahead, Last)
            /\ AcceptedLog \in Seq(EntSet) /\ Len(AcceptedLog) = stored + (Last - Ahead)
            /\ \A i \in 1 .. stored + (Last - Ahead) :
                 AcceptedLog[i] = IF i <= stored THEN ledger[i]
                                  ELSE Ent(life, Ahead + (i - stored))
<1> SUFFICES ASSUME LogInv
             PROVE  /\ AcceptedLog = ledger \o Run(life, Ahead, Last)
                    /\ AcceptedLog \in Seq(EntSet)
                    /\ Len(AcceptedLog) = stored + (Last - Ahead)
                    /\ \A i \in 1 .. stored + (Last - Ahead) :
                         AcceptedLog[i] = IF i <= stored THEN ledger[i]
                                          ELSE Ent(life, Ahead + (i - stored))
  OBVIOUS
<1> DEFINE run == Run(life, Ahead, Last)
<1>1. AcceptedLog = ledger \o run
  BY PendingIsRun DEF AcceptedLog, LogInv
<1>2. life \in Nat /\ Ahead \in Nat /\ Last \in Nat /\ Ahead <= Last /\ stored \in Nat
  BY AheadBounds DEF LogInv, WriterInv, WriterTypes
<1>3. /\ run \in Seq(EntSet) /\ Len(run) = Last - Ahead
      /\ \A i \in 1 .. Last - Ahead : run[i] = Ent(life, Ahead + i)
  BY <1>2, RunType, ZenonT(40)
<1> HIDE DEF run
<1>4. ledger \in Seq(EntSet) /\ Len(ledger) = stored
  BY DEF LogInv, LedgerInv
<1>5. /\ AcceptedLog \in Seq(EntSet) /\ Len(AcceptedLog) = stored + (Last - Ahead)
      /\ \A i \in 1 .. stored + (Last - Ahead) :
           AcceptedLog[i] = IF i <= stored THEN ledger[i] ELSE run[i - stored]
  BY <1>1, <1>3, <1>4, ConcatProperties
<1>6. ASSUME NEW i \in 1 .. stored + (Last - Ahead), ~(i <= stored)
      PROVE  run[i - stored] = Ent(life, Ahead + (i - stored))
  <2>1. i - stored \in 1 .. Last - Ahead
    BY <1>2, <1>6
  <2> QED BY <1>3, <2>1
<1> QED BY <1>1, <1>5, <1>6 DEF run

\* A snapshot that reaches the channel is a new entry of the log.
LEMMA AcceptIsAccept ==
  ASSUME LogInv, LogInv', AcceptStep
  PROVE  /\ Ent(life, Last + 1) \in (1 .. MaxLives) \X (1 .. MaxAccepts)
         /\ \A i \in 1 .. Len(AcceptedLog) : AcceptedLog[i] # Ent(life, Last + 1)
         /\ AcceptedLog' = Append(AcceptedLog, Ent(life, Last + 1))
<1> DEFINE e == Ent(life, Last + 1)
<1>1. /\ life \in Nat /\ Ahead \in Nat /\ Last \in Nat /\ Ahead <= Last /\ stored \in Nat
      /\ life \in 1 .. MaxLives /\ Last + 1 \in Nat
  <2>1. stored \in Nat /\ life \in 1 .. MaxLives
    BY DEF LogInv, WriterInv, WriterTypes
  <2> QED BY <2>1, AheadBounds DEF LogInv
<1>2. Last + 1 \in 1 .. MaxAccepts
  BY <1>1, WriterAssumption DEF AcceptStep
<1>3. e \in (1 .. MaxLives) \X (1 .. MaxAccepts)
  BY <1>1, <1>2 DEF Ent
<1>4. e \in EntSet /\ LifeOf(e) = life /\ NumberOf(e) = Last + 1
  BY <1>1, EntFacts
<1> HIDE DEF e
<1>5. /\ AcceptedLog \in Seq(EntSet) /\ Len(AcceptedLog) = stored + (Last - Ahead)
      /\ \A i \in 1 .. stored + (Last - Ahead) :
           AcceptedLog[i] = IF i <= stored THEN ledger[i] ELSE Ent(life, Ahead + (i - stored))
  BY LogIs
<1>6. /\ life' = life /\ stored' = stored /\ ledger' = ledger /\ Last' = Last + 1 /\ Ahead' = Ahead
  BY DEF AcceptStep, Ahead
<1>7. ASSUME NEW i \in 1 .. Len(AcceptedLog) PROVE AcceptedLog[i] # e
  <2>1. CASE i <= stored
    <3>1. /\ AcceptedLog[i] = ledger[i]
          /\ LifeOf(ledger[i]) = life => NumberOf(ledger[i]) <= Ahead
          /\ NumberOf(ledger[i]) \in Nat
      BY <1>1, <1>5, <2>1 DEF LogInv, LedgerInv
    <3>2. ~(Last + 1 <= Ahead)
      BY <1>1
    <3> QED BY <1>4, <3>1, <3>2
  <2>2. CASE ~(i <= stored)
    <3>1. AcceptedLog[i] = Ent(life, Ahead + (i - stored))
      BY <1>5, <2>2
    <3>2. Ahead + (i - stored) \in Nat /\ Ahead + (i - stored) # Last + 1
      BY <1>1, <1>5, <2>2
    <3>3. NumberOf(Ent(life, Ahead + (i - stored))) = Ahead + (i - stored)
      BY <1>1, <3>2, EntFacts
    <3> QED BY <1>4, <3>1, <3>2, <3>3
  <2> QED BY <2>1, <2>2
<1>8. AcceptedLog' = Append(AcceptedLog, e)
  <2>1. /\ (AcceptedLog \in Seq(EntSet))' /\ (Len(AcceptedLog) = stored + (Last - Ahead))'
        /\ (\A i \in 1 .. stored + (Last - Ahead) :
               AcceptedLog[i] = IF i <= stored THEN ledger[i]
                                ELSE Ent(life, Ahead + (i - stored)))'
    BY LogIs, PTL
  <2>2. /\ Append(AcceptedLog, e) \in Seq(EntSet)
        /\ Len(Append(AcceptedLog, e)) = Len(AcceptedLog) + 1
        /\ \A i \in 1 .. Len(AcceptedLog) : Append(AcceptedLog, e)[i] = AcceptedLog[i]
        /\ Append(AcceptedLog, e)[Len(AcceptedLog) + 1] = e
    BY <1>4, <1>5, AppendProperties
  <2>3. Len(AcceptedLog') = Len(AcceptedLog) + 1
    BY <1>1, <1>5, <1>6, <2>1
  <2>4. ASSUME NEW i \in 1 .. Len(AcceptedLog) + 1
        PROVE  AcceptedLog'[i] = Append(AcceptedLog, e)[i]
    <3>1. AcceptedLog'[i] = IF i <= stored THEN ledger[i] ELSE Ent(life, Ahead + (i - stored))
      <4>1. i \in 1 .. stored + (Last' - Ahead)
        BY <1>1, <1>5, <1>6
      <4> QED BY <1>6, <2>1, <4>1
    <3>2. CASE i <= Len(AcceptedLog)
      <4>1. i \in 1 .. Len(AcceptedLog)
        BY <1>1, <1>5, <3>2
      <4> QED BY <1>5, <2>2, <3>1, <4>1
    <3>3. CASE ~(i <= Len(AcceptedLog))
      <4>1. i = Len(AcceptedLog) + 1 /\ ~(i <= stored) /\ Ahead + (i - stored) = Last + 1
        BY <1>1, <1>5, <3>3
      <4> QED BY <2>2, <3>1, <4>1 DEF e
    <3> QED BY <3>2, <3>3
  <2> QED BY <2>1, <2>2, <2>3, <2>4, SeqEqual
<1> QED BY <1>3, <1>7, <1>8 DEF e

\* Storing the head moves the durable mark within the log.
LEMMA StoreIsDurable ==
  ASSUME LogInv, LogInv', StoreStep
  PROVE  AcceptedLog' = AcceptedLog /\ Len(ledger') \in Len(ledger) + 1 .. Len(AcceptedLog)
<1>1. /\ life \in Nat /\ Ahead \in Nat /\ Last \in Nat /\ Ahead <= Last /\ stored \in Nat
      /\ base \in Nat /\ stored = base + Ahead
  <2>1. stored \in Nat /\ base \in Nat
    BY DEF LogInv, WriterInv, WriterTypes
  <2> QED BY <2>1, AheadBounds DEF LogInv
<1>2. PICK n \in Nat : n = Ahead'
  BY <1>1 DEF StoreStep
<1>3. /\ life' = life /\ Last' = Last /\ Ahead + 1 <= n /\ Ahead <= n /\ n <= Last
      /\ stored' = base + n /\ ledger' = ledger \o Run(life, Ahead, n)
  BY <1>1, <1>2 DEF StoreStep
<1> DEFINE front == Run(life, Ahead, n)
           back == Run(life, n, Last)
<1>4. AcceptedLog = ledger \o Run(life, Ahead, Last)
  BY LogIs
<1>5. AcceptedLog' = ledger' \o back
  <2>1. (AcceptedLog = ledger \o Run(life, Ahead, Last))'
    BY LogIs, PTL
  <2> QED BY <1>2, <1>3, <2>1
<1>6. front \in Seq(EntSet) /\ back \in Seq(EntSet) /\ ledger \in Seq(EntSet)
  BY <1>1, <1>3, RunType, ZenonT(40) DEF LogInv, LedgerInv
<1>7. front \o back = Run(life, Ahead, Last)
  <2>1. life \in Nat /\ Ahead \in Nat /\ n \in Nat /\ Last \in Nat /\ Ahead <= n /\ n <= Last
    BY <1>1, <1>3
  <2>2. Run(life, Ahead, n) \o Run(life, n, Last) = Run(life, Ahead, Last)
    BY <2>1, RunConcat, ZenonT(40)
  <2> QED BY <2>2
<1>8. ledger' = ledger \o front
  BY <1>3
<1> HIDE DEF front, back
<1>9. (ledger \o front) \o back = ledger \o (front \o back)
  BY <1>6, ConcatAssociative
<1>10. AcceptedLog' = AcceptedLog
  BY <1>4, <1>5, <1>7, <1>8, <1>9, Zenon
<1>11. Len(ledger) = stored /\ Len(ledger') = stored' /\ Len(AcceptedLog) = stored + (Last - Ahead)
  BY LogIs DEF LogInv, LedgerInv
<1>12. Len(ledger') \in Len(ledger) + 1 .. Len(AcceptedLog)
  BY <1>1, <1>3, <1>11
<1> QED BY <1>10, <1>12

\* A crash or a fence loses the whole tail, and only that.
LEMMA LoseIsLose ==
  ASSUME LogInv, LogInv', LoseStep
  PROVE  /\ Len(ledger') = Len(ledger)
         /\ \/ AcceptedLog' = AcceptedLog
            \/ /\ Len(ledger) < Len(AcceptedLog)
               /\ AcceptedLog' = SubSeq(AcceptedLog, 1, Len(ledger))
<1>1. /\ Ahead \in Nat /\ Last \in Nat /\ Ahead <= Last /\ stored \in Nat /\ life \in Nat
  <2>1. stored \in Nat
    BY DEF LogInv, WriterInv, WriterTypes
  <2> QED BY <2>1, AheadBounds DEF LogInv
<1>2. ledger' = ledger /\ stored' = stored /\ Last' = Ahead'
  BY DEF LoseStep
<1>3. /\ AcceptedLog = ledger \o Run(life, Ahead, Last)
      /\ AcceptedLog \in Seq(EntSet) /\ Len(AcceptedLog) = stored + (Last - Ahead)
      /\ \A i \in 1 .. stored + (Last - Ahead) :
           AcceptedLog[i] = IF i <= stored THEN ledger[i] ELSE Ent(life, Ahead + (i - stored))
  BY LogIs
<1>4. ledger \in Seq(EntSet) /\ Len(ledger) = stored
  BY DEF LogInv, LedgerInv
<1>5. AcceptedLog' = ledger
  <2>1. (AcceptedLog = ledger \o Run(life, Ahead, Last))' /\ (Ahead \in Nat /\ life \in Nat)'
    BY LogIs, AheadBounds, PTL DEF LogInv
  <2>2. AcceptedLog' = ledger \o Run(life', Ahead', Ahead')
    BY <1>2, <2>1
  <2>3. Run(life', Ahead', Ahead') = <<>>
    BY <2>1, RunEmpty, Zenon
  <2>4. ledger \o <<>> = ledger
    BY <1>4, ConcatEmptySeq, Zenon
  <2> QED BY <2>2, <2>3, <2>4, Zenon
<1>6. CASE Ahead = Last
  <2>1. Run(life, Ahead, Last) = <<>>
    BY <1>1, <1>6, RunEmpty, Zenon
  <2>2. ledger \o <<>> = ledger
    BY <1>4, ConcatEmptySeq, Zenon
  <2>3. AcceptedLog = ledger
    BY <1>3, <2>1, <2>2, Zenon
  <2> QED BY <1>2, <1>5, <2>3
<1>7. CASE Ahead # Last
  <2> DEFINE kept == SubSeq(AcceptedLog, 1, stored)
  <2>1. stored < Len(AcceptedLog)
    BY <1>1, <1>3, <1>7
  <2>2. \A i \in 1 .. stored : AcceptedLog[i] = ledger[i] /\ ledger[i] \in EntSet
    BY <1>1, <1>3, <1>4
  <2>3. /\ kept \in Seq(EntSet) /\ Len(kept) = stored
        /\ \A i \in 1 .. stored : kept[i] = AcceptedLog[i]
    <3>1. \A i \in 1 .. stored : AcceptedLog[i] \in EntSet
      BY <2>2
    <3>2. /\ kept \in Seq(EntSet) /\ Len(kept) = IF 1 <= stored THEN stored - 1 + 1 ELSE 0
          /\ \A i \in 1 .. stored - 1 + 1 : kept[i] = AcceptedLog[1 + i - 1]
      BY <1>1, <3>1, SubSeqProperties
    <3> QED BY <1>1, <3>2
  <2> HIDE DEF kept
  <2>4. kept = ledger
    BY <1>4, <2>2, <2>3, SeqEqual
  <2> QED BY <1>2, <1>4, <1>5, <2>1, <2>4 DEF kept
<1> QED BY <1>6, <1>7

\* OrderedWriter implements DurableLog, for every capacity and any number of
\* crashes, lost acknowledgements, folds, fences and waiters: storage applies
\* every accepted snapshot at most once, in order and without gaps, the tail
\* is lost only as a whole, and durable() answers Ok only for what is stored.
THEOREM WriterImplementsLog == Spec => ImplementsDurableLog
<1>1. Init => Log!LogInit
  <2> SUFFICES ASSUME Init PROVE Log!LogInit
    OBVIOUS
  <2>1. AcceptedLog = <<>> /\ Len(ledger) = 0
    <3>1. head = <<>> /\ ledger = <<>> /\ carry = <<>> /\ queue = <<>>
      BY DEF Init, Boot
    <3>2. Unwritten = <<>> /\ Entry(<<>>) = <<>>
      BY <3>1 DEF Unwritten, Entry
    <3> QED BY <3>1, <3>2 DEF AcceptedLog, PendingEntries
  <2>2. AckedPositions = {0}
    BY DEF Init, AckedPositions, Idle
  <2>3. AckedUpTo = 0
    BY <2>2 DEF AckedUpTo
  <2> QED BY <2>1, <2>3 DEF Log!LogInit
<1>2. LogInv /\ LogInv' /\ [Next]_vars => [Log!LogNext]_(Log!logVars)
  <2> SUFFICES ASSUME LogInv, LogInv', [Next]_vars
               PROVE  [Log!LogNext]_(Log!logVars)
    OBVIOUS
  <2>1. WriterInv /\ WriterInv' /\ Len(ledger) = stored /\ Len(ledger') = stored'
    BY DEF LogInv, LedgerInv
  <2>2. CASE AckedUpTo' # AckedUpTo
    <3>1. /\ AckedUpTo' \in AckedUpTo + 1 .. stored
          /\ UNCHANGED <<life, base, stored, ledger>> /\ Last' = Last
      BY <2>1, <2>2, AckedStep
    <3>2. AcceptedLog' = AcceptedLog
      <4>1. (AcceptedLog = ledger \o Run(life, Ahead, Last))'
        BY LogIs, PTL
      <4> QED BY <3>1, <4>1, LogIs DEF Ahead
    <3> QED BY <2>1, <3>1, <3>2 DEF Log!LogNext, Log!Acknowledge
  <2>3. CASE AckedUpTo' = AckedUpTo
    <3>1. CASE QuietStep
      <4>1. (AcceptedLog = ledger \o Run(life, Ahead, Last))'
        BY LogIs, PTL
      <4>2. AcceptedLog' = AcceptedLog /\ ledger' = ledger
        BY <3>1, <4>1, LogIs DEF QuietStep, Ahead
      <4> QED BY <2>3, <4>2 DEF Log!logVars
    <3>2. CASE AcceptStep
      <4>1. ledger' = ledger
        BY <3>2 DEF AcceptStep
      <4> QED BY <2>3, <3>2, <4>1, AcceptIsAccept DEF Log!LogNext, Log!AcceptEntry
    <3>3. CASE StoreStep
      BY <2>3, <3>3, StoreIsDurable DEF Log!LogNext, Log!MakeDurable
    <3>4. CASE LoseStep
      BY <2>3, <3>4, LoseIsLose DEF Log!LogNext, Log!LoseTail, Log!logVars
    <3> QED BY <2>1, <3>1, <3>2, <3>3, <3>4, StepKinds
  <2> QED BY <2>2, <2>3
<1> QED BY <1>1, <1>2, LogInvariant, PTL DEF Spec, ImplementsDurableLog, Log!LogSpec

=============================================================================
