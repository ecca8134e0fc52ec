---------------------------- MODULE OrderedWriter ----------------------------
(***************************************************************************)
(* write_behind.rs: one room's Ordered<T> writer, the worker task behind   *)
(* it, the callers that wait for durability, shutdown's drain_all, and the *)
(* database transaction of casino_room.rs's persist, whose stored revision *)
(* makes a retry after a lost acknowledgement harmless.                    *)
(*                                                                         *)
(* An item is the range lo..hi of accepted sequence numbers it carries (a  *)
(* coalescing writer folds several into one).  The room's n-th snapshot of *)
(* a process has revision base + n, base being what recovery read.         *)
(***************************************************************************)
EXTENDS Integers, Sequences

CONSTANTS
  Capacity,    \* slots of the channel (64 in the code)
  MayFence,    \* the persist callback can report a fence (memory lifecycle)
  Waiters,     \* callers of durable()/drain()
  MaxAccepts,  \* bound: snapshots accepted by one process
  MaxLives     \* bound: process incarnations

ASSUME WriterAssumption ==
  /\ Capacity \in Nat \ {0} /\ MaxAccepts \in Nat /\ MaxLives \in Nat \ {0}
  /\ MayFence \in BOOLEAN

VARIABLES
  coalesces, \* the writer was built by new_coalescing
  life,      \* which incarnation of the process is running
  base,      \* the stored revision it recovered
  call,      \* the caller inside the writer: reserve, publish or enqueue
  sequence,  \* Ordered::sequence
  queued,    \* DrainState::queued
  queue,     \* the channel
  sender,    \* the Ordered (the channel's sender) still exists
  worker,    \* what the worker task is doing
  head,      \* the item it is writing (<<>> or one item)
  carry,     \* an item merge handed back (<<>> or one item)
  progress,  \* the watch channel: durable sequence and last error
  completed, \* DrainState::completed
  waiter,    \* each durable() future: its target and its outcome
  drain,     \* drain_all: its target and its outcome
  stored,    \* database: the room row's revision
  ledger     \* database: the settlements applied, <<life, sequence>>

process == <<coalesces, life, base>>
owner == <<call, sequence, queued, sender>>
task == <<worker, head, carry, progress, completed>>
waits == <<waiter, drain>>
db == <<stored, ledger>>
vars == <<process, owner, queue, task, waits, db>>

Item(n) == [lo |-> n, hi |-> n]

\* u64::MAX, stored by a fenced worker.
Settled == MaxAccepts + 1

Idle == [base |-> 0, target |-> 0, state |-> "idle"]

Boot ==
  /\ call = "none" /\ sequence = 0 /\ queued = 0 /\ queue = <<>>
  /\ sender = TRUE /\ worker = "recv" /\ head = <<>> /\ carry = <<>>
  /\ progress = [sequence |-> 0, error |-> FALSE] /\ completed = 0
  /\ drain = [target |-> 0, state |-> "idle"]

Init ==
  /\ Boot
  /\ coalesces \in BOOLEAN
  /\ life = 1 /\ base = 0 /\ stored = 0 /\ ledger = <<>>
  /\ waiter = [w \in Waiters |-> Idle]

-----------------------------------------------------------------------------
(* The owner of the Ordered.  A reservation borrows it mutably, so nothing *)
(* else of the owner runs between try_reserve and publish or drop; the     *)
(* worker and drain_all do.                                                *)

Closed == worker = "stopped"

Reserved == IF call \in {"reserved", "publishing"} THEN 1 ELSE 0

\* Mutant: the channel is not bounded.
FreeSlotsUnbounded == 1

FreeSlots == Capacity - Len(queue) - Reserved

Health == ~Closed /\ FreeSlots > 0 /\ ~progress.error

TryReserve ==
  /\ call = "none" /\ sender /\ Health /\ sequence < MaxAccepts
  /\ call' = "reserved"
  /\ UNCHANGED <<process, sequence, queued, sender, queue, task, waits, db>>

\* Dropping the reservation before publish releases the slot.
DropReservation ==
  /\ call = "reserved"
  /\ call' = "none"
  /\ UNCHANGED <<process, sequence, queued, sender, queue, task, waits, db>>

\* publish counts the snapshot first and sends it second.
PublishCount ==
  /\ call = "reserved"
  /\ call' = "publishing"
  /\ sequence' = sequence + 1 /\ queued' = sequence + 1
  /\ UNCHANGED <<process, sender, queue, task, waits, db>>

\* A permit outlives the receiver: sending to a stopped worker drops the item.
PublishSend ==
  /\ call = "publishing"
  /\ call' = "none"
  /\ queue' = IF Closed THEN queue ELSE Append(queue, Item(sequence))
  /\ UNCHANGED <<process, sequence, queued, sender, task, waits, db>>

\* enqueue sends the snapshot first and counts it second.
EnqueueSend ==
  /\ call = "none" /\ sender /\ ~Closed /\ FreeSlots > 0
  /\ sequence < MaxAccepts
  /\ call' = "sent"
  /\ queue' = Append(queue, Item(sequence + 1))
  /\ UNCHANGED <<process, sequence, queued, sender, task, waits, db>>

EnqueueCount ==
  /\ call = "sent"
  /\ call' = "none"
  /\ sequence' = sequence + 1 /\ queued' = sequence + 1
  /\ UNCHANGED <<process, sender, queue, task, waits, db>>

\* The room's actor ends and drops its Ordered; the worker finishes the queue.
DropWriter ==
  /\ call = "none" /\ sender
  /\ sender' = FALSE
  /\ UNCHANGED <<process, call, sequence, queued, queue, task, waits, db>>

-----------------------------------------------------------------------------
(* The worker task.                                                        *)

Loaded == IF coalesces THEN "merging" ELSE "persist"

Receive ==
  /\ worker = "recv"
  /\ \/ carry # <<>> /\ head' = carry /\ carry' = <<>> /\ UNCHANGED queue
     \/ /\ carry = <<>> /\ queue # <<>>
        /\ head' = <<Head(queue)>> /\ queue' = Tail(queue) /\ UNCHANGED carry
  /\ worker' = Loaded
  /\ UNCHANGED <<process, owner, progress, completed, waits, db>>

\* merge folds the next queued item into the head (None) ...
Fold ==
  /\ worker = "merging" /\ queue # <<>>
  /\ head' = <<[head[1] EXCEPT !.hi = Head(queue).hi]>>
  /\ queue' = Tail(queue)
  /\ UNCHANGED <<process, owner, worker, carry, progress, completed, waits, db>>

\* Mutant: the item merge hands back is lost.
HandBackDropped ==
  /\ worker = "merging" /\ queue # <<>>
  /\ queue' = Tail(queue)
  /\ worker' = "persist"
  /\ UNCHANGED <<process, owner, head, carry, progress, completed, waits, db>>

\* ... or hands it back (Some), to be written on its own next time.
HandBack ==
  /\ worker = "merging" /\ queue # <<>>
  /\ carry' = <<Head(queue)>> /\ queue' = Tail(queue)
  /\ worker' = "persist"
  /\ UNCHANGED <<process, owner, head, progress, completed, waits, db>>

NothingQueued ==
  /\ worker = "merging" /\ queue = <<>>
  /\ worker' = "persist"
  /\ UNCHANGED <<process, owner, queue, head, carry, progress, completed, waits, db>>

\* Mutant: the transaction does not look at the stored revision.
NeverWritten(item) == FALSE

\* The transaction: a stored revision that already covers the snapshot means
\* an earlier attempt committed, and nothing is applied again.
Written(item) == stored >= base + item.hi

Carried(item) == [i \in 1 .. item.hi - item.lo + 1 |-> <<life, item.lo + i - 1>>]

Transact(item) ==
  IF Written(item)
  THEN UNCHANGED <<db>>
  ELSE stored' = base + item.hi /\ ledger' = ledger \o Carried(item)

PersistOk ==
  /\ worker = "persist"
  /\ Transact(head[1])
  /\ progress' = [sequence |-> head[1].hi, error |-> FALSE]
  /\ completed' = head[1].hi
  /\ worker' = "recv" /\ head' = <<>>
  /\ UNCHANGED <<process, owner, queue, carry, waits>>

\* Mutant: a failed attempt is counted as completed.
PersistErrorCompletes ==
  /\ worker = "persist"
  /\ progress' = [progress EXCEPT !.error = TRUE]
  /\ completed' = head[1].hi
  /\ worker' = "backoff"
  /\ UNCHANGED <<process, owner, queue, head, carry, waits, db>>

\* An error before COMMIT (or a panic): nothing landed.
PersistError ==
  /\ worker = "persist"
  /\ progress' = [progress EXCEPT !.error = TRUE]
  /\ worker' = "backoff"
  /\ UNCHANGED <<process, owner, queue, head, carry, completed, waits, db>>

\* COMMIT landed but its acknowledgement was lost.
PersistLostAck ==
  /\ worker = "persist"
  /\ Transact(head[1])
  /\ progress' = [progress EXCEPT !.error = TRUE]
  /\ worker' = "backoff"
  /\ UNCHANGED <<process, owner, queue, head, carry, completed, waits>>

\* Another owner has written the row: the worker abandons its queue for good.
PersistFenced ==
  /\ MayFence /\ worker = "persist" /\ ~Written(head[1])
  /\ completed' = Settled
  /\ progress' = [progress EXCEPT !.error = TRUE]
  /\ worker' = "stopped"
  /\ head' = <<>> /\ carry' = <<>> /\ queue' = <<>>
  /\ UNCHANGED <<process, owner, waits, db>>

BackoffOver ==
  /\ worker = "backoff"
  /\ worker' = "persist"
  /\ UNCHANGED <<process, owner, queue, head, carry, progress, completed, waits, db>>

\* recv() returns None once the sender is gone and the queue is empty.
WorkerEnds ==
  /\ worker = "recv" /\ carry = <<>> /\ queue = <<>> /\ ~sender
  /\ worker' = "stopped"
  /\ UNCHANGED <<process, owner, queue, head, carry, progress, completed, waits, db>>

-----------------------------------------------------------------------------
(* Waiting for durability: durable() (and drain(), which also borrows the  *)
(* writer) and shutdown's drain_all.                                       *)

StartWaiting(w) ==
  /\ waiter[w].state = "idle" /\ call = "none" /\ sender
  /\ waiter' = [waiter EXCEPT ![w] = [base |-> base, target |-> sequence,
                                      state |-> "waiting"]]
  /\ UNCHANGED <<process, owner, queue, task, drain, db>>

Durable(w) ==
  /\ waiter[w].state = "waiting" /\ progress.sequence >= waiter[w].target
  /\ waiter' = [waiter EXCEPT ![w].state = "ok"]
  /\ UNCHANGED <<process, owner, queue, task, drain, db>>

\* The worker dropped its end of the watch channel short of the target.
WaitFails(w) ==
  /\ waiter[w].state = "waiting" /\ Closed
  /\ progress.sequence < waiter[w].target
  /\ waiter' = [waiter EXCEPT ![w].state = "closed"]
  /\ UNCHANGED <<process, owner, queue, task, drain, db>>

\* A worker and an Ordered that are both gone cannot be upgraded any more.
StartDrain ==
  /\ drain.state = "idle"
  /\ drain' = [target |-> IF Closed /\ ~sender THEN 0 ELSE queued,
               state |-> "draining"]
  /\ UNCHANGED <<process, owner, queue, task, waiter, db>>

DrainEnds ==
  /\ drain.state = "draining"
  /\ \/ completed >= drain.target /\ drain' = [drain EXCEPT !.state = "drained"]
     \/ completed < drain.target /\ drain' = [drain EXCEPT !.state = "timeout"]
  /\ UNCHANGED <<process, owner, queue, task, waiter, db>>

-----------------------------------------------------------------------------
\* The process dies (or exits) and a new one recovers the room from storage.
Restart ==
  /\ life < MaxLives
  /\ life' = life + 1 /\ base' = stored
  /\ call' = "none" /\ sequence' = 0 /\ queued' = 0 /\ queue' = <<>>
  /\ sender' = TRUE /\ worker' = "recv" /\ head' = <<>> /\ carry' = <<>>
  /\ progress' = [sequence |-> 0, error |-> FALSE] /\ completed' = 0
  /\ drain' = [target |-> 0, state |-> "idle"]
  /\ waiter' = [w \in Waiters |-> IF waiter[w].state = "waiting"
                                  THEN [waiter[w] EXCEPT !.state = "gone"]
                                  ELSE waiter[w]]
  /\ UNCHANGED <<coalesces, db>>

Owner == \/ TryReserve \/ DropReservation \/ PublishCount \/ PublishSend
         \/ EnqueueSend \/ EnqueueCount \/ DropWriter

Worker == \/ Receive \/ Fold \/ HandBack \/ NothingQueued
          \/ PersistOk \/ PersistError \/ PersistLostAck \/ PersistFenced
          \/ BackoffOver \/ WorkerEnds

Wait == \E w \in Waiters : StartWaiting(w) \/ Durable(w) \/ WaitFails(w)

Next == Owner \/ Worker \/ Wait \/ StartDrain \/ DrainEnds \/ Restart

Spec == Init /\ [][Next]_vars

\* The worker's own steps never wait for anyone; an attempt that is repeated
\* for ever does not fail for ever (storage recovers); a woken future is
\* polled; a caller inside publish or enqueue finishes it.
FairSpec ==
  /\ Spec
  /\ WF_vars(Receive) /\ WF_vars(HandBack \/ NothingQueued)
  /\ WF_vars(BackoffOver) /\ WF_vars(WorkerEnds)
  /\ SF_vars(PersistOk \/ PersistFenced)
  /\ WF_vars(PublishSend) /\ WF_vars(EnqueueCount)
  /\ \A w \in Waiters : WF_vars(Durable(w)) /\ WF_vars(WaitFails(w))

-----------------------------------------------------------------------------
TypeOK ==
  /\ coalesces \in BOOLEAN /\ life \in 1 .. MaxLives /\ base \in 0 .. stored
  /\ call \in {"none", "reserved", "publishing", "sent"}
  /\ sequence \in 0 .. MaxAccepts /\ queued = sequence
  /\ queue \in Seq([lo : 1 .. MaxAccepts, hi : 1 .. MaxAccepts])
  /\ sender \in BOOLEAN
  /\ worker \in {"recv", "merging", "persist", "backoff", "stopped"}
  /\ Len(head) = (IF worker \in {"merging", "persist", "backoff"} THEN 1 ELSE 0)
  /\ Len(carry) <= 1
  /\ progress \in [sequence : 0 .. MaxAccepts, error : BOOLEAN]
  /\ completed \in {progress.sequence, Settled}

\* The snapshots accepted and not yet in storage, oldest first: the head's
\* unless a transaction whose acknowledgement was lost already wrote them, the
\* item merge handed back, and the channel.  Only the head is ever a fold.
Unwritten ==
  IF head = <<>> THEN <<>> ELSE IF Written(head[1]) THEN <<>> ELSE Carried(head[1])

Entry(items) == [i \in 1 .. Len(items) |-> <<life, items[i].hi>>]

PendingEntries == Unwritten \o (Entry(carry) \o Entry(queue))

AcceptedLog == ledger \o PendingEntries

AckedPositions ==
  {0} \cup {waiter[w].base + waiter[w].target :
             w \in {v \in Waiters : waiter[v].state = "ok"}}

AckedUpTo == CHOOSE n \in AckedPositions : \A m \in AckedPositions : n >= m

Log == INSTANCE DurableLog WITH
  Entries <- (1 .. MaxLives) \X (1 .. MaxAccepts),
  log <- AcceptedLog,
  durable <- Len(ledger),
  acked <- AckedUpTo

\* The writer implements DurableLog: across retries after lost
\* acknowledgements, folded items, fences and restarts, storage applies every
\* accepted snapshot at most once, in order and without gaps; nothing in
\* memory is skipped or duplicated; and durable() answers Ok only for what
\* storage already holds.
ImplementsDurableLog == Log!LogSpec

\* drain_all returns true only when every snapshot counted before it started
\* is stored, unless another owner fenced this writer off its row.
DrainedMeansStored ==
  (drain.state = "drained" /\ completed # Settled)
    => base + drain.target <= stored

\* A reservation always finds its slot: counted reservations and queued items
\* never exceed the channel, so publish cannot block or overflow, and a
\* writer that does not coalesce is never more than a channel and the item
\* being written behind its owner.
BacklogBounded ==
  /\ Len(queue) + Reserved <= Capacity
  /\ (~coalesces /\ ~Closed) => sequence - progress.sequence <= Capacity + 1

\* Every durable() future resolves: with Ok once storage recovers, with an
\* error when the worker stopped short, or it dies with its process.
WaitersResolve ==
  \A w \in Waiters : (waiter[w].state = "waiting") ~> (waiter[w].state # "waiting")

=============================================================================
