---------------------------- MODULE LotteryWriter ----------------------------
(***************************************************************************)
(* The lottery's working memory and its ordered writer                     *)
(* (lottery/runtime.rs, lottery/runtime/persistence.rs, published.rs).     *)
(*                                                                         *)
(* A command changes the accepted working set `data` and queues one frozen *)
(* event; the writer persists the events in order, one transaction each,   *)
(* and then applies the event to `published`, the only state readers see.  *)
(* A permanent error fences the writer: the whole memory is discarded and  *)
(* loaded again from SQL.                                                  *)
(*                                                                         *)
(* A purchase buys one ticket.  A ticket of a number game belongs to a     *)
(* period; a scratch card belongs to NoPeriod and has spots to uncover.    *)
(***************************************************************************)
EXTENDS Naturals, Integers, Sequences, FiniteSets, FiniteSetsExt, SequencesExt

CONSTANTS Users,
          Requests,      \* request ids
          Ownership,     \* which user may own which request id
          MaxPeriod,     \* periods are 0 .. MaxPeriod
          PeriodSlots,   \* PERIOD_SLOTS
          Capacity,      \* slots of the writer's channel
          Spots,         \* uncoverable spots of a scratch card
          Unit,          \* the price of a ticket
          Prize,         \* what every ticket wins
          Balance,       \* everybody's beans at the start
          MaxTickets,    \* how often one request may be charged in the model
          MaxOffers,     \* scratch commitments created in the model
          MaxFaults,     \* restarts, and permanent errors the lottery did not cause
          Nobody

Periods  == 0 .. MaxPeriod
NoPeriod == 99
NoOffer  == 0

VARIABLES data,       \* State.data: the accepted working set
          published,  \* State.published: the committed prefix
          queue,      \* State.accepted: queued and not yet acknowledged events
          writer,     \* State.writer: "off", "open" or "closed" (fenced)
          db,         \* the SQL rows
          attempts,   \* attempts[r]: tickets created for request r (fresh ids)
          offered,    \* scratch commitments created so far (fresh ids)
          owner,      \* owner[r]: the user request id r belongs to, fixed
          faults

writerVars == <<data, published, queue, writer, db, attempts, offered, owner, faults>>

TicketIds == Requests \X (1 .. MaxTickets)

\* A ticket row: revealed spots, and whether prize and settled_at are set.
Ticket(i, p, shown, settled) ==
    [id |-> i, period |-> p, shown |-> shown, settled |-> settled]
NoTicket == Ticket(<<Nobody, 0>>, NoPeriod, {}, FALSE)

UserOf(i) == owner[i[1]]

\* A period row with its running counters.
Row(status, sales, paid) == [status |-> status, sales |-> sales, paid |-> paid]
NoRow == Row("absent", 0, 0)

Empty == [up       |-> FALSE,
          rows     |-> [p \in Periods |-> NoRow],
          tickets  |-> [i \in TicketIds |-> NoTicket],
          receipts |-> {},
          offers   |-> [u \in Users |-> NoOffer],
          owner    |-> Nobody,   \* scratch_owner: whose cards the commands hold
          viewers  |-> {},       \* users whose cards the published side holds
          pending  |-> 0]       \* revision - durable

\* Ids of ledger rows (purchase_id, scratch_batch_id, draw_credit_id,
\* scratch_credit_id): functions of the request, the period or the ticket.
PurchaseId(r)    == <<"purchase", r>>
BatchId(r)       == <<"batch", r>>
DrawCredit(p, u) == <<"settle", p, u>>
ScratchCredit(i) == <<"credit", i>>

\* An event without owner, cards, row or money.
Event(kind, id, u) ==
    [kind |-> kind, id |-> id, owner |-> u, period |-> NoPeriod, row |-> NoRow,
     cards |-> {}, paying |-> FALSE, effect |-> 0, claim |-> NoOffer,
     offer |-> NoOffer, body |-> <<>>]

IsScratch(e) == e.kind \in {"offer", "card", "batch", "reveal"}

-----------------------------------------------------------------------------
(***************************************************************************)
(* Working memory                                                          *)
(***************************************************************************)

\* Tickets of `cards` replace the ones of the same id.
Upsert(tickets, cards) ==
    [i \in TicketIds |-> IF \E c \in cards : c.id = i
                         THEN CHOOSE c \in cards : c.id = i ELSE tickets[i]]

RowsWith(rows, e) == IF e.period = NoPeriod THEN rows ELSE [rows EXCEPT ![e.period] = e.row]

\* The claim empties the offer slot, the event's own offer fills it.
OffersWith(offers, e) ==
    IF e.offer = NoOffer THEN offers ELSE [offers EXCEPT ![e.owner] = e.offer]

ReceiptOf(e) ==
    IF e.body = <<>> THEN {}
    ELSE {[id |-> e.id, body |-> e.body, tickets |-> {c.id : c \in e.cards}]}

Apply(d, e) ==
    [d EXCEPT !.rows = RowsWith(@, e), !.tickets = Upsert(@, e.cards),
              !.receipts = @ \cup ReceiptOf(e), !.offers = OffersWith(@, e)]

\* The scratch rows of user u are the only ones a working set holds.
DropScratch(tickets) ==
    [i \in TicketIds |-> IF tickets[i].period = NoPeriod THEN NoTicket ELSE tickets[i]]

\* retire_durable_periods: settled periods, their tickets and the number
\* games' receipts leave the working set once everything is durable.
Retire(d) ==
    LET kept == {p \in Periods : d.rows[p].status \notin {"absent", "settled"}}
    IN  [d EXCEPT !.rows = [p \in Periods |-> IF p \in kept THEN @[p] ELSE NoRow],
                  !.tickets = [i \in TicketIds |->
                                  IF @[i].period \in kept \cup {NoPeriod}
                                  THEN @[i] ELSE NoTicket],
                  !.receipts = {x \in @ : x.body[1] # "number"}]

\* hydrate_missing: the oldest unsettled periods that fit, with all their
\* tickets, beside the periods already loaded.
Missing(d) ==
    LET loaded == {p \in Periods : d.rows[p].status # "absent"}
        due == {p \in Periods \ loaded : db.rows[p].status \in {"open", "drawn"}}
        room == PeriodSlots - Cardinality(loaded)
    IN  {p \in due : Cardinality({q \in due : q < p}) < room}

Load(d, new) ==
    [d EXCEPT !.rows = [p \in Periods |-> IF p \in new THEN db.rows[p] ELSE @[p]],
              !.tickets = [i \in TicketIds |->
                              IF db.tickets[i].period \in new THEN db.tickets[i] ELSE @[i]]]

-----------------------------------------------------------------------------
(***************************************************************************)
(* Admission: reserve a slot, register the wallet effect, queue, apply.    *)
(***************************************************************************)

\* The wallet effects the bean authority holds for u: accepted, not in SQL.
Pending(u) == {k \in DOMAIN queue :
                  queue[k].owner = u /\ queue[k].paying /\ queue[k] \notin db.ledger}
BeanBalance(u) == db.wallet[u] + FoldSet(LAMBDA k, s : queue[k].effect + s, 0, Pending(u))

SlotsLeft == IF writer = "open" THEN Capacity - Len(queue) ELSE 0

\* admit for a list of events accepted in one critical section.
Admit(d, events) ==
    /\ Len(events) <= SlotsLeft
    /\ queue' = queue \o events
    /\ data' = [FoldLeft(Apply, d, events) EXCEPT !.pending = @ + Len(events)]

-----------------------------------------------------------------------------
(***************************************************************************)
(* One event's transaction.  An event whose ledger row is already there    *)
(* with the same fingerprint is this event's own earlier commit.           *)
(***************************************************************************)
Replayed(e) == e.paying /\ e \in db.ledger

\* What makes persist return a permanent error.
Mismatch(e) ==
    /\ ~Replayed(e)
    /\ \/ e.paying /\ \E l \in db.ledger : l.id = e.id
       \/ e.claim # NoOffer /\ db.offers[e.owner] # e.claim
       \/ e.offer # NoOffer /\ e.claim = NoOffer
                            /\ db.offers[e.owner] \notin {NoOffer, e.offer}

\* Mutant: a retried event is written again over its own commit.
WrittenTwice(e) ==
    [db EXCEPT !.rows = RowsWith(@, e), !.tickets = Upsert(@, e.cards),
               !.offers = OffersWith(@, e),
               !.ledger = IF e.paying THEN @ \cup {e} ELSE @,
               !.wallet = IF e.paying THEN [@ EXCEPT ![e.owner] = @ + e.effect] ELSE @]

Written(e) ==
    IF Replayed(e) THEN db
    ELSE [db EXCEPT !.rows = RowsWith(@, e), !.tickets = Upsert(@, e.cards),
                    !.offers = OffersWith(@, e),
                    !.ledger = IF e.paying THEN @ \cup {e} ELSE @,
                    !.wallet = IF e.paying THEN [@ EXCEPT ![e.owner] = @ + e.effect]
                               ELSE @]

\* A CHECK violation (the balance would be negative) is retried, not fenced.
Persistable(e) ==
    \/ Replayed(e)
    \/ ~Mismatch(e) /\ (e.paying => db.wallet[e.owner] + e.effect >= 0)

\* The commit is acknowledged: publish, count it durable, leave the queue.
PersistAcked ==
    /\ writer = "open" /\ queue # <<>>
    /\ LET e == Head(queue)
       IN  /\ Persistable(e)
           /\ db' = Written(e)
           /\ published' = [Apply(published, [e EXCEPT !.body = <<>>]) EXCEPT
                               !.viewers = IF IsScratch(e) THEN @ \cup {e.owner} ELSE @]
    /\ data' = [data EXCEPT !.pending = @ - 1]
    /\ queue' = Tail(queue)
    /\ UNCHANGED <<writer, attempts, offered, owner, faults>>

\* The commit happened and its acknowledgement was lost; the event is retried.
PersistUnacked ==
    /\ writer = "open" /\ queue # <<>>
    /\ Persistable(Head(queue))
    /\ db' = Written(Head(queue))
    /\ db' # db
    /\ UNCHANGED <<data, published, queue, writer, attempts, offered, owner, faults>>

\* A permanent error, of the lottery's own making or of the database's.
MayFence == Mismatch(Head(queue)) \/ faults < MaxFaults
PersistFenced ==
    /\ writer = "open" /\ queue # <<>>
    /\ MayFence
    /\ writer' = "closed"
    /\ faults' = IF faults < MaxFaults THEN faults + 1 ELSE faults
    /\ UNCHANGED <<data, published, queue, db, attempts, offered, owner>>

Persist == PersistAcked \/ PersistUnacked \/ PersistFenced

\* discard_fenced: drop the ring and every accepted and unwritten job.
Discard ==
    /\ writer = "closed"
    /\ writer' = "off"
    /\ data' = Empty
    /\ published' = Empty
    /\ queue' = <<>>
    /\ UNCHANGED <<db, attempts, offered, owner, faults>>

\* hydrate: load the outstanding periods and start a writer.
Hydrate ==
    /\ ~data.up
    /\ data' = [Load(Empty, Missing(Empty)) EXCEPT !.up = TRUE]
    /\ published' = data'
    /\ writer' = "open"
    /\ UNCHANGED <<queue, db, attempts, offered, owner, faults>>

\* recover_slots: with nothing in flight, retire and load what is missing.
Recover ==
    /\ data.up /\ data.pending = 0
    /\ LET new == Missing(Retire(data))
       IN  /\ data' = Load(Retire(data), new)
           /\ published' = Load(Retire(published), new)
    /\ UNCHANGED <<queue, writer, db, attempts, offered, owner, faults>>

WriterInit ==
    /\ data = Empty
    /\ published = Empty
    /\ queue = <<>>
    /\ writer = "off"
    /\ db = [rows |-> [p \in Periods |-> NoRow],
             tickets |-> [i \in TicketIds |-> NoTicket],
             offers |-> [u \in Users |-> NoOffer],
             ledger |-> {},
             wallet |-> [u \in Users |-> Balance]]
    /\ attempts = [r \in Requests |-> 0]
    /\ offered = 0
    /\ faults = 0
=============================================================================
