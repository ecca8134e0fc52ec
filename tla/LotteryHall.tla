----------------------------- MODULE LotteryHall -----------------------------
(***************************************************************************)
(* The lottery hall: purchases, draws, settlements and scratch cards.      *)
(*                                                                         *)
(* In real-time mode (lottery/runtime.rs) one process owns the hall: each  *)
(* command holds the command lock, looks its request up in SQL, and then   *)
(* in memory, before it is accepted; one loop draws and settles.  In SQL   *)
(* mode (lottery/store.rs, draw_loop.rs, scratch.rs) every backend runs    *)
(* transactions and a loop of its own, and row locks arbitrate.            *)
(*                                                                         *)
(* Period p sells at time 2p, is closed at 2p + 1 and draws from 2p + 2.   *)
(***************************************************************************)
EXTENDS LotteryWriter

CONSTANTS Backends,      \* processes in SQL mode
          Masks,         \* spots one reveal may ask for
          Versions,      \* reward tables a scratch purchase may declare
          Calls,         \* HTTP calls; several may carry one request id
          MaxTime

VARIABLES realtime,   \* realtime_mode::enabled, fixed at deployment
          hall,       \* the game with traffic: "number" or "scratch"
          now,
          command,    \* holder of State.commands: a call or Nobody
          request,    \* what each call is doing
          acked,      \* request ids a purchase was ever reported for
          drawing,    \* the period each draw loop awaits the beacon of
          idOf        \* the request id each call carries, fixed

hallVars == <<realtime, hall, now, command, request, acked, drawing, idOf>>
vars == <<data, published, queue, writer, db, attempts, offered, owner, faults,
          realtime, hall, now, command, request, acked, drawing, idOf>>

Owners == IF realtime THEN {Nobody} ELSE Backends

Selling       == now \div 2
SalesOpen     == now % 2 = 0 /\ Selling \in Periods
\* Mutant: the period may be drawn while it sells.
DrawAtOpening(p) == 2 * p

DrawAt(p)     == 2 * p + 2

Buyer(r) == owner[idOf[r]]

Idle == [pc |-> "idle", body |-> <<>>, job |-> <<>>]

-----------------------------------------------------------------------------
(***************************************************************************)
(* Requests.  A body is the game, the period or the offer it names, and    *)
(* the reward table; a retry sends the same body or, with a scratch card,  *)
(* another quantity.                                                       *)
(***************************************************************************)
NumberBody(p)          == <<"number", p, "absent">>
ScratchBody(k, o, v)   == <<k, o, v>>

RecordOf(r, body) == IF body[1] = "batch" THEN BatchId(idOf[r]) ELSE PurchaseId(idOf[r])

\* The identity buy_scratch hashes for its SQL lookup omits reward_version.
PreflightIdentity(body) == <<body[1], body[2], "absent">>
Identity(body)          == body

\* replay: of the two record ids of a request the first that is stored decides.
StoredFor(r, records) ==
    LET one == {x \in records : x.id = PurchaseId(idOf[r])}
    IN  IF one # {} THEN one ELSE {x \in records : x.id = BatchId(idOf[r])}

\* The bodies request r may carry now: its own again, or a first one.
Bodies(r) ==
    LET sent == {request[c].body : c \in {d \in Calls : idOf[d] = idOf[r]}} \ {<<>>}
        old == IF sent = {} THEN <<>> ELSE CHOOSE body \in sent : TRUE
        u == Buyer(r)
    IN  IF hall = "number"
        THEN IF old # <<>> THEN {old}
             ELSE {NumberBody(p) : p \in {Selling} \cap Periods}
        ELSE LET offers == IF old # <<>> THEN {old[2]}
                           ELSE IF realtime THEN {published.offers[u]} \ {NoOffer}
                           ELSE {db.offers[u]} \ {NoOffer}
             IN  {ScratchBody(k, o, v) : k \in {"card", "batch"}, o \in offers,
                  v \in IF old # <<>> THEN {old[3]} ELSE Versions}

Free == command = Nobody

\* The receipt of a job: complete when the job is no longer queued.
\* Mutant: an accepted purchase is reported at once.
AwaitsNothing(job) == "done"

Awaits(job) == IF \E k \in DOMAIN queue : queue[k].id = job THEN "waiting" ELSE "done"

Answered(r, body, job) ==
    /\ request' = [request EXCEPT ![r] = [pc |-> Awaits(job), body |-> body, job |-> job]]
    /\ acked' = IF Awaits(job) = "done" THEN acked \cup {idOf[r]} ELSE acked
Refused(r, body) ==
    /\ request' = [request EXCEPT ![r] = [pc |-> "refused", body |-> body, job |-> <<>>]]
    /\ UNCHANGED acked
Conflicts(r, body) ==
    /\ request' = [request EXCEPT ![r] = [pc |-> "conflict", body |-> body, job |-> <<>>]]
    /\ UNCHANGED acked

-----------------------------------------------------------------------------
(***************************************************************************)
(* prepare_scratch: the command working set holds one user's cards.  A     *)
(* cold user waits for the scratch jobs in flight and loads from SQL.      *)
(***************************************************************************)
Warm(u, tickets) ==
    /\ data.owner = u
    /\ \A i \in tickets : data.tickets[i] # NoTicket
    /\ u \in published.viewers
\* Mutant: a cold user is loaded while scratch jobs are in flight.
SettledAlways == TRUE

Settled == \A k \in DOMAIN queue : ~IsScratch(queue[k])

MyCards(u, tickets) ==
    {i \in TicketIds : /\ db.tickets[i] # NoTicket
                       /\ db.tickets[i].period = NoPeriod /\ UserOf(i) = u
                       /\ ~db.tickets[i].settled \/ i \in tickets}

ColdData(u, tickets) ==
    [data EXCEPT !.tickets = Upsert(DropScratch(@), {db.tickets[i] : i \in MyCards(u, tickets)}),
                 !.receipts = {x \in @ : x.body[1] = "number"},
                 !.offers = [w \in Users |-> IF w = u THEN db.offers[u] ELSE NoOffer],
                 !.owner = u]
\* load_scratch: idle users lose their view, u gets a fresh one.
ColdPublished(u, tickets, idle) ==
    [published EXCEPT
        !.tickets = Upsert([i \in TicketIds |-> IF @[i].period = NoPeriod
                                                   /\ UserOf(i) \in idle \cup {u}
                                                THEN NoTicket ELSE @[i]],
                           {db.tickets[i] : i \in MyCards(u, tickets)}),
        !.offers = [w \in Users |-> IF w = u THEN db.offers[u]
                                    ELSE IF w \in idle THEN NoOffer ELSE @[w]],
        !.viewers = (@ \ idle) \cup {u}]

\* The working set after prepare_scratch, or the same one when it is warm.
Prepared(u, tickets) == IF Warm(u, tickets) THEN data ELSE ColdData(u, tickets)
PreparedViews(u, tickets) ==
    IF Warm(u, tickets) THEN {published}
    ELSE {ColdPublished(u, tickets, idle) : idle \in SUBSET (published.viewers \ {u})}
CanPrepare(u, tickets) == data.up /\ (Warm(u, tickets) \/ Settled)

-----------------------------------------------------------------------------
(***************************************************************************)
(* Real-time purchases                                                     *)
(***************************************************************************)

\* The command lock is taken and the request looked up in SQL.
BuyPreflight(r) ==
    /\ realtime /\ Free
    /\ request[r].pc \notin {"checked", "waiting"}
    /\ \E body \in Bodies(r) :
        LET scratch == hall = "scratch"
            hash == IF scratch THEN PreflightIdentity(body) ELSE Identity(body)
            stored == StoredFor(r, db.ledger)
        IN  /\ scratch => CanPrepare(Buyer(r), {})
            /\ data' = IF scratch THEN Prepared(Buyer(r), {}) ELSE data
            /\ published' \in IF scratch THEN PreparedViews(Buyer(r), {}) ELSE {published}
            /\ \/ /\ stored = {}
                  /\ command' = r
                  /\ request' = [request EXCEPT ![r] =
                                    [pc |-> "checked", body |-> body, job |-> <<>>]]
                  /\ UNCHANGED acked
               \/ /\ \E x \in stored : x.body # hash
                  /\ Conflicts(r, body)
                  /\ UNCHANGED command
               \/ /\ \E x \in stored : x.body = hash /\ Answered(r, body, RecordOf(r, body))
                  /\ UNCHANGED command
    /\ UNCHANGED <<queue, writer, db, attempts, offered, owner, faults,
                   realtime, hall, now, drawing, idOf>>

\* ensure_period: the event that opens the period on sale, if it is missing.
OpenEvent == [Event("period", <<"period", Selling>>, Nobody) EXCEPT
                 !.period = Selling, !.row = Row("open", 0, 0)]
LoadedRows == {p \in Periods : data.rows[p].status # "absent"}
MustOpen == data.rows[Selling].status = "absent"
CanOpen  == SalesOpen /\ Cardinality(LoadedRows) < PeriodSlots

NewTicket(r) == <<idOf[r], attempts[idOf[r]] + 1>>

PurchaseEvent(r, body, row) ==
    [Event("purchase", PurchaseId(idOf[r]), Buyer(r)) EXCEPT
        !.period = Selling, !.row = Row(row.status, row.sales + 1, row.paid),
        !.cards = {Ticket(NewTicket(r), Selling, {}, FALSE)},
        !.paying = TRUE, !.effect = -Unit, !.body = Identity(body)]

\* A card is hidden and pays later; a batch is revealed and paid at once.
CardEvent(r, body, offer) ==
    LET batch == body[1] = "batch"
    IN  [Event(body[1], RecordOf(r, body), Buyer(r)) EXCEPT
            !.cards = {Ticket(NewTicket(r), NoPeriod, IF batch THEN Spots ELSE {}, batch)},
            !.paying = TRUE, !.effect = IF batch THEN Prize - Unit ELSE -Unit,
            !.claim = data.offers[Buyer(r)], !.offer = offer, !.body = Identity(body)]

Affordable(u) == BeanBalance(u) >= Unit

\* Mutant: the frozen period row is built from the published one.
NumberEventsFromPublished(r, body) ==
    LET row == IF MustOpen THEN OpenEvent.row ELSE published.rows[Selling]
    IN  (IF MustOpen THEN <<OpenEvent>> ELSE <<>>) \o <<PurchaseEvent(r, body, row)>>

\* accept_numbers after the in-memory replay found nothing.
NumberEvents(r, body) ==
    LET row == IF MustOpen THEN OpenEvent.row ELSE data.rows[Selling]
    IN  (IF MustOpen THEN <<OpenEvent>> ELSE <<>>) \o <<PurchaseEvent(r, body, row)>>
NumberAdmissible(r, body) ==
    /\ Selling \in Periods /\ MustOpen => CanOpen
    /\ body[2] = Selling /\ SalesOpen
    /\ MustOpen \/ data.rows[Selling].status = "open"
    /\ Affordable(Buyer(r))

\* accept_scratch after the in-memory replay found nothing.
ScratchAdmissible(r, body) ==
    /\ Affordable(Buyer(r))
    /\ data.offers[Buyer(r)] = body[2] /\ body[2] # NoOffer

Accepted(r, body, events) ==
    /\ attempts[idOf[r]] < MaxTickets
    /\ Admit(data, events)
    /\ attempts' = [attempts EXCEPT ![idOf[r]] = @ + 1]
    /\ request' = [request EXCEPT ![r] =
                      [pc |-> "waiting", body |-> body, job |-> RecordOf(r, body)]]
    /\ UNCHANGED acked

\* The rest of the command, in one critical section of the working set.
BuyAccept(r) ==
    /\ command = r
    /\ command' = Nobody
    /\ LET body == request[r].body
           stored == StoredFor(r, data.receipts)
           batchless == hall = "number"
       IN  \/ /\ data.up /\ \E x \in stored : x.body = Identity(body)
              /\ Answered(r, body, RecordOf(r, body))
              /\ UNCHANGED <<data, queue, attempts, offered>>
           \/ /\ data.up /\ \E x \in stored : x.body # Identity(body)
              /\ Conflicts(r, body)
              /\ UNCHANGED <<data, queue, attempts, offered>>
           \/ /\ data.up /\ stored = {} /\ batchless /\ NumberAdmissible(r, body)
              /\ Accepted(r, body, NumberEvents(r, body))
              /\ UNCHANGED offered
           \/ /\ data.up /\ stored = {} /\ ~batchless /\ ScratchAdmissible(r, body)
              /\ offered < MaxOffers
              /\ offered' = offered + 1
              /\ Accepted(r, body, <<CardEvent(r, body, offered + 1)>>)
           \/ /\ Refused(r, body)
              /\ UNCHANGED <<data, queue, attempts, offered>>
    /\ UNCHANGED <<published, writer, db, owner, faults, realtime, hall, now, drawing, idOf>>

\* The two-second wait for the commit ends; the client does not know.
BuyTimeout(r) ==
    /\ request[r].pc = "waiting"
    /\ Refused(r, request[r].body)
    /\ UNCHANGED <<writerVars, realtime, hall, now, command, drawing, idOf>>

-----------------------------------------------------------------------------
(***************************************************************************)
(* Real-time scratch commands                                              *)
(***************************************************************************)

\* prepare: load the user and commit an offer to draw from.
PrepareOffer(u) ==
    /\ realtime /\ hall = "scratch" /\ Free /\ CanPrepare(u, {})
    /\ Prepared(u, {}).offers[u] = NoOffer /\ offered < MaxOffers
    /\ Admit(Prepared(u, {}),
             <<[Event("offer", <<"offer", offered + 1>>, u) EXCEPT !.offer = offered + 1]>>)
    /\ published' \in PreparedViews(u, {})
    /\ offered' = offered + 1
    /\ UNCHANGED <<writer, db, attempts, owner, faults, hallVars>>

\* reveal_card: uncover spots; the last one settles and pays the card.
RevealEvent(i, shown) ==
    LET all == shown = Spots
    IN  [Event("reveal", IF all THEN ScratchCredit(i) ELSE <<"reveal", i, shown>>, UserOf(i))
            EXCEPT !.cards = {Ticket(i, NoPeriod, shown, all)},
                   !.paying = all, !.effect = IF all THEN Prize ELSE 0]

Reveal(i, spots) ==
    LET u == UserOf(i)
        card == Prepared(u, {i}).tickets[i]
        shown == card.shown \cup spots
    IN  /\ realtime /\ hall = "scratch" /\ Free /\ CanPrepare(u, {i})
        /\ card # NoTicket /\ ~card.settled /\ shown # card.shown
        /\ Admit(Prepared(u, {i}), <<RevealEvent(i, shown)>>)
        /\ published' \in PreparedViews(u, {i})
        /\ UNCHANGED <<writer, db, attempts, offered, owner, faults, hallVars>>

-----------------------------------------------------------------------------
(***************************************************************************)
(* The real-time loop                                                      *)
(***************************************************************************)
LoopIdle == drawing[Nobody] = NoPeriod

\* The requests that wait for a job of the queue learn its fate.
Waiters(jobs) == {r \in Calls : request[r].pc = "waiting" /\ request[r].job \in jobs}
Tell(rs, pc) ==
    request' = [r \in Calls |-> IF r \in rs THEN [request[r] EXCEPT !.pc = pc]
                                   ELSE request[r]]

WriterStep ==
    /\ Persist
    /\ LET gone == {queue[k].id : k \in {j \in DOMAIN queue : queue' = Tail(queue) /\ j = 1}}
       IN  /\ Tell(Waiters(gone), "done")
           /\ acked' = acked \cup {idOf[r] : r \in Waiters(gone)}
    /\ UNCHANGED <<realtime, hall, now, command, drawing, idOf>>

\* The watch channels of abandoned jobs are dropped.
LoopDiscard ==
    /\ realtime /\ Free /\ LoopIdle
    /\ Discard
    /\ Tell(Waiters({queue[k].id : k \in DOMAIN queue}), "refused")
    /\ UNCHANGED <<realtime, hall, now, command, acked, drawing, idOf>>

LoopHydrate == realtime /\ LoopIdle /\ Hydrate /\ UNCHANGED hallVars
LoopRecover == realtime /\ Free /\ LoopIdle /\ Recover /\ UNCHANGED hallVars

\* advance and prepare: open the period on sale.
OpenPeriod ==
    /\ realtime /\ hall = "number" /\ Free /\ data.up
    /\ Selling \in Periods /\ MustOpen /\ CanOpen
    /\ Admit(data, <<OpenEvent>>)
    /\ UNCHANGED <<published, writer, db, attempts, offered, owner, faults, hallVars>>

\* advance: the first open period that is due; the lock is released meanwhile.
Due == {p \in Periods : data.rows[p].status = "open" /\ DrawAt(p) <= now}
PickDraw ==
    /\ realtime /\ Free /\ LoopIdle /\ data.up /\ Due # {}
    /\ drawing' = [drawing EXCEPT ![Nobody] = Min(Due)]
    /\ UNCHANGED <<writerVars, realtime, hall, now, command, request, acked, idOf>>

\* The beacon is missing, or the period changed: nothing is drawn.
DrawLater(b) ==
    /\ b \in Owners /\ drawing[b] # NoPeriod
    /\ drawing' = [drawing EXCEPT ![b] = NoPeriod]
    /\ UNCHANGED <<writerVars, realtime, hall, now, command, request, acked, idOf>>

Draw ==
    LET p == drawing[Nobody]
    IN  /\ realtime /\ Free /\ p # NoPeriod /\ data.up
        /\ data.rows[p].status = "open"
        /\ Admit(data, <<[Event("draw", <<"draw", p>>, Nobody) EXCEPT
                             !.period = p, !.row = [data.rows[p] EXCEPT !.status = "drawn"]]>>)
        /\ drawing' = [drawing EXCEPT ![Nobody] = NoPeriod]
        /\ UNCHANGED <<published, writer, db, attempts, offered, owner, faults,
                       realtime, hall, now, command, request, acked, idOf>>

\* settle: one user of a drawn period, or the end of the period.
Unsettled(tickets, p) == {i \in TicketIds : tickets[i].period = p /\ ~tickets[i].settled}
OfUser(ids, u) == {i \in ids : UserOf(i) = u}
Closed(cards) == {[c EXCEPT !.settled = TRUE] : c \in cards}

SettleUser(p, u) ==
    LET mine == OfUser(Unsettled(data.tickets, p), u)
        paid == Prize * Cardinality(mine)
    IN  /\ realtime /\ LoopIdle /\ data.up /\ data.rows[p].status = "drawn" /\ mine # {}
        /\ Admit(data, <<[Event("settle", DrawCredit(p, u), u) EXCEPT
                             !.period = p, !.row = [data.rows[p] EXCEPT !.paid = @ + paid],
                             !.cards = Closed({data.tickets[i] : i \in mine}),
                             !.paying = TRUE, !.effect = paid]>>)
        /\ UNCHANGED <<published, writer, db, attempts, offered, owner, faults, hallVars>>

SettlePeriod(p) ==
    /\ realtime /\ LoopIdle /\ data.up /\ data.rows[p].status = "drawn"
    /\ Unsettled(data.tickets, p) = {}
    /\ Admit(data, <<[Event("period", <<"settled", p>>, Nobody) EXCEPT
                         !.period = p, !.row = [data.rows[p] EXCEPT !.status = "settled"]]>>)
    /\ UNCHANGED <<published, writer, db, attempts, offered, owner, faults, hallVars>>

-----------------------------------------------------------------------------
(***************************************************************************)
(* SQL mode: one transaction per step                                      *)
(***************************************************************************)
SqlPay(e) ==
    [db EXCEPT !.tickets = Upsert(@, e.cards), !.rows = RowsWith(@, e),
               !.offers = [@ EXCEPT ![e.owner] = IF e.claim = NoOffer THEN @ ELSE NoOffer],
               !.ledger = @ \cup {e},
               !.wallet = [@ EXCEPT ![e.owner] = @ + e.effect]]

\* buy_numbers and scratch::buy: wallet, look-up without locks, transaction.
SqlCheck(r) ==
    /\ ~realtime /\ request[r].pc \notin {"checked"}
    /\ \E body \in Bodies(r) :
        LET stored == StoredFor(r, db.ledger)
        IN  \/ /\ stored = {}
               /\ request' = [request EXCEPT ![r] =
                                 [pc |-> "checked", body |-> body, job |-> <<>>]]
               /\ UNCHANGED acked
            \/ (\E x \in stored : x.body # Identity(body)) /\ Conflicts(r, body)
            \/ /\ \E x \in stored : x.body = Identity(body)
               /\ Answered(r, body, RecordOf(r, body))
    /\ UNCHANGED <<writerVars, realtime, hall, now, command, drawing, idOf>>

SqlNumberAdmissible(r, body) ==
    body[2] = Selling /\ SalesOpen /\ db.rows[Selling].status \in {"absent", "open"}

SqlOpened(p) == IF db.rows[p].status = "absent" THEN Row("open", 0, 0) ELSE db.rows[p]

SqlEvent(r, body) ==
    IF hall = "number"
    THEN PurchaseEvent(r, body, SqlOpened(Selling))
    ELSE [CardEvent(r, body, NoOffer) EXCEPT !.claim = body[2]]

\* The transaction, under the period, account and wallet locks.
SqlBuy(r) ==
    /\ ~realtime /\ request[r].pc = "checked"
    /\ LET body == request[r].body
           stored == StoredFor(r, db.ledger)
       IN  \/ /\ \E x \in stored : x.body = Identity(body)
              /\ Answered(r, body, RecordOf(r, body))
              /\ UNCHANGED <<db, attempts>>
           \/ /\ stored = {} /\ db.wallet[Buyer(r)] >= Unit /\ attempts[idOf[r]] < MaxTickets
              /\ hall = "number" => SqlNumberAdmissible(r, body)
              /\ hall = "scratch" => db.offers[Buyer(r)] = body[2]
              /\ db' = SqlPay(SqlEvent(r, body))
              /\ attempts' = [attempts EXCEPT ![idOf[r]] = @ + 1]
              /\ Answered(r, body, RecordOf(r, body))
           \/ /\ Refused(r, body)
              /\ UNCHANGED <<db, attempts>>
    /\ UNCHANGED <<data, published, queue, writer, offered, owner, faults,
                   realtime, hall, now, command, drawing, idOf>>

SqlOffer(u) ==
    /\ ~realtime /\ hall = "scratch" /\ db.offers[u] = NoOffer /\ offered < MaxOffers
    /\ db' = [db EXCEPT !.offers = [@ EXCEPT ![u] = offered + 1]]
    /\ offered' = offered + 1
    /\ UNCHANGED <<data, published, queue, writer, attempts, owner, faults, hallVars>>

SqlReveal(i, spots) ==
    LET card == db.tickets[i]
        e == RevealEvent(i, card.shown \cup spots)
    IN  /\ ~realtime /\ card # NoTicket /\ card.period = NoPeriod /\ ~card.settled
        /\ db' = IF e.paying THEN SqlPay(e) ELSE [db EXCEPT !.tickets = Upsert(@, e.cards)]
        /\ db' # db
        /\ UNCHANGED <<data, published, queue, writer, attempts, offered, owner, faults, hallVars>>

\* draw_one: open the period on sale, pick a candidate, fetch its beacon.
SqlOpen ==
    /\ ~realtime /\ hall = "number" /\ SalesOpen /\ db.rows[Selling].status = "absent"
    /\ db' = [db EXCEPT !.rows = [@ EXCEPT ![Selling] = Row("open", 0, 0)]]
    /\ UNCHANGED <<data, published, queue, writer, attempts, offered, owner, faults, hallVars>>

SqlDue == {p \in Periods : db.rows[p].status = "open" /\ DrawAt(p) <= now}
SqlPick(b) ==
    /\ ~realtime /\ drawing[b] = NoPeriod /\ SqlDue # {}
    /\ drawing' = [drawing EXCEPT ![b] = Min(SqlDue)]
    /\ UNCHANGED <<writerVars, realtime, hall, now, command, request, acked, idOf>>

SqlDraw(b) ==
    LET p == drawing[b]
    IN  /\ ~realtime /\ p # NoPeriod /\ db.rows[p].status = "open"
        /\ db' = [db EXCEPT !.rows = [@ EXCEPT ![p].status = "drawn"]]
        /\ drawing' = [drawing EXCEPT ![b] = NoPeriod]
        /\ UNCHANGED <<data, published, queue, writer, attempts, offered, owner, faults,
                       realtime, hall, now, command, request, acked, idOf>>

\* settle_one: the oldest drawn period, one user or its end.
SqlDrawn == {p \in Periods : db.rows[p].status = "drawn"}
SqlSettle ==
    /\ ~realtime /\ SqlDrawn # {}
    /\ LET p == Min(SqlDrawn)
           open == Unsettled(db.tickets, p)
       IN  \/ /\ open = {}
              /\ db' = [db EXCEPT !.rows = [@ EXCEPT ![p].status = "settled"]]
           \/ \E u \in Users :
                 LET mine == OfUser(open, u)
                     paid == Prize * Cardinality(mine)
                 IN  /\ mine # {}
                     /\ db' = SqlPay([Event("settle", DrawCredit(p, u), u) EXCEPT
                                        !.period = p,
                                        !.row = [db.rows[p] EXCEPT !.paid = @ + paid],
                                        !.cards = Closed({db.tickets[i] : i \in mine}),
                                        !.paying = TRUE, !.effect = paid])
    /\ UNCHANGED <<data, published, queue, writer, attempts, offered, owner, faults, hallVars>>

-----------------------------------------------------------------------------
Tick ==
    /\ now < MaxTime
    /\ now' = now + 1
    /\ UNCHANGED <<writerVars, realtime, hall, command, request, acked, drawing, idOf>>

\* The process dies; what is not in SQL is gone.
Restart ==
    /\ faults < MaxFaults
    /\ faults' = faults + 1
    /\ data' = Empty /\ published' = Empty /\ queue' = <<>> /\ writer' = "off"
    /\ command' = Nobody
    /\ request' = [r \in Calls |-> IF request[r].pc \in {"checked", "waiting"}
                                      THEN [request[r] EXCEPT !.pc = "refused"]
                                      ELSE request[r]]
    /\ drawing' = [b \in Owners |-> NoPeriod]
    /\ UNCHANGED <<db, attempts, offered, owner, realtime, hall, now, acked, idOf>>

Init ==
    /\ WriterInit
    /\ realtime \in BOOLEAN
    /\ hall \in {"number", "scratch"}
    /\ now = 0
    /\ command = Nobody
    /\ request = [r \in Calls |-> Idle]
    /\ acked = {}
    /\ drawing = [b \in Owners |-> NoPeriod]
    /\ owner \in Ownership
    /\ idOf \in {f \in [Calls -> Requests] : \A c \in Calls : f[c] <= c}

Loop ==
    \/ LoopDiscard \/ LoopHydrate \/ LoopRecover \/ OpenPeriod \/ PickDraw \/ Draw
    \/ \E p \in Periods : SettlePeriod(p) \/ \E u \in Users : SettleUser(p, u)
SqlLoop == SqlOpen \/ SqlSettle \/ \E b \in Backends : SqlPick(b) \/ SqlDraw(b)

Next ==
    \/ \E r \in Calls : BuyPreflight(r) \/ BuyAccept(r) \/ BuyTimeout(r)
                           \/ SqlCheck(r) \/ SqlBuy(r)
    \/ \E u \in Users : PrepareOffer(u) \/ SqlOffer(u)
    \/ \E i \in TicketIds, spots \in Masks :
          Reveal(i, spots) \/ SqlReveal(i, spots)
    \/ WriterStep
    \/ Loop
    \/ SqlLoop
    \/ \E b \in Owners : DrawLater(b)
    \/ Tick
    \/ Restart

Spec == Init /\ [][Next]_vars

-----------------------------------------------------------------------------
(***************************************************************************)
(* Properties                                                              *)
(***************************************************************************)
Stored == {i \in TicketIds : db.tickets[i] # NoTicket}

\* A wallet is its grant less one price per stored ticket plus one prize per
\* settled ticket, no request is charged for two tickets and no two purchases
\* are drawn from one commitment, whatever was retried, replayed, fenced or
\* restarted (wallet::settle, replay, take_scratch_offer).
MoneyMatchesTickets ==
    /\ \A u \in Users :
          LET mine == OfUser(Stored, u)
          IN  db.wallet[u] = Balance - Unit * Cardinality(mine)
                 + Prize * Cardinality({i \in mine : db.tickets[i].settled})
    /\ \A r \in Requests : Cardinality({i \in Stored : i[1] = r}) <= 1
    /\ \A x, y \in db.ledger : x.claim = y.claim /\ x.claim # NoOffer => x = y

\* A period row's counters count its stored tickets, and a settled period has
\* paid all of them (the row is written from frozen copies, in queue order).
PeriodBooks ==
    \A p \in Periods :
        LET sold == {i \in Stored : db.tickets[i].period = p}
        IN  /\ db.rows[p].sales = Cardinality(sold)
            /\ db.rows[p].paid = Prize * Cardinality({i \in sold : db.tickets[i].settled})
            /\ db.rows[p].status = "settled" => \A i \in sold : db.tickets[i].settled

\* The hall never queues an event its own transaction must refuse for good:
\* a fence abandons every player's unwritten work (persist, is_permanent).
NoSelfFence == queue # <<>> => ~Mismatch(Head(queue))

\* A purchase that was reported is stored, also after a fence or a restart.
ReportedIsStored == \A r \in acked : \E i \in Stored : i[1] = r

\* Once a period is drawn no ticket joins it, and its numbers stay drawn:
\* nobody buys knowing the result (advance, accept_numbers).
SoldBeforeDraw ==
    [][\A p \in Periods : db.rows[p].status \in {"drawn", "settled"} =>
          /\ db'.rows[p].status \in {"drawn", "settled"}
          /\ {i \in TicketIds : db'.tickets[i].period = p}
                = {i \in TicketIds : db.tickets[i].period = p}]_vars

\* A retry of a stored purchase with the same body replays it: only another
\* body conflicts (store::replay, ScratchBuy::identity).
RetryReplays ==
    [][\A r \in Calls : request'[r] # request[r] /\ request'[r].pc = "conflict" =>
          \A x \in StoredFor(r, db.ledger) : x.body # Identity(request'[r].body)]_vars
=============================================================================
