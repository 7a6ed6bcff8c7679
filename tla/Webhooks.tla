------------------------------ MODULE Webhooks ------------------------------
(***************************************************************************)
(* Webhook deliveries.  A handler stores a pending row and, if one of the  *)
(* webhookSlots is free, starts a goroutine that posts the event and       *)
(* records the outcome; a full queue is recorded as a failure at once.  An *)
(* administrator may post any row again, from the handler, also while      *)
(* another goroutine is posting it.  The endpoint may accept, refuse, or   *)
(* accept without an answer arriving; the database may refuse a statement; *)
(* the server may restart and lose every goroutine, but no row.            *)
(***************************************************************************)
EXTENDS Integers, FiniteSets

CONSTANTS
    Deliveries,     \* ids of rows of webhook_deliveries
    Handlers,       \* request goroutines
    Workers,        \* names for delivery goroutines
    Slots,          \* capacity of webhookSlots (16 in the code)
    MaxAttempts,    \* bound on attempt_count
    MaxFaults,      \* bound on restarts of the server and failed statements
    NoRow, Idle

VARIABLES
    rows,           \* webhook_deliveries
    accepted,       \* ids the endpoint has accepted at least once
    slots,          \* length of the channel webhookSlots
    proc,           \* handler or worker -> what it is doing
    faults          \* restarts and failed statements so far

vars == <<rows, accepted, slots, proc, faults>>

Procs == Handlers \cup Workers
Outcomes == {"delivered", "failed"}

\* delivered_at is modelled by whether it is set.
Row == [status : {"pending"} \cup Outcomes, attempts : 0..MaxAttempts, delivered_at : BOOLEAN]

\* stored: the row is there and no slot was asked for yet; post: about to call
\* the endpoint; record: the answer is in, the outcome is not.
Job == [pc : {"stored", "post"}, id : Deliveries] \cup [pc : {"record"}, id : Deliveries, outcome : Outcomes]

ASSUME WebhooksAssumption ==
    /\ Slots \in Nat \ {0} /\ MaxAttempts \in Nat \ {0} /\ MaxFaults \in Nat
    /\ IsFiniteSet(Workers) /\ Handlers \cap Workers = {}
    /\ NoRow \notin Row /\ Idle \notin Job

\* Every variable has the type of its table, channel or goroutine.
TypeOK ==
    /\ rows \in [Deliveries -> Row \cup {NoRow}]
    /\ accepted \subseteq Deliveries
    /\ slots \in 0..Slots
    /\ proc \in [Procs -> Job \cup {Idle}]
    /\ faults \in 0..MaxFaults

Init ==
    /\ rows = [i \in Deliveries |-> NoRow]
    /\ accepted = {}
    /\ slots = 0
    /\ proc = [p \in Procs |-> Idle]
    /\ faults = 0

Doing(p, pc) == proc[p] # Idle /\ proc[p].pc = pc

\* CreateWebhookDelivery; pc is what the handler goes on with.
Create(h, i, pc) ==
    /\ proc[h] = Idle
    /\ rows[i] = NoRow
    /\ rows' = [rows EXCEPT ![i] = [status |-> "pending", attempts |-> 0, delivered_at |-> FALSE]]
    /\ proc' = [proc EXCEPT ![h] = [pc |-> pc, id |-> i]]
    /\ UNCHANGED <<accepted, slots, faults>>

\* queueWebhook stores the row and then asks for a slot; webhookTest posts it
\* from the handler.
QueueWebhook(h, i) == Create(h, i, "stored")
WebhookTest(h, i) == Create(h, i, "post")

\* Something outside the server goes wrong.
Fault ==
    /\ faults < MaxFaults                            \* bound MaxFaults
    /\ faults' = faults + 1

\* Mutant: a failure clears delivered_at, and the attempt is not counted.
CompletedAfresh(row, outcome) ==
    [status |-> outcome, attempts |-> row.attempts, delivered_at |-> outcome = "delivered"]

\* The UPDATE of CompleteWebhookDelivery.
Completed(row, outcome) ==
    [status |-> outcome, attempts |-> row.attempts + 1,
     delivered_at |-> row.delivered_at \/ outcome = "delivered"]

CompleteWebhookDelivery(i, outcome) ==
    \/ /\ rows[i].attempts < MaxAttempts             \* bound MaxAttempts
       /\ rows' = [rows EXCEPT ![i] = Completed(rows[i], outcome)]
       /\ UNCHANGED faults
    \/ Fault /\ UNCHANGED rows

\* A free slot: the goroutine that takes it runs on its own.
StartDelivery(h, w) ==
    /\ Doing(h, "stored")
    /\ slots < Slots
    /\ proc[w] = Idle
    /\ slots' = slots + 1
    /\ proc' = [proc EXCEPT ![h] = Idle, ![w] = [pc |-> "post", id |-> proc[h].id]]
    /\ UNCHANGED <<rows, accepted, faults>>

\* Mutant: the row of an event that found the queue full is left alone.
QueueFullSilently(h) ==
    /\ Doing(h, "stored")
    /\ slots >= Slots
    /\ proc' = [proc EXCEPT ![h] = Idle]
    /\ UNCHANGED <<rows, accepted, slots, faults>>

\* No free slot: a failure without an attempt to post.
QueueFull(h) ==
    /\ Doing(h, "stored")
    /\ slots >= Slots
    /\ CompleteWebhookDelivery(proc[h].id, "failed")
    /\ proc' = [proc EXCEPT ![h] = Idle]
    /\ UNCHANGED <<accepted, slots>>

\* retryWebhookDelivery of a row, whatever its status.
RetryWebhookDelivery(h, i) ==
    /\ proc[h] = Idle
    /\ rows[i] # NoRow
    /\ rows[i].attempts < MaxAttempts
    /\ proc' = [proc EXCEPT ![h] = [pc |-> "post", id |-> i]]
    /\ UNCHANGED <<rows, accepted, slots, faults>>

\* Mutant: any answer counts as a delivery.
AnyAnswer(p, reached, outcome) ==
    /\ Doing(p, "post")
    /\ accepted' = IF reached THEN accepted \cup {proc[p].id} ELSE accepted
    /\ proc' = [proc EXCEPT ![p] = [pc |-> "record", id |-> proc[p].id, outcome |-> "delivered"]]
    /\ UNCHANGED <<rows, slots, faults>>

\* deliverWebhook up to the answer.  A 2xx needs an endpoint that accepted the
\* event; a timeout or a lost answer is a failure whether it did or not.
Post(p, reached, outcome) ==
    /\ Doing(p, "post")
    /\ outcome = "delivered" => reached
    /\ accepted' = IF reached THEN accepted \cup {proc[p].id} ELSE accepted
    /\ proc' = [proc EXCEPT ![p] = [pc |-> "record", id |-> proc[p].id, outcome |-> outcome]]
    /\ UNCHANGED <<rows, slots, faults>>

\* Mutant: the slot is given back only after a delivery.
SlotsAfterDelivery(p) == IF p \in Workers /\ proc[p].outcome = "delivered" THEN slots - 1 ELSE slots

\* Mutant: a post from a handler gives a slot back as well.
SlotsAfterAny(p) == slots - 1

\* The deferred receive of a delivery goroutine.
SlotsAfter(p) == IF p \in Workers THEN slots - 1 ELSE slots

\* recordWebhookOutcome, and the end of the goroutine.
RecordWebhookOutcome(p) ==
    /\ Doing(p, "record")
    /\ CompleteWebhookDelivery(proc[p].id, proc[p].outcome)
    /\ slots' = SlotsAfter(p)
    /\ proc' = [proc EXCEPT ![p] = Idle]
    /\ UNCHANGED accepted

\* The server restarts: goroutines and the channel are gone.
Restart ==
    /\ Fault
    /\ slots' = 0
    /\ proc' = [p \in Procs |-> Idle]
    /\ UNCHANGED <<rows, accepted>>

Serve(p) ==
    \/ p \in Handlers /\ \E w \in Workers : StartDelivery(p, w)
    \/ p \in Handlers /\ QueueFull(p)
    \/ \E reached \in BOOLEAN, outcome \in Outcomes : Post(p, reached, outcome)
    \/ RecordWebhookOutcome(p)

Next ==
    \/ \E h \in Handlers, i \in Deliveries :
           QueueWebhook(h, i) \/ WebhookTest(h, i) \/ RetryWebhookDelivery(h, i)
    \/ \E p \in Procs : Serve(p)
    \/ Restart

Spec == Init /\ [][Next]_vars

\* Fairness: a goroutine that can go on does.  The client's timeout ends every
\* post, and Go schedules every runnable goroutine.
FairSpec == Spec /\ \A p \in Procs : WF_vars(Serve(p))

-----------------------------------------------------------------------------
(* Properties *)

\* A row that says an event was delivered is right: the endpoint accepted it,
\* whatever retries, late answers, failed statements and restarts came between.
DeliveredIsTrue ==
    \A i \in Deliveries : rows[i] # NoRow =>
        /\ rows[i].status = "delivered" => i \in accepted
        /\ rows[i].delivered_at => i \in accepted
        /\ rows[i].status = "delivered" => rows[i].delivered_at

\* The slots taken are those of the goroutines that run, so a failed delivery,
\* a failed statement or a restart leaks none and the queue never jams.
SlotsBalanced == slots = Cardinality({w \in Workers : proc[w] # Idle})

\* What a goroutine has in hand is still true: its row is there, and an
\* acceptance it is about to record did happen.
InHandTrue ==
    \A p \in Procs : proc[p] # Idle =>
        /\ rows[proc[p].id] # NoRow
        /\ (proc[p].pc = "record" /\ proc[p].outcome = "delivered") => proc[p].id \in accepted

\* The inductive invariant behind the three above.
IInv == TypeOK /\ DeliveredIsTrue /\ SlotsBalanced /\ InHandTrue

\* A row that a step changes has one attempt more, keeps delivered_at, and is
\* not pending.
RowsGrow ==
    \A i \in Deliveries : (rows[i] # NoRow /\ rows'[i] # rows[i]) =>
        /\ rows'[i].attempts = rows[i].attempts + 1
        /\ rows[i].delivered_at => rows'[i].delivered_at
        /\ rows'[i].status # "pending"

\* The history of a row only grows: an attempt is never uncounted, the time of a
\* delivery is kept when a later attempt fails, and no row is pending again.
HistoryGrows == [][RowsGrow]_vars

\* No event is left pending for ever by the server itself: one that some
\* goroutine has in hand is closed, unless the server restarts or a statement
\* fails meanwhile (what the default case of queueWebhook guards against).
PendingCloses ==
    \A i \in Deliveries, n \in 0..MaxFaults :
        (/\ rows[i] # NoRow /\ rows[i].status = "pending"
         /\ \E p \in Procs : proc[p] # Idle /\ proc[p].id = i
         /\ faults = n) ~> (faults > n \/ (rows[i] # NoRow /\ rows[i].status # "pending"))

=============================================================================
