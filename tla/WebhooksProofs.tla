--------------------------- MODULE WebhooksProofs ---------------------------
(***************************************************************************)
(* The delivery history is true and the slots balance, for any number of   *)
(* events, handlers, delivery goroutines, slots, attempts and faults.      *)
(***************************************************************************)
EXTENDS Webhooks, FiniteSetTheorems, TLAPS

Busy == {w \in Workers : proc[w] # Idle}

\* The delivery goroutines that run are finitely many.
LEMMA BusyFinite ==
    ASSUME TypeOK PROVE IsFiniteSet(Busy) /\ Cardinality(Busy) \in Nat
<1>1. IsFiniteSet(Busy)
  BY WebhooksAssumption, FS_Subset DEF Busy
<1>2. QED
  BY <1>1, FS_CardinalityType

\* The slots balance after a step that starts and ends no delivery goroutine.
LEMMA SameBusy ==
    ASSUME TypeOK, SlotsBalanced, slots' = slots,
           \A w \in Workers : proc'[w] # Idle <=> proc[w] # Idle
    PROVE  SlotsBalanced'
<1>1. Busy' = Busy
  BY DEF Busy
<1>2. QED
  BY <1>1 DEF SlotsBalanced, Busy

\* What CompleteWebhookDelivery does to the rows, and to what they say.
LEMMA CompleteKeepsRows ==
    ASSUME TypeOK, DeliveredIsTrue, NEW i \in Deliveries, NEW outcome \in Outcomes,
           rows[i] # NoRow,
           outcome = "delivered" => i \in accepted, accepted' = accepted,
           CompleteWebhookDelivery(i, outcome)
    PROVE  /\ rows' \in [Deliveries -> Row \cup {NoRow}]
           /\ faults' \in 0..MaxFaults
           /\ DeliveredIsTrue'
           /\ \A j \in Deliveries : rows[j] # NoRow => rows'[j] # NoRow
<1>1. CASE Fault /\ UNCHANGED rows
  BY <1>1, WebhooksAssumption DEF Fault, TypeOK, DeliveredIsTrue
<1>2. CASE rows[i].attempts < MaxAttempts /\ rows' = [rows EXCEPT ![i] = Completed(rows[i], outcome)] /\ UNCHANGED faults
  <2> DEFINE new == Completed(rows[i], outcome)
  <2>1. rows[i] \in Row
    BY DEF TypeOK
  <2>2. rows[i].attempts \in 0..MaxAttempts /\ rows[i].delivered_at \in BOOLEAN
    BY <2>1 DEF Row
  <2>3. rows[i].attempts + 1 \in 0..MaxAttempts
    BY <2>2, <1>2, WebhooksAssumption
  <2>4. (rows[i].delivered_at \/ outcome = "delivered") \in BOOLEAN
    OBVIOUS
  <2>5. new \in Row
    BY <2>3, <2>4 DEF Completed, Row, Outcomes
  <2>6. /\ new.status = outcome
        /\ new.delivered_at = (rows[i].delivered_at \/ outcome = "delivered")
    BY DEF Completed
  <2>7. rows[i].delivered_at => i \in accepted
    BY DEF DeliveredIsTrue
  <2>8. /\ new.status = "delivered" => i \in accepted
        /\ new.delivered_at => i \in accepted
        /\ new.status = "delivered" => new.delivered_at
    BY <2>6, <2>7
  <2> HIDE DEF new
  <2>9. rows' \in [Deliveries -> Row \cup {NoRow}] /\ rows' = [rows EXCEPT ![i] = new]
    BY <1>2, <2>5 DEF TypeOK, new
  <2>10. DeliveredIsTrue'
    <3> SUFFICES ASSUME NEW j \in Deliveries, rows'[j] # NoRow
                 PROVE  /\ rows'[j].status = "delivered" => j \in accepted
                        /\ rows'[j].delivered_at => j \in accepted
                        /\ rows'[j].status = "delivered" => rows'[j].delivered_at
      BY DEF DeliveredIsTrue
    <3>1. CASE j = i
      <4>1. rows'[j] = new
        BY <3>1, <2>9 DEF TypeOK
      <4>2. QED BY <4>1, <3>1, <2>8
    <3>2. CASE j # i
      <4>1. rows'[j] = rows[j]
        BY <3>2, <2>9 DEF TypeOK
      <4>2. QED BY <4>1 DEF DeliveredIsTrue
    <3>3. QED BY <3>1, <3>2
  <2>11. \A j \in Deliveries : rows[j] # NoRow => rows'[j] # NoRow
    BY <2>5, <2>9, WebhooksAssumption DEF TypeOK
  <2>12. QED BY <2>9, <2>10, <2>11, <1>2 DEF TypeOK
<1>3. QED
  BY <1>1, <1>2 DEF CompleteWebhookDelivery

\* Every conjunct of the invariant holds of a server that has just started.
LEMMA InvInit == Init => IInv
<1> SUFFICES ASSUME Init PROVE IInv
  OBVIOUS
<1>1. TypeOK
  BY WebhooksAssumption DEF Init, TypeOK
<1>2. DeliveredIsTrue /\ InHandTrue
  BY DEF Init, DeliveredIsTrue, InHandTrue
<1>3. SlotsBalanced
  <2>1. {w \in Workers : proc[w] # Idle} = {}
    BY DEF Init, Procs
  <2>2. QED BY <2>1, FS_EmptySet DEF Init, SlotsBalanced
<1>4. QED BY <1>1, <1>2, <1>3 DEF IInv

\* A job in hand, with its fields.
LEMMA JobTyped ==
    ASSUME TypeOK, NEW p \in Procs, proc[p] # Idle
    PROVE  /\ proc[p] \in Job
           /\ proc[p].id \in Deliveries
           /\ proc[p].pc = "record" => proc[p].outcome \in Outcomes
<1>1. proc[p] \in Job
  BY DEF TypeOK
<1>2. QED BY <1>1 DEF Job

\* A row is stored by a handler.
LEMMA CreateStep ==
    ASSUME IInv, NEW h \in Handlers, NEW i \in Deliveries, NEW pc \in {"stored", "post"}, Create(h, i, pc)
    PROVE  IInv'
<1> DEFINE new == [status |-> "pending", attempts |-> 0, delivered_at |-> FALSE]
<1> DEFINE job == [pc |-> pc, id |-> i]
<1>1. new \in Row /\ new # NoRow /\ ~new.delivered_at /\ new.status # "delivered"
  <2>1. 0 \in 0..MaxAttempts
    BY WebhooksAssumption
  <2>2. new \in Row
    BY <2>1 DEF Row
  <2>3. ~new.delivered_at /\ new.status # "delivered"
    OBVIOUS
  <2>4. QED BY <2>2, <2>3, WebhooksAssumption
<1>2. job \in Job /\ job # Idle /\ job.id = i /\ job.pc # "record"
  BY WebhooksAssumption DEF Job
<1>3. rows' = [rows EXCEPT ![i] = new] /\ proc' = [proc EXCEPT ![h] = job] /\ UNCHANGED <<accepted, slots, faults>>
  BY DEF Create
<1>4. h \in Procs /\ h \notin Workers
  BY WebhooksAssumption DEF Procs
<1> HIDE DEF new, job
<1>5. TypeOK'
  BY <1>1, <1>2, <1>3, <1>4 DEF TypeOK, IInv
<1>6. DeliveredIsTrue'
  BY <1>1, <1>3 DEF TypeOK, IInv, DeliveredIsTrue
<1>7. SlotsBalanced'
  BY <1>3, <1>4, SameBusy DEF TypeOK, IInv, Procs
<1>8. InHandTrue'
  <2> SUFFICES ASSUME NEW p \in Procs, proc'[p] # Idle
               PROVE  /\ rows'[proc'[p].id] # NoRow
                      /\ (proc'[p].pc = "record" /\ proc'[p].outcome = "delivered") => proc'[p].id \in accepted'
    BY DEF InHandTrue
  <2>1. CASE p = h
    BY <2>1, <1>1, <1>2, <1>3 DEF TypeOK, IInv
  <2>2. CASE p # h
    <3>1. proc'[p] = proc[p] /\ proc[p] # Idle
      BY <2>2, <1>3 DEF TypeOK, IInv
    <3>2. proc[p].id \in Deliveries
      BY <3>1, JobTyped DEF IInv
    <3>3. rows'[proc[p].id] # NoRow
      BY <3>1, <3>2, <1>1, <1>3 DEF TypeOK, IInv, InHandTrue
    <3>4. QED BY <3>1, <3>3, <1>3 DEF IInv, InHandTrue
  <2>3. QED BY <2>1, <2>2
<1>9. QED BY <1>5, <1>6, <1>7, <1>8 DEF IInv

\* What a job and a slot do when a process changes its job and rows and accepted
\* only grow: the jobs of the others stay true.
LEMMA OthersInHand ==
    ASSUME IInv, NEW q \in Procs, NEW job \in Job \cup {Idle}, proc' = [proc EXCEPT ![q] = job],
           \A j \in Deliveries : rows[j] # NoRow => rows'[j] # NoRow,
           accepted \subseteq accepted',
           job # Idle => /\ rows'[job.id] # NoRow
                         /\ (job.pc = "record" /\ job.outcome = "delivered") => job.id \in accepted'
    PROVE  InHandTrue'
<1> SUFFICES ASSUME NEW p \in Procs, proc'[p] # Idle
             PROVE  /\ rows'[proc'[p].id] # NoRow
                    /\ (proc'[p].pc = "record" /\ proc'[p].outcome = "delivered") => proc'[p].id \in accepted'
  BY DEF InHandTrue
<1>1. CASE p = q
  <2>1. proc'[p] = job
    BY <1>1 DEF TypeOK, IInv
  <2>2. QED BY <2>1
<1>2. CASE p # q
  <2>1. proc'[p] = proc[p] /\ proc[p] # Idle
    BY <1>2 DEF TypeOK, IInv
  <2>2. proc[p].id \in Deliveries
    BY <2>1, JobTyped DEF IInv
  <2>3. QED BY <2>1, <2>2 DEF IInv, InHandTrue
<1>3. QED BY <1>1, <1>2

\* A delivery goroutine takes a slot.
LEMMA StartStep ==
    ASSUME IInv, NEW h \in Handlers, NEW w \in Workers, StartDelivery(h, w)
    PROVE  IInv'
<1> DEFINE i == proc[h].id
<1> DEFINE job == [pc |-> "post", id |-> i]
<1>1. h \in Procs /\ w \in Procs /\ h # w /\ h \notin Workers
  BY WebhooksAssumption DEF Procs
<1>2. proc[h] # Idle /\ proc[w] = Idle /\ slots < Slots
  BY DEF StartDelivery, Doing
<1>3. i \in Deliveries /\ rows[i] # NoRow
  BY <1>1, <1>2, JobTyped DEF IInv, InHandTrue
<1>4. job \in Job /\ job # Idle /\ job.id = i /\ job.pc # "record"
  BY <1>3, WebhooksAssumption DEF Job
<1>5. /\ proc' = [proc EXCEPT ![h] = Idle, ![w] = job]
      /\ slots' = slots + 1
      /\ UNCHANGED <<rows, accepted, faults>>
  BY DEF StartDelivery
<1> HIDE DEF i, job
<1>6. TypeOK'
  <2>1. slots' \in 0..Slots
    BY <1>2, <1>5, WebhooksAssumption DEF TypeOK, IInv
  <2>2. proc' \in [Procs -> Job \cup {Idle}]
    BY <1>1, <1>4, <1>5 DEF TypeOK, IInv
  <2>3. QED BY <2>1, <2>2, <1>5 DEF TypeOK, IInv
<1>7. DeliveredIsTrue'
  BY <1>5 DEF DeliveredIsTrue, IInv
<1>8. SlotsBalanced'
  <2>1. \A v \in Workers : proc'[v] = IF v = w THEN job ELSE proc[v]
    BY <1>1, <1>5 DEF TypeOK, IInv, Procs
  <2>2. Busy' = Busy \cup {w} /\ w \notin Busy
    BY <2>1, <1>2, <1>4 DEF Busy
  <2>3. Cardinality(Busy') = Cardinality(Busy) + 1
    BY <2>2, BusyFinite, FS_AddElement DEF IInv
  <2>4. QED BY <2>3, <1>5 DEF SlotsBalanced, IInv, Busy
<1>9. InHandTrue'
  <2> SUFFICES ASSUME NEW p \in Procs, proc'[p] # Idle
               PROVE  /\ rows'[proc'[p].id] # NoRow
                      /\ (proc'[p].pc = "record" /\ proc'[p].outcome = "delivered") => proc'[p].id \in accepted'
    BY DEF InHandTrue
  <2>1. CASE p = w
    BY <2>1, <1>1, <1>3, <1>4, <1>5 DEF TypeOK, IInv
  <2>2. CASE p # w
    <3>1. proc'[p] = proc[p] /\ proc[p] # Idle
      BY <2>2, <1>1, <1>5 DEF TypeOK, IInv
    <3>2. QED BY <3>1, <1>5 DEF IInv, InHandTrue
  <2>3. QED BY <2>1, <2>2
<1>10. QED BY <1>6, <1>7, <1>8, <1>9 DEF IInv

\* A job of a process ends, and with it the slot of a delivery goroutine.
LEMMA RecordStep ==
    ASSUME IInv, NEW p \in Procs, RecordWebhookOutcome(p)
    PROVE  IInv'
<1> DEFINE i == proc[p].id
<1> DEFINE outcome == proc[p].outcome
<1>1. proc[p] # Idle /\ proc[p].pc = "record"
  BY DEF RecordWebhookOutcome, Doing
<1>2. i \in Deliveries /\ outcome \in Outcomes /\ rows[i] # NoRow /\ (outcome = "delivered" => i \in accepted)
  BY <1>1, JobTyped DEF IInv, InHandTrue
<1>3. CompleteWebhookDelivery(i, outcome) /\ proc' = [proc EXCEPT ![p] = Idle] /\ accepted' = accepted /\ slots' = SlotsAfter(p)
  BY DEF RecordWebhookOutcome
<1> HIDE DEF i, outcome
<1>4. /\ rows' \in [Deliveries -> Row \cup {NoRow}] /\ faults' \in 0..MaxFaults
      /\ DeliveredIsTrue'
      /\ \A j \in Deliveries : rows[j] # NoRow => rows'[j] # NoRow
  BY <1>2, <1>3, CompleteKeepsRows DEF IInv
<1>5. SlotsBalanced' /\ slots' \in 0..Slots
  <2>1. CASE p \in Workers
    <3>1. \A v \in Workers : proc'[v] = IF v = p THEN Idle ELSE proc[v]
      BY <1>3 DEF TypeOK, IInv, Procs
    <3>2. Busy' = Busy \ {p} /\ p \in Busy
      BY <3>1, <1>1, <2>1 DEF Busy
    <3>3. Cardinality(Busy') = Cardinality(Busy) - 1
      BY <3>2, BusyFinite, FS_RemoveElement DEF IInv
    <3>4. IsFiniteSet(Busy') /\ Cardinality(Busy') \in Nat
      BY <3>2, BusyFinite, FS_RemoveElement, FS_CardinalityType DEF IInv
    <3>5. slots = Cardinality(Busy) /\ slots' = slots - 1
      BY <1>3, <2>1 DEF SlotsAfter, SlotsBalanced, IInv, Busy
    <3>6. slots' = Cardinality(Busy')
      BY <3>3, <3>5
    <3>7. slots' \in 0..Slots
      BY <3>4, <3>5, <3>6, WebhooksAssumption DEF TypeOK, IInv
    <3>8. QED BY <3>6, <3>7 DEF SlotsBalanced, Busy
  <2>2. CASE p \notin Workers
    <3>1. slots' = slots
      BY <2>2, <1>3 DEF SlotsAfter
    <3>2. \A v \in Workers : proc'[v] # Idle <=> proc[v] # Idle
      BY <2>2, <1>3 DEF TypeOK, IInv, Procs
    <3>3. SlotsBalanced'
      BY <3>1, <3>2, SameBusy DEF IInv
    <3>4. QED BY <3>1, <3>3 DEF TypeOK, IInv
  <2>3. QED BY <2>1, <2>2
<1>6. TypeOK'
  BY <1>3, <1>4, <1>5 DEF TypeOK, IInv
<1>7. InHandTrue'
  BY <1>3, <1>4, OthersInHand
<1>8. QED BY <1>4, <1>5, <1>6, <1>7 DEF IInv

\* An event that finds no slot is recorded as failed by its handler.
LEMMA QueueFullStep ==
    ASSUME IInv, NEW h \in Handlers, QueueFull(h)
    PROVE  IInv'
<1> DEFINE i == proc[h].id
<1>1. h \in Procs /\ h \notin Workers /\ proc[h] # Idle
  BY WebhooksAssumption DEF Procs, QueueFull, Doing
<1>2. i \in Deliveries /\ rows[i] # NoRow
  BY <1>1, JobTyped DEF IInv, InHandTrue
<1>3. CompleteWebhookDelivery(i, "failed") /\ proc' = [proc EXCEPT ![h] = Idle] /\ accepted' = accepted /\ slots' = slots
  BY DEF QueueFull
<1> HIDE DEF i
<1>4. /\ rows' \in [Deliveries -> Row \cup {NoRow}] /\ faults' \in 0..MaxFaults
      /\ DeliveredIsTrue'
      /\ \A j \in Deliveries : rows[j] # NoRow => rows'[j] # NoRow
  BY <1>2, <1>3, CompleteKeepsRows DEF IInv, Outcomes
<1>5. TypeOK'
  BY <1>3, <1>4 DEF TypeOK, IInv
<1>6. SlotsBalanced'
  BY <1>1, <1>3, SameBusy DEF TypeOK, IInv, Procs
<1>7. InHandTrue'
  BY <1>1, <1>3, <1>4, OthersInHand
<1>8. QED BY <1>4, <1>5, <1>6, <1>7 DEF IInv

\* An administrator posts a row again.
LEMMA RetryStep ==
    ASSUME IInv, NEW h \in Handlers, NEW i \in Deliveries, RetryWebhookDelivery(h, i)
    PROVE  IInv'
<1> DEFINE job == [pc |-> "post", id |-> i]
<1>1. h \in Procs /\ h \notin Workers
  BY WebhooksAssumption DEF Procs
<1>2. job \in Job /\ job # Idle /\ job.id = i /\ job.pc # "record"
  BY WebhooksAssumption DEF Job
<1>3. rows[i] # NoRow /\ proc' = [proc EXCEPT ![h] = job] /\ UNCHANGED <<rows, accepted, slots, faults>>
  BY DEF RetryWebhookDelivery
<1> HIDE DEF job
<1>4. TypeOK'
  BY <1>2, <1>3 DEF TypeOK, IInv
<1>5. DeliveredIsTrue'
  BY <1>3 DEF DeliveredIsTrue, IInv
<1>6. SlotsBalanced'
  BY <1>1, <1>3, SameBusy DEF TypeOK, IInv, Procs
<1>7. InHandTrue'
  BY <1>1, <1>2, <1>3, OthersInHand
<1>8. QED BY <1>4, <1>5, <1>6, <1>7 DEF IInv

\* The endpoint answers, or the client gives up.
LEMMA PostStep ==
    ASSUME IInv, NEW p \in Procs, NEW reached \in BOOLEAN, NEW outcome \in Outcomes, Post(p, reached, outcome)
    PROVE  IInv'
<1> DEFINE i == proc[p].id
<1> DEFINE job == [pc |-> "record", id |-> i, outcome |-> outcome]
<1>1. proc[p] # Idle
  BY DEF Post, Doing
<1>2. i \in Deliveries /\ rows[i] # NoRow
  BY <1>1, JobTyped DEF IInv, InHandTrue
<1>3. job \in Job /\ job # Idle /\ job.id = i /\ job.outcome = outcome
  BY <1>2, WebhooksAssumption DEF Job
<1>4. proc' = [proc EXCEPT ![p] = job] /\ UNCHANGED <<rows, slots, faults>>
  BY DEF Post
<1>5. accepted \subseteq accepted' /\ accepted' \subseteq Deliveries /\ (outcome = "delivered" => i \in accepted')
  BY <1>2 DEF Post, TypeOK, IInv
<1> HIDE DEF i, job
<1>6. TypeOK'
  BY <1>3, <1>4, <1>5 DEF TypeOK, IInv
<1>7. DeliveredIsTrue'
  BY <1>4, <1>5 DEF DeliveredIsTrue, IInv
<1>8. SlotsBalanced'
  <2>1. \A w \in Workers : proc'[w] # Idle <=> proc[w] # Idle
    BY <1>1, <1>3, <1>4 DEF TypeOK, IInv, Procs
  <2>2. QED BY <2>1, <1>4, SameBusy DEF IInv
<1>9. InHandTrue'
  BY <1>2, <1>3, <1>4, <1>5, OthersInHand
<1>10. QED BY <1>6, <1>7, <1>8, <1>9 DEF IInv

\* Every goroutine is gone and no slot is taken.
LEMMA RestartStep ==
    ASSUME IInv, Restart
    PROVE  IInv'
<1>1. /\ slots' = 0 /\ proc' = [p \in Procs |-> Idle] /\ UNCHANGED <<rows, accepted>>
      /\ faults < MaxFaults /\ faults' = faults + 1
  BY DEF Restart, Fault
<1>2. TypeOK'
  BY <1>1, WebhooksAssumption DEF TypeOK, IInv
<1>3. DeliveredIsTrue' /\ InHandTrue'
  BY <1>1 DEF DeliveredIsTrue, InHandTrue, IInv
<1>4. SlotsBalanced'
  <2>1. {w \in Workers : proc'[w] # Idle} = {}
    BY <1>1 DEF Procs
  <2>2. QED BY <2>1, <1>1, FS_EmptySet DEF SlotsBalanced
<1>5. QED BY <1>2, <1>3, <1>4 DEF IInv

\* Every step of the server keeps the invariant.
LEMMA InvStep == IInv /\ [Next]_vars => IInv'
<1> SUFFICES ASSUME IInv, [Next]_vars PROVE IInv'
  OBVIOUS
<1>1. ASSUME NEW h \in Handlers, NEW i \in Deliveries, QueueWebhook(h, i) \/ WebhookTest(h, i)
      PROVE  IInv'
  BY <1>1, CreateStep DEF QueueWebhook, WebhookTest
<1>2. ASSUME NEW h \in Handlers, NEW i \in Deliveries, RetryWebhookDelivery(h, i)
      PROVE  IInv'
  BY <1>2, RetryStep
<1>3. ASSUME NEW p \in Procs, Serve(p)
      PROVE  IInv'
  BY <1>3, StartStep, QueueFullStep, PostStep, RecordStep DEF Serve
<1>4. CASE Restart
  BY <1>4, RestartStep
<1>5. CASE UNCHANGED vars
  BY <1>5 DEF vars, IInv, TypeOK, DeliveredIsTrue, SlotsBalanced, InHandTrue
<1>6. QED BY <1>1, <1>2, <1>3, <1>4, <1>5 DEF Next

\* queueWebhook, deliverWebhook, recordWebhookOutcome and a restart keep the
\* history, the slots and what the goroutines have in hand consistent.
THEOREM WebhooksInvariance == Spec => []IInv
<1>1. QED BY InvInit, InvStep, PTL DEF Spec

\* A row of webhook_deliveries that says delivered is right, for any number of
\* events, goroutines, retries, lost answers, failed statements and restarts.
THEOREM DeliveredTruthfully == Spec => []DeliveredIsTrue
<1>1. IInv => DeliveredIsTrue
  BY DEF IInv
<1>2. QED BY <1>1, WebhooksInvariance, PTL

\* The channel webhookSlots holds one slot for each delivery goroutine that
\* runs and none else, so no failure or restart leaks one.
THEOREM NoSlotLeaks == Spec => []SlotsBalanced
<1>1. IInv => SlotsBalanced
  BY DEF IInv
<1>2. QED BY <1>1, WebhooksInvariance, PTL

\* CompleteWebhookDelivery of a stored row adds to its history.
LEMMA CompleteGrows ==
    ASSUME TypeOK, NEW i \in Deliveries, NEW outcome \in Outcomes, rows[i] # NoRow,
           CompleteWebhookDelivery(i, outcome)
    PROVE  RowsGrow
<1>1. CASE UNCHANGED rows
  BY <1>1 DEF RowsGrow
<1>2. CASE rows' = [rows EXCEPT ![i] = Completed(rows[i], outcome)]
  <2> SUFFICES ASSUME NEW j \in Deliveries, rows'[j] # rows[j]
               PROVE  /\ rows'[j].attempts = rows[j].attempts + 1
                      /\ rows[j].delivered_at => rows'[j].delivered_at
                      /\ rows'[j].status # "pending"
    BY DEF RowsGrow
  <2>1. j = i /\ rows'[i] = Completed(rows[i], outcome)
    BY <1>2 DEF TypeOK
  <2>2. /\ rows'[i].attempts = rows[i].attempts + 1
        /\ rows'[i].delivered_at = (rows[i].delivered_at \/ outcome = "delivered")
        /\ rows'[i].status = outcome
    BY <2>1 DEF Completed
  <2>3. outcome # "pending"
    BY DEF Outcomes
  <2>4. rows[i].delivered_at => rows'[i].delivered_at
    BY <2>2, Zenon
  <2>5. QED BY <2>1, <2>2, <2>3, <2>4
<1>3. QED BY <1>1, <1>2 DEF CompleteWebhookDelivery

\* No step of the server takes anything from the history of a stored row.
LEMMA GrowStep == IInv /\ [Next]_vars => [RowsGrow]_vars
<1> SUFFICES ASSUME IInv, Next PROVE RowsGrow
  OBVIOUS
<1>1. ASSUME NEW h \in Handlers, NEW i \in Deliveries, QueueWebhook(h, i) \/ WebhookTest(h, i)
      PROVE  RowsGrow
  BY <1>1 DEF QueueWebhook, WebhookTest, Create, RowsGrow, IInv, TypeOK
<1>2. ASSUME NEW h \in Handlers, NEW i \in Deliveries, RetryWebhookDelivery(h, i)
      PROVE  RowsGrow
  BY <1>2 DEF RetryWebhookDelivery, RowsGrow
<1>3. ASSUME NEW p \in Procs, QueueFull(p)
      PROVE  RowsGrow
  <2>1. proc[p].id \in Deliveries /\ rows[proc[p].id] # NoRow
    BY <1>3, JobTyped DEF QueueFull, Doing, IInv, InHandTrue
  <2>2. QED BY <2>1, <1>3, CompleteGrows DEF QueueFull, IInv, Outcomes
<1>4. ASSUME NEW p \in Procs, RecordWebhookOutcome(p)
      PROVE  RowsGrow
  <2>1. proc[p].id \in Deliveries /\ proc[p].outcome \in Outcomes /\ rows[proc[p].id] # NoRow
    BY <1>4, JobTyped DEF RecordWebhookOutcome, Doing, IInv, InHandTrue
  <2>2. QED BY <2>1, <1>4, CompleteGrows DEF RecordWebhookOutcome, IInv
<1>5. ASSUME NEW p \in Procs, Serve(p)
      PROVE  RowsGrow
  BY <1>3, <1>4, <1>5 DEF Serve, StartDelivery, Post, RowsGrow
<1>6. CASE Restart
  BY <1>6 DEF Restart, RowsGrow
<1>7. QED BY <1>1, <1>2, <1>5, <1>6 DEF Next

\* A retry that fails, a late answer and a restart take nothing from what
\* webhook_deliveries says of an event: CompleteWebhookDelivery only adds.
THEOREM HistoryKept == Spec => HistoryGrows
<1>1. QED BY WebhooksInvariance, GrowStep, PTL DEF Spec, HistoryGrows

\* Rows, accepted events, slots and jobs keep their types, for any number of
\* deliveries and workers; the slots in use never exceed those of the semaphore.
THEOREM WebhooksTyped == Spec => []TypeOK
<1>1. IInv => TypeOK
  BY DEF IInv
<1>2. QED BY <1>1, WebhooksInvariance, PTL
=============================================================================
