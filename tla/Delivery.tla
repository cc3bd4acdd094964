------------------------------- MODULE Delivery -------------------------------
(***************************************************************************)
(* From a committed event to its notification: the outbox table, the relay *)
(* (apps/outbox_relay), the broker and the notification worker             *)
(* (apps/notification_worker).                                             *)
(*                                                                         *)
(* A relay claims a batch of due rows FOR UPDATE SKIP LOCKED, publishes    *)
(* them one by one and commits what happened to all of them at once; a     *)
(* relay that dies, or whose commit fails, has published rows that still   *)
(* read as unpublished.  The broker keeps what it stored (durable queue,   *)
(* persistent messages), may have stored a message whose publication was   *)
(* reported as failed, and delivers again what was not acknowledged.  A    *)
(* worker inserts the event into its inbox, has its effect, commits, and   *)
(* only then acknowledges.                                                 *)
(***************************************************************************)
EXTENDS Integers, FiniteSets

CONSTANTS
  Events,           \* ids of outbox rows; their order is that of occurred_at
  Relays,
  Workers,
  None,             \* a worker with no message in hand
  BatchSize,        \* outbox_batch_size
  MaxAttempts,      \* outbox_max_attempts
  MaxFaults         \* bound: deaths of relays and workers and failures of
                    \* the handler, together

ASSUME DeliveryAssumption ==
  /\ Events \subseteq Nat /\ None \notin Events
  /\ BatchSize \in Nat \ {0} /\ MaxAttempts \in Nat \ {0} /\ MaxFaults \in Nat

VARIABLES
  outbox,           \* committed state of each row
  attempts,         \* outbox_events.attempt_count, committed
  batch,            \* the rows each relay has claimed, locked until it ends
  sent,             \* of those, the ones it marked published, uncommitted
  missed,           \* of those, the ones it marked failed, uncommitted
  bound,            \* whether the worker's queue has been declared and bound
  queue,            \* per event, the copies waiting in the queue
  dlq,              \* events with a copy in the dead-letter queue
  worker,           \* where each worker stands with the message in its hands
  held,             \* the event of that message
  inbox,            \* consumer_inbox, committed
  notified,         \* per event, how often its notification went out
  faults            \* history: how many of those deaths and failures there were

relayVars == <<batch, sent, missed>>
brokerVars == <<bound, queue, dlq>>
workerVars == <<worker, held, inbox, notified>>
vars == <<outbox, attempts, batch, sent, missed, bound, queue, dlq, worker, held,
          inbox, notified, faults>>

Rows == {"none", "PENDING", "PUBLISHED", "DEAD"}
WorkerStages == {"down", "idle", "got", "claimed", "notified", "done"}

Init ==
  /\ outbox = [e \in Events |-> "none"]
  /\ attempts = [e \in Events |-> 0]
  /\ batch = [r \in Relays |-> {}]
  /\ sent = [r \in Relays |-> {}]
  /\ missed = [r \in Relays |-> {}]
  /\ bound = FALSE
  /\ queue = [e \in Events |-> 0]
  /\ dlq = {}
  /\ worker = [w \in Workers |-> "down"]
  /\ held = [w \in Workers |-> None]
  /\ inbox = {}
  /\ notified = [e \in Events |-> 0]
  /\ faults = 0

\* A command commits, and its event with it.
Record(e) ==
  /\ outbox[e] = "none"
  /\ outbox' = [outbox EXCEPT ![e] = "PENDING"]
  /\ UNCHANGED <<attempts, relayVars, brokerVars, workerVars, faults>>

-----------------------------------------------------------------------------
(* The relay. *)

Locked == UNION {batch[r] : r \in Relays}
Claimable == {e \in Events : outbox[e] = "PENDING"} \ Locked

\* The oldest BatchSize events of a set.
Oldest(S) == {e \in S : Cardinality({f \in S : f < e}) < BatchSize}

\* process_batch's SELECT.  A row that has failed before may be waiting for its
\* next_attempt_at; one that has not is always due.
Claim(r) ==
  /\ batch[r] = {}
  /\ \E due \in SUBSET Claimable :
       /\ due # {}
       /\ {e \in Claimable : attempts[e] = 0} \subseteq due
       /\ batch' = [batch EXCEPT ![r] = Oldest(due)]
  /\ UNCHANGED <<outbox, attempts, sent, missed, brokerVars, workerVars, faults>>

\* The next row of the batch: the rows come in the order of occurred_at.
Current(r, e) ==
  /\ e \in batch[r] \ (sent[r] \cup missed[r])
  /\ \A f \in batch[r] \ (sent[r] \cup missed[r]) : e <= f

\* broker.publish returns: the broker confirmed that it routed and stored the
\* message.
Publish(r, e) ==
  /\ Current(r, e)
  /\ bound
  /\ queue' = [queue EXCEPT ![e] = @ + 1]
  /\ sent' = [sent EXCEPT ![r] = @ \cup {e}]
  /\ UNCHANGED <<outbox, attempts, batch, missed, bound, dlq, workerVars, faults>>

\* broker.publish raises PublishError: no connection, no queue bound yet (the
\* message is mandatory), or a connection lost before the confirmation of a
\* message that was stored all the same.
PublishFails(r, e) ==
  /\ Current(r, e)
  /\ \/ queue' = queue
     \/ bound /\ queue' = [queue EXCEPT ![e] = @ + 1]
  /\ missed' = [missed EXCEPT ![r] = @ \cup {e}]
  /\ UNCHANGED <<outbox, attempts, batch, sent, bound, dlq, workerVars, faults>>

RelayEnds(r) ==
  /\ batch' = [batch EXCEPT ![r] = {}]
  /\ sent' = [sent EXCEPT ![r] = {}]
  /\ missed' = [missed EXCEPT ![r] = {}]

\* Mutant: a failed attempt is not counted.
CommitBatchUncounted(r) ==
  /\ batch[r] # {} /\ sent[r] \cup missed[r] = batch[r]
  /\ attempts' = attempts
  /\ outbox' = [e \in Events |->
                  IF e \in sent[r] THEN "PUBLISHED"
                  ELSE IF e \in missed[r] /\ attempts[e] >= MaxAttempts THEN "DEAD"
                  ELSE outbox[e]]
  /\ RelayEnds(r)
  /\ UNCHANGED <<brokerVars, workerVars, faults>>

\* Mutant: the row is given up one attempt late.
CommitBatchLateDead(r) ==
  /\ batch[r] # {} /\ sent[r] \cup missed[r] = batch[r]
  /\ attempts' = [e \in Events |-> attempts[e] + IF e \in missed[r] THEN 1 ELSE 0]
  /\ outbox' = [e \in Events |->
                  IF e \in sent[r] THEN "PUBLISHED"
                  ELSE IF e \in missed[r] /\ attempts[e] >= MaxAttempts THEN "DEAD"
                  ELSE outbox[e]]
  /\ RelayEnds(r)
  /\ UNCHANGED <<brokerVars, workerVars, faults>>

\* The batch is through: the marks of all its rows are committed.
CommitBatch(r) ==
  /\ batch[r] # {} /\ sent[r] \cup missed[r] = batch[r]
  /\ attempts' = [e \in Events |-> attempts[e] + IF e \in missed[r] THEN 1 ELSE 0]
  /\ outbox' = [e \in Events |->
                  IF e \in sent[r] THEN "PUBLISHED"
                  ELSE IF e \in missed[r] /\ attempts[e] + 1 >= MaxAttempts THEN "DEAD"
                  ELSE outbox[e]]
  /\ RelayEnds(r)
  /\ UNCHANGED <<brokerVars, workerVars, faults>>

\* The relay dies, or the database fails it: the marks are rolled back and the
\* rows become claimable; what was published stays published.
RelayDies(r) ==
  /\ batch[r] # {}
  /\ faults < MaxFaults
  /\ faults' = faults + 1
  /\ RelayEnds(r)
  /\ UNCHANGED <<outbox, attempts, brokerVars, workerVars>>

-----------------------------------------------------------------------------
(* The notification worker.  Prefetched messages it has not begun on are   *)
(* counted as waiting.                                                     *)

Moves(w, from, to) ==
  /\ worker[w] = from
  /\ worker' = [worker EXCEPT ![w] = to]

\* main declares and binds the queue before it consumes.
Start(w) ==
  /\ Moves(w, "down", "idle")
  /\ bound' = TRUE
  /\ UNCHANGED <<outbox, attempts, relayVars, queue, dlq, held, inbox, notified,
                 faults>>

Receive(w, e) ==
  /\ Moves(w, "idle", "got")
  /\ queue[e] > 0
  /\ queue' = [queue EXCEPT ![e] = @ - 1]
  /\ held' = [held EXCEPT ![w] = e]
  /\ UNCHANGED <<outbox, attempts, relayVars, bound, dlq, inbox, notified, faults>>

\* An open transaction has inserted the event: a second INSERT waits for it.
Inserting(e) ==
  \E w \in Workers : held[w] = e /\ worker[w] \in {"claimed", "notified"}

\* Mutant: the INSERT does nothing on a conflict and the claim succeeds.
ClaimEventAnyway(w) ==
  /\ Moves(w, "got", "claimed")
  /\ ~Inserting(held[w])
  /\ UNCHANGED <<outbox, attempts, relayVars, brokerVars, held, inbox, notified,
                 faults>>

\* _claim_event inserts the row.
ClaimEvent(w) ==
  /\ Moves(w, "got", "claimed")
  /\ ~Inserting(held[w])
  /\ held[w] \notin inbox
  /\ UNCHANGED <<outbox, attempts, relayVars, brokerVars, held, inbox, notified,
                 faults>>

\* _claim_event meets the row of an earlier delivery: the duplicate is ignored.
Duplicate(w) ==
  /\ Moves(w, "got", "done")
  /\ held[w] \in inbox
  /\ UNCHANGED <<outbox, attempts, relayVars, brokerVars, held, inbox, notified,
                 faults>>

\* The effect, inside the transaction.
Notify(w) ==
  /\ Moves(w, "claimed", "notified")
  /\ notified' = [notified EXCEPT ![held[w]] = @ + 1]
  /\ UNCHANGED <<outbox, attempts, relayVars, brokerVars, held, inbox, faults>>

CommitInbox(w) ==
  /\ Moves(w, "notified", "done")
  /\ inbox' = inbox \cup {held[w]}
  /\ UNCHANGED <<outbox, attempts, relayVars, brokerVars, held, notified, faults>>

Ack(w) ==
  /\ Moves(w, "done", "idle")
  /\ held' = [held EXCEPT ![w] = None]
  /\ UNCHANGED <<outbox, attempts, relayVars, brokerVars, inbox, notified, faults>>

\* handle_message raises: rejected without requeue, into the dead-letter queue.
HandlerFails(w) ==
  /\ worker[w] \in {"got", "claimed", "notified"}
  /\ faults < MaxFaults
  /\ faults' = faults + 1
  /\ worker' = [worker EXCEPT ![w] = "idle"]
  /\ dlq' = dlq \cup {held[w]}
  /\ held' = [held EXCEPT ![w] = None]
  /\ UNCHANGED <<outbox, attempts, relayVars, bound, queue, inbox, notified>>

\* Mutant: messages are acknowledged on delivery.
WorkerDiesAcked(w) ==
  /\ worker[w] \notin {"down", "idle"}
  /\ faults < MaxFaults
  /\ faults' = faults + 1
  /\ worker' = [worker EXCEPT ![w] = "down"]
  /\ queue' = queue
  /\ held' = [held EXCEPT ![w] = None]
  /\ UNCHANGED <<outbox, attempts, relayVars, bound, dlq, inbox, notified>>

\* The worker dies or loses the broker: its transaction is rolled back, and the
\* message it had not acknowledged goes back to the queue.
WorkerDies(w) ==
  /\ worker[w] \notin {"down", "idle"}
  /\ faults < MaxFaults
  /\ faults' = faults + 1
  /\ worker' = [worker EXCEPT ![w] = "down"]
  /\ queue' = [queue EXCEPT ![held[w]] = @ + 1]
  /\ held' = [held EXCEPT ![w] = None]
  /\ UNCHANGED <<outbox, attempts, relayVars, bound, dlq, inbox, notified>>

-----------------------------------------------------------------------------
RelayStep(r) ==
  Claim(r) \/ CommitBatch(r) \/ \E e \in Events : Publish(r, e) \/ PublishFails(r, e)

WorkerStep(w) ==
  \/ Start(w) \/ ClaimEvent(w) \/ Duplicate(w) \/ Notify(w) \/ CommitInbox(w)
  \/ Ack(w)
  \/ \E e \in Events : Receive(w, e)

Next ==
  \/ \E e \in Events : Record(e)
  \/ \E r \in Relays : RelayStep(r) \/ RelayDies(r)
  \/ \E w \in Workers : WorkerStep(w) \/ HandlerFails(w) \/ WorkerDies(w)

Spec == Init /\ [][Next]_vars

\* The relay and the worker poll for as long as they run, and are restarted when
\* they die (restart: unless-stopped).
FairSpec ==
  /\ Spec
  /\ \A r \in Relays : WF_vars(RelayStep(r))
  /\ \A w \in Workers : WF_vars(WorkerStep(w))

-----------------------------------------------------------------------------
DeliveryTypeOK ==
  /\ outbox \in [Events -> Rows]
  /\ attempts \in [Events -> 0 .. MaxAttempts]
  /\ batch \in [Relays -> SUBSET Events]
  /\ sent \in [Relays -> SUBSET Events]
  /\ missed \in [Relays -> SUBSET Events]
  /\ bound \in BOOLEAN
  /\ queue \in [Events -> Nat]
  /\ dlq \subseteq Events
  /\ worker \in [Workers -> WorkerStages]
  /\ held \in [Workers -> Events \cup {None}]
  /\ inbox \subseteq Events
  /\ notified \in [Events -> Nat]
  /\ faults \in 0 .. MaxFaults

\* An event whose row says PUBLISHED is never lost: a copy waits in the queue or
\* the dead-letter queue, a worker has it in hand, or its notification has been
\* recorded, whichever of the relays and workers died in between.  An event is
\* given up only after outbox_max_attempts failures.
PublishedNeverLost ==
  \A e \in Events :
    /\ outbox[e] = "PUBLISHED" =>
         \/ queue[e] > 0
         \/ e \in dlq \cup inbox
         \/ \E w \in Workers : held[w] = e
    /\ outbox[e] = "DEAD" => attempts[e] = MaxAttempts

\* Deduplication: once the inbox row of an event is committed its notification
\* has gone out and never goes out again, however many copies the relay and the
\* broker made of the event and whichever worker receives them.  No crash leaves
\* "the event marked processed but the notification unsent" (_claim_event).
ProcessedMeansNotified ==
  [][\A e \in Events :
       e \in inbox => notified[e] > 0 /\ notified'[e] = notified[e]]_vars

\* What the head of the notification worker says of its inbox: "the effect
\* happens exactly once even though delivery did not".  The notification goes
\* out before the commit of the row, so a worker that dies between the two has
\* it repeated with the next delivery.
EffectExactlyOnce ==
  \A e \in Events : notified[e] <= 1

\* Every recorded event reaches an end: its notification is recorded, or it is
\* in the dead-letter queue or marked dead in the outbox for an operator.
EventsHandled ==
  \A e \in Events :
    (outbox[e] = "PENDING") ~> (e \in inbox \cup dlq \/ outbox[e] = "DEAD")
=============================================================================
