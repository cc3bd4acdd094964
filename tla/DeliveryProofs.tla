---------------------------- MODULE DeliveryProofs ----------------------------
(***************************************************************************)
(* Events are neither lost nor, once recorded, notified again, for any     *)
(* number of events, relays, workers, attempts and faults.                 *)
(***************************************************************************)
EXTENDS Delivery, TLAPS

\* The event is somewhere a worker or an operator will find it, or is done.
Kept(e) ==
  \/ queue[e] > 0
  \/ e \in dlq \cup inbox
  \/ \E w \in Workers : held[w] = e

\* A relay works on rows that are pending and that no other relay has.
BatchesApart ==
  /\ \A r \in Relays :
       /\ sent[r] \cup missed[r] \subseteq batch[r]
       /\ sent[r] \cap missed[r] = {}
       /\ \A e \in batch[r] : outbox[e] = "PENDING"
  /\ \A r, s \in Relays : r # s => batch[r] \cap batch[s] = {}

\* A row is given up with its last attempt and not before.
AttemptsLeft ==
  \A e \in Events :
    /\ outbox[e] \in {"none", "PENDING"} => attempts[e] < MaxAttempts
    /\ outbox[e] = "DEAD" => attempts[e] = MaxAttempts

\* What a worker has in hand fits where it stands, and the inbox lets one worker
\* at a time insert an event, and only while it is new.
HandsFit ==
  /\ \A w \in Workers :
       /\ worker[w] \in {"down", "idle"} <=> held[w] = None
       /\ worker[w] \in {"claimed", "notified"} => held[w] \notin inbox
       /\ worker[w] = "done" => held[w] \in inbox
  /\ \A v, w \in Workers :
       /\ worker[v] \in {"claimed", "notified"} /\ worker[w] \in {"claimed", "notified"}
       /\ held[v] = held[w]
       => v = w

\* What the broker confirmed is kept before the relay's marks are committed.
SentKept ==
  /\ \A r \in Relays : \A e \in sent[r] : Kept(e)
  /\ \A e \in Events : outbox[e] = "PUBLISHED" => Kept(e)

DeliveryInv ==
  DeliveryTypeOK /\ BatchesApart /\ AttemptsLeft /\ HandsFit /\ SentKept

\* A claim takes pending rows that no relay has locked.
LEMMA ClaimTakes ==
  ASSUME NEW r \in Relays, Claim(r)
  PROVE  \E S \in SUBSET Claimable : batch' = [batch EXCEPT ![r] = S]
<1>1. PICK due \in SUBSET Claimable : batch' = [batch EXCEPT ![r] = Oldest(due)]
  BY Zenon DEF Claim
<1>2. Oldest(due) \in SUBSET Claimable
  BY Zenon DEF Oldest
<1>. QED  BY Zenon, <1>1, <1>2

\* A worker that is neither down nor idle has an event in hand.
LEMMA InHand ==
  ASSUME DeliveryTypeOK, HandsFit, NEW w \in Workers, worker[w] \notin {"down", "idle"}
  PROVE  held[w] \in Events
BY Zenon DEF DeliveryTypeOK, HandsFit

\* Every step leaves well-formed state behind.
LEMMA TypeKept ==
  ASSUME DeliveryTypeOK, BatchesApart, AttemptsLeft, HandsFit, [Next]_vars
  PROVE  DeliveryTypeOK'
<1> USE DEF relayVars, brokerVars, workerVars
<1>1. ASSUME NEW e \in Events, Record(e) PROVE DeliveryTypeOK'
  BY Zenon, <1>1, DeliveryAssumption DEF Record, DeliveryTypeOK, Rows, WorkerStages
<1>2. ASSUME NEW r \in Relays, Claim(r) PROVE DeliveryTypeOK'
  <2>1. PICK S \in SUBSET Claimable : batch' = [batch EXCEPT ![r] = S]
    BY Zenon, <1>2, ClaimTakes
  <2>2. S \in SUBSET Events
    BY Zenon DEF Claimable
  <2>. QED  BY Zenon, <1>2, <2>1, <2>2 DEF Claim, DeliveryTypeOK
<1>3. ASSUME NEW r \in Relays, NEW e \in Events, Publish(r, e) PROVE DeliveryTypeOK'
  BY <1>3, DeliveryAssumption DEF Publish, Current, DeliveryTypeOK, Rows, WorkerStages
<1>4. ASSUME NEW r \in Relays, NEW e \in Events, PublishFails(r, e) PROVE DeliveryTypeOK'
  BY <1>4, DeliveryAssumption
     DEF PublishFails, Current, DeliveryTypeOK, Rows, WorkerStages
<1>5. ASSUME NEW r \in Relays, CommitBatch(r) PROVE DeliveryTypeOK'
  <2>1. \A e \in missed[r] : attempts[e] < MaxAttempts
    BY Zenon DEF BatchesApart, AttemptsLeft, DeliveryTypeOK
  <2>2. attempts' \in [Events -> 0 .. MaxAttempts]
    BY <1>5, <2>1, DeliveryAssumption DEF CommitBatch, DeliveryTypeOK
  <2>3. outbox' \in [Events -> Rows]
    BY Zenon, <1>5 DEF CommitBatch, DeliveryTypeOK, Rows
  <2>4. /\ batch' \in [Relays -> SUBSET Events] /\ sent' \in [Relays -> SUBSET Events]
        /\ missed' \in [Relays -> SUBSET Events]
    BY Zenon, <1>5 DEF CommitBatch, RelayEnds, DeliveryTypeOK
  <2>. QED  BY Zenon, <1>5, <2>2, <2>3, <2>4 DEF CommitBatch, DeliveryTypeOK
<1>6. ASSUME NEW r \in Relays, RelayDies(r) PROVE DeliveryTypeOK'
  BY <1>6, DeliveryAssumption
     DEF RelayDies, RelayEnds, DeliveryTypeOK, Rows, WorkerStages
<1>7. ASSUME NEW w \in Workers, Start(w) PROVE DeliveryTypeOK'
  BY Zenon, <1>7, DeliveryAssumption DEF Start, Moves, DeliveryTypeOK, Rows, WorkerStages
<1>8. ASSUME NEW w \in Workers, NEW e \in Events, Receive(w, e) PROVE DeliveryTypeOK'
  BY <1>8, DeliveryAssumption DEF Receive, Moves, DeliveryTypeOK, Rows, WorkerStages
<1>9. ASSUME NEW w \in Workers, ClaimEvent(w) PROVE DeliveryTypeOK'
  BY Zenon, <1>9, DeliveryAssumption DEF ClaimEvent, Moves, DeliveryTypeOK, Rows, WorkerStages
<1>10. ASSUME NEW w \in Workers, Duplicate(w) PROVE DeliveryTypeOK'
  BY Zenon, <1>10, DeliveryAssumption DEF Duplicate, Moves, DeliveryTypeOK, Rows, WorkerStages
<1>11. ASSUME NEW w \in Workers, Notify(w) PROVE DeliveryTypeOK'
  <2>1. held[w] \in Events
    BY Zenon, <1>11, InHand DEF Notify, Moves
  <2>. QED  BY <1>11, <2>1 DEF Notify, Moves, DeliveryTypeOK, WorkerStages
<1>12. ASSUME NEW w \in Workers, CommitInbox(w) PROVE DeliveryTypeOK'
  <2>1. held[w] \in Events
    BY Zenon, <1>12, InHand DEF CommitInbox, Moves
  <2>. QED  BY Zenon, <1>12, <2>1 DEF CommitInbox, Moves, DeliveryTypeOK, WorkerStages
<1>13. ASSUME NEW w \in Workers, Ack(w) PROVE DeliveryTypeOK'
  BY Zenon, <1>13, DeliveryAssumption DEF Ack, Moves, DeliveryTypeOK, Rows, WorkerStages
<1>14. ASSUME NEW w \in Workers, HandlerFails(w) PROVE DeliveryTypeOK'
  <2>1. held[w] \in Events
    BY Zenon, <1>14, InHand DEF HandlerFails
  <2>2. faults' \in 0 .. MaxFaults
    BY <1>14, DeliveryAssumption DEF HandlerFails, DeliveryTypeOK
  <2>3. worker' \in [Workers -> WorkerStages] /\ held' \in [Workers -> Events \cup {None}]
    BY Zenon, <1>14 DEF HandlerFails, DeliveryTypeOK, WorkerStages
  <2>4. queue' \in [Events -> Nat] /\ dlq' \subseteq Events
    BY Zenon, <1>14, <2>1 DEF HandlerFails, DeliveryTypeOK
  <2>. QED  BY Zenon, <1>14, <2>2, <2>3, <2>4 DEF HandlerFails, DeliveryTypeOK
<1>15. ASSUME NEW w \in Workers, WorkerDies(w) PROVE DeliveryTypeOK'
  <2>1. held[w] \in Events
    BY Zenon, <1>15, InHand DEF WorkerDies
  <2>2. faults' \in 0 .. MaxFaults
    BY <1>15, DeliveryAssumption DEF WorkerDies, DeliveryTypeOK
  <2>3. worker' \in [Workers -> WorkerStages] /\ held' \in [Workers -> Events \cup {None}]
    BY Zenon, <1>15 DEF WorkerDies, DeliveryTypeOK, WorkerStages
  <2>4. queue' \in [Events -> Nat] /\ dlq' \subseteq Events
    BY <1>15, <2>1 DEF WorkerDies, DeliveryTypeOK
  <2>. QED  BY Zenon, <1>15, <2>2, <2>3, <2>4 DEF WorkerDies, DeliveryTypeOK
<1>16. CASE UNCHANGED vars
  BY Zenon, <1>16 DEF vars, DeliveryTypeOK, Rows, WorkerStages
<1>. QED
  BY Zenon, <1>1, <1>2, <1>3, <1>4, <1>5, <1>6, <1>7, <1>8,
     <1>9, <1>10, <1>11, <1>12, <1>13, <1>14, <1>15, <1>16, Zenon
        DEF Next, RelayStep, WorkerStep

\* Rows that are locked stay pending until the relay that has them ends.
LEMMA BatchesKept ==
  ASSUME DeliveryTypeOK, BatchesApart, [Next]_vars
  PROVE  BatchesApart'
<1> USE DEF relayVars, brokerVars, workerVars
<1>1. ASSUME NEW e \in Events, Record(e) PROVE BatchesApart'
  BY Zenon, <1>1 DEF Record, DeliveryTypeOK, BatchesApart
<1>2. ASSUME NEW r \in Relays, Claim(r) PROVE BatchesApart'
  <2>1. PICK S \in SUBSET Claimable : batch' = [batch EXCEPT ![r] = S]
    BY Zenon, <1>2, ClaimTakes
  <2>2. \A e \in S : e \in Events /\ outbox[e] = "PENDING" /\ \A s \in Relays : e \notin batch[s]
    BY DEF Claimable, Locked
  <2>3. sent[r] = {} /\ missed[r] = {}
    BY Zenon, <1>2 DEF Claim, BatchesApart
  <2>. QED  BY <1>2, <2>1, <2>2, <2>3 DEF Claim, BatchesApart, DeliveryTypeOK
<1>3. ASSUME NEW r \in Relays, NEW e \in Events, Publish(r, e) PROVE BatchesApart'
  BY <1>3 DEF Publish, Current, DeliveryTypeOK, BatchesApart
<1>4. ASSUME NEW r \in Relays, NEW e \in Events, PublishFails(r, e) PROVE BatchesApart'
  BY <1>4 DEF PublishFails, Current, DeliveryTypeOK, BatchesApart
<1>5. ASSUME NEW r \in Relays, CommitBatch(r) PROVE BatchesApart'
  BY <1>5 DEF CommitBatch, RelayEnds, DeliveryTypeOK, BatchesApart
<1>6. ASSUME NEW r \in Relays, RelayDies(r) PROVE BatchesApart'
  BY <1>6 DEF RelayDies, RelayEnds, DeliveryTypeOK, BatchesApart
<1>7. ASSUME NEW w \in Workers, Start(w) PROVE BatchesApart'
  BY Zenon, <1>7 DEF Start, Moves, DeliveryTypeOK, BatchesApart
<1>8. ASSUME NEW w \in Workers, NEW e \in Events, Receive(w, e) PROVE BatchesApart'
  BY Zenon, <1>8 DEF Receive, Moves, DeliveryTypeOK, BatchesApart
<1>9. ASSUME NEW w \in Workers, ClaimEvent(w) PROVE BatchesApart'
  BY Zenon, <1>9 DEF ClaimEvent, Moves, DeliveryTypeOK, BatchesApart
<1>10. ASSUME NEW w \in Workers, Duplicate(w) PROVE BatchesApart'
  BY Zenon, <1>10 DEF Duplicate, Moves, DeliveryTypeOK, BatchesApart
<1>11. ASSUME NEW w \in Workers, Notify(w) PROVE BatchesApart'
  BY Zenon, <1>11 DEF Notify, Moves, DeliveryTypeOK, BatchesApart
<1>12. ASSUME NEW w \in Workers, CommitInbox(w) PROVE BatchesApart'
  BY Zenon, <1>12 DEF CommitInbox, Moves, DeliveryTypeOK, BatchesApart
<1>13. ASSUME NEW w \in Workers, Ack(w) PROVE BatchesApart'
  BY Zenon, <1>13 DEF Ack, Moves, DeliveryTypeOK, BatchesApart
<1>14. ASSUME NEW w \in Workers, HandlerFails(w) PROVE BatchesApart'
  BY Zenon, <1>14 DEF HandlerFails, DeliveryTypeOK, BatchesApart
<1>15. ASSUME NEW w \in Workers, WorkerDies(w) PROVE BatchesApart'
  BY Zenon, <1>15 DEF WorkerDies, DeliveryTypeOK, BatchesApart
<1>16. CASE UNCHANGED vars
  BY Zenon, <1>16 DEF vars, DeliveryTypeOK, BatchesApart
<1>. QED
  BY Zenon, <1>1, <1>2, <1>3, <1>4, <1>5, <1>6, <1>7, <1>8,
     <1>9, <1>10, <1>11, <1>12, <1>13, <1>14, <1>15, <1>16, Zenon
        DEF Next, RelayStep, WorkerStep

\* Only a commit of a batch counts attempts, and it gives up a row with the last.
LEMMA AttemptsKept ==
  ASSUME DeliveryTypeOK, BatchesApart, AttemptsLeft, [Next]_vars
  PROVE  AttemptsLeft'
<1> USE DEF relayVars, brokerVars, workerVars
<1>1. ASSUME NEW e \in Events, Record(e) PROVE AttemptsLeft'
  BY <1>1, DeliveryAssumption DEF Record, DeliveryTypeOK, BatchesApart, AttemptsLeft
<1>2. ASSUME NEW r \in Relays, Claim(r) PROVE AttemptsLeft'
  BY Zenon, <1>2, DeliveryAssumption DEF Claim, DeliveryTypeOK, BatchesApart, AttemptsLeft
<1>3. ASSUME NEW r \in Relays, NEW e \in Events, Publish(r, e) PROVE AttemptsLeft'
  BY Zenon, <1>3, DeliveryAssumption
     DEF Publish, Current, DeliveryTypeOK, BatchesApart, AttemptsLeft
<1>4. ASSUME NEW r \in Relays, NEW e \in Events, PublishFails(r, e) PROVE AttemptsLeft'
  BY Zenon, <1>4, DeliveryAssumption
     DEF PublishFails, Current, DeliveryTypeOK, BatchesApart, AttemptsLeft
<1>5. ASSUME NEW r \in Relays, CommitBatch(r) PROVE AttemptsLeft'
  BY <1>5, DeliveryAssumption
     DEF CommitBatch, RelayEnds, DeliveryTypeOK, BatchesApart, AttemptsLeft
<1>6. ASSUME NEW r \in Relays, RelayDies(r) PROVE AttemptsLeft'
  BY Zenon, <1>6, DeliveryAssumption
     DEF RelayDies, RelayEnds, DeliveryTypeOK, BatchesApart, AttemptsLeft
<1>7. ASSUME NEW w \in Workers, Start(w) PROVE AttemptsLeft'
  BY Zenon, <1>7, DeliveryAssumption
     DEF Start, Moves, DeliveryTypeOK, BatchesApart, AttemptsLeft
<1>8. ASSUME NEW w \in Workers, NEW e \in Events, Receive(w, e) PROVE AttemptsLeft'
  BY Zenon, <1>8, DeliveryAssumption
     DEF Receive, Moves, DeliveryTypeOK, BatchesApart, AttemptsLeft
<1>9. ASSUME NEW w \in Workers, ClaimEvent(w) PROVE AttemptsLeft'
  BY Zenon, <1>9, DeliveryAssumption
     DEF ClaimEvent, Moves, DeliveryTypeOK, BatchesApart, AttemptsLeft
<1>10. ASSUME NEW w \in Workers, Duplicate(w) PROVE AttemptsLeft'
  BY Zenon, <1>10, DeliveryAssumption
     DEF Duplicate, Moves, DeliveryTypeOK, BatchesApart, AttemptsLeft
<1>11. ASSUME NEW w \in Workers, Notify(w) PROVE AttemptsLeft'
  BY Zenon, <1>11, DeliveryAssumption
     DEF Notify, Moves, DeliveryTypeOK, BatchesApart, AttemptsLeft
<1>12. ASSUME NEW w \in Workers, CommitInbox(w) PROVE AttemptsLeft'
  BY Zenon, <1>12, DeliveryAssumption
     DEF CommitInbox, Moves, DeliveryTypeOK, BatchesApart, AttemptsLeft
<1>13. ASSUME NEW w \in Workers, Ack(w) PROVE AttemptsLeft'
  BY Zenon, <1>13, DeliveryAssumption
     DEF Ack, Moves, DeliveryTypeOK, BatchesApart, AttemptsLeft
<1>14. ASSUME NEW w \in Workers, HandlerFails(w) PROVE AttemptsLeft'
  BY Zenon, <1>14, DeliveryAssumption
     DEF HandlerFails, DeliveryTypeOK, BatchesApart, AttemptsLeft
<1>15. ASSUME NEW w \in Workers, WorkerDies(w) PROVE AttemptsLeft'
  BY Zenon, <1>15, DeliveryAssumption
     DEF WorkerDies, DeliveryTypeOK, BatchesApart, AttemptsLeft
<1>16. CASE UNCHANGED vars
  BY Zenon, <1>16 DEF vars, DeliveryTypeOK, BatchesApart, AttemptsLeft
<1>. QED
  BY Zenon, <1>1, <1>2, <1>3, <1>4, <1>5, <1>6, <1>7, <1>8,
     <1>9, <1>10, <1>11, <1>12, <1>13, <1>14, <1>15, <1>16, Zenon
        DEF Next, RelayStep, WorkerStep

\* The inbox serves one insertion of an event at a time.
LEMMA HandsKept ==
  ASSUME DeliveryTypeOK, HandsFit, [Next]_vars
  PROVE  HandsFit'
<1> USE DEF relayVars, brokerVars, workerVars
<1>1. ASSUME NEW e \in Events, Record(e) PROVE HandsFit'
  BY Zenon, <1>1, DeliveryAssumption
     DEF Record, DeliveryTypeOK, HandsFit, WorkerStages, Inserting
<1>2. ASSUME NEW r \in Relays, Claim(r) PROVE HandsFit'
  BY Zenon, <1>2, DeliveryAssumption
     DEF Claim, DeliveryTypeOK, HandsFit, WorkerStages, Inserting
<1>3. ASSUME NEW r \in Relays, NEW e \in Events, Publish(r, e) PROVE HandsFit'
  BY Zenon, <1>3, DeliveryAssumption
     DEF Publish, Current, DeliveryTypeOK, HandsFit, WorkerStages, Inserting
<1>4. ASSUME NEW r \in Relays, NEW e \in Events, PublishFails(r, e) PROVE HandsFit'
  BY Zenon, <1>4, DeliveryAssumption
     DEF PublishFails, Current, DeliveryTypeOK, HandsFit, WorkerStages, Inserting
<1>5. ASSUME NEW r \in Relays, CommitBatch(r) PROVE HandsFit'
  BY Zenon, <1>5, DeliveryAssumption
     DEF CommitBatch, RelayEnds, DeliveryTypeOK, HandsFit, WorkerStages, Inserting
<1>6. ASSUME NEW r \in Relays, RelayDies(r) PROVE HandsFit'
  BY Zenon, <1>6, DeliveryAssumption
     DEF RelayDies, RelayEnds, DeliveryTypeOK, HandsFit, WorkerStages, Inserting
<1>7. ASSUME NEW w \in Workers, Start(w) PROVE HandsFit'
  BY Zenon, <1>7, DeliveryAssumption
     DEF Start, Moves, DeliveryTypeOK, HandsFit, WorkerStages, Inserting
<1>8. ASSUME NEW w \in Workers, NEW e \in Events, Receive(w, e) PROVE HandsFit'
  BY Zenon, <1>8, DeliveryAssumption
     DEF Receive, Moves, DeliveryTypeOK, HandsFit, WorkerStages, Inserting
<1>9. ASSUME NEW w \in Workers, ClaimEvent(w) PROVE HandsFit'
  BY Zenon, <1>9, DeliveryAssumption
     DEF ClaimEvent, Moves, DeliveryTypeOK, HandsFit, WorkerStages, Inserting
<1>10. ASSUME NEW w \in Workers, Duplicate(w) PROVE HandsFit'
  BY Zenon, <1>10, DeliveryAssumption
     DEF Duplicate, Moves, DeliveryTypeOK, HandsFit, WorkerStages, Inserting
<1>11. ASSUME NEW w \in Workers, Notify(w) PROVE HandsFit'
  BY Zenon, <1>11, DeliveryAssumption
     DEF Notify, Moves, DeliveryTypeOK, HandsFit, WorkerStages, Inserting
<1>12. ASSUME NEW w \in Workers, CommitInbox(w) PROVE HandsFit'
  BY Zenon, <1>12, DeliveryAssumption
     DEF CommitInbox, Moves, DeliveryTypeOK, HandsFit, WorkerStages, Inserting
<1>13. ASSUME NEW w \in Workers, Ack(w) PROVE HandsFit'
  BY Zenon, <1>13, DeliveryAssumption
     DEF Ack, Moves, DeliveryTypeOK, HandsFit, WorkerStages, Inserting
<1>14. ASSUME NEW w \in Workers, HandlerFails(w) PROVE HandsFit'
  BY Zenon, <1>14, DeliveryAssumption
     DEF HandlerFails, DeliveryTypeOK, HandsFit, WorkerStages, Inserting
<1>15. ASSUME NEW w \in Workers, WorkerDies(w) PROVE HandsFit'
  BY Zenon, <1>15, DeliveryAssumption
     DEF WorkerDies, DeliveryTypeOK, HandsFit, WorkerStages, Inserting
<1>16. CASE UNCHANGED vars
  BY Zenon, <1>16 DEF vars, DeliveryTypeOK, HandsFit, WorkerStages, Inserting
<1>. QED
  BY <1>1, <1>2, <1>3, <1>4, <1>5, <1>6, <1>7, <1>8,
     <1>9, <1>10, <1>11, <1>12, <1>13, <1>14, <1>15, <1>16, Zenon
        DEF Next, RelayStep, WorkerStep

\* Whatever is confirmed stays with the broker, a worker or the inbox.
LEMMA SentStaysKept ==
  ASSUME DeliveryTypeOK, BatchesApart, HandsFit, SentKept, [Next]_vars
  PROVE  SentKept'
<1> USE DEF relayVars, brokerVars, workerVars
<1>1. ASSUME NEW e \in Events, Record(e) PROVE SentKept'
  BY <1>1, DeliveryAssumption
     DEF Record, DeliveryTypeOK, BatchesApart, HandsFit, SentKept, Kept
<1>2. ASSUME NEW r \in Relays, Claim(r) PROVE SentKept'
  BY Zenon, <1>2, DeliveryAssumption
     DEF Claim, DeliveryTypeOK, BatchesApart, HandsFit, SentKept, Kept
<1>3. ASSUME NEW r \in Relays, NEW e \in Events, Publish(r, e) PROVE SentKept'
  BY <1>3, DeliveryAssumption
     DEF Publish, Current, DeliveryTypeOK, BatchesApart, HandsFit, SentKept, Kept
<1>4. ASSUME NEW r \in Relays, NEW e \in Events, PublishFails(r, e) PROVE SentKept'
  BY <1>4, DeliveryAssumption
     DEF PublishFails, Current, DeliveryTypeOK, BatchesApart, HandsFit, SentKept,
         Kept
<1>5. ASSUME NEW r \in Relays, CommitBatch(r) PROVE SentKept'
  BY <1>5, DeliveryAssumption
     DEF CommitBatch, RelayEnds, DeliveryTypeOK, BatchesApart, HandsFit, SentKept,
         Kept
<1>6. ASSUME NEW r \in Relays, RelayDies(r) PROVE SentKept'
  BY <1>6, DeliveryAssumption
     DEF RelayDies, RelayEnds, DeliveryTypeOK, BatchesApart, HandsFit, SentKept,
         Kept
<1>7. ASSUME NEW w \in Workers, Start(w) PROVE SentKept'
  BY Zenon, <1>7, DeliveryAssumption
     DEF Start, Moves, DeliveryTypeOK, BatchesApart, HandsFit, SentKept, Kept
<1>8. ASSUME NEW w \in Workers, NEW e \in Events, Receive(w, e) PROVE SentKept'
  BY <1>8, DeliveryAssumption
     DEF Receive, Moves, DeliveryTypeOK, BatchesApart, HandsFit, SentKept, Kept
<1>9. ASSUME NEW w \in Workers, ClaimEvent(w) PROVE SentKept'
  BY Zenon, <1>9, DeliveryAssumption
     DEF ClaimEvent, Moves, DeliveryTypeOK, BatchesApart, HandsFit, SentKept, Kept
<1>10. ASSUME NEW w \in Workers, Duplicate(w) PROVE SentKept'
  BY Zenon, <1>10, DeliveryAssumption
     DEF Duplicate, Moves, DeliveryTypeOK, BatchesApart, HandsFit, SentKept, Kept
<1>11. ASSUME NEW w \in Workers, Notify(w) PROVE SentKept'
  BY Zenon, <1>11, DeliveryAssumption
     DEF Notify, Moves, DeliveryTypeOK, BatchesApart, HandsFit, SentKept, Kept
<1>12. ASSUME NEW w \in Workers, CommitInbox(w) PROVE SentKept'
  BY Zenon, <1>12, DeliveryAssumption
     DEF CommitInbox, Moves, DeliveryTypeOK, BatchesApart, HandsFit, SentKept, Kept
<1>13. ASSUME NEW w \in Workers, Ack(w) PROVE SentKept'
  BY <1>13, DeliveryAssumption
     DEF Ack, Moves, DeliveryTypeOK, BatchesApart, HandsFit, SentKept, Kept
<1>14. ASSUME NEW w \in Workers, HandlerFails(w) PROVE SentKept'
  BY Zenon, <1>14, DeliveryAssumption
     DEF HandlerFails, DeliveryTypeOK, BatchesApart, HandsFit, SentKept,
         Kept
<1>15. ASSUME NEW w \in Workers, WorkerDies(w) PROVE SentKept'
  BY <1>15, DeliveryAssumption
     DEF WorkerDies, DeliveryTypeOK, BatchesApart, HandsFit, SentKept, Kept
<1>16. CASE UNCHANGED vars
  BY Zenon, <1>16 DEF vars, DeliveryTypeOK, BatchesApart, HandsFit, SentKept, Kept
<1>. QED
  BY Zenon, <1>1, <1>2, <1>3, <1>4, <1>5, <1>6, <1>7, <1>8,
     <1>9, <1>10, <1>11, <1>12, <1>13, <1>14, <1>15, <1>16, Zenon
        DEF Next, RelayStep, WorkerStep

\* The notification of an event goes out before its row is committed.
EffectsFirst ==
  /\ \A e \in inbox : notified[e] > 0
  /\ \A w \in Workers : worker[w] = "notified" => notified[held[w]] > 0

\* Only a worker that notifies changes the count of notifications, and no row of
\* its event is committed then.
LEMMA NotifyAddsOne ==
  ASSUME DeliveryTypeOK, HandsFit, NEW w \in Workers, Notify(w)
  PROVE  /\ held[w] \in Events \ inbox
         /\ notified'[held[w]] > 0
         /\ \A e \in Events : e # held[w] => notified'[e] = notified[e]
<1>1. held[w] \in Events
  BY Zenon, InHand DEF Notify, Moves
<1>2. held[w] \notin inbox
  BY Zenon DEF Notify, Moves, HandsFit
<1>3. notified' = [notified EXCEPT ![held[w]] = @ + 1] /\ notified \in [Events -> Nat]
  BY Zenon DEF Notify, DeliveryTypeOK
<1>. QED  BY <1>1, <1>2, <1>3

\* A step that is not a worker's own leaves the inbox, the effects and the workers
\* as they are.
LEMMA EffectsOfWorkers ==
  ASSUME [Next]_vars
  PROVE  \/ UNCHANGED <<worker, held, inbox, notified>>
         \/ \E w \in Workers :
              \/ Start(w) \/ ClaimEvent(w) \/ Duplicate(w) \/ Notify(w)
              \/ CommitInbox(w) \/ Ack(w) \/ HandlerFails(w) \/ WorkerDies(w)
              \/ \E e \in Events : Receive(w, e)
<1> USE DEF relayVars, brokerVars, workerVars
<1>1. ASSUME NEW e \in Events, Record(e) PROVE UNCHANGED <<worker, held, inbox, notified>>
  BY Zenon, <1>1 DEF Record
<1>2. ASSUME NEW r \in Relays, RelayStep(r) \/ RelayDies(r)
      PROVE  UNCHANGED <<worker, held, inbox, notified>>
  BY Zenon, <1>2
     DEF RelayStep, RelayDies, Claim, Publish, PublishFails, CommitBatch
<1>3. CASE UNCHANGED vars
  BY Zenon, <1>3 DEF vars
<1>. QED  BY Zenon, <1>1, <1>2, <1>3 DEF Next, WorkerStep

\* No row is committed, and no handling is past its effect, without the effect.
LEMMA EffectsStayFirst ==
  ASSUME DeliveryTypeOK, HandsFit, EffectsFirst, [Next]_vars
  PROVE  EffectsFirst'
<1> USE DEF relayVars, brokerVars
<1>1. CASE UNCHANGED <<worker, held, inbox, notified>>
  BY Zenon, <1>1 DEF EffectsFirst
<1>2. ASSUME NEW w \in Workers, Notify(w) PROVE EffectsFirst'
  <2>1. /\ held[w] \in Events \ inbox
        /\ notified'[held[w]] > 0
        /\ \A e \in Events : e # held[w] => notified'[e] = notified[e]
    BY Zenon, <1>2, NotifyAddsOne
  <2>2. ASSUME NEW e \in inbox' PROVE notified'[e] > 0
    BY Zenon, <1>2, <2>1, <2>2 DEF Notify, DeliveryTypeOK, EffectsFirst
  <2>3. ASSUME NEW v \in Workers, worker'[v] = "notified" PROVE notified'[held'[v]] > 0
    <3>1. CASE v = w
      BY Zenon, <1>2, <2>1, <3>1 DEF Notify
    <3>2. CASE v # w
      <4>1. worker[v] = "notified" /\ held'[v] = held[v]
        BY Zenon, <1>2, <2>3, <3>2 DEF Notify, Moves, DeliveryTypeOK
      <4>2. held[v] \in Events
        BY Zenon, <4>1, InHand
      <4>. QED  BY Zenon, <2>1, <4>1, <4>2 DEF EffectsFirst
    <3>. QED  BY Zenon, <3>1, <3>2
  <2>. QED  BY Zenon, <2>2, <2>3 DEF EffectsFirst
<1>3. ASSUME NEW w \in Workers, CommitInbox(w) PROVE EffectsFirst'
  BY Zenon, <1>3 DEF CommitInbox, Moves, DeliveryTypeOK, EffectsFirst
<1>4. ASSUME NEW w \in Workers, NEW e \in Events, Receive(w, e) PROVE EffectsFirst'
  BY Zenon, <1>4 DEF Receive, Moves, DeliveryTypeOK, EffectsFirst
<1>5. ASSUME NEW w \in Workers,
             Start(w) \/ ClaimEvent(w) \/ Duplicate(w) \/ Ack(w)
      PROVE  EffectsFirst'
  BY Zenon, <1>5
     DEF Start, ClaimEvent, Duplicate, Ack, Moves, DeliveryTypeOK, EffectsFirst
<1>6. ASSUME NEW w \in Workers, HandlerFails(w) \/ WorkerDies(w) PROVE EffectsFirst'
  BY Zenon, <1>6 DEF HandlerFails, WorkerDies, DeliveryTypeOK, EffectsFirst
<1>. QED  BY Zenon, EffectsOfWorkers, <1>1, <1>2, <1>3, <1>4, <1>5, <1>6

\* What the relay and the worker rely on is true at all times: batches of
\* different relays are apart, one worker at a time inserts an event.
THEOREM DeliveryInvariant == Spec => []DeliveryInv
<1>1. Init => DeliveryInv
  <2> SUFFICES ASSUME Init PROVE DeliveryInv
    BY Zenon
  <2>1. DeliveryTypeOK
    <3>1. bound \in BOOLEAN
      BY Zenon DEF Init
    <3>2. /\ attempts \in [Events -> 0 .. MaxAttempts] /\ faults \in 0 .. MaxFaults
          /\ queue \in [Events -> Nat] /\ notified \in [Events -> Nat]
      BY DeliveryAssumption DEF Init
    <3>3. outbox \in [Events -> Rows] /\ worker \in [Workers -> WorkerStages]
      BY Zenon DEF Init, Rows, WorkerStages
    <3>. QED  BY Zenon, <3>1, <3>2, <3>3 DEF Init, DeliveryTypeOK
  <2>2. BatchesApart
    BY Zenon DEF Init, BatchesApart
  <2>3. AttemptsLeft
    BY DeliveryAssumption DEF Init, AttemptsLeft
  <2>4. HandsFit
    BY Zenon DEF Init, HandsFit
  <2>5. SentKept
    BY Zenon DEF Init, SentKept
  <2>. QED  BY Zenon, <2>1, <2>2, <2>3, <2>4, <2>5 DEF DeliveryInv
<1>2. DeliveryInv /\ [Next]_vars => DeliveryInv'
  BY TypeKept, BatchesKept, AttemptsKept, HandsKept, SentStaysKept, Zenon
     DEF DeliveryInv
<1>. QED  BY <1>1, <1>2, PTL DEF Spec

\* The types, with the attempts within outbox_max_attempts.
THEOREM DeliveryTypes == Spec => []DeliveryTypeOK
<1>1. DeliveryInv => DeliveryTypeOK
  BY Zenon DEF DeliveryInv
<1>. QED  BY <1>1, DeliveryInvariant, PTL

\* An event whose row says PUBLISHED is never lost between the relay's publish and
\* the worker's acknowledgement, and a row is given up only at the last attempt.
THEOREM NothingPublishedIsLost == Spec => []PublishedNeverLost
<1>1. DeliveryInv => PublishedNeverLost
  BY Zenon DEF DeliveryInv, SentKept, Kept, AttemptsLeft, PublishedNeverLost
<1>. QED  BY <1>1, DeliveryInvariant, PTL

\* However often the relay or the broker repeats an event, its notification has
\* gone out when _claim_event's row is committed and never goes out after that.
THEOREM ProcessedNotifiedOnce == Spec => ProcessedMeansNotified
<1> DEFINE Silent == \A e \in Events :
                       e \in inbox => notified[e] > 0 /\ notified'[e] = notified[e]
<1>1. Init => EffectsFirst
  BY Zenon DEF Init, EffectsFirst
<1>2. DeliveryInv /\ EffectsFirst /\ [Next]_vars => EffectsFirst'
  BY Zenon, EffectsStayFirst DEF DeliveryInv
<1>3. DeliveryInv /\ EffectsFirst /\ [Next]_vars => [Silent]_vars
  <2> SUFFICES ASSUME DeliveryInv, EffectsFirst, [Next]_vars,
                      NEW e \in Events, e \in inbox
               PROVE  notified[e] > 0 /\ notified'[e] = notified[e]
    BY Zenon
  <2>1. notified[e] > 0
    BY Zenon DEF EffectsFirst
  <2>2. ASSUME NEW w \in Workers, Notify(w) PROVE notified'[e] = notified[e]
    BY Zenon, <2>2, NotifyAddsOne DEF DeliveryInv
  <2>3. ASSUME NEW w \in Workers,
               \/ Start(w) \/ ClaimEvent(w) \/ Duplicate(w)
               \/ CommitInbox(w) \/ Ack(w) \/ HandlerFails(w) \/ WorkerDies(w)
               \/ \E f \in Events : Receive(w, f)
        PROVE  notified'[e] = notified[e]
    BY Zenon, <2>3 DEF Start, ClaimEvent, Duplicate, CommitInbox, Ack,
                       HandlerFails, WorkerDies, Receive
  <2>. QED  BY Zenon, EffectsOfWorkers, <2>1, <2>2, <2>3
<1>4. Spec => [][Silent]_vars
  BY <1>1, <1>2, <1>3, DeliveryInvariant, PTL DEF Spec
<1>. QED  BY <1>4 DEF ProcessedMeansNotified
=============================================================================
