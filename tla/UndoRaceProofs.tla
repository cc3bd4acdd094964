---------------------------- MODULE UndoRaceProofs ----------------------------
(***************************************************************************)
(* The undo hold keeps its promises for any number of holds, accounts,     *)
(* undoers, workers and attempts: first for transactions that take effect  *)
(* in one step (Holds), then for the statements that UndoRace interleaves, *)
(* which implement them.                                                   *)
(***************************************************************************)
EXTENDS UndoRace, SumsProofs

\* Sets of holds are finite, and so is what they are worth.
LEMMA WorthType ==
  ASSUME NEW H \in SUBSET HoldIds
  PROVE  IsFiniteSet(H) /\ Worth(H) \in Nat
<1>1. IsFiniteSet(H)
  BY Zenon, HoldsAssumption, FS_Subset
<1>. QED  BY Zenon, <1>1, NatSumPartType, HoldsAssumption DEF Worth

\* What two disjoint sets of holds are worth together.
LEMMA WorthUnion ==
  ASSUME NEW H \in SUBSET HoldIds, NEW G \in SUBSET HoldIds, H \cap G = {}
  PROVE  Worth(H \cup G) = Worth(H) + Worth(G)
<1>1. IsFiniteSet(H) /\ IsFiniteSet(G)
  BY Zenon, WorthType
<1>. QED  BY <1>1, NatSumUnion, HoldsAssumption DEF Worth

\* What one hold is worth.
LEMMA WorthSingle ==
  ASSUME NEW h \in HoldIds
  PROVE  Worth({h}) = Amount[h] /\ Amount[h] \in Nat /\ Amount[h] > 0
BY NatSumSingle, HoldsAssumption DEF Worth

\* What a settlement brings to an account is a natural.
LEMMA OwedType ==
  ASSUME NEW H \in SUBSET HoldIds, NEW a
  PROVE  Owed(H, a) \in Nat
BY Zenon, WorthType DEF Owed

\* Every transaction leaves balances that are not negative, statuses that exist
\* and attempts within MAX_ATTEMPTS, and keeps the task of a hold in step with it.
LEMMA TypeAndTasks ==
  ASSUME HoldsTypeOK, TaskTracksHold, [HoldsNext]_holdVars
  PROVE  HoldsTypeOK' /\ TaskTracksHold'
<1> USE HoldsAssumption, MaxAttemptsAssumption DEF HoldsTypeOK, HoldStatuses, TaskStatuses
<1>1. ASSUME NEW h \in HoldIds, Send(h) PROVE HoldsTypeOK' /\ TaskTracksHold'
  <2>1. HoldsTypeOK'
    <3>1. /\ Sender[h] \in Accounts /\ Pending \in Accounts /\ Sender[h] # Pending
          /\ Amount[h] \in Nat /\ balance[Sender[h]] >= Amount[h]
      BY Zenon, <1>1 DEF Send, CanSend
    <3>2. balance' \in [Accounts -> Nat]
      BY <1>1, <3>1 DEF Send
    <3>. QED  BY Zenon, <1>1, <3>2 DEF Send
  <2>2. TaskTracksHold'
    BY <1>1 DEF Send, CanSend, TaskTracksHold
  <2>. QED  BY Zenon, <2>1, <2>2
<1>2. ASSUME NEW h \in HoldIds, Undo(h) PROVE HoldsTypeOK' /\ TaskTracksHold'
  <2>1. HoldsTypeOK'
    BY <1>2 DEF Undo
  <2>2. TaskTracksHold'
    BY Zenon, <1>2 DEF Undo, TaskTracksHold
  <2>. QED  BY <2>1, <2>2
<1>3. ASSUME NEW D \in SUBSET Due, NEW F \in SUBSET (Due \ D),
             RunDueTasks(D, F)
      PROVE  HoldsTypeOK' /\ TaskTracksHold'
  <2>1. D \in SUBSET HoldIds /\ F \in SUBSET HoldIds /\ D \cap F = {}
    BY Zenon DEF Due
  <2>2. \A h \in D \cup F : task[h] = "PENDING" /\ attempts[h] < MaxAttempts
    BY Zenon DEF Due, TaskTracksHold
  <2>3. balance' \in [Accounts -> Nat]
    <3>1. ASSUME NEW a \in Accounts PROVE PaidOut(D)[a] \in Nat
      <4>1. Owed(D, a) \in Nat /\ Worth(D) \in Nat
        BY Zenon, <2>1, OwedType, WorthType
      <4>2. balance[a] \in Nat /\ balance[Pending] >= Worth(D)
        BY Zenon, <1>3 DEF RunDueTasks
      <4>. QED  BY <4>1, <4>2 DEF PaidOut
    <3>2. balance' = PaidOut(D)
      BY Zenon, <1>3 DEF RunDueTasks
    <3>. QED  BY Zenon, <3>1, <3>2 DEF PaidOut
  <2>4. HoldsTypeOK'
    BY <1>3, <2>1, <2>2, <2>3 DEF RunDueTasks, AfterFailure
  <2>5. TaskTracksHold'
    BY <1>3, <2>1, <2>2 DEF RunDueTasks, AfterFailure, TaskTracksHold
  <2>. QED  BY Zenon, <2>4, <2>5
<1>4. ASSUME NEW a \in Accounts, Close(a) PROVE HoldsTypeOK' /\ TaskTracksHold'
  BY Zenon, <1>4 DEF Close, TaskTracksHold
<1>5. ASSUME NEW from \in Accounts, NEW to \in Accounts, Pay(from, to)
      PROVE  HoldsTypeOK' /\ TaskTracksHold'
  BY <1>5 DEF Pay, TaskTracksHold
<1>6. CASE UNCHANGED holdVars
  BY Zenon, <1>6 DEF holdVars, TaskTracksHold
<1>. QED  BY <1>1, <1>2, <1>3, <1>4, <1>5, <1>6, Zenon DEF HoldsNext

\* Every transaction moves exactly the money of the holds it opens or resolves
\* through the pending-settlement account.
LEMMA BackingKept ==
  ASSUME HoldsTypeOK, TaskTracksHold, HoldingBacked, [HoldsNext]_holdVars
  PROVE  HoldingBacked'
<1> USE HoldsAssumption DEF HoldsTypeOK, HoldingBacked
<1>0. Open \in SUBSET HoldIds
  BY Zenon DEF Open
<1>1. ASSUME NEW h \in HoldIds, Send(h) PROVE HoldingBacked'
  <2>1. Open' = Open \cup {h} /\ Open \cap {h} = {}
    BY Zenon, <1>1 DEF Open, Send, CanSend
  <2>2. Worth(Open \cup {h}) = Worth(Open) + Amount[h]
    <3>1. Worth(Open \cup {h}) = Worth(Open) + Worth({h})
      BY Zenon, <1>0, <2>1, WorthUnion
    <3>. QED  BY Zenon, <3>1, WorthSingle
  <2>3. balance'[Pending] = balance[Pending] + Amount[h]
    BY Zenon, <1>1 DEF Send
  <2>. QED  BY Zenon, <2>1, <2>2, <2>3 DEF Worth
<1>2. ASSUME NEW h \in HoldIds, Undo(h) PROVE HoldingBacked'
  <2>1. Open' = Open \ {h} /\ Open = (Open \ {h}) \cup {h}
    BY Zenon, <1>2 DEF Open, Undo
  <2>2. Worth(Open) = Worth(Open \ {h}) + Amount[h] /\ Worth(Open \ {h}) \in Nat
    <3>1. Worth((Open \ {h}) \cup {h}) = Worth(Open \ {h}) + Worth({h})
      BY Zenon, <1>0, WorthUnion
    <3>2. Worth(Open \ {h}) \in Nat
      BY Zenon, <1>0, WorthType
    <3>. QED  BY <2>1, <3>1, <3>2, WorthSingle, SMTT(30)
  <2>3. balance'[Pending] = balance[Pending] - Amount[h]
    BY Zenon, <1>2 DEF Undo
  <2>4. Amount[h] \in Nat
    BY Zenon
  <2>. QED  BY <2>1, <2>2, <2>3, <2>4 DEF Worth
<1>3. ASSUME NEW D \in SUBSET Due, NEW F \in SUBSET (Due \ D),
             RunDueTasks(D, F)
      PROVE  HoldingBacked'
  <2>1. D \in SUBSET HoldIds
    BY Zenon DEF Due
  <2>2. Open' = Open \ D /\ Open = (Open \ D) \cup D
    BY Zenon, <1>3, <2>1 DEF Open, RunDueTasks
  <2>3. Worth(Open) = Worth(Open \ D) + Worth(D)
    <3>1. Worth((Open \ D) \cup D) = Worth(Open \ D) + Worth(D)
      BY Zenon, <1>0, <2>1, WorthUnion
    <3>. QED  BY <2>2, <3>1, Zenon
  <2>4. Worth(Open \ D) \in Nat /\ Worth(D) \in Nat
    BY Zenon, <1>0, <2>1, WorthType
  <2>5. balance'[Pending] = balance[Pending] - Worth(D)
    BY Zenon, <1>3 DEF RunDueTasks, PaidOut
  <2>. QED  BY <2>2, <2>3, <2>4, <2>5 DEF Worth
<1>4. ASSUME NEW a \in Accounts, Close(a) PROVE HoldingBacked'
  BY Zenon, <1>4 DEF Close, Open, Worth
<1>5. ASSUME NEW from \in Accounts, NEW to \in Accounts, Pay(from, to) PROVE HoldingBacked'
  BY <1>5 DEF Pay, Open, Worth
<1>6. CASE UNCHANGED holdVars
  BY Zenon, <1>6 DEF holdVars, Open, Worth
<1>. QED  BY <1>1, <1>2, <1>3, <1>4, <1>5, <1>6, SMTT(30) DEF HoldsNext

\* Types and tasks are right at the start and after every transaction.
THEOREM TasksTrackHolds == HoldsSpec => [](HoldsTypeOK /\ TaskTracksHold)
<1>1. HoldsInit => HoldsTypeOK /\ TaskTracksHold
  BY HoldsAssumption, HoldsOpeningAssumption, MaxAttemptsAssumption
     DEF HoldsInit, HoldsTypeOK, TaskTracksHold, HoldStatuses, TaskStatuses
<1>2. HoldsTypeOK /\ TaskTracksHold /\ [HoldsNext]_holdVars => HoldsTypeOK' /\ TaskTracksHold'
  BY Zenon, TypeAndTasks
<1>. QED  BY <1>1, <1>2, PTL DEF HoldsSpec

\* The pending-settlement account always holds exactly the money of the open holds:
\* no hold is ever paid out twice, or both paid out and refunded.
THEOREM HoldsAreBacked == HoldsSpec => []HoldingBacked
<1>1. HoldsInit => HoldingBacked
  <2> SUFFICES ASSUME HoldsInit PROVE HoldingBacked
    BY Zenon
  <2>1. Open = {}
    BY Zenon DEF HoldsInit, Open
  <2>2. Worth(Open) = 0
    BY Zenon, <2>1, NatSumEmpty DEF Worth
  <2>. QED  BY Zenon, <2>2, HoldsOpeningAssumption DEF HoldsInit, HoldingBacked
<1>2. HoldsTypeOK /\ TaskTracksHold /\ HoldingBacked /\ [HoldsNext]_holdVars => HoldingBacked'
  BY Zenon, BackingKept
<1>. QED  BY <1>1, <1>2, TasksTrackHolds, PTL DEF HoldsSpec
-----------------------------------------------------------------------------
(* What a process owns while its transaction is open.                      *)

\* An undo that has latched its hold keeps the row, and the hold stays open; once
\* it has decided to refund, nothing it decided on can change.
UndoOwns(u) ==
  /\ pc[u] \in {"lock", "cancel"} =>
       lock[HoldRow(Target[u])] = u /\ hold[Target[u]] = "PENDING_UNDO"
  /\ pc[u] = "cancel" =>
       /\ lock[AccountRow(Pending)] = u /\ lock[AccountRow(Sender[Target[u]])] = u
       /\ Sender[Target[u]] \notin closed
       /\ balance[Pending] >= Amount[Target[u]]

InSavepoint(w) == pc[w] \in {"latch", "lock"}

Claimed(w, h) ==
  h \in batch[w] \/ h \in done[w] \/ h \in failed[w] \/ (InSavepoint(w) /\ h = current[w])

\* The tasks of an open batch stay pending and locked, whatever savepoint is undone.
ClaimsOwned(w) ==
  \A h \in HoldIds : Claimed(w, h) =>
    task[h] = "PENDING" /\ lock[TaskRow(h)] = w /\ TaskRow(h) \notin savepoint[w]

\* A claimed task is in one place: waiting, being run, completed, or failed.
BatchSplit(w) ==
  /\ batch[w] \cap done[w] = {} /\ batch[w] \cap failed[w] = {} /\ done[w] \cap failed[w] = {}
  /\ InSavepoint(w) => current[w] \in HoldIds \ (batch[w] \cup done[w] \cup failed[w])
  /\ pc[w] = "lock" => lock[HoldRow(current[w])] = w
  /\ pc[w] # "lock" => savepoint[w] = {}
  /\ pc[w] = "next" => batch[w] \cup done[w] \cup failed[w] # {}
  /\ pc[w] = "idle" => batch[w] = {} /\ done[w] = {} /\ failed[w] = {}

\* A row the worker keeps even when it goes back to its savepoint.
Keeps(w, r) == lock[r] = w /\ r \notin savepoint[w]

\* A completed task keeps its hold and both accounts until the batch commits, and
\* the holding account can pay for all of them.
DoneOwned(w) ==
  /\ \A h \in done[w] :
       /\ Keeps(w, HoldRow(h)) /\ Keeps(w, AccountRow(Receiver[h]))
       /\ Receiver[h] \notin closed
  /\ done[w] # {} => Keeps(w, AccountRow(Pending)) /\ balance[Pending] >= Worth(done[w])

WorkerOwns(w) == ClaimsOwned(w) /\ BatchSplit(w) /\ DoneOwned(w)

RaceInv ==
  /\ TypeOK
  /\ TaskTracksHold
  /\ \A u \in Undoers : UndoOwns(u)
  /\ \A w \in Workers : WorkerOwns(w)

-----------------------------------------------------------------------------
(* What a step of one process does to the others.                          *)

PcValues == {"idle", "reserve", "latch", "lock", "cancel", "next"}

\* The part of TypeOK that Holds does not speak of.
LocalTypeOK ==
  /\ paid \subseteq Directs
  /\ undone \subseteq HoldIds \X Keys
  /\ lock \in [Rows -> Procs \cup {Nobody}]
  /\ pc \in [Procs -> PcValues]
  /\ batch \in [Workers -> SUBSET HoldIds]
  /\ current \in [Workers -> HoldIds \cup {Nobody}]
  /\ savepoint \in [Workers -> SUBSET Rows]
  /\ done \in [Workers -> SUBSET HoldIds]
  /\ failed \in [Workers -> SUBSET HoldIds]
  /\ crashes \in 0..MaxCrashes

\* Rows held by another process stay with it.
LocksOf(p) ==
  /\ lock' \in [Rows -> Procs \cup {Nobody}]
  /\ \A r \in Rows : lock[r] \notin {p, Nobody} => lock'[r] = lock[r]

\* The memory of other processes is not touched.
MemoryOf(p) ==
  /\ \A q \in Procs : q # p => pc'[q] = pc[q]
  /\ \A w \in Workers : w # p =>
       /\ batch'[w] = batch[w] /\ current'[w] = current[w] /\ savepoint'[w] = savepoint[w]
       /\ done'[w] = done[w] /\ failed'[w] = failed[w]

\* What another process has read under a lock stays true.
Respects(p) ==
  /\ \A h \in HoldIds : hold[h] = "PENDING_UNDO" /\ lock[HoldRow(h)] \notin {p, Nobody}
                          => hold'[h] = "PENDING_UNDO"
  /\ \A h \in HoldIds : task[h] = "PENDING" /\ lock[TaskRow(h)] \notin {p, Nobody}
                          => task'[h] = "PENDING"
  /\ \A a \in Accounts : a \notin closed /\ lock[AccountRow(a)] \notin {p, Nobody}
                          => a \notin closed'
  /\ lock[AccountRow(Pending)] \notin {p, Nobody} => balance'[Pending] >= balance[Pending]

\* A step of p: it disturbs nobody, and p owns what it should when it is done.
Fits(p) ==
  /\ LocalTypeOK'
  /\ LocksOf(p)
  /\ MemoryOf(p)
  /\ Respects(p)
  /\ p \in Undoers => UndoOwns(p)'
  /\ p \in Workers => WorkerOwns(p)'

\* The two halves of the type invariant.
LEMMA TypeHalves == TypeOK <=> HoldsTypeOK /\ LocalTypeOK
BY Zenon DEF TypeOK, LocalTypeOK, PcValues

\* The rows that exist.
LEMMA RowsExist ==
  /\ \A a \in Accounts : AccountRow(a) \in Rows
  /\ \A h \in HoldIds : HoldRow(h) \in Rows /\ TaskRow(h) \in Rows
BY DEF Rows

\* The accounts and amounts of a hold.
LEMMA HoldParts ==
  ASSUME NEW h \in HoldIds
  PROVE  /\ Sender[h] \in Accounts \ {Pending} /\ Receiver[h] \in Accounts \ {Pending}
         /\ Pending \in Accounts /\ Amount[h] \in Nat
BY Zenon, HoldsAssumption

\* Processes are users or workers, and Nobody is neither.
LEMMA Roles ==
  /\ Senders \subseteq Users /\ Undoers \subseteq Users /\ Directs \subseteq Users
  /\ Users \subseteq Procs /\ Workers \subseteq Procs
  /\ Nobody \notin Procs
BY Zenon, RaceAssumption DEF Users, Procs

\* Releasing rows of p takes none from the others.
LEMMA ReleasedOwn ==
  ASSUME LocalTypeOK, NEW p, NEW rows, lock' = Released(p, rows)
  PROVE  LocksOf(p)
BY Zenon DEF LocalTypeOK, LocksOf, Released

\* A granted lock was nobody's.
LEMMA TakenFree ==
  ASSUME LocalTypeOK, NEW p \in Procs, Granted(p), lock' = Taken(p)
  PROVE  /\ LocksOf(p)
         /\ \A r \in Rows : lock[r] = p => lock'[r] = p
         /\ \A r \in Rows : r \in Wants(p) => lock[r] = Nobody /\ lock'[r] = p
<1>1. \A r \in Rows : lock'[r] = IF r \in Wants(p) THEN p ELSE lock[r]
  BY Zenon DEF Taken
<1>2. \A r \in Wants(p) : lock[r] = Nobody
  BY Zenon DEF Granted
<1>3. lock' \in [Rows -> Procs \cup {Nobody}]
  BY Zenon DEF LocalTypeOK, Taken
<1>. QED  BY Zenon, <1>1, <1>2, <1>3 DEF LocksOf

\* A step of p leaves every undo of another process what it owns.
LEMMA OtherUndoKept ==
  ASSUME RaceInv, HoldsTypeOK', NEW p, LocksOf(p), MemoryOf(p), Respects(p),
         NEW u \in Undoers, u # p
  PROVE  UndoOwns(u)'
<1>1. UndoOwns(u) /\ HoldsTypeOK
  BY Zenon DEF RaceInv, TypeOK
<1>2. pc'[u] = pc[u] /\ u # Nobody
  BY Zenon, Roles DEF MemoryOf
<1>3. Target[u] \in HoldIds
  BY Zenon, RaceAssumption
<1>4. /\ HoldRow(Target[u]) \in Rows /\ AccountRow(Pending) \in Rows
      /\ AccountRow(Sender[Target[u]]) \in Rows
      /\ Pending \in Accounts /\ Sender[Target[u]] \in Accounts /\ Amount[Target[u]] \in Nat
  BY Zenon, <1>3, RowsExist, HoldParts
<1>5. \A r \in Rows : lock[r] = u => lock'[r] = u
  BY Zenon, <1>2 DEF LocksOf
<1>6. pc[u] \in {"lock", "cancel"} =>
        lock'[HoldRow(Target[u])] = u /\ hold'[Target[u]] = "PENDING_UNDO"
  BY Zenon, <1>1, <1>2, <1>3, <1>4, <1>5 DEF UndoOwns, Respects
<1>7. pc[u] = "cancel" =>
        /\ lock'[AccountRow(Pending)] = u /\ lock'[AccountRow(Sender[Target[u]])] = u
        /\ Sender[Target[u]] \notin closed'
  BY Zenon, <1>1, <1>2, <1>4, <1>5 DEF UndoOwns, Respects
<1>8. pc[u] = "cancel" => balance'[Pending] >= Amount[Target[u]]
  <2>1. balance[Pending] \in Nat /\ balance'[Pending] \in Nat
    BY Zenon, <1>1, <1>4 DEF HoldsTypeOK
  <2>2. pc[u] = "cancel" =>
          balance'[Pending] >= balance[Pending] /\ balance[Pending] >= Amount[Target[u]]
    BY Zenon, <1>1, <1>2 DEF UndoOwns, Respects
  <2>. QED  BY <1>4, <2>1, <2>2
<1>. QED  BY Zenon, <1>2, <1>6, <1>7, <1>8 DEF UndoOwns, HoldRow, AccountRow

\* A step of p leaves every worker but p what it owns.
LEMMA OtherWorkerKept ==
  ASSUME RaceInv, HoldsTypeOK', NEW p, LocksOf(p), MemoryOf(p), Respects(p),
         NEW w \in Workers, w # p
  PROVE  WorkerOwns(w)'
<1>1. WorkerOwns(w) /\ HoldsTypeOK /\ LocalTypeOK
  BY Zenon, TypeHalves DEF RaceInv
<1>2. /\ pc'[w] = pc[w] /\ w # Nobody /\ batch'[w] = batch[w] /\ current'[w] = current[w]
      /\ savepoint'[w] = savepoint[w] /\ done'[w] = done[w] /\ failed'[w] = failed[w]
  BY Zenon, Roles DEF MemoryOf
<1>3. \A r \in Rows : lock[r] = w => lock'[r] = w
  BY Zenon, <1>2 DEF LocksOf
<1>4. done[w] \in SUBSET HoldIds
  BY Zenon, <1>1 DEF LocalTypeOK
<1>5. ClaimsOwned(w)'
  <2>1. \A h \in HoldIds : Claimed(w, h)' <=> Claimed(w, h)
    BY Zenon, <1>2 DEF Claimed, InSavepoint
  <2>2. ASSUME NEW h \in HoldIds, Claimed(w, h)
        PROVE  task'[h] = "PENDING" /\ lock'[TaskRow(h)] = w /\ TaskRow(h) \notin savepoint'[w]
    BY Zenon, <1>1, <1>2, <1>3, <2>2, RowsExist DEF WorkerOwns, ClaimsOwned, Respects
  <2>. QED  BY Zenon, <2>1, <2>2 DEF ClaimsOwned, TaskRow
<1>6. BatchSplit(w)'
  <2>1. pc[w] = "lock" => lock'[HoldRow(current[w])] = w
    BY Zenon, <1>1, <1>3, RowsExist DEF WorkerOwns, BatchSplit, InSavepoint
  <2>. QED  BY Zenon, <1>1, <1>2, <2>1 DEF WorkerOwns, BatchSplit, InSavepoint, HoldRow
<1>7. DoneOwned(w)'
  <2>1. ASSUME NEW r \in Rows, Keeps(w, r) PROVE lock'[r] = w /\ r \notin savepoint'[w]
    BY Zenon, <1>2, <1>3, <2>1 DEF Keeps
  <2>2. ASSUME NEW h \in done[w]
        PROVE  /\ lock'[HoldRow(h)] = w /\ HoldRow(h) \notin savepoint'[w]
               /\ lock'[AccountRow(Receiver[h])] = w
               /\ AccountRow(Receiver[h]) \notin savepoint'[w]
               /\ Receiver[h] \notin closed'
    <3>1. h \in HoldIds /\ Receiver[h] \in Accounts
      BY Zenon, <1>4, HoldParts
    <3>2. HoldRow(h) \in Rows /\ AccountRow(Receiver[h]) \in Rows
      BY Zenon, <3>1, RowsExist
    <3>3. /\ Keeps(w, HoldRow(h)) /\ Keeps(w, AccountRow(Receiver[h]))
          /\ Receiver[h] \notin closed
      BY Zenon, <1>1 DEF WorkerOwns, DoneOwned
    <3>4. Receiver[h] \notin closed'
      BY Zenon, <1>2, <3>1, <3>3 DEF Keeps, Respects
    <3>. QED  BY Zenon, <2>1, <3>2, <3>3, <3>4
  <2>3. ASSUME done[w] # {}
        PROVE  /\ lock'[AccountRow(Pending)] = w /\ AccountRow(Pending) \notin savepoint'[w]
               /\ balance'[Pending] >= Worth(done[w])
    <3>1. Pending \in Accounts /\ AccountRow(Pending) \in Rows
      BY Zenon, HoldsAssumption, RowsExist
    <3>2. Keeps(w, AccountRow(Pending)) /\ balance[Pending] >= Worth(done[w])
      BY Zenon, <1>1, <2>3 DEF WorkerOwns, DoneOwned
    <3>3. balance'[Pending] >= balance[Pending]
      BY Zenon, <1>2, <3>2 DEF Keeps, Respects
    <3>4. balance[Pending] \in Nat /\ balance'[Pending] \in Nat /\ Worth(done[w]) \in Nat
      BY Zenon, <1>1, <1>4, <3>1, WorthType DEF HoldsTypeOK
    <3>5. balance'[Pending] >= Worth(done[w])
      BY <3>2, <3>3, <3>4
    <3>. QED  BY Zenon, <2>1, <3>1, <3>2, <3>5
  <2>. QED  BY Zenon, <1>2, <2>2, <2>3 DEF DoneOwned, Keeps, HoldRow, AccountRow, Worth
<1>. QED  BY Zenon, <1>5, <1>6, <1>7 DEF WorkerOwns

\* A step that stores nothing changes nothing anybody has read.
LEMMA StoredKept ==
  ASSUME RaceInv, NEW p, UNCHANGED stored
  PROVE  Respects(p)
<1>1. balance[Pending] \in Nat
  BY Zenon, HoldsAssumption DEF RaceInv, TypeOK, HoldsTypeOK
<1>. QED  BY <1>1 DEF stored, Respects

-----------------------------------------------------------------------------
(* The steps of the users.                                                 *)

\* The end of a user's transaction, be it commit, rollback or crash.
LEMMA EndFits ==
  ASSUME RaceInv, NEW p \in Users, pc' = [pc EXCEPT ![p] = "idle"],
         lock' = Released(p, Rows), UNCHANGED workerVars, crashes' \in 0..MaxCrashes,
         paid' \subseteq Directs, undone' \subseteq HoldIds \X Keys, Respects(p)
  PROVE  Fits(p)
<1>1. LocalTypeOK
  BY Zenon, TypeHalves DEF RaceInv
<1>2. p \in Procs /\ p \notin Workers
  BY Zenon, RolesAssumption, Roles
<1>3. LocksOf(p)
  BY Zenon, <1>1, ReleasedOwn
<1>4. pc' \in [Procs -> PcValues] /\ \A q \in Procs : q # p => pc'[q] = pc[q]
  BY Zenon, <1>1, <1>2 DEF LocalTypeOK, PcValues
<1>5. MemoryOf(p)
  BY Zenon, <1>4 DEF MemoryOf, workerVars
<1>6. LocalTypeOK'
  BY Zenon, <1>1, <1>3, <1>4 DEF LocalTypeOK, LocksOf, workerVars
<1>7. p \in Undoers => UndoOwns(p)'
  <2>1. pc'[p] = "idle"
    BY Zenon, <1>1, <1>2 DEF LocalTypeOK
  <2>. QED  BY Zenon, <2>1 DEF UndoOwns
<1>. QED  BY Zenon, <1>2, <1>3, <1>5, <1>6, <1>7 DEF Fits

\* A statement of a user that stores nothing yet and locks what was free.
LEMMA MoveFits ==
  ASSUME RaceInv, NEW p \in Users, NEW s \in PcValues, pc' = [pc EXCEPT ![p] = s],
         lock' = lock \/ (Granted(p) /\ lock' = Taken(p)),
         UNCHANGED <<stored, workerVars, crashes>>,
         p \in Undoers => UndoOwns(p)'
  PROVE  Fits(p)
<1>1. LocalTypeOK
  BY Zenon, TypeHalves DEF RaceInv
<1>2. p \in Procs /\ p \notin Workers
  BY Zenon, RolesAssumption, Roles
<1>3. LocksOf(p)
  <2>1. CASE lock' = lock
    BY Zenon, <1>1, <2>1 DEF LocalTypeOK, LocksOf
  <2>2. CASE Granted(p) /\ lock' = Taken(p)
    BY Zenon, <1>1, <1>2, <2>2, TakenFree
  <2>. QED  BY Zenon, <2>1, <2>2
<1>4. pc' \in [Procs -> PcValues] /\ \A q \in Procs : q # p => pc'[q] = pc[q]
  BY Zenon, <1>1, <1>2 DEF LocalTypeOK
<1>5. MemoryOf(p)
  BY Zenon, <1>4 DEF MemoryOf, workerVars
<1>6. LocalTypeOK'
  BY Zenon, <1>1, <1>3, <1>4 DEF LocalTypeOK, LocksOf, workerVars, stored
<1>7. Respects(p)
  BY Zenon, StoredKept
<1>. QED  BY Zenon, <1>2, <1>3, <1>5, <1>6, <1>7 DEF Fits

\* A user whose transaction is rolled back.
LEMMA RollbackFits ==
  ASSUME RaceInv, NEW p \in Users, Rollback(p)
  PROVE  Fits(p)
<1>1. LocalTypeOK
  BY Zenon, TypeHalves DEF RaceInv
<1>2. Respects(p)
  BY Zenon, StoredKept DEF Rollback
<1>. QED  BY Zenon, <1>1, <1>2, EndFits DEF Rollback, Ends, LocalTypeOK, stored

\* Beginning a payment or an undo locks nothing.
LEMMA BeginFits ==
  ASSUME RaceInv, NEW p \in Users, PayBegin(p) \/ (p \in Undoers /\ UndoBegin(p))
  PROVE  Fits(p)
<1>1. LocalTypeOK /\ p \in Procs
  BY Zenon, TypeHalves, Roles DEF RaceInv
<1>2. CASE PayBegin(p)
  <2>1. p \notin Undoers
    BY Zenon, <1>2, RolesAssumption DEF PayBegin
  <2>. QED  BY Zenon, <1>2, <2>1, MoveFits DEF PayBegin, PcValues
<1>3. CASE p \in Undoers /\ UndoBegin(p)
  <2>1. pc'[p] = "reserve"
    BY Zenon, <1>1, <1>3 DEF UndoBegin, LocalTypeOK
  <2>2. UndoOwns(p)'
    BY Zenon, <2>1 DEF UndoOwns
  <2>. QED  BY Zenon, <1>3, <2>2, MoveFits DEF UndoBegin, PcValues
<1>. QED  BY Zenon, <1>2, <1>3

\* The accounts a process at "lock" still has to lock, and the smallest of them.
LEMMA FirstMissingRight ==
  ASSUME RaceInv, NEW p \in Procs, Missing(p) # {}, pc[p] = "lock"
  PROVE  FirstMissing(p) \in Missing(p) /\ Missing(p) \subseteq Accounts
<1>1. p \notin Directs => HoldOf(p) \in HoldIds
  <2>1. CASE p \in Senders
    BY <2>1 DEF HoldOf, Senders
  <2>2. CASE p \in Undoers
    BY Zenon, <2>2, RaceAssumption, RolesAssumption DEF HoldOf
  <2>3. CASE p \in Workers
    BY Zenon, <2>3, RolesAssumption DEF HoldOf, RaceInv, WorkerOwns, BatchSplit, InSavepoint, Users
  <2>. QED  BY Zenon, <2>1, <2>2, <2>3 DEF Procs, Users
<1>2. PICK a, b : a \in Accounts /\ b \in Accounts /\ AccountsOf(p) = {a, b}
  <2>1. CASE p \in Directs
    BY Zenon, <2>1, RaceAssumption DEF AccountsOf
  <2>2. CASE p \notin Directs
    BY Zenon, <1>1, <2>2, HoldParts DEF AccountsOf
  <2>. QED  BY Zenon, <2>1, <2>2
<1>3. Missing(p) \subseteq {a, b}
  BY Zenon, <1>2 DEF Missing
<1>4. a \in Nat /\ b \in Nat
  BY Zenon, <1>2, RaceAssumption
<1>5. \E x \in Missing(p) : \A y \in Missing(p) : x <= y
  BY <1>3, <1>4
<1>. QED  BY Zenon, <1>2, <1>3, <1>5 DEF FirstMissing

\* What a process at "lock" asks for is an account row, or nothing.
LEMMA LockWants ==
  ASSUME RaceInv, NEW p \in Procs, pc[p] = "lock", Missing(p) # {}
  PROVE  Wants(p) \subseteq Rows
<1>1. Wants(p) = {AccountRow(FirstMissing(p))}
  BY Zenon DEF Wants
<1>2. FirstMissing(p) \in Accounts
  BY Zenon, FirstMissingRight
<1>. QED  BY Zenon, <1>1, <1>2, RowsExist

\* An undo keeps what it owns while it locks the next account.
LEMMA UserLocks ==
  ASSUME RaceInv, NEW p \in Users, LockAccount(p)
  PROVE  Fits(p)
<1>1. LocalTypeOK /\ p \in Procs /\ p \notin Workers
  BY Zenon, TypeHalves, Roles, RolesAssumption DEF RaceInv
<1>2. pc' = [pc EXCEPT ![p] = "lock"] /\ pc'[p] = "lock"
  BY Zenon, <1>1 DEF LockAccount, LocalTypeOK
<1>3. savepoint' = savepoint
  BY Zenon, <1>1 DEF LockAccount, LocalTypeOK
<1>4. \A r \in Rows : lock[r] = p => lock'[r] = p
  BY Zenon, <1>1, TakenFree DEF LockAccount
<1>5. p \in Undoers => UndoOwns(p)'
  <2> SUFFICES ASSUME p \in Undoers PROVE UndoOwns(p)'
    BY Zenon
  <2>1. Target[p] \in HoldIds
    BY Zenon, RaceAssumption
  <2>2. lock[HoldRow(Target[p])] = p /\ hold[Target[p]] = "PENDING_UNDO"
    BY Zenon DEF RaceInv, UndoOwns, LockAccount
  <2>3. lock'[HoldRow(Target[p])] = p /\ hold'[Target[p]] = "PENDING_UNDO"
    BY Zenon, <1>4, <2>1, <2>2, RowsExist DEF LockAccount, stored
  <2>. QED  BY Zenon, <1>2, <2>3 DEF UndoOwns, HoldRow
<1>. QED  BY Zenon, <1>2, <1>3, <1>5, MoveFits DEF LockAccount, workerVars, PcValues

\* The key is reserved, the status latched and the refund decided: the undo owns
\* the hold from the latch on, and both accounts when it decides.
LEMMA UndoMovesFit ==
  ASSUME RaceInv, NEW u \in Undoers, UndoReserve(u) \/ UndoLatch(u) \/ UndoRefund(u)
  PROVE  Fits(u)
<1>1. LocalTypeOK /\ u \in Users /\ u \in Procs /\ u \notin Workers
  BY Zenon, TypeHalves, Roles, RolesAssumption DEF RaceInv
<1>2. Target[u] \in HoldIds /\ HoldRow(Target[u]) \in Rows
  BY Zenon, RaceAssumption, RowsExist
<1>3. HoldOf(u) = Target[u]
  BY Zenon, RolesAssumption DEF HoldOf
<1>4. CASE UndoReserve(u)
  <2>1. pc'[u] = "latch"
    BY Zenon, <1>1, <1>4 DEF UndoReserve, LocalTypeOK
  <2>2. UndoOwns(u)'
    BY Zenon, <2>1 DEF UndoOwns
  <2>. QED  BY ZenonT(30), <1>1, <1>4, <2>2, MoveFits DEF UndoReserve, PcValues
<1>5. CASE UndoLatch(u)
  <2>1. pc'[u] = "lock" /\ hold'[Target[u]] = "PENDING_UNDO"
    BY Zenon, <1>1, <1>5 DEF UndoLatch, LocalTypeOK, stored
  <2>2. HoldRow(Target[u]) \in Wants(u)
    BY Zenon, <1>3, <1>5 DEF UndoLatch, Wants
  <2>3. lock'[HoldRow(Target[u])] = u
    BY Zenon, <1>1, <1>2, <1>5, <2>2, TakenFree DEF UndoLatch
  <2>4. UndoOwns(u)'
    BY Zenon, <2>1, <2>3 DEF UndoOwns, HoldRow
  <2>. QED  BY Zenon, <1>1, <1>5, <2>4, MoveFits DEF UndoLatch, PcValues
<1>6. CASE UndoRefund(u)
  <2>1. pc'[u] = "cancel"
    BY Zenon, <1>1, <1>6 DEF UndoRefund, LocalTypeOK
  <2>2. lock[HoldRow(Target[u])] = u /\ hold[Target[u]] = "PENDING_UNDO"
    BY Zenon, <1>6 DEF UndoRefund, Locked, RaceInv, UndoOwns
  <2>3. AccountsOf(u) = {Pending, Sender[Target[u]]}
    BY Zenon, <1>1, <1>3, RolesAssumption DEF AccountsOf
  <2>4. lock[AccountRow(Pending)] = u /\ lock[AccountRow(Sender[Target[u]])] = u
    BY Zenon, <1>6, <2>3 DEF UndoRefund, Locked, Missing
  <2>5. UndoOwns(u)'
    BY Zenon, <1>6, <2>1, <2>2, <2>4 DEF UndoRefund, UndoOwns, stored, HoldRow, AccountRow
  <2>. QED  BY ZenonT(30), <1>1, <1>6, <2>5, MoveFits DEF UndoRefund, PcValues
<1>. QED  BY Zenon, <1>4, <1>5, <1>6

\* A payment that commits touches no hold but its own, which did not exist, and
\* takes nothing from the holding account.
LEMMA PaymentsFit ==
  ASSUME RaceInv, NEW p \in Users, SendCommit(p) \/ DirectCommit(p)
  PROVE  Fits(p)
<1>1. LocalTypeOK /\ HoldsTypeOK /\ TaskTracksHold
  BY Zenon, TypeHalves DEF RaceInv
<1>2. balance[Pending] \in Nat /\ Pending \in Accounts
  BY Zenon, <1>1, HoldsAssumption DEF HoldsTypeOK
<1>3. CASE SendCommit(p)
  <2>1. PICK h \in HoldIds : h = p[2]
    BY SMTT(30), <1>3 DEF SendCommit, Senders
  <2>2. Sender[h] \in Accounts \ {Pending} /\ Amount[h] \in Nat
    BY Zenon, HoldParts
  <2>3. /\ balance' = [balance EXCEPT ![Sender[h]] = @ - Amount[h], ![Pending] = @ + Amount[h]]
        /\ hold' = [hold EXCEPT ![h] = "PENDING_UNDO"]
        /\ task' = [task EXCEPT ![h] = "PENDING"]
        /\ closed' = closed
    BY Zenon, <1>3, <2>1 DEF SendCommit
  <2>4. balance'[Pending] >= balance[Pending]
    BY SMTT(20), <1>1, <1>2, <2>2, <2>3 DEF HoldsTypeOK
  <2>5. Respects(p)
    BY Zenon, <1>1, <2>3, <2>4 DEF Respects, HoldsTypeOK
  <2>. QED  BY ZenonT(30), <1>1, <1>3, <2>5, EndFits DEF SendCommit, Ends, LocalTypeOK
<1>4. CASE DirectCommit(p)
  <2>1. From[p] \in Accounts \ {Pending} /\ To[p] \in Accounts \ {Pending} /\ p \in Directs
    BY Zenon, <1>4, RaceAssumption DEF DirectCommit
  <2>2. balance'[Pending] = balance[Pending]
    BY ZenonT(30), <1>1, <1>2, <1>4, <2>1 DEF DirectCommit, HoldsTypeOK
  <2>3. Respects(p)
    BY SMTT(20), <1>2, <1>4, <2>2 DEF Respects, DirectCommit
  <2>. QED  BY Zenon, <1>1, <1>4, <2>1, <2>3, EndFits DEF DirectCommit, Ends, LocalTypeOK
<1>. QED  BY Zenon, <1>3, <1>4

\* A refund that commits owns the hold, the holding account and the task row.
LEMMA UndoFinishFits ==
  ASSUME RaceInv, NEW u \in Undoers, UndoFinish(u)
  PROVE  Fits(u)
<1>1. LocalTypeOK /\ HoldsTypeOK /\ u \in Users /\ UndoOwns(u)
  BY Zenon, TypeHalves, Roles DEF RaceInv
<1>2. PICK h \in HoldIds : h = Target[u]
  BY Zenon, RaceAssumption
<1>3. lock[HoldRow(h)] = u /\ lock[AccountRow(Pending)] = u
  BY Zenon, <1>1, <1>2 DEF UndoFinish, UndoOwns
<1>4. lock[TaskRow(h)] = Nobody
  <2>1. Wants(u) = {TaskRow(h)}
    BY Zenon, <1>2 DEF UndoFinish, Wants
  <2>. QED  BY Zenon, <2>1 DEF UndoFinish, Granted
<1>5. /\ hold' = [hold EXCEPT ![h] = "REFUNDED"]
      /\ task' = [task EXCEPT ![h] = IF @ = "PENDING" THEN "CANCELLED" ELSE @]
      /\ closed' = closed /\ undone' = undone \cup {<<h, UndoKey[u]>>}
  BY Zenon, <1>2 DEF UndoFinish
<1>6. Respects(u)
  <2>1. \A g \in HoldIds : hold[g] = "PENDING_UNDO" /\ lock[HoldRow(g)] \notin {u, Nobody}
                             => hold'[g] = "PENDING_UNDO"
    BY Zenon, <1>1, <1>3, <1>5 DEF HoldsTypeOK
  <2>2. \A g \in HoldIds : task[g] = "PENDING" /\ lock[TaskRow(g)] \notin {u, Nobody}
                             => task'[g] = "PENDING"
    BY Zenon, <1>1, <1>4, <1>5 DEF HoldsTypeOK
  <2>. QED  BY Zenon, <1>3, <1>5, <2>1, <2>2 DEF Respects
<1>7. undone' \subseteq HoldIds \X Keys
  BY <1>1, <1>5 DEF LocalTypeOK, Keys
<1>. QED  BY Zenon, <1>1, <1>6, <1>7, EndFits DEF UndoFinish, Ends, LocalTypeOK

-----------------------------------------------------------------------------
(* The steps of the workers.                                               *)

\* What a worker has in memory, as far as types go.
LEMMA WorkerTypes ==
  ASSUME RaceInv, NEW w \in Workers
  PROVE  /\ LocalTypeOK /\ HoldsTypeOK /\ TaskTracksHold
         /\ ClaimsOwned(w) /\ BatchSplit(w) /\ DoneOwned(w)
         /\ w \in Procs /\ w # Nobody /\ w \notin Users /\ w \notin Undoers
         /\ batch[w] \in SUBSET HoldIds /\ done[w] \in SUBSET HoldIds
         /\ failed[w] \in SUBSET HoldIds /\ savepoint[w] \in SUBSET Rows
<1>1. LocalTypeOK /\ HoldsTypeOK /\ TaskTracksHold /\ WorkerOwns(w)
  BY Zenon, TypeHalves DEF RaceInv
<1>2. w \in Procs /\ w # Nobody /\ w \notin Users /\ w \notin Undoers
  BY Zenon, Roles, RolesAssumption
<1>. QED  BY Zenon, <1>1, <1>2 DEF LocalTypeOK, WorkerOwns

\* The end of a worker's transaction: commit or crash.
LEMMA ForgetFits ==
  ASSUME RaceInv, NEW w \in Workers, Forget(w), crashes' \in 0..MaxCrashes,
         UNCHANGED <<paid, undone>>, Respects(w)
  PROVE  Fits(w)
<1>1. LocalTypeOK /\ w \in Procs /\ w \notin Undoers
  BY Zenon, WorkerTypes
<1>2. LocksOf(w)
  BY Zenon, <1>1, ReleasedOwn DEF Forget
<1>3. MemoryOf(w)
  BY Zenon, <1>1 DEF Forget, MemoryOf, LocalTypeOK
<1>4. LocalTypeOK'
  BY Zenon, <1>1, <1>2 DEF Forget, LocksOf, LocalTypeOK, PcValues
<1>5. /\ pc'[w] = "idle" /\ batch'[w] = {} /\ done'[w] = {} /\ failed'[w] = {}
      /\ savepoint'[w] = {}
  BY Zenon, <1>1 DEF Forget, LocalTypeOK
<1>6. WorkerOwns(w)'
  BY Zenon, <1>5 DEF WorkerOwns, ClaimsOwned, Claimed, InSavepoint, BatchSplit, DoneOwned
<1>. QED  BY Zenon, <1>1, <1>2, <1>3, <1>4, <1>6 DEF Fits, Respects

\* Only pending tasks that nobody has locked are claimed.
LEMMA ClaimFits ==
  ASSUME RaceInv, NEW w \in Workers, ClaimBatch(w)
  PROVE  Fits(w)
<1>1. LocalTypeOK /\ w \in Procs /\ w # Nobody /\ w \notin Undoers /\ BatchSplit(w)
  BY Zenon, WorkerTypes
<1>2. PICK B \in SUBSET Claimable :
        /\ B # {}
        /\ batch' = [batch EXCEPT ![w] = B]
        /\ lock' = [r \in Rows |-> IF \E h \in B : r = TaskRow(h) THEN w ELSE lock[r]]
  BY Zenon DEF ClaimBatch
<1>3. \A h \in B : h \in HoldIds /\ task[h] = "PENDING" /\ lock[TaskRow(h)] = Nobody
  BY Zenon DEF Claimable
<1>4. LocksOf(w)
  <2>1. lock' \in [Rows -> Procs \cup {Nobody}]
    BY Zenon, <1>1, <1>2 DEF LocalTypeOK
  <2>2. \A r \in Rows : lock[r] \notin {w, Nobody} => lock'[r] = lock[r]
    BY Zenon, <1>2, <1>3
  <2>. QED  BY Zenon, <2>1, <2>2 DEF LocksOf
<1>5. MemoryOf(w)
  BY Zenon, <1>1, <1>2 DEF ClaimBatch, MemoryOf, LocalTypeOK
<1>6. LocalTypeOK'
  BY ZenonT(30), <1>1, <1>2, <1>3, <1>4 DEF ClaimBatch, LocalTypeOK, LocksOf, PcValues, stored
<1>7. /\ pc'[w] = "next" /\ batch'[w] = B /\ savepoint'[w] = {} /\ done'[w] = {}
      /\ failed'[w] = {} /\ task' = task
  BY Zenon, <1>1, <1>2 DEF ClaimBatch, LocalTypeOK, BatchSplit, stored
<1>8. \A h \in B : lock'[TaskRow(h)] = w
  BY Zenon, <1>2, <1>3, RowsExist
<1>9. WorkerOwns(w)'
  <2>1. ClaimsOwned(w)'
    BY Zenon, <1>3, <1>7, <1>8 DEF ClaimsOwned, Claimed, InSavepoint, TaskRow
  <2>2. BatchSplit(w)' /\ DoneOwned(w)'
    BY Zenon, <1>2, <1>7 DEF BatchSplit, InSavepoint, DoneOwned
  <2>. QED  BY Zenon, <2>1, <2>2 DEF WorkerOwns
<1>10. Respects(w)
  BY Zenon, StoredKept DEF ClaimBatch
<1>. QED  BY Zenon, <1>1, <1>4, <1>5, <1>6, <1>9, <1>10 DEF Fits

\* The hold of a claimed task is still pending, so the savepoint of its task is
\* opened: the branch that finds nothing to do is never taken.
LEMMA BeginTaskFits ==
  ASSUME RaceInv, NEW w \in Workers, BeginTask(w)
  PROVE  Fits(w)
<1>1. /\ LocalTypeOK /\ HoldsTypeOK /\ TaskTracksHold /\ w \in Procs /\ w \notin Undoers
      /\ ClaimsOwned(w) /\ BatchSplit(w) /\ DoneOwned(w)
      /\ batch[w] \in SUBSET HoldIds
  BY Zenon, WorkerTypes
<1>2. PICK h \in batch[w] :
        /\ current' = [current EXCEPT ![w] = IF hold[h] = "PENDING_UNDO" THEN h ELSE @]
        /\ batch' = [batch EXCEPT ![w] = @ \ {h}]
        /\ done' = [done EXCEPT ![w] = IF hold[h] = "PENDING_UNDO" THEN @ ELSE @ \cup {h}]
        /\ pc' = [pc EXCEPT ![w] = IF hold[h] = "PENDING_UNDO" THEN "latch" ELSE @]
  BY Zenon DEF BeginTask
<1>3. h \in HoldIds /\ hold[h] = "PENDING_UNDO"
  <2>1. h \in HoldIds /\ task[h] = "PENDING"
    BY Zenon, <1>1 DEF ClaimsOwned, Claimed
  <2>. QED  BY Zenon, <1>1, <2>1 DEF TaskTracksHold
<1>4. UNCHANGED <<stored, lock, savepoint, failed, crashes>> /\ pc[w] = "next"
  BY Zenon DEF BeginTask
<1>5. LocksOf(w)
  BY Zenon, <1>1, <1>4 DEF LocksOf, LocalTypeOK
<1>6. done' = done
  BY Zenon, <1>1, <1>2, <1>3 DEF LocalTypeOK
<1>7. MemoryOf(w)
  BY Zenon, <1>1, <1>2, <1>4, <1>6 DEF MemoryOf, LocalTypeOK
<1>8. LocalTypeOK'
  BY Zenon, <1>1, <1>2, <1>3, <1>4, <1>6 DEF LocalTypeOK, PcValues, stored
<1>9. pc'[w] = "latch" /\ batch'[w] = batch[w] \ {h} /\ current'[w] = h
  BY Zenon, <1>1, <1>2, <1>3 DEF LocalTypeOK
<1>10. WorkerOwns(w)'
  <2>1. ClaimsOwned(w)'
    BY Zenon, <1>1, <1>3, <1>4, <1>6, <1>9
       DEF ClaimsOwned, Claimed, InSavepoint, TaskRow, stored
  <2>2. BatchSplit(w)'
    BY ZenonT(30), <1>1, <1>3, <1>4, <1>6, <1>9 DEF BatchSplit, InSavepoint
  <2>3. DoneOwned(w)'
    BY ZenonT(30), <1>1, <1>4, <1>6 DEF DoneOwned, Keeps, stored, HoldRow, AccountRow, Worth
  <2>. QED  BY Zenon, <2>1, <2>2, <2>3 DEF WorkerOwns
<1>11. Respects(w)
  BY ZenonT(30), <1>4, StoredKept
<1>. QED  BY Zenon, <1>1, <1>5, <1>7, <1>8, <1>10, <1>11 DEF Fits

\* Latching the status and locking the accounts add rows to the savepoint which the
\* worker did not have before.
LEMMA WorkerLocksFit ==
  ASSUME RaceInv, NEW w \in Workers, WorkerLatch(w) \/ LockAccount(w)
  PROVE  Fits(w)
<1>1. /\ LocalTypeOK /\ HoldsTypeOK /\ w \in Procs /\ w # Nobody /\ w \notin Undoers
      /\ w \notin Users /\ ClaimsOwned(w) /\ BatchSplit(w) /\ DoneOwned(w)
      /\ done[w] \in SUBSET HoldIds
  BY Zenon, WorkerTypes
<1>2. /\ Granted(w) /\ lock' = Taken(w) /\ InSavepoint(w)
      /\ UNCHANGED <<stored, batch, current, done, failed, crashes>>
  BY Zenon DEF WorkerLatch, LockAccount, InSavepoint
<1>3. current[w] \in HoldIds
  BY Zenon, <1>1, <1>2 DEF BatchSplit
<1>4. /\ LocksOf(w)
      /\ \A r \in Rows : lock[r] = w => lock'[r] = w
      /\ \A r \in Rows : r \in Wants(w) => lock[r] = Nobody /\ lock'[r] = w
  BY ZenonT(30), <1>1, <1>2, TakenFree
<1>5. /\ pc' \in [Procs -> PcValues] /\ pc'[w] = "lock"
      /\ \A q \in Procs : q # w => pc'[q] = pc[q]
  BY Zenon, <1>1 DEF WorkerLatch, LockAccount, LocalTypeOK, PcValues
<1>6. HoldOf(w) = current[w]
  BY Zenon, <1>1 DEF HoldOf, Users
<1>7. Wants(w) \subseteq Rows
  <2>1. CASE WorkerLatch(w)
    <3>1. Wants(w) = {HoldRow(current[w])}
      BY Zenon, <1>6, <2>1 DEF WorkerLatch, Wants
    <3>. QED  BY Zenon, <1>3, <3>1, RowsExist
  <2>2. CASE LockAccount(w)
    BY Zenon, <1>1, <2>2, LockWants DEF LockAccount
  <2>. QED  BY Zenon, <2>1, <2>2
<1>8. /\ savepoint' \in [Workers -> SUBSET Rows]
      /\ savepoint'[w] = savepoint[w] \cup Wants(w)
      /\ \A v \in Workers : v # w => savepoint'[v] = savepoint[v]
  BY SMTT(20), <1>1, <1>7 DEF WorkerLatch, LockAccount, LocalTypeOK
<1>9. MemoryOf(w)
  BY ZenonT(30), <1>2, <1>5, <1>8 DEF MemoryOf
<1>10. LocalTypeOK'
  BY Zenon, <1>1, <1>2, <1>4, <1>5, <1>8 DEF LocalTypeOK, LocksOf, stored
<1>11. \A r \in Rows : Keeps(w, r) => lock'[r] = w /\ r \notin savepoint'[w]
  BY ZenonT(30), <1>1, <1>4, <1>8 DEF Keeps
<1>12. ClaimsOwned(w)'
  <2>1. \A h \in HoldIds : Claimed(w, h)' <=> Claimed(w, h)
    BY Zenon, <1>2, <1>5 DEF Claimed, InSavepoint
  <2>2. ASSUME NEW h \in HoldIds, Claimed(w, h)
        PROVE  task'[h] = "PENDING" /\ lock'[TaskRow(h)] = w /\ TaskRow(h) \notin savepoint'[w]
    BY ZenonT(30), <1>1, <1>2, <1>11, <2>2, RowsExist DEF ClaimsOwned, Keeps, stored
  <2>. QED  BY ZenonT(30), <2>1, <2>2 DEF ClaimsOwned, TaskRow
<1>13. BatchSplit(w)'
  <2>1. lock'[HoldRow(current[w])] = w
    <3>1. CASE WorkerLatch(w)
      <4>1. HoldRow(current[w]) \in Wants(w)
        BY Zenon, <1>6, <3>1 DEF WorkerLatch, Wants
      <4>. QED  BY Zenon, <1>3, <1>4, <4>1, RowsExist
    <3>2. CASE LockAccount(w)
      BY ZenonT(30), <1>1, <1>3, <1>4, <3>2, RowsExist DEF LockAccount, BatchSplit
    <3>. QED  BY Zenon, <3>1, <3>2
  <2>. QED  BY Zenon, <1>1, <1>2, <1>5, <2>1 DEF BatchSplit, InSavepoint, HoldRow
<1>14. DoneOwned(w)'
  <2>1. ASSUME NEW h \in done[w]
        PROVE  /\ lock'[HoldRow(h)] = w /\ HoldRow(h) \notin savepoint'[w]
               /\ lock'[AccountRow(Receiver[h])] = w
               /\ AccountRow(Receiver[h]) \notin savepoint'[w]
               /\ Receiver[h] \notin closed'
    <3>1. HoldRow(h) \in Rows /\ AccountRow(Receiver[h]) \in Rows
      BY Zenon, <1>1, HoldParts, RowsExist
    <3>. QED  BY ZenonT(30), <1>1, <1>2, <1>11, <3>1 DEF DoneOwned, stored
  <2>2. ASSUME done[w] # {}
        PROVE  /\ lock'[AccountRow(Pending)] = w /\ AccountRow(Pending) \notin savepoint'[w]
               /\ balance'[Pending] >= Worth(done[w])
    BY Zenon, <1>1, <1>2, <1>11, <2>2, RowsExist, HoldsAssumption DEF DoneOwned, stored
  <2>. QED  BY ZenonT(30), <1>2, <2>1, <2>2 DEF DoneOwned, Keeps, HoldRow, AccountRow, Worth
<1>15. Respects(w)
  BY Zenon, <1>2, StoredKept
<1>. QED  BY Zenon, <1>1, <1>4, <1>9, <1>10, <1>12, <1>13, <1>14, <1>15 DEF Fits, WorkerOwns

\* The holds a worker has settled are those of its completed tasks.
LEMMA SettledIsDone ==
  ASSUME RaceInv, NEW w \in Workers
  PROVE  Settled(w) = done[w]
BY Zenon, WorkerTypes DEF Settled, DoneOwned, Keeps

\* A settlement that is possible after those already made in the batch leaves the
\* worker with all rows it needs, outside any savepoint.
LEMMA SettleFits ==
  ASSUME RaceInv, NEW w \in Workers, SettleTask(w)
  PROVE  Fits(w)
<1>1. /\ LocalTypeOK /\ HoldsTypeOK /\ w \in Procs /\ w \notin Undoers /\ w \notin Users
      /\ ClaimsOwned(w) /\ BatchSplit(w) /\ DoneOwned(w)
      /\ done[w] \in SUBSET HoldIds
  BY Zenon, WorkerTypes
<1>2. /\ pc[w] = "lock" /\ Missing(w) = {} /\ CanSettle(w)
      /\ UNCHANGED <<stored, lock, batch, failed, crashes>>
  BY Zenon DEF SettleTask, Locked
<1>3. PICK c \in HoldIds : c = current[w]
  BY Zenon, <1>1, <1>2 DEF BatchSplit, InSavepoint
<1>4. c \notin batch[w] /\ c \notin done[w] /\ c \notin failed[w] /\ lock[HoldRow(c)] = w
  BY Zenon, <1>1, <1>2, <1>3 DEF BatchSplit, InSavepoint
<1>5. lock[AccountRow(Pending)] = w /\ lock[AccountRow(Receiver[c])] = w
  <2>1. AccountsOf(w) = {Pending, Receiver[c]}
    BY Zenon, <1>1, <1>3 DEF AccountsOf, HoldOf, Users
  <2>. QED  BY Zenon, <1>2, <2>1 DEF Missing
<1>6. Receiver[c] \notin closed /\ balance[Pending] >= Worth(done[w] \cup {c})
  <2>1. Receiver[c] \notin closed /\ balance[Pending] - Worth(done[w]) >= Amount[c]
    BY Zenon, <1>2, <1>3, SettledIsDone DEF CanSettle
  <2>2. Worth(done[w] \cup {c}) = Worth(done[w]) + Worth({c})
    <3>1. done[w] \cap {c} = {}
      BY Zenon, <1>4
    <3>. QED  BY Zenon, <1>1, <3>1, WorthUnion
  <2>3. Worth({c}) = Amount[c] /\ Amount[c] \in Nat /\ Worth(done[w]) \in Nat
    BY Zenon, <1>1, WorthSingle, WorthType
  <2>4. balance[Pending] \in Nat
    BY Zenon, <1>1, HoldsAssumption DEF HoldsTypeOK
  <2>. QED  BY SMTT(20), <2>1, <2>2, <2>3, <2>4
<1>7. LocksOf(w)
  BY Zenon, <1>1, <1>2 DEF LocksOf, LocalTypeOK
<1>8. MemoryOf(w)
  BY Zenon, <1>1, <1>2 DEF SettleTask, AfterTask, MemoryOf, LocalTypeOK
<1>9. LocalTypeOK'
  BY Zenon, <1>1, <1>2, <1>3 DEF SettleTask, AfterTask, LocalTypeOK, PcValues, stored
<1>10. pc'[w] = "next" /\ done'[w] = done[w] \cup {c} /\ savepoint'[w] = {}
  BY Zenon, <1>1, <1>3 DEF SettleTask, AfterTask, LocalTypeOK
<1>11. ClaimsOwned(w)'
  <2>1. \A h \in HoldIds : Claimed(w, h)' => Claimed(w, h)
    BY ZenonT(30), <1>2, <1>3, <1>10 DEF Claimed, InSavepoint
  <2>. QED  BY ZenonT(30), <1>1, <1>2, <1>10, <2>1 DEF ClaimsOwned, TaskRow, stored
<1>12. BatchSplit(w)'
  BY SMTT(20), <1>1, <1>2, <1>4, <1>10 DEF BatchSplit, InSavepoint
<1>13. DoneOwned(w)'
  <2>1. \A h \in done[w] \cup {c} :
          /\ lock[HoldRow(h)] = w /\ lock[AccountRow(Receiver[h])] = w
          /\ Receiver[h] \notin closed
    BY Zenon, <1>1, <1>4, <1>5, <1>6 DEF DoneOwned, Keeps
  <2>. QED  BY ZenonT(30), <1>2, <1>5, <1>6, <1>10, <2>1
            DEF DoneOwned, Keeps, stored, HoldRow, AccountRow, Worth
<1>14. Respects(w)
  BY Zenon, <1>2, StoredKept
<1>. QED  BY Zenon, <1>1, <1>7, <1>8, <1>9, <1>11, <1>12, <1>13, <1>14 DEF Fits, WorkerOwns

\* Going back to the savepoint frees nothing that a completed or a claimed task needs.
LEMMA FailFits ==
  ASSUME RaceInv, NEW w \in Workers, TaskFails(w)
  PROVE  Fits(w)
<1>1. /\ LocalTypeOK /\ HoldsTypeOK /\ w \in Procs /\ w \notin Undoers
      /\ ClaimsOwned(w) /\ BatchSplit(w) /\ DoneOwned(w)
      /\ done[w] \in SUBSET HoldIds
  BY ZenonT(30), WorkerTypes
<1>2. /\ InSavepoint(w) /\ lock' = Released(w, savepoint[w])
      /\ UNCHANGED <<stored, batch, done, crashes>>
  BY Zenon DEF TaskFails, Locked, InSavepoint
<1>3. PICK c \in HoldIds : c = current[w]
  BY ZenonT(30), <1>1, <1>2 DEF BatchSplit
<1>4. c \notin batch[w] /\ c \notin done[w] /\ c \notin failed[w]
  BY Zenon, <1>1, <1>2, <1>3 DEF BatchSplit
<1>5. LocksOf(w)
  BY Zenon, <1>1, <1>2, ReleasedOwn
<1>6. \A r \in Rows : Keeps(w, r) => lock'[r] = w
  BY Zenon, <1>2 DEF Keeps, Released
<1>7. MemoryOf(w)
  BY Zenon, <1>1, <1>2 DEF TaskFails, AfterTask, MemoryOf, LocalTypeOK
<1>8. LocalTypeOK'
  BY Zenon,
     <1>1, <1>2, <1>3, <1>5 DEF TaskFails, AfterTask, LocalTypeOK, LocksOf, PcValues, stored
<1>9. pc'[w] = "next" /\ failed'[w] = failed[w] \cup {c} /\ savepoint'[w] = {}
  BY Zenon, <1>1, <1>3 DEF TaskFails, AfterTask, LocalTypeOK
<1>10. ClaimsOwned(w)'
  <2>1. \A h \in HoldIds : Claimed(w, h)' => Claimed(w, h)
    BY Zenon, <1>2, <1>3, <1>9 DEF Claimed, InSavepoint
  <2>2. \A h \in HoldIds : Claimed(w, h) => task[h] = "PENDING" /\ lock'[TaskRow(h)] = w
    BY Zenon, <1>1, <1>6, RowsExist DEF ClaimsOwned, Keeps
  <2>. QED  BY Zenon, <1>2, <1>9, <2>1, <2>2 DEF ClaimsOwned, TaskRow, stored
<1>11. BatchSplit(w)'
  BY ZenonT(30), <1>1, <1>2, <1>4, <1>9 DEF BatchSplit, InSavepoint
<1>12. DoneOwned(w)'
  <2>1. ASSUME NEW h \in done[w]
        PROVE  /\ lock'[HoldRow(h)] = w /\ lock'[AccountRow(Receiver[h])] = w
               /\ Receiver[h] \notin closed
    <3>1. HoldRow(h) \in Rows /\ AccountRow(Receiver[h]) \in Rows
      BY ZenonT(30), <1>1, HoldParts, RowsExist
    <3>. QED  BY Zenon, <1>1, <1>6, <3>1 DEF DoneOwned
  <2>2. done[w] # {} =>
          lock'[AccountRow(Pending)] = w /\ balance[Pending] >= Worth(done[w])
    BY Zenon, <1>1, <1>6, RowsExist, HoldsAssumption DEF DoneOwned
  <2>. QED  BY ZenonT(30),
               <1>2, <1>9, <2>1, <2>2 DEF DoneOwned, Keeps, stored, HoldRow, AccountRow, Worth
<1>13. Respects(w)
  BY Zenon, <1>2, StoredKept
<1>. QED  BY ZenonT(30), <1>1, <1>5, <1>7, <1>8, <1>10, <1>11, <1>12, <1>13 DEF Fits, WorkerOwns

\* The commit of a batch is run_due_tasks in one step, on the completed and on the
\* failed tasks.
LEMMA CommitRunsTasks ==
  ASSUME RaceInv, NEW w \in Workers, WorkerCommit(w)
  PROVE  /\ done[w] \in SUBSET Due /\ failed[w] \in SUBSET (Due \ done[w])
         /\ RunDueTasks(done[w], failed[w])
<1>1. /\ LocalTypeOK /\ HoldsTypeOK /\ TaskTracksHold
      /\ ClaimsOwned(w) /\ BatchSplit(w) /\ DoneOwned(w)
      /\ done[w] \in SUBSET HoldIds /\ failed[w] \in SUBSET HoldIds
  BY Zenon, WorkerTypes
<1>2. \A h \in done[w] \cup failed[w] : h \in HoldIds /\ task[h] = "PENDING"
  BY Zenon, <1>1 DEF ClaimsOwned, Claimed
<1>3. done[w] \in SUBSET Due /\ failed[w] \in SUBSET (Due \ done[w])
  BY Zenon, <1>1, <1>2 DEF Due, BatchSplit
<1>4. done[w] \cup failed[w] # {}
  BY ZenonT(30), <1>1 DEF WorkerCommit, BatchSplit
<1>5. \A h \in done[w] : hold[h] = "PENDING_UNDO" /\ Receiver[h] \notin closed
  BY ZenonT(30), <1>1, <1>2 DEF TaskTracksHold, DoneOwned
<1>6. balance[Pending] >= Worth(done[w])
  <2>1. CASE done[w] = {}
    <3>1. Worth(done[w]) = 0
      BY Zenon, <2>1, NatSumEmpty DEF Worth
    <3>2. balance[Pending] \in Nat
      BY ZenonT(30), <1>1, HoldsAssumption DEF HoldsTypeOK
    <3>. QED  BY <3>1, <3>2
  <2>2. CASE done[w] # {}
    BY Zenon, <1>1, <2>2 DEF DoneOwned
  <2>. QED  BY Zenon, <2>1, <2>2
<1>7. /\ balance' = PaidOut(done[w])
      /\ hold' = [h \in HoldIds |-> IF h \in done[w] THEN "SUCCEEDED" ELSE hold[h]]
      /\ task' = [h \in HoldIds |-> IF h \in done[w] THEN "DONE"
                                    ELSE IF h \in failed[w] THEN AfterFailure(h) ELSE task[h]]
      /\ attempts' = [h \in HoldIds |-> IF h \in failed[w] THEN attempts[h] + 1
                                                           ELSE attempts[h]]
      /\ UNCHANGED closed
  BY ZenonT(30), SettledIsDone DEF WorkerCommit
<1>. QED  BY <1>3, <1>4, <1>5, <1>6, <1>7, Zenon DEF RunDueTasks

\* A batch that commits changes only holds, tasks and accounts whose rows it has.
LEMMA CommitFits ==
  ASSUME RaceInv, NEW w \in Workers, WorkerCommit(w)
  PROVE  Fits(w)
<1>1. /\ LocalTypeOK /\ HoldsTypeOK /\ w # Nobody
      /\ ClaimsOwned(w) /\ BatchSplit(w) /\ DoneOwned(w)
      /\ done[w] \in SUBSET HoldIds /\ failed[w] \in SUBSET HoldIds
  BY Zenon, WorkerTypes
<1>2. Settled(w) = done[w]
  BY Zenon, SettledIsDone
<1>3. \A h \in HoldIds : hold[h] = "PENDING_UNDO" /\ lock[HoldRow(h)] \notin {w, Nobody}
                           => hold'[h] = "PENDING_UNDO"
  BY ZenonT(30), <1>1, <1>2 DEF WorkerCommit, DoneOwned, Keeps
<1>4. \A h \in HoldIds : task[h] = "PENDING" /\ lock[TaskRow(h)] \notin {w, Nobody}
                           => task'[h] = "PENDING"
  BY ZenonT(30), <1>1 DEF WorkerCommit, ClaimsOwned, Claimed
<1>5. lock[AccountRow(Pending)] \notin {w, Nobody} => balance'[Pending] >= balance[Pending]
  <2> SUFFICES ASSUME lock[AccountRow(Pending)] \notin {w, Nobody}
               PROVE  balance'[Pending] >= balance[Pending]
    BY Zenon
  <2>1. done[w] = {}
    BY Zenon, <1>1 DEF DoneOwned, Keeps
  <2>2. Worth(done[w]) = 0
    BY Zenon, <2>1, NatSumEmpty DEF Worth
  <2>3. balance'[Pending] = balance[Pending] - Worth(done[w])
    BY ZenonT(30), <1>2, HoldsAssumption DEF WorkerCommit, PaidOut
  <2>4. balance[Pending] \in Nat
    BY ZenonT(30), <1>1, HoldsAssumption DEF HoldsTypeOK
  <2>. QED  BY SMTT(30), <2>2, <2>3, <2>4
<1>6. closed' = closed
  BY Zenon DEF WorkerCommit
<1>7. Respects(w)
  BY Zenon, <1>3, <1>4, <1>5, <1>6 DEF Respects
<1>. QED  BY ZenonT(30), <1>1, <1>7, ForgetFits DEF WorkerCommit, LocalTypeOK

-----------------------------------------------------------------------------
(* The environment, and all steps together.                                *)

\* A process that dies leaves no trace.
LEMMA CrashFits ==
  ASSUME RaceInv, NEW p \in Procs, Crash(p)
  PROVE  Fits(p)
<1>1. LocalTypeOK
  BY TypeHalves DEF RaceInv
<1>2. crashes' \in 0..MaxCrashes
  BY <1>1, RaceAssumption DEF Crash, LocalTypeOK
<1>3. Respects(p)
  BY Zenon, StoredKept DEF Crash
<1>4. UNCHANGED <<paid, undone>> /\ paid' \subseteq Directs /\ undone' \subseteq HoldIds \X Keys
  BY Zenon, <1>1 DEF Crash, stored, LocalTypeOK
<1>5. CASE p \in Workers
  BY Zenon, <1>2, <1>3, <1>4, <1>5, ForgetFits DEF Crash
<1>6. CASE p \notin Workers
  <2>1. p \in Users
    BY Zenon, <1>6 DEF Procs
  <2>. QED  BY Zenon, <1>2, <1>3, <1>4, <1>6, <2>1, EndFits DEF Crash
<1>. QED  BY Zenon, <1>5, <1>6

\* An account is closed only when nobody has locked it.
LEMMA CloseFits ==
  ASSUME RaceInv, NEW a \in Accounts, CloseAccount(a)
  PROVE  Fits(Nobody)
<1>1. LocalTypeOK /\ balance[Pending] \in Nat
  BY Zenon, TypeHalves, HoldsAssumption DEF RaceInv, HoldsTypeOK
<1>2. Respects(Nobody)
  BY SMTT(20), <1>1 DEF CloseAccount, Close, Respects
<1>3. LocalTypeOK' /\ LocksOf(Nobody) /\ MemoryOf(Nobody)
  BY Zenon, <1>1 DEF CloseAccount, LocalTypeOK, LocksOf, MemoryOf, workerVars
<1>. QED  BY Zenon, <1>2, <1>3, Roles DEF Fits

\* Every step is a step of one process, or of no process.
LEMMA StepsFit ==
  ASSUME RaceInv, Next
  PROVE  \E p : Fits(p)
<1>1. ASSUME NEW p \in Users, PayBegin(p) PROVE Fits(p)
  BY Zenon, <1>1, BeginFits
<1>2. ASSUME NEW p \in Users, UserStep(p) PROVE Fits(p)
  <2>1. CASE LockAccount(p)
    BY Zenon, <2>1, UserLocks
  <2>2. CASE SendCommit(p) \/ DirectCommit(p)
    BY Zenon, <2>2, PaymentsFit
  <2>3. CASE PayReject(p) \/ WaitFails(p)
    BY Zenon, <2>3, RollbackFits DEF PayReject, WaitFails
  <2>4. CASE p \in Undoers /\ UndoStep(p)
    <3>1. CASE UndoReserve(p) \/ UndoLatch(p) \/ UndoRefund(p)
      BY Zenon, <2>4, <3>1, UndoMovesFit
    <3>2. CASE UndoAnswered(p) \/ UndoLatchLost(p) \/ UndoReject(p)
      BY Zenon, <3>2, RollbackFits DEF UndoAnswered, UndoLatchLost, UndoReject
    <3>3. CASE UndoFinish(p)
      BY Zenon, <2>4, <3>3, UndoFinishFits
    <3>. QED  BY <2>4, <3>1, <3>2, <3>3, Zenon DEF UndoStep
  <2>. QED  BY <1>2, <2>1, <2>2, <2>3, <2>4, Zenon DEF UserStep
<1>3. ASSUME NEW u \in Undoers, UndoBegin(u) PROVE Fits(u)
  BY Zenon, <1>3, BeginFits, Roles
<1>4. ASSUME NEW w \in Workers, WorkerStep(w) PROVE Fits(w)
  BY <1>4, ClaimFits, BeginTaskFits, WorkerLocksFit, SettleFits, FailFits, CommitFits, Zenon
     DEF WorkerStep
<1>5. ASSUME NEW p \in Procs, Crash(p) PROVE Fits(p)
  BY <1>5, CrashFits
<1>6. ASSUME NEW a \in Accounts, CloseAccount(a) PROVE Fits(Nobody)
  BY Zenon, <1>6, CloseFits
<1>. QED  BY <1>1, <1>2, <1>3, <1>4, <1>5, <1>6, Zenon DEF Next

\* A refund that commits is UndoableTransferService.undo in one step.
LEMMA FinishUndoes ==
  ASSUME RaceInv, NEW u \in Undoers, UndoFinish(u)
  PROVE  Target[u] \in HoldIds /\ Undo(Target[u])
<1>1. UndoOwns(u) /\ Target[u] \in HoldIds
  BY Zenon, RaceAssumption DEF RaceInv
<1>2. /\ hold[Target[u]] = "PENDING_UNDO" /\ Sender[Target[u]] \notin closed
      /\ balance[Pending] >= Amount[Target[u]]
  BY ZenonT(30), <1>1 DEF UndoFinish, UndoOwns
<1>. QED  BY Zenon, <1>1, <1>2 DEF UndoFinish, Undo

\* A direct payment that commits is a transfer between users.
LEMMA CommitPays ==
  ASSUME RaceInv, NEW p \in Directs, DirectCommit(p)
  PROVE  From[p] \in Accounts /\ To[p] \in Accounts /\ Pay(From[p], To[p])
<1>1. /\ From[p] \in Accounts \ {Pending} /\ To[p] \in Accounts \ {Pending}
      /\ From[p] # To[p] /\ Pays[p] \in Nat \ {0}
  BY Zenon, RaceAssumption
<1>2. balance[From[p]] \in Nat
  BY Zenon, <1>1 DEF RaceInv, TypeOK, HoldsTypeOK
<1>3. Pays[p] \in 1..balance[From[p]]
  BY SMTT(30), <1>1, <1>2 DEF DirectCommit, CanPay
<1>. QED  BY ZenonT(30), <1>1, <1>3 DEF DirectCommit, CanPay, Pay

\* Every step of the interleaved statements is one transaction of Holds, or none.
LEMMA StepImplements ==
  ASSUME RaceInv, [Next]_raceVars
  PROVE  [HoldsNext]_holdVars
<1>0. UNCHANGED stored => UNCHANGED holdVars
  BY Zenon DEF stored, holdVars
<1>1. ASSUME NEW p \in Users, PayBegin(p) PROVE UNCHANGED stored
  BY Zenon, <1>1 DEF PayBegin
<1>2. ASSUME NEW p \in Users, UserStep(p) PROVE UNCHANGED stored \/ HoldsNext
  <2>1. CASE SendCommit(p)
    <3>1. p[2] \in HoldIds
      BY SMTT(20), <2>1 DEF SendCommit, Senders
    <3>2. Send(p[2])
      BY Zenon, <2>1 DEF SendCommit, Send
    <3>. QED  BY Zenon, <3>1, <3>2 DEF HoldsNext
  <2>2. CASE DirectCommit(p)
    <3>1. p \in Directs
      BY Zenon, <2>2 DEF DirectCommit
    <3>. QED  BY <2>2, <3>1, CommitPays, Zenon DEF HoldsNext
  <2>3. CASE p \in Undoers /\ UndoFinish(p)
    BY <2>3, FinishUndoes, Zenon DEF HoldsNext
  <2>4. CASE LockAccount(p) \/ PayReject(p) \/ WaitFails(p)
    BY <2>4, Zenon DEF LockAccount, PayReject, WaitFails, Rollback
  <2>5. CASE \/ UndoReserve(p) \/ UndoAnswered(p) \/ UndoLatch(p) \/ UndoLatchLost(p)
             \/ UndoRefund(p) \/ UndoReject(p)
    BY <2>5, Zenon DEF UndoReserve, UndoAnswered, UndoLatch, UndoLatchLost, UndoRefund,
                       UndoReject, Rollback
  <2>. QED  BY <1>2, <2>1, <2>2, <2>3, <2>4, <2>5, Zenon DEF UserStep, UndoStep
<1>3. ASSUME NEW u \in Undoers, UndoBegin(u) PROVE UNCHANGED stored
  BY Zenon, <1>3 DEF UndoBegin
<1>4. ASSUME NEW w \in Workers, WorkerStep(w) PROVE UNCHANGED stored \/ HoldsNext
  <2>1. CASE WorkerCommit(w)
    BY <2>1, CommitRunsTasks, Zenon DEF HoldsNext
  <2>2. CASE ~WorkerCommit(w)
    BY <1>4, <2>2, Zenon DEF WorkerStep, ClaimBatch, BeginTask, WorkerLatch, LockAccount,
                             SettleTask, TaskFails
  <2>. QED  BY Zenon, <2>1, <2>2
<1>5. ASSUME NEW p \in Procs, Crash(p) PROVE UNCHANGED stored
  BY Zenon, <1>5 DEF Crash
<1>6. ASSUME NEW a \in Accounts, CloseAccount(a) PROVE HoldsNext
  BY <1>6, Zenon DEF CloseAccount, HoldsNext
<1>7. CASE UNCHANGED raceVars
  BY Zenon, <1>7 DEF raceVars, holdVars
<1>8. CASE Next
  BY <1>0, <1>1, <1>2, <1>3, <1>4, <1>5, <1>6, <1>8, Zenon DEF Next
<1>. QED  BY Zenon, <1>7, <1>8

\* Nothing has been claimed or locked at the start.
LEMMA RaceStart ==
  ASSUME Init
  PROVE  RaceInv
<1>1. HoldsTypeOK /\ TaskTracksHold
  BY SMTT(20), HoldsAssumption, HoldsOpeningAssumption, MaxAttemptsAssumption
     DEF Init, HoldsInit, HoldsTypeOK, TaskTracksHold, HoldStatuses, TaskStatuses
<1>2. LocalTypeOK
  BY SMTT(20), RaceAssumption DEF Init, LocalTypeOK, PcValues
<1>3. ASSUME NEW u \in Undoers PROVE UndoOwns(u)
  <2>1. pc[u] = "idle"
    BY Zenon, Roles DEF Init
  <2>. QED  BY Zenon, <2>1 DEF UndoOwns
<1>4. ASSUME NEW w \in Workers PROVE WorkerOwns(w)
  <2>1. /\ pc[w] = "idle" /\ batch[w] = {} /\ done[w] = {} /\ failed[w] = {}
        /\ savepoint[w] = {}
    BY Zenon, Roles DEF Init
  <2>. QED  BY Zenon, <2>1 DEF WorkerOwns, ClaimsOwned, Claimed, InSavepoint, BatchSplit, DoneOwned
<1>. QED  BY Zenon, <1>1, <1>2, <1>3, <1>4, TypeHalves DEF RaceInv

\* A step that changes nothing is a step of nobody.
LEMMA StutterFits ==
  ASSUME RaceInv, UNCHANGED raceVars
  PROVE  Fits(Nobody)
<1>1. LocalTypeOK
  BY Zenon, TypeHalves DEF RaceInv
<1>2. Respects(Nobody)
  BY Zenon, StoredKept DEF raceVars, stored
<1>3. LocalTypeOK' /\ LocksOf(Nobody) /\ MemoryOf(Nobody)
  BY Zenon, <1>1 DEF raceVars, LocalTypeOK, LocksOf, MemoryOf
<1>. QED  BY Zenon, <1>2, <1>3, Roles DEF Fits

\* Whatever step is taken, every open transaction still owns what it decided on.
LEMMA RaceStep ==
  ASSUME RaceInv, [Next]_raceVars
  PROVE  RaceInv'
<1>1. HoldsTypeOK /\ TaskTracksHold
  BY Zenon, TypeHalves DEF RaceInv
<1>2. HoldsTypeOK' /\ TaskTracksHold'
  BY Zenon, <1>1, StepImplements, TypeAndTasks
<1>3. PICK p : Fits(p)
  BY Zenon, StepsFit, StutterFits
<1>4. LocalTypeOK' /\ LocksOf(p) /\ MemoryOf(p) /\ Respects(p)
  BY Zenon, <1>3 DEF Fits
<1>5. ASSUME NEW u \in Undoers PROVE UndoOwns(u)'
  <2>1. CASE u = p
    BY Zenon, <1>3, <2>1 DEF Fits
  <2>2. CASE u # p
    BY Zenon, <1>2, <1>4, <2>2, OtherUndoKept
  <2>. QED  BY Zenon, <2>1, <2>2
<1>6. ASSUME NEW w \in Workers PROVE WorkerOwns(w)'
  <2>1. CASE w = p
    BY Zenon, <1>3, <2>1 DEF Fits
  <2>2. CASE w # p
    BY <1>2, <1>4, <2>2, OtherWorkerKept
  <2>. QED  BY <2>1, <2>2
<1>7. TypeOK'
  BY Zenon, <1>2, <1>4 DEF TypeOK, LocalTypeOK, PcValues
<1>. QED  BY Zenon, <1>2, <1>5, <1>6, <1>7 DEF RaceInv

\* Every open transaction owns what it decided on, in every reachable state: an undo
\* that latched its hold, the tasks a worker claimed, and the settlements it has
\* written and not yet committed, in spite of savepoints, failed waits and crashes.
THEOREM RaceInvariant == Spec => []RaceInv
<1>1. Init => RaceInv
  BY RaceStart
<1>2. RaceInv /\ [Next]_raceVars => RaceInv'
  BY Zenon, RaceStep
<1>. QED  BY <1>1, <1>2, PTL DEF Spec

\* Locks, balances, claims and idempotency rows always have their types.
THEOREM RaceTypes == Spec => []TypeOK
<1>1. RaceInv => TypeOK
  BY Zenon DEF RaceInv
<1>. QED  BY <1>1, RaceInvariant, PTL

\* The statements of undo, timer, payments and crashes, interleaved in any order, do
\* no more than the transactions of Holds one after the other.
THEOREM RaceRefinesHolds == Spec => ImplementsHolds
<1>1. Init => HoldsInit
  BY Zenon DEF Init
<1>2. RaceInv /\ [Next]_raceVars => [HoldsNext]_holdVars
  BY Zenon, StepImplements
<1>. QED  BY <1>1, <1>2, RaceInvariant, PTL DEF Spec, ImplementsHolds, HoldsSpec

\* At the level of statements too, the pending-settlement account holds exactly the
\* money of the open holds: no race pays a hold twice, or pays and refunds it.
THEOREM RaceKeepsHoldsBacked == Spec => []HoldingBacked
BY RaceRefinesHolds, HoldsAreBacked, PTL DEF ImplementsHolds

\* At the level of statements too, the task of a hold is pending or parked exactly
\* while the hold is open: no race loses the timer of a hold, or leaves one behind.
THEOREM RaceKeepsTasks == Spec => []TaskTracksHold
<1>1. RaceInv => TaskTracksHold
  BY Zenon DEF RaceInv
<1>. QED  BY <1>1, RaceInvariant, PTL

\* A refunded hold stays refunded, whatever transaction follows.
LEMMA RefundedStays ==
  ASSUME HoldsTypeOK, TaskTracksHold, [HoldsNext]_holdVars,
         NEW h \in HoldIds, hold[h] = "REFUNDED"
  PROVE  hold'[h] = "REFUNDED"
<1>1. ASSUME NEW g \in HoldIds, Send(g) PROVE hold'[h] = "REFUNDED"
  BY Zenon, <1>1 DEF Send, CanSend, HoldsTypeOK
<1>2. ASSUME NEW g \in HoldIds, Undo(g) PROVE hold'[h] = "REFUNDED"
  BY Zenon, <1>2 DEF Undo, HoldsTypeOK
<1>3. ASSUME NEW D \in SUBSET Due, NEW F \in SUBSET (Due \ D), RunDueTasks(D, F)
      PROVE  hold'[h] = "REFUNDED"
  BY Zenon, <1>3 DEF RunDueTasks
<1>4. ASSUME NEW a \in Accounts, Close(a) PROVE hold'[h] = "REFUNDED"
  BY Zenon, <1>4 DEF Close
<1>5. ASSUME NEW from \in Accounts, NEW to \in Accounts, Pay(from, to)
      PROVE  hold'[h] = "REFUNDED"
  BY Zenon, <1>5 DEF Pay
<1>6. CASE UNCHANGED holdVars
  BY Zenon, <1>6 DEF holdVars
<1>. QED  BY <1>1, <1>2, <1>3, <1>4, <1>5, <1>6, Zenon DEF HoldsNext

\* An undo is recorded as answered only by the step that refunds its hold.
LEMMA UndoneGrows ==
  ASSUME RaceInv, [Next]_raceVars, NEW e \in undone', e \notin undone
  PROVE  e[1] \in HoldIds /\ hold'[e[1]] = "REFUNDED"
<1>1. PICK u \in Undoers : UndoFinish(u)
  <2>1. undone' # undone
    BY Zenon
  <2>2. ASSUME NEW p \in Users, PayBegin(p) PROVE FALSE
    BY Zenon, <2>1, <2>2 DEF PayBegin, stored
  <2>3. ASSUME NEW p \in Users, UserStep(p), ~(p \in Undoers /\ UndoFinish(p)) PROVE FALSE
    <3>1. CASE SendCommit(p) \/ DirectCommit(p)
      BY Zenon, <2>1, <3>1 DEF SendCommit, DirectCommit
    <3>2. CASE LockAccount(p) \/ PayReject(p) \/ WaitFails(p)
      BY ZenonT(30), <2>1, <3>2 DEF LockAccount, PayReject, WaitFails, Rollback, stored
    <3>3. CASE \/ UndoReserve(p) \/ UndoAnswered(p) \/ UndoLatch(p) \/ UndoLatchLost(p)
               \/ UndoRefund(p) \/ UndoReject(p)
      BY ZenonT(30), <2>1, <3>3 DEF UndoReserve, UndoAnswered, UndoLatch, UndoLatchLost, UndoRefund,
                        UndoReject, Rollback, stored
    <3>. QED  BY <2>3, <3>1, <3>2, <3>3, Zenon DEF UserStep, UndoStep
  <2>4. ASSUME NEW u \in Undoers, UndoBegin(u) PROVE FALSE
    BY ZenonT(30), <2>1, <2>4 DEF UndoBegin, stored
  <2>5. ASSUME NEW w \in Workers, WorkerStep(w) PROVE FALSE
    BY Zenon, <2>1, <2>5 DEF WorkerStep, ClaimBatch, BeginTask, WorkerLatch, LockAccount,
                      SettleTask, TaskFails, WorkerCommit, stored
  <2>6. ASSUME NEW p \in Procs, Crash(p) PROVE FALSE
    BY Zenon, <2>1, <2>6 DEF Crash, stored
  <2>7. ASSUME NEW a \in Accounts, CloseAccount(a) PROVE FALSE
    BY Zenon, <2>1, <2>7 DEF CloseAccount
  <2>8. CASE UNCHANGED raceVars
    BY Zenon, <2>1, <2>8 DEF raceVars
  <2>. QED  BY <2>2, <2>3, <2>4, <2>5, <2>6, <2>7, <2>8, Zenon DEF Next
<1>2. e = <<Target[u], UndoKey[u]>> /\ Target[u] \in HoldIds
  BY ZenonT(30), <1>1, RaceAssumption DEF UndoFinish
<1>3. hold'[Target[u]] = "REFUNDED"
  BY Zenon, <1>1, <1>2 DEF UndoFinish, RaceInv, TypeOK, HoldsTypeOK
<1>. QED  BY Zenon, <1>2, <1>3

\* An undo that was answered with a refund is never contradicted by a later step.
THEOREM AnsweredUndosStayTrue == Spec => []UndoneIsRefunded
<1>1. Init => UndoneIsRefunded
  BY Zenon DEF Init, UndoneIsRefunded
<1>2. RaceInv /\ UndoneIsRefunded /\ [Next]_raceVars => UndoneIsRefunded'
  <2> SUFFICES ASSUME RaceInv, UndoneIsRefunded, [Next]_raceVars, NEW e \in undone'
               PROVE  hold'[e[1]] = "REFUNDED"
    BY Zenon DEF UndoneIsRefunded
  <2>1. CASE e \in undone
    <3>1. e[1] \in HoldIds /\ hold[e[1]] = "REFUNDED"
      BY Zenon, <2>1 DEF RaceInv, TypeOK, UndoneIsRefunded
    <3>2. HoldsTypeOK /\ TaskTracksHold
      BY Zenon DEF RaceInv, TypeOK
    <3>. QED  BY Zenon, <3>1, <3>2, StepImplements, RefundedStays
  <2>2. CASE e \notin undone
    BY Zenon, <2>2, UndoneGrows
  <2>. QED  BY Zenon, <2>1, <2>2
<1>. QED  BY <1>1, <1>2, RaceInvariant, PTL DEF Spec
=============================================================================
