---------------------------- MODULE SafePayProofs ----------------------------
(***************************************************************************)
(* Escrow keeps its promises for any orders, users, prices, idempotency    *)
(* keys, parcels and limits.                                               *)
(***************************************************************************)
EXTENDS SafePay, SumsProofs

\* What the assumptions say of one order.
LEMMA Parties ==
  ASSUME NEW e \in Escrows
  PROVE  /\ Buyer[e] \in Accounts /\ Seller[e] \in Accounts /\ EscrowAccount \in Accounts
         /\ Buyer[e] # EscrowAccount /\ Seller[e] # EscrowAccount
         /\ Price[e] \in Nat /\ Price[e] > 0
BY SafePayAssumption

\* Every command's idempotency row has a place.
LEMMA ScopeTypes ==
  ASSUME NEW e \in Escrows
  PROVE  /\ \A c \in Commands : \A k \in Keys[c] : <<c, e, k>> \in Scopes
         /\ \A k \in CodeKeys[e] : <<"code", e, k>> \in Scopes
         /\ \A c \in {"create", "courier"} : \A a \in Accounts :
              \A k \in Keys[c] : <<c, a, k>> \in Scopes
<1>1. ASSUME NEW c \in Commands, NEW k \in Keys[c] PROVE <<c, e, k>> \in Scopes
  <2>1. <<c, e, k>> \in {c} \X Escrows \X Keys[c]
    BY Zenon
  <2>. QED  BY <2>1, Zenon DEF Scopes
<1>2. ASSUME NEW k \in CodeKeys[e] PROVE <<"code", e, k>> \in Scopes
  <2>1. <<"code", e, k>> \in {"code"} \X {e} \X CodeKeys[e]
    BY Zenon
  <2>. QED  BY <2>1, Zenon DEF Scopes
<1>3. ASSUME NEW c \in {"create", "courier"}, NEW a \in Accounts, NEW k \in Keys[c]
      PROVE  <<c, a, k>> \in Scopes
  <2>1. <<c, a, k>> \in {c} \X Accounts \X Keys[c]
    BY Zenon
  <2>. QED  BY <2>1, Zenon DEF Scopes
<1>. QED  BY <1>1, <1>2, <1>3, Zenon

\* Endpoint c stores its response under a fresh key; a code key answers only for
\* its own order.
Responds(c, e, body) ==
  \E s \in Scopes : /\ s[1] = c /\ (c = "code" => s[2] = e)
                    /\ Fresh(s)
                    /\ Answer(s, e, body)

\* What the commands answer.
LEMMA Responding ==
  ASSUME NEW e \in Escrows
  PROVE  /\ \A k \in Keys["create"] : Create(e, k) => Responds("create", e, "AWAITING_SHIPMENT")
         /\ \A k \in Keys["ship"], p \in Parcels : Ship(e, k, p) => Responds("ship", e, "SHIPPED")
         /\ \A k \in Keys["confirm"] : Confirm(e, k) => Responds("confirm", e, "RELEASED")
         /\ \A k \in Keys["dispute"] : Dispute(e, k) => Responds("dispute", e, "DISPUTED")
         /\ \A k \in Keys["resolve"], ban \in BOOLEAN :
              ResolveRelease(e, k, ban) => Responds("resolve", e, "RELEASED")
         /\ \A k \in Keys["resolve"] : ResolveRefund(e, k) => Responds("resolve", e, "REFUNDED")
         /\ \A k \in CodeKeys[e] :
              /\ CodeLocked(e, k) => Responds("code", e, "LOCKED")
              /\ CodeWrong(e, k) =>
                   Responds("code", e, "INVALID") \/ Responds("code", e, "LOCKED_OUT")
              /\ CodeRight(e, k) => Responds("code", e, "RELEASED")
         /\ \A k \in Keys["courier"] :
              /\ Delivered(e, k) => Responds("courier", e, "DELIVERED")
              /\ DeliveredReleases(e, k) => Responds("courier", e, "RELEASED")
              /\ DeliveredLate(e, k) => Responds("courier", e, order[e])
<1>1. ASSUME NEW k \in Keys["create"], Create(e, k)
      PROVE  Responds("create", e, "AWAITING_SHIPMENT")
  <2>1. <<"create", Buyer[e], k>> \in Scopes
    BY Zenon, ScopeTypes, Parties DEF Commands
  <2>. QED  BY Zenon, <1>1, <2>1 DEF Create, Responds
<1>2. ASSUME NEW k \in Keys["ship"], NEW p \in Parcels, Ship(e, k, p)
      PROVE  Responds("ship", e, "SHIPPED")
  <2>1. <<"ship", e, k>> \in Scopes
    BY Zenon, ScopeTypes, Parties DEF Commands
  <2>. QED  BY Zenon, <1>2, <2>1 DEF Ship, Responds
<1>3. ASSUME NEW k \in Keys["confirm"], Confirm(e, k)
      PROVE  Responds("confirm", e, "RELEASED")
  <2>1. <<"confirm", e, k>> \in Scopes
    BY Zenon, ScopeTypes, Parties DEF Commands
  <2>. QED  BY Zenon, <1>3, <2>1 DEF Confirm, Responds
<1>4. ASSUME NEW k \in Keys["dispute"], Dispute(e, k)
      PROVE  Responds("dispute", e, "DISPUTED")
  <2>1. <<"dispute", e, k>> \in Scopes
    BY Zenon, ScopeTypes, Parties DEF Commands
  <2>. QED  BY Zenon, <1>4, <2>1 DEF Dispute, Responds
<1>5. ASSUME NEW k \in Keys["resolve"], NEW ban \in BOOLEAN, ResolveRelease(e, k, ban)
      PROVE  Responds("resolve", e, "RELEASED")
  <2>1. <<"resolve", e, k>> \in Scopes
    BY Zenon, ScopeTypes, Parties DEF Commands
  <2>. QED  BY Zenon, <1>5, <2>1 DEF ResolveRelease, Responds
<1>6. ASSUME NEW k \in Keys["resolve"], ResolveRefund(e, k)
      PROVE  Responds("resolve", e, "REFUNDED")
  <2>1. <<"resolve", e, k>> \in Scopes
    BY Zenon, ScopeTypes, Parties DEF Commands
  <2>. QED  BY Zenon, <1>6, <2>1 DEF ResolveRefund, Responds
<1>7. ASSUME NEW k \in CodeKeys[e], CodeLocked(e, k)
      PROVE  Responds("code", e, "LOCKED")
  <2>1. <<"code", e, k>> \in Scopes
    BY Zenon, ScopeTypes, Parties DEF Commands
  <2>. QED  BY Zenon, <1>7, <2>1 DEF CodeLocked, Responds
<1>8. ASSUME NEW k \in CodeKeys[e], CodeRight(e, k)
      PROVE  Responds("code", e, "RELEASED")
  <2>1. <<"code", e, k>> \in Scopes
    BY ScopeTypes, Parties DEF Commands
  <2>. QED  BY Zenon, <1>8, <2>1 DEF CodeRight, Responds
<1>9. ASSUME NEW k \in Keys["courier"], Delivered(e, k)
      PROVE  Responds("courier", e, "DELIVERED")
  <2>1. <<"courier", Seller[e], k>> \in Scopes
    BY Zenon, ScopeTypes, Parties DEF Commands
  <2>. QED  BY Zenon, <1>9, <2>1 DEF Delivered, Responds
<1>10. ASSUME NEW k \in Keys["courier"], DeliveredReleases(e, k)
      PROVE  Responds("courier", e, "RELEASED")
  <2>1. <<"courier", Seller[e], k>> \in Scopes
    BY ScopeTypes, Parties DEF Commands
  <2>. QED  BY Zenon, <1>10, <2>1 DEF DeliveredReleases, Responds
<1>11. ASSUME NEW k \in Keys["courier"], DeliveredLate(e, k)
      PROVE  Responds("courier", e, order[e])
  <2>1. <<"courier", Seller[e], k>> \in Scopes
    BY ScopeTypes, Parties DEF Commands
  <2>. QED  BY Zenon, <1>11, <2>1 DEF DeliveredLate, Responds
<1>12. ASSUME NEW k \in CodeKeys[e], CodeWrong(e, k)
       PROVE  Responds("code", e, "INVALID") \/ Responds("code", e, "LOCKED_OUT")
  <2>1. <<"code", e, k>> \in Scopes
    BY Zenon, ScopeTypes
  <2>2. \/ Answer(<<"code", e, k>>, e, "LOCKED_OUT")
        \/ Answer(<<"code", e, k>>, e, "INVALID")
    BY Zenon, <1>12 DEF CodeWrong
  <2>. QED  BY Zenon, <1>12, <2>1, <2>2 DEF CodeWrong, Responds
<1>. QED
  BY <1>1, <1>2, <1>3, <1>4, <1>5, <1>6, <1>7, <1>8, <1>9, <1>10, <1>11, <1>12, Zenon

-----------------------------------------------------------------------------
(* The steps, with the five ways to release an order in one.               *)

\* Whoever releases the order, its timer ends with it.
Releases(e) ==
  /\ ReleaseLocked(e)
  /\ \/ CancelTimer(e) /\ \E c \in DOMAIN Keys \cup {"code"} : Responds(c, e, "RELEASED")
     \/ /\ order[e] = "DELIVERED"
        /\ task' = [task EXCEPT ![e] = "DONE"]
        /\ UNCHANGED <<attempts, answers>>
  /\ closed' \in {closed, closed \cup {Buyer[e]}}
  /\ UNCHANGED <<placed, parcel>>

\* The worker finds nothing to do.
TimerIdle(e) ==
  /\ task[e] = "PENDING" /\ order[e] # "DELIVERED"
  /\ task' = [task EXCEPT ![e] = "DONE"]
  /\ UNCHANGED <<moneyVars, order, codeVars, closed, placed, parcel, attempts, answers>>

\* The orders a courier's parcel stands for are orders that were placed.
LEMMA FoundType ==
  ASSUME placed \in Seq(Escrows), NEW p
  PROVE  Found(p) \subseteq Escrows
<1>1. \A i \in DOMAIN placed : placed[i] \in Escrows
  OBVIOUS
<1>. QED  BY <1>1, Zenon DEF Found

\* However an order is released (by the buyer, a decision, the code or the courier), it
\* is the same release.
LEMMA ReleasesFolded ==
  ASSUME NEW e \in Escrows
  PROVE  /\ \A k \in Keys["confirm"] : Confirm(e, k) => Releases(e)
         /\ \A k \in Keys["resolve"], ban \in BOOLEAN :
              ResolveRelease(e, k, ban) => Releases(e)
         /\ \A k \in CodeKeys[e] : CodeRight(e, k) => Releases(e)
         /\ \A k \in Keys["courier"] : DeliveredReleases(e, k) => Releases(e)
         /\ AutoRelease(e) => Releases(e) \/ TimerIdle(e)
<1>1. ASSUME NEW k \in Keys["confirm"], Confirm(e, k) PROVE Releases(e)
  BY Zenon, <1>1, Responding, SafePayAssumption DEF Confirm, Releases
<1>2. ASSUME NEW k \in Keys["resolve"], NEW ban \in BOOLEAN, ResolveRelease(e, k, ban)
      PROVE  Releases(e)
  BY Zenon, <1>2, Responding, SafePayAssumption DEF ResolveRelease, Releases
<1>3. ASSUME NEW k \in CodeKeys[e], CodeRight(e, k) PROVE Releases(e)
  BY Zenon, <1>3, Responding DEF CodeRight, Releases
<1>4. ASSUME NEW k \in Keys["courier"], DeliveredReleases(e, k) PROVE Releases(e)
  BY Zenon, <1>4, Responding, SafePayAssumption DEF DeliveredReleases, Releases
<1>5. ASSUME AutoRelease(e) PROVE Releases(e) \/ TimerIdle(e)
  BY Zenon, <1>5 DEF AutoRelease, Releases, TimerIdle
<1>. QED  BY <1>1, <1>2, <1>3, <1>4, <1>5, Zenon

\* The steps, with the releases of the different handlers folded together.
LEMMA Steps ==
  ASSUME TypeOK, [Next]_vars
  PROVE  \/ \E e \in Escrows :
              \/ \E k \in Keys["create"] : Create(e, k)
              \/ \E k \in Keys["ship"], p \in Parcels : Ship(e, k, p)
              \/ \E k \in CodeKeys[e] : CodeLocked(e, k) \/ CodeWrong(e, k)
              \/ \E k \in Keys["dispute"] : Dispute(e, k)
              \/ \E k \in Keys["resolve"] : ResolveRefund(e, k)
              \/ \E k \in Keys["courier"] : Delivered(e, k) \/ DeliveredLate(e, k)
              \/ LockExpires(e) \/ AutoReleaseFails(e) \/ Releases(e) \/ TimerIdle(e)
         \/ UNCHANGED vars
<1>1. ASSUME NEW p \in Parcels, NEW k \in Keys["courier"], Courier(p, k)
      PROVE  \E e \in Escrows : Delivered(e, k) \/ DeliveredLate(e, k) \/ Releases(e)
  <2>1. PICK e \in Found(p) : Delivered(e, k) \/ DeliveredReleases(e, k) \/ DeliveredLate(e, k)
    BY Zenon, <1>1 DEF Courier
  <2>2. e \in Escrows
    BY Zenon, FoundType DEF TypeOK
  <2>. QED  BY Zenon, <2>1, <2>2, ReleasesFolded
<1>2. ASSUME NEW e \in Escrows, OfBuyer(e)
      PROVE  \/ \E k \in Keys["create"] : Create(e, k)
             \/ \E k \in Keys["dispute"] : Dispute(e, k)
             \/ Releases(e)
  BY <1>2, ReleasesFolded, Zenon DEF OfBuyer
<1>3. ASSUME NEW e \in Escrows, OfSeller(e)
      PROVE  \/ \E k \in Keys["ship"], p \in Parcels : Ship(e, k, p)
             \/ \E k \in CodeKeys[e] : CodeLocked(e, k) \/ CodeWrong(e, k)
             \/ Releases(e)
  BY <1>3, ReleasesFolded, Zenon DEF OfSeller
<1>4. ASSUME NEW e \in Escrows, OfAdmin(e)
      PROVE  (\E k \in Keys["resolve"] : ResolveRefund(e, k)) \/ Releases(e)
  BY <1>4, ReleasesFolded, Zenon DEF OfAdmin
<1>5. ASSUME NEW e \in Escrows, Worker(e)
      PROVE  AutoReleaseFails(e) \/ Releases(e) \/ TimerIdle(e)
  BY <1>5, ReleasesFolded, Zenon DEF Worker
<1>. QED  BY <1>1, <1>2, <1>3, <1>4, <1>5, Zenon DEF Next

\* Moving money one has leaves balances that are not negative.
LEMMA MovedType ==
  ASSUME NEW f \in [Accounts -> Nat], NEW a \in Accounts, NEW b \in Accounts, a # b,
         NEW m \in Nat, f[a] >= m
  PROVE  [f EXCEPT ![a] = @ - m, ![b] = @ + m] \in [Accounts -> Nat]
OBVIOUS

\* A response has the form of a response.
LEMMA ResponseType ==
  ASSUME TypeOK, NEW c, NEW e \in Escrows, NEW body \in OrderStatuses \cup Refusals,
         Responds(c, e, body)
  PROVE  answers' \in [Scopes -> Responses \cup {None}]
<1>1. [escrow |-> e, body |-> body] \in Responses
  BY Zenon DEF Responses
<1>. QED  BY Zenon, <1>1 DEF TypeOK, Responds, Answer

\* The limits are positive.
LEMMA Limits == MaxAttempts \in Nat /\ MaxAttempts > 0
                /\ MaxCodeAttempts \in Nat /\ MaxCodeAttempts > 0
BY SafePayAssumption

\* The timer of one order, before its delivery too.
TimerRight(e) ==
  /\ task[e] = "PENDING" => order[e] = "DELIVERED" /\ attempts[e] < MaxAttempts
  /\ order[e] = "DELIVERED" => task[e] \in {"PENDING", "FAILED"}
  /\ task[e] = "DONE" => order[e] = "RELEASED"
  /\ task[e] = "FAILED" => attempts[e] = MaxAttempts
  /\ order[e] \in {"none", "AWAITING_SHIPMENT", "SHIPPED"} =>
       task[e] = "none" /\ attempts[e] = 0

TimerInv == \A e \in Escrows : TimerRight(e)

\* The variables keep their types, which includes balances that are not negative and
\* attempts within MAX_ATTEMPTS.
LEMMA TypeInductive ==
  ASSUME TypeOK, TimerInv, [Next]_vars
  PROVE  TypeOK'
<1> USE DEF moneyVars, timerVars, codeVars
<1>1. ASSUME NEW e \in Escrows, NEW k \in Keys["create"], Create(e, k) PROVE TypeOK'
  <2>1. answers' \in [Scopes -> Responses \cup {None}]
    <3>1. Responds("create", e, "AWAITING_SHIPMENT")
      BY Zenon, <1>1, Responding
    <3>. QED  BY Zenon, <3>1, ResponseType DEF OrderStatuses, Live, Settled, Refusals
  <2>2. balance' \in [Accounts -> Nat]
    BY Zenon, <1>1, Parties, MovedType DEF Create, TypeOK
  <2>3. placed' \in Seq(Escrows)
    BY <1>1 DEF Create, TypeOK
  <2>. QED  BY Zenon, <1>1, <2>1, <2>2, <2>3, SafePayAssumption DEF Create, TypeOK, OrderStatuses,
        Live, Settled
<1>2. ASSUME NEW e \in Escrows, NEW k \in Keys["ship"], NEW p \in Parcels, Ship(e, k, p)
      PROVE  TypeOK'
  <2>1. answers' \in [Scopes -> Responses \cup {None}]
    <3>1. Responds("ship", e, "SHIPPED")
      BY Zenon, <1>2, Responding
    <3>. QED  BY Zenon, <3>1, ResponseType DEF OrderStatuses, Live, Settled, Refusals
  <2>. QED  BY Zenon, <1>2, <2>1, SafePayAssumption DEF Ship, TypeOK, OrderStatuses, Live, Settled
<1>3. ASSUME NEW e \in Escrows, NEW k \in CodeKeys[e], CodeLocked(e, k) PROVE TypeOK'
  <2>1. answers' \in [Scopes -> Responses \cup {None}]
    <3>1. Responds("code", e, "LOCKED")
      BY Zenon, <1>3, Responding
    <3>. QED  BY Zenon, <3>1, ResponseType DEF OrderStatuses, Live, Settled, Refusals
  <2>. QED  BY Zenon, <1>3, <2>1, SafePayAssumption DEF CodeLocked, TypeOK, OrderStatuses, Live,
        Settled
<1>4. ASSUME NEW e \in Escrows, NEW k \in CodeKeys[e], CodeWrong(e, k) PROVE TypeOK'
  <2>1. answers' \in [Scopes -> Responses \cup {None}]
    <3>1. Responds("code", e, "INVALID") \/ Responds("code", e, "LOCKED_OUT")
      BY Zenon, <1>4, Responding
    <3>. QED  BY Zenon, <3>1, ResponseType DEF OrderStatuses, Live, Settled, Refusals
  <2>2. LocksOut(wrong[e] + 1) \in BOOLEAN
    BY DEF LocksOut
  <2>3. wrong' \in [Escrows -> Nat] /\ locked' \in [Escrows -> BOOLEAN]
    BY <1>4, <2>2 DEF CodeWrong, TypeOK
  <2>. QED  BY <1>4, <2>1, <2>3, Zenon DEF CodeWrong, TypeOK
<1>5. ASSUME NEW e \in Escrows, NEW k \in Keys["dispute"], Dispute(e, k) PROVE TypeOK'
  <2>1. answers' \in [Scopes -> Responses \cup {None}]
    <3>1. Responds("dispute", e, "DISPUTED")
      BY Zenon, <1>5, Responding
    <3>. QED  BY Zenon, <3>1, ResponseType DEF OrderStatuses, Live, Settled, Refusals
  <2>. QED  BY Zenon, <1>5, <2>1, SafePayAssumption DEF Dispute, CancelTimer, TypeOK, OrderStatuses,
        Live, Settled
<1>6. ASSUME NEW e \in Escrows, NEW k \in Keys["resolve"], ResolveRefund(e, k) PROVE TypeOK'
  <2>1. answers' \in [Scopes -> Responses \cup {None}]
    <3>1. Responds("resolve", e, "REFUNDED")
      BY Zenon, <1>6, Responding
    <3>. QED  BY Zenon, <3>1, ResponseType DEF OrderStatuses, Live, Settled, Refusals
  <2>2. balance' \in [Accounts -> Nat]
    BY Zenon, <1>6, Parties, MovedType DEF ResolveRefund, RefundLocked, Settle, TypeOK
  <2>. QED  BY Zenon, <1>6, <2>1, <2>2, SafePayAssumption DEF ResolveRefund, RefundLocked, Settle,
        MarkSettled, TypeOK, OrderStatuses, Live, Settled
<1>7. ASSUME NEW e \in Escrows, NEW k \in Keys["courier"], Delivered(e, k) PROVE TypeOK'
  <2>1. answers' \in [Scopes -> Responses \cup {None}]
    <3>1. Responds("courier", e, "DELIVERED")
      BY Zenon, <1>7, Responding
    <3>. QED  BY Zenon, <3>1, ResponseType DEF OrderStatuses, Live, Settled, Refusals
  <2>. QED  BY Zenon, <1>7, <2>1, SafePayAssumption DEF Delivered, Schedule, TypeOK, OrderStatuses,
        Live, Settled
<1>8. ASSUME NEW e \in Escrows, NEW k \in Keys["courier"], DeliveredLate(e, k) PROVE TypeOK'
  <2>1. answers' \in [Scopes -> Responses \cup {None}]
    <3>1. Responds("courier", e, order[e])
      BY Zenon, <1>8, Responding
    <3>2. order[e] \in OrderStatuses
      BY Zenon DEF TypeOK
    <3>. QED  BY Zenon, <3>1, <3>2, ResponseType
  <2>. QED  BY Zenon, <1>8, <2>1, SafePayAssumption DEF DeliveredLate, TypeOK, OrderStatuses, Live,
        Settled
<1>9. ASSUME NEW e \in Escrows, LockExpires(e) PROVE TypeOK'
  BY Zenon, <1>9 DEF LockExpires, TypeOK, OrderStatuses, Live, Settled, Refusals
<1>10. ASSUME NEW e \in Escrows, AutoReleaseFails(e) PROVE TypeOK'
  BY <1>10, Limits DEF AutoReleaseFails, TypeOK, TimerInv, TimerRight
<1>11. ASSUME NEW e \in Escrows, Releases(e) PROVE TypeOK'
  <2>1. answers' \in [Scopes -> Responses \cup {None}]
    BY Zenon, <1>11, ResponseType DEF Releases, OrderStatuses, Settled, TypeOK
  <2>2. balance' \in [Accounts -> Nat]
    BY Zenon, <1>11, Parties, MovedType DEF Releases, ReleaseLocked, Settle, TypeOK
  <2>3. closed' \subseteq Accounts \ {EscrowAccount}
    BY Zenon, <1>11, Parties DEF Releases, TypeOK
  <2>4. /\ order' \in [Escrows -> OrderStatuses]
        /\ hold' \in [Escrows -> {"none", "HELD", "SUCCEEDED", "REFUNDED"}]
        /\ wrong' \in [Escrows -> Nat] /\ locked' \in [Escrows -> BOOLEAN]
    BY Zenon, <1>11 DEF Releases, ReleaseLocked, Settle, MarkSettled, TypeOK, OrderStatuses, Settled
  <2>5. /\ task' \in [Escrows -> {"none", "PENDING", "DONE", "CANCELLED", "FAILED"}]
        /\ attempts' \in [Escrows -> 0 .. MaxAttempts]
    BY Zenon, <1>11 DEF Releases, CancelTimer, TypeOK
  <2>. QED  BY Zenon, <1>11, <2>1, <2>2, <2>3, <2>4, <2>5 DEF Releases, TypeOK
<1>12. ASSUME NEW e \in Escrows, TimerIdle(e) PROVE TypeOK'
  BY Zenon, <1>12 DEF TimerIdle, TypeOK, OrderStatuses, Live, Settled, Refusals
<1>13. CASE UNCHANGED vars
  BY Zenon, <1>13 DEF vars, TypeOK
<1>. QED  BY ZenonT(30),
             Steps, <1>1, <1>2, <1>3, <1>4, <1>5, <1>6, <1>7, <1>8, <1>9, <1>10, <1>11, <1>12,
   <1>13, Zenon

\* Every step keeps the timer in step with its order.
LEMMA TimerInductive ==
  ASSUME TypeOK, TimerInv, [Next]_vars
  PROVE  TimerInv'
<1> USE DEF moneyVars, timerVars, codeVars
<1>1. ASSUME NEW e \in Escrows, NEW k \in Keys["create"], Create(e, k) PROVE TimerInv'
  <2>1. TimerRight(e)'
    BY Zenon, <1>1, Limits DEF Create, TimerInv, TimerRight, TypeOK, Live
  <2>2. ASSUME NEW x \in Escrows \ {e} PROVE TimerRight(x)'
    BY Zenon, <1>1, <2>2 DEF Create, TimerInv, TimerRight, TypeOK, Live
  <2>. QED  BY Zenon, <2>1, <2>2 DEF TimerInv
<1>2. ASSUME NEW e \in Escrows, NEW k \in Keys["ship"], NEW p \in Parcels, Ship(e, k, p)
      PROVE  TimerInv'
  <2>1. TimerRight(e)'
    BY Zenon, <1>2, Limits DEF Ship, TimerInv, TimerRight, TypeOK, Live
  <2>2. ASSUME NEW x \in Escrows \ {e} PROVE TimerRight(x)'
    BY Zenon, <1>2, <2>2 DEF Ship, TimerInv, TimerRight, TypeOK, Live
  <2>. QED  BY Zenon, <2>1, <2>2 DEF TimerInv
<1>3. ASSUME NEW e \in Escrows, NEW k \in CodeKeys[e], CodeLocked(e, k) PROVE TimerInv'
  BY Zenon, <1>3 DEF CodeLocked, TypeOK, TimerInv, TimerRight
<1>4. ASSUME NEW e \in Escrows, NEW k \in CodeKeys[e], CodeWrong(e, k) PROVE TimerInv'
  BY Zenon, <1>4 DEF CodeWrong, TypeOK, TimerInv, TimerRight
<1>5. ASSUME NEW e \in Escrows, NEW k \in Keys["dispute"], Dispute(e, k) PROVE TimerInv'
  <2>1. TimerRight(e)'
    BY Zenon, <1>5, Limits DEF Dispute, CancelTimer, TimerInv, TimerRight, TypeOK, Live
  <2>2. ASSUME NEW x \in Escrows \ {e} PROVE TimerRight(x)'
    BY Zenon, <1>5, <2>2 DEF Dispute, CancelTimer, TimerInv, TimerRight, TypeOK, Live
  <2>. QED  BY Zenon, <2>1, <2>2 DEF TimerInv
<1>6. ASSUME NEW e \in Escrows, NEW k \in Keys["resolve"], ResolveRefund(e, k) PROVE TimerInv'
  <2>1. TimerRight(e)'
    BY Zenon, <1>6, Limits DEF ResolveRefund, RefundLocked, Settle, MarkSettled, TimerInv, TimerRight,
       TypeOK, Live
  <2>2. ASSUME NEW x \in Escrows \ {e} PROVE TimerRight(x)'
    BY Zenon, <1>6, <2>2 DEF ResolveRefund, RefundLocked, Settle, MarkSettled, TimerInv, TimerRight,
       TypeOK, Live
  <2>. QED  BY Zenon, <2>1, <2>2 DEF TimerInv
<1>7. ASSUME NEW e \in Escrows, NEW k \in Keys["courier"], Delivered(e, k) PROVE TimerInv'
  <2>1. TimerRight(e)'
    BY Zenon, <1>7, Limits DEF Delivered, Schedule, TimerInv, TimerRight, TypeOK, Live
  <2>2. ASSUME NEW x \in Escrows \ {e} PROVE TimerRight(x)'
    BY Zenon, <1>7, <2>2 DEF Delivered, Schedule, TimerInv, TimerRight, TypeOK, Live
  <2>. QED  BY Zenon, <2>1, <2>2 DEF TimerInv
<1>8. ASSUME NEW e \in Escrows, NEW k \in Keys["courier"], DeliveredLate(e, k) PROVE TimerInv'
  BY Zenon, <1>8 DEF DeliveredLate, TypeOK, TimerInv, TimerRight
<1>9. ASSUME NEW e \in Escrows, LockExpires(e) PROVE TimerInv'
  BY Zenon, <1>9 DEF LockExpires, TypeOK, TimerInv, TimerRight
<1>10. ASSUME NEW e \in Escrows, AutoReleaseFails(e) PROVE TimerInv'
  <2>1. TimerRight(e)'
    BY <1>10, Limits DEF AutoReleaseFails, TimerInv, TimerRight, TypeOK, Live
  <2>2. ASSUME NEW x \in Escrows \ {e} PROVE TimerRight(x)'
    BY Zenon, <1>10, <2>2 DEF AutoReleaseFails, TimerInv, TimerRight, TypeOK, Live
  <2>. QED  BY Zenon, <2>1, <2>2 DEF TimerInv
<1>11. ASSUME NEW e \in Escrows, Releases(e) PROVE TimerInv'
  <2>1. TimerRight(e)'
    BY Zenon,
       <1>11, Limits DEF Releases, ReleaseLocked, Settle, MarkSettled, CancelTimer, TimerInv,
       TimerRight, TypeOK, Live
  <2>2. ASSUME NEW x \in Escrows \ {e} PROVE TimerRight(x)'
    BY Zenon, <1>11, <2>2 DEF Releases, ReleaseLocked, Settle, MarkSettled, CancelTimer, TimerInv,
       TimerRight, TypeOK, Live
  <2>. QED  BY <2>1, <2>2 DEF TimerInv
<1>12. ASSUME NEW e \in Escrows, TimerIdle(e) PROVE TimerInv'
  <2>1. TimerRight(e)'
    BY Zenon, <1>12, Limits DEF TimerIdle, TimerInv, TimerRight, TypeOK, Live
  <2>2. ASSUME NEW x \in Escrows \ {e} PROVE TimerRight(x)'
    BY Zenon, <1>12, <2>2 DEF TimerIdle, TimerInv, TimerRight, TypeOK, Live
  <2>. QED  BY <2>1, <2>2 DEF TimerInv
<1>13. CASE UNCHANGED vars
  BY Zenon, <1>13 DEF vars, TypeOK, TimerInv, TimerRight
<1>. QED  BY ZenonT(30),
             Steps, <1>1, <1>2, <1>3, <1>4, <1>5, <1>6, <1>7, <1>8, <1>9, <1>10, <1>11, <1>12,
   <1>13, Zenon

-----------------------------------------------------------------------------
(* The money in escrow.                                                    *)

\* What one more order adds to the money held, and what one fewer takes from it.
LEMMA HeldSum ==
  ASSUME NEW H \in SUBSET Escrows, NEW e \in Escrows \ H
  PROVE  /\ NatSum(H, Price) \in Nat
         /\ NatSum(H \cup {e}, Price) = NatSum(H, Price) + Price[e]
<1>1. IsFiniteSet(H) /\ IsFiniteSet({e})
  BY Zenon, SafePayAssumption, FS_Subset, FS_Singleton
<1>2. \A x \in H \cup {e} : Price[x] \in Nat
  BY Zenon, Parties
<1>3. NatSum(H, Price) \in Nat
  BY Zenon, <1>1, <1>2, NatSumPartType
<1>4. NatSum(H \cup {e}, Price) = NatSum(H, Price) + NatSum({e}, Price)
  BY <1>1, <1>2, NatSumUnion
<1>5. NatSum({e}, Price) = Price[e]
  BY Zenon, <1>2, NatSumSingle
<1>. QED  BY Zenon, <1>3, <1>4, <1>5

\* Settling an order takes its price out of escrow, once.
LEMMA SettleKeepsBacking ==
  ASSUME TypeOK, EscrowBacked, NEW e \in Escrows, NEW to \in Accounts \ {EscrowAccount},
         NEW outcome \in {"SUCCEEDED", "REFUNDED"}, Settle(e, to, outcome)
  PROVE  balance'[EscrowAccount] = NatSum(Held', Price)
<1>1. Held' = Held \ {e} /\ e \in Held /\ Held = (Held \ {e}) \cup {e}
  BY Zenon DEF Settle, Held, TypeOK
<1>2. /\ NatSum(Held \ {e}, Price) \in Nat
      /\ NatSum((Held \ {e}) \cup {e}, Price) = NatSum(Held \ {e}, Price) + Price[e]
  BY Zenon, HeldSum DEF Held
<1>3. balance'[EscrowAccount] = balance[EscrowAccount] - Price[e]
  BY Zenon, Parties DEF Settle, TypeOK
<1>4. balance[EscrowAccount] = NatSum(Held \ {e}, Price) + Price[e]
  BY <1>1, <1>2, Zenon DEF EscrowBacked
<1>5. Price[e] \in Nat
  BY Zenon, Parties
<1>. QED  BY <1>1, <1>2, <1>3, <1>4, <1>5

\* Every step keeps the escrow account and the two status columns in agreement.
LEMMA BackingInductive ==
  ASSUME TypeOK, EscrowBacked, [Next]_vars
  PROVE  EscrowBacked'
<1> USE DEF moneyVars, timerVars, codeVars
<1>1. ASSUME NEW e \in Escrows, NEW k \in Keys["create"], Create(e, k) PROVE EscrowBacked'
  <2>1. Held' = Held \cup {e} /\ e \notin Held
    BY Zenon, <1>1 DEF Create, Held, EscrowBacked, TypeOK
  <2>2. /\ NatSum(Held, Price) \in Nat
        /\ NatSum(Held \cup {e}, Price) = NatSum(Held, Price) + Price[e]
    BY Zenon, <2>1, HeldSum DEF Held
  <2>3. balance'[EscrowAccount] = balance[EscrowAccount] + Price[e]
    BY Zenon, <1>1, Parties DEF Create, TypeOK
  <2>4. balance'[EscrowAccount] = NatSum(Held', Price)
    BY Zenon, <2>1, <2>2, <2>3 DEF EscrowBacked
  <2>5. \A x \in Escrows :
          /\ hold'[x] = "none" <=> order'[x] = "none"
          /\ hold'[x] = "SUCCEEDED" <=> order'[x] = "RELEASED"
          /\ hold'[x] = "REFUNDED" <=> order'[x] = "REFUNDED"
    BY Zenon, <1>1 DEF Create, EscrowBacked, TypeOK
  <2>. QED  BY Zenon, <2>4, <2>5 DEF EscrowBacked
<1>2. ASSUME NEW e \in Escrows, NEW k \in Keys["ship"], NEW p \in Parcels, Ship(e, k, p)
      PROVE  EscrowBacked'
  BY Zenon, <1>2 DEF Ship, EscrowBacked, Held, TypeOK, Live, Settled
<1>3. ASSUME NEW e \in Escrows, NEW k \in CodeKeys[e], CodeLocked(e, k) PROVE EscrowBacked'
  BY Zenon, <1>3 DEF CodeLocked, EscrowBacked, Held, TypeOK, Live, Settled
<1>4. ASSUME NEW e \in Escrows, NEW k \in CodeKeys[e], CodeWrong(e, k) PROVE EscrowBacked'
  BY Zenon, <1>4 DEF CodeWrong, EscrowBacked, Held, TypeOK, Live, Settled
<1>5. ASSUME NEW e \in Escrows, NEW k \in Keys["dispute"], Dispute(e, k) PROVE EscrowBacked'
  BY Zenon, <1>5 DEF Dispute, CancelTimer, EscrowBacked, Held, TypeOK, Live, Settled
<1>6. ASSUME NEW e \in Escrows, NEW k \in Keys["resolve"], ResolveRefund(e, k)
      PROVE  EscrowBacked'
  <2>1. balance'[EscrowAccount] = NatSum(Held', Price)
    BY Zenon, <1>6, Parties, SettleKeepsBacking DEF ResolveRefund, RefundLocked
  <2>2. \A x \in Escrows :
          /\ hold'[x] = "none" <=> order'[x] = "none"
          /\ hold'[x] = "SUCCEEDED" <=> order'[x] = "RELEASED"
          /\ hold'[x] = "REFUNDED" <=> order'[x] = "REFUNDED"
    BY Zenon,
       <1>6 DEF ResolveRefund, RefundLocked, Settle, MarkSettled, EscrowBacked, TypeOK, Live
  <2>. QED  BY Zenon, <2>1, <2>2 DEF EscrowBacked
<1>7. ASSUME NEW e \in Escrows, NEW k \in Keys["courier"], Delivered(e, k) PROVE EscrowBacked'
  BY Zenon, <1>7 DEF Delivered, Schedule, EscrowBacked, Held, TypeOK, Live, Settled
<1>8. ASSUME NEW e \in Escrows, NEW k \in Keys["courier"], DeliveredLate(e, k)
      PROVE  EscrowBacked'
  BY Zenon, <1>8 DEF DeliveredLate, EscrowBacked, Held, TypeOK, Live, Settled
<1>9. ASSUME NEW e \in Escrows, LockExpires(e) PROVE EscrowBacked'
  BY Zenon, <1>9 DEF LockExpires, EscrowBacked, Held, TypeOK, Live, Settled
<1>10. ASSUME NEW e \in Escrows, AutoReleaseFails(e) PROVE EscrowBacked'
  BY Zenon, <1>10 DEF AutoReleaseFails, EscrowBacked, Held, TypeOK, Live, Settled
<1>11. ASSUME NEW e \in Escrows, Releases(e) PROVE EscrowBacked'
  <2>1. balance'[EscrowAccount] = NatSum(Held', Price)
    BY Zenon, <1>11, Parties, SettleKeepsBacking DEF Releases, ReleaseLocked
  <2>2. \A x \in Escrows :
          /\ hold'[x] = "none" <=> order'[x] = "none"
          /\ hold'[x] = "SUCCEEDED" <=> order'[x] = "RELEASED"
          /\ hold'[x] = "REFUNDED" <=> order'[x] = "REFUNDED"
    BY Zenon, <1>11 DEF Releases, ReleaseLocked, Settle, MarkSettled, EscrowBacked, TypeOK, Live
  <2>. QED  BY Zenon, <2>1, <2>2 DEF EscrowBacked
<1>12. ASSUME NEW e \in Escrows, TimerIdle(e) PROVE EscrowBacked'
  BY Zenon, <1>12 DEF TimerIdle, EscrowBacked, Held, TypeOK, Live, Settled
<1>13. CASE UNCHANGED vars
  BY Zenon, <1>13 DEF vars, EscrowBacked, Held, TypeOK, Live, Settled
<1>. QED  BY ZenonT(30),
             Steps, <1>1, <1>2, <1>3, <1>4, <1>5, <1>6, <1>7, <1>8, <1>9, <1>10, <1>11, <1>12,
   <1>13, Zenon

-----------------------------------------------------------------------------
(* The stored responses.                                                   *)

\* What has been reported of an order stays true along its way.
LEMMA OnwardSteps ==
  ASSUME NEW body \in OrderStatuses \cup Refusals
  PROVE  /\ "none" \notin Onward(body)
         /\ "AWAITING_SHIPMENT" \in Onward(body) => "SHIPPED" \in Onward(body)
         /\ "SHIPPED" \in Onward(body) => "DELIVERED" \in Onward(body)
         /\ \A o \in Live : o \in Onward(body) => "DISPUTED" \in Onward(body)
         /\ \A o \in Live \cup {"DISPUTED"} :
              o \in Onward(body) => "RELEASED" \in Onward(body) /\ "REFUNDED" \in Onward(body)
         /\ body \in OrderStatuses \ {"none"} => body \in Onward(body)
         /\ body \in Refusals => Live \subseteq Onward(body)
BY Zenon DEF Onward, OrderStatuses, Refusals, Live, Settled

\* A step that moves one order onward, with or without a response of its own,
\* contradicts no response.
LEMMA OnwardKeepsAnswers ==
  ASSUME TypeOK, AnswersStayTrue, NEW e \in Escrows,
         \A x \in Escrows \ {e} : order'[x] = order[x],
         \A body \in OrderStatuses \cup Refusals :
           order[e] \in Onward(body) => order'[e] \in Onward(body),
         \/ UNCHANGED answers
         \/ \E c : \E body \in OrderStatuses \cup Refusals :
              Responds(c, e, body) /\ order'[e] \in Onward(body)
  PROVE  AnswersStayTrue'
<1> SUFFICES ASSUME NEW s \in Scopes, answers'[s] # None
             PROVE  order'[answers'[s].escrow] \in Onward(answers'[s].body)
  BY Zenon DEF AnswersStayTrue
<1>1. ASSUME answers'[s] = answers[s]
      PROVE  order'[answers'[s].escrow] \in Onward(answers'[s].body)
  <2>1. answers[s] \in Responses
    BY Zenon, <1>1 DEF TypeOK
  <2>2. answers[s].escrow \in Escrows /\ answers[s].body \in OrderStatuses \cup Refusals
    BY Zenon, <2>1 DEF Responses
  <2>3. order[answers[s].escrow] \in Onward(answers[s].body)
    BY Zenon, <1>1 DEF AnswersStayTrue
  <2>. QED  BY <1>1, <2>2, <2>3, Zenon
<1>2. ASSUME answers'[s] # answers[s]
      PROVE  order'[answers'[s].escrow] \in Onward(answers'[s].body)
  <2>1. PICK c : \E body \in OrderStatuses \cup Refusals :
                   Responds(c, e, body) /\ order'[e] \in Onward(body)
    BY Zenon, <1>2
  <2>2. PICK body \in OrderStatuses \cup Refusals :
               Responds(c, e, body) /\ order'[e] \in Onward(body)
    BY Zenon, <2>1
  <2>3. answers'[s] = [escrow |-> e, body |-> body]
    BY Zenon, <1>2, <2>2 DEF Responds, Answer, TypeOK
  <2>. QED  BY <2>2, <2>3
<1>. QED  BY Zenon, <1>1, <1>2

\* Every step keeps the stored responses true.
LEMMA AnswersInductive ==
  ASSUME TypeOK, AnswersStayTrue, [Next]_vars
  PROVE  AnswersStayTrue'
<1> USE DEF moneyVars, timerVars, codeVars
<1>1. ASSUME NEW e \in Escrows, NEW k \in Keys["create"], Create(e, k) PROVE AnswersStayTrue'
  <2>1. /\ \A x \in Escrows \ {e} : order'[x] = order[x]
        /\ order[e] = "none" /\ order'[e] = "AWAITING_SHIPMENT"
    BY Zenon, <1>1 DEF Create, TypeOK, Live, Settled
  <2>2. Responds("create", e, "AWAITING_SHIPMENT")
    BY Zenon, <1>1, Responding
  <2>. QED  BY Zenon, <2>1, <2>2, OnwardSteps, OnwardKeepsAnswers
            DEF OrderStatuses, Live, Settled, Refusals
<1>2. ASSUME NEW e \in Escrows, NEW k \in Keys["ship"], NEW p \in Parcels, Ship(e, k, p)
      PROVE  AnswersStayTrue'
  <2>1. /\ \A x \in Escrows \ {e} : order'[x] = order[x]
        /\ order[e] = "AWAITING_SHIPMENT" /\ order'[e] = "SHIPPED"
    BY Zenon, <1>2 DEF Ship, TypeOK, Live, Settled
  <2>2. Responds("ship", e, "SHIPPED")
    BY Zenon, <1>2, Responding
  <2>. QED  BY Zenon, <2>1, <2>2, OnwardSteps, OnwardKeepsAnswers
            DEF OrderStatuses, Live, Settled, Refusals
<1>3. ASSUME NEW e \in Escrows, NEW k \in CodeKeys[e], CodeLocked(e, k) PROVE AnswersStayTrue'
  <2>1. /\ \A x \in Escrows \ {e} : order'[x] = order[x]
        /\ order[e] \in Live /\ order'[e] = order[e]
    BY Zenon, <1>3 DEF CodeLocked, TakesCode, TypeOK, Live, Settled
  <2>2. Responds("code", e, "LOCKED")
    BY Zenon, <1>3, Responding
  <2>. QED  BY Zenon, <2>1, <2>2, OnwardSteps, OnwardKeepsAnswers
            DEF OrderStatuses, Live, Settled, Refusals
<1>4. ASSUME NEW e \in Escrows, NEW k \in CodeKeys[e], CodeWrong(e, k) PROVE AnswersStayTrue'
  <2>1. /\ \A x \in Escrows \ {e} : order'[x] = order[x]
        /\ order[e] \in Live /\ order'[e] = order[e]
    BY Zenon, <1>4 DEF CodeWrong, TakesCode, TypeOK, Live, Settled
  <2>2. Responds("code", e, "INVALID") \/ Responds("code", e, "LOCKED_OUT")
    BY Zenon, <1>4, Responding
  <2>. QED  BY Zenon, <2>1, <2>2, OnwardSteps, OnwardKeepsAnswers
            DEF OrderStatuses, Live, Settled, Refusals
<1>5. ASSUME NEW e \in Escrows, NEW k \in Keys["dispute"], Dispute(e, k) PROVE AnswersStayTrue'
  <2>1. /\ \A x \in Escrows \ {e} : order'[x] = order[x]
        /\ order[e] \in Live /\ order'[e] = "DISPUTED"
    BY Zenon, <1>5 DEF Dispute, TypeOK, Live, Settled
  <2>2. Responds("dispute", e, "DISPUTED")
    BY Zenon, <1>5, Responding
  <2>. QED  BY Zenon, <2>1, <2>2, OnwardSteps, OnwardKeepsAnswers
            DEF OrderStatuses, Live, Settled, Refusals
<1>6. ASSUME NEW e \in Escrows, NEW k \in Keys["resolve"], ResolveRefund(e, k)
      PROVE  AnswersStayTrue'
  <2>1. /\ \A x \in Escrows \ {e} : order'[x] = order[x]
        /\ order[e] = "DISPUTED" /\ order'[e] = "REFUNDED"
    BY Zenon, <1>6 DEF ResolveRefund, RefundLocked, MarkSettled, TypeOK, Live, Settled
  <2>2. Responds("resolve", e, "REFUNDED")
    BY Zenon, <1>6, Responding
  <2>. QED  BY Zenon, <2>1, <2>2, OnwardSteps, OnwardKeepsAnswers
            DEF OrderStatuses, Live, Settled, Refusals
<1>7. ASSUME NEW e \in Escrows, NEW k \in Keys["courier"], Delivered(e, k)
      PROVE  AnswersStayTrue'
  <2>1. /\ \A x \in Escrows \ {e} : order'[x] = order[x]
        /\ order[e] = "SHIPPED" /\ order'[e] = "DELIVERED"
    BY Zenon, <1>7 DEF Delivered, TypeOK, Live, Settled
  <2>2. Responds("courier", e, "DELIVERED")
    BY Zenon, <1>7, Responding
  <2>. QED  BY Zenon, <2>1, <2>2, OnwardSteps, OnwardKeepsAnswers
            DEF OrderStatuses, Live, Settled, Refusals
<1>8. ASSUME NEW e \in Escrows, NEW k \in Keys["courier"], DeliveredLate(e, k)
      PROVE  AnswersStayTrue'
  <2>1. /\ \A x \in Escrows \ {e} : order'[x] = order[x]
        /\ order[e] \in Settled \cup {"DISPUTED"} /\ order'[e] = order[e]
    BY Zenon, <1>8 DEF DeliveredLate, TypeOK, Live, Settled
  <2>2. Responds("courier", e, order[e])
    BY Zenon, <1>8, Responding
  <2>. QED  BY Zenon, <2>1, <2>2, OnwardSteps, OnwardKeepsAnswers
            DEF OrderStatuses, Live, Settled, Refusals
<1>9. ASSUME NEW e \in Escrows, LockExpires(e) PROVE AnswersStayTrue'
  BY Zenon, <1>9 DEF LockExpires, AnswersStayTrue
<1>10. ASSUME NEW e \in Escrows, AutoReleaseFails(e) PROVE AnswersStayTrue'
  BY Zenon, <1>10 DEF AutoReleaseFails, AnswersStayTrue
<1>11. ASSUME NEW e \in Escrows, Releases(e) PROVE AnswersStayTrue'
  <2>1. /\ \A x \in Escrows \ {e} : order'[x] = order[x]
        /\ order[e] \in Live \cup {"DISPUTED"} /\ order'[e] = "RELEASED"
    BY Zenon, <1>11 DEF Releases, ReleaseLocked, MarkSettled, TypeOK
  <2>2. UNCHANGED answers \/ \E c : Responds(c, e, "RELEASED")
    BY Zenon, <1>11 DEF Releases
  <2>. QED  BY Zenon, <2>1, <2>2, OnwardSteps, OnwardKeepsAnswers DEF OrderStatuses, Settled
<1>12. ASSUME NEW e \in Escrows, TimerIdle(e) PROVE AnswersStayTrue'
  BY Zenon, <1>12 DEF TimerIdle, AnswersStayTrue
<1>13. CASE UNCHANGED vars
  BY Zenon, <1>13 DEF vars, AnswersStayTrue
<1>. QED  BY Steps, <1>1, <1>2, <1>3, <1>4, <1>5, <1>6, <1>7, <1>8, <1>9, <1>10, <1>11, <1>12,
   <1>13, Zenon

-----------------------------------------------------------------------------
(* The attempts at a delivery code.                                        *)

\* A response that was counted as a failure.
IsCounted(a) == a # None /\ a.body \in {"INVALID", "LOCKED_OUT"}

\* The keys answered with a counted failure.
Counted(e) == {k \in CodeKeys[e] : IsCounted(answers[<<"code", e, k>>])}

LockedOutOnce(e) ==
  \E k \in CodeKeys[e] : LET a == answers[<<"code", e, k>>] IN
                           a # None /\ a.body = "LOCKED_OUT"

\* AttemptsCounted, of one order.
AttemptsRight(e) ==
  order[e] \notin Settled =>
    /\ wrong[e] = Cardinality(Counted(e))
    /\ locked[e] => wrong[e] >= MaxCodeAttempts
    /\ wrong[e] >= MaxCodeAttempts => LockedOutOnce(e)

\* The count of attempts is right when it is right order by order.
LEMMA AttemptsPointwise ==
  /\ AttemptsCounted <=> \A e \in Escrows : AttemptsRight(e)
  /\ AttemptsCounted' <=> \A e \in Escrows : AttemptsRight(e)'
BY Zenon DEF AttemptsCounted, AttemptsRight, Counted, IsCounted, LockedOutOnce

\* Answering elsewhere leaves the answers to an order's code alone.
LEMMA CodeAnswersKept ==
  ASSUME TypeOK, NEW c, NEW e, NEW body, Responds(c, e, body),
         NEW x \in Escrows, c # "code" \/ x # e
  PROVE  \A k \in CodeKeys[x] : answers'[<<"code", x, k>>] = answers[<<"code", x, k>>]
<1>1. PICK s \in Scopes : s[1] = c /\ (c = "code" => s[2] = e) /\ Answer(s, e, body)
  BY Zenon DEF Responds
<1>2. ASSUME NEW k \in CodeKeys[x]
      PROVE  answers'[<<"code", x, k>>] = answers[<<"code", x, k>>]
  <2>1. s # <<"code", x, k>>
    BY <1>1
  <2>2. <<"code", x, k>> \in Scopes
    BY Zenon, ScopeTypes
  <2>. QED  BY Zenon, <1>1, <2>1, <2>2 DEF Answer, TypeOK
<1>. QED  BY Zenon, <1>2

\* An order whose code answers and counter stay is still counted right.
LEMMA AttemptsKept ==
  ASSUME NEW x \in Escrows, AttemptsRight(x),
         \A k \in CodeKeys[x] : answers'[<<"code", x, k>>] = answers[<<"code", x, k>>],
         wrong'[x] = wrong[x], locked'[x] => locked[x],
         order'[x] \notin Settled => order[x] \notin Settled
  PROVE  AttemptsRight(x)'
<1>1. Counted(x)' = Counted(x)
  BY Zenon DEF Counted
<1>2. LockedOutOnce(x)' <=> LockedOutOnce(x)
  BY Zenon DEF LockedOutOnce
<1>. QED  BY <1>1, <1>2, Zenon DEF AttemptsRight

\* Every step keeps the counter of an order in step with its answers.
LEMMA AttemptsInductive ==
  ASSUME TypeOK, AttemptsCounted, [Next]_vars
  PROVE  AttemptsCounted'
<1> USE DEF moneyVars, timerVars, codeVars
<1>1. ASSUME NEW e \in Escrows, NEW k \in Keys["create"], Create(e, k) PROVE AttemptsCounted'
  <2> SUFFICES ASSUME NEW x \in Escrows PROVE AttemptsRight(x)'
    BY Zenon, AttemptsPointwise
  <2>1. \A k1 \in CodeKeys[x] : answers'[<<"code", x, k1>>] = answers[<<"code", x, k1>>]
    <3>1. Responds("create", e, "AWAITING_SHIPMENT")
      BY Zenon, <1>1, Responding
    <3>. QED  BY SMTT(20), <3>1, CodeAnswersKept
  <2>2. /\ wrong'[x] = wrong[x] /\ (locked'[x] => locked[x])
        /\ order'[x] \notin Settled => order[x] \notin Settled
    BY Zenon, <1>1 DEF Create, TypeOK, Settled, Live
  <2>3. AttemptsRight(x)
    BY Zenon, AttemptsPointwise
  <2>. QED  BY <2>1, <2>2, <2>3, AttemptsKept, Zenon
<1>2. ASSUME NEW e \in Escrows, NEW k \in Keys["ship"], NEW p \in Parcels, Ship(e, k, p)
      PROVE  AttemptsCounted'
  <2> SUFFICES ASSUME NEW x \in Escrows PROVE AttemptsRight(x)'
    BY Zenon, AttemptsPointwise
  <2>1. \A k1 \in CodeKeys[x] : answers'[<<"code", x, k1>>] = answers[<<"code", x, k1>>]
    <3>1. Responds("ship", e, "SHIPPED")
      BY ZenonT(30), <1>2, Responding
    <3>. QED  BY SMTT(20), <3>1, CodeAnswersKept
  <2>2. /\ wrong'[x] = wrong[x] /\ (locked'[x] => locked[x])
        /\ order'[x] \notin Settled => order[x] \notin Settled
    BY Zenon, <1>2 DEF Ship, TypeOK, Settled, Live
  <2>3. AttemptsRight(x)
    BY Zenon, AttemptsPointwise
  <2>. QED  BY <2>1, <2>2, <2>3, AttemptsKept, Zenon
<1>3. ASSUME NEW e \in Escrows, NEW k \in CodeKeys[e], CodeLocked(e, k) PROVE AttemptsCounted'
  <2> SUFFICES ASSUME NEW x \in Escrows PROVE AttemptsRight(x)'
    BY Zenon, AttemptsPointwise
  <2>0. AttemptsRight(x)
    BY Zenon, AttemptsPointwise
  <2>1. CASE x # e
    <3>1. \A k1 \in CodeKeys[x] : answers'[<<"code", x, k1>>] = answers[<<"code", x, k1>>]
      <4>1. Responds("code", e, "LOCKED")
        BY Zenon, <1>3, Responding
      <4>. QED  BY Zenon, <2>1, <4>1, CodeAnswersKept
    <3>2. /\ wrong'[x] = wrong[x] /\ (locked'[x] => locked[x])
          /\ order'[x] \notin Settled => order[x] \notin Settled
      BY Zenon, <1>3, <2>1 DEF CodeLocked, TypeOK
    <3>. QED  BY <2>0, <3>1, <3>2, AttemptsKept, Zenon
  <2>2. CASE x = e
    <3>1. /\ <<"code", e, k>> \in Scopes /\ answers[<<"code", e, k>>] = None
          /\ order[e] \notin Settled /\ order' = order
      BY Zenon, <1>3, ScopeTypes DEF CodeLocked, TakesCode, Fresh, Live, Settled
    <3>2. \A k1 \in CodeKeys[e] \ {k} :
            answers'[<<"code", e, k1>>] = answers[<<"code", e, k1>>]
      BY Zenon, <1>3, <3>1, ScopeTypes DEF CodeLocked, Answer, TypeOK
    <3>3. answers'[<<"code", e, k>>] = [escrow |-> e, body |-> "LOCKED"]
      BY Zenon, <1>3, <3>1 DEF CodeLocked, Answer, TypeOK
    <3>4. Counted(e)' = Counted(e)
      <4>1. ~IsCounted(answers'[<<"code", e, k>>]) /\ ~IsCounted(answers[<<"code", e, k>>])
        BY <3>1, <3>3 DEF IsCounted
      <4>2. \A j \in CodeKeys[e] :
              IsCounted(answers'[<<"code", e, j>>]) <=> IsCounted(answers[<<"code", e, j>>])
        BY <3>2, <4>1, Zenon
      <4>. QED  BY <4>2, Zenon DEF Counted
    <3>5. LockedOutOnce(e) => LockedOutOnce(e)'
      BY Zenon, <3>1, <3>2 DEF LockedOutOnce
    <3>6. wrong' = wrong /\ locked' = locked
      BY ZenonT(30), <1>3 DEF CodeLocked
    <3>. QED  BY <2>0, <2>2, <3>1, <3>4, <3>5, <3>6, Zenon DEF AttemptsRight
  <2>. QED  BY Zenon, <2>1, <2>2
<1>4. ASSUME NEW e \in Escrows, NEW k \in CodeKeys[e], CodeWrong(e, k) PROVE AttemptsCounted'
  <2> SUFFICES ASSUME NEW x \in Escrows PROVE AttemptsRight(x)'
    BY AttemptsPointwise
  <2>0. AttemptsRight(x)
    BY AttemptsPointwise
  <2>1. CASE x # e
    <3>1. \A k1 \in CodeKeys[x] : answers'[<<"code", x, k1>>] = answers[<<"code", x, k1>>]
      <4>1. Responds("code", e, "INVALID") \/ Responds("code", e, "LOCKED_OUT")
        BY ZenonT(30), <1>4, Responding
      <4>. QED  BY Zenon, <2>1, <4>1, CodeAnswersKept
    <3>2. /\ wrong'[x] = wrong[x] /\ (locked'[x] => locked[x])
          /\ order'[x] \notin Settled => order[x] \notin Settled
      BY Zenon, <1>4, <2>1 DEF CodeWrong, TypeOK
    <3>. QED  BY <2>0, <3>1, <3>2, AttemptsKept, Zenon
  <2>2. CASE x = e
    <3>1. /\ <<"code", e, k>> \in Scopes /\ answers[<<"code", e, k>>] = None
          /\ order[e] \notin Settled /\ order' = order
      BY Zenon, <1>4, ScopeTypes DEF CodeWrong, TakesCode, Fresh, Live, Settled
    <3>2. \A k1 \in CodeKeys[e] \ {k} :
            answers'[<<"code", e, k1>>] = answers[<<"code", e, k1>>]
      BY ZenonT(30), <1>4, <3>1, ScopeTypes DEF CodeWrong, Answer, TypeOK
    <3> DEFINE n == wrong[e] + 1
               reply == IF LocksOut(n) THEN "LOCKED_OUT" ELSE "INVALID"
    <3>3. answers'[<<"code", e, k>>] = [escrow |-> e, body |-> reply]
      BY Zenon, <1>4, <3>1 DEF CodeWrong, Answer, TypeOK
    <3>4. answers'[<<"code", e, k>>] # None
      <4>1. [escrow |-> e, body |-> reply] \in Responses
        BY Zenon DEF Responses, Refusals
      <4>. QED  BY Zenon, <3>3, <4>1, NoneAssumption
    <3>5. Counted(e)' = Counted(e) \cup {k} /\ k \notin Counted(e)
      <4>1. IsCounted(answers'[<<"code", e, k>>]) /\ ~IsCounted(answers[<<"code", e, k>>])
        <5>1. answers'[<<"code", e, k>>].body = reply /\ reply \in {"INVALID", "LOCKED_OUT"}
          BY <3>3
        <5>. QED  BY <3>1, <3>4, <5>1, Zenon DEF IsCounted
      <4>2. \A j \in CodeKeys[e] \ {k} :
              IsCounted(answers'[<<"code", e, j>>]) <=> IsCounted(answers[<<"code", e, j>>])
        BY <3>2, Zenon
      <4> HIDE DEF n, reply
      <4>. QED  BY <4>1, <4>2, Zenon DEF Counted
    <3>6. wrong'[e] = Cardinality(Counted(e)')
      <4>1. IsFiniteSet(Counted(e))
        <5>1. IsFiniteSet(CodeKeys[e]) /\ Counted(e) \subseteq CodeKeys[e]
          BY Zenon, SafePayAssumption DEF Counted
        <5>. QED  BY Zenon, <5>1, FS_Subset
      <4>2. Cardinality(Counted(e) \cup {k}) = Cardinality(Counted(e)) + 1
        BY ZenonT(30), <4>1, <3>5, FS_AddElement
      <4>3. wrong[e] = Cardinality(Counted(e))
        BY Zenon, <2>0, <2>2, <3>1 DEF AttemptsRight
      <4>4. wrong'[e] = wrong[e] + 1
        BY Zenon, <1>4 DEF CodeWrong, TypeOK
      <4>. QED  BY Zenon, <3>5, <4>2, <4>3, <4>4
    <3>7. /\ locked'[e] => wrong'[e] >= MaxCodeAttempts
          /\ wrong'[e] >= MaxCodeAttempts => reply = "LOCKED_OUT"
      BY Zenon, <1>4 DEF CodeWrong, LocksOut, TypeOK
    <3>8. reply = "LOCKED_OUT" => LockedOutOnce(e)'
      BY <3>3, <3>4 DEF LockedOutOnce
    <3> HIDE DEF reply
    <3>. QED  BY <2>2, <3>6, <3>7, <3>8, Zenon DEF AttemptsRight
  <2>. QED  BY <2>1, <2>2
<1>5. ASSUME NEW e \in Escrows, NEW k \in Keys["dispute"], Dispute(e, k) PROVE AttemptsCounted'
  <2> SUFFICES ASSUME NEW x \in Escrows PROVE AttemptsRight(x)'
    BY Zenon, AttemptsPointwise
  <2>1. \A k1 \in CodeKeys[x] : answers'[<<"code", x, k1>>] = answers[<<"code", x, k1>>]
    <3>1. Responds("dispute", e, "DISPUTED")
      BY ZenonT(30), <1>5, Responding
    <3>. QED  BY SMTT(20), <3>1, CodeAnswersKept
  <2>2. /\ wrong'[x] = wrong[x] /\ (locked'[x] => locked[x])
        /\ order'[x] \notin Settled => order[x] \notin Settled
    BY Zenon, <1>5 DEF Dispute, TypeOK, Settled, Live
  <2>3. AttemptsRight(x)
    BY Zenon, AttemptsPointwise
  <2>. QED  BY <2>1, <2>2, <2>3, AttemptsKept, Zenon
<1>6. ASSUME NEW e \in Escrows, NEW k \in Keys["resolve"], ResolveRefund(e, k)
      PROVE  AttemptsCounted'
  <2> SUFFICES ASSUME NEW x \in Escrows PROVE AttemptsRight(x)'
    BY Zenon, AttemptsPointwise
  <2>1. CASE x = e
    BY Zenon,
       <1>6, <2>1 DEF ResolveRefund, RefundLocked, MarkSettled, AttemptsRight, Settled, TypeOK
  <2>2. CASE x # e
    <3>1. \A k1 \in CodeKeys[x] : answers'[<<"code", x, k1>>] = answers[<<"code", x, k1>>]
      <4>1. Responds("resolve", e, "REFUNDED")
        BY ZenonT(30), <1>6, Responding
      <4>. QED  BY Zenon, <2>2, <4>1, CodeAnswersKept
    <3>2. /\ wrong'[x] = wrong[x] /\ (locked'[x] => locked[x])
          /\ order'[x] \notin Settled => order[x] \notin Settled
      BY Zenon, <1>6, <2>2 DEF ResolveRefund, RefundLocked, MarkSettled, TypeOK
    <3>3. AttemptsRight(x)
      BY Zenon, AttemptsPointwise
    <3>. QED  BY <3>1, <3>2, <3>3, AttemptsKept, Zenon
  <2>. QED  BY Zenon, <2>1, <2>2
<1>7. ASSUME NEW e \in Escrows, NEW k \in Keys["courier"], Delivered(e, k)
      PROVE  AttemptsCounted'
  <2> SUFFICES ASSUME NEW x \in Escrows PROVE AttemptsRight(x)'
    BY Zenon, AttemptsPointwise
  <2>1. \A k1 \in CodeKeys[x] : answers'[<<"code", x, k1>>] = answers[<<"code", x, k1>>]
    <3>1. Responds("courier", e, "DELIVERED")
      BY ZenonT(30), <1>7, Responding
    <3>. QED  BY SMTT(20), <3>1, CodeAnswersKept
  <2>2. /\ wrong'[x] = wrong[x] /\ (locked'[x] => locked[x])
        /\ order'[x] \notin Settled => order[x] \notin Settled
    BY Zenon, <1>7 DEF Delivered, TypeOK, Settled, Live
  <2>3. AttemptsRight(x)
    BY Zenon, AttemptsPointwise
  <2>. QED  BY <2>1, <2>2, <2>3, AttemptsKept, Zenon
<1>8. ASSUME NEW e \in Escrows, NEW k \in Keys["courier"], DeliveredLate(e, k)
      PROVE  AttemptsCounted'
  <2> SUFFICES ASSUME NEW x \in Escrows PROVE AttemptsRight(x)'
    BY AttemptsPointwise
  <2>1. \A k1 \in CodeKeys[x] : answers'[<<"code", x, k1>>] = answers[<<"code", x, k1>>]
    <3>1. Responds("courier", e, order[e])
      BY Zenon, <1>8, Responding
    <3>. QED  BY SMTT(20), <3>1, CodeAnswersKept
  <2>2. /\ wrong'[x] = wrong[x] /\ (locked'[x] => locked[x])
        /\ order'[x] \notin Settled => order[x] \notin Settled
    BY Zenon, <1>8 DEF DeliveredLate, TypeOK, Settled, Live
  <2>3. AttemptsRight(x)
    BY AttemptsPointwise
  <2>. QED  BY <2>1, <2>2, <2>3, AttemptsKept, Zenon
<1>9. ASSUME NEW e \in Escrows, LockExpires(e) PROVE AttemptsCounted'
  <2> SUFFICES ASSUME NEW x \in Escrows PROVE AttemptsRight(x)'
    BY Zenon, AttemptsPointwise
  <2>1. \A k1 \in CodeKeys[x] : answers'[<<"code", x, k1>>] = answers[<<"code", x, k1>>]
    BY <1>9, Zenon DEF LockExpires
  <2>2. /\ wrong'[x] = wrong[x] /\ (locked'[x] => locked[x])
        /\ order'[x] \notin Settled => order[x] \notin Settled
    BY Zenon, <1>9 DEF LockExpires, TypeOK, Settled, Live
  <2>3. AttemptsRight(x)
    BY Zenon, AttemptsPointwise
  <2>. QED  BY <2>1, <2>2, <2>3, AttemptsKept, Zenon
<1>10. ASSUME NEW e \in Escrows, AutoReleaseFails(e) PROVE AttemptsCounted'
  <2> SUFFICES ASSUME NEW x \in Escrows PROVE AttemptsRight(x)'
    BY AttemptsPointwise
  <2>1. \A k1 \in CodeKeys[x] : answers'[<<"code", x, k1>>] = answers[<<"code", x, k1>>]
    BY <1>10, Zenon DEF AutoReleaseFails
  <2>2. /\ wrong'[x] = wrong[x] /\ (locked'[x] => locked[x])
        /\ order'[x] \notin Settled => order[x] \notin Settled
    BY Zenon, <1>10 DEF AutoReleaseFails, TypeOK, Settled, Live
  <2>3. AttemptsRight(x)
    BY AttemptsPointwise
  <2>. QED  BY <2>1, <2>2, <2>3, AttemptsKept, Zenon
<1>11. ASSUME NEW e \in Escrows, Releases(e) PROVE AttemptsCounted'
  <2> SUFFICES ASSUME NEW x \in Escrows PROVE AttemptsRight(x)'
    BY AttemptsPointwise
  <2>1. CASE x = e
    BY ZenonT(30),
       <1>11, <2>1 DEF Releases, ReleaseLocked, MarkSettled, AttemptsRight, Settled, TypeOK
  <2>2. CASE x # e
    <3>1. \A k1 \in CodeKeys[x] : answers'[<<"code", x, k1>>] = answers[<<"code", x, k1>>]
      BY ZenonT(30), <1>11, <2>2, CodeAnswersKept DEF Releases
    <3>2. /\ wrong'[x] = wrong[x] /\ (locked'[x] => locked[x])
          /\ order'[x] \notin Settled => order[x] \notin Settled
      BY Zenon, <1>11, <2>2 DEF Releases, ReleaseLocked, MarkSettled, TypeOK
    <3>3. AttemptsRight(x)
      BY AttemptsPointwise
    <3>. QED  BY <3>1, <3>2, <3>3, AttemptsKept, Zenon
  <2>. QED  BY Zenon, <2>1, <2>2
<1>12. ASSUME NEW e \in Escrows, TimerIdle(e) PROVE AttemptsCounted'
  <2> SUFFICES ASSUME NEW x \in Escrows PROVE AttemptsRight(x)'
    BY AttemptsPointwise
  <2>1. \A k1 \in CodeKeys[x] : answers'[<<"code", x, k1>>] = answers[<<"code", x, k1>>]
    BY <1>12, Zenon DEF TimerIdle
  <2>2. /\ wrong'[x] = wrong[x] /\ (locked'[x] => locked[x])
        /\ order'[x] \notin Settled => order[x] \notin Settled
    BY Zenon, <1>12 DEF TimerIdle, TypeOK, Settled, Live
  <2>3. AttemptsRight(x)
    BY AttemptsPointwise
  <2>. QED  BY <2>1, <2>2, <2>3, AttemptsKept, Zenon
<1>13. CASE UNCHANGED vars
  BY Zenon, <1>13 DEF vars, AttemptsCounted
<1>. QED  BY Steps, <1>1, <1>2, <1>3, <1>4, <1>5, <1>6, <1>7, <1>8, <1>9, <1>10, <1>11, <1>12,
   <1>13, Zenon

-----------------------------------------------------------------------------
(* A dispute freezes the order.                                            *)

\* Whether order e stands as it did.
Stands(e) == order'[e] = order[e] /\ hold'[e] = hold[e]

\* A disputed order and its money are moved only by a decision that is answered in the
\* same step.
LEMMA OnlyDecisionsMoveDisputed ==
  ASSUME TypeOK, [Next]_vars, NEW e \in Escrows, order[e] = "DISPUTED", ~Stands(e)
  PROVE  \E k \in Keys["resolve"] : /\ answers[<<"resolve", e, k>>] = None
                                    /\ answers'[<<"resolve", e, k>>] # None
<1> USE DEF moneyVars
<1>1. ASSUME NEW x \in Escrows, OfBuyer(x) PROVE FALSE
  BY Zenon, <1>1 DEF OfBuyer, Create, Confirm, Dispute, ReleaseLocked, Settle, MarkSettled, Stands,
     TypeOK, Live
<1>2. ASSUME NEW x \in Escrows, OfSeller(x) PROVE FALSE
  BY ZenonT(30),
     <1>2 DEF OfSeller, Ship, CodeLocked, CodeWrong, CodeRight, TakesCode, ReleaseLocked,
     Settle, MarkSettled, Stands, TypeOK, Live
<1>3. ASSUME NEW p \in Parcels, NEW k \in Keys["courier"], Courier(p, k) PROVE FALSE
  <2>1. PICK x \in Escrows : Delivered(x, k) \/ DeliveredReleases(x, k) \/ DeliveredLate(x, k)
    BY ZenonT(30), <1>3, FoundType DEF Courier, TypeOK
  <2>. QED  BY Zenon, <2>1 DEF Delivered, DeliveredReleases, DeliveredLate, ReleaseLocked, Settle,
            MarkSettled, Stands, TypeOK
<1>4. ASSUME NEW x \in Escrows, LockExpires(x) \/ Worker(x) PROVE FALSE
  BY Zenon, <1>4 DEF LockExpires, Worker, AutoRelease, AutoReleaseFails, ReleaseLocked, Settle,
     MarkSettled, Stands, TypeOK
<1>5. ASSUME UNCHANGED vars PROVE FALSE
  BY Zenon, <1>5 DEF vars, Stands
<1>6. PICK x \in Escrows : OfAdmin(x)
  BY <1>1, <1>2, <1>3, <1>4, <1>5, Zenon DEF Next
<1>7. PICK k \in Keys["resolve"] :
        (\E ban \in BOOLEAN : ResolveRelease(x, k, ban)) \/ ResolveRefund(x, k)
  BY Zenon, <1>6 DEF OfAdmin
<1>8. x = e
  BY ZenonT(30),
     <1>7 DEF ResolveRelease, ResolveRefund, ReleaseLocked, RefundLocked, Settle, MarkSettled,
     Stands, TypeOK
<1>9. answers[<<"resolve", e, k>>] = None
  BY ZenonT(30), <1>7, <1>8 DEF ResolveRelease, ResolveRefund, Fresh
<1>10. PICK body \in {"RELEASED", "REFUNDED"} : Answer(<<"resolve", e, k>>, e, body)
  BY ZenonT(30), <1>7, <1>8 DEF ResolveRelease, ResolveRefund
<1>11. answers'[<<"resolve", e, k>>] # None
  <2>1. <<"resolve", e, k>> \in Scopes
    BY Zenon, ScopeTypes DEF Commands
  <2>2. answers'[<<"resolve", e, k>>] = [escrow |-> e, body |-> body]
    BY Zenon, <1>10, <2>1 DEF Answer, TypeOK
  <2>3. [escrow |-> e, body |-> body] \in Responses
    BY Zenon, <1>10 DEF Responses, OrderStatuses, Settled
  <2>. QED  BY Zenon, <2>2, <2>3, NoneAssumption
<1>. QED  BY Zenon, <1>9, <1>11

-----------------------------------------------------------------------------
(* The theorems.                                                           *)

\* The inductive invariant of the module: no conjunct needs another one but the
\* types, except that the bound on the attempts is the timer's.
SafePayInv == TypeOK /\ TimerInv /\ EscrowBacked /\ AnswersStayTrue /\ AttemptsCounted

\* Nothing is wrong before the first order is placed.
LEMMA InitRight == Init => SafePayInv
<1> SUFFICES ASSUME Init PROVE SafePayInv
  BY Zenon
<1>1. TypeOK
  BY SafePayAssumption DEF Init, TypeOK, OrderStatuses
<1>2. TimerInv
  BY Zenon, Limits DEF Init, TimerInv, TimerRight
<1>3. EscrowBacked
  <2>1. Held = {}
    BY Zenon DEF Init, Held
  <2>2. NatSum(Held, Price) = 0
    BY Zenon, <2>1, NatSumEmpty
  <2>. QED  BY Zenon, <2>2, SafePayAssumption DEF Init, EscrowBacked
<1>4. AnswersStayTrue
  BY Zenon DEF Init, AnswersStayTrue
<1>5. AttemptsCounted
  <2> SUFFICES ASSUME NEW e \in Escrows PROVE AttemptsRight(e)
    BY Zenon, AttemptsPointwise
  <2>1. Counted(e) = {}
    BY Zenon, ScopeTypes DEF Init, Counted, IsCounted
  <2>. QED  BY <2>1, FS_EmptySet, Limits DEF Init, AttemptsRight
<1>. QED  BY Zenon, <1>1, <1>2, <1>3, <1>4, <1>5 DEF SafePayInv

\* Types, timers, escrow, stored responses and attempt counters together are
\* preserved by every command, webhook, timer and retry.
THEOREM SafePayInvariant == Spec => []SafePayInv
<1>1. SafePayInv /\ [Next]_vars => SafePayInv'
  BY Zenon, TypeInductive, TimerInductive, BackingInductive, AnswersInductive, AttemptsInductive
     DEF SafePayInv
<1>. QED  BY InitRight, <1>1, PTL DEF Spec

\* No balance is ever negative and no timer is tried more than MAX_ATTEMPTS times.
THEOREM SafePayTypes == Spec => []TypeOK
<1>1. SafePayInv => TypeOK
  BY Zenon DEF SafePayInv
<1>. QED  BY <1>1, SafePayInvariant, PTL

\* The escrow account always holds exactly the price of every open order, and the
\* two status columns agree, whoever settles an order (HoldingService.settle and
\* mark_settled).
THEOREM EscrowIsBacked == Spec => []EscrowBacked
<1>1. SafePayInv => EscrowBacked
  BY Zenon DEF SafePayInv
<1>. QED  BY <1>1, SafePayInvariant, PTL

\* The auto-release timer is pending exactly while its order awaits it, or parked.
THEOREM TimerIsRight == Spec => []TimerTracksOrder
<1>1. SafePayInv => TimerTracksOrder
  BY Zenon DEF SafePayInv, TimerInv, TimerRight, TimerTracksOrder
<1>. QED  BY <1>1, SafePayInvariant, PTL

\* A stored response is never contradicted by what becomes of the order.
THEOREM AnswersAreTrue == Spec => []AnswersStayTrue
<1>1. SafePayInv => AnswersStayTrue
  BY Zenon DEF SafePayInv
<1>. QED  BY <1>1, SafePayInvariant, PTL

\* One intent costs one attempt at the delivery code, and the lockout begins at
\* the limit.
THEOREM AttemptsAreCounted == Spec => []AttemptsCounted
<1>1. SafePayInv => AttemptsCounted
  BY Zenon DEF SafePayInv
<1>. QED  BY <1>1, SafePayInvariant, PTL

\* A disputed order moves only in the step that stores an administrator's decision.
THEOREM DisputesAreFrozen == Spec => DisputeFreezes
<1>1. TypeOK /\ [Next]_vars =>
        [\A e \in Escrows :
           order[e] = "DISPUTED" /\ <<order'[e], hold'[e]>> # <<order[e], hold[e]>> =>
             \E k \in Keys["resolve"] : /\ answers[<<"resolve", e, k>>] = None
                                        /\ answers'[<<"resolve", e, k>>] # None]_vars
  <2> SUFFICES ASSUME TypeOK, [Next]_vars, NEW e \in Escrows, order[e] = "DISPUTED",
                      <<order'[e], hold'[e]>> # <<order[e], hold[e]>>
               PROVE  \E k \in Keys["resolve"] : /\ answers[<<"resolve", e, k>>] = None
                                                 /\ answers'[<<"resolve", e, k>>] # None
    BY Zenon
  <2>1. ~Stands(e)
    BY Zenon DEF Stands
  <2>. QED  BY Zenon, <2>1, OnlyDecisionsMoveDisputed
<1>. QED  BY <1>1, SafePayTypes, PTL DEF Spec, DisputeFreezes
=============================================================================
