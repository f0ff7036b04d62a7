---------------------------- MODULE BillingProofs ---------------------------
(***************************************************************************)
(* Proofs about BillingCheckout for any keys and handlers.                 *)
(*                                                                         *)
(* And about SubscriptionSync for any subscriptions, handlers and number   *)
(* of reports.  Rows are only ever added, a subscription has one, and the  *)
(* free plan that follows a deleted one is newer for ever.  The period of  *)
(* a row is one that was reported, and no report outlives the period in    *)
(* which the subscription ended.                                           *)
(***************************************************************************)
EXTENDS BillingCheckout, SubscriptionSync, TLAPS

OneLock == \A j, k \in Keys : checkout[j].lock /\ checkout[k].lock => j = k

\* What Stripe would take money for still holds the lock.
PayableLocked == \A k \in Keys : Payable(k) => checkout[k].lock
PaidHasUrl == \A k \in Keys : stripe[k] = "PAID" => checkout[k].url

\* A request at work on a checkout is the only one, and has not written its URL;
\* a completion is of a session that was paid.
Opening(h) == work[h].pc \in CheckoutSteps
Opened(row) == row.status = "PENDING" /\ row.lock /\ ~row.url
OpeningAlone ==
  /\ \A h \in Handlers : Opening(h) => Opened(checkout[work[h].key])
  /\ \A g, h \in Handlers : Opening(g) /\ Opening(h) /\ work[g].key = work[h].key => g = h
CompletesPaid == \A h \in Handlers : At(h, "completed") => stripe[work[h].key] = "PAID"

\* The inductive invariant.
CheckoutInv ==
  CheckoutTypes /\ OneLock /\ PayableLocked /\ PaidHasUrl /\ OpeningAlone /\ CompletesPaid

CompletedStays ==
  \A k \in Keys : checkout[k].status = "COMPLETED" => checkout'[k].status = "COMPLETED"

USE DEF CheckoutSteps
-----------------------------------------------------------------------------
(* Rows and handlers *)

\* A handler that is not idle has a job of one of the kinds there are.
LEMMA CheckoutWorkType ==
  ASSUME CheckoutTypes, NEW h \in Handlers, work[h].pc # "idle"
  PROVE  work[h] \in CheckoutWork
  BY DEF CheckoutTypes, Idle

\* At the beginning there are no checkouts and no sessions at Stripe.
LEMMA InitCheckoutInv == CheckoutInit => CheckoutInv
  BY DEF CheckoutInit, CheckoutInv, CheckoutTypes, OneLock, PayableLocked, PaidHasUrl,
      OpeningAlone,
         CompletesPaid, Opening, At, Payable, NoCheckout, Checkout, Idle

\* A handler that ends leaves the others as they are.
LEMMA JobEnds ==
  ASSUME CheckoutInv, NEW h \in Handlers, Finish(h)
  PROVE  /\ work' \in [Handlers -> CheckoutWork \cup {Idle}]
         /\ ~Opening(h)' /\ ~At(h, "completed")'
         /\ \A g \in Handlers : g # h => work'[g] = work[g]
  BY DEF CheckoutInv, CheckoutTypes, Finish, Idle, Opening, At

\* So does one that begins, or goes on, and it stays about its key.
LEMMA JobBegins ==
  ASSUME CheckoutInv, NEW h \in Handlers, NEW k \in Keys,
         NEW pc \in CheckoutSteps \cup {"completed"}, Begin(h, [pc |-> pc, key |-> k])
  PROVE  /\ work' \in [Handlers -> CheckoutWork \cup {Idle}]
         /\ ~Opening(h) /\ work'[h] = [pc |-> pc, key |-> k]
         /\ \A g \in Handlers : g # h => work'[g] = work[g]
  BY DEF CheckoutInv, CheckoutTypes, Begin, Idle, Opening, CheckoutWork

\* A request that goes on is still about its checkout, and leaves the others as they are.
LEMMA JobGoesOn ==
  ASSUME CheckoutInv, NEW h \in Handlers, Opening(h), NEW pc \in CheckoutSteps, Goto(h, pc)
  PROVE  /\ work' \in [Handlers -> CheckoutWork \cup {Idle}]
         /\ work[h].key \in Keys
         /\ Opening(h)' /\ work'[h].key = work[h].key
         /\ \A g \in Handlers : g # h => work'[g] = work[g]
  <1>1. work[h] \in CheckoutWork
    BY CheckoutWorkType DEF CheckoutInv, Opening
  <1>2. work'[h] = [work[h] EXCEPT !.pc = pc]
    BY DEF Goto, CheckoutInv, CheckoutTypes
  <1>3. work'[h] \in CheckoutWork /\ work'[h].pc = pc /\ work'[h].key = work[h].key
    BY <1>1, <1>2 DEF CheckoutWork
  <1>. QED  BY <1>1, <1>3 DEF Goto, CheckoutInv, CheckoutTypes, Opening, CheckoutWork
-----------------------------------------------------------------------------
(* Steps *)

\* A handler that dies leaves the rows: a checkout it held stays locked.
LEMMA HandlerEnds ==
  ASSUME CheckoutInv, NEW h \in Handlers, CheckoutDies(h)
  PROVE  CheckoutInv' /\ CompletedStays
  <1>1. UNCHANGED <<checkout, stripe, seen>>
    BY DEF CheckoutDies
  <1>2. /\ work' \in [Handlers -> CheckoutWork \cup {Idle}]
        /\ ~Opening(h)' /\ ~At(h, "completed")'
        /\ \A g \in Handlers : g # h => work'[g] = work[g]
    BY JobEnds DEF CheckoutDies
  <1>. QED  BY <1>1, <1>2 DEF CheckoutInv, CheckoutTypes, OneLock, PayableLocked, PaidHasUrl,
      OpeningAlone,
            CompletesPaid, Opening, At, Payable, CompletedStays

\* A request that opens a checkout found no other locked, so the new row has the one lock.
LEMMA OpenStep ==
  ASSUME CheckoutInv, NEW h \in Handlers, NEW k \in Keys, Open(h, k)
  PROVE  CheckoutInv' /\ CompletedStays
  <1>. DEFINE row == [status |-> "PENDING", lock |-> TRUE, url |-> FALSE]
  <1>1. row \in Checkout /\ Opened(row)
    BY DEF Checkout, Opened
  <1>2. /\ checkout[k] = NoCheckout
        /\ \A j \in Keys : ~checkout[j].lock
        /\ checkout' = [checkout EXCEPT ![k] = row]
        /\ UNCHANGED <<stripe, seen>>
    BY DEF Open
  <1>3. /\ work' \in [Handlers -> CheckoutWork \cup {Idle}]
        /\ ~Opening(h) /\ work'[h] = [pc |-> "provider", key |-> k]
        /\ \A g \in Handlers : g # h => work'[g] = work[g]
    BY JobBegins DEF Open
  <1>4. \A g \in Handlers : Opening(g) => work[g].key # k
    BY <1>2 DEF CheckoutInv, OpeningAlone, Opened, NoCheckout
  <1>5. CheckoutTypes'
    BY <1>1, <1>2, <1>3 DEF CheckoutInv, CheckoutTypes
  <1>6. OneLock' /\ PayableLocked' /\ PaidHasUrl' /\ CompletedStays
    BY <1>2 DEF CheckoutInv, CheckoutTypes, OneLock, PayableLocked, PaidHasUrl, Payable,
        CompletedStays, NoCheckout
  <1>7. OpeningAlone'
    <2>1. ASSUME NEW g \in Handlers, Opening(g)'  PROVE Opened(checkout[work[g].key])'
      <3>1. CASE g = h
        BY <3>1, <1>1, <1>2, <1>3 DEF CheckoutInv, CheckoutTypes, Opened
      <3>2. CASE g # h
        <4>1. Opening(g) /\ work'[g] = work[g] /\ work[g].key # k
          BY <3>2, <2>1, <1>3, <1>4 DEF Opening
        <4>2. checkout'[work[g].key] = checkout[work[g].key]
          BY <4>1, <1>2, CheckoutWorkType DEF CheckoutInv, CheckoutTypes, CheckoutWork, Opening
        <4>. QED  BY <4>1, <4>2 DEF CheckoutInv, OpeningAlone, Opened
      <3>. QED  BY <3>1, <3>2
    <2>2. ASSUME NEW f \in Handlers, NEW g \in Handlers, Opening(f)', Opening(g)',
                 work'[f].key = work'[g].key
          PROVE  f = g
      BY <2>2, <1>3, <1>4 DEF CheckoutInv, OpeningAlone, Opening
    <2>. QED  BY <2>1, <2>2 DEF OpeningAlone
  <1>8. CompletesPaid'
    BY <1>2, <1>3 DEF CheckoutInv, CompletesPaid, At
  <1>. QED  BY <1>5, <1>6, <1>7, <1>8 DEF CheckoutInv

\* Sessions are created at Stripe, and requests fail, behind the row's back.
LEMMA RequestGoesOn ==
  ASSUME CheckoutInv, NEW h \in Handlers, CreateCheckout(h) \/ CheckoutThrows(h)
  PROVE  CheckoutInv' /\ CompletedStays
  <1>1. Opening(h) /\ UNCHANGED <<checkout, seen>>
    BY DEF CreateCheckout, CheckoutThrows, Opening, At
  <1>2. PICK pc \in CheckoutSteps : Goto(h, pc)
    BY DEF CreateCheckout, CheckoutThrows
  <1>3. /\ work' \in [Handlers -> CheckoutWork \cup {Idle}]
        /\ work[h].key \in Keys
        /\ Opening(h)' /\ work'[h].key = work[h].key
        /\ \A g \in Handlers : g # h => work'[g] = work[g]
    BY <1>1, <1>2, JobGoesOn
  <1>4. stripe' = stripe \/ stripe' = [stripe EXCEPT ![work[h].key] = "OPEN"]
    BY DEF CreateCheckout, CheckoutThrows
  <1>5. ~checkout[work[h].key].url /\ stripe[work[h].key] # "PAID"
    BY <1>1, <1>3 DEF CheckoutInv, OpeningAlone, Opened, PaidHasUrl
  <1>6. CheckoutTypes'
    BY <1>1, <1>3, <1>4 DEF CheckoutInv, CheckoutTypes
  <1>7. OneLock' /\ PayableLocked' /\ PaidHasUrl' /\ CompletedStays
    BY <1>1, <1>3, <1>4, <1>5 DEF CheckoutInv, CheckoutTypes, OneLock, PayableLocked, PaidHasUrl, Payable,
        CompletedStays
  <1>8. OpeningAlone'
    BY <1>1, <1>3 DEF CheckoutInv, OpeningAlone, Opening, Opened
  <1>9. CompletesPaid'
    <2>1. ASSUME NEW g \in Handlers, At(g, "completed")'  PROVE stripe'[work'[g].key] = "PAID"
      <3>1. g # h /\ work'[g] = work[g] /\ At(g, "completed")
        BY <2>1, <1>3 DEF At, Opening
      <3>2. stripe[work[g].key] = "PAID" /\ work[g].key \in Keys
        BY <3>1, CheckoutWorkType DEF CheckoutInv, CompletesPaid, At, CheckoutWork
      <3>. QED  BY <3>1, <3>2, <1>4, <1>5 DEF CheckoutInv, CheckoutTypes
    <2>. QED  BY <2>1 DEF CompletesPaid
  <1>. QED  BY <1>6, <1>7, <1>8, <1>9 DEF CheckoutInv

\* A handler writes a row and ends, and nobody else is at work on that row.
LEMMA RowWritten ==
  ASSUME CheckoutInv, NEW h \in Handlers, Finish(h), UNCHANGED <<stripe, seen>>,
         NEW k \in Keys, NEW row \in Checkout,
         checkout' = [checkout EXCEPT ![k] = row],
         row.lock => checkout[k].lock,
         checkout[k].url => row.url,
         row.url /\ stripe[k] = "OPEN" => row.lock,
         \A g \in Handlers : g # h /\ Opening(g) => work[g].key # k
  PROVE  CheckoutInv'
  <1>1. /\ work' \in [Handlers -> CheckoutWork \cup {Idle}]
        /\ ~Opening(h)' /\ ~At(h, "completed")'
        /\ \A g \in Handlers : g # h => work'[g] = work[g]
    BY JobEnds
  <1>2. CheckoutTypes'
    BY <1>1 DEF CheckoutInv, CheckoutTypes
  <1>3. OneLock' /\ PayableLocked' /\ PaidHasUrl'
    BY DEF CheckoutInv, CheckoutTypes, OneLock, PayableLocked, PaidHasUrl, Payable
  <1>4. OpeningAlone'
    <2>1. ASSUME NEW g \in Handlers, Opening(g)'  PROVE Opened(checkout[work[g].key])'
      <3>1. g # h /\ work'[g] = work[g] /\ Opening(g)
        BY <2>1, <1>1 DEF Opening
      <3>2. checkout'[work[g].key] = checkout[work[g].key]
        BY <3>1, CheckoutWorkType DEF CheckoutInv, CheckoutTypes, CheckoutWork, Opening
      <3>. QED  BY <3>1, <3>2 DEF CheckoutInv, OpeningAlone, Opened
    <2>. QED  BY <2>1, <1>1 DEF CheckoutInv, OpeningAlone, Opening
  <1>5. CompletesPaid'
    BY <1>1 DEF CheckoutInv, CompletesPaid, At
  <1>. QED  BY <1>2, <1>3, <1>4, <1>5 DEF CheckoutInv

\* A request ends with its own row as it left it, PENDING and locked, so neither the URL
\* it records nor the failure it writes falls on a completed checkout.
LEMMA RequestEnds ==
  ASSUME CheckoutInv, NEW h \in Handlers, RecordCheckout(h) \/ CheckoutFailed(h)
  PROVE  CheckoutInv' /\ CompletedStays
  <1>1. Opening(h) /\ Finish(h) /\ UNCHANGED <<stripe, seen>>
    BY DEF RecordCheckout, CheckoutFailed, Opening, At
  <1>2. PICK k \in Keys : k = work[h].key
    BY <1>1, CheckoutWorkType DEF CheckoutInv, Opening, CheckoutWork
  <1>3. checkout[k] \in Checkout /\ Opened(checkout[k])
    BY <1>1, <1>2 DEF CheckoutInv, CheckoutTypes, OpeningAlone
  <1>4. \A g \in Handlers : g # h /\ Opening(g) => work[g].key # k
    BY <1>1, <1>2 DEF CheckoutInv, OpeningAlone
  <1>5. CASE RecordCheckout(h)
    <2>1. PICK row : row = [checkout[k] EXCEPT !.url = TRUE]
      OBVIOUS
    <2>2. checkout' = [checkout EXCEPT ![k] = row]
      BY <1>2, <1>5, <2>1 DEF RecordCheckout
    <2>3. row \in Checkout /\ row.url /\ row.lock /\ checkout[k].lock
      BY <1>3, <2>1 DEF Checkout, Opened
    <2>4. CheckoutInv'
      BY <1>1, <1>4, <2>2, <2>3, RowWritten
    <2>. QED  BY <1>3, <2>2, <2>4 DEF CompletedStays, Opened, CheckoutInv, CheckoutTypes
  <1>6. CASE CheckoutFailed(h)
    <2>1. PICK row : row = Unlocked(checkout[k], "FAILED")
      OBVIOUS
    <2>2. checkout' = [checkout EXCEPT ![k] = row]
      BY <1>2, <1>6, <2>1 DEF CheckoutFailed
    <2>3. row \in Checkout /\ ~row.url /\ ~row.lock /\ ~checkout[k].url
      BY <1>3, <2>1 DEF Checkout, Opened, Unlocked
    <2>4. CheckoutInv'
      BY <1>1, <1>4, <2>2, <2>3, RowWritten
    <2>. QED  BY <1>3, <2>2, <2>4 DEF CompletedStays, Opened, CheckoutInv, CheckoutTypes
  <1>. QED  BY <1>5, <1>6

\* A webhook completes a checkout only after Stripe took the money for it.
LEMMA CompletionStep ==
  ASSUME CheckoutInv, NEW h \in Handlers, CheckoutCompleted(h)
  PROVE  CheckoutInv' /\ CompletedStays
  <1>1. Finish(h) /\ UNCHANGED <<stripe, seen>>
    BY DEF CheckoutCompleted
  <1>2. PICK k \in Keys : k = work[h].key
    BY CheckoutWorkType DEF CheckoutCompleted, CheckoutInv, At, CheckoutWork
  <1>3. stripe[k] = "PAID" /\ checkout[k].url /\ checkout[k] \in Checkout
    BY <1>2 DEF CheckoutCompleted, CheckoutInv, CompletesPaid, PaidHasUrl, CheckoutTypes
  <1>4. PICK row : row = Unlocked(checkout[k], "COMPLETED")
    OBVIOUS
  <1>5. checkout' = [checkout EXCEPT ![k] = row]
    BY <1>2, <1>3, <1>4 DEF CheckoutCompleted, CheckoutInv, CheckoutTypes
  <1>6. row \in Checkout /\ row.url /\ ~row.lock /\ row.status = "COMPLETED"
    BY <1>3, <1>4 DEF Checkout, Unlocked
  <1>7. \A g \in Handlers : g # h /\ Opening(g) => work[g].key # k
    BY <1>3 DEF CheckoutInv, OpeningAlone, Opened
  <1>8. CheckoutInv'
    BY <1>1, <1>3, <1>5, <1>6, <1>7, RowWritten
  <1>. QED  BY <1>5, <1>6, <1>8 DEF CompletedStays, CheckoutInv, CheckoutTypes

\* Reconciliation takes the lock of a PENDING row past its expiry, which Stripe sells no more.
LEMMA ReconcileStep ==
  ASSUME CheckoutInv, NEW k \in Keys, ReconcileExpired(k)
  PROVE  CheckoutInv' /\ CompletedStays
  <1>1. /\ checkout[k].status = "PENDING" /\ PastExpiry(k)
        /\ UNCHANGED <<stripe, seen, work>>
    BY DEF ReconcileExpired
  <1>2. PICK row : row = Unlocked(checkout[k], "EXPIRED")
    OBVIOUS
  <1>3. checkout' = [checkout EXCEPT ![k] = row]
    BY <1>2 DEF ReconcileExpired
  <1>4. row \in Checkout /\ row.url = checkout[k].url /\ ~row.lock
    BY <1>2 DEF CheckoutInv, CheckoutTypes, Checkout, Unlocked
  <1>5. ~Payable(k)
    BY <1>1 DEF PastExpiry, Payable
  <1>6. \A h \in Handlers : Opening(h) => work[h].key # k
    BY <1>1 DEF PastExpiry, Opening, CheckoutInv, OpeningAlone, Opened
  <1>7. CheckoutTypes'
    BY <1>1, <1>3, <1>4 DEF CheckoutInv, CheckoutTypes
  <1>8. OneLock' /\ PayableLocked' /\ PaidHasUrl' /\ CompletedStays
    BY <1>1, <1>3, <1>4, <1>5 DEF CheckoutInv, CheckoutTypes, OneLock, PayableLocked, PaidHasUrl, Payable,
        CompletedStays
  <1>9. OpeningAlone'
    <2>1. ASSUME NEW h \in Handlers, Opening(h)
          PROVE  checkout'[work[h].key] = checkout[work[h].key]
      BY <2>1, <1>3, <1>6, CheckoutWorkType DEF CheckoutInv, CheckoutTypes, CheckoutWork, Opening
    <2>. QED  BY <2>1, <1>1 DEF CheckoutInv, OpeningAlone, Opening, Opened
  <1>10. CompletesPaid'
    BY <1>1 DEF CheckoutInv, CompletesPaid, At
  <1>. QED  BY <1>7, <1>8, <1>9, <1>10 DEF CheckoutInv

\* At Stripe an open session is paid or expires, and only one whose URL was given is paid.
LEMMA StripeStep ==
  ASSUME CheckoutInv, NEW k \in Keys, Pay(k) \/ SessionExpires(k)
  PROVE  CheckoutInv' /\ CompletedStays
  <1>1. UNCHANGED <<checkout, seen, work>> /\ stripe[k] = "OPEN"
    BY DEF Pay, SessionExpires
  <1>2. PICK s \in {"PAID", "EXPIRED"} :
          stripe' = [stripe EXCEPT ![k] = s] /\ (s = "PAID" => checkout[k].url)
    BY DEF Pay, SessionExpires
  <1>3. CheckoutTypes' /\ OneLock' /\ PayableLocked' /\ PaidHasUrl' /\ CompletedStays
    BY <1>1, <1>2 DEF CheckoutInv, CheckoutTypes, OneLock, PayableLocked, PaidHasUrl, Payable,
        CompletedStays
  <1>4. OpeningAlone'
    BY <1>1 DEF CheckoutInv, OpeningAlone, Opening, Opened
  <1>5. CompletesPaid'
    BY <1>1, <1>2, CheckoutWorkType DEF CheckoutInv, CheckoutTypes, CompletesPaid, At, CheckoutWork
  <1>. QED  BY <1>3, <1>4, <1>5 DEF CheckoutInv

\* A webhook that begins is about a session that was paid.
LEMMA WebhookStep ==
  ASSUME CheckoutInv, NEW h \in Handlers, NEW k \in Keys, Webhook(h, k)
  PROVE  CheckoutInv' /\ CompletedStays
  <1>1. stripe[k] = "PAID" /\ UNCHANGED <<checkout, stripe>> /\ seen' \subseteq Keys
    BY DEF Webhook, CheckoutInv, CheckoutTypes
  <1>2. /\ work' \in [Handlers -> CheckoutWork \cup {Idle}]
        /\ ~Opening(h) /\ work'[h] = [pc |-> "completed", key |-> k]
        /\ \A g \in Handlers : g # h => work'[g] = work[g]
    BY JobBegins DEF Webhook
  <1>3. CheckoutTypes' /\ OneLock' /\ PayableLocked' /\ PaidHasUrl' /\ CompletedStays
    BY <1>1, <1>2 DEF CheckoutInv, CheckoutTypes, OneLock, PayableLocked, PaidHasUrl, Payable,
        CompletedStays
  <1>4. OpeningAlone'
    BY <1>1, <1>2 DEF CheckoutInv, OpeningAlone, Opening, Opened
  <1>5. CompletesPaid'
    BY <1>1, <1>2 DEF CheckoutInv, CompletesPaid, At
  <1>. QED  BY <1>3, <1>4, <1>5 DEF CheckoutInv
-----------------------------------------------------------------------------
(* The theorems *)

\* Every step keeps the invariant of the checkouts, and takes no completed one back.
LEMMA CheckoutInductive ==
  CheckoutInv /\ [CheckoutNext]_checkoutVars => CheckoutInv' /\ CompletedStays
  <1>. SUFFICES ASSUME CheckoutInv, [CheckoutNext]_checkoutVars
                PROVE  CheckoutInv' /\ CompletedStays
    OBVIOUS
  <1>1. CASE UNCHANGED checkoutVars
    BY <1>1 DEF checkoutVars, CheckoutInv, CheckoutTypes, OneLock, PayableLocked, PaidHasUrl,
      OpeningAlone,
                CompletesPaid, Opening, Opened, At, Payable, CompletedStays
  <1>2. CASE CheckoutNext
    BY <1>2, HandlerEnds, OpenStep, RequestGoesOn, RequestEnds, CompletionStep, ReconcileStep,
       StripeStep, WebhookStep DEF CheckoutNext, CheckoutStep
  <1>. QED  BY <1>1, <1>2

\* The rows and the handlers always have their types, for any number of them.
THEOREM CheckoutsTyped == CheckoutSpec => []CheckoutTypes
  <1>1. CheckoutInv => CheckoutTypes
    BY DEF CheckoutInv
  <1>. QED  BY InitCheckoutInv, CheckoutInductive, <1>1, PTL DEF CheckoutSpec

\* Of all the sessions an organization was given, it can pay at most one.
THEOREM PayableOnce == CheckoutSpec => []OnePayable
  <1>1. CheckoutInv => OnePayable
    BY DEF CheckoutInv, OnePayable, OneLock, PayableLocked
  <1>. QED  BY InitCheckoutInv, CheckoutInductive, <1>1, PTL DEF CheckoutSpec

\* No interleaving takes a completed checkout back.
THEOREM CompletionIsFinal == CheckoutSpec => CompletedIsFinal
  <1>1. CheckoutInv /\ [CheckoutNext]_checkoutVars => [CompletedStays]_checkoutVars
    BY CheckoutInductive
  <1>2. CompletedStays <=>
          \A k \in Keys : checkout[k].status = "COMPLETED" => checkout'[k].status = "COMPLETED"
    BY DEF CompletedStays
  <1>3. CheckoutInv /\ [CheckoutNext]_checkoutVars =>
          [\A k \in Keys : checkout[k].status = "COMPLETED"
                              => checkout'[k].status = "COMPLETED"]_checkoutVars
    BY <1>1, <1>2
  <1>. QED  BY InitCheckoutInv, CheckoutInductive, <1>3, PTL DEF CheckoutSpec, CompletedIsFinal

HIDE DEF CheckoutSteps
-----------------------------------------------------------------------------
(* Subscriptions *)

WebhookSteps == {"received", "create", "update", "mark"}
OwnerSteps == {"cancel", "reactivate"}

\* A handler is about an event that was emitted, or a row that exists.
Updating(h, s) == At(h, "update") /\ Subject(h) = s
EventsKnown ==
  /\ \A e \in Events : ledger[e] # "NONE" => e \in Emitted
  /\ \A h \in Handlers : work[h].pc \in WebhookSteps => work[h].event \in Emitted
RowsKnown ==
  /\ plans # <<>>
  /\ \A h \in Handlers : work[h].pc \in OwnerSteps => work[h].row \in DOMAIN plans
  /\ \A h \in Handlers : \A s \in Subscriptions : Updating(h, s) => RowsOf(s) # {}

\* A free plan is one that grants.
FreeGrants == \A i \in RowsOf(Free) : plans[i].status \in {"ACTIVE", "CANCELED"}

\* The row of a subscription whose end was written is older than a free plan.
Superseded(s) == RowsOf(s) # {} /\ \E j \in RowsOf(Free) : \A i \in RowsOf(s) : i < j
Ending(h, s) == At(h, "mark") /\ Subject(h) = s /\ ReportOf(h).kind = "DELETED"
EndsSuperseded ==
  /\ \A s \in Subscriptions : EndProcessed(s) => Superseded(s)
  /\ \A h \in Handlers : \A s \in Subscriptions : Ending(h, s) => Superseded(s)

\* The period of a row is one that was reported of its subscription; no report is ahead
\* of the period that runs, later ones do not end earlier, and an end leaves the period.
PeriodsReported ==
  \A s \in Subscriptions : \A i \in RowsOf(s) :
    \E n \in DOMAIN reports[s] : plans[i].until = reports[s][n].until
PeriodsOrdered ==
  \A s \in Subscriptions : \A n \in DOMAIN reports[s] :
    /\ reports[s][n].until <= now + 1
    /\ \A m \in DOMAIN reports[s] :
         /\ m <= n => reports[s][m].until <= reports[s][n].until
         /\ reports[s][n].kind \in Ends => reports[s][m].until <= reports[s][n].until

\* The inductive invariant.
IInv == /\ TypeOK /\ EventsKnown /\ RowsKnown /\ FreeGrants /\ EndsSuperseded
        /\ PeriodsReported /\ PeriodsOrdered

\* Rows stay what they are of, and a subscription that has one gets no other.
Grows ==
  /\ plans' \in Seq(Plan)
  /\ DOMAIN plans \subseteq DOMAIN plans'
  /\ \A i \in DOMAIN plans : plans'[i].of = plans[i].of
  /\ \A s \in Subscriptions : RowsOf(s) # {} => RowsOf(s)' = RowsOf(s)

USE FreeAssumption, MaxReportsAssumption, MaxPeriodsAssumption DEF WebhookSteps, OwnerSteps
-----------------------------------------------------------------------------
(* Rows *)

\* A row that is appended leaves the earlier ones where they are.
LEMMA PlansAppended ==
  ASSUME NEW p \in Seq(Plan), NEW r \in Plan
  PROVE  /\ Append(p, r) \in Seq(Plan)
         /\ DOMAIN p = 1 .. Len(p) /\ Len(p) \in Nat
         /\ DOMAIN Append(p, r) = 1 .. Len(p) + 1
         /\ Len(Append(p, r)) = Len(p) + 1
         /\ \A i \in DOMAIN p : Append(p, r)[i] = p[i]
         /\ Append(p, r)[Len(p) + 1] = r
  OBVIOUS

\* A handler that is not idle has a job of one of the kinds there are.
LEMMA WorkType ==
  ASSUME TypeOK, NEW h \in Handlers, work[h].pc # "idle"
  PROVE  work[h] \in Work
  BY DEF TypeOK, Idle

\* What a webhook is about.
LEMMA EventType ==
  ASSUME TypeOK, EventsKnown, NEW h \in Handlers, work[h].pc \in WebhookSteps
  PROVE  /\ work[h] \in Work /\ work[h].event \in Events
         /\ Subject(h) \in Subscriptions
         /\ ReportOf(h) \in Reported
         /\ Status(ReportOf(h).kind) \in Statuses
         /\ \E n \in DOMAIN reports[Subject(h)] : ReportOf(h).until = reports[Subject(h)][n].until
  <1>1. work[h] \in Work /\ work[h].event \in Emitted
    BY WorkType DEF EventsKnown
  <1>2. /\ work[h].event \in Events
        /\ work[h].event[1] \in Subscriptions
        /\ work[h].event[2] \in 1 .. Len(reports[work[h].event[1]])
    BY <1>1 DEF Emitted, Events
  <1>3. reports[work[h].event[1]] \in Seq(Reported)
    BY <1>2 DEF TypeOK
  <1>4. /\ ReportOf(h) \in Reported
        /\ \E n \in DOMAIN reports[Subject(h)] : ReportOf(h).until = reports[Subject(h)][n].until
    BY <1>2, <1>3 DEF ReportOf, Subject
  <1>5. Status(ReportOf(h).kind) \in Statuses
    BY <1>4 DEF Status, Statuses, Kinds, Ends, Reported
  <1>. QED  BY <1>1, <1>2, <1>4, <1>5 DEF Subject

\* Periods end at a time.
LEMMA ReportType ==
  ASSUME TypeOK, NEW s \in Subscriptions, NEW n \in DOMAIN reports[s]
  PROVE  reports[s][n] \in Reported /\ reports[s][n].until \in Nat
  <1>1. reports[s] \in Seq(Reported)
    BY DEF TypeOK
  <1>2. reports[s][n] \in Reported
    BY <1>1
  <1>. QED  BY <1>2 DEF Reported

\* A subscription that a later free plan has replaced stays replaced.
LEMMA SupersededStays ==
  ASSUME TypeOK, Grows, NEW s \in Subscriptions, Superseded(s)
  PROVE  Superseded(s)'
  <1>1. PICK j \in RowsOf(Free) : \A i \in RowsOf(s) : i < j
    BY DEF Superseded
  <1>2. j \in RowsOf(Free)'
    BY <1>1 DEF Grows, RowsOf
  <1>3. RowsOf(s)' = RowsOf(s) /\ RowsOf(s) # {}
    BY DEF Grows, Superseded
  <1>. QED  BY <1>1, <1>2, <1>3 DEF Superseded

\* Nothing is said of the plans by a step that leaves them.
LEMMA SamePlans ==
  ASSUME IInv, plans' = plans, reports' = reports
  PROVE  Grows /\ FreeGrants' /\ plans' # <<>> /\ PeriodsReported'
  BY DEF IInv, TypeOK, RowsKnown, Grows, FreeGrants, RowsOf, PeriodsReported

\* The organization begins with its free plan, and nothing reported.
LEMMA InitIInv == Init => IInv
  <1>. SUFFICES ASSUME Init  PROVE IInv
    OBVIOUS
  <1>1. FreePlan \in Plan
    BY DEF Init, FreePlan, Plan, Statuses
  <1>2. plans \in Seq(Plan) /\ plans # <<>> /\ DOMAIN plans = {1} /\ plans[1] = FreePlan
    BY <1>1 DEF Init
  <1>3. TypeOK
    BY <1>2 DEF Init, TypeOK
  <1>4. EventsKnown /\ RowsKnown
    BY <1>2 DEF Init, EventsKnown, RowsKnown, Updating, At, Idle
  <1>5. FreeGrants
    BY <1>2 DEF FreeGrants, RowsOf, FreePlan
  <1>6. EndsSuperseded
    BY DEF Init, EndsSuperseded, EndProcessed, Ending, Emitted, At, Idle
  <1>7. PeriodsReported /\ PeriodsOrdered
    BY <1>2 DEF Init, PeriodsReported, PeriodsOrdered, RowsOf, FreePlan
  <1>. QED  BY <1>3, <1>4, <1>5, <1>6, <1>7 DEF IInv
-----------------------------------------------------------------------------
(* Steps of one handler that add rows or none, and report nothing *)

\* A handler's new state is of its type and about what it was about.
Proceeds(h) ==
  /\ work' \in [Handlers -> Work \cup {Idle}]
  /\ \A g \in Handlers : g # h => work'[g] = work[g]
  /\ work'[h].pc \in WebhookSteps => work'[h].event \in Emitted
  /\ work'[h].pc \in OwnerSteps => work'[h].row \in DOMAIN plans
  /\ \A s \in Subscriptions : Updating(h, s)' => RowsOf(s) # {}

\* What a step of one handler has to show of its own job, the ledger and the rows, the other
\* handlers' parts of the invariant following from what they have read.
LEMMA HandlerStep ==
  ASSUME IInv, NEW h \in Handlers, Proceeds(h), Grows, FreeGrants', PeriodsReported', plans' # <<>>,
         reports' = reports, now' = now, ledger' \in [Events -> {"NONE", "RECEIVED", "PROCESSED"}],
         \A e \in Events : ledger'[e] # "NONE" => e \in Emitted,
         \A e \in Emitted : ledger'[e] = "PROCESSED" /\ reports[e[1]][e[2]].kind = "DELETED"
                              => ledger[e] = "PROCESSED" \/ Superseded(e[1]),
         \A s \in Subscriptions : Ending(h, s)' => Superseded(s)'
  PROVE  IInv'
  <1>1. TypeOK'
    BY DEF IInv, TypeOK, Proceeds, Grows
  <1>2. Emitted' = Emitted
    BY DEF Emitted
  <1>3. EventsKnown'
    BY <1>2 DEF EventsKnown, IInv, Proceeds
  <1>4. RowsKnown'
    <2>1. ASSUME NEW g \in Handlers, NEW s \in Subscriptions, Updating(g, s)'
          PROVE  RowsOf(s)' # {}
      <3>1. RowsOf(s) # {}
        BY <2>1 DEF IInv, RowsKnown, Proceeds, Updating, At, Subject
      <3>. QED  BY <3>1 DEF Grows
    <2>. QED  BY <2>1 DEF RowsKnown, IInv, Proceeds, Grows
  <1>5. ASSUME NEW s \in Subscriptions, EndProcessed(s)'  PROVE Superseded(s)'
    <2>1. PICK e \in Emitted : e[1] = s /\ reports[s][e[2]].kind = "DELETED" /\ ledger'[e] = "PROCESSED"
      BY <1>2, <1>5 DEF EndProcessed
    <2>2. EndProcessed(s) \/ Superseded(s)
      BY <2>1 DEF EndProcessed
    <2>. QED  BY <2>2, SupersededStays DEF IInv, EndsSuperseded
  <1>6. ASSUME NEW g \in Handlers, NEW s \in Subscriptions, Ending(g, s)'
        PROVE  Superseded(s)'
    <2>1. CASE g = h
      BY <2>1, <1>6
    <2>2. CASE g # h
      <3>1. Ending(g, s)
        BY <2>2, <1>6 DEF Ending, Proceeds, At, ReportOf, Subject
      <3>. QED  BY <3>1, SupersededStays DEF IInv, EndsSuperseded
    <2>. QED  BY <2>1, <2>2
  <1>7. EndsSuperseded'
    BY <1>5, <1>6 DEF EndsSuperseded
  <1>8. PeriodsOrdered'
    BY DEF IInv, PeriodsOrdered
  <1>. QED  BY <1>1, <1>3, <1>4, <1>7, <1>8 DEF IInv

-----------------------------------------------------------------------------
(* How handlers move *)

\* A handler that ends is about nothing, ...
LEMMA WebhookOrOwnerEnds ==
  ASSUME IInv, NEW h \in Handlers, Finish(h)
  PROVE  Proceeds(h) /\ \A s \in Subscriptions : ~Ending(h, s)'
  BY DEF IInv, TypeOK, Finish, Proceeds, Updating, Ending, At, Idle

\* ... a webhook begins with an event that Stripe has sent, ...
LEMMA BeginsWebhook ==
  ASSUME IInv, NEW h \in Handlers, NEW e \in Emitted, Begin(h, [pc |-> "received", event |-> e])
  PROVE  Proceeds(h) /\ \A s \in Subscriptions : ~Ending(h, s)'
  <1>1. [pc |-> "received", event |-> e] \in Work
    BY DEF Work, Emitted
  <1>. QED  BY <1>1 DEF IInv, TypeOK, Begin, Proceeds, Updating, Ending, At

\* ... an owner's request with the last row, ...
LEMMA BeginsOwner ==
  ASSUME IInv, NEW h \in Handlers, NEW pc \in OwnerSteps, Begin(h, [pc |-> pc, row |-> Len(plans)])
  PROVE  Proceeds(h) /\ \A s \in Subscriptions : ~Ending(h, s)'
  <1>1. Len(plans) \in Nat \ {0} /\ Len(plans) \in DOMAIN plans
    BY DEF IInv, TypeOK, RowsKnown
  <1>2. [pc |-> pc, row |-> Len(plans)] \in Work
    BY <1>1 DEF Work
  <1>. QED  BY <1>1, <1>2 DEF IInv, TypeOK, Begin, Proceeds, Updating, Ending, At

\* ... and a webhook goes on with the same event.
LEMMA GoesOn ==
  ASSUME IInv, NEW h \in Handlers, work[h].pc \in WebhookSteps, NEW pc \in WebhookSteps, Goto(h, pc),
         pc = "update" => RowsOf(Subject(h)) # {}
  PROVE  /\ Proceeds(h)
         /\ Subject(h)' = Subject(h) /\ work'[h].event = work[h].event
         /\ work'[h].pc = pc
  <1>1. work[h] \in Work /\ work[h].event \in Events /\ work[h].event \in Emitted
    BY EventType DEF IInv, EventsKnown
  <1>2. work'[h] = [work[h] EXCEPT !.pc = pc]
    BY DEF Goto, IInv, TypeOK
  <1>3. work'[h] \in Work /\ work'[h].pc = pc /\ work'[h].event = work[h].event
    BY <1>1, <1>2 DEF Work
  <1>. QED  BY <1>1, <1>3 DEF Goto, IInv, TypeOK, Proceeds, Updating, At, Subject
-----------------------------------------------------------------------------
(* Steps *)

\* The steps that write no plan.
LEMMA PlansKept ==
  ASSUME IInv, NEW h \in Handlers,
         \/ Die(h) \/ FindRow(h) \/ Mark(h) \/ CancelRead(h) \/ ReactivateRead(h)
         \/ \E e \in Events : Receive(h, e)
  PROVE  IInv'
  <1>1. plans' = plans /\ reports' = reports /\ now' = now
    BY DEF Die, FindRow, Mark, CancelRead, ReactivateRead, Receive
  <1>2. Grows /\ FreeGrants' /\ plans' # <<>> /\ PeriodsReported'
    BY <1>1, SamePlans
  <1>3. CASE Die(h)
    BY <1>1, <1>2, <1>3, WebhookOrOwnerEnds, HandlerStep DEF Die, IInv, TypeOK, EventsKnown
  <1>4. CASE CancelRead(h) \/ ReactivateRead(h)
    <2>1. ledger' = ledger /\ Proceeds(h) /\ \A s \in Subscriptions : ~Ending(h, s)'
      BY <1>4, BeginsOwner DEF CancelRead, ReactivateRead
    <2>. QED  BY <1>1, <1>2, <2>1, HandlerStep DEF IInv, TypeOK, EventsKnown
  <1>5. ASSUME NEW e \in Events, Receive(h, e)  PROVE IInv'
    <2>1. e \in Emitted /\ ledger' = [ledger EXCEPT ![e] = "RECEIVED"]
      BY <1>5 DEF Receive
    <2>2. Proceeds(h) /\ \A s \in Subscriptions : ~Ending(h, s)'
      BY <1>5, <2>1, BeginsWebhook DEF Receive
    <2>3. /\ ledger' \in [Events -> {"NONE", "RECEIVED", "PROCESSED"}]
          /\ \A o \in Events : ledger'[o] # "NONE" => o \in Emitted
          /\ \A o \in Emitted : ledger'[o] = "PROCESSED" => ledger[o] = "PROCESSED"
      BY <2>1 DEF IInv, TypeOK, EventsKnown, Emitted
    <2>. QED  BY <1>1, <1>2, <2>2, <2>3, HandlerStep
  <1>6. CASE FindRow(h)
    <2>1. work[h].pc \in WebhookSteps /\ ledger' = ledger
      BY <1>6 DEF FindRow, At
    <2>2. PICK pc \in WebhookSteps : /\ Goto(h, pc)
                                     /\ pc = "mark" => ReportOf(h).kind # "DELETED"
                                     /\ pc = "update" => RowsOf(Subject(h)) # {}
      <3>1. CASE RowsOf(Subject(h)) # {}
        BY <3>1, <1>6 DEF FindRow
      <3>2. CASE RowsOf(Subject(h)) = {} /\ ReportOf(h).kind = "UNPAID"
        BY <3>2, <1>6 DEF FindRow
      <3>3. CASE RowsOf(Subject(h)) = {} /\ ReportOf(h).kind # "UNPAID"
        BY <3>3, <1>6 DEF FindRow
      <3>. QED  BY <3>1, <3>2, <3>3
    <2>3. Proceeds(h) /\ work'[h].event = work[h].event /\ work'[h].pc = pc
      BY <2>1, <2>2, GoesOn
    <2>4. \A s \in Subscriptions : ~Ending(h, s)'
      BY <1>1, <2>2, <2>3 DEF Ending, At, ReportOf, Subject
    <2>. QED  BY <1>1, <1>2, <2>1, <2>3, <2>4, HandlerStep DEF IInv, TypeOK, EventsKnown
  <1>7. CASE Mark(h)
    <2>1. /\ work[h].pc = "mark" /\ Finish(h)
          /\ ledger' = [ledger EXCEPT ![work[h].event] = "PROCESSED"]
      BY <1>7 DEF Mark, At
    <2>2. /\ work[h].event \in Events /\ work[h].event \in Emitted
          /\ Subject(h) \in Subscriptions
      BY <2>1, EventType DEF IInv, EventsKnown
    <2>3. /\ ledger' \in [Events -> {"NONE", "RECEIVED", "PROCESSED"}]
          /\ \A o \in Events : ledger'[o] # "NONE" => o \in Emitted
      BY <2>1, <2>2 DEF IInv, TypeOK, EventsKnown
    <2>4. ASSUME NEW o \in Emitted, ledger'[o] = "PROCESSED", reports[o[1]][o[2]].kind = "DELETED"
          PROVE  ledger[o] = "PROCESSED" \/ Superseded(o[1])
      <3>1. CASE o = work[h].event
        BY <3>1, <2>1, <2>2, <2>4 DEF Ending, IInv, EndsSuperseded, At, Subject, ReportOf
      <3>2. CASE o # work[h].event
        BY <3>2, <2>1, <2>4 DEF IInv, TypeOK, Emitted
      <3>. QED  BY <3>1, <3>2
    <2>. QED  BY <1>1, <1>2, <2>1, <2>3, <2>4, WebhookOrOwnerEnds, HandlerStep
  <1>. QED  BY <1>3, <1>4, <1>5, <1>6, <1>7

\* A row, or two of which the second is the free plan, are written behind the others.
LEMMA CreateStep ==
  ASSUME IInv, NEW h \in Handlers, SyncCreate(h)
  PROVE  IInv'
  <1>1. /\ work[h].pc = "create" /\ Goto(h, "mark")
        /\ reports' = reports /\ ledger' = ledger /\ now' = now
    BY DEF SyncCreate, At
  <1>2. /\ Subject(h) \in Subscriptions
        /\ Status(ReportOf(h).kind) \in Statuses /\ ReportOf(h).until \in Nat
        /\ \E n \in DOMAIN reports[Subject(h)] : ReportOf(h).until = reports[Subject(h)][n].until
    BY <1>1, EventType DEF IInv, Reported
  <1>3. PICK s \in Subscriptions : s = Subject(h)
    BY <1>2
  <1>4. PICK row \in Plan : row = Created(s, ReportOf(h))
    BY <1>2, <1>3 DEF Created, Plan
  <1>5. PICK one \in Seq(Plan) : one = Append(plans, row)
    BY <1>4, PlansAppended DEF IInv, TypeOK
  <1>6. PICK n \in Nat : n = Len(plans) /\ DOMAIN plans = 1 .. n
    BY DEF IInv, TypeOK
  <1>7. /\ DOMAIN one = 1 .. n + 1 /\ Len(one) = n + 1
        /\ \A i \in 1 .. n : one[i] = plans[i]
        /\ one[n + 1] = row
    BY <1>4, <1>5, <1>6, PlansAppended DEF IInv, TypeOK
  <1>8. FreePlan \in Plan /\ FreePlan.of = Free /\ FreePlan.status = "ACTIVE"
    BY DEF FreePlan, Plan, Statuses, IInv, TypeOK
  <1>9. plans' = IF ReportOf(h).kind = "DELETED" THEN Append(one, FreePlan) ELSE one
    BY <1>3, <1>4, <1>5 DEF SyncCreate, Followed
  <1>10. RowsOf(s) = {} /\ row.of = s /\ s # Free /\ row.until = ReportOf(h).until
    BY <1>3, <1>4 DEF SyncCreate, Created
  <1>11. /\ plans' \in Seq(Plan) /\ plans' # <<>>
         /\ 1 .. n + 1 \subseteq DOMAIN plans' /\ DOMAIN plans' \subseteq 1 .. n + 2
         /\ \A i \in 1 .. n : plans'[i] = plans[i]
         /\ plans'[n + 1] = row
         /\ n + 2 \in DOMAIN plans' => plans'[n + 2] = FreePlan
         /\ ReportOf(h).kind = "DELETED" => n + 2 \in DOMAIN plans'
    <2>1. CASE ReportOf(h).kind = "DELETED"
      <3>1. /\ plans' \in Seq(Plan) /\ DOMAIN plans' = 1 .. n + 2
            /\ \A i \in 1 .. n + 1 : plans'[i] = one[i]
            /\ plans'[n + 2] = FreePlan
        BY <2>1, <1>7, <1>8, <1>9, PlansAppended
      <3>. QED  BY <3>1, <1>7
    <2>2. CASE ReportOf(h).kind # "DELETED"
      BY <2>2, <1>7, <1>9
    <2>. QED  BY <2>1, <2>2
  <1>12. Grows
    <2>1. ASSUME NEW o \in Subscriptions, RowsOf(o) # {}  PROVE RowsOf(o)' = RowsOf(o)
      <3>1. o # s /\ o # Free
        BY <2>1, <1>10
      <3>2. \A i \in DOMAIN plans' : plans'[i].of = o => i \in 1 .. n
        BY <3>1, <1>8, <1>10, <1>11
      <3>3. 1 .. n \subseteq DOMAIN plans'
        BY <1>11
      <3>. QED  BY <3>2, <3>3, <1>6, <1>11 DEF RowsOf
    <2>. QED  BY <2>1, <1>6, <1>11 DEF Grows
  <1>13. FreeGrants'
    BY <1>6, <1>8, <1>10, <1>11 DEF FreeGrants, RowsOf, IInv
  <1>14. Proceeds(h) /\ work'[h].event = work[h].event /\ Subject(h)' = s
    BY <1>1, <1>3, GoesOn
  <1>15. ASSUME ReportOf(h).kind = "DELETED"  PROVE Superseded(s)'
    <2>1. RowsOf(s)' = {n + 1} /\ n + 2 \in RowsOf(Free)'
      BY <1>6, <1>8, <1>10, <1>11, <1>15 DEF RowsOf
    <2>. QED  BY <2>1 DEF Superseded
  <1>16. \A o \in Subscriptions : Ending(h, o)' => Superseded(o)'
    BY <1>1, <1>14, <1>15 DEF Ending, ReportOf, Subject
  <1>17. PeriodsReported'
    <2>. SUFFICES ASSUME NEW o \in Subscriptions, NEW i \in RowsOf(o)'
                  PROVE  \E m \in DOMAIN reports[o] : plans'[i].until = reports[o][m].until
      BY <1>1 DEF PeriodsReported
    <2>1. CASE i \in 1 .. n
      <3>1. i \in RowsOf(o) /\ plans'[i] = plans[i]
        BY <2>1, <1>6, <1>11 DEF RowsOf
      <3>. QED  BY <3>1 DEF IInv, PeriodsReported
    <2>2. CASE i = n + 1
      <3>1. o = s /\ plans'[i].until = ReportOf(h).until
        BY <2>2, <1>10, <1>11 DEF RowsOf
      <3>. QED  BY <3>1, <1>2, <1>3
    <2>3. CASE i = n + 2
      BY <2>3, <1>8, <1>11 DEF RowsOf
    <2>. QED  BY <2>1, <2>2, <2>3, <1>11 DEF RowsOf
  <1>. QED  BY <1>1, <1>11, <1>12, <1>13, <1>14, <1>16, <1>17, HandlerStep DEF IInv, TypeOK, EventsKnown

\* A report changes the status of a row, and its period to the reported one or not at all.
LEMMA SyncedRow ==
  ASSUME NEW row \in Plan, NEW r \in Reported, Status(r.kind) \in Statuses
  PROVE  /\ Synced(row, r) \in Plan /\ Synced(row, r).of = row.of
         /\ Synced(row, r).until \in {row.until, r.until}
  <1>1. /\ [r EXCEPT !.until = row.until].kind = r.kind
        /\ [r EXCEPT !.until = row.until].until = row.until
    BY DEF Reported
  <1>2. CASE r.kind = "UNPAID"
    BY <1>1, <1>2 DEF Synced, Created, Plan, Reported
  <1>3. CASE r.kind # "UNPAID"
    BY <1>3 DEF Synced, Created, Plan, Reported
  <1>. QED  BY <1>2, <1>3

\* The status of rows is written, not of the free plan's.
LEMMA UpdateStep ==
  ASSUME IInv, NEW h \in Handlers, SyncUpdate(h)
  PROVE  IInv'
  <1>1. /\ work[h].pc = "update" /\ Goto(h, "mark")
        /\ reports' = reports /\ ledger' = ledger /\ now' = now
    BY DEF SyncUpdate, At
  <1>2. /\ Subject(h) \in Subscriptions /\ ReportOf(h) \in Reported
        /\ Status(ReportOf(h).kind) \in Statuses
        /\ \E n \in DOMAIN reports[Subject(h)] : ReportOf(h).until = reports[Subject(h)][n].until
    BY <1>1, EventType DEF IInv
  <1>3. PICK s \in Subscriptions : s = Subject(h)
    BY <1>2
  <1>4. PICK r \in Reported : r = ReportOf(h)
    BY <1>2
  <1>5. PICK n \in Nat : n = Len(plans) /\ DOMAIN plans = 1 .. n
    BY DEF IInv, TypeOK
  <1>6. PICK one : one = [i \in DOMAIN plans |-> IF i \in RowsOf(s)
                                                THEN Synced(plans[i], r) ELSE plans[i]]
    OBVIOUS
  <1>7. ASSUME NEW i \in 1 .. n
        PROVE  /\ one[i] \in Plan /\ one[i].of = plans[i].of
               /\ i \notin RowsOf(s) => one[i] = plans[i]
               /\ one[i].until \in {plans[i].until, r.until}
    <2>1. plans[i] \in Plan
      BY <1>5 DEF IInv, TypeOK
    <2>2. /\ Synced(plans[i], r) \in Plan /\ Synced(plans[i], r).of = plans[i].of
          /\ Synced(plans[i], r).until \in {plans[i].until, r.until}
      BY <2>1, <1>2, <1>4, SyncedRow
    <2>. QED  BY <1>5, <1>6, <2>1, <2>2
  <1>8. one \in Seq(Plan) /\ DOMAIN one = 1 .. n /\ Len(one) = n
    BY <1>5, <1>6, <1>7
  <1>9. FreePlan \in Plan /\ FreePlan.of = Free /\ FreePlan.status = "ACTIVE"
    BY DEF FreePlan, Plan, Statuses, IInv, TypeOK
  <1>10. plans' = IF ReportOf(h).kind = "DELETED" THEN Append(one, FreePlan) ELSE one
    BY <1>3, <1>4, <1>6 DEF SyncUpdate, Followed
  <1>11. /\ plans' \in Seq(Plan) /\ 1 .. n \subseteq DOMAIN plans' /\ DOMAIN plans' \subseteq 1 .. n + 1
         /\ \A i \in 1 .. n : plans'[i] = one[i]
         /\ n + 1 \in DOMAIN plans' => plans'[n + 1] = FreePlan
         /\ ReportOf(h).kind = "DELETED" => n + 1 \in DOMAIN plans'
    <2>1. CASE ReportOf(h).kind = "DELETED"
      BY <2>1, <1>8, <1>9, <1>10, PlansAppended
    <2>2. CASE ReportOf(h).kind # "DELETED"
      BY <2>2, <1>8, <1>10
    <2>. QED  BY <2>1, <2>2
  <1>12. s # Free /\ RowsOf(s) # {} /\ plans' # <<>>
    BY <1>1, <1>3, <1>5, <1>11 DEF IInv, RowsKnown, Updating, At, RowsOf
  <1>13. Grows
    BY <1>5, <1>7, <1>9, <1>11 DEF Grows, RowsOf
  <1>14. FreeGrants'
    BY <1>5, <1>7, <1>9, <1>11, <1>12 DEF FreeGrants, RowsOf, IInv
  <1>15. Proceeds(h) /\ work'[h].event = work[h].event /\ Subject(h)' = s
    BY <1>1, <1>3, GoesOn
  <1>16. ASSUME ReportOf(h).kind = "DELETED"  PROVE Superseded(s)'
    <2>1. RowsOf(s)' = RowsOf(s) /\ RowsOf(s) \subseteq 1 .. n /\ n + 1 \in RowsOf(Free)'
      BY <1>5, <1>9, <1>11, <1>12, <1>13, <1>16 DEF RowsOf, Grows
    <2>. QED  BY <2>1, <1>12 DEF Superseded
  <1>17. \A o \in Subscriptions : Ending(h, o)' => Superseded(o)'
    BY <1>1, <1>15, <1>16 DEF Ending, ReportOf, Subject
  <1>18. PeriodsReported'
    <2>. SUFFICES ASSUME NEW o \in Subscriptions, NEW i \in RowsOf(o)'
                  PROVE  \E m \in DOMAIN reports[o] : plans'[i].until = reports[o][m].until
      BY <1>1 DEF PeriodsReported
    <2>1. i \in 1 .. n
      BY <1>9, <1>11 DEF RowsOf
    <2>2. i \in RowsOf(o) /\ plans'[i] = one[i] /\ one[i].until \in {plans[i].until, r.until}
      BY <2>1, <1>5, <1>7, <1>11 DEF RowsOf
    <2>3. CASE i \in RowsOf(s)
      <3>1. o = s
        BY <2>2, <2>3 DEF RowsOf
      <3>. QED  BY <3>1, <2>2, <1>2, <1>3, <1>4 DEF IInv, PeriodsReported
    <2>4. CASE i \notin RowsOf(s)
      <3>1. plans'[i] = plans[i]
        BY <2>1, <2>2, <2>4, <1>7
      <3>. QED  BY <3>1, <2>2 DEF IInv, PeriodsReported
    <2>. QED  BY <2>3, <2>4
  <1>. QED  BY <1>1, <1>11, <1>12, <1>13, <1>14, <1>15, <1>17, <1>18, HandlerStep DEF IInv, TypeOK, EventsKnown

\* Cancelling and reactivating write the row that was read, and leave one that grants.
LEMMA OwnerStep ==
  ASSUME IInv, NEW h \in Handlers, Cancel(h) \/ Reactivate(h)
  PROVE  IInv'
  <1>1. /\ work[h].pc \in OwnerSteps /\ Finish(h)
        /\ reports' = reports /\ ledger' = ledger /\ now' = now
    BY DEF Cancel, Reactivate, At
  <1>2. PICK k \in DOMAIN plans : k = work[h].row
    BY <1>1 DEF IInv, RowsKnown
  <1>3. PICK st \in {"ACTIVE", "CANCELED"} : plans' = [plans EXCEPT ![k].status = st]
    BY <1>2 DEF Cancel, Reactivate
  <1>4. plans[k] \in Plan /\ DOMAIN plans = 1 .. Len(plans) /\ Len(plans) \in Nat
    BY DEF IInv, TypeOK
  <1>5. PICK row : row = [plans[k] EXCEPT !.status = st]
    OBVIOUS
  <1>6. row \in Plan /\ row.of = plans[k].of /\ row.status = st /\ row.until = plans[k].until
    BY <1>4, <1>5 DEF Plan, Statuses
  <1>7. plans' = [plans EXCEPT ![k] = row]
    BY <1>3, <1>5
  <1>8. /\ plans' \in Seq(Plan) /\ DOMAIN plans' = DOMAIN plans
        /\ plans'[k] = row /\ \A i \in DOMAIN plans : i # k => plans'[i] = plans[i]
    BY <1>4, <1>6, <1>7 DEF IInv, TypeOK
  <1>9. Grows /\ plans' # <<>>
    BY <1>6, <1>8 DEF Grows, RowsOf
  <1>10. FreeGrants'
    BY <1>6, <1>8 DEF FreeGrants, RowsOf, IInv
  <1>11. \A i \in DOMAIN plans : plans'[i].until = plans[i].until /\ plans'[i].of = plans[i].of
    BY <1>6, <1>8
  <1>12. PeriodsReported'
    BY <1>1, <1>8, <1>11 DEF IInv, PeriodsReported, RowsOf
  <1>. QED  BY <1>1, <1>9, <1>10, <1>12, WebhookOrOwnerEnds, HandlerStep DEF IInv, TypeOK, EventsKnown

\* What is reported anew has not been processed.
LEMMA ReportStep ==
  ASSUME IInv, NEW s \in Subscriptions, Report(s)
  PROVE  IInv'
  <1>1. PICK kind \in Tellable(s) :
          reports' = [reports EXCEPT ![s] = Append(@, [kind |-> kind, until |-> PeriodEnd(s, kind)])]
    BY DEF Report
  <1>2. UNCHANGED <<ledger, plans, now, work>> /\ now \in Nat
    BY DEF Report, IInv, TypeOK
  <1>3. PICK n \in Nat : n = Len(reports[s]) /\ reports[s] \in Seq(Reported) /\ DOMAIN reports[s] = 1 .. n
    BY DEF IInv, TypeOK
  <1>4. /\ PeriodEnd(s, kind) \in Nat /\ PeriodEnd(s, kind) <= now + 1
        /\ \A m \in 1 .. n : reports[s][m].until <= PeriodEnd(s, kind)
    <2>1. CASE kind \in Ends /\ n # 0
      <3>1. PeriodEnd(s, kind) = reports[s][n].until /\ n \in DOMAIN reports[s]
        BY <2>1, <1>3 DEF PeriodEnd
      <3>2. reports[s][n].until \in Nat
        BY <3>1, ReportType DEF IInv
      <3>. QED  BY <3>1, <3>2, <1>3 DEF IInv, PeriodsOrdered
    <2>2. CASE ~(kind \in Ends /\ n # 0)
      <3>1. PeriodEnd(s, kind) = now + 1
        BY <2>2, <1>3 DEF PeriodEnd
      <3>. QED  BY <3>1, <1>2, <1>3 DEF IInv, PeriodsOrdered
    <2>. QED  BY <2>1, <2>2
  <1>5. kind \in Kinds
    BY <1>1 DEF Tellable, Ends, Kinds, Statuses
  <1>6. PICK r \in Reported : r = [kind |-> kind, until |-> PeriodEnd(s, kind)]
    BY <1>4, <1>5 DEF Reported
  <1>7. /\ reports' \in [Subscriptions -> Seq(Reported)]
        /\ DOMAIN reports'[s] = 1 .. n + 1 /\ Len(reports'[s]) = n + 1
        /\ reports'[s][n + 1] = r
        /\ \A m \in 1 .. n : reports'[s][m] = reports[s][m]
        /\ \A o \in Subscriptions : o # s => reports'[o] = reports[o]
    <2>1. reports' = [reports EXCEPT ![s] = Append(reports[s], r)]
      BY <1>1, <1>6
    <2>2. reports'[s] = Append(reports[s], r)
      BY <2>1 DEF IInv, TypeOK
    <2>. QED  BY <2>1, <2>2, <1>3 DEF IInv, TypeOK
  <1>8. ASSUME NEW e \in Emitted
        PROVE  e \in Emitted' /\ reports'[e[1]][e[2]] = reports[e[1]][e[2]]
    <2>1. e \in Events /\ e[1] \in Subscriptions /\ e[2] \in 1 .. Len(reports[e[1]])
      BY DEF Emitted, Events
    <2>. QED  BY <2>1, <1>3, <1>7 DEF Emitted
  <1>9. TypeOK' /\ Grows /\ RowsKnown' /\ FreeGrants'
    BY <1>2, <1>7 DEF IInv, TypeOK, Grows, RowsKnown, FreeGrants, RowsOf, Updating, At, Subject
  <1>10. EventsKnown'
    BY <1>2, <1>8 DEF IInv, EventsKnown
  <1>11. ASSUME NEW o \in Subscriptions, EndProcessed(o)'  PROVE EndProcessed(o)
    <2>1. PICK e \in Emitted' : /\ e[1] = o /\ ledger[e] = "PROCESSED"
                                /\ reports'[o][e[2]].kind = "DELETED"
      BY <1>2, <1>11 DEF EndProcessed
    <2>2. e \in Emitted
      BY <2>1 DEF IInv, EventsKnown, Emitted
    <2>. QED  BY <2>1, <2>2, <1>8 DEF EndProcessed
  <1>12. ASSUME NEW h \in Handlers, NEW o \in Subscriptions, Ending(h, o)'  PROVE Ending(h, o)
    <2>1. At(h, "mark") /\ Subject(h) = o /\ work[h].event \in Emitted
      BY <1>2, <1>12 DEF Ending, At, Subject, IInv, EventsKnown
    <2>. QED  BY <2>1, <1>2, <1>8, <1>12 DEF Ending, ReportOf, Subject
  <1>13. EndsSuperseded'
    BY <1>9, <1>11, <1>12, SupersededStays DEF IInv, EndsSuperseded
  <1>14. PeriodsReported'
    <2>. SUFFICES ASSUME NEW o \in Subscriptions, NEW i \in RowsOf(o)
                  PROVE  \E m \in DOMAIN reports'[o] : plans[i].until = reports'[o][m].until
      BY <1>2 DEF PeriodsReported, RowsOf
    <2>1. PICK m \in DOMAIN reports[o] : plans[i].until = reports[o][m].until
      BY DEF IInv, PeriodsReported
    <2>. QED  BY <2>1, <1>3, <1>7
  <1>15. PeriodsOrdered'
    <2>1. ASSUME NEW o \in Subscriptions, o # s, NEW m \in DOMAIN reports'[o]
          PROVE  /\ reports'[o][m].until <= now' + 1
                 /\ \A k \in DOMAIN reports'[o] :
                      /\ k <= m => reports'[o][k].until <= reports'[o][m].until
                      /\ reports'[o][m].kind \in Ends => reports'[o][k].until <= reports'[o][m].until
      BY <2>1, <1>2, <1>7 DEF IInv, PeriodsOrdered
    <2>2. ASSUME NEW m \in 1 .. n + 1
          PROVE  /\ reports'[s][m].until <= now' + 1
                 /\ \A k \in 1 .. n + 1 :
                      /\ k <= m => reports'[s][k].until <= reports'[s][m].until
                      /\ reports'[s][m].kind \in Ends => reports'[s][k].until <= reports'[s][m].until
      <3>1. CASE m = n + 1
        BY <3>1, <1>2, <1>4, <1>6, <1>7
      <3>2. CASE m \in 1 .. n
        <4>1. /\ reports'[s][m] = reports[s][m] /\ reports[s][m].until <= now' + 1
              /\ \A k \in 1 .. n : k <= m => reports'[s][k].until <= reports'[s][m].until
          BY <3>2, <1>2, <1>3, <1>7 DEF IInv, PeriodsOrdered
        <4>2. ASSUME reports[s][m].kind \in Ends, NEW k \in 1 .. n + 1
              PROVE  reports'[s][k].until <= reports'[s][m].until
          <5>1. \A l \in 1 .. n : reports[s][l].until <= reports[s][m].until
            BY <3>2, <4>2, <1>3 DEF IInv, PeriodsOrdered
          <5>2. kind \in Ends
            BY <3>2, <4>2, <1>1, <1>3 DEF Tellable, Told, Ends
          <5>3. PeriodEnd(s, kind) = reports[s][n].until /\ n \in 1 .. n
            BY <5>2, <3>2, <1>3 DEF PeriodEnd
          <5>. QED  BY <5>1, <5>3, <3>2, <1>6, <1>7
        <4>3. ~(n + 1 <= m)
          BY <3>2
        <4>. QED  BY <4>1, <4>2, <4>3
      <3>. QED  BY <3>1, <3>2
    <2>. QED  BY <2>1, <2>2, <1>7 DEF PeriodsOrdered
  <1>. QED  BY <1>9, <1>10, <1>13, <1>14, <1>15 DEF IInv

\* Time passing makes no report later than the period that runs.
LEMMA TickStep ==
  ASSUME IInv, Tick
  PROVE  IInv'
  <1>1. UNCHANGED <<reports, ledger, plans, work>> /\ now \in Nat /\ now' = now + 1
    BY DEF Tick, IInv, TypeOK
  <1>2. Emitted' = Emitted
    BY <1>1 DEF Emitted
  <1>3. TypeOK' /\ EventsKnown' /\ FreeGrants' /\ RowsKnown'
    BY <1>1, <1>2 DEF IInv, TypeOK, EventsKnown, RowsKnown, FreeGrants, RowsOf, Updating, At, Subject
  <1>4. Grows /\ PeriodsReported'
    BY <1>1, SamePlans
  <1>5. (\A s \in Subscriptions : EndProcessed(s)' => EndProcessed(s))
    BY <1>1, <1>2 DEF EndProcessed
  <1>6. \A h \in Handlers : \A s \in Subscriptions : Ending(h, s)' => Ending(h, s)
    BY <1>1 DEF Ending, At, Subject, ReportOf
  <1>7. EndsSuperseded'
    BY <1>4, <1>5, <1>6, SupersededStays DEF IInv, EndsSuperseded
  <1>8. \A s \in Subscriptions : \A n \in DOMAIN reports[s] : reports[s][n].until \in Nat
    BY ReportType DEF IInv
  <1>9. PeriodsOrdered'
    BY <1>1, <1>8 DEF IInv, PeriodsOrdered
  <1>. QED  BY <1>3, <1>4, <1>7, <1>9 DEF IInv
-----------------------------------------------------------------------------
(* The theorems *)

\* Every step keeps the invariant: the free plan that follows an end stays in force.
LEMMA IInvStep == IInv /\ [Next]_vars => IInv'
  <1>. SUFFICES ASSUME IInv, [Next]_vars  PROVE IInv'
    OBVIOUS
  <1>1. CASE UNCHANGED vars
    <2>1. UNCHANGED <<reports, ledger, plans, now, work>> /\ Emitted' = Emitted
      BY <1>1 DEF vars, Emitted
    <2>2. TypeOK' /\ EventsKnown' /\ FreeGrants' /\ RowsKnown'
      BY <2>1 DEF IInv, TypeOK, EventsKnown, RowsKnown, FreeGrants, RowsOf, Updating, At, Subject
    <2>3. Grows /\ PeriodsReported' /\ (\A s \in Subscriptions : EndProcessed(s)' => EndProcessed(s))
      BY <2>1, SamePlans DEF EndProcessed
    <2>4. \A h \in Handlers : \A s \in Subscriptions : Ending(h, s)' => Ending(h, s)
      BY <2>1 DEF Ending, At, Subject, ReportOf
    <2>5. EndsSuperseded'
      BY <2>3, <2>4, SupersededStays DEF IInv, EndsSuperseded
    <2>6. PeriodsOrdered'
      BY <2>1 DEF IInv, PeriodsOrdered
    <2>. QED  BY <2>2, <2>3, <2>5, <2>6 DEF IInv
  <1>2. CASE Next
    BY <1>2, PlansKept, CreateStep, UpdateStep, OwnerStep, ReportStep, TickStep DEF Next
  <1>. QED  BY <1>1, <1>2

\* The rows and the handlers always have their types, for any number of them.
THEOREM TypeCorrect == Spec => []TypeOK
  <1>1. IInv => TypeOK
    BY DEF IInv
  <1>. QED  BY InitIInv, IInvStep, <1>1, PTL DEF Spec

\* In whatever order reports are processed, a subscription that was deleted, once this was
\* processed, is not the plan in force, and one that has ended in any way grants nothing
\* after the period in which it ended.
THEOREM EndedNeverGrants == Spec => []EndedGrantsNothing
  <1>1. IInv => EndedGrantsNothing
    <2>. SUFFICES ASSUME IInv, NEW s \in Subscriptions, NEW i \in RowsOf(s)
                  PROVE  (EndProcessed(s) => ~InForce(i)) /\ (PeriodOver(s) => ~Grants(i))
      BY DEF EndedGrantsNothing
    <2>1. ASSUME EndProcessed(s)  PROVE ~InForce(i)
      <3>1. PICK j \in RowsOf(Free) : i < j
        BY <2>1 DEF IInv, EndsSuperseded, Superseded
      <3>2. j \in Granting
        BY <3>1 DEF IInv, FreeGrants, Granting, RowsOf
      <3>3. i \in Nat /\ j \in Nat
        BY <3>1 DEF IInv, TypeOK, RowsOf
      <3>. QED  BY <3>1, <3>2, <3>3 DEF InForce
    <2>2. ASSUME PeriodOver(s)  PROVE ~Grants(i)
      <3>1. PICK n \in DOMAIN reports[s] : reports[s][n].kind \in Ends /\ reports[s][n].until <= now
        BY <2>2 DEF PeriodOver
      <3>2. PICK m \in DOMAIN reports[s] : plans[i].until = reports[s][m].until
        BY DEF IInv, PeriodsReported
      <3>3. reports[s][m].until <= reports[s][n].until
        BY <3>1, <3>2 DEF IInv, PeriodsOrdered
      <3>4. /\ reports[s][m].until \in Nat /\ reports[s][n].until \in Nat
            /\ now \in Nat
        BY <3>1, <3>2, ReportType DEF IInv, TypeOK
      <3>. QED  BY <3>1, <3>2, <3>3, <3>4 DEF Grants
    <2>. QED  BY <2>1, <2>2
  <1>. QED  BY InitIInv, IInvStep, <1>1, PTL DEF Spec
=============================================================================
