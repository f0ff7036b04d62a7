--------------------------- MODULE BillingCheckout ---------------------------
(***************************************************************************)
(* The checkouts of one organization: a row each, behind a lock that       *)
(* admits one at a time, and the session that Stripe opens for it.  A      *)
(* checkout is known by its idempotency key.                               *)
(*                                                                         *)
(* Requests, webhooks and the worker interleave at every await; a handler  *)
(* may end anywhere.  A request that is answered with a row there is, like *)
(* an event delivered again, changes nothing and is no step.  The          *)
(* organization's customer at Stripe is left out: it is created once,      *)
(* however often it is asked for, and every event here is about it.        *)
(***************************************************************************)
EXTENDS Naturals, RequestWork

CONSTANT Keys  \* idempotency keys of checkouts

VARIABLES checkout,  \* the BillingCheckoutSession rows
          stripe,    \* external: the checkout sessions at Stripe
          seen       \* keys whose checkout.session.completed has a row in BillingWebhookEvent

checkoutVars == <<checkout, stripe, seen, work>>

\* `url` is whether providerCheckoutId and checkoutUrl were written.
NoCheckout == [status |-> "NONE", lock |-> FALSE, url |-> FALSE]
Checkout == [status : {"NONE", "PENDING", "COMPLETED", "EXPIRED", "FAILED"},
             lock : BOOLEAN, url : BOOLEAN]

CheckoutSteps == {"provider", "record", "failed"}
CheckoutWork == [pc : CheckoutSteps \cup {"completed"}, key : Keys]

CheckoutInit ==
  /\ checkout = [k \in Keys |-> NoCheckout]
  /\ stripe = [k \in Keys |-> "NONE"]
  /\ seen = {}
  /\ work = [h \in Handlers |-> Idle]

\* The end of the process; for a webhook, an exception: the row then says FAILED,
\* which nothing reads.
CheckoutDies(h) ==
  /\ work[h] # Idle
  /\ Finish(h)
  /\ UNCHANGED <<checkout, stripe, seen>>

Unlocked(row, status) == [row EXCEPT !.status = status, !.lock = FALSE]
-----------------------------------------------------------------------------
(* checkout *)

\* Variant: activeLock is not unique.
OpenAny(h, k) ==
  /\ checkout[k] = NoCheckout
  /\ checkout' = [checkout EXCEPT ![k] = [status |-> "PENDING", lock |-> TRUE, url |-> FALSE]]
  /\ Begin(h, [pc |-> "provider", key |-> k])
  /\ UNCHANGED <<stripe, seen>>
\* The unique activeLock admits one row at a time.
Open(h, k) ==
  /\ checkout[k] = NoCheckout /\ \A other \in Keys : ~checkout[other].lock
  /\ checkout' = [checkout EXCEPT ![k] = [status |-> "PENDING", lock |-> TRUE, url |-> FALSE]]
  /\ Begin(h, [pc |-> "provider", key |-> k])
  /\ UNCHANGED <<stripe, seen>>

CreateCheckout(h) ==
  /\ At(h, "provider")
  /\ stripe' = [stripe EXCEPT ![work[h].key] = "OPEN"]
  /\ Goto(h, "record")
  /\ UNCHANGED <<checkout, seen>>

RecordCheckout(h) ==
  /\ At(h, "record")
  /\ checkout' = [checkout EXCEPT ![work[h].key].url = TRUE]
  /\ Finish(h)
  /\ UNCHANGED <<stripe, seen>>

\* An exception in the `try`, also one that hides an effect at Stripe.
CheckoutThrows(h) ==
  /\ work[h].pc \in {"provider", "record"}
  /\ Goto(h, "failed")
  /\ UNCHANGED <<checkout, stripe, seen>>

\* Variant: the lock is forgotten.
CheckoutFailedLocked(h) ==
  /\ At(h, "failed")
  /\ checkout' = [checkout EXCEPT ![work[h].key].status = "FAILED"]
  /\ Finish(h)
  /\ UNCHANGED <<stripe, seen>>
\* By id, whatever has become of the row.
CheckoutFailed(h) ==
  /\ At(h, "failed")
  /\ checkout' = [checkout EXCEPT ![work[h].key] = Unlocked(@, "FAILED")]
  /\ Finish(h)
  /\ UNCHANGED <<stripe, seen>>

\* expiresAt is the session's own once the row has its URL, and half an hour from
\* the request before that, which no request takes.
PastExpiry(k) ==
  IF checkout[k].url THEN stripe[k] # "OPEN"
  ELSE \A h \in Handlers : work[h].pc \in CheckoutSteps => work[h].key # k

ReconcileExpired(k) ==
  /\ checkout[k].status = "PENDING" /\ PastExpiry(k)
  /\ checkout' = [checkout EXCEPT ![k] = Unlocked(@, "EXPIRED")]
  /\ UNCHANGED <<stripe, seen, work>>
-----------------------------------------------------------------------------
(* Stripe, and its event *)

\* The customer, who has the URL from the row, pays.
Pay(k) ==
  /\ stripe[k] = "OPEN" /\ checkout[k].url
  /\ stripe' = [stripe EXCEPT ![k] = "PAID"]
  /\ UNCHANGED <<checkout, seen, work>>

SessionExpires(k) ==
  /\ stripe[k] = "OPEN"
  /\ stripe' = [stripe EXCEPT ![k] = "EXPIRED"]
  /\ UNCHANGED <<checkout, seen, work>>

Webhook(h, k) ==
  /\ stripe[k] = "PAID" /\ k \notin seen
  /\ seen' = seen \cup {k}
  /\ Begin(h, [pc |-> "completed", key |-> k])
  /\ UNCHANGED <<checkout, stripe>>

\* By providerCheckoutId, whatever the status.
CheckoutCompleted(h) ==
  /\ At(h, "completed")
  /\ checkout' = [k \in Keys |-> IF k = work[h].key /\ checkout[k].url
                                 THEN Unlocked(checkout[k], "COMPLETED") ELSE checkout[k]]
  /\ Finish(h)
  /\ UNCHANGED <<stripe, seen>>
-----------------------------------------------------------------------------
CheckoutStep(h) ==
  CreateCheckout(h) \/ RecordCheckout(h) \/ CheckoutThrows(h) \/ CheckoutFailed(h)

CheckoutNext ==
  \/ \E h \in Handlers :
       \/ CheckoutDies(h) \/ CheckoutStep(h) \/ CheckoutCompleted(h)
       \/ \E k \in Keys : Open(h, k) \/ Webhook(h, k)
  \/ \E k \in Keys : ReconcileExpired(k) \/ Pay(k) \/ SessionExpires(k)

CheckoutSpec == CheckoutInit /\ [][CheckoutNext]_checkoutVars

\* The worker runs for ever, Stripe's sessions have an end, and so has a request:
\* what it awaits has a timeout.
CheckoutFairness ==
  /\ \A k \in Keys : WF_checkoutVars(ReconcileExpired(k)) /\ WF_checkoutVars(SessionExpires(k))
  /\ \A h \in Handlers : WF_checkoutVars(CheckoutStep(h))

FairCheckoutSpec == CheckoutSpec /\ CheckoutFairness
-----------------------------------------------------------------------------
(* Properties *)

\* Rows and handlers are what the schema and the code can hold.
CheckoutTypes ==
  /\ checkout \in [Keys -> Checkout]
  /\ stripe \in [Keys -> {"NONE", "OPEN", "PAID", "EXPIRED"}]
  /\ seen \subseteq Keys
  /\ work \in [Handlers -> CheckoutWork \cup {Idle}]

\* Whatever fails, expires or is paid meanwhile, an organization never holds the
\* URLs of two sessions that Stripe would still take money for.
Payable(k) == checkout[k].url /\ stripe[k] = "OPEN"
OnePayable == \A j, k \in Keys : Payable(j) /\ Payable(k) => j = k

\* A checkout that was completed is neither failed by the request that opened it,
\* nor expired by the worker.
CompletedIsFinal ==
  [][\A k \in Keys : checkout[k].status = "COMPLETED" => checkout'[k].status = "COMPLETED"]_checkoutVars

\* Whatever happens to a checkout, the organization can open another in the end.
LockIsReleased == \A k \in Keys : checkout[k].lock ~> ~checkout[k].lock
=============================================================================
