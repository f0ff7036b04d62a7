--------------------------- MODULE SubscriptionSync --------------------------
(***************************************************************************)
(* The plan of one organization: the rows of Subscription, which follow    *)
(* what Stripe reports about the organization's paid subscriptions, and    *)
(* what its owner does to them here.                                       *)
(*                                                                         *)
(* The end of a subscription comes as `deleted`, which the free plan       *)
(* follows, or as an update to `canceled` or `incomplete_expired`, which   *)
(* only writes the status: the row then grants until its period is over.   *)
(*                                                                         *)
(* Stripe delivers a report as often as it likes, late and in any order.   *)
(* Webhooks and requests interleave at every await, and a handler may end  *)
(* anywhere.  Trials are left out (nothing here starts one), and so are    *)
(* invoices, payments and the history, which are written and not read.     *)
(***************************************************************************)
EXTENDS Naturals, Sequences, FiniteSets, RequestWork

CONSTANTS Subscriptions,  \* at Stripe
          MaxReports,     \* bound: how many reports there are
          MaxPeriods      \* bound: how many billing periods pass

ASSUME MaxReportsAssumption == MaxReports \in Nat
ASSUME MaxPeriodsAssumption == MaxPeriods \in Nat

VARIABLES reports,  \* external: what Stripe has reported of each subscription, in order
          ledger,   \* the BillingWebhookEvent rows
          plans,    \* the Subscription rows, by createdAt
          now       \* the time, in billing periods

vars == <<reports, ledger, plans, now, work>>

\* The status and the end of the period at Stripe, or an event that has no status: the
\* subscription was deleted, or an invoice was not paid.
Statuses == {"ACTIVE", "PAST_DUE", "SUSPENDED", "CANCELED"}
Kinds == Statuses \cup {"DELETED", "UNPAID"}
Ends == {"CANCELED", "DELETED"}
Reported == [kind : Kinds, until : Nat]
Events == Subscriptions \X (1 .. MaxReports)
Emitted == {e \in Events : e[2] <= Len(reports[e[1]])}

Free == "FREE"
ASSUME FreeAssumption == Free \notin Subscriptions
Plan == [of : Subscriptions \cup {Free}, status : Statuses, until : Nat]
FreePlan == [of |-> Free, status |-> "ACTIVE", until |-> now + 1]

Work == [pc : {"received", "create", "update", "mark"}, event : Events]
          \cup [pc : {"cancel", "reactivate"}, row : Nat \ {0}]

Init ==
  /\ reports = [s \in Subscriptions |-> <<>>]
  /\ ledger = [e \in Events |-> "NONE"]
  /\ now = 0
  /\ plans = <<FreePlan>>  \* register
  /\ work = [h \in Handlers |-> Idle]
-----------------------------------------------------------------------------
\* The end of the process, or an exception: a FAILED event is not told apart from
\* one that is being processed.
Die(h) ==
  /\ work[h] # Idle
  /\ Finish(h)
  /\ UNCHANGED <<reports, ledger, plans, now>>

\* Bound: MaxPeriods.
Tick ==
  /\ now < MaxPeriods
  /\ now' = now + 1
  /\ UNCHANGED <<reports, ledger, plans, work>>

\* What is canceled may still be deleted, what is deleted is not reported again.  An
\* end, at once or at the end of its period, does not move the period; a subscription
\* that goes on is in the period that runs.  Bound: MaxReports.
Told(s) == {reports[s][n].kind : n \in DOMAIN reports[s]}
Tellable(s) == IF "DELETED" \in Told(s) THEN {} ELSE IF "CANCELED" \in Told(s) THEN Ends ELSE Kinds
PeriodEnd(s, kind) == IF kind \in Ends /\ reports[s] # <<>>
                      THEN reports[s][Len(reports[s])].until ELSE now + 1
Report(s) ==
  /\ Cardinality(Emitted) < MaxReports
  /\ \E kind \in Tellable(s) :
       reports' = [reports EXCEPT ![s] = Append(@, [kind |-> kind, until |-> PeriodEnd(s, kind)])]
  /\ UNCHANGED <<ledger, plans, now, work>>
-----------------------------------------------------------------------------
(* webhook *)

\* createMany with skipDuplicates: an event that has a row, whatever its status, is
\* a duplicate.
Receive(h, e) ==
  /\ e \in Emitted /\ ledger[e] = "NONE"
  /\ ledger' = [ledger EXCEPT ![e] = "RECEIVED"]
  /\ Begin(h, [pc |-> "received", event |-> e])
  /\ UNCHANGED <<reports, plans, now>>

RowsOf(s) == {i \in DOMAIN plans : plans[i].of = s}
Subject(h) == work[h].event[1]
ReportOf(h) == reports[Subject(h)][work[h].event[2]]

\* The look for the row, in syncSubscription and in syncInvoice, which has nothing
\* to do without one.
FindRow(h) ==
  /\ At(h, "received")
  /\ Goto(h, IF RowsOf(Subject(h)) # {} THEN "update"
             ELSE IF ReportOf(h).kind = "UNPAID" THEN "mark" ELSE "create")
  /\ UNCHANGED <<reports, ledger, plans, now>>

\* `canceled` and `incomplete_expired` are CANCELED too, without having been deleted.
Status(kind) == IF kind \in Ends THEN "CANCELED" ELSE IF kind = "UNPAID" THEN "PAST_DUE" ELSE kind

\* The row of a report: an invoice writes nothing but the status.
Created(s, r) == [of |-> s, status |-> Status(r.kind), until |-> r.until]
Synced(row, r) == Created(row.of, IF r.kind = "UNPAID" THEN [r EXCEPT !.until = row.until] ELSE r)

\* What was deleted is followed by the free plan.
Followed(rows, r) == IF r.kind = "DELETED" THEN Append(rows, FreePlan) ELSE rows

\* Variant: the row is written after the plan that follows it.
CreateLast(h) ==
  /\ At(h, "create") /\ RowsOf(Subject(h)) = {}
  /\ plans' = Append(Followed(plans, ReportOf(h)), Created(Subject(h), ReportOf(h)))
  /\ Goto(h, "mark")
  /\ UNCHANGED <<reports, ledger, now>>
\* The unique providerSubscriptionId refuses a second row.
SyncCreate(h) ==
  /\ At(h, "create") /\ RowsOf(Subject(h)) = {}
  /\ plans' = Followed(Append(plans, Created(Subject(h), ReportOf(h))), ReportOf(h))
  /\ Goto(h, "mark")
  /\ UNCHANGED <<reports, ledger, now>>

SyncUpdate(h) ==
  /\ At(h, "update")
  /\ plans' = Followed([i \in DOMAIN plans |-> IF i \in RowsOf(Subject(h))
                                              THEN Synced(plans[i], ReportOf(h)) ELSE plans[i]],
                       ReportOf(h))
  /\ Goto(h, "mark")
  /\ UNCHANGED <<reports, ledger, now>>

Mark(h) ==
  /\ At(h, "mark")
  /\ ledger' = [ledger EXCEPT ![work[h].event] = "PROCESSED"]
  /\ Finish(h)
  /\ UNCHANGED <<reports, plans, now>>
-----------------------------------------------------------------------------
(* SubscriptionService: the newest row, whatever it is of *)

CancelRead(h) ==
  /\ plans[Len(plans)].status = "ACTIVE"
  /\ Begin(h, [pc |-> "cancel", row |-> Len(plans)])
  /\ UNCHANGED <<reports, ledger, plans, now>>

\* Its period is not over.
ReactivateRead(h) ==
  /\ plans[Len(plans)].status = "CANCELED" /\ plans[Len(plans)].until > now
  /\ Begin(h, [pc |-> "reactivate", row |-> Len(plans)])
  /\ UNCHANGED <<reports, ledger, plans, now>>

Cancel(h) ==
  /\ At(h, "cancel")
  /\ plans' = [plans EXCEPT ![work[h].row].status = "CANCELED"]
  /\ Finish(h)
  /\ UNCHANGED <<reports, ledger, now>>

Reactivate(h) ==
  /\ At(h, "reactivate")
  /\ plans' = [plans EXCEPT ![work[h].row].status = "ACTIVE"]
  /\ Finish(h)
  /\ UNCHANGED <<reports, ledger, now>>
-----------------------------------------------------------------------------
Next ==
  \/ \E h \in Handlers :
       \/ Die(h) \/ FindRow(h) \/ SyncCreate(h) \/ SyncUpdate(h) \/ Mark(h)
       \/ CancelRead(h) \/ ReactivateRead(h) \/ Cancel(h) \/ Reactivate(h)
       \/ \E e \in Events : Receive(h, e)
  \/ \E s \in Subscriptions : Report(s)
  \/ Tick

Spec == Init /\ [][Next]_vars
-----------------------------------------------------------------------------
(* Properties *)

\* Rows and handlers are what the schema and the code can hold.
TypeOK ==
  /\ reports \in [Subscriptions -> Seq(Reported)]
  /\ ledger \in [Events -> {"NONE", "RECEIVED", "PROCESSED"}]
  /\ plans \in Seq(Plan) /\ now \in Nat
  /\ work \in [Handlers -> Work \cup {Idle}]

\* getEntitlements: the newest row with one of these statuses is the plan in force, and
\* grants while it is paid for and in its period.
Granting == {i \in DOMAIN plans : plans[i].status \in {"ACTIVE", "PAST_DUE", "CANCELED"}}
InForce(i) == i \in Granting /\ \A j \in Granting : j <= i
Grants(i) == InForce(i) /\ plans[i].status # "PAST_DUE" /\ plans[i].until > now

\* A subscription that was deleted, once this has been processed, is never again the
\* plan in force; and one that has ended, in whatever way Stripe reports it and whether
\* or not this has been processed, grants nothing once the period is over in which it
\* ended: though older reports of it may be processed later, and a request that had
\* read its row may still write it.
EndProcessed(s) ==
  \E e \in Emitted : e[1] = s /\ reports[s][e[2]].kind = "DELETED" /\ ledger[e] = "PROCESSED"
PeriodOver(s) == \E n \in DOMAIN reports[s] : reports[s][n].kind \in Ends /\ reports[s][n].until <= now
EndedGrantsNothing ==
  \A s \in Subscriptions : \A i \in RowsOf(s) :
    /\ EndProcessed(s) => ~InForce(i)
    /\ PeriodOver(s) => ~Grants(i)
=============================================================================
