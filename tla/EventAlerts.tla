----------------------------- MODULE EventAlerts ----------------------------
(***************************************************************************)
(* One gateway's presence, the events it raises or that are raised about   *)
(* it, the alerts these become, and what a member of the organization is   *)
(* sent of them.                                                           *)
(*                                                                         *)
(* Heartbeats, messages about motion, requests of the owner and turns of   *)
(* the workers interleave at every await, also with themselves: setInterval*)
(* starts a turn whether or not the last one has ended.  A handler may end *)
(* anywhere.  Cameras' connectivity notices are in CameraHealth; their     *)
(* alerts go the way of the gateway's.                                     *)
(***************************************************************************)
EXTENDS Naturals, Sequences, FiniteSets, SequencesExt

CONSTANTS Motions,      \* the motions the gateway may report, by externalEventId
          Handlers,     \* requests and turns in progress at the same time
          MaxAttempts,  \* NOTIFICATION_MAX_ATTEMPTS
          MaxEvents,    \* bound: how many events there are
          Channel       \* how the preferences, the severity and the cooldown let the
                        \* member be told of the n-th event's alert: EMAIL, PUSH, NONE

ASSUME MaxAttemptsAssumption == MaxAttempts \in Nat \ {0}
ASSUME MaxEventsAssumption == MaxEvents \in Nat
ASSUME ChannelAssumption == Channel \in [1 .. MaxEvents -> {"EMAIL", "PUSH", "NONE"}]
ASSUME MotionsAssumption == Motions \cap {"ONLINE", "OFFLINE"} = {}

VARIABLES pairing,       \* the status of the pairing code
          gateway,       \* the Gateway row
          events,        \* the CameraEvent rows, in the order they were created
          alert,         \* the status of each event's alert
          notification,  \* the row for EMAIL or PUSH of each alert
          subscribed,    \* the user has a PushSubscription that is not revoked
          work,          \* what each handler is doing
          raced,         \* history: see AlertTellsPresence
          dropped,       \* history: events whose handler ended before their alert
          sent,          \* history: how often each was delivered; bound: counted up to 2
          contended      \* history: notifications two turns had in hand, or one that failed to record

delivery == <<notification, subscribed, sent, contended>>
vars == <<pairing, gateway, events, alert, delivery, work, raced, dropped>>

\* recent: the last heartbeat of a gateway that is ONLINE is.
\* ONLINE stands for CONNECTING too, which nothing here tells apart; REMOVED is a
\* row with deletedAt, NONE no row.
Statuses == {"NONE", "UNKNOWN", "ONLINE", "OFFLINE", "DISABLED", "REMOVED"}
Gateway == [status : Statuses, recent : BOOLEAN]
Types == Motions \cup {"ONLINE", "OFFLINE"}
EventIds == 1 .. MaxEvents
Alerts == {"NONE", "OPEN", "ACKNOWLEDGED", "RESOLVED"}

NoRow == [status |-> "NONE"]
Row == [channel : {"EMAIL", "PUSH"}, status : {"PENDING", "SENT", "FAILED"},
        attempts : Nat]
NewRow(c) == [channel |-> c, status |-> "PENDING", attempts |-> 0]

Idle == [pc |-> "idle"]
Work == [pc : {"claim", "expire", "authorized", "reconcile"}]
          \cup [pc : {"beat"}, previous : Statuses]
          \cup [pc : {"transition"}]
          \cup [pc : {"ingest"}, motion : Motions]
          \cup [pc : {"process"}, event : EventIds]
          \cup [pc : {"turn", "accepted"}, batch : Seq(EventIds), seen : [EventIds -> Nat]]

Init ==
  /\ pairing = "NONE"
  /\ gateway = [status |-> "NONE", recent |-> FALSE]
  /\ events = <<>>
  /\ alert = [e \in EventIds |-> "NONE"]
  /\ notification = [e \in EventIds |-> NoRow]
  /\ subscribed = FALSE
  /\ work = [h \in Handlers |-> Idle]
  /\ raced = FALSE /\ dropped = {}
  /\ sent = [e \in EventIds |-> 0] /\ contended = {}
-----------------------------------------------------------------------------
At(h, pc) == work[h].pc = pc
Begin(h, job) == work[h] = Idle /\ work' = [work EXCEPT ![h] = job]
Turn(h, job) == work' = [work EXCEPT ![h] = job]
Finish(h) == Turn(h, Idle)

Exists == gateway.status \notin {"NONE", "REMOVED"}
Processing(h) == At(h, "process")
About(h) == events[work[h].event]

Beating(h) == work[h].pc \in {"authorized", "beat", "transition"}
                \/ (Processing(h) /\ About(h) = "ONLINE")
Reconciling(h) == At(h, "reconcile") \/ (Processing(h) /\ About(h) = "OFFLINE")

InHand(h) == IF work[h].pc \in {"turn", "accepted"} THEN ToSet(work[h].batch) ELSE {}

\* The end of the process, or an exception.  processEvent's is caught and logged.
Die(h) ==
  /\ work[h] # Idle
  /\ Finish(h)
  /\ raced' = (raced \/ Beating(h) \/ Reconciling(h))
  /\ dropped' = IF Processing(h) THEN dropped \cup {work[h].event} ELSE dropped
  /\ contended' = IF At(h, "accepted") THEN contended \cup {Head(work[h].batch)} ELSE contended
  /\ UNCHANGED <<pairing, gateway, events, alert,
                 notification, subscribed, sent>>
-----------------------------------------------------------------------------
(* GatewayService: pairing and what the owner does *)

others == <<events, alert, delivery, dropped>>

GeneratePairing ==
  /\ pairing = "NONE"
  /\ pairing' = "PENDING"
  /\ UNCHANGED <<gateway, others, work, raced>>

\* The code is PENDING; its expiresAt may have passed.
ClaimRead(h) ==
  /\ pairing = "PENDING"
  /\ \E pc \in {"claim", "expire"} : Begin(h, [pc |-> pc])
  /\ UNCHANGED <<pairing, gateway, others, raced>>

\* By id, whatever has become of the code since.
ClaimExpire(h) ==
  /\ At(h, "expire")
  /\ pairing' = "EXPIRED"
  /\ Finish(h)
  /\ UNCHANGED <<gateway, others, raced>>

Claim(h) ==
  /\ At(h, "claim") /\ pairing = "PENDING"
  /\ pairing' = "USED"
  /\ gateway' = [status |-> "UNKNOWN", recent |-> FALSE]
  /\ Finish(h)
  /\ UNCHANGED <<others, raced>>

\* update, remove and rotateCredential write by id after a look that the gateway is
\* there.  A new secret makes a disabled gateway UNKNOWN as well.
Administer(status) ==
  /\ Exists
  /\ gateway' = [status |-> status, recent |-> FALSE]
  /\ UNCHANGED <<pairing, others, work, raced>>
Disable == Administer("DISABLED")
Enable == Administer("UNKNOWN")
RemoveGateway == Administer("REMOVED")
RotateCredential == Administer("UNKNOWN")
-----------------------------------------------------------------------------
(* heartbeat *)

Meet(h, Other(_)) == \E g \in Handlers \ {h} : Other(g)

\* Variant: the middleware lets a disabled gateway through.
AuthenticateAny(h) ==
  /\ Exists
  /\ Begin(h, [pc |-> "authorized"])
  /\ raced' = (raced \/ Meet(h, Reconciling))
  /\ UNCHANGED <<pairing, gateway, others>>
Authenticate(h) ==
  /\ Exists /\ gateway.status # "DISABLED"
  /\ Begin(h, [pc |-> "authorized"])
  /\ raced' = (raced \/ Meet(h, Reconciling))
  /\ UNCHANGED <<pairing, gateway, others>>

HeartbeatRead(h) ==
  /\ At(h, "authorized")
  /\ Turn(h, [pc |-> "beat", previous |-> gateway.status])
  /\ UNCHANGED <<pairing, gateway, others, raced>>

\* By id.  Messages carry a fresh id, and a duplicate has no effect.  What is
\* written to a removed row nobody reads.
Heartbeat(h) ==
  /\ At(h, "beat")
  /\ gateway' = IF gateway.status = "REMOVED" THEN gateway
                ELSE [status |-> "ONLINE", recent |-> TRUE]
  /\ IF work[h].previous = "ONLINE" THEN Finish(h) ELSE Turn(h, [pc |-> "transition"])
  /\ UNCHANGED <<pairing, others, raced>>

Raise(h, type) ==
  /\ Len(events) < MaxEvents
  /\ events' = Append(events, type)
  /\ Turn(h, [pc |-> "process", event |-> Len(events) + 1])

GatewayOnline(h) ==
  /\ At(h, "transition")
  /\ Raise(h, "ONLINE")
  /\ UNCHANGED <<pairing, gateway, alert, delivery, raced, dropped>>

\* GATEWAY_OFFLINE_TIMEOUT_SECONDS pass without a heartbeat.
Lapse ==
  /\ gateway.recent
  /\ gateway' = [gateway EXCEPT !.recent = FALSE]
  /\ UNCHANGED <<pairing, others, work, raced>>
-----------------------------------------------------------------------------
(* reconcileOfflineGateways: a worker's, and before a list of gateways is shown *)

Stale == gateway.status = "ONLINE" /\ ~gateway.recent

ReconcileFind(h) ==
  /\ Stale
  /\ Begin(h, [pc |-> "reconcile"])
  /\ raced' = (raced \/ Meet(h, Beating))
  /\ UNCHANGED <<pairing, gateway, others>>

Reconcile(h) ==
  /\ At(h, "reconcile") /\ Stale
  /\ gateway' = [gateway EXCEPT !.status = "OFFLINE"]
  /\ Raise(h, "OFFLINE")
  /\ UNCHANGED <<pairing, alert, delivery, raced, dropped>>

ReconcileUnchanged(h) ==
  /\ At(h, "reconcile") /\ ~Stale
  /\ Finish(h)
  /\ UNCHANGED <<pairing, gateway, others, raced>>
-----------------------------------------------------------------------------
(* ingest of motion: the start and the end come late, repeatedly and in any order; *)
(* which of them it is only fills in the event's times                             *)

IngestFind(h, m) ==
  /\ Exists /\ gateway.status # "DISABLED"
  /\ Begin(h, [pc |-> "ingest", motion |-> m])
  /\ UNCHANGED <<pairing, gateway, others, raced>>

Known(m) == m \in ToSet(events)

IngestDuplicate(h) ==
  /\ At(h, "ingest") /\ Known(work[h].motion)
  /\ Finish(h)
  /\ UNCHANGED <<pairing, gateway, events, alert, delivery, raced, dropped>>

\* Variant: the alert is left to the message that comes again.
IngestOnly(h) ==
  /\ At(h, "ingest") /\ ~Known(work[h].motion) /\ Len(events) < MaxEvents
  /\ events' = Append(events, work[h].motion)
  /\ Finish(h)
  /\ UNCHANGED <<pairing, gateway, alert, delivery, raced, dropped>>
IngestNew(h) ==
  /\ At(h, "ingest") /\ ~Known(work[h].motion)
  /\ Raise(h, work[h].motion)
  /\ UNCHANGED <<pairing, gateway, alert, delivery, raced, dropped>>
-----------------------------------------------------------------------------
(* AlertService *)

CallsForAlert(type) == type # "ONLINE"
Unresolved(e) == alert[e] \in {"OPEN", "ACKNOWLEDGED"}

\* Every unresolved alert of the gateway, however old: a transition that no
\* reconciliation has met makes up for those that one had.
ProcessRecovery(h) ==
  /\ Processing(h) /\ ~CallsForAlert(About(h))
  /\ alert' = [e \in EventIds |-> IF Unresolved(e) /\ events[e] = "OFFLINE" THEN "RESOLVED"
                                  ELSE alert[e]]
  /\ raced' = (raced /\ (gateway.status = "OFFLINE" \/ Meet(h, Reconciling)))
  /\ Finish(h)
  /\ UNCHANGED <<pairing, gateway, events, delivery, dropped>>

\* The alert and its notifications in one transaction, once for an event.
\* Bound: one notification for an alert, of one recipient on one channel.
ProcessAlert(h) ==
  LET e == work[h].event IN
  /\ Processing(h) /\ CallsForAlert(About(h))
  /\ alert' = [alert EXCEPT ![e] = "OPEN"]
  /\ notification' = [notification EXCEPT ![e] = IF Channel[e] = "NONE" THEN NoRow
                                                 ELSE NewRow(Channel[e])]
  /\ Finish(h)
  /\ UNCHANGED <<pairing, gateway, events, subscribed, sent, contended,
                 raced, dropped>>

\* Variant: by id.
AcknowledgeById(e) ==
  /\ alert[e] # "NONE"
  /\ alert' = [alert EXCEPT ![e] = "ACKNOWLEDGED"]
  /\ UNCHANGED <<pairing, gateway, events, delivery, work, raced, dropped>>
Acknowledge(e) ==
  /\ alert[e] = "OPEN"
  /\ alert' = [alert EXCEPT ![e] = "ACKNOWLEDGED"]
  /\ UNCHANGED <<pairing, gateway, events, delivery, work, raced, dropped>>
-----------------------------------------------------------------------------
(* NotificationService.dispatchBatch and PushSubscriptionService *)

story == <<pairing, gateway, events, alert, raced, dropped>>

Waiting == {e \in EventIds : /\ notification[e].status \in {"PENDING", "FAILED"}
                             /\ notification[e].attempts < MaxAttempts}
Seen(batch) == [e \in EventIds |-> IF e \in batch THEN notification[e].attempts ELSE 0]

\* Of the rows that wait, those whose nextAttemptAt has come and expiresAt has not,
\* oldest first.
\* Nothing marks them as taken.
TurnBegin(h) ==
  /\ work[h] = Idle
  /\ \E n \in EventIds : \E due \in [1 .. n -> Waiting] :
       /\ \A i, j \in 1 .. n : i < j => due[i] < due[j]
       /\ Begin(h, [pc |-> "turn", batch |-> due, seen |-> Seen(ToSet(due))])
       /\ contended' = contended \cup (ToSet(due) \cap UNION {InHand(g) : g \in Handlers})
  /\ UNCHANGED <<story, notification, subscribed, sent>>

First(h) == Head(work[h].batch)
Rest(h) == IF Len(work[h].batch) = 1 THEN Finish(h)
           ELSE Turn(h, [pc |-> "turn", batch |-> Tail(work[h].batch), seen |-> work[h].seen])
FirstIs(h, channel) == At(h, "turn") /\ notification[First(h)].channel = channel

Write(h, status, attempts) ==
  notification' = [notification EXCEPT ![First(h)] =
                     [channel |-> @.channel, status |-> status, attempts |-> attempts]]
Failed(h) == Write(h, "FAILED", work[h].seen[First(h)] + 1)

\* The user's address was not verified when the turn began.
EmailUnverified(h) ==
  /\ FirstIs(h, "EMAIL")
  /\ Write(h, "FAILED", MaxAttempts)
  /\ Rest(h)
  /\ UNCHANGED <<story, subscribed, sent, contended>>

\* No provider is configured for it: the row is left as it is.
PushUnavailable(h) ==
  /\ FirstIs(h, "PUSH")
  /\ Rest(h)
  /\ UNCHANGED <<story, delivery>>

\* Not counted as an attempt: the row is due again at once.
PushNobody(h) ==
  /\ FirstIs(h, "PUSH") /\ ~subscribed
  /\ Write(h, "FAILED", notification[First(h)].attempts)
  /\ Rest(h)
  /\ UNCHANGED <<story, subscribed, sent, contended>>

CanSend(h) == FirstIs(h, "EMAIL") \/ (FirstIs(h, "PUSH") /\ subscribed)

SendAccepted(h) ==
  /\ CanSend(h)
  /\ sent' = [sent EXCEPT ![First(h)] = IF @ = 2 THEN @ ELSE @ + 1]
  /\ work' = [work EXCEPT ![h].pc = "accepted"]
  /\ UNCHANGED <<story, notification, subscribed, contended>>

\* A push that is answered 404 or 410 revokes the subscription.
SendRefused(h) ==
  /\ CanSend(h)
  /\ Failed(h)
  /\ subscribed' \in {subscribed, subscribed /\ FirstIs(h, "EMAIL")}
  /\ Rest(h)
  /\ UNCHANGED <<story, sent, contended>>

\* Variant: only the attempt is counted.
CountAttempt(h) ==
  /\ At(h, "accepted")
  /\ Failed(h)
  /\ Rest(h)
  /\ UNCHANGED <<story, subscribed, sent, contended>>
\* The attempts of an e-mail are counted in the row, those of a push from what was read.
MarkSent(h) ==
  /\ At(h, "accepted")
  /\ Write(h, "SENT", 1 + IF notification[First(h)].channel = "EMAIL"
                          THEN notification[First(h)].attempts ELSE work[h].seen[First(h)])
  /\ Rest(h)
  /\ UNCHANGED <<story, subscribed, sent, contended>>

\* The row of an e-mail that went out is written in the block that catches failures.
MarkFails(h) ==
  /\ At(h, "accepted") /\ notification[First(h)].channel = "EMAIL"
  /\ Failed(h)
  /\ contended' = contended \cup {First(h)}
  /\ Rest(h)
  /\ UNCHANGED <<story, subscribed, sent>>

SetSubscribed(now) ==
  /\ subscribed # now
  /\ subscribed' = now
  /\ UNCHANGED <<story, notification, sent, contended, work>>
Subscribe == SetSubscribed(TRUE)
Unsubscribe == SetSubscribed(FALSE)
-----------------------------------------------------------------------------
Next ==
  \/ GeneratePairing \/ Disable \/ Enable \/ RemoveGateway \/ RotateCredential \/ Lapse
  \/ Subscribe \/ Unsubscribe
  \/ \E e \in EventIds : Acknowledge(e)
  \/ \E h \in Handlers :
       \/ Die(h) \/ ClaimRead(h) \/ ClaimExpire(h) \/ Claim(h)
       \/ Authenticate(h) \/ HeartbeatRead(h) \/ Heartbeat(h) \/ GatewayOnline(h)
       \/ ReconcileFind(h) \/ Reconcile(h) \/ ReconcileUnchanged(h)
       \/ \E m \in Motions : IngestFind(h, m)
       \/ IngestDuplicate(h) \/ IngestNew(h) \/ ProcessRecovery(h) \/ ProcessAlert(h)
       \/ TurnBegin(h) \/ EmailUnverified(h) \/ PushUnavailable(h) \/ PushNobody(h)
       \/ SendAccepted(h) \/ SendRefused(h) \/ MarkSent(h) \/ MarkFails(h)

Spec == Init /\ [][Next]_vars
-----------------------------------------------------------------------------
(* Properties *)

\* Rows and handlers are what the schema and the code can hold.
TypeOK ==
  /\ pairing \in {"NONE", "PENDING", "USED", "EXPIRED"}
  /\ gateway \in Gateway
  /\ events \in Seq(Types)
  /\ alert \in [EventIds -> Alerts]
  /\ notification \in [EventIds -> Row \cup {NoRow}]
  /\ subscribed \in BOOLEAN
  /\ work \in [Handlers -> Work \cup {Idle}]
  /\ raced \in BOOLEAN /\ dropped \subseteq EventIds
  /\ sent \in [EventIds -> 0 .. 2] /\ contended \subseteq EventIds

\* When nothing about its presence is under way, an ONLINE gateway has no unresolved
\* alert of being offline, and an OFFLINE one has.  Only a heartbeat that overlaps a
\* reconciliation, or a handler that ends early, can make it otherwise, and the next
\* transition to ONLINE that is told in full makes up for it.
AlertTellsPresence ==
  (\A h \in Handlers : ~Beating(h) /\ ~Reconciling(h)) /\ ~raced =>
    LET open == {e \in DOMAIN events : events[e] = "OFFLINE" /\ Unresolved(e)} IN
    /\ gateway.status = "ONLINE" => open = {}
    /\ gateway.status = "OFFLINE" => open # {}

\* Every event that calls for an alert has one, or its handler is about to write it,
\* or that handler has ended: nobody else ever makes up for it, and a message that
\* comes again is a duplicate.
EventsAlerted ==
  \A e \in DOMAIN events : CallsForAlert(events[e]) /\ alert[e] = "NONE" =>
    e \in dropped \/ \E h \in Handlers : Processing(h) /\ work[h].event = e

\* Once it is disabled and no heartbeat is under way that was let in before, a gateway
\* stays disabled, and silent, until its owner decides otherwise.
Silenced == gateway.status = "DISABLED" /\ \A h \in Handlers : ~Beating(h)
DisabledStays == [][Silenced => Silenced' \/ gateway'.status \in {"UNKNOWN", "REMOVED"}]_vars

\* A notification that one turn at a time has in hand, and records, is delivered once
\* at most, its row is SENT if and only if it was, and it is not tried more often than
\* it may be.
RowTellsDelivery ==
  \A e \in EventIds \ contended : notification[e] # NoRow =>
    /\ sent[e] <= 1 /\ notification[e].attempts <= MaxAttempts
    /\ (\A h \in Handlers : ~(At(h, "accepted") /\ First(h) = e))
         => (sent[e] = 1 <=> notification[e].status = "SENT")
=============================================================================
