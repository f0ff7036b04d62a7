-------------------------- MODULE MonitoringProofs ---------------------------
(***************************************************************************)
(* Proofs about Monitoring for any motions, handlers, tabs, settings and   *)
(* bounds: the alerts and what is sent of them, the judgment of motions,   *)
(* what dashboards and players show.                                       *)
(*                                                                         *)
(* Each part has an invariant of its own, which its steps keep and the     *)
(* others cannot touch.  For presence it says, as long as heartbeats and   *)
(* reconciliations have not met, who is still to tell a status that the    *)
(* alerts do not show yet; for delivery, that a turn which alone has a row *)
(* in hand knows it as it is; for risk, which factors an analysis must     *)
(* have found where it has got to, and that a schedule which nobody saves  *)
(* is read as it applies.                                                  *)
(***************************************************************************)
EXTENDS Monitoring, FiniteSetTheorems, SequenceTheorems, TLAPS

USE MaxEventsAssumption, MaxAttemptsAssumption
-----------------------------------------------------------------------------
(* EventAlerts: events and their handlers *)

Busy(h) == work[h].pc \in {"turn", "accepted"}
\* A turn has rows in hand that are there, each once.
Ascending(batch) == \A i, j \in DOMAIN batch : i < j => batch[i] < batch[j]
IsTurn(job) ==
  /\ job = [pc |-> job.pc, batch |-> job.batch, seen |-> job.seen]
  /\ job.pc \in {"turn", "accepted"} /\ job.batch \in Seq(EventIds) \ {<<>>}
  /\ Ascending(job.batch)
JobFits(h) ==
  /\ At(h, "ingest") => work[h].motion \in Motions
  /\ Processing(h) => work[h].event \in DOMAIN events
  /\ Busy(h) => IsTurn(work[h])
\* Nobody else raises an alert about the same event.
ProcessedOnce ==
  \A g, h \in Handlers : Processing(g) /\ Processing(h) /\ work[g].event = work[h].event => g = h
EventTypes ==
  /\ events \in Seq(Types) /\ Len(events) <= MaxEvents
  /\ alert \in [EventIds -> Alerts]
  /\ DOMAIN work = Handlers
  /\ \A h \in Handlers : JobFits(h)
GatewayFits == "status" \in DOMAIN gateway
EventInv == EventTypes /\ EventsAlerted

(* EventAlerts: presence *)

Healing(h) == At(h, "transition") \/ (Processing(h) /\ About(h) = "ONLINE")
Telling(h) == Processing(h) /\ About(h) = "OFFLINE"
Beaten(h) == At(h, "beat") /\ work[h].previous = "ONLINE"
AboutPresence == {e \in DOMAIN events : events[e] = "OFFLINE" /\ Unresolved(e)}
\* As long as heartbeats and reconciliations have not met:
Apart == \A g, h \in Handlers : ~(Beating(g) /\ Reconciling(h))
OfflineIsTold ==
  gateway.status = "OFFLINE" =>
    /\ \A h \in Handlers : ~Healing(h)
    /\ AboutPresence # {} \/ \E h \in Handlers : Telling(h)
OnlineHeals ==
  gateway.status = "ONLINE" \/ (\E h \in Handlers : Beaten(h)) =>
    /\ \A h \in Handlers : ~Telling(h)
    /\ AboutPresence = {} \/ \E h \in Handlers : Healing(h)
PresenceInv == ~raced => Apart /\ OfflineIsTold /\ OnlineHeals

(* EventAlerts: delivery *)

Holds(h, e) == e \in InHand(h)
Accepted(h, e) == At(h, "accepted") /\ First(h) = e
RowTypes ==
  /\ notification \in [EventIds -> Row \cup {NoRow}]
  /\ sent \in [EventIds -> 0 .. 2]
  /\ \A h \in Handlers : Busy(h) => work[h].seen \in [EventIds -> Nat]
\* Rows are there before a turn, and not before the alert.
RowsKept ==
  /\ ProcessedOnce
  /\ \A e \in EventIds : e \notin DOMAIN events => notification[e] = NoRow
  /\ \A h \in Handlers : Processing(h) => notification[work[h].event] = NoRow
  /\ \A e \in EventIds : notification[e] = NoRow => sent[e] = 0 /\ \A h \in Handlers : ~Holds(h, e)
HeldOnce(e) == \A g, h \in Handlers : Holds(g, e) /\ Holds(h, e) => g = h
\* What a turn knows of a row it has in hand is still so.
HeldIsKnown(e) ==
  \A h \in Handlers : Holds(h, e) =>
    /\ notification[e].status \in {"PENDING", "FAILED"}
    /\ notification[e].attempts = work[h].seen[e] /\ work[h].seen[e] < MaxAttempts
    /\ sent[e] = IF Accepted(h, e) THEN 1 ELSE 0
RestIsTold(e) ==
  (\A h \in Handlers : ~Holds(h, e)) =>
    /\ sent[e] <= 1 /\ (sent[e] = 1 <=> notification[e].status = "SENT")
    /\ notification[e] # NoRow => notification[e].attempts <= MaxAttempts
DeliveryInv ==
  /\ RowTypes /\ RowsKept
  /\ \A e \in EventIds \ contended : HeldOnce(e) /\ HeldIsKnown(e) /\ RestIsTold(e)

\* What Append does to a sequence, and where it leaves the rest.
LEMMA AppendIs ==
  ASSUME NEW S, NEW s \in Seq(S), NEW x \in S
  PROVE  /\ Append(s, x) \in Seq(S) /\ Len(Append(s, x)) = Len(s) + 1
         /\ DOMAIN s = 1 .. Len(s) /\ DOMAIN Append(s, x) = 1 .. Len(s) + 1
         /\ \A i \in DOMAIN s : Append(s, x)[i] = s[i]
         /\ Append(s, x)[Len(s) + 1] = x
  OBVIOUS

\* Of a sequence that ascends, the head is not in the tail.
LEMMA HeadIsApart ==
  ASSUME NEW s \in Seq(Nat), s # <<>>, Ascending(s)
  PROVE  /\ Head(s) \in ToSet(s) /\ Head(s) = s[1]
         /\ Len(s) = 1 => ToSet(s) = {Head(s)}
         /\ Len(s) # 1 => Tail(s) # <<>>
         /\ Ascending(Tail(s)) /\ ToSet(Tail(s)) = ToSet(s) \ {Head(s)}
<1>1. Len(s) \in Nat \ {0} /\ DOMAIN s = 1 .. Len(s) /\ Head(s) = s[1]
  OBVIOUS
<1>2. Tail(s) \in Seq(Nat) /\ Len(Tail(s)) = Len(s) - 1
  BY HeadTailProperties
<1>3. \A i \in 1 .. Len(s) - 1 : Tail(s)[i] = s[i + 1]
  BY <1>2, HeadTailProperties
<1>4. DOMAIN Tail(s) = 1 .. Len(s) - 1
  BY <1>2
<1>5. Ascending(Tail(s))
  BY <1>1, <1>3, <1>4 DEF Ascending
<1>6. ToSet(s) = {s[i] : i \in 1 .. Len(s)} /\ ToSet(Tail(s)) = {Tail(s)[i] : i \in 1 .. Len(s) - 1}
  BY <1>1, <1>4 DEF ToSet
<1>7. \A i \in 2 .. Len(s) : s[i] # s[1]
  <2> TAKE i \in 2 .. Len(s)
  <2>1. s[1] < s[i] /\ s[1] \in Nat /\ s[i] \in Nat
    BY <1>1 DEF Ascending
  <2>2. QED
    BY <2>1
<1>8. \A i \in 2 .. Len(s) : i - 1 \in 1 .. Len(s) - 1 /\ Tail(s)[i - 1] = s[i]
  BY <1>1, <1>3
<1>9. \A i \in 1 .. Len(s) - 1 : i + 1 \in 2 .. Len(s)
  BY <1>1
<1>10. ToSet(Tail(s)) = ToSet(s) \ {Head(s)}
  <2>1. ASSUME NEW x \in ToSet(Tail(s))
        PROVE  x \in ToSet(s) \ {Head(s)}
    BY <1>1, <1>3, <1>6, <1>7, <1>9, <2>1
  <2>2. ASSUME NEW x \in ToSet(s), x # Head(s)
        PROVE  x \in ToSet(Tail(s))
    <3>1. PICK i \in 1 .. Len(s) : x = s[i]
      BY <1>6, <2>2
    <3>2. i \in 2 .. Len(s)
      BY <1>1, <2>2, <3>1
    <3>3. QED
      BY <1>6, <1>8, <3>1, <3>2
  <2>3. QED
    BY <2>1, <2>2
<1>11. Head(s) \in ToSet(s) /\ (Len(s) = 1 => ToSet(s) = {Head(s)})
  BY <1>1, <1>6
<1>12. Len(s) # 1 => Tail(s) # <<>>
  <2>1. \A t \in Seq(Nat) : t = <<>> => Len(t) = 0
    OBVIOUS
  <2>2. QED
    <3> DEFINE tail == Tail(s)
    <3>1. tail \in Seq(Nat) /\ Len(tail) = Len(s) - 1
      BY <1>2
    <3>2. Len(s) # 1 => tail # <<>>
      <4> HIDE DEF tail
      <4>1. QED
        BY <1>1, <2>1, <3>1
    <3>3. QED
      BY <3>2
<1>13. QED
  BY <1>1, <1>5, <1>10, <1>11, <1>12

\* A step of one handler leaves the others where they are.
LEMMA TurnOf ==
  ASSUME DOMAIN work = Handlers, NEW h \in Handlers, NEW job, Turn(h, job)
  PROVE  /\ DOMAIN work' = Handlers /\ work'[h] = job
         /\ \A g \in Handlers \ {h} : work'[g] = work[g]
  BY DEF Turn

\* Events are only added, and a handler that does nothing is where it was.
Extended ==
  \/ events' = events
  \/ \E type \in Types : Len(events) < MaxEvents /\ events' = Append(events, type)

\* Events that are there keep their place and their type.
LEMMA EventsStay ==
  ASSUME EventTypes, Extended
  PROVE  /\ events' \in Seq(Types) /\ Len(events') <= MaxEvents
         /\ DOMAIN events \subseteq DOMAIN events'
         /\ \A e \in DOMAIN events : events'[e] = events[e]
<1>1. events \in Seq(Types) /\ Len(events) <= MaxEvents
  BY DEF EventTypes
<1>2. CASE events' = events
  BY <1>1, <1>2
<1>3. ASSUME NEW type \in Types, Len(events) < MaxEvents, events' = Append(events, type)
      PROVE  /\ events' \in Seq(Types) /\ Len(events') <= MaxEvents
             /\ DOMAIN events \subseteq DOMAIN events'
             /\ \A e \in DOMAIN events : events'[e] = events[e]
  BY <1>1, <1>3, AppendIs
<1>4. QED
  BY <1>2, <1>3 DEF Extended

\* What another handler does changes nothing about a handler that takes no step.
LEMMA JobStays ==
  ASSUME EventTypes, Extended, NEW g \in Handlers, work'[g] = work[g]
  PROVE  /\ JobFits(g)'
         /\ Beating(g)' <=> Beating(g)
         /\ Reconciling(g)' <=> Reconciling(g)
         /\ Healing(g)' <=> Healing(g)
         /\ Telling(g)' <=> Telling(g)
         /\ Beaten(g)' <=> Beaten(g)
<1>1. JobFits(g)
  BY DEF EventTypes
<1>2. Processing(g)' = Processing(g) /\ (Processing(g) => About(g)' = About(g))
  BY <1>1, EventsStay DEF JobFits, Processing, At, About
<1>3. JobFits(g)'
  BY <1>1, EventsStay DEF JobFits, Processing, At, Busy
<1>4. QED
  BY <1>2, <1>3 DEF Beating, Reconciling, Healing, Telling, Beaten, At

\* A turn whose provider accepted has the same rows in hand.
LEMMA AcceptedTurn ==
  ASSUME NEW job, IsTurn(job)
  PROVE  [job EXCEPT !.pc = "accepted"]
           = [pc |-> "accepted", batch |-> job.batch, seen |-> job.seen]
<1>1. \A p, b, s : [[pc |-> p, batch |-> b, seen |-> s] EXCEPT !.pc = "accepted"]
                     = [pc |-> "accepted", batch |-> b, seen |-> s]
  OBVIOUS
<1>2. QED
  BY <1>1 DEF IsTurn

\* With its first row settled, a turn has the others in hand, or ends.
LEMMA RestOf ==
  ASSUME EventTypes, NEW h \in Handlers, Busy(h), Rest(h)
  PROVE  /\ DOMAIN work' = Handlers
         /\ \A g \in Handlers \ {h} : work'[g] = work[g]
         /\ work'[h] = Idle \/ (work'[h].pc = "turn" /\ work'[h].seen = work[h].seen)
         /\ JobFits(h)'
         /\ InHand(h)' = InHand(h) \ {First(h)}
         /\ First(h) \in InHand(h) /\ First(h) \in EventIds
<1> DEFINE batch == work[h].batch
           job == [pc |-> "turn", batch |-> Tail(batch), seen |-> work[h].seen]
<1>1. IsTurn(work[h])
  BY DEF EventTypes, JobFits
<1>2. batch \in Seq(EventIds)
  BY <1>1 DEF IsTurn
<1>3. batch \in Seq(Nat) /\ batch # <<>> /\ Ascending(batch)
  BY <1>1, <1>2 DEF EventIds, IsTurn
<1>4. InHand(h) = ToSet(batch) /\ First(h) = Head(batch)
  BY DEF InHand, Busy, First
<1>5. First(h) \in InHand(h) /\ First(h) \in EventIds
  BY <1>2, <1>3, <1>4, HeadIsApart, HeadTailProperties
<1>6. CASE Len(batch) = 1
  <2>1. Turn(h, Idle)
    BY <1>6 DEF Rest, Finish
  <2>2. work'[h] = Idle /\ DOMAIN work' = Handlers /\ \A g \in Handlers \ {h} : work'[g] = work[g]
    BY <2>1, TurnOf DEF EventTypes
  <2>3. InHand(h)' = {} /\ JobFits(h)'
    BY <2>2 DEF InHand, Idle, JobFits, At, Processing, Busy
  <2>4. InHand(h) = {First(h)}
    BY <1>3, <1>4, <1>6, HeadIsApart
  <2>5. QED
    BY <1>5, <2>2, <2>3, <2>4
<1>7. CASE Len(batch) # 1
  <2>3. Turn(h, job)
    BY <1>7 DEF Rest
  <2>4. work'[h] = job /\ DOMAIN work' = Handlers /\ \A g \in Handlers \ {h} : work'[g] = work[g]
    BY <2>3, TurnOf DEF EventTypes
  <2>5. Tail(batch) \in Seq(EventIds) /\ Tail(batch) # <<>> /\ Ascending(Tail(batch))
    BY <1>2, <1>3, <1>7, HeadIsApart, HeadTailProperties
  <2>6. InHand(h)' = ToSet(Tail(batch))
    BY <2>4 DEF InHand
  <2>7. JobFits(h)'
    BY <2>4, <2>5 DEF JobFits, At, Processing, Busy, IsTurn
  <2>8. ToSet(Tail(batch)) = ToSet(batch) \ {Head(batch)}
    BY <1>3, HeadIsApart
  <2>9. QED
    BY <1>4, <1>5, <2>4, <2>6, <2>7, <2>8
<1>8. QED
  BY <1>6, <1>7

\* A step of a handler that raises nothing keeps EventInv, as long as an event it had to
\* process is no alert's, has its alert, or counts as dropped.
LEMMA HandlerKeeps ==
  ASSUME EventInv, NEW h \in Handlers, events' = events, dropped \subseteq dropped',
         DOMAIN work' = Handlers, \A g \in Handlers \ {h} : work'[g] = work[g], JobFits(h)',
         alert' \in [EventIds -> Alerts],
         \A e \in EventIds : alert'[e] = "NONE" => alert[e] = "NONE",
         Processing(h) => \/ ~CallsForAlert(About(h))
                         \/ alert'[work[h].event] # "NONE"
                         \/ work[h].event \in dropped'
  PROVE  EventInv'
<1>1. EventTypes
  BY DEF EventInv
<1>2. \A g \in Handlers \ {h} : JobFits(g)'
  BY <1>1, JobStays DEF Extended
<1>3. EventTypes'
  BY <1>1, <1>2 DEF EventTypes
<1>4. ASSUME NEW e \in DOMAIN events, CallsForAlert(events[e]), alert'[e] = "NONE"
      PROVE  e \in dropped' \/ \E g \in Handlers : Processing(g)' /\ work'[g].event = e
  <2>1. e \in EventIds
    BY <1>1, <1>4 DEF EventTypes, EventIds
  <2>2. e \in dropped \/ \E g \in Handlers : Processing(g) /\ work[g].event = e
    BY <1>4, <2>1 DEF EventInv, EventsAlerted
  <2>3. ASSUME Processing(h), work[h].event = e
        PROVE  e \in dropped'
    BY <1>4, <2>3 DEF About
  <2>4. \A g \in Handlers \ {h} : Processing(g) => Processing(g)'
    BY DEF Processing, At
  <2>5. QED
    BY <2>2, <2>3, <2>4
<1>5. QED
  BY <1>3, <1>4 DEF EventInv, EventsAlerted, CallsForAlert

\* A handler raises an event, and an alert unless it is of a gateway that is back.
LEMMA RaiseKeeps ==
  ASSUME EventInv, NEW h \in Handlers, NEW type \in Types, Raise(h, type), ~Processing(h),
         UNCHANGED <<alert, dropped>>
  PROVE  /\ EventInv' /\ Extended
         /\ \A g \in Handlers \ {h} : work'[g] = work[g]
         /\ Processing(h)' /\ About(h)' = type /\ work'[h].event = Len(events) + 1
         /\ DOMAIN events' = DOMAIN events \cup {Len(events) + 1}
         /\ Len(events) + 1 \in EventIds \ DOMAIN events
<1> DEFINE new == Len(events) + 1
<1>1. EventTypes
  BY DEF EventInv
<1>2. /\ events' = Append(events, type) /\ Len(events) < MaxEvents /\ Extended
      /\ Turn(h, [pc |-> "process", event |-> new])
  BY DEF Raise, Extended
<1>3. /\ work'[h] = [pc |-> "process", event |-> new]
      /\ DOMAIN work' = Handlers /\ \A g \in Handlers \ {h} : work'[g] = work[g]
  BY <1>1, <1>2, TurnOf DEF EventTypes
<1>4. /\ DOMAIN events' = DOMAIN events \cup {new}
      /\ new \in EventIds \ DOMAIN events /\ events'[new] = type
      /\ \A e \in DOMAIN events : events'[e] = events[e]
  <2>1. events \in Seq(Types) /\ Len(events) \in Nat
    BY <1>1 DEF EventTypes
  <2>2. DOMAIN events = 1 .. Len(events) /\ DOMAIN events' = 1 .. new
    BY <1>2, <2>1, AppendIs
  <2>3. QED
    BY <1>2, <2>1, <2>2, AppendIs DEF EventIds
<1>5. Processing(h)' /\ About(h)' = type
  BY <1>3, <1>4 DEF Processing, At, About
<1>6. EventTypes'
  <2>1. \A g \in Handlers \ {h} : JobFits(g)'
    BY <1>1, <1>2, <1>3, JobStays
  <2>2. JobFits(h)'
    BY <1>3, <1>4 DEF JobFits, At, Processing, Busy
  <2>3. QED
    BY <1>1, <1>2, <1>3, <2>1, <2>2, EventsStay DEF EventTypes
<1>7. EventsAlerted'
  <2> SUFFICES ASSUME NEW e \in DOMAIN events', CallsForAlert(events'[e]), alert'[e] = "NONE"
               PROVE  e \in dropped' \/ \E g \in Handlers : Processing(g)' /\ work'[g].event = e
    BY DEF EventsAlerted, CallsForAlert
  <2>1. CASE e = new
    BY <1>3, <1>5, <2>1
  <2>2. CASE e \in DOMAIN events
    <3>1. e \in dropped \/ \E g \in Handlers : Processing(g) /\ work[g].event = e
      BY <1>4, <2>2 DEF EventInv, EventsAlerted
    <3>2. \A g \in Handlers : Processing(g) => g # h /\ Processing(g)' /\ work'[g].event = work[g].event
      BY <1>3 DEF Processing, At
    <3>3. QED
      BY <3>1, <3>2
  <2>3. QED
    BY <1>4, <2>1, <2>2
<1>8. QED
  BY <1>2, <1>3, <1>4, <1>5, <1>6, <1>7 DEF EventInv

\* Steps of a handler that neither holds rows nor has an event to process.
PlainStep(h) ==
  \/ ClaimRead(h) \/ ClaimExpire(h) \/ Claim(h) \/ Authenticate(h) \/ HeartbeatRead(h)
  \/ Heartbeat(h) \/ ReconcileFind(h) \/ ReconcileUnchanged(h)
  \/ (\E m \in Motions : IngestFind(h, m)) \/ IngestDuplicate(h)
Plain == {"idle", "claim", "expire", "authorized", "beat", "transition", "reconcile", "ingest"}

\* Such a step writes no event, alert or row.
LEMMA PlainStepIs ==
  ASSUME EventTypes, NEW h \in Handlers, PlainStep(h)
  PROVE  /\ UNCHANGED <<events, alert, notification, sent, contended, dropped>>
         /\ DOMAIN work' = Handlers /\ \A g \in Handlers \ {h} : work'[g] = work[g]
         /\ work[h].pc \in Plain /\ work'[h].pc \in Plain
         /\ JobFits(h)'
<1> USE DEF Plain, At, Begin, Finish, Idle, others, delivery
<1>1. UNCHANGED <<events, alert, notification, sent, contended, dropped>> /\ work[h].pc \in Plain
  BY DEF PlainStep, ClaimRead, ClaimExpire, Claim, Authenticate, HeartbeatRead, Heartbeat,
     ReconcileFind, ReconcileUnchanged, IngestFind, IngestDuplicate
<1>2. \E job : /\ Turn(h, job) /\ job.pc \in Plain
               /\ job.pc = "ingest" => job.motion \in Motions
  <2>1. CASE ClaimRead(h)
    <3>1. PICK pc \in {"claim", "expire"} : Turn(h, [pc |-> pc])
      BY <2>1 DEF ClaimRead, Turn
    <3>2. [pc |-> pc].pc = pc
      OBVIOUS
    <3>3. QED
      BY <3>1, <3>2
  <2>2. CASE ClaimExpire(h) \/ Claim(h) \/ ReconcileUnchanged(h) \/ IngestDuplicate(h)
    <3>1. Turn(h, Idle) /\ Idle.pc = "idle"
      BY <2>2 DEF ClaimExpire, Claim, ReconcileUnchanged, IngestDuplicate
    <3>2. QED
      BY <3>1
  <2>3. CASE Authenticate(h)
    <3>1. Turn(h, [pc |-> "authorized"]) /\ [pc |-> "authorized"].pc = "authorized"
      BY <2>3 DEF Authenticate, Turn
    <3>2. QED
      BY <3>1
  <2>4. CASE HeartbeatRead(h)
    <3> DEFINE job == [pc |-> "beat", previous |-> gateway.status]
    <3>1. Turn(h, job) /\ job.pc = "beat"
      BY <2>4 DEF HeartbeatRead
    <3>2. QED
      BY <3>1
  <2>5. CASE Heartbeat(h)
    <3>1. /\ Turn(h, Idle) \/ Turn(h, [pc |-> "transition"])
          /\ Idle.pc = "idle" /\ [pc |-> "transition"].pc = "transition"
      BY <2>5 DEF Heartbeat
    <3>2. QED
      BY <3>1
  <2>6. CASE ReconcileFind(h)
    <3>1. Turn(h, [pc |-> "reconcile"]) /\ [pc |-> "reconcile"].pc = "reconcile"
      BY <2>6 DEF ReconcileFind, Turn
    <3>2. QED
      BY <3>1
  <2>7. ASSUME NEW m \in Motions, IngestFind(h, m)
        PROVE  \E job : Turn(h, job) /\ job.pc \in Plain /\ (job.pc = "ingest" => job.motion \in Motions)
    <3> DEFINE job == [pc |-> "ingest", motion |-> m]
    <3>1. Turn(h, job) /\ job.pc = "ingest" /\ job.motion = m
      BY <2>7 DEF IngestFind, Turn
    <3>2. QED
      BY <3>1
  <2>8. QED
    BY <2>1, <2>2, <2>3, <2>4, <2>5, <2>6, <2>7 DEF PlainStep
<1>3. PICK job : Turn(h, job) /\ job.pc \in Plain /\ (job.pc = "ingest" => job.motion \in Motions)
  BY <1>2
<1>4. work'[h] = job /\ DOMAIN work' = Handlers /\ \A g \in Handlers \ {h} : work'[g] = work[g]
  BY <1>3, TurnOf DEF EventTypes
<1>5. JobFits(h)'
  BY <1>3, <1>4 DEF JobFits, Processing, Busy
<1>6. QED
  BY <1>1, <1>3, <1>4, <1>5

\* Steps that end with the first row in hand.
RestStep(h) ==
  \/ EmailUnverified(h) \/ PushUnavailable(h) \/ PushNobody(h)
  \/ SendRefused(h) \/ MarkSent(h) \/ MarkFails(h)

\* Such a step is of a turn, and writes nothing but rows.
LEMMA RestStepIs ==
  ASSUME NEW h \in Handlers, RestStep(h)
  PROVE  Busy(h) /\ Rest(h) /\ UNCHANGED <<pairing, gateway, events, alert, raced, dropped>>
  BY DEF RestStep, EmailUnverified, PushUnavailable, PushNobody, SendRefused, MarkSent,
     MarkFails, FirstIs, CanSend, At, Busy, story

\* An accepted message changes only what the turn is at.
LEMMA SendAcceptedIs ==
  ASSUME EventTypes, NEW h \in Handlers, SendAccepted(h)
  PROVE  /\ UNCHANGED <<pairing, gateway, events, alert, raced, dropped>>
         /\ At(h, "turn")
         /\ work'[h] = [pc |-> "accepted", batch |-> work[h].batch, seen |-> work[h].seen]
         /\ DOMAIN work' = Handlers /\ \A g \in Handlers \ {h} : work'[g] = work[g]
         /\ JobFits(h)'
<1> DEFINE job == [pc |-> "accepted", batch |-> work[h].batch, seen |-> work[h].seen]
<1>1. /\ UNCHANGED <<pairing, gateway, events, alert, raced, dropped>>
      /\ At(h, "turn") /\ work' = [work EXCEPT ![h].pc = "accepted"]
  BY DEF SendAccepted, CanSend, FirstIs, story
<1>2. IsTurn(work[h])
  BY <1>1 DEF EventTypes, JobFits, At, Busy
<1>3. Turn(h, job)
  BY <1>1, <1>2, AcceptedTurn DEF Turn, EventTypes
<1>4. work'[h] = job /\ DOMAIN work' = Handlers /\ \A g \in Handlers \ {h} : work'[g] = work[g]
  BY <1>3, TurnOf DEF EventTypes
<1>5. JobFits(h)'
  BY <1>2, <1>4 DEF JobFits, At, Processing, Busy, IsTurn
<1>6. QED
  BY <1>1, <1>4, <1>5

\* A turn takes rows that wait, and knows their attempts.
LEMMA TurnBeginIs ==
  ASSUME EventTypes, NEW h \in Handlers, TurnBegin(h)
  PROVE  /\ UNCHANGED <<pairing, gateway, events, alert, raced, dropped, notification, sent>>
         /\ work[h] = Idle /\ Busy(h)' /\ ~At(h, "accepted")'
         /\ InHand(h)' \subseteq Waiting /\ work'[h].seen = Seen(InHand(h)')
         /\ contended' = contended \cup (InHand(h)' \cap UNION {InHand(g) : g \in Handlers})
         /\ DOMAIN work' = Handlers /\ \A g \in Handlers \ {h} : work'[g] = work[g]
         /\ JobFits(h)'
<1>1. UNCHANGED <<pairing, gateway, events, alert, raced, dropped, notification, sent>>
  BY DEF TurnBegin, story
<1>2. PICK n \in EventIds : \E due \in [1 .. n -> Waiting] :
        /\ \A i, j \in 1 .. n : i < j => due[i] < due[j]
        /\ Begin(h, [pc |-> "turn", batch |-> due, seen |-> Seen(ToSet(due))])
        /\ contended' = contended \cup (ToSet(due) \cap UNION {InHand(g) : g \in Handlers})
  BY DEF TurnBegin
<1>3. PICK due \in [1 .. n -> Waiting] :
        /\ \A i, j \in 1 .. n : i < j => due[i] < due[j]
        /\ Begin(h, [pc |-> "turn", batch |-> due, seen |-> Seen(ToSet(due))])
        /\ contended' = contended \cup (ToSet(due) \cap UNION {InHand(g) : g \in Handlers})
  BY <1>2
<1> DEFINE job == [pc |-> "turn", batch |-> due, seen |-> Seen(ToSet(due))]
<1>4. work[h] = Idle /\ Turn(h, job)
  BY <1>3 DEF Begin, Turn
<1>5. work'[h] = job /\ DOMAIN work' = Handlers /\ \A g \in Handlers \ {h} : work'[g] = work[g]
  BY <1>4, TurnOf DEF EventTypes
<1>6. n \in Nat \ {0} /\ Waiting \subseteq EventIds
  BY DEF EventIds, Waiting
<1>7. due \in Seq(EventIds) /\ due # <<>> /\ DOMAIN due = 1 .. n /\ Ascending(due)
  <2>1. due \in [1 .. n -> EventIds]
    BY <1>6
  <2>2. due \in Seq(EventIds)
    BY <1>6, <2>1
  <2>3. due # <<>>
    BY <1>6, <2>1
  <2>4. QED
    BY <1>3, <2>2, <2>3 DEF Ascending
<1>8. JobFits(h)'
  BY <1>5, <1>7 DEF JobFits, At, Processing, Busy, IsTurn
<1>9. InHand(h)' = ToSet(due) /\ ToSet(due) \subseteq Waiting
  BY <1>5, <1>7 DEF InHand, ToSet
<1>10. QED
  BY <1>1, <1>3, <1>4, <1>5, <1>8, <1>9 DEF Busy, At

\* Steps that end the handler of an event.
ProcessStep(h) == ProcessRecovery(h) \/ ProcessAlert(h)

\* A handler that has ended does nothing.
LEMMA FinishIs ==
  ASSUME EventTypes, NEW h \in Handlers, Finish(h)
  PROVE  /\ work'[h] = Idle /\ JobFits(h)'
         /\ DOMAIN work' = Handlers /\ \A g \in Handlers \ {h} : work'[g] = work[g]
<1>1. work'[h] = Idle /\ DOMAIN work' = Handlers /\ \A g \in Handlers \ {h} : work'[g] = work[g]
  BY TurnOf DEF Finish, EventTypes
<1>2. QED
  BY <1>1 DEF JobFits, At, Processing, Busy, Idle

\* Processing ends the handler and takes no alert away.
LEMMA ProcessStepIs ==
  ASSUME EventTypes, NEW h \in Handlers, ProcessStep(h)
  PROVE  /\ Processing(h) /\ Finish(h) /\ UNCHANGED <<gateway, events, sent, contended, dropped>>
         /\ work[h].event \in DOMAIN events /\ work[h].event \in EventIds
         /\ alert' \in [EventIds -> Alerts]
         /\ \A e \in EventIds : alert'[e] = "NONE" => alert[e] = "NONE"
<1>1. Processing(h) /\ Finish(h) /\ UNCHANGED <<gateway, events, sent, contended, dropped>>
  BY DEF ProcessStep, ProcessRecovery, ProcessAlert, delivery
<1>2. work[h].event \in DOMAIN events /\ work[h].event \in EventIds
  <2>1. work[h].event \in DOMAIN events
    BY <1>1 DEF EventTypes, JobFits
  <2>2. QED
    BY <2>1 DEF EventTypes, EventIds
<1>3. CASE ProcessRecovery(h)
  <2>1. alert' = [e \in EventIds |-> IF Unresolved(e) /\ events[e] = "OFFLINE" THEN "RESOLVED"
                                     ELSE alert[e]]
    BY <1>3 DEF ProcessRecovery
  <2>2. alert' \in [EventIds -> Alerts] /\ \A e \in EventIds : alert'[e] = "NONE" => alert[e] = "NONE"
    BY <2>1 DEF EventTypes, Alerts
  <2>3. QED
    BY <1>1, <1>2, <2>2
<1>4. CASE ProcessAlert(h)
  <2>1. alert' = [alert EXCEPT ![work[h].event] = "OPEN"]
    BY <1>4 DEF ProcessAlert
  <2>2. alert' \in [EventIds -> Alerts] /\ \A e \in EventIds : alert'[e] = "NONE" => alert[e] = "NONE"
    BY <1>2, <2>1 DEF EventTypes, Alerts
  <2>3. QED
    BY <1>1, <1>2, <2>2
<1>5. QED
  BY <1>3, <1>4 DEF ProcessStep

\* A handler that ends early leaves the rows as they are, and an event without its
\* alert dropped.
LEMMA DieIs ==
  ASSUME EventTypes, NEW h \in Handlers, Die(h)
  PROVE  /\ Finish(h) /\ UNCHANGED <<gateway, events, alert, notification, sent>>
         /\ dropped \subseteq dropped'
         /\ Processing(h) => work[h].event \in dropped'
         /\ ~raced' => ~raced /\ ~Beating(h) /\ ~Reconciling(h)
         /\ contended' = IF At(h, "accepted") THEN contended \cup {First(h)} ELSE contended
  BY DEF Die, First

RaiseStep(h) == GatewayOnline(h) \/ Reconcile(h) \/ IngestNew(h)

\* An event is raised by a transition, a reconciliation or a motion.
LEMMA RaiseStepIs ==
  ASSUME EventTypes, GatewayFits, NEW h \in Handlers, RaiseStep(h)
  PROVE  \E type \in Types :
           /\ Raise(h, type) /\ ~Processing(h) /\ ~Busy(h)
           /\ UNCHANGED <<alert, dropped, raced, notification, sent, contended>>
           /\ \/ At(h, "transition") /\ type = "ONLINE" /\ gateway' = gateway
              \/ /\ At(h, "reconcile") /\ type = "OFFLINE"
                 /\ gateway.status = "ONLINE" /\ gateway'.status = "OFFLINE"
              \/ At(h, "ingest") /\ type \in Motions /\ gateway' = gateway
<1> USE DEF Types, Processing, Busy, At, delivery
<1>1. CASE GatewayOnline(h)
  BY <1>1 DEF GatewayOnline
<1>2. CASE Reconcile(h)
  <2>1. /\ Raise(h, "OFFLINE") /\ work[h].pc = "reconcile" /\ gateway.status = "ONLINE"
        /\ UNCHANGED <<alert, dropped, raced, notification, sent, contended>>
        /\ gateway' = [gateway EXCEPT !.status = "OFFLINE"]
    BY <1>2 DEF Reconcile, Stale
  <2>2. gateway'.status = "OFFLINE"
    BY <2>1 DEF GatewayFits
  <2>3. QED
    BY <2>1, <2>2
<1>3. CASE IngestNew(h)
  <2>1. work[h].motion \in Motions
    BY <1>3 DEF IngestNew, EventTypes, JobFits
  <2>2. QED
    BY <1>3, <2>1 DEF IngestNew
<1>4. QED
  BY <1>1, <1>2, <1>3 DEF RaiseStep

\* What is done without a handler.
OtherStep ==
  \/ GeneratePairing \/ Disable \/ Enable \/ RemoveGateway \/ RotateCredential \/ Lapse
  \/ Subscribe \/ Unsubscribe
  \/ \E e \in EventIds : Acknowledge(e)
HandlerStep(h) ==
  \/ PlainStep(h) \/ RaiseStep(h) \/ ProcessStep(h) \/ Die(h)
  \/ TurnBegin(h) \/ SendAccepted(h) \/ RestStep(h)

\* Every step is one of these.
LEMMA NextIs ==
  ASSUME Next
  PROVE  OtherStep \/ \E h \in Handlers : HandlerStep(h)
  BY DEF Next, OtherStep, HandlerStep, PlainStep, RaiseStep, ProcessStep, RestStep

\* Nothing of this raises an event, resolves an alert or makes a gateway ONLINE or OFFLINE.
LEMMA OtherStepIs ==
  ASSUME EventTypes, GatewayFits, OtherStep
  PROVE  /\ UNCHANGED <<events, work, raced, dropped, notification, sent, contended>>
         /\ gateway' = gateway \/ gateway'.status \in {"DISABLED", "UNKNOWN", "REMOVED"}
              \/ gateway'.status = gateway.status
         /\ alert' \in [EventIds -> Alerts] /\ \A e \in EventIds : Unresolved(e)' <=> Unresolved(e)
         /\ \A e \in EventIds : alert'[e] = "NONE" => alert[e] = "NONE"
<1> USE DEF others, delivery, story, Unresolved
<1>1. CASE GeneratePairing \/ Subscribe \/ Unsubscribe
  BY <1>1 DEF GeneratePairing, Subscribe, Unsubscribe, SetSubscribed, EventTypes
<1>2. CASE Lapse
  <2>1. /\ gateway' = [gateway EXCEPT !.recent = FALSE]
        /\ UNCHANGED <<events, work, raced, dropped, notification, sent, contended, alert>>
    BY <1>2 DEF Lapse
  <2>2. gateway'.status = gateway.status
    BY <2>1 DEF GatewayFits
  <2>3. QED
    BY <2>1, <2>2 DEF EventTypes
<1>3. CASE Disable \/ Enable \/ RemoveGateway \/ RotateCredential
  BY <1>3 DEF Disable, Enable, RemoveGateway, RotateCredential, Administer, EventTypes
<1>4. ASSUME NEW e \in EventIds, Acknowledge(e)
      PROVE  /\ UNCHANGED <<events, work, raced, dropped, notification, sent, contended>>
             /\ gateway' = gateway
             /\ alert' \in [EventIds -> Alerts] /\ \A f \in EventIds : Unresolved(f)' <=> Unresolved(f)
             /\ \A f \in EventIds : alert'[f] = "NONE" => alert[f] = "NONE"
  BY <1>4 DEF Acknowledge, EventTypes, Alerts
<1>5. QED
  BY <1>1, <1>2, <1>3, <1>4 DEF OtherStep

\* The gateway's row always has a status.
LEMMA GatewayStepKeeps ==
  ASSUME GatewayFits, Next
  PROVE  GatewayFits'
<1> USE DEF GatewayFits
<1>1. CASE OtherStep
  <2>1. CASE Disable \/ Enable \/ RemoveGateway \/ RotateCredential \/ Lapse
    BY <2>1 DEF Disable, Enable, RemoveGateway, RotateCredential, Administer, Lapse
  <2>2. CASE GeneratePairing \/ Subscribe \/ Unsubscribe \/ \E e \in EventIds : Acknowledge(e)
    <3>1. gateway' = gateway
      BY <2>2 DEF GeneratePairing, Subscribe, Unsubscribe, SetSubscribed, Acknowledge, story
    <3>2. QED
      BY <3>1
  <2>3. QED
    BY <1>1, <2>1, <2>2 DEF OtherStep
<1>2. ASSUME NEW h \in Handlers, PlainStep(h)
      PROVE  GatewayFits'
  <2>1. CASE Claim(h)
    BY <2>1 DEF Claim
  <2>2. CASE Heartbeat(h)
    BY <2>2 DEF Heartbeat
  <2>3. CASE ~Claim(h) /\ ~Heartbeat(h)
    <3>1. gateway' = gateway
      BY <1>2, <2>3 DEF PlainStep, ClaimRead, ClaimExpire, Authenticate, HeartbeatRead,
         ReconcileFind, ReconcileUnchanged, IngestFind, IngestDuplicate
    <3>2. QED
      BY <3>1
  <2>4. QED
    BY <2>1, <2>2, <2>3
<1>3. ASSUME NEW h \in Handlers, RaiseStep(h)
      PROVE  GatewayFits'
  <2>1. gateway' = gateway \/ gateway' = [gateway EXCEPT !.status = "OFFLINE"]
    BY <1>3 DEF RaiseStep, GatewayOnline, Reconcile, IngestNew
  <2>2. QED
    BY <2>1
<1>4. ASSUME NEW h \in Handlers,
             ProcessStep(h) \/ Die(h) \/ TurnBegin(h) \/ SendAccepted(h) \/ RestStep(h)
      PROVE  GatewayFits'
  <2>1. gateway' = gateway
    BY <1>4, RestStepIs DEF ProcessStep, ProcessRecovery, ProcessAlert, Die, TurnBegin,
       SendAccepted, story
  <2>2. QED
    BY <2>1
<1>5. QED
  BY <1>1, <1>2, <1>3, <1>4, NextIs DEF HandlerStep

\* Every step keeps the events with their handlers, and their alerts with them.
LEMMA EventStepKeeps ==
  ASSUME EventInv, GatewayFits, Next
  PROVE  EventInv'
<1>1. EventTypes
  BY DEF EventInv
<1>2. CASE OtherStep
  <2>1. EventTypes'
    BY <1>1, <1>2, OtherStepIs DEF EventTypes, JobFits, Processing, At, Busy
  <2>2. EventsAlerted'
    <3> SUFFICES ASSUME NEW e \in DOMAIN events, CallsForAlert(events[e]), alert'[e] = "NONE"
                 PROVE  e \in dropped \/ \E g \in Handlers : Processing(g) /\ work[g].event = e
      BY <1>1, <1>2, OtherStepIs DEF EventsAlerted, CallsForAlert, Processing, At
    <3>1. e \in EventIds
      BY <1>1 DEF EventTypes, EventIds
    <3>2. QED
      BY <1>1, <1>2, <3>1, OtherStepIs DEF EventInv, EventsAlerted
  <2>3. QED
    BY <2>1, <2>2 DEF EventInv
<1>3. ASSUME NEW h \in Handlers, PlainStep(h)
      PROVE  EventInv'
  <2>1. ~Processing(h)
    BY <1>1, <1>3, PlainStepIs DEF Processing, At, Plain
  <2>2. QED
    BY <1>1, <1>3, <2>1, PlainStepIs, HandlerKeeps DEF EventTypes
<1>4. ASSUME NEW h \in Handlers, RaiseStep(h)
      PROVE  EventInv'
  <2>1. PICK type \in Types : Raise(h, type) /\ ~Processing(h) /\ UNCHANGED <<alert, dropped>>
    BY <1>1, <1>4, RaiseStepIs
  <2>2. QED
    BY <2>1, RaiseKeeps
<1>5. ASSUME NEW h \in Handlers, ProcessStep(h)
      PROVE  EventInv'
  <2>1. CASE ProcessRecovery(h)
    <3>1. ~CallsForAlert(About(h))
      BY <2>1 DEF ProcessRecovery
    <3>2. QED
      BY <1>1, <1>5, <3>1, ProcessStepIs, FinishIs, HandlerKeeps
  <2>2. CASE ProcessAlert(h)
    <3>1. alert'[work[h].event] = "OPEN"
      BY <1>1, <1>5, <2>2, ProcessStepIs DEF ProcessAlert, EventTypes
    <3>2. QED
      BY <1>1, <1>5, <3>1, ProcessStepIs, FinishIs, HandlerKeeps
  <2>3. QED
    BY <1>5, <2>1, <2>2 DEF ProcessStep
<1>6. ASSUME NEW h \in Handlers, Die(h)
      PROVE  EventInv'
  <2>1. /\ events' = events /\ alert' = alert /\ dropped \subseteq dropped' /\ Finish(h)
        /\ Processing(h) => work[h].event \in dropped'
    BY <1>1, <1>6, DieIs
  <2>2. /\ DOMAIN work' = Handlers /\ \A g \in Handlers \ {h} : work'[g] = work[g]
        /\ JobFits(h)'
    BY <1>1, <2>1, FinishIs
  <2>3. alert' \in [EventIds -> Alerts] /\ \A e \in EventIds : alert'[e] = "NONE" => alert[e] = "NONE"
    BY <1>1, <2>1 DEF EventTypes
  <2>4. QED
    BY <2>1, <2>2, <2>3, HandlerKeeps
<1>7. ASSUME NEW h \in Handlers, TurnBegin(h)
      PROVE  EventInv'
  <2>1. ~Processing(h)
    BY <1>1, <1>7, TurnBeginIs DEF Processing, At, Idle
  <2>2. QED
    BY <1>1, <1>7, <2>1, TurnBeginIs, HandlerKeeps DEF EventTypes
<1>8. ASSUME NEW h \in Handlers, SendAccepted(h)
      PROVE  EventInv'
  <2>1. ~Processing(h)
    BY <1>1, <1>8, SendAcceptedIs DEF Processing, At
  <2>2. QED
    BY <1>1, <1>8, <2>1, SendAcceptedIs, HandlerKeeps DEF EventTypes
<1>9. ASSUME NEW h \in Handlers, RestStep(h)
      PROVE  EventInv'
  <2>1. ~Processing(h)
    BY <1>9, RestStepIs DEF Processing, At, Busy
  <2>2. QED
    BY <1>1, <1>9, <2>1, RestStepIs, RestOf, HandlerKeeps DEF EventTypes
<1>10. QED
  BY <1>2, <1>3, <1>4, <1>5, <1>6, <1>7, <1>8, <1>9, NextIs DEF HandlerStep
-----------------------------------------------------------------------------
(* EventAlerts: what is told of presence *)

\* Events are numbered by ids.
LEMMA EventsAreIds ==
  ASSUME EventTypes
  PROVE  DOMAIN events \subseteq EventIds
<1>1. events \in Seq(Types) /\ Len(events) <= MaxEvents
  BY DEF EventTypes
<1>2. DOMAIN events = 1 .. Len(events) /\ Len(events) \in Nat
  BY <1>1
<1>3. QED
  BY <1>1, <1>2, MaxEventsAssumption DEF EventIds

\* What Meet says of the two roles.
LEMMA Met ==
  ASSUME NEW h \in Handlers
  PROVE  /\ Meet(h, Reconciling) <=> \E g \in Handlers \ {h} : Reconciling(g)
         /\ Meet(h, Beating) <=> \E g \in Handlers \ {h} : Beating(g)
  BY DEF Meet

\* As long as nothing is raced, nobody of the other role was met.
LEMMA RacedIs ==
  ASSUME NEW h \in Handlers
  PROVE  /\ Authenticate(h) /\ ~raced' => ~raced /\ \A g \in Handlers \ {h} : ~Reconciling(g)
         /\ ReconcileFind(h) /\ ~raced' => ~raced /\ \A g \in Handlers \ {h} : ~Beating(g)
         /\ ProcessRecovery(h) /\ ~raced' =>
              \/ ~raced
              \/ gateway.status # "OFFLINE" /\ \A g \in Handlers \ {h} : ~Reconciling(g)
<1>1. Authenticate(h) /\ ~raced' => ~raced /\ \A g \in Handlers \ {h} : ~Reconciling(g)
  BY Zenon, Met DEF Authenticate
<1>2. ReconcileFind(h) /\ ~raced' => ~raced /\ \A g \in Handlers \ {h} : ~Beating(g)
  BY Zenon, Met DEF ReconcileFind
<1>3. ProcessRecovery(h) /\ ~raced' =>
        \/ ~raced
        \/ gateway.status # "OFFLINE" /\ \A g \in Handlers \ {h} : ~Reconciling(g)
  BY Zenon, Met DEF ProcessRecovery
<1>4. QED
  BY <1>1, <1>2, <1>3

\* A handler that plays no role, before or after, keeps what is told of presence.
LEMMA QuietKeeps ==
  ASSUME EventTypes, PresenceInv, NEW h \in Handlers, Extended,
         \A g \in Handlers \ {h} : work'[g] = work[g],
         ~Beating(h)', ~Reconciling(h)', ~Healing(h)', ~Telling(h)', ~Beaten(h)',
         AboutPresence' = AboutPresence,
         gateway'.status = gateway.status \/ gateway'.status \notin {"ONLINE", "OFFLINE"},
         ~raced' => ~raced /\ ~Healing(h) /\ ~Telling(h)
  PROVE  PresenceInv'
<1>1. SUFFICES ASSUME ~raced'
               PROVE  Apart' /\ OfflineIsTold' /\ OnlineHeals'
  BY DEF PresenceInv
<1>2. Apart /\ OfflineIsTold /\ OnlineHeals /\ ~Healing(h) /\ ~Telling(h)
  BY <1>1 DEF PresenceInv
<1>3. \A g \in Handlers \ {h} :
        /\ Beating(g)' <=> Beating(g)
        /\ Reconciling(g)' <=> Reconciling(g)
        /\ Healing(g)' <=> Healing(g)
        /\ Telling(g)' <=> Telling(g)
        /\ Beaten(g)' <=> Beaten(g)
  BY JobStays
<1>4. Apart'
  BY <1>2, <1>3 DEF Apart
<1>5. OfflineIsTold'
  BY <1>2, <1>3 DEF OfflineIsTold
<1>6. OnlineHeals'
  BY <1>2, <1>3 DEF OnlineHeals
<1>7. QED
  BY <1>4, <1>5, <1>6

\* The roles of the others are what they were.
LEMMA OthersKeepRoles ==
  ASSUME EventTypes, Extended, NEW h \in Handlers, \A g \in Handlers \ {h} : work'[g] = work[g]
  PROVE  \A g \in Handlers \ {h} :
           /\ Beating(g)' <=> Beating(g)
           /\ Reconciling(g)' <=> Reconciling(g)
           /\ Healing(g)' <=> Healing(g)
           /\ Telling(g)' <=> Telling(g)
           /\ Beaten(g)' <=> Beaten(g)
  BY JobStays

\* A heartbeat is let in while nothing is reconciled.
LEMMA AuthenticateKeeps ==
  ASSUME EventTypes, PresenceInv, NEW h \in Handlers, Authenticate(h)
  PROVE  PresenceInv'
<1> SUFFICES ASSUME ~raced'
             PROVE  Apart' /\ OfflineIsTold' /\ OnlineHeals'
  BY DEF PresenceInv
<1>1. /\ Apart /\ OfflineIsTold /\ OnlineHeals
      /\ \A g \in Handlers \ {h} : ~Reconciling(g)
  BY RacedIs DEF PresenceInv
<1>2. /\ UNCHANGED <<events, alert, gateway>> /\ work[h] = Idle
      /\ Turn(h, [pc |-> "authorized"])
  BY DEF Authenticate, Begin, Turn, others
<1>3. work'[h] = [pc |-> "authorized"] /\ \A g \in Handlers \ {h} : work'[g] = work[g]
  BY <1>2, TurnOf DEF EventTypes
<1>4. /\ Beating(h)' /\ ~Reconciling(h)' /\ ~Healing(h)' /\ ~Telling(h)' /\ ~Beaten(h)'
      /\ ~Beating(h) /\ ~Reconciling(h) /\ ~Healing(h) /\ ~Telling(h) /\ ~Beaten(h)
  BY <1>2, <1>3 DEF Beating, Reconciling, Healing, Telling, Beaten, Processing, At, Idle
<1>5. AboutPresence' = AboutPresence
  BY <1>2 DEF AboutPresence, Unresolved
<1>6. QED
  BY <1>1, <1>2, <1>3, <1>4, <1>5, OthersKeepRoles DEF Apart, OfflineIsTold, OnlineHeals, Extended

\* A heartbeat that found the gateway ONLINE leaves the alerts to what is told already.
LEMMA HeartbeatReadKeeps ==
  ASSUME EventTypes, PresenceInv, NEW h \in Handlers, HeartbeatRead(h)
  PROVE  PresenceInv'
<1> SUFFICES ASSUME ~raced'
             PROVE  Apart' /\ OfflineIsTold' /\ OnlineHeals'
  BY DEF PresenceInv
<1>1. UNCHANGED <<events, alert, gateway, raced>> /\ work[h].pc = "authorized"
  BY DEF HeartbeatRead, At, others
<1>2. Apart /\ OfflineIsTold /\ OnlineHeals
  BY <1>1 DEF PresenceInv
<1>3. /\ work'[h] = [pc |-> "beat", previous |-> gateway.status]
      /\ \A g \in Handlers \ {h} : work'[g] = work[g]
  BY TurnOf DEF HeartbeatRead, EventTypes
<1>4. /\ Beating(h)' /\ ~Reconciling(h)' /\ ~Healing(h)' /\ ~Telling(h)'
      /\ Beaten(h)' => gateway.status = "ONLINE"
      /\ Beating(h) /\ ~Reconciling(h) /\ ~Healing(h) /\ ~Telling(h) /\ ~Beaten(h)
  BY <1>1, <1>3 DEF Beating, Reconciling, Healing, Telling, Beaten, Processing, At
<1>5. AboutPresence' = AboutPresence
  BY <1>1 DEF AboutPresence, Unresolved
<1>6. QED
  BY <1>1, <1>2, <1>3, <1>4, <1>5, OthersKeepRoles DEF Apart, OfflineIsTold, OnlineHeals, Extended

\* A heartbeat that makes the gateway ONLINE goes on to tell it, unless it was.
LEMMA HeartbeatKeeps ==
  ASSUME EventTypes, PresenceInv, NEW h \in Handlers, Heartbeat(h)
  PROVE  PresenceInv'
<1> SUFFICES ASSUME ~raced'
             PROVE  Apart' /\ OfflineIsTold' /\ OnlineHeals'
  BY DEF PresenceInv
<1>1. UNCHANGED <<events, alert, raced>> /\ work[h].pc = "beat"
  BY DEF Heartbeat, At, others
<1>2. Apart /\ OfflineIsTold /\ OnlineHeals
  BY <1>1 DEF PresenceInv
<1>3. /\ work'[h] = IF work[h].previous = "ONLINE" THEN Idle ELSE [pc |-> "transition"]
      /\ \A g \in Handlers \ {h} : work'[g] = work[g]
  BY TurnOf DEF Heartbeat, Finish, EventTypes
<1>4. /\ Beating(h) /\ ~Reconciling(h) /\ ~Healing(h) /\ ~Telling(h)
      /\ Beaten(h) <=> work[h].previous = "ONLINE"
      /\ ~Reconciling(h)' /\ ~Telling(h)' /\ ~Beaten(h)' /\ (Healing(h)' <=> ~Beaten(h))
  BY <1>1, <1>3 DEF Beating, Reconciling, Healing, Telling, Beaten, Processing, At, Idle
<1>5. AboutPresence' = AboutPresence
  BY <1>1 DEF AboutPresence, Unresolved
<1>6. gateway'.status \in {"ONLINE", "REMOVED"}
  BY DEF Heartbeat
<1>7. \A g \in Handlers : ~Reconciling(g) /\ ~Telling(g)
  BY <1>2, <1>4 DEF Apart, Telling, Reconciling
<1>8. /\ \A g \in Handlers : ~Telling(g)' /\ ~Reconciling(g)'
      /\ \A g \in Handlers \ {h} : Healing(g)' <=> Healing(g)
  BY <1>1, <1>3, <1>4, <1>7, OthersKeepRoles DEF Extended
<1>9. Beaten(h) \/ Healing(h)'
  BY <1>4
<1>10. AboutPresence' = {} \/ \E g \in Handlers : Healing(g)'
  BY <1>2, <1>4, <1>5, <1>8, <1>9 DEF OnlineHeals
<1>11. QED
  BY <1>6, <1>8, <1>10 DEF Apart, OfflineIsTold, OnlineHeals

\* A reconciliation begins while no heartbeat is under way.
LEMMA ReconcileFindKeeps ==
  ASSUME EventTypes, PresenceInv, NEW h \in Handlers, ReconcileFind(h)
  PROVE  PresenceInv'
<1> SUFFICES ASSUME ~raced'
             PROVE  Apart' /\ OfflineIsTold' /\ OnlineHeals'
  BY DEF PresenceInv
<1>1. /\ Apart /\ OfflineIsTold /\ OnlineHeals
      /\ \A g \in Handlers \ {h} : ~Beating(g)
  BY RacedIs DEF PresenceInv
<1>2. /\ UNCHANGED <<events, alert, gateway>> /\ work[h] = Idle
      /\ Turn(h, [pc |-> "reconcile"])
  BY DEF ReconcileFind, Begin, Turn, others
<1>3. work'[h] = [pc |-> "reconcile"] /\ \A g \in Handlers \ {h} : work'[g] = work[g]
  BY <1>2, TurnOf DEF EventTypes
<1>4. /\ ~Beating(h)' /\ Reconciling(h)' /\ ~Healing(h)' /\ ~Telling(h)' /\ ~Beaten(h)'
      /\ ~Beating(h) /\ ~Reconciling(h) /\ ~Healing(h) /\ ~Telling(h) /\ ~Beaten(h)
  BY <1>2, <1>3 DEF Beating, Reconciling, Healing, Telling, Beaten, Processing, At, Idle
<1>5. AboutPresence' = AboutPresence
  BY <1>2 DEF AboutPresence, Unresolved
<1>6. QED
  BY <1>1, <1>2, <1>3, <1>4, <1>5, OthersKeepRoles DEF Apart, OfflineIsTold, OnlineHeals, Extended

\* An event about presence is raised by who will tell it.
LEMMA RaiseStepKeepsPresence ==
  ASSUME EventInv, GatewayFits, PresenceInv, NEW h \in Handlers, RaiseStep(h)
  PROVE  PresenceInv'
<1> USE DEF EventInv
<1>1. PICK type \in Types :
        /\ Raise(h, type) /\ ~Processing(h) /\ UNCHANGED <<alert, dropped, raced>>
        /\ \/ At(h, "transition") /\ type = "ONLINE" /\ gateway' = gateway
           \/ /\ At(h, "reconcile") /\ type = "OFFLINE"
              /\ gateway.status = "ONLINE" /\ gateway'.status = "OFFLINE"
           \/ At(h, "ingest") /\ type \in Motions /\ gateway' = gateway
  BY RaiseStepIs
<1>2. /\ EventInv' /\ Extended
      /\ \A g \in Handlers \ {h} : work'[g] = work[g]
      /\ Processing(h)' /\ About(h)' = type /\ work'[h].event = Len(events) + 1
      /\ DOMAIN events' = DOMAIN events \cup {Len(events) + 1}
      /\ Len(events) + 1 \in EventIds \ DOMAIN events
  BY <1>1, RaiseKeeps
<1>3. \A g \in Handlers \ {h} :
        /\ Beating(g)' <=> Beating(g)
        /\ Reconciling(g)' <=> Reconciling(g)
        /\ Healing(g)' <=> Healing(g)
        /\ Telling(g)' <=> Telling(g)
        /\ Beaten(g)' <=> Beaten(g)
  BY <1>2, OthersKeepRoles
<1>4. type # "OFFLINE" => AboutPresence' = AboutPresence
  <2>1. events'[Len(events) + 1] = type /\ \A e \in DOMAIN events : events'[e] = events[e]
    BY <1>2, EventsStay DEF About
  <2>2. \A e \in EventIds : Unresolved(e)' <=> Unresolved(e)
    BY <1>1 DEF Unresolved
  <2>3. DOMAIN events' \subseteq EventIds
    BY <1>2, EventsAreIds
  <2>4. QED
    BY <1>2, <2>1, <2>2, <2>3 DEF AboutPresence
<1>5. CASE ~raced
  <2>1. Apart /\ OfflineIsTold /\ OnlineHeals
    BY <1>5 DEF PresenceInv
  <2>2. ~Telling(h) /\ ~Beaten(h)' /\ (Telling(h)' <=> type = "OFFLINE") /\ ~Beaten(h)
    BY <1>1, <1>2 DEF Telling, Beaten, Processing, At
  <2>3. CASE At(h, "transition") /\ type = "ONLINE" /\ gateway' = gateway
    <3>1. Healing(h) /\ Healing(h)' /\ Beating(h) /\ Beating(h)' /\ ~Reconciling(h) /\ ~Reconciling(h)'
      BY <1>2, <2>3 DEF Healing, Beating, Reconciling, Processing, At
    <3>2. QED
      BY <1>3, <1>4, <2>1, <2>2, <2>3, <3>1 DEF PresenceInv, Apart, OfflineIsTold, OnlineHeals
  <2>4. CASE At(h, "reconcile") /\ type = "OFFLINE" /\ gateway'.status = "OFFLINE"
    <3>1. Reconciling(h) /\ Reconciling(h)' /\ ~Beating(h) /\ ~Beating(h)' /\ Telling(h)'
      BY <1>1, <1>2, <2>4 DEF Telling, Beating, Reconciling, Processing, At
    <3>2. \A g \in Handlers : ~Beating(g)'
      BY <1>3, <2>1, <3>1 DEF Apart
    <3>3. \A g \in Handlers : ~Healing(g)' /\ ~Beaten(g)'
      BY <3>2 DEF Healing, Beaten, Beating, Processing, At
    <3>4. QED
      BY <2>4, <3>1, <3>2, <3>3 DEF PresenceInv, Apart, OfflineIsTold, OnlineHeals
  <2>5. CASE At(h, "ingest") /\ type \in Motions /\ gateway' = gateway
    <3>1. type \notin {"ONLINE", "OFFLINE"}
      BY <2>5, MotionsAssumption
    <3>2. /\ ~Healing(h) /\ ~Healing(h)' /\ ~Beating(h) /\ ~Beating(h)'
          /\ ~Reconciling(h) /\ ~Reconciling(h)'
      BY <1>1, <1>2, <2>5, <3>1 DEF Healing, Beating, Reconciling, Processing, At
    <3>3. QED
      BY <1>3, <1>4, <2>1, <2>2, <2>5, <3>1, <3>2 DEF PresenceInv, Apart, OfflineIsTold, OnlineHeals
  <2>6. QED
    BY <1>1, <2>3, <2>4, <2>5
<1>6. QED
  BY <1>1, <1>5 DEF PresenceInv

\* A transition to ONLINE that is told in full makes up for everything.
LEMMA RecoveryKeepsPresence ==
  ASSUME EventTypes, PresenceInv, NEW h \in Handlers, ProcessRecovery(h)
  PROVE  PresenceInv'
<1> SUFFICES ASSUME ~raced'
             PROVE  Apart' /\ OfflineIsTold' /\ OnlineHeals'
  BY DEF PresenceInv
<1>1. /\ Processing(h) /\ Finish(h) /\ UNCHANGED <<gateway, events>>
      /\ alert' = [e \in EventIds |-> IF Unresolved(e) /\ events[e] = "OFFLINE" THEN "RESOLVED"
                                       ELSE alert[e]]
      /\ About(h) = "ONLINE"
  BY DEF ProcessRecovery, CallsForAlert, delivery
<1>2. work'[h] = Idle /\ \A g \in Handlers \ {h} : work'[g] = work[g]
  BY <1>1, FinishIs
<1>3. /\ Beating(h) /\ Healing(h)
      /\ ~Beating(h)' /\ ~Reconciling(h)' /\ ~Healing(h)' /\ ~Telling(h)' /\ ~Beaten(h)'
  BY <1>1, <1>2 DEF Beating, Reconciling, Healing, Telling, Beaten, Processing, At, Idle
<1>4. \A g \in Handlers : ~Reconciling(g) \/ g = h
  <2>1. CASE ~raced
    BY <1>3, <2>1 DEF PresenceInv, Apart
  <2>2. CASE raced
    BY <2>2, RacedIs
  <2>3. QED
    BY <2>1, <2>2
<1>5. gateway.status # "OFFLINE"
  <2>1. CASE ~raced
    BY <1>3, <2>1 DEF PresenceInv, OfflineIsTold
  <2>2. CASE raced
    BY <2>2, RacedIs
  <2>3. QED
    BY <2>1, <2>2
<1>6. \A g \in Handlers : ~Reconciling(g)' /\ ~Telling(g)'
  <2>1. \A g \in Handlers : ~Reconciling(g)'
    BY <1>1, <1>2, <1>3, <1>4, OthersKeepRoles DEF Extended
  <2>2. QED
    BY <2>1 DEF Reconciling, Telling
<1>7. AboutPresence' = {}
  <2> SUFFICES ASSUME NEW e \in DOMAIN events, events[e] = "OFFLINE", Unresolved(e)'
               PROVE  FALSE
    BY <1>1 DEF AboutPresence
  <2>1. e \in EventIds
    BY EventsAreIds
  <2>2. QED
    BY <1>1, <2>1 DEF Unresolved
<1>8. QED
  BY <1>1, <1>5, <1>6, <1>7 DEF Apart, OfflineIsTold, OnlineHeals

\* The alert of an OFFLINE event is there when its handler ends.
LEMMA AlertKeepsPresence ==
  ASSUME EventTypes, PresenceInv, NEW h \in Handlers, ProcessAlert(h)
  PROVE  PresenceInv'
<1> DEFINE e == work[h].event
<1>1. /\ Processing(h) /\ Finish(h) /\ UNCHANGED <<gateway, events, raced>>
      /\ alert' = [alert EXCEPT ![e] = "OPEN"] /\ About(h) # "ONLINE"
  BY DEF ProcessAlert, CallsForAlert
<1>2. work'[h] = Idle /\ \A g \in Handlers \ {h} : work'[g] = work[g]
  BY <1>1, FinishIs
<1>3. e \in DOMAIN events /\ e \in EventIds /\ DOMAIN events \subseteq EventIds
  BY <1>1, EventsAreIds DEF EventTypes, JobFits
<1>4. /\ ~Beating(h)' /\ ~Reconciling(h)' /\ ~Healing(h)' /\ ~Telling(h)' /\ ~Beaten(h)'
      /\ ~Healing(h) /\ (Telling(h) <=> events[e] = "OFFLINE")
      /\ (Reconciling(h) <=> events[e] = "OFFLINE")
  BY <1>1, <1>2 DEF Beating, Reconciling, Healing, Telling, Beaten, Processing, About, At, Idle
<1>5. CASE events[e] # "OFFLINE"
  <2>1. AboutPresence' = AboutPresence
    BY <1>1, <1>3, <1>5 DEF AboutPresence, Unresolved, EventTypes
  <2>2. QED
    BY <1>1, <1>2, <1>4, <1>5, <2>1, QuietKeeps DEF Extended
<1>6. CASE events[e] = "OFFLINE"
  <2> SUFFICES ASSUME ~raced'
               PROVE  Apart' /\ OfflineIsTold' /\ OnlineHeals'
    BY DEF PresenceInv
  <2>1. Apart /\ OfflineIsTold /\ OnlineHeals
    BY <1>1 DEF PresenceInv
  <2>2. \A g \in Handlers \ {h} :
          /\ Beating(g)' <=> Beating(g)
          /\ Reconciling(g)' <=> Reconciling(g)
          /\ Healing(g)' <=> Healing(g)
          /\ Telling(g)' <=> Telling(g)
          /\ Beaten(g)' <=> Beaten(g)
    BY <1>1, <1>2, OthersKeepRoles DEF Extended
  <2>3. Apart'
    BY <1>4, <2>1, <2>2 DEF Apart
  <2>4. AboutPresence' # {}
    <3>1. alert'[e] = "OPEN"
      BY <1>1, <1>3 DEF EventTypes
    <3>2. QED
      BY <1>1, <1>3, <1>6, <3>1 DEF AboutPresence, Unresolved
  <2>5. OfflineIsTold'
    BY <1>1, <1>4, <2>1, <2>2, <2>4 DEF OfflineIsTold
  <2>6. gateway.status # "ONLINE" /\ \A g \in Handlers : ~Beaten(g)
    BY <1>4, <1>6, <2>1 DEF OnlineHeals
  <2>7. OnlineHeals'
    BY <1>1, <1>4, <2>2, <2>6 DEF OnlineHeals
  <2>8. QED
    BY <2>3, <2>5, <2>7
<1>7. QED
  BY <1>5, <1>6

\* Steps that have nothing to do with presence, or come to nothing.
QuietStep(h) ==
  \/ ClaimRead(h) \/ ClaimExpire(h) \/ Claim(h) \/ ReconcileUnchanged(h)
  \/ (\E m \in Motions : IngestFind(h, m)) \/ IngestDuplicate(h)

\* They may make the gateway UNKNOWN at most.
LEMMA QuietStepIs ==
  ASSUME EventTypes, NEW h \in Handlers, QuietStep(h)
  PROVE  /\ UNCHANGED <<events, alert>> /\ raced' = raced
         /\ gateway' = gateway \/ gateway'.status = "UNKNOWN"
         /\ work[h].pc \in {"idle", "claim", "expire", "reconcile", "ingest"}
         /\ work'[h].pc \in {"idle", "claim", "expire", "ingest"}
         /\ \A g \in Handlers \ {h} : work'[g] = work[g]
<1>1. /\ UNCHANGED <<events, alert>> /\ raced' = raced
      /\ gateway' = gateway \/ gateway'.status = "UNKNOWN"
      /\ work[h].pc \in {"idle", "claim", "expire", "reconcile", "ingest"}
  BY DEF QuietStep, ClaimRead, ClaimExpire, Claim, ReconcileUnchanged, IngestFind, IngestDuplicate, At,
     Begin, Idle, others
<1>2. /\ work'[h].pc \in {"idle", "claim", "expire", "ingest"}
      /\ \A g \in Handlers \ {h} : work'[g] = work[g]
  <2>1. CASE ClaimRead(h)
    BY <2>1 DEF ClaimRead, Begin, EventTypes
  <2>2. CASE ClaimExpire(h) \/ Claim(h) \/ ReconcileUnchanged(h) \/ IngestDuplicate(h)
    <3>1. Finish(h)
      BY <2>2 DEF ClaimExpire, Claim, ReconcileUnchanged, IngestDuplicate
    <3>2. QED
      BY <3>1, FinishIs DEF Idle
  <2>3. CASE \E m \in Motions : IngestFind(h, m)
    BY <2>3 DEF IngestFind, Begin, EventTypes
  <2>4. QED
    BY <2>1, <2>2, <2>3 DEF QuietStep
<1>3. QED
  BY <1>1, <1>2

\* They keep what is told of presence.
LEMMA QuietStepKeepsPresence ==
  ASSUME EventTypes, PresenceInv, NEW h \in Handlers, QuietStep(h)
  PROVE  PresenceInv'
<1>1. /\ UNCHANGED <<events, alert>> /\ raced' = raced
      /\ gateway' = gateway \/ gateway'.status = "UNKNOWN"
      /\ work[h].pc \in {"idle", "claim", "expire", "reconcile", "ingest"}
      /\ work'[h].pc \in {"idle", "claim", "expire", "ingest"}
      /\ \A g \in Handlers \ {h} : work'[g] = work[g]
  BY QuietStepIs
<1>2. /\ ~Beating(h)' /\ ~Reconciling(h)' /\ ~Healing(h)' /\ ~Telling(h)' /\ ~Beaten(h)'
      /\ ~Healing(h) /\ ~Telling(h)
  BY <1>1 DEF Beating, Reconciling, Healing, Telling, Beaten, Processing, At
<1>3. AboutPresence' = AboutPresence
  BY <1>1 DEF AboutPresence, Unresolved
<1>4. gateway'.status = gateway.status \/ gateway'.status \notin {"ONLINE", "OFFLINE"}
  BY <1>1
<1>5. QED
  BY <1>1, <1>2, <1>3, <1>4, QuietKeeps DEF Extended

\* Steps of a turn.
TurnStep(h) == TurnBegin(h) \/ SendAccepted(h) \/ RestStep(h)

\* It has nothing to do with the gateway and its alerts.
LEMMA TurnStepIs ==
  ASSUME EventTypes, NEW h \in Handlers, TurnStep(h)
  PROVE  /\ UNCHANGED <<gateway, events, alert, raced>>
         /\ work[h].pc \in {"idle", "turn", "accepted"}
         /\ work'[h].pc \in {"idle", "turn", "accepted"}
         /\ \A g \in Handlers \ {h} : work'[g] = work[g]
<1>1. UNCHANGED <<gateway, events, alert, raced>>
  BY TurnBeginIs, SendAcceptedIs, RestStepIs DEF TurnStep
<1>2. /\ work[h].pc \in {"idle", "turn", "accepted"} /\ work'[h].pc \in {"idle", "turn", "accepted"}
      /\ \A g \in Handlers \ {h} : work'[g] = work[g]
  <2>1. CASE TurnBegin(h)
    BY <2>1, TurnBeginIs DEF Idle, Busy
  <2>2. CASE SendAccepted(h)
    <3>1. /\ At(h, "turn")
          /\ work'[h] = [pc |-> "accepted", batch |-> work[h].batch, seen |-> work[h].seen]
          /\ \A g \in Handlers \ {h} : work'[g] = work[g]
      BY <2>2, SendAcceptedIs
    <3>2. work'[h].pc = "accepted"
      BY <3>1
    <3>3. QED
      BY <3>1, <3>2 DEF At
  <2>3. CASE RestStep(h)
    <3>1. Busy(h) /\ Rest(h)
      BY <2>3, RestStepIs
    <3>2. /\ work'[h] = Idle \/ work'[h].pc = "turn"
          /\ \A g \in Handlers \ {h} : work'[g] = work[g]
      BY <3>1, RestOf
    <3>3. QED
      BY <3>1, <3>2 DEF Idle, Busy
  <2>4. QED
    BY <2>1, <2>2, <2>3 DEF TurnStep
<1>3. QED
  BY <1>1, <1>2

\* It keeps what is told of presence.
LEMMA TurnStepKeepsPresence ==
  ASSUME EventTypes, PresenceInv, NEW h \in Handlers, TurnStep(h)
  PROVE  PresenceInv'
<1>1. /\ UNCHANGED <<gateway, events, alert, raced>>
      /\ work[h].pc \in {"idle", "turn", "accepted"}
      /\ work'[h].pc \in {"idle", "turn", "accepted"}
      /\ \A g \in Handlers \ {h} : work'[g] = work[g]
  BY TurnStepIs
<1>2. /\ ~Beating(h)' /\ ~Reconciling(h)' /\ ~Healing(h)' /\ ~Telling(h)' /\ ~Beaten(h)'
      /\ ~Healing(h) /\ ~Telling(h)
  BY <1>1 DEF Beating, Reconciling, Healing, Telling, Beaten, Processing, At
<1>3. AboutPresence' = AboutPresence
  BY <1>1 DEF AboutPresence, Unresolved
<1>4. QED
  BY <1>1, <1>2, <1>3, QuietKeeps DEF Extended

\* Whoever ends early in a role counts as raced.
LEMMA DieKeepsPresence ==
  ASSUME EventTypes, PresenceInv, NEW h \in Handlers, Die(h)
  PROVE  PresenceInv'
<1>1. UNCHANGED <<gateway, events, alert>> /\ (~raced' => ~raced /\ ~Beating(h) /\ ~Reconciling(h))
  BY DieIs
<1>2. work'[h] = Idle /\ \A g \in Handlers \ {h} : work'[g] = work[g]
  BY DieIs, FinishIs
<1>3. ~Beating(h)' /\ ~Reconciling(h)' /\ ~Healing(h)' /\ ~Telling(h)' /\ ~Beaten(h)'
  BY <1>2 DEF Beating, Reconciling, Healing, Telling, Beaten, Processing, At, Idle
<1>4. /\ ~Beating(h) => ~Healing(h)
      /\ ~Reconciling(h) => ~Telling(h)
  BY DEF Beating, Reconciling, Healing, Telling, Processing, At
<1>5. AboutPresence' = AboutPresence
  BY <1>1 DEF AboutPresence, Unresolved
<1>6. QED
  BY <1>1, <1>2, <1>3, <1>4, <1>5, QuietKeeps DEF Extended

\* What the owner and the user do keeps what is told of presence.
LEMMA OtherStepKeepsPresence ==
  ASSUME EventTypes, GatewayFits, PresenceInv, OtherStep
  PROVE  PresenceInv'
<1>1. /\ UNCHANGED <<events, work, raced>>
      /\ gateway'.status = gateway.status \/ gateway'.status \notin {"ONLINE", "OFFLINE"}
      /\ \A e \in EventIds : Unresolved(e)' <=> Unresolved(e)
  BY OtherStepIs
<1>2. AboutPresence' = AboutPresence
  BY <1>1, EventsAreIds DEF AboutPresence
<1>3. \A g \in Handlers :
        /\ Beating(g)' <=> Beating(g)
        /\ Reconciling(g)' <=> Reconciling(g)
        /\ Healing(g)' <=> Healing(g)
        /\ Telling(g)' <=> Telling(g)
        /\ Beaten(g)' <=> Beaten(g)
  BY <1>1 DEF Beating, Reconciling, Healing, Telling, Beaten, Processing, About, At
<1>4. QED
  BY <1>1, <1>2, <1>3 DEF PresenceInv, Apart, OfflineIsTold, OnlineHeals

\* Every step keeps PresenceInv.
LEMMA PresenceStepKeeps ==
  ASSUME EventInv, GatewayFits, PresenceInv, Next
  PROVE  PresenceInv'
<1>1. EventTypes
  BY DEF EventInv
<1>2. ASSUME NEW h \in Handlers, PlainStep(h)
      PROVE  PresenceInv'
  BY <1>1, <1>2, AuthenticateKeeps, HeartbeatReadKeeps, HeartbeatKeeps, ReconcileFindKeeps,
     QuietStepKeepsPresence DEF PlainStep, QuietStep
<1>3. ASSUME NEW h \in Handlers, ProcessStep(h)
      PROVE  PresenceInv'
  BY <1>1, <1>3, RecoveryKeepsPresence, AlertKeepsPresence DEF ProcessStep
<1>4. QED
  BY <1>1, <1>2, <1>3, NextIs, OtherStepKeepsPresence, RaiseStepKeepsPresence, DieKeepsPresence,
     TurnStepKeepsPresence DEF HandlerStep, TurnStep

\* Once nobody is about it, the alerts tell the presence.
LEMMA PresenceSuffices == EventTypes /\ PresenceInv => AlertTellsPresence
<1>1. (\A h \in Handlers : ~Beating(h) /\ ~Reconciling(h)) =>
        \A h \in Handlers : ~Healing(h) /\ ~Telling(h)
  BY DEF Beating, Reconciling, Healing, Telling, At
<1>2. QED
  BY <1>1 DEF PresenceInv, OfflineIsTold, OnlineHeals, AlertTellsPresence, AboutPresence
-----------------------------------------------------------------------------
(* EventAlerts: delivery *)

\* What a handler has in hand, and accepted, is told by its job.
LEMMA HandsStay ==
  ASSUME NEW g \in Handlers, work'[g] = work[g]
  PROVE  /\ InHand(g)' = InHand(g)
         /\ \A e : (Holds(g, e)' <=> Holds(g, e)) /\ (Accepted(g, e)' <=> Accepted(g, e))
         /\ Processing(g)' <=> Processing(g)
         /\ Busy(g)' <=> Busy(g)
  BY DEF InHand, Holds, Accepted, First, Processing, Busy, At

\* What is processed is there.
LEMMA ProcessedEventIs ==
  ASSUME EventTypes, NEW h \in Handlers, Processing(h)
  PROVE  work[h].event \in DOMAIN events /\ work[h].event \in EventIds
<1>1. work[h].event \in DOMAIN events
  BY DEF EventTypes, JobFits
<1>2. QED
  BY <1>1, MaxEventsAssumption DEF EventTypes, EventIds

\* Steps that take no row in hand and write none.
LEMMA IdleHandsKeep ==
  ASSUME DeliveryInv, NEW h \in Handlers, \A g \in Handlers \ {h} : work'[g] = work[g],
         ~Busy(h)', UNCHANGED <<notification, sent>>, contended \subseteq contended',
         \A e \in EventIds \ contended' : Holds(h, e) => ~Accepted(h, e),
         DOMAIN events \subseteq DOMAIN events',
         Processing(h)' => /\ notification[work'[h].event] = NoRow
                           /\ \A g \in Handlers \ {h} :
                                Processing(g) => work[g].event # work'[h].event
  PROVE  DeliveryInv'
<1> USE DEF DeliveryInv
<1>1. \A e : ~Holds(h, e)'
  BY DEF Holds, InHand, Busy
<1>2. RowTypes'
  BY HandsStay DEF RowTypes
<1>3. RowsKept'
  <2>1. ProcessedOnce'
    BY HandsStay DEF RowsKept, ProcessedOnce
  <2>2. \A g \in Handlers : Processing(g)' => notification'[work'[g].event] = NoRow
    BY HandsStay DEF RowsKept
  <2>3. \A e \in EventIds : notification'[e] = NoRow => sent'[e] = 0 /\ \A g \in Handlers : ~Holds(g, e)'
    BY <1>1, HandsStay DEF RowsKept
  <2>4. \A e \in EventIds : e \notin DOMAIN events' => notification'[e] = NoRow
    BY DEF RowsKept
  <2>5. QED
    BY <2>1, <2>2, <2>3, <2>4 DEF RowsKept
<1>4. ASSUME NEW e \in EventIds \ contended'
      PROVE  HeldOnce(e)' /\ HeldIsKnown(e)' /\ RestIsTold(e)'
  <2>1. HeldOnce(e) /\ HeldIsKnown(e) /\ RestIsTold(e)
    BY <1>4
  <2>2. HeldOnce(e)' /\ HeldIsKnown(e)'
    BY <1>1, <2>1, HandsStay DEF HeldOnce, HeldIsKnown
  <2>3. CASE Holds(h, e)
    <3>1. /\ notification[e].status \in {"PENDING", "FAILED"}
          /\ notification[e].attempts = work[h].seen[e] /\ work[h].seen[e] < MaxAttempts
          /\ sent[e] = 0
      BY <1>4, <2>1, <2>3 DEF HeldIsKnown
    <3>2. work[h].seen[e] \in Nat
      BY <2>3 DEF RowTypes, Holds, InHand, Busy
    <3>3. QED
      BY <2>2, <3>1, <3>2 DEF RestIsTold
  <2>4. CASE ~Holds(h, e)
    <3>1. (\A g \in Handlers : ~Holds(g, e)') => \A g \in Handlers : ~Holds(g, e)
      BY <2>4, HandsStay
    <3>2. QED
      BY <2>1, <2>2, <3>1 DEF RestIsTold
  <2>5. QED
    BY <2>3, <2>4
<1>5. QED
  BY <1>2, <1>3, <1>4

\* Requests and workers other than turns keep the delivery.
LEMMA IdleStepsKeep ==
  ASSUME EventInv, GatewayFits, DeliveryInv, NEW h \in Handlers,
         PlainStep(h) \/ RaiseStep(h) \/ Die(h) \/ ProcessRecovery(h)
  PROVE  DeliveryInv'
<1> USE DEF EventInv
<1>1. CASE PlainStep(h)
  <2>1. /\ UNCHANGED <<events, notification, sent, contended>>
        /\ \A g \in Handlers \ {h} : work'[g] = work[g]
        /\ work[h].pc \in Plain /\ work'[h].pc \in Plain
    BY <1>1, PlainStepIs
  <2>2. ~Busy(h)' /\ ~Processing(h)' /\ \A e : ~Holds(h, e)
    BY <2>1 DEF Plain, Busy, Processing, At, Holds, InHand
  <2>3. QED
    BY <2>1, <2>2, IdleHandsKeep
<1>2. CASE RaiseStep(h)
  <2>1. PICK type \in Types : /\ Raise(h, type) /\ ~Processing(h) /\ ~Busy(h)
                              /\ UNCHANGED <<alert, dropped, notification, sent, contended>>
    BY <1>2, RaiseStepIs
  <2>2. /\ \A g \in Handlers \ {h} : work'[g] = work[g]
        /\ Processing(h)' /\ work'[h].event = Len(events) + 1
        /\ DOMAIN events' = DOMAIN events \cup {Len(events) + 1}
        /\ Len(events) + 1 \in EventIds \ DOMAIN events
    BY <2>1, RaiseKeeps
  <2>3. ~Busy(h)' /\ \A e : ~Holds(h, e)
    BY <2>1, <2>2 DEF Busy, Processing, At, Holds, InHand
  <2>4. notification[work'[h].event] = NoRow
    BY <2>2 DEF DeliveryInv, RowsKept
  <2>5. \A g \in Handlers \ {h} : Processing(g) => work[g].event # work'[h].event
    BY <2>2 DEF EventTypes, JobFits
  <2>6. QED
    BY <2>1, <2>2, <2>3, <2>4, <2>5, IdleHandsKeep
<1>3. CASE Die(h)
  <2>1. /\ Finish(h) /\ UNCHANGED <<events, notification, sent>>
        /\ contended' = IF At(h, "accepted") THEN contended \cup {First(h)} ELSE contended
    BY <1>3, DieIs
  <2>2. work'[h] = Idle /\ \A g \in Handlers \ {h} : work'[g] = work[g]
    BY <2>1, FinishIs
  <2>3. ~Busy(h)' /\ ~Processing(h)'
    BY <2>2 DEF Busy, Processing, At, Idle
  <2>4. contended \subseteq contended' /\ \A e \in EventIds \ contended' : ~Accepted(h, e)
    BY <2>1 DEF Accepted
  <2>5. QED
    BY <2>1, <2>2, <2>3, <2>4, IdleHandsKeep
<1>4. CASE ProcessRecovery(h)
  <2>1. /\ Processing(h) /\ Finish(h) /\ UNCHANGED <<events, notification, sent, contended>>
    BY <1>4 DEF ProcessRecovery, delivery
  <2>2. work'[h] = Idle /\ \A g \in Handlers \ {h} : work'[g] = work[g]
    BY <2>1, FinishIs
  <2>3. ~Busy(h)' /\ ~Processing(h)' /\ \A e : ~Holds(h, e)
    BY <2>1, <2>2 DEF Busy, Processing, At, Idle, Holds, InHand
  <2>4. QED
    BY <2>1, <2>2, <2>3, IdleHandsKeep
<1>5. QED
  BY <1>1, <1>2, <1>3, <1>4

\* What the owner and the user do keeps the delivery.
LEMMA OtherStepKeepsDelivery ==
  ASSUME EventTypes, GatewayFits, DeliveryInv, OtherStep
  PROVE  DeliveryInv'
<1>1. UNCHANGED <<events, work, notification, sent, contended>>
  BY OtherStepIs
<1>2. \A g \in Handlers : work'[g] = work[g]
  BY <1>1
<1>3. RowTypes' /\ RowsKept'
  BY <1>1, <1>2, HandsStay DEF DeliveryInv, RowTypes, RowsKept, ProcessedOnce
<1>4. \A e \in EventIds \ contended' : HeldOnce(e)' /\ HeldIsKnown(e)' /\ RestIsTold(e)'
  BY <1>1, <1>2, HandsStay DEF DeliveryInv, HeldOnce, HeldIsKnown, RestIsTold
<1>5. QED
  BY <1>3, <1>4 DEF DeliveryInv

\* An alert gets its row when nobody can have it in hand.
LEMMA AlertKeepsDelivery ==
  ASSUME EventTypes, DeliveryInv, NEW h \in Handlers, ProcessAlert(h)
  PROVE  DeliveryInv'
<1> USE DEF DeliveryInv
<1> DEFINE e == work[h].event
           row == IF Channel[e] = "NONE" THEN NoRow ELSE NewRow(Channel[e])
<1>1. /\ Processing(h) /\ Finish(h) /\ UNCHANGED <<events, sent, contended>>
      /\ notification' = [notification EXCEPT ![e] = row]
  BY DEF ProcessAlert
<1>2. work'[h] = Idle /\ \A g \in Handlers \ {h} : work'[g] = work[g]
  BY <1>1, FinishIs
<1>3. e \in DOMAIN events /\ e \in EventIds
  BY ProcessStepIs DEF ProcessStep
<1>4. notification[e] = NoRow /\ sent[e] = 0 /\ \A g \in Handlers : ~Holds(g, e)
  BY <1>1, <1>3 DEF RowsKept
<1>5. row = NoRow \/ (row \in Row /\ row.status = "PENDING" /\ row.attempts = 0)
  <2>1. Channel[e] \in {"EMAIL", "PUSH", "NONE"}
    BY <1>3, ChannelAssumption DEF EventIds
  <2>2. QED
    BY <2>1 DEF Row, NewRow
<1>6. notification'[e] = row /\ \A f \in EventIds \ {e} : notification'[f] = notification[f]
  BY <1>1, <1>3 DEF RowTypes
<1>7. ~Busy(h)' /\ ~Processing(h)' /\ (\A f : ~Holds(h, f)) /\ \A f : ~Holds(h, f)'
  BY <1>1, <1>2 DEF Busy, Processing, At, Idle, Holds, InHand
<1>8. \A g \in Handlers : \A f : Holds(g, f)' <=> Holds(g, f)
  BY <1>2, <1>7, HandsStay
<1>9. RowTypes'
  <2>1. notification' \in [EventIds -> Row \cup {NoRow}]
    BY <1>1, <1>3, <1>5 DEF RowTypes
  <2>2. QED
    BY <1>1, <1>2, <1>7, <2>1, HandsStay DEF RowTypes
<1>10. RowsKept'
  <2>1. ProcessedOnce'
    BY <1>2, <1>7, HandsStay DEF RowsKept, ProcessedOnce
  <2>2. ASSUME NEW g \in Handlers, Processing(g)'
        PROVE  notification'[work'[g].event] = NoRow
    <3>1. g # h /\ Processing(g) /\ work'[g] = work[g]
      BY <1>2, <1>7, <2>2, HandsStay
    <3>2. work[g].event # e /\ work[g].event \in EventIds
      BY <1>1, <3>1, ProcessedEventIs DEF RowsKept, ProcessedOnce
    <3>3. QED
      BY <1>6, <3>1, <3>2 DEF RowsKept
  <2>3. \A f \in EventIds : notification'[f] = NoRow => sent'[f] = 0 /\ \A g \in Handlers : ~Holds(g, f)'
    BY <1>1, <1>4, <1>6, <1>8 DEF RowsKept
  <2>4. \A f \in EventIds : f \notin DOMAIN events' => notification'[f] = NoRow
    BY <1>1, <1>3, <1>6 DEF RowsKept
  <2>5. QED
    BY <2>1, <2>2, <2>3, <2>4 DEF RowsKept
<1>11. ASSUME NEW f \in EventIds \ contended'
       PROVE  HeldOnce(f)' /\ HeldIsKnown(f)' /\ RestIsTold(f)'
  <2>1. HeldOnce(f) /\ HeldIsKnown(f) /\ RestIsTold(f)
    BY <1>1, <1>11
  <2>2. HeldOnce(f)'
    BY <1>8, <2>1 DEF HeldOnce
  <2>3. CASE f = e
    BY <1>1, <1>4, <1>5, <1>6, <1>8, <2>2, <2>3 DEF HeldIsKnown, RestIsTold, NoRow
  <2>4. CASE f # e
    <3>1. HeldIsKnown(f)'
      BY <1>1, <1>2, <1>6, <1>7, <2>1, <2>4, HandsStay DEF HeldIsKnown
    <3>2. RestIsTold(f)'
      BY <1>1, <1>6, <1>8, <2>1, <2>4 DEF RestIsTold
    <3>3. QED
      BY <2>2, <3>1, <3>2
  <2>5. QED
    BY <2>3, <2>4
<1>12. QED
  BY <1>9, <1>10, <1>11

\* A turn that takes a row another has in hand makes it contended, and no other.
LEMMA TurnBeginKeepsDelivery ==
  ASSUME EventTypes, DeliveryInv, NEW h \in Handlers, TurnBegin(h)
  PROVE  DeliveryInv'
<1> USE DEF DeliveryInv
<1>1. /\ UNCHANGED <<events, notification, sent>>
      /\ work[h] = Idle /\ Busy(h)' /\ ~At(h, "accepted")'
      /\ InHand(h)' \subseteq Waiting /\ work'[h].seen = Seen(InHand(h)')
      /\ contended' = contended \cup (InHand(h)' \cap UNION {InHand(g) : g \in Handlers})
      /\ \A g \in Handlers \ {h} : work'[g] = work[g]
  BY TurnBeginIs
<1>2. \A e \in InHand(h)' :
        /\ e \in EventIds /\ notification[e].status \in {"PENDING", "FAILED"}
        /\ notification[e] \in Row /\ notification[e].attempts < MaxAttempts
        /\ work'[h].seen[e] = notification[e].attempts
  <2> SUFFICES ASSUME NEW e \in InHand(h)'
               PROVE  /\ e \in EventIds /\ notification[e].status \in {"PENDING", "FAILED"}
                      /\ notification[e] \in Row /\ notification[e].attempts < MaxAttempts
                      /\ work'[h].seen[e] = notification[e].attempts
    OBVIOUS
  <2>1. /\ e \in EventIds /\ notification[e].status \in {"PENDING", "FAILED"}
        /\ notification[e].attempts < MaxAttempts
    BY <1>1 DEF Waiting
  <2>2. notification[e] \in Row
    BY <2>1 DEF RowTypes, NoRow
  <2>3. work'[h].seen[e] = notification[e].attempts
    BY <1>1, <2>1 DEF Seen
  <2>4. QED
    BY <2>1, <2>2, <2>3
<1>3. ~Busy(h) /\ ~Processing(h) /\ ~Processing(h)' /\ \A e : ~Holds(h, e) /\ ~Accepted(h, e)'
  BY <1>1 DEF Busy, Processing, At, Idle, Holds, InHand, Accepted
<1>4. \A e \in EventIds \ contended' : Holds(h, e)' => \A g \in Handlers : ~Holds(g, e)
  BY <1>1 DEF Holds
<1>5. contended \subseteq contended'
  BY <1>1
<1>6. RowTypes'
  <2>1. work'[h].seen \in [EventIds -> Nat]
    <3>1. work'[h].seen = [e \in EventIds |-> IF e \in InHand(h)' THEN notification[e].attempts ELSE 0]
      BY <1>1 DEF Seen
    <3>2. \A e \in InHand(h)' : notification[e].attempts \in Nat
      BY <1>2 DEF Row
    <3>3. QED
      BY <3>1, <3>2
  <2>2. \A g \in Handlers : Busy(g)' => work'[g].seen \in [EventIds -> Nat]
    BY <1>1, <2>1, HandsStay DEF RowTypes
  <2>3. QED
    BY <1>1, <2>2 DEF RowTypes
<1>7. RowsKept'
  <2>1. ProcessedOnce'
    BY <1>1, <1>3, HandsStay DEF RowsKept, ProcessedOnce
  <2>2. \A g \in Handlers : Processing(g)' => notification'[work'[g].event] = NoRow
    BY <1>1, <1>3, HandsStay DEF RowsKept
  <2>3. \A e \in EventIds : notification'[e] = NoRow => sent'[e] = 0 /\ \A g \in Handlers : ~Holds(g, e)'
    <3>1. \A e \in EventIds : notification[e] = NoRow => ~Holds(h, e)'
      BY <1>2 DEF NoRow, Holds
    <3>2. QED
      BY <1>1, <3>1, HandsStay DEF RowsKept
  <2>4. \A e \in EventIds : e \notin DOMAIN events' => notification'[e] = NoRow
    BY <1>1 DEF RowsKept
  <2>5. QED
    BY <2>1, <2>2, <2>3, <2>4 DEF RowsKept
<1>8. ASSUME NEW e \in EventIds \ contended'
      PROVE  HeldOnce(e)' /\ HeldIsKnown(e)' /\ RestIsTold(e)'
  <2>1. HeldOnce(e) /\ HeldIsKnown(e) /\ RestIsTold(e)
    BY <1>5, <1>8
  <2>2. HeldOnce(e)'
    BY <1>1, <1>4, <2>1, HandsStay DEF HeldOnce
  <2>3. Holds(h, e)' => sent[e] = 0
    <3> SUFFICES ASSUME Holds(h, e)'
                 PROVE  sent[e] = 0
      OBVIOUS
    <3>1. notification[e].status \in {"PENDING", "FAILED"} /\ \A g \in Handlers : ~Holds(g, e)
      BY <1>2, <1>4, <1>8 DEF Holds
    <3>2. sent[e] <= 1 /\ sent[e] # 1 /\ sent[e] \in Nat
      BY <2>1, <3>1 DEF RestIsTold, RowTypes
    <3>3. QED
      BY <3>2
  <2>4. HeldIsKnown(e)'
    <3>1. ASSUME Holds(h, e)'
          PROVE  /\ notification[e].status \in {"PENDING", "FAILED"}
                 /\ notification[e].attempts = work'[h].seen[e] /\ work'[h].seen[e] < MaxAttempts
                 /\ sent[e] = 0 /\ ~Accepted(h, e)'
      BY <1>2, <1>3, <2>3, <3>1 DEF Holds
    <3>2. \A g \in Handlers \ {h} : Holds(g, e)' =>
            /\ notification[e].status \in {"PENDING", "FAILED"}
            /\ notification[e].attempts = work'[g].seen[e] /\ work'[g].seen[e] < MaxAttempts
            /\ sent[e] = IF Accepted(g, e)' THEN 1 ELSE 0
      BY <1>1, <2>1, HandsStay DEF HeldIsKnown
    <3>3. QED
      BY <1>1, <3>1, <3>2 DEF HeldIsKnown
  <2>5. RestIsTold(e)'
    <3>1. (\A g \in Handlers : ~Holds(g, e)') => \A g \in Handlers : ~Holds(g, e)
      BY <1>1, <1>3, HandsStay
    <3>2. QED
      BY <1>1, <2>1, <3>1 DEF RestIsTold
  <2>6. QED
    BY <2>2, <2>4, <2>5
<1>9. QED
  BY <1>6, <1>7, <1>8

\* The first row in hand is there.
LEMMA FirstIsHeld ==
  ASSUME EventTypes, DeliveryInv, NEW h \in Handlers, Busy(h)
  PROVE  /\ Holds(h, First(h)) /\ First(h) \in EventIds
         /\ notification[First(h)] \in Row /\ work[h].seen[First(h)] \in Nat
<1>1. IsTurn(work[h])
  BY DEF EventTypes, JobFits
<1>2. work[h].batch \in Seq(EventIds) /\ work[h].batch \in Seq(Nat) /\ work[h].batch # <<>>
        /\ Ascending(work[h].batch)
  <2>1. work[h].batch \in Seq(EventIds) /\ work[h].batch # <<>> /\ Ascending(work[h].batch)
    BY <1>1 DEF IsTurn
  <2>2. work[h].batch \in Seq(Nat)
    BY <2>1 DEF EventIds
  <2>3. QED
    BY <2>1, <2>2
<1>3. First(h) \in EventIds /\ First(h) \in ToSet(work[h].batch)
  BY <1>2, HeadTailProperties, HeadIsApart DEF First
<1>4. Holds(h, First(h))
  BY <1>3 DEF Holds, InHand, Busy
<1>5. notification[First(h)] # NoRow
  BY <1>3, <1>4 DEF DeliveryInv, RowsKept
<1>6. QED
  BY <1>3, <1>4, <1>5 DEF DeliveryInv, RowTypes

\* A message is accepted once for the row in hand.
LEMMA SendAcceptedKeepsDelivery ==
  ASSUME EventTypes, DeliveryInv, NEW h \in Handlers, SendAccepted(h)
  PROVE  DeliveryInv'
<1> USE DEF DeliveryInv
<1> DEFINE e == First(h)
<1>1. /\ UNCHANGED <<events, notification, contended>> /\ At(h, "turn")
      /\ work'[h] = [pc |-> "accepted", batch |-> work[h].batch, seen |-> work[h].seen]
      /\ \A g \in Handlers \ {h} : work'[g] = work[g]
      /\ sent' = [sent EXCEPT ![e] = IF @ = 2 THEN @ ELSE @ + 1]
  BY SendAcceptedIs DEF SendAccepted
<1>2. /\ Holds(h, e) /\ e \in EventIds /\ notification[e] \in Row
      /\ \A f : ~Accepted(h, f)
  BY <1>1, FirstIsHeld DEF At, Busy, Accepted
<1>3. /\ Busy(h) /\ Busy(h)' /\ ~Processing(h) /\ ~Processing(h)'
      /\ InHand(h)' = InHand(h) /\ \A f : Accepted(h, f)' <=> f = e
      /\ work'[h].seen = work[h].seen
  BY <1>1 DEF Busy, Processing, At, InHand, Accepted, First
<1>4. \A g \in Handlers : \A f : Holds(g, f)' <=> Holds(g, f)
  BY <1>1, <1>3, HandsStay DEF Holds
<1>5. /\ \A f \in EventIds \ {e} : sent'[f] = sent[f]
      /\ sent'[e] = IF sent[e] = 2 THEN 2 ELSE sent[e] + 1
      /\ sent' \in [EventIds -> 0 .. 2]
  BY <1>1, <1>2 DEF RowTypes
<1>6. RowTypes'
  <2>1. \A g \in Handlers : Busy(g)' => work'[g].seen \in [EventIds -> Nat]
    BY <1>1, <1>3, HandsStay DEF RowTypes
  <2>2. QED
    BY <1>1, <1>5, <2>1 DEF RowTypes
<1>7. RowsKept'
  <2>1. ProcessedOnce'
    BY <1>1, <1>3, HandsStay DEF RowsKept, ProcessedOnce
  <2>2. \A g \in Handlers : Processing(g)' => notification'[work'[g].event] = NoRow
    BY <1>1, <1>3, HandsStay DEF RowsKept
  <2>3. \A f \in EventIds : notification'[f] = NoRow => sent'[f] = 0 /\ \A g \in Handlers : ~Holds(g, f)'
    BY <1>1, <1>2, <1>4, <1>5 DEF RowsKept
  <2>4. \A f \in EventIds : f \notin DOMAIN events' => notification'[f] = NoRow
    BY <1>1 DEF RowsKept
  <2>5. QED
    BY <2>1, <2>2, <2>3, <2>4 DEF RowsKept
<1>8. ASSUME NEW f \in EventIds \ contended'
      PROVE  HeldOnce(f)' /\ HeldIsKnown(f)' /\ RestIsTold(f)'
  <2>1. HeldOnce(f) /\ HeldIsKnown(f) /\ RestIsTold(f)
    BY <1>1, <1>8
  <2>2. HeldOnce(f)'
    BY <1>4, <2>1 DEF HeldOnce
  <2>3. HeldIsKnown(f)'
    <3> SUFFICES ASSUME NEW g \in Handlers, Holds(g, f)
                 PROVE  /\ notification'[f].status \in {"PENDING", "FAILED"}
                        /\ notification'[f].attempts = work'[g].seen[f]
                        /\ work'[g].seen[f] < MaxAttempts
                        /\ sent'[f] = IF Accepted(g, f)' THEN 1 ELSE 0
      BY <1>4 DEF HeldIsKnown
    <3>1. /\ notification[f].status \in {"PENDING", "FAILED"}
          /\ notification[f].attempts = work[g].seen[f] /\ work[g].seen[f] < MaxAttempts
          /\ sent[f] = IF Accepted(g, f) THEN 1 ELSE 0
      BY <2>1 DEF HeldIsKnown
    <3>2. CASE g = h
      BY <1>1, <1>2, <1>3, <1>5, <3>1, <3>2
    <3>3. CASE g # h
      <4>1. f # e
        BY <1>2, <2>1, <3>3 DEF HeldOnce
      <4>2. QED
        BY <1>1, <1>5, <3>1, <3>3, <4>1, HandsStay
    <3>4. QED
      BY <3>2, <3>3
  <2>4. RestIsTold(f)'
    BY <1>1, <1>2, <1>4, <1>5, <2>1 DEF RestIsTold
  <2>5. QED
    BY <2>2, <2>3, <2>4
<1>9. QED
  BY <1>6, <1>7, <1>8

\* A turn is done with a row: what it has written is what became of it.
Becomes(h, row) == notification' = [notification EXCEPT ![First(h)] = row]
ToldBy(h, row) ==
  /\ sent[First(h)] = 1 <=> row.status = "SENT"
  /\ row.attempts <= MaxAttempts

\* A turn that leaves its first row as it was told keeps the delivery.
LEMMA RestKeepsDelivery ==
  ASSUME EventTypes, DeliveryInv, NEW h \in Handlers, Busy(h), Rest(h),
         events' = events, sent' = sent, contended \subseteq contended',
         NEW row \in Row, Becomes(h, row),
         First(h) \notin contended' => ToldBy(h, row)
  PROVE  DeliveryInv'
<1> USE DEF DeliveryInv, Becomes, ToldBy
<1> DEFINE e == First(h)
<1>1. /\ \A g \in Handlers \ {h} : work'[g] = work[g]
      /\ work'[h] = Idle \/ (work'[h].pc = "turn" /\ work'[h].seen = work[h].seen)
      /\ InHand(h)' = InHand(h) \ {e}
  BY RestOf
<1>2. Holds(h, e) /\ e \in EventIds /\ notification[e] \in Row
  BY FirstIsHeld
<1>3. /\ ~Processing(h) /\ ~Processing(h)'
      /\ Busy(h)' => work'[h].seen = work[h].seen
      /\ \A f : (Holds(h, f)' <=> Holds(h, f) /\ f # e) /\ ~Accepted(h, f)'
      /\ \A f : Accepted(h, f) => f = e
  BY <1>1 DEF Busy, Processing, At, Idle, Holds, Accepted
<1>4. notification'[e] = row /\ \A f \in EventIds \ {e} : notification'[f] = notification[f]
  BY <1>2 DEF RowTypes
<1>5. RowTypes'
  <2>1. notification' \in [EventIds -> Row \cup {NoRow}]
    BY <1>2 DEF RowTypes
  <2>2. \A g \in Handlers : Busy(g)' => work'[g].seen \in [EventIds -> Nat]
    BY <1>1, <1>3, HandsStay DEF RowTypes
  <2>3. QED
    BY <2>1, <2>2 DEF RowTypes
<1>6. notification[e] # NoRow /\ row # NoRow
  <2>1. row.status # "NONE" /\ NoRow.status = "NONE"
    BY DEF Row, NoRow
  <2>2. QED
    BY <1>2, <2>1 DEF RowsKept
<1>7. RowsKept'
  <2>1. ProcessedOnce'
    BY <1>1, <1>3, HandsStay DEF RowsKept, ProcessedOnce
  <2>2. ASSUME NEW g \in Handlers, Processing(g)'
        PROVE  notification'[work'[g].event] = NoRow
    <3>1. g # h /\ Processing(g) /\ work'[g] = work[g]
      BY <1>1, <1>3, <2>2, HandsStay
    <3>2. notification[work[g].event] = NoRow /\ work[g].event \in EventIds
      BY <3>1, ProcessedEventIs DEF RowsKept
    <3>3. QED
      BY <1>4, <1>6, <3>1, <3>2
  <2>3. \A f \in EventIds : notification'[f] = NoRow => sent'[f] = 0 /\ \A g \in Handlers : ~Holds(g, f)'
    BY <1>1, <1>3, <1>4, <1>6, HandsStay DEF RowsKept
  <2>4. \A f \in EventIds : f \notin DOMAIN events' => notification'[f] = NoRow
    BY <1>4, <1>6 DEF RowsKept
  <2>5. QED
    BY <2>1, <2>2, <2>3, <2>4 DEF RowsKept
<1>8. ASSUME NEW f \in EventIds \ contended'
      PROVE  HeldOnce(f)' /\ HeldIsKnown(f)' /\ RestIsTold(f)'
  <2>1. HeldOnce(f) /\ HeldIsKnown(f) /\ RestIsTold(f)
    BY <1>8
  <2>2. HeldOnce(f)'
    BY <1>1, <1>3, <2>1, HandsStay DEF HeldOnce
  <2>3. CASE f = e
    <3>1. \A g \in Handlers : ~Holds(g, f)'
      BY <1>1, <1>2, <1>3, <2>1, <2>3, HandsStay DEF HeldOnce
    <3>2. sent[e] <= 1
      <4>1. sent[e] \in {0, 1}
        BY <1>2, <2>1, <2>3 DEF HeldIsKnown
      <4>2. QED
        BY <4>1
    <3>3. QED
      BY <1>4, <1>8, <2>2, <2>3, <3>1, <3>2 DEF HeldIsKnown, RestIsTold
  <2>4. CASE f # e
    <3>1. notification'[f] = notification[f]
      BY <1>4, <1>8, <2>4
    <3>2. \A g \in Handlers : Holds(g, f)' <=> Holds(g, f)
      BY <1>1, <1>3, <2>4, HandsStay
    <3>3. \A g \in Handlers : (Accepted(g, f)' <=> Accepted(g, f))
      BY <1>1, <1>3, <2>4, HandsStay
    <3>4. \A g \in Handlers : Holds(g, f) => work'[g].seen = work[g].seen
      <4>1. Holds(h, f)' => Busy(h)'
        BY DEF Holds, InHand, Busy
      <4>2. QED
        BY <1>1, <1>3, <2>4, <4>1
    <3>5. HeldIsKnown(f)'
      BY <2>1, <3>1, <3>2, <3>3, <3>4 DEF HeldIsKnown
    <3>6. RestIsTold(f)'
      BY <2>1, <3>1, <3>2 DEF RestIsTold
    <3>7. QED
      BY <2>2, <3>5, <3>6
  <2>5. QED
    BY <2>3, <2>4
<1>9. QED
  BY <1>5, <1>7, <1>8

\* However a turn ends with its first row, the row tells what became of it.
LEMMA RestStepKeepsDelivery ==
  ASSUME EventTypes, DeliveryInv, NEW h \in Handlers, RestStep(h)
  PROVE  DeliveryInv'
<1> DEFINE e == First(h)
           row(status, attempts) == [channel |-> notification[e].channel, status |-> status,
                                     attempts |-> attempts]
<1>1. Busy(h) /\ Rest(h) /\ events' = events
  BY RestStepIs
<1>2. /\ Holds(h, e) /\ e \in EventIds /\ notification[e] \in Row /\ work[h].seen[e] \in Nat
  BY <1>1, FirstIsHeld
<1>3. e \notin contended =>
        /\ notification[e].status \in {"PENDING", "FAILED"}
        /\ notification[e].attempts = work[h].seen[e] /\ work[h].seen[e] < MaxAttempts
        /\ sent[e] = IF At(h, "accepted") THEN 1 ELSE 0
  BY <1>2 DEF DeliveryInv, HeldIsKnown, Accepted
<1>4. /\ \A status \in {"SENT", "FAILED"}, attempts \in Nat :
           row(status, attempts) \in Row /\ row(status, attempts).status = status
             /\ row(status, attempts).attempts = attempts
      /\ notification[e].attempts \in Nat /\ notification[e].channel \in {"EMAIL", "PUSH"}
  BY <1>2 DEF Row
<1>5. \A status, attempts : Write(h, status, attempts) =>
        Becomes(h, row(status, attempts))
  BY DEF Write, Becomes
<1> HIDE DEF row
<1>6. CASE EmailUnverified(h)
  <2>1. /\ Becomes(h, row("FAILED", MaxAttempts))
        /\ sent' = sent /\ contended' = contended /\ ~At(h, "accepted")
    BY <1>5, <1>6 DEF EmailUnverified, FirstIs, At
  <2>2. row("FAILED", MaxAttempts) \in Row
    BY <1>4
  <2>3. e \notin contended => ToldBy(h, row("FAILED", MaxAttempts))
    BY <1>3, <1>4, <2>1 DEF ToldBy
  <2>4. QED
    BY <1>1, <2>1, <2>2, <2>3, RestKeepsDelivery
<1>7. CASE PushUnavailable(h)
  <2>1. Becomes(h, notification[e])
    BY <1>2, <1>7 DEF PushUnavailable, delivery, DeliveryInv, RowTypes, Becomes
  <2>2. sent' = sent /\ contended' = contended /\ ~At(h, "accepted")
    BY <1>7 DEF PushUnavailable, FirstIs, At, delivery
  <2>3. e \notin contended => ToldBy(h, notification[e])
    BY <1>2, <1>3, <2>2 DEF ToldBy
  <2>4. QED
    BY <1>1, <1>2, <2>1, <2>2, <2>3, RestKeepsDelivery
<1>8. CASE PushNobody(h)
  <2>1. /\ Becomes(h, row("FAILED", notification[e].attempts))
        /\ sent' = sent /\ contended' = contended /\ ~At(h, "accepted")
    BY <1>5, <1>8 DEF PushNobody, FirstIs, At
  <2>2. row("FAILED", notification[e].attempts) \in Row
    BY <1>4
  <2>3. e \notin contended => ToldBy(h, row("FAILED", notification[e].attempts))
    BY <1>2, <1>3, <1>4, <2>1 DEF ToldBy
  <2>4. QED
    BY <1>1, <2>1, <2>2, <2>3, RestKeepsDelivery
<1>9. CASE SendRefused(h)
  <2>1. /\ Becomes(h, row("FAILED", work[h].seen[e] + 1))
        /\ sent' = sent /\ contended' = contended /\ ~At(h, "accepted")
    BY <1>5, <1>9 DEF SendRefused, CanSend, FirstIs, At, Failed
  <2>2. row("FAILED", work[h].seen[e] + 1) \in Row
    BY <1>2, <1>4
  <2>3. e \notin contended => ToldBy(h, row("FAILED", work[h].seen[e] + 1))
    BY <1>2, <1>3, <1>4, <2>1 DEF ToldBy
  <2>4. QED
    BY <1>1, <2>1, <2>2, <2>3, RestKeepsDelivery
<1>10. CASE MarkSent(h)
  <2> DEFINE attempts == 1 + IF notification[e].channel = "EMAIL"
                             THEN notification[e].attempts ELSE work[h].seen[e]
  <2>1. /\ Becomes(h, row("SENT", attempts))
        /\ sent' = sent /\ contended' = contended /\ At(h, "accepted")
    BY <1>5, <1>10 DEF MarkSent
  <2>2. attempts \in Nat /\ (e \notin contended => attempts <= MaxAttempts)
    BY <1>2, <1>3, <1>4
  <2> HIDE DEF attempts
  <2>3. row("SENT", attempts) \in Row
    BY <1>4, <2>2
  <2>4. e \notin contended => ToldBy(h, row("SENT", attempts))
    BY <1>3, <1>4, <2>1, <2>2 DEF ToldBy
  <2>5. QED
    BY <1>1, <2>1, <2>3, <2>4, RestKeepsDelivery
<1>11. CASE MarkFails(h)
  <2>1. /\ Becomes(h, row("FAILED", work[h].seen[e] + 1))
        /\ sent' = sent /\ contended' = contended \cup {e}
    BY <1>5, <1>11 DEF MarkFails, Failed
  <2>2. row("FAILED", work[h].seen[e] + 1) \in Row
    BY <1>2, <1>4
  <2>3. QED
    BY <1>1, <2>1, <2>2, RestKeepsDelivery
<1>12. QED
  BY <1>6, <1>7, <1>8, <1>9, <1>10, <1>11 DEF RestStep

\* Every step keeps DeliveryInv.
LEMMA DeliveryStepKeeps ==
  ASSUME EventInv, GatewayFits, DeliveryInv, Next
  PROVE  DeliveryInv'
<1>1. EventTypes
  BY DEF EventInv
<1>2. QED
  BY <1>1, NextIs, OtherStepKeepsDelivery, IdleStepsKeep, AlertKeepsDelivery,
     TurnBeginKeepsDelivery, SendAcceptedKeepsDelivery, RestStepKeepsDelivery
     DEF HandlerStep, ProcessStep

\* What is known of rows in hand and of the others is what RowTellsDelivery says.
LEMMA DeliverySuffices ==
  ASSUME EventTypes, DeliveryInv
  PROVE  RowTellsDelivery
<1> SUFFICES ASSUME NEW e \in EventIds \ contended, notification[e] # NoRow
             PROVE  /\ sent[e] <= 1 /\ notification[e].attempts <= MaxAttempts
                    /\ (\A h \in Handlers : ~(At(h, "accepted") /\ First(h) = e))
                         => (sent[e] = 1 <=> notification[e].status = "SENT")
  BY DEF RowTellsDelivery
<1>1. HeldIsKnown(e) /\ RestIsTold(e)
  BY DEF DeliveryInv
<1>2. CASE \E h \in Handlers : Holds(h, e)
  <2>1. PICK h \in Handlers : Holds(h, e)
    BY <1>2
  <2>2. /\ notification[e].status \in {"PENDING", "FAILED"}
        /\ notification[e].attempts = work[h].seen[e] /\ work[h].seen[e] < MaxAttempts
        /\ sent[e] = IF Accepted(h, e) THEN 1 ELSE 0
    BY <1>1, <2>1 DEF HeldIsKnown
  <2>3. work[h].seen[e] \in Nat
    BY <2>1 DEF DeliveryInv, RowTypes, Holds, InHand, Busy
  <2>4. sent[e] <= 1 /\ notification[e].attempts <= MaxAttempts
    BY <2>2, <2>3
  <2>5. QED
    BY <2>2, <2>4 DEF Accepted
<1>3. CASE \A h \in Handlers : ~Holds(h, e)
  BY <1>1, <1>3 DEF RestIsTold
<1>4. QED
  BY <1>2, <1>3
-----------------------------------------------------------------------------
(* MotionRisk *)

Minutes == 0 .. Day - 1
\* Local minutes are minutes of a day.
LEMMA MinutesOfDay == \A at \in Moments : Risk!Minute(at) \in Minutes
<1> TAKE at \in Moments
<1>1. at \in Int
  BY MomentsAssumption
<1>2. QED
  BY <1>1, DayAssumption DEF Risk!Minute, Minutes

\* InLocalInterval is right within a day: but for the minutes before the end of an interval
\* that is not over by midnight, it holds of exactly those from the start to the end.  An
\* interval of the day before holds of none of the others.
LEMMA IntervalIsSpan ==
  ASSUME NEW span, span[1] \in Minutes, span[2] \in Minutes, NEW minute \in Minutes,
         ~(Risk!Overnight(span) /\ minute < span[2])
  PROVE  /\ Risk!InLocalInterval(minute, span[1], span[2]) <=> Risk!Within(span, minute)
         /\ ~Risk!Within(span, minute + Day)
  BY DayAssumption DEF Minutes, Risk!Overnight, Risk!Within, Risk!InLocalInterval

Schedule == [mode : {"ALWAYS", "SCHEDULED"}, intervals : SUBSET Intervals,
             exceptions : [Risk!Dates -> Openings \cup {"NONE"}]]
Moved == [at : Moments, long : BOOLEAN]
Stages == {"none", "process", "schedules", "relations", "recent", "zones", "create", "over"}
RiskTypes ==
  /\ schedules \in [Risk!Scopes -> Schedule \cup {Risk!NoSchedule}]
  /\ moved \in [Reports -> Moved \cup {Risk!NoMotion}]
  /\ analysis \in [Reports -> [pc : Stages, factors : SUBSET Risk!Factors]]
  /\ DOMAIN reading = Reports

\* What intervals and exceptions make of a minute, be they of one schedule or not.
Closed(intervals, exceptions, at) ==
  Risk!OutOfHours([intervals |-> intervals, exceptions |-> exceptions], at)
\* As long as no schedule is saved, who reads one reads the applicable one: and when the
\* exceptions have been read, what they make of the intervals was true then.
ReadsCurrent(r) ==
  LET g == reading[r] IN
  /\ g.schedule \in Schedule /\ g.scope = Risk!Scope
  /\ Risk!Applicable.mode = "SCHEDULED" /\ ~Risk!SmallHours(r)
  /\ "intervals" \notin g.todo => g.schedule.intervals = Risk!Applicable.intervals
  /\ "exceptions" \notin g.todo =>
       IF Closed(Risk!Applicable.intervals, g.schedule.exceptions, moved[r].at)
       THEN "OUT_OF_HOURS" \in possible[r] ELSE "OUT_OF_HOURS" \notin certain[r]

Persistent(r) == Cardinality(Risk!Recent(moved[r].at)) >= Repeats
\* What was looked up and is true all the time was found.
Found(r, factor, stages) ==
  analysis[r].pc \in stages /\ factor \in certain[r] => factor \in analysis[r].factors
Judged(r) ==
  /\ moved[r] \in Moved
  /\ Risk!Truth(r) \subseteq possible[r] /\ certain[r] \subseteq Risk!Truth(r)
  /\ analysis[r].factors \cap Risk!Asked(r) \subseteq possible[r]
  /\ r \in excused \/ Found(r, "OUT_OF_HOURS", {"recent", "zones", "create"})
  /\ Found(r, "PERSISTENT_ACTIVITY", {"zones", "create"})
  /\ Found(r, "SENSITIVE_ZONE", {"create"})
  /\ Persistent(r) \/ Found(r, "PERSISTENT_ACTIVITY", {"schedules", "relations", "recent"})
  /\ r \in excused \/ (Risk!At(r, "relations") => ReadsCurrent(r))
Unmet(r) == moved[r] = Risk!NoMotion => analysis[r] = [pc |-> "none", factors |-> {}]
RiskInv == RiskTypes /\ \A r \in Reports : Unmet(r) /\ (Risk!InAnalysis(r) => Judged(r))

\* MotionRisk's Cardinality is FiniteSets'.
LEMMA SameCardinality == \A S : Risk!Cardinality(S) = Cardinality(S)
  BY DEF Risk!Cardinality, Cardinality

\* What is true of a motion.
LEMMA TruthIs ==
  ASSUME NEW r \in Reports
  PROVE  /\ Risk!Truth(r) \subseteq Risk!Factors
         /\ "OUT_OF_HOURS" \in Risk!Truth(r) <=>
              Risk!Applicable.mode = "SCHEDULED" /\ ~Risk!Open(Risk!Applicable, moved[r].at)
         /\ "SENSITIVE_ZONE" \in Risk!Truth(r) <=> zone
         /\ "PERSISTENT_ACTIVITY" \in Risk!Truth(r) <=> Persistent(r) \/ moved[r].long
<1> DEFINE out == Risk!Applicable.mode = "SCHEDULED" /\ ~Risk!Open(Risk!Applicable, moved[r].at)
<1>1. Risk!Truth(r) = Risk!Factor("OUT_OF_HOURS", out) \cup Risk!Factor("SENSITIVE_ZONE", zone)
                        \cup Risk!Factor("PERSISTENT_ACTIVITY", Persistent(r) \/ moved[r].long)
  BY SameCardinality DEF Risk!Truth, Persistent
<1> HIDE DEF out
<1>2. QED
  BY <1>1 DEF Risk!Factor, Risk!Factors, out

\* What the code makes of a schedule is what it says, but in the small hours: the lemma
\* that carries InLocalInterval over to every schedule.
LEMMA HoursAgree ==
  ASSUME NEW schedule \in Schedule, NEW at \in Moments,
         \A date \in {Risk!LocalDate(at), Risk!LocalDate(at) - 1} :
           \A span \in Risk!Spans(schedule, date) :
             ~(Risk!Overnight(span) /\ Risk!Minute(at) < span[2])
  PROVE  Risk!OutOfHours(schedule, at) <=> ~Risk!Open(schedule, at)
<1> DEFINE minute == Risk!Minute(at)
           today == Risk!LocalDate(at)
<1>1. minute \in Minutes
  BY MinutesOfDay
<1>2. {today, today - 1} \subseteq Risk!Dates
  BY DEF Risk!Dates
<1>3. schedule.intervals \subseteq Intervals
      /\ \A date \in Risk!Dates : schedule.exceptions[date] \in Openings \cup {"NONE"}
  BY DEF Schedule
<1> HIDE DEF minute, today
<1>4. ASSUME NEW date \in {today, today - 1}, NEW span \in Risk!Spans(schedule, date)
      PROVE  /\ span[1] \in Minutes /\ span[2] \in Minutes
             /\ Risk!InLocalInterval(minute, span[1], span[2]) <=> Risk!Within(span, minute)
             /\ ~Risk!Within(span, minute + Day)
  <2>1. span[1] \in Minutes /\ span[2] \in Minutes
    <3>1. CASE schedule.exceptions[date] = "NONE"
      <4>1. PICK i \in schedule.intervals : span = <<i.start, i.end>>
        BY <1>4, <3>1 DEF Risk!Spans
      <4>2. i.start \in Minutes /\ i.end \in Minutes
        BY <1>3, <4>1, IntervalsAssumption DEF Minutes
      <4>3. QED
        BY <4>1, <4>2
    <3>2. CASE schedule.exceptions[date] # "NONE"
      <4>1. span = schedule.exceptions[date] /\ span # "CLOSED" /\ span \in Openings
        BY <1>2, <1>3, <1>4, <3>2 DEF Risk!Spans
      <4>2. QED
        BY <4>1, OpeningsAssumption DEF Minutes
    <3>3. QED
      BY <3>1, <3>2
  <2>2. ~(Risk!Overnight(span) /\ minute < span[2])
    BY <1>4 DEF minute, today
  <2>3. QED
    BY <1>1, <2>1, <2>2, IntervalIsSpan
<1>5. Risk!Open(schedule, at) <=>
        \E span \in Risk!Spans(schedule, today) : Risk!InLocalInterval(minute, span[1], span[2])
  BY <1>4 DEF Risk!Open, minute, today
<1>6. CASE schedule.exceptions[today] = "NONE"
  <2>1. Risk!Spans(schedule, today)
          = {<<i.start, i.end>> : i \in {j \in schedule.intervals : j.weekday = Risk!Weekday(at)}}
    BY <1>6 DEF Risk!Spans, Risk!Weekday, today
  <2>2. Risk!Open(schedule, at) <=>
          \E i \in schedule.intervals :
            i.weekday = Risk!Weekday(at) /\ Risk!InLocalInterval(minute, i.start, i.end)
    <3>1. ASSUME NEW span \in Risk!Spans(schedule, today),
                 Risk!InLocalInterval(minute, span[1], span[2])
          PROVE  \E i \in schedule.intervals :
                   i.weekday = Risk!Weekday(at) /\ Risk!InLocalInterval(minute, i.start, i.end)
      <4>1. PICK i \in schedule.intervals : i.weekday = Risk!Weekday(at) /\ span = <<i.start, i.end>>
        BY <2>1
      <4>2. span[1] = i.start /\ span[2] = i.end
        BY <4>1
      <4>3. QED
        BY <3>1, <4>1, <4>2
    <3>2. ASSUME NEW i \in schedule.intervals, i.weekday = Risk!Weekday(at),
                 Risk!InLocalInterval(minute, i.start, i.end)
          PROVE  \E span \in Risk!Spans(schedule, today) :
                   Risk!InLocalInterval(minute, span[1], span[2])
      <4>1. PICK span : span = <<i.start, i.end>>
        OBVIOUS
      <4>2. span[1] = i.start /\ span[2] = i.end /\ span \in Risk!Spans(schedule, today)
        BY <2>1, <3>2, <4>1
      <4>3. QED
        BY <3>2, <4>2
    <3>3. QED
      BY <1>5, <3>1, <3>2
  <2>3. QED
    BY <1>6, <2>2 DEF Risk!OutOfHours, minute, today
<1>7. CASE schedule.exceptions[today] = "CLOSED"
  BY <1>5, <1>7 DEF Risk!OutOfHours, Risk!Spans, today
<1>8. CASE schedule.exceptions[today] \notin {"NONE", "CLOSED"}
  BY <1>5, <1>8 DEF Risk!OutOfHours, Risk!Spans, minute, today
<1>9. QED
  BY <1>6, <1>7, <1>8

\* What OutOfHours looks at.
LEMMA ClosedIs ==
  \A schedule, at : Closed(schedule.intervals, schedule.exceptions, at) <=> Risk!OutOfHours(schedule, at)
  BY DEF Closed, Risk!OutOfHours

\* The applicable schedule has hours: it is one, and the hours agree but in the small ones.
LEMMA HoursAreTrue ==
  ASSUME RiskTypes, NEW r \in Reports, moved[r] \in Moved, Risk!Applicable.mode = "SCHEDULED"
  PROVE  /\ Risk!Applicable \in Schedule
         /\ ~Risk!SmallHours(r) =>
              (Closed(Risk!Applicable.intervals, Risk!Applicable.exceptions, moved[r].at)
                 <=> "OUT_OF_HOURS" \in Risk!Truth(r))
<1>1. Risk!Applicable \in Schedule
  <2>1. Risk!Applicable \in Schedule \cup {Risk!NoSchedule}
    BY DEF RiskTypes, Risk!Applicable, Risk!Scope, Risk!Scopes
  <2>2. QED
    BY <2>1 DEF Risk!NoSchedule
<1>2. moved[r].at \in Moments
  BY DEF Moved
<1>3. ~Risk!SmallHours(r) =>
        (Risk!OutOfHours(Risk!Applicable, moved[r].at) <=> ~Risk!Open(Risk!Applicable, moved[r].at))
  <2> SUFFICES ASSUME ~Risk!SmallHours(r)
               PROVE  Risk!OutOfHours(Risk!Applicable, moved[r].at)
                        <=> ~Risk!Open(Risk!Applicable, moved[r].at)
    OBVIOUS
  <2>1. \A date \in {Risk!LocalDate(moved[r].at), Risk!LocalDate(moved[r].at) - 1} :
          \A span \in Risk!Spans(Risk!Applicable, date) :
            ~(Risk!Overnight(span) /\ Risk!Minute(moved[r].at) < span[2])
    BY DEF Risk!SmallHours
  <2>2. QED
    BY <1>1, <1>2, <2>1, HoursAgree
<1>4. QED
  BY <1>1, <1>3, TruthIs, ClosedIs

\* What the history says of an analysis under way.
LEMMA Observed ==
  ASSUME NEW saved \in BOOLEAN, Risk!History(saved), NEW r \in Reports, Risk!InAnalysis(r)'
  PROVE  /\ Risk!Truth(r)' \subseteq possible'[r] /\ possible[r] \subseteq possible'[r]
         /\ certain'[r] \subseteq Risk!Truth(r)'
         /\ ~Risk!At(r, "none") => certain'[r] \subseteq certain[r]
         /\ r \in excused => r \in excused'
         /\ Risk!At(r, "relations")' /\ r \notin excused' => ~saved /\ ~Risk!SmallHours(r)'
  BY DEF Risk!History

\* Motions become more: what was persistent stays so.
LEMMA PersistentStays ==
  ASSUME NEW r \in Reports, moved[r] # Risk!NoMotion, Persistent(r),
         \A q \in Reports : moved[q] # Risk!NoMotion =>
           moved'[q] # Risk!NoMotion /\ moved'[q].at = moved[q].at
  PROVE  Persistent(r)'
<1> DEFINE before == Risk!Recent(moved[r].at)
           after == Risk!Recent(moved[r].at)'
<1>1. before \subseteq after /\ after \subseteq Reports
  BY DEF Risk!Recent
<1>2. IsFiniteSet(after) /\ IsFiniteSet(before)
  BY <1>1, ReportsAssumption, FS_Subset
<1>3. Cardinality(before) <= Cardinality(after) /\ Cardinality(before) \in Nat
        /\ Cardinality(after) \in Nat
  BY <1>1, <1>2, FS_Subset, FS_CardinalityType
<1>4. Cardinality(before) >= Repeats
  BY DEF Persistent
<1>5. Cardinality(after) >= Repeats
  <2> HIDE DEF before, after
  <2>1. QED
    BY <1>3, <1>4, ReportsAssumption
<1>6. QED
  BY <1>5 DEF Persistent

\* An analysis that takes no step stays well judged whatever is changed meanwhile.
LEMMA JudgedStays ==
  ASSUME RiskInv, NEW saved \in BOOLEAN, Risk!History(saved), NEW r \in Reports,
         Risk!InAnalysis(r), analysis'[r] = analysis[r], reading'[r] = reading[r],
         moved'[r] \in Moved, moved'[r].at = moved[r].at, Persistent(r) => Persistent(r)',
         \/ saved
         \/ /\ Risk!Scope' = Risk!Scope /\ Risk!Applicable'.mode = Risk!Applicable.mode
            /\ Risk!Applicable.mode = "SCHEDULED" =>
                 Risk!Applicable'.intervals = Risk!Applicable.intervals
  PROVE  Judged(r)'
<1>1. Risk!InAnalysis(r)' /\ ~Risk!At(r, "none") /\ Judged(r)
  BY DEF RiskInv, Risk!InAnalysis, Risk!At
<1>2. /\ Risk!Truth(r)' \subseteq possible'[r] /\ possible[r] \subseteq possible'[r]
      /\ certain'[r] \subseteq Risk!Truth(r)' /\ certain'[r] \subseteq certain[r]
      /\ r \in excused => r \in excused'
      /\ Risk!At(r, "relations")' /\ r \notin excused' => ~saved /\ ~Risk!SmallHours(r)'
  BY <1>1, Observed
<1>3. ASSUME r \notin excused', Risk!At(r, "relations")'
      PROVE  ReadsCurrent(r)'
  <2>1. /\ ~saved /\ ~Risk!SmallHours(r)' /\ ReadsCurrent(r)
    BY <1>1, <1>2, <1>3 DEF Judged, Risk!At
  <2>2. PICK g : g = reading[r]
    OBVIOUS
  <2>3. Closed(Risk!Applicable.intervals, g.schedule.exceptions, moved[r].at)'
          <=> Closed(Risk!Applicable.intervals, g.schedule.exceptions, moved[r].at)
    BY <2>1 DEF ReadsCurrent, Closed, Risk!OutOfHours
  <2>4. QED
    BY <1>2, <2>1, <2>2, <2>3 DEF ReadsCurrent
<1>4. analysis'[r].factors \cap Risk!Asked(r)' \subseteq possible'[r]
  BY <1>1, <1>2 DEF Judged, Risk!Asked
<1>5. QED
  BY <1>1, <1>2, <1>3, <1>4 DEF Judged, Found

\* A motion that is analyzed has come.
LEMMA AnalyzedIsMoved ==
  ASSUME RiskInv, NEW r \in Reports, Risk!InAnalysis(r)
  PROVE  moved[r] \in Moved /\ moved[r] # Risk!NoMotion /\ moved[r].at \in Moments
<1>1. moved[r] \in Moved
  BY DEF RiskInv, Judged
<1>2. moved[r].at \in Moments /\ Risk!NoMotion.at = -1
  BY <1>1 DEF Moved, Risk!NoMotion
<1>3. moved[r].at # -1
  BY <1>2, MomentsAssumption
<1>4. QED
  BY <1>1, <1>2, <1>3

\* With what is found at a step, nothing is missing that is due at the next.
Complete(r, next, factors) ==
  /\ r \notin excused /\ next \in {"recent", "zones", "create"} /\ "OUT_OF_HOURS" \in certain[r]
       => "OUT_OF_HOURS" \in factors
  /\ next \in {"zones", "create"} /\ "PERSISTENT_ACTIVITY" \in certain[r]
       => "PERSISTENT_ACTIVITY" \in factors
  /\ next = "create" /\ "SENSITIVE_ZONE" \in certain[r] => "SENSITIVE_ZONE" \in factors
  /\ \/ Persistent(r)
     \/ next \in {"schedules", "relations", "recent"} /\ "PERSISTENT_ACTIVITY" \in certain[r]
          => "PERSISTENT_ACTIVITY" \in factors

\* What an analysis finds.
LEMMA FindKeeps ==
  ASSUME RiskInv, NEW r \in Reports, NEW pc \in Stages, NEW next \in Stages, NEW found,
         Risk!Find(r, pc, next, found), pc \notin {"none", "over"},
         found \subseteq Risk!Factors, found \cap Risk!Asked(r) \subseteq possible[r],
         Complete(r, next, analysis[r].factors \cup found),
         DOMAIN reading' = Reports, \A q \in Reports \ {r} : reading'[q] = reading[q],
         next = "relations" /\ r \notin excused' => ReadsCurrent(r)'
  PROVE  RiskInv'
<1>1. /\ analysis[r].pc = pc /\ Risk!History(FALSE) /\ UNCHANGED <<schedules, zone, changes, moved>>
      /\ analysis' = [analysis EXCEPT ![r].pc = next, ![r].factors = @ \cup found]
  BY DEF Risk!Find, Risk!At, Risk!settings, Risk!Observe
<1>2. Risk!InAnalysis(r) /\ ~Risk!At(r, "none") /\ Judged(r)
  BY <1>1 DEF RiskInv, Risk!InAnalysis, Risk!At
<1>3. /\ analysis'[r] = [pc |-> next, factors |-> analysis[r].factors \cup found]
      /\ \A q \in Reports \ {r} : analysis'[q] = analysis[q]
  BY <1>1 DEF RiskInv, RiskTypes
<1>4. \A q \in Reports : Persistent(q)' <=> Persistent(q)
  BY <1>1 DEF Persistent, Risk!Recent
<1>5. RiskTypes'
  BY <1>1, <1>3 DEF RiskInv, RiskTypes
<1>6. ASSUME Risk!InAnalysis(r)'
      PROVE  Judged(r)'
  <2>1. /\ Risk!Truth(r)' \subseteq possible'[r] /\ possible[r] \subseteq possible'[r]
        /\ certain'[r] \subseteq Risk!Truth(r)' /\ certain'[r] \subseteq certain[r]
        /\ r \in excused => r \in excused'
    BY <1>1, <1>2, <1>6, Observed
  <2>2. analysis'[r].factors \cap Risk!Asked(r)' \subseteq possible'[r]
    BY <1>2, <1>3, <2>1 DEF Judged, Risk!Asked
  <2>3. Risk!At(r, "relations")' => next = "relations"
    BY <1>3 DEF Risk!At
  <2>4. /\ r \in excused' \/ Found(r, "OUT_OF_HOURS", {"recent", "zones", "create"})'
        /\ Found(r, "PERSISTENT_ACTIVITY", {"zones", "create"})'
        /\ Found(r, "SENSITIVE_ZONE", {"create"})'
    BY <1>3, <2>1 DEF Found, Complete
  <2>5. (Persistent(r) \/ Found(r, "PERSISTENT_ACTIVITY", {"schedules", "relations", "recent"}))'
    BY <1>3, <1>4, <2>1 DEF Found, Complete
  <2>6. (r \in excused \/ (Risk!At(r, "relations") => ReadsCurrent(r)))'
    BY <2>3
  <2>7. moved'[r] \in Moved
    BY <1>1, <1>2 DEF Judged
  <2>8. QED
    BY <2>1, <2>2, <2>4, <2>5, <2>6, <2>7 DEF Judged
<1>7. ASSUME NEW q \in Reports \ {r}, Risk!InAnalysis(q)'
      PROVE  Judged(q)'
  <2>1. Risk!InAnalysis(q) /\ moved'[q] \in Moved
    BY <1>1, <1>3, <1>7 DEF RiskInv, Judged, Risk!InAnalysis
  <2>2. Risk!Scope' = Risk!Scope /\ Risk!Applicable' = Risk!Applicable
    BY <1>1 DEF Risk!Scope, Risk!Applicable
  <2>3. QED
    BY <1>1, <1>3, <1>4, <2>1, <2>2, JudgedStays
<1>8. \A q \in Reports : Unmet(q)'
  BY <1>1, <1>2, <1>3, AnalyzedIsMoved DEF RiskInv, Unmet
<1>9. QED
  BY <1>5, <1>6, <1>7, <1>8 DEF RiskInv

\* A change of the settings keeps RiskInv.
LEMMA SettingsKeep ==
  ASSUME RiskInv, NEW saved \in BOOLEAN, Risk!History(saved),
         UNCHANGED <<moved, analysis, reading>>,
         schedules' \in [Risk!Scopes -> Schedule \cup {Risk!NoSchedule}],
         \/ saved
         \/ /\ Risk!Scope' = Risk!Scope /\ Risk!Applicable'.mode = Risk!Applicable.mode
            /\ Risk!Applicable.mode = "SCHEDULED" =>
                 Risk!Applicable'.intervals = Risk!Applicable.intervals
  PROVE  RiskInv'
<1>1. \A q \in Reports : Persistent(q)' <=> Persistent(q)
  BY DEF Persistent, Risk!Recent
<1>2. ASSUME NEW r \in Reports, Risk!InAnalysis(r)'
      PROVE  Judged(r)'
  <2>1. Risk!InAnalysis(r)
    BY <1>2 DEF Risk!InAnalysis
  <2>2. QED
    BY <1>1, <2>1, AnalyzedIsMoved, JudgedStays
<1>3. QED
  BY <1>2 DEF RiskInv, RiskTypes, Unmet

\* So does a motion that comes,
LEMMA ArriveKeeps ==
  ASSUME RiskInv, NEW r \in Reports, NEW at \in Moments, Risk!Arrive(r, at)
  PROVE  RiskInv'
<1>1. /\ moved[r] = Risk!NoMotion /\ Risk!History(FALSE) /\ UNCHANGED <<schedules, reading>>
      /\ moved' = [moved EXCEPT ![r] = [at |-> at, long |-> FALSE]]
      /\ analysis' = [analysis EXCEPT ![r].pc = "process"]
  BY DEF Risk!Arrive, Risk!settings, Risk!Observe
<1>2. analysis[r] = [pc |-> "none", factors |-> {}]
  BY <1>1 DEF RiskInv, Unmet
<1>3. /\ analysis'[r] = [pc |-> "process", factors |-> {}]
      /\ moved'[r] = [at |-> at, long |-> FALSE]
      /\ \A q \in Reports \ {r} : analysis'[q] = analysis[q] /\ moved'[q] = moved[q]
  <2>1. /\ analysis'[r] = [pc |-> "process", factors |-> {}]
        /\ \A q \in Reports \ {r} : analysis'[q] = analysis[q]
    <3>1. [analysis[r] EXCEPT !.pc = "process"] = [pc |-> "process", factors |-> {}]
      BY <1>2
    <3>2. analysis' = [analysis EXCEPT ![r] = [pc |-> "process", factors |-> {}]]
      BY <1>1, <3>1
    <3>3. QED
      BY <3>2 DEF RiskInv, RiskTypes
  <2>2. /\ moved'[r] = [at |-> at, long |-> FALSE]
        /\ \A q \in Reports \ {r} : moved'[q] = moved[q]
    BY <1>1 DEF RiskInv, RiskTypes
  <2>3. QED
    BY <2>1, <2>2
<1>4. moved'[r] \in Moved /\ moved'[r] # Risk!NoMotion
  <2>1. moved'[r].at = at /\ Risk!NoMotion.at = -1 /\ at # -1
    BY <1>3, MomentsAssumption DEF Risk!NoMotion
  <2>2. QED
    BY <1>3, <2>1 DEF Moved
<1>5. RiskTypes'
  BY <1>1, <1>3, <1>4 DEF RiskInv, RiskTypes, Stages
<1>6. ASSUME Risk!InAnalysis(r)'
      PROVE  Judged(r)'
  <2>1. certain'[r] \subseteq Risk!Truth(r)' /\ Risk!Truth(r)' \subseteq possible'[r]
    BY <1>1, <1>6, Observed
  <2>2. QED
    BY <1>3, <1>4, <2>1 DEF Judged, Found, Risk!At
<1>7. ASSUME NEW q \in Reports \ {r}, Risk!InAnalysis(q)'
      PROVE  Judged(q)'
  <2>1. Risk!InAnalysis(q)
    BY <1>3, <1>7 DEF Risk!InAnalysis
  <2>2. Persistent(q) => Persistent(q)'
    <3>1. \A p \in Reports : moved[p] # Risk!NoMotion =>
            moved'[p] # Risk!NoMotion /\ moved'[p].at = moved[p].at
      BY <1>1, <1>3
    <3>2. QED
      BY <2>1, <3>1, AnalyzedIsMoved, PersistentStays
  <2>3. Risk!Scope' = Risk!Scope /\ Risk!Applicable' = Risk!Applicable
    BY <1>1 DEF Risk!Scope, Risk!Applicable
  <2>4. QED
    BY <1>1, <1>3, <2>1, <2>2, <2>3, AnalyzedIsMoved, JudgedStays
<1>8. QED
  BY <1>3, <1>4, <1>5, <1>6, <1>7 DEF RiskInv, Unmet

\* and its end.
LEMMA EndArrivesKeeps ==
  ASSUME RiskInv, NEW r \in Reports, Risk!EndArrives(r)
  PROVE  RiskInv'
<1>1. /\ Risk!InAnalysis(r) /\ Risk!History(FALSE) /\ UNCHANGED <<schedules, analysis, reading>>
      /\ moved' = [moved EXCEPT ![r].long = TRUE]
  BY DEF Risk!EndArrives, Risk!settings, Risk!Observe
<1>2. /\ moved'[r] = [at |-> moved[r].at, long |-> TRUE]
      /\ \A q \in Reports \ {r} : moved'[q] = moved[q]
  BY <1>1, AnalyzedIsMoved DEF RiskInv, RiskTypes, Moved
<1>3. moved'[r] \in Moved /\ moved'[r] # Risk!NoMotion
  <2>1. moved[r].at \in Moments
    BY <1>1, AnalyzedIsMoved
  <2>2. moved'[r].at # -1 /\ Risk!NoMotion.at = -1
    BY <1>2, <2>1, MomentsAssumption DEF Risk!NoMotion
  <2>3. QED
    BY <1>2, <2>1, <2>2 DEF Moved
<1>4. RiskTypes'
  BY <1>1, <1>2, <1>3 DEF RiskInv, RiskTypes
<1>5. \A p \in Reports : moved[p] # Risk!NoMotion =>
        moved'[p] # Risk!NoMotion /\ moved'[p].at = moved[p].at
  BY <1>2, <1>3
<1>6. ASSUME NEW q \in Reports, Risk!InAnalysis(q)'
      PROVE  Judged(q)'
  <2>1. Risk!InAnalysis(q)
    BY <1>1, <1>6 DEF Risk!InAnalysis
  <2>2. Persistent(q) => Persistent(q)'
    BY <1>5, <2>1, AnalyzedIsMoved, PersistentStays
  <2>3. Risk!Scope' = Risk!Scope /\ Risk!Applicable' = Risk!Applicable
    BY <1>1 DEF Risk!Scope, Risk!Applicable
  <2>4. moved'[q] \in Moved /\ moved'[q].at = moved[q].at
    BY <1>2, <1>3, <2>1, AnalyzedIsMoved
  <2>5. QED
    BY <1>1, <2>1, <2>2, <2>3, <2>4, JudgedStays
<1>7. \A q \in Reports : Unmet(q)'
  BY <1>1, <1>2, <1>3 DEF RiskInv, Unmet
<1>8. QED
  BY <1>4, <1>6, <1>7 DEF RiskInv

\* An analysis ends, with a classification or without.
LEMMA EndKeeps ==
  ASSUME RiskInv, NEW r \in Reports, Risk!CreateClassification(r) \/ Risk!AnalysisFails(r)
  PROVE  RiskInv'
<1>1. /\ Risk!InAnalysis(r) /\ Risk!History(FALSE) /\ UNCHANGED <<schedules, moved>>
      /\ analysis' = [analysis EXCEPT ![r] = [pc |-> "over", factors |-> {}]]
      /\ reading' = reading \/ reading' = [reading EXCEPT ![r] = Risk!NoReading]
  BY DEF Risk!CreateClassification, Risk!AnalysisFails, Risk!settings, Risk!At,
     Risk!InAnalysis, Risk!Observe
<1>2. /\ analysis'[r] = [pc |-> "over", factors |-> {}]
      /\ \A q \in Reports \ {r} : analysis'[q] = analysis[q] /\ reading'[q] = reading[q]
  BY <1>1 DEF RiskInv, RiskTypes
<1>3. RiskTypes'
  BY <1>1, <1>2 DEF RiskInv, RiskTypes, Stages
<1>4. \A q \in Reports : Persistent(q)' <=> Persistent(q)
  BY <1>1 DEF Persistent, Risk!Recent
<1>5. ASSUME NEW q \in Reports, Risk!InAnalysis(q)'
      PROVE  Judged(q)'
  <2>1. q # r /\ Risk!InAnalysis(q)
    BY <1>2, <1>5 DEF Risk!InAnalysis
  <2>2. Risk!Scope' = Risk!Scope /\ Risk!Applicable' = Risk!Applicable
    BY <1>1 DEF Risk!Scope, Risk!Applicable
  <2>3. QED
    BY <1>1, <1>2, <1>4, <2>1, <2>2, AnalyzedIsMoved, JudgedStays
<1>6. \A q \in Reports : Unmet(q)'
  BY <1>1, <1>2, AnalyzedIsMoved DEF RiskInv, Unmet
<1>7. QED
  BY <1>3, <1>5, <1>6 DEF RiskInv

\* What a query that only looks finds: it is true of the motion at present.
LEMMA LookKeeps ==
  ASSUME RiskInv, NEW r \in Reports, NEW pc \in Stages, NEW next \in Stages, NEW found,
         Risk!Look(r, pc, next, found), pc \notin {"none", "over"}, next # "relations",
         found \subseteq Risk!Truth(r), Complete(r, next, analysis[r].factors \cup found)
  PROVE  RiskInv'
<1>1. Risk!InAnalysis(r) /\ Risk!Find(r, pc, next, found) /\ reading' = reading
  BY DEF Risk!Look, Risk!Find, Risk!At, Risk!InAnalysis
<1>2. found \subseteq Risk!Factors /\ found \subseteq possible[r]
  BY <1>1, TruthIs DEF RiskInv, Judged
<1>3. QED
  BY <1>1, <1>2, FindKeeps DEF RiskInv, RiskTypes

\* The row of the applicable schedule is read: if it has hours, it is the one to read on.
LEMMA ReadSchedulesKeeps ==
  ASSUME RiskInv, NEW r \in Reports, Risk!ReadSchedules(r)
  PROVE  RiskInv'
<1>1. analysis[r].pc = "schedules" /\ Risk!InAnalysis(r)
  BY DEF Risk!ReadSchedules, Risk!Look, Risk!Find, Risk!At, Risk!InAnalysis
<1>2. RiskTypes /\ Judged(r)
  BY <1>1 DEF RiskInv
<1>3. CASE Risk!Applicable.mode # "SCHEDULED"
  <2>1. Risk!Look(r, "schedules", "recent", {})
    BY <1>3 DEF Risk!ReadSchedules
  <2>2. "OUT_OF_HOURS" \notin certain[r]
    BY <1>2, <1>3, TruthIs DEF Judged
  <2>3. Complete(r, "recent", analysis[r].factors \cup {})
    BY <1>1, <1>2, <2>2 DEF Judged, Found, Complete
  <2>4. QED
    BY <2>1, <2>3, LookKeeps DEF Stages
<1>4. CASE Risk!Applicable.mode = "SCHEDULED"
  <2>1. PICK read : read = [Risk!Applicable EXCEPT !.intervals = {}, !.exceptions = Risk!NoExceptions]
    OBVIOUS
  <2>2. /\ Risk!Find(r, "schedules", "relations", {})
        /\ reading' = [reading EXCEPT ![r] =
             [scope |-> Risk!Scope, todo |-> {"intervals", "exceptions"}, schedule |-> read]]
    BY <1>4, <2>1 DEF Risk!ReadSchedules
  <2>3. Risk!Applicable \in Schedule
    BY <1>2, <1>4, HoursAreTrue DEF Judged
  <2>4. read \in Schedule
    BY <2>1, <2>3 DEF Schedule, Risk!NoExceptions
  <2>5. DOMAIN reading' = Reports /\ \A q \in Reports \ {r} : reading'[q] = reading[q]
    BY <1>2, <2>2 DEF RiskTypes
  <2>6. reading'[r].scope = Risk!Scope /\ reading'[r].todo = {"intervals", "exceptions"}
          /\ reading'[r].schedule = read
    BY <1>2, <2>2 DEF RiskTypes
  <2>7. Risk!Scope' = Risk!Scope /\ Risk!Applicable' = Risk!Applicable
    BY <2>2 DEF Risk!Find, Risk!settings, Risk!Scope, Risk!Applicable
  <2>8. ASSUME r \notin excused' PROVE ReadsCurrent(r)'
    <3>1. /\ Risk!History(FALSE)
          /\ analysis' = [analysis EXCEPT ![r].pc = "relations", ![r].factors = @ \cup {}]
      BY <2>2 DEF Risk!Find, Risk!Observe
    <3>2. Risk!InAnalysis(r)' /\ Risk!At(r, "relations")'
      BY <1>2, <3>1 DEF RiskTypes, Risk!InAnalysis, Risk!At
    <3>3. ~Risk!SmallHours(r)'
      BY <2>8, <3>1, <3>2, Observed
    <3>4. QED
      BY <1>4, <2>4, <2>6, <2>7, <3>3 DEF ReadsCurrent
  <2>9. Complete(r, "relations", analysis[r].factors \cup {})
    BY <1>1, <1>2 DEF Judged, Found, Complete
  <2>10. QED
    BY <2>2, <2>5, <2>8, <2>9, FindKeeps DEF Stages
<1>5. QED
  BY <1>3, <1>4

\* A schedule that nobody saves while it is read is current whatever of it was read, and
\* the hours that come out were true at one time or are not true now.
LEMMA ReadIsCurrent ==
  ASSUME RiskInv, NEW r \in Reports, Risk!At(r, "relations"), r \notin excused,
         NEW relation \in {"intervals", "exceptions"}, relation \in reading[r].todo,
         NEW read, read = Risk!Including(reading[r].schedule, relation, reading[r].scope)
  PROVE  /\ read \in Schedule
         /\ "intervals" \notin reading[r].todo \ {relation} => read.intervals = Risk!Applicable.intervals
         /\ "exceptions" \notin reading[r].todo \ {relation} =>
              IF Closed(Risk!Applicable.intervals, read.exceptions, moved[r].at)
              THEN "OUT_OF_HOURS" \in possible[r] ELSE "OUT_OF_HOURS" \notin certain[r]
<1>1. Risk!InAnalysis(r)
  BY DEF Risk!At, Risk!InAnalysis
<1>2. RiskTypes /\ Judged(r) /\ ReadsCurrent(r)
  BY <1>1 DEF RiskInv, Judged
<1>3. PICK g : g = reading[r]
  OBVIOUS
<1>4. /\ g.schedule \in Schedule /\ schedules[g.scope] = Risk!Applicable
      /\ Risk!Applicable.mode = "SCHEDULED" /\ ~Risk!SmallHours(r)
      /\ "intervals" \notin g.todo => g.schedule.intervals = Risk!Applicable.intervals
      /\ "exceptions" \notin g.todo =>
           IF Closed(Risk!Applicable.intervals, g.schedule.exceptions, moved[r].at)
           THEN "OUT_OF_HOURS" \in possible[r] ELSE "OUT_OF_HOURS" \notin certain[r]
  BY <1>2, <1>3 DEF ReadsCurrent, Risk!Applicable
<1>5. /\ Risk!Applicable \in Schedule
      /\ Closed(Risk!Applicable.intervals, Risk!Applicable.exceptions, moved[r].at)
           <=> "OUT_OF_HOURS" \in Risk!Truth(r)
  BY <1>2, <1>4, HoursAreTrue DEF Judged
<1>6. CASE relation = "intervals"
  <2>1. read = [g.schedule EXCEPT !.intervals = Risk!Applicable.intervals]
    BY <1>3, <1>4, <1>6 DEF Risk!Including
  <2>2. /\ read \in Schedule /\ read.intervals = Risk!Applicable.intervals
        /\ read.exceptions = g.schedule.exceptions
    BY <1>4, <1>5, <2>1 DEF Schedule
  <2>3. QED
    BY <1>3, <1>4, <1>6, <2>2
<1>7. CASE relation = "exceptions"
  <2>1. read = [g.schedule EXCEPT !.exceptions = Risk!Applicable.exceptions]
    BY <1>3, <1>4, <1>7 DEF Risk!Including
  <2>2. /\ read \in Schedule /\ read.intervals = g.schedule.intervals
        /\ read.exceptions = Risk!Applicable.exceptions
    BY <1>4, <1>5, <2>1 DEF Schedule
  <2>3. QED
    BY <1>2, <1>3, <1>4, <1>5, <1>7, <2>2 DEF Judged
<1>8. QED
  BY <1>6, <1>7

\* What a schedule includes is read, and when all is, what it says is found.
LEMMA ReadRelationKeeps ==
  ASSUME RiskInv, NEW r \in Reports, NEW relation \in {"intervals", "exceptions"},
         Risk!ReadRelation(r, relation)
  PROVE  RiskInv'
<1>1. PICK read : read = Risk!Including(reading[r].schedule, relation, reading[r].scope)
  OBVIOUS
<1>2. /\ relation \in reading[r].todo /\ Risk!At(r, "relations") /\ Risk!InAnalysis(r)
      /\ DOMAIN reading' = Reports /\ \A q \in Reports \ {r} : reading'[q] = reading[q]
  BY DEF Risk!ReadRelation, Risk!Find, Risk!At, Risk!InAnalysis, RiskInv, RiskTypes
<1>3. RiskTypes /\ Judged(r)
  BY <1>2 DEF RiskInv
<1>4. r \notin excused =>
         /\ read \in Schedule /\ ReadsCurrent(r)
         /\ "intervals" \notin reading[r].todo \ {relation} => read.intervals = Risk!Applicable.intervals
         /\ "exceptions" \notin reading[r].todo \ {relation} =>
              IF Closed(Risk!Applicable.intervals, read.exceptions, moved[r].at)
              THEN "OUT_OF_HOURS" \in possible[r] ELSE "OUT_OF_HOURS" \notin certain[r]
  BY <1>1, <1>2, <1>3, ReadIsCurrent DEF Judged
<1>5. CASE reading[r].todo # {relation}
  <2>1. /\ Risk!Find(r, "relations", "relations", {})
        /\ reading' = [reading EXCEPT ![r].schedule = read, ![r].todo = @ \ {relation}]
    BY <1>1, <1>5 DEF Risk!ReadRelation
  <2>2. Complete(r, "relations", analysis[r].factors \cup {})
    BY <1>2, <1>3 DEF Judged, Found, Complete, Risk!At
  <2>3. ASSUME r \notin excused' PROVE ReadsCurrent(r)'
    <3>1. /\ Risk!History(FALSE) /\ UNCHANGED <<schedules, moved>>
          /\ analysis' = [analysis EXCEPT ![r].pc = "relations", ![r].factors = @ \cup {}]
      BY <2>1 DEF Risk!Find, Risk!Observe, Risk!settings
    <3>2. Risk!InAnalysis(r)' /\ Risk!At(r, "relations")'
      BY <1>3, <3>1 DEF RiskTypes, Risk!InAnalysis, Risk!At
    <3>3. /\ ~Risk!SmallHours(r)' /\ r \notin excused /\ possible[r] \subseteq possible'[r]
          /\ certain'[r] \subseteq certain[r]
      BY <1>2, <2>3, <3>1, <3>2, Observed DEF Risk!At
    <3>4. Risk!Scope' = Risk!Scope /\ Risk!Applicable' = Risk!Applicable
      BY <3>1 DEF Risk!Scope, Risk!Applicable
    <3>5. PICK g : g = reading[r]
      OBVIOUS
    <3>6. reading' = [reading EXCEPT ![r] =
            [[g EXCEPT !.schedule = read] EXCEPT !.todo = g.todo \ {relation}]]
      BY <1>3, <2>1, <3>5 DEF RiskTypes
    <3>7. reading'[r] = [[g EXCEPT !.schedule = read] EXCEPT !.todo = g.todo \ {relation}]
      BY <1>3, <3>6 DEF RiskTypes
    <3>8. QED
      BY <1>4, <3>1, <3>3, <3>4, <3>5, <3>7 DEF ReadsCurrent, Closed
  <2> DEFINE found == {}
  <2>4. /\ found \subseteq Risk!Factors /\ found \cap Risk!Asked(r) \subseteq possible[r]
        /\ "relations" \in Stages \ {"none", "over"}
    BY DEF Stages
  <2>5. Risk!Find(r, "relations", "relations", found)
        /\ Complete(r, "relations", analysis[r].factors \cup found)
    BY <2>1, <2>2
  <2> HIDE DEF found
  <2>6. QED
    BY <1>2, <2>3, <2>4, <2>5, FindKeeps
<1>6. CASE reading[r].todo = {relation}
  <2> DEFINE found == Risk!Factor("OUT_OF_HOURS", Risk!OutOfHours(read, moved[r].at))
  <2>1. Risk!Find(r, "relations", "recent", found)
    BY <1>1, <1>6 DEF Risk!ReadRelation
  <2>2. r \notin excused =>
          IF Risk!OutOfHours(read, moved[r].at)
          THEN "OUT_OF_HOURS" \in possible[r] ELSE "OUT_OF_HOURS" \notin certain[r]
    <3>1. Closed(read.intervals, read.exceptions, moved[r].at)
            <=> Risk!OutOfHours(read, moved[r].at)
      BY ClosedIs
    <3>2. QED
      BY <1>4, <1>6, <3>1
  <2>3. found \subseteq Risk!Factors /\ found \cap Risk!Asked(r) \subseteq possible[r]
    BY <2>2 DEF Risk!Factor, Risk!Factors, Risk!Asked
  <2>4. Complete(r, "recent", analysis[r].factors \cup found)
    BY <1>2, <1>3, <2>2 DEF Judged, Found, Complete, Risk!At, Risk!Factor
  <2> HIDE DEF found
  <2>5. QED
    BY <1>2, <2>1, <2>3, <2>4, FindKeeps DEF Stages
<1>7. QED
  BY <1>5, <1>6

\* Every step about risk keeps RiskInv.
LEMMA RiskStepKeeps ==
  ASSUME RiskInv, Risk!RiskStep
  PROVE  RiskInv'
<1>1. CASE Risk!SaveZone \/ Risk!DeleteZone
  <2>1. Risk!History(FALSE) /\ UNCHANGED <<moved, analysis, reading, schedules>>
    BY <1>1 DEF Risk!SaveZone, Risk!DeleteZone, Risk!SetZone, Risk!judgment, Risk!Observe
  <2>2. Risk!Scope' = Risk!Scope /\ Risk!Applicable' = Risk!Applicable
    BY <2>1 DEF Risk!Scope, Risk!Applicable
  <2>3. QED
    BY <2>1, <2>2, SettingsKeep DEF RiskInv, RiskTypes
<1>2. ASSUME NEW s \in Risk!Scopes, NEW mode \in {"ALWAYS", "SCHEDULED"},
             NEW intervals \in SUBSET Intervals, Risk!SaveSchedule(s, mode, intervals)
      PROVE  RiskInv'
  <2>1. Risk!History(TRUE) /\ UNCHANGED <<moved, analysis, reading>>
    BY <1>2 DEF Risk!SaveSchedule, Risk!judgment
  <2>2. schedules' \in [Risk!Scopes -> Schedule \cup {Risk!NoSchedule}]
    <3> DEFINE new == [mode |-> mode, intervals |-> intervals,
                       exceptions |-> IF schedules[s] = Risk!NoSchedule
                                      THEN Risk!NoExceptions ELSE schedules[s].exceptions]
    <3>1. schedules[s] \in Schedule \cup {Risk!NoSchedule}
      BY DEF RiskInv, RiskTypes
    <3>2. new \in Schedule
      BY <3>1 DEF Schedule, Risk!NoExceptions
    <3>3. schedules' = [schedules EXCEPT ![s] = new]
      BY <1>2 DEF Risk!SaveSchedule
    <3>4. QED
      BY <3>2, <3>3 DEF RiskInv, RiskTypes
  <2>3. QED
    BY <2>1, <2>2, SettingsKeep
<1>3. ASSUME NEW s \in Risk!Scopes, NEW date \in Risk!Dates, NEW o \in Openings,
             Risk!AddException(s, date, o)
      PROVE  RiskInv'
  <2>1. /\ Risk!History(FALSE) /\ UNCHANGED <<moved, analysis, reading>>
        /\ schedules[s] # Risk!NoSchedule
        /\ schedules' = [schedules EXCEPT ![s].exceptions[date] = o]
    BY <1>3 DEF Risk!AddException, Risk!judgment, Risk!Observe
  <2>2. schedules[s] \in Schedule
    BY <2>1 DEF RiskInv, RiskTypes
  <2>3. PICK new : new = [schedules[s] EXCEPT !.exceptions[date] = o]
    OBVIOUS
  <2>4. new \in Schedule /\ new.mode = schedules[s].mode /\ new.intervals = schedules[s].intervals
    BY <2>2, <2>3 DEF Schedule
  <2>5. schedules' = [schedules EXCEPT ![s] = new]
    BY <2>1, <2>3 DEF RiskInv, RiskTypes
  <2>6. /\ schedules' \in [Risk!Scopes -> Schedule \cup {Risk!NoSchedule}]
        /\ schedules'[s] = new /\ \A x \in Risk!Scopes \ {s} : schedules'[x] = schedules[x]
    BY <2>4, <2>5 DEF RiskInv, RiskTypes
  <2>7. new # Risk!NoSchedule
    <3>1. Risk!NoSchedule.mode = "NONE"
      BY DEF Risk!NoSchedule
    <3>2. QED
      BY <2>4, <3>1 DEF Schedule
  <2>8. /\ Risk!Scope' = Risk!Scope /\ Risk!Applicable'.mode = Risk!Applicable.mode
        /\ Risk!Applicable.mode = "SCHEDULED" =>
             Risk!Applicable'.intervals = Risk!Applicable.intervals
    <3>1. Risk!Scope' = Risk!Scope
      BY <2>1, <2>6, <2>7 DEF Risk!Scope, Risk!Scopes
    <3>2. Risk!Scope \in Risk!Scopes
      BY DEF Risk!Scope, Risk!Scopes
    <3>3. QED
      BY <2>4, <2>6, <3>1, <3>2 DEF Risk!Applicable
  <2>9. QED
    BY <2>1, <2>6, <2>8, SettingsKeep
<1>4. ASSUME NEW r \in Reports,
             Risk!ReadEvent(r) \/ Risk!CountRecent(r) \/ Risk!CountZones(r)
      PROVE  RiskInv'
  <2>1. /\ Judged(r)
        /\ certain[r] \subseteq Risk!Truth(r)
        /\ "SENSITIVE_ZONE" \in Risk!Truth(r) <=> zone
        /\ "PERSISTENT_ACTIVITY" \in Risk!Truth(r) <=> Persistent(r) \/ moved[r].long
    <3>1. Risk!InAnalysis(r)
      BY <1>4 DEF Risk!ReadEvent, Risk!CountRecent, Risk!CountZones, Risk!Look,
         Risk!Find, Risk!At, Risk!InAnalysis
    <3>2. RiskTypes /\ Judged(r)
      BY <3>1 DEF RiskInv
    <3>3. QED
      BY <3>2, TruthIs DEF Judged
  <2>2. CASE Risk!ReadEvent(r)
    <3> DEFINE found == Risk!Factor("PERSISTENT_ACTIVITY", moved[r].long)
    <3>1. Risk!Look(r, "process", "schedules", found) /\ analysis[r].pc = "process"
      BY <2>2 DEF Risk!ReadEvent, Risk!Look, Risk!Find, Risk!At
    <3>2. found \subseteq Risk!Truth(r) /\ Complete(r, "schedules", analysis[r].factors \cup found)
      BY <2>1, <3>1 DEF Risk!Factor, Judged, Found, Complete
    <3>3. QED
      BY <3>1, <3>2, LookKeeps DEF Stages
  <2>3. CASE Risk!CountRecent(r)
    <3> DEFINE found == Risk!Factor("PERSISTENT_ACTIVITY", Persistent(r))
    <3>1. Risk!Look(r, "recent", "zones", found) /\ analysis[r].pc = "recent"
      BY <2>3, SameCardinality DEF Risk!CountRecent, Risk!Look, Risk!Find, Risk!At, Persistent
    <3>2. found \subseteq Risk!Truth(r) /\ Complete(r, "zones", analysis[r].factors \cup found)
      BY <2>1, <3>1 DEF Risk!Factor, Judged, Found, Complete
    <3>3. QED
      BY <3>1, <3>2, LookKeeps DEF Stages
  <2>4. CASE Risk!CountZones(r)
    <3> DEFINE found == Risk!Factor("SENSITIVE_ZONE", zone)
    <3>1. Risk!Look(r, "zones", "create", found) /\ analysis[r].pc = "zones"
      BY <2>4 DEF Risk!CountZones, Risk!Look, Risk!Find, Risk!At
    <3>2. found \subseteq Risk!Truth(r) /\ Complete(r, "create", analysis[r].factors \cup found)
      BY <2>1, <3>1 DEF Risk!Factor, Judged, Found, Complete
    <3>3. QED
      BY <3>1, <3>2, LookKeeps DEF Stages
  <2>5. QED
    BY <1>4, <2>2, <2>3, <2>4
<1>5. QED
  <2>1. ASSUME NEW s \in Risk!Scopes, Risk!SaveSchedule(s, "ALWAYS", {})
        PROVE  RiskInv'
    BY <2>1, <1>2
  <2>2. QED
    BY <1>1, <1>2, <1>3, <1>4, <2>1, ArriveKeeps, EndArrivesKeeps, EndKeeps,
       ReadSchedulesKeeps, ReadRelationKeeps DEF Risk!RiskStep

\* It holds when nothing has moved,
LEMMA RiskInvStarts == Risk!Init => RiskInv
  BY DEF Risk!Init, RiskInv, RiskTypes, Stages, Unmet, Risk!InAnalysis, Risk!NoMotion

\* and where a classification is created it is Grounded.
LEMMA RiskInvSuffices == RiskInv => Grounded
<1> SUFFICES ASSUME RiskInv, NEW r \in Reports, Risk!At(r, "create")
             PROVE  /\ certain[r] \cap Risk!Asked(r) \subseteq analysis[r].factors
                    /\ analysis[r].factors \cap Risk!Asked(r) \subseteq possible[r]
  BY DEF Grounded, Risk!Grounded
<1>1. RiskTypes /\ Judged(r) /\ analysis[r].pc = "create"
  BY DEF RiskInv, Risk!InAnalysis, Risk!At
<1>2. certain[r] \subseteq Risk!Factors
  BY <1>1, TruthIs DEF Judged
<1>3. QED
  BY <1>1, <1>2 DEF Judged, Found, Risk!Asked, Risk!Factors
-----------------------------------------------------------------------------
(* StreamPlayer *)

EffectStates == {"NONE", "LOADING", "DISPOSED", "PLAYING"}
Chosen(e) == effects[e] \in {"LOADING", "PLAYING"}
PlayerTypes ==
  /\ effects \in [1 .. MaxEffects -> EffectStates]
  /\ stopped \in Nat

\* One effect at most plays or is about to, and only what is shown to be ACTIVE.
OneChosen ==
  \A e \in 1 .. MaxEffects : Chosen(e) =>
    open /\ view = "ACTIVE" /\ \A f \in 1 .. MaxEffects \ {e} : ~Chosen(f)
\* The session is known while its id is kept, and stopped when that is given up.
StopsOnce ==
  /\ current => open /\ request = "KNOWN" /\ stopped = 0
  /\ ~current => stopped = IF request = "KNOWN" THEN 1 ELSE 0
PlayerInv == PlayerTypes /\ OneChosen /\ StopsOnce

\* Effects that are disposed of neither play nor are about to.
LEMMA DisposedChoosesNone ==
  ASSUME PlayerTypes
  PROVE  /\ Player!Disposed \in [1 .. MaxEffects -> EffectStates]
         /\ \A e \in 1 .. MaxEffects : Player!Disposed[e] \notin {"LOADING", "PLAYING"}
  BY DEF PlayerTypes, EffectStates, Player!Disposed

\* A new status runs one effect at most.
LEMMA SetSessionKeeps ==
  ASSUME PlayerTypes, OneChosen, open, UNCHANGED open, NEW status, Player!SetSession(status)
  PROVE  effects' \in [1 .. MaxEffects -> EffectStates] /\ OneChosen'
<1> USE DEF OneChosen, Chosen, EffectStates
<1>1. CASE status = view
  BY <1>1 DEF PlayerTypes, Player!SetSession
<1>2. CASE status # view /\ status # "ACTIVE"
  BY <1>2, DisposedChoosesNone DEF Player!SetSession
<1>3. CASE status # view /\ status = "ACTIVE"
  <2>1. PICK e \in DOMAIN effects : effects' = [Player!Disposed EXCEPT ![e] = "LOADING"]
    BY <1>3 DEF Player!SetSession
  <2>2. e \in 1 .. MaxEffects /\ view' = "ACTIVE"
    BY <1>3, <2>1 DEF PlayerTypes, Player!SetSession
  <2>3. QED
    BY <2>1, <2>2, DisposedChoosesNone
<1>4. QED
  BY <1>1, <1>2, <1>3

\* Every step of the player keeps PlayerInv.
LEMMA PlayerStepKeeps ==
  ASSUME PlayerInv, Player!PlayerStep
  PROVE  PlayerInv'
<1> USE DEF PlayerInv
<1>1. CASE Player!Create \/ Player!Progress \/ (\E arrives \in BOOLEAN : Player!Stop(arrives))
           \/ (\E p \in DOMAIN polls : Player!Read(p) \/ Player!Poll(p))
           \/ (\E hidden \in BOOLEAN : Player!Hide(hidden)) \/ Player!Rerender
  <2>1. /\ UNCHANGED <<open, current, view, effects, stopped>>
        /\ request' = "KNOWN" <=> request = "KNOWN"
    BY <1>1 DEF Player!Create, Player!Progress, Player!Stop, Player!Read, Player!Poll,
       Player!Hide, Player!Rerender, Player!player, Player!requests
  <2>2. QED
    BY <2>1 DEF PlayerTypes, OneChosen, Chosen, StopsOnce
<1>2. ASSUME NEW answered \in BOOLEAN, Player!Created(answered)
      PROVE  PlayerInv'
  <2>1. CASE answered /\ open
    <3>1. /\ Player!SetSession("STARTING") /\ UNCHANGED <<open, stopped>>
          /\ request # "KNOWN" /\ request' = "KNOWN" /\ current'
      BY <1>2, <2>1 DEF Player!Created
    <3>2. QED
      BY <2>1, <3>1, SetSessionKeeps DEF PlayerTypes, StopsOnce
  <2>2. CASE ~(answered /\ open)
    BY <1>2, <2>2 DEF Player!Created, PlayerTypes, OneChosen, Chosen, StopsOnce
  <2>3. QED
    BY <2>1, <2>2
<1>3. ASSUME NEW answered \in BOOLEAN, NEW p \in DOMAIN polls, Player!Polled(p, answered)
      PROVE  PlayerInv'
  <2>1. UNCHANGED <<open, current, stopped, request>>
    BY <1>3 DEF Player!Polled
  <2>2. CASE answered /\ open
    <3>1. Player!SetSession(polls[p])
      BY <1>3, <2>2 DEF Player!Polled
    <3>2. QED
      BY <2>1, <2>2, <3>1, SetSessionKeeps DEF PlayerTypes, StopsOnce
  <2>3. CASE ~(answered /\ open)
    <3>1. UNCHANGED <<view, effects>>
      BY <1>3, <2>3 DEF Player!Polled
    <3>2. QED
      BY <2>1, <3>1 DEF PlayerTypes, OneChosen, Chosen, StopsOnce
  <2>4. QED
    BY <2>2, <2>3
<1>4. ASSUME NEW e \in DOMAIN effects, Player!Loaded(e) \/ Player!PlayFails(e)
      PROVE  PlayerInv'
  <2>1. UNCHANGED <<open, current, view, request, stopped>>
    BY <1>4 DEF Player!Loaded, Player!PlayFails, Player!requests
  <2>2. /\ effects' \in [1 .. MaxEffects -> EffectStates]
        /\ \A f \in 1 .. MaxEffects : Chosen(f)' => Chosen(f)
    BY <1>4 DEF PlayerTypes, EffectStates, Chosen, Player!Loaded, Player!PlayFails
  <2>3. QED
    BY <2>1, <2>2 DEF PlayerTypes, OneChosen, StopsOnce
<1>5. CASE Player!Close \/ Player!TimerFires
  BY <1>5, DisposedChoosesNone DEF PlayerTypes, OneChosen, Chosen, StopsOnce, Player!Close,
     Player!TimerFires, Player!Send
<1>6. CASE Player!AskToStop
  BY <1>6 DEF PlayerTypes, OneChosen, Chosen, StopsOnce, Player!AskToStop, Player!Send
<1>7. QED
  BY <1>1, <1>2, <1>3, <1>4, <1>5, <1>6 DEF Player!PlayerStep

\* It holds of a player that was just opened,
LEMMA PlayerInvStarts == Player!Init => PlayerInv
  BY DEF Player!Init, PlayerInv, PlayerTypes, EffectStates, OneChosen, Chosen, StopsOnce

\* and says what OnePicture does.
LEMMA PlayerInvSuffices == PlayerInv => OnePicture
  BY DEF PlayerInv, PlayerTypes, OneChosen, Chosen, StopsOnce, OnePicture, Player!OnePicture

-----------------------------------------------------------------------------
(* Realtime *)

\* What a tab with an open stream has not been sent, it will be.
Told(t, v) == v <= newest[t] \/ \E n \in loads[t] : v <= n
LiveTypes ==
  /\ version \in Nat
  /\ wire \in [Tabs -> Nat] /\ newest \in [Tabs -> Nat] /\ loads \in [Tabs -> SUBSET Nat]
  /\ phase \in [Tabs -> {"asking", "ticket", "opening", "connected", "waiting"}]
ChangesReach ==
  \A t \in Tabs : phase[t] = "connected" /\ t \in clients /\ wire[t] = 0 =>
    \A v \in 1 .. version : v \in lost \/ v \in unpublished \/ Told(t, v)
LiveInv == LiveTypes /\ ChangesReach /\ clients \subseteq Tabs /\ shown \in [Tabs -> Nat]

\* Every step of the server and the tabs keeps LiveInv.
LEMMA LiveStepKeeps ==
  ASSUME LiveInv, Live!RealtimeStep \/ Live!Restart
  PROVE  LiveInv'
<1> USE DEF LiveInv, LiveTypes
<1>1. CASE Live!Commit \/ Live!Close \/ Live!Restart
  BY <1>1 DEF ChangesReach, Told, Live!Commit, Live!Close, Live!Restart, Live!browser
<1>2. ASSUME NEW v \in unpublished, Live!PublishLost(v)
      PROVE  LiveInv'
  BY <1>2 DEF ChangesReach, Told, Live!PublishLost, Live!browser
<1>3. ASSUME NEW v \in unpublished, NEW slow \in SUBSET clients, Live!Publish(v, slow)
      PROVE  LiveInv'
  BY <1>3 DEF ChangesReach, Told, Live!Publish, Live!Ended
<1>4. ASSUME NEW t \in Tabs,
             \/ Live!StreamEnds(t) \/ Live!TicketObtained(t) \/ Live!Connect(t)
             \/ Live!Refused(t) \/ Live!SourceFails(t) \/ Live!Retry(t)
      PROVE  LiveInv'
  BY <1>4 DEF ChangesReach, Told, Live!StreamEnds, Live!TicketObtained, Live!Connect,
     Live!Refused, Live!SourceFails, Live!Retry, Live!Ended, Live!In, Live!Goto, Live!server
<1>5. ASSUME NEW t \in Tabs, Live!Ready(t) \/ Live!Message(t) \/ Live!Poll(t)
      PROVE  LiveInv'
  BY <1>5 DEF ChangesReach, Told, Live!Ready, Live!Message, Live!Poll, Live!Load, Live!In,
     Live!Goto, Live!server
<1>6. ASSUME NEW t \in Tabs, NEW v \in loads[t], Live!Show(t, v) \/ Live!LoadFails(t, v)
      PROVE  LiveInv'
  BY <1>6 DEF ChangesReach, Told, Live!Show, Live!LoadFails, Live!Arrived, Live!server
<1>7. QED
  BY <1>1, <1>2, <1>3, <1>4, <1>5, <1>6 DEF Live!RealtimeStep

\* It holds before there are tabs,
LEMMA LiveInvStarts == Live!Init => LiveInv
  BY DEF Live!Init, LiveInv, LiveTypes, ChangesReach

\* and where no load is under way, what is told is shown.
LEMMA LiveInvSuffices == LiveInv => ShownIsFresh
  BY DEF LiveInv, LiveTypes, ChangesReach, Told, ShownIsFresh, Live!ShownIsFresh, Live!Quiet, Live!In
-----------------------------------------------------------------------------
(* Monitoring *)

\* At first there is nothing to tell.
LEMMA EventsStart ==
  ASSUME Init
  PROVE  GatewayFits /\ EventInv /\ PresenceInv /\ DeliveryInv
<1>1. /\ gateway = [status |-> "NONE", recent |-> FALSE] /\ events = <<>>
      /\ alert = [e \in EventIds |-> "NONE"] /\ notification = [e \in EventIds |-> NoRow]
      /\ work = [h \in Handlers |-> Idle] /\ sent = [e \in EventIds |-> 0]
  BY DEF Init
<1>2. \A h \in Handlers : /\ ~Busy(h) /\ ~Processing(h) /\ ~At(h, "ingest") /\ InHand(h) = {}
                          /\ ~Beating(h) /\ ~Reconciling(h) /\ ~Beaten(h)
  BY <1>1 DEF Busy, Processing, At, InHand, Beating, Reconciling, Beaten, Idle
<1>3. GatewayFits /\ gateway.status = "NONE"
  BY <1>1 DEF GatewayFits
<1>4. events \in Seq(Types) /\ Len(events) = 0 /\ DOMAIN events = {}
  BY <1>1
<1>5. EventTypes
  BY <1>1, <1>2, <1>4, MaxEventsAssumption DEF EventTypes, Alerts, JobFits
<1>6. EventInv
  BY <1>4, <1>5 DEF EventInv, EventsAlerted
<1>7. PresenceInv
  BY <1>2, <1>3 DEF PresenceInv, Apart, OfflineIsTold, OnlineHeals
<1>8. DeliveryInv
  <2>1. RowTypes
    BY <1>1, <1>2 DEF RowTypes
  <2>2. RowsKept
    BY <1>1, <1>2 DEF RowsKept, ProcessedOnce, Holds
  <2>3. ASSUME NEW e \in EventIds
        PROVE  HeldOnce(e) /\ HeldIsKnown(e) /\ RestIsTold(e)
    BY <1>1, <1>2 DEF HeldOnce, HeldIsKnown, RestIsTold, Holds, NoRow
  <2>4. QED
    BY <2>1, <2>2, <2>3 DEF DeliveryInv
<1>9. QED
  BY <1>3, <1>6, <1>7, <1>8

\* What the events' invariants say stays so while the dashboards, the analyses and the
\* players have their turns.
LEMMA EventsStutter ==
  ASSUME GatewayFits, EventInv, PresenceInv, DeliveryInv, UNCHANGED vars
  PROVE  GatewayFits' /\ EventInv' /\ PresenceInv' /\ DeliveryInv'
<1>1. UNCHANGED <<pairing, gateway, events, alert, notification, subscribed, sent, contended,
                  work, raced, dropped>>
  BY DEF vars, delivery
<1>2. GatewayFits'
  BY <1>1 DEF GatewayFits
<1>3. EventInv'
  BY <1>1 DEF EventInv, EventTypes, EventsAlerted, JobFits, Busy, At, Processing
<1>4. PresenceInv'
  BY <1>1 DEF PresenceInv, Apart, OfflineIsTold, OnlineHeals, AboutPresence, Unresolved, Healing,
     Telling, Beaten, Beating, Reconciling, Processing, About, At
<1>5. DeliveryInv'
  <2>1. RowTypes' /\ RowsKept'
    BY <1>1 DEF DeliveryInv, RowTypes, RowsKept, ProcessedOnce, Holds, InHand, Busy, Processing, At
  <2>2. \A e : /\ HeldOnce(e) => HeldOnce(e)'
               /\ HeldIsKnown(e) => HeldIsKnown(e)'
               /\ RestIsTold(e) => RestIsTold(e)'
    BY <1>1 DEF HeldOnce, HeldIsKnown, RestIsTold, Holds, InHand, Accepted, First, At
  <2>3. QED
    BY <1>1, <2>1, <2>2 DEF DeliveryInv
<1>6. QED
  BY <1>2, <1>3, <1>4, <1>5

\* RiskInv is about the variables of MotionRisk only,
LEMMA RiskStutters ==
  ASSUME RiskInv, UNCHANGED risk
  PROVE  RiskInv'
<1>1. UNCHANGED <<schedules, zone, moved, analysis, reading, possible, certain, excused>>
  BY DEF risk
<1>2. RiskTypes'
  BY <1>1 DEF RiskInv, RiskTypes
<1>3. Risk!Scope' = Risk!Scope /\ Risk!Applicable' = Risk!Applicable
  BY <1>1 DEF Risk!Scope, Risk!Applicable
<1>4. \A r \in Reports : /\ Unmet(r) => Unmet(r)'
                         /\ Risk!InAnalysis(r)' => Risk!InAnalysis(r)
                         /\ Risk!Truth(r)' = Risk!Truth(r)
                         /\ Persistent(r)' <=> Persistent(r)
  BY <1>1, <1>3 DEF Unmet, Risk!InAnalysis, Risk!Truth, Risk!Recent, Persistent
<1>5. \A r \in Reports : ReadsCurrent(r) => ReadsCurrent(r)'
  BY <1>1, <1>3 DEF ReadsCurrent, Risk!SmallHours
<1>6. \A r \in Reports : Judged(r) => Judged(r)'
  BY <1>1, <1>4, <1>5 DEF Judged, Found, Risk!Asked, Risk!At
<1>7. QED
  BY <1>2, <1>4, <1>6 DEF RiskInv

\* LiveInv about those of Realtime,
LEMMA LiveStutters ==
  ASSUME LiveInv, UNCHANGED live
  PROVE  LiveInv'
  BY DEF live, LiveInv, LiveTypes, ChangesReach, Told

\* and PlayerInv about those of StreamPlayer.
LEMMA PlayerStutters ==
  ASSUME PlayerInv, UNCHANGED player
  PROVE  PlayerInv'
  BY DEF player, PlayerInv, PlayerTypes, OneChosen, StopsOnce, Chosen

MonitoringInv ==
  /\ GatewayFits /\ EventInv /\ PresenceInv /\ DeliveryInv
  /\ RiskInv /\ LiveInv /\ PlayerInv

\* The invariants hold at first,
LEMMA MonitoringInvStarts ==
  ASSUME MonitoringInit
  PROVE  MonitoringInv
  BY EventsStart, RiskInvStarts, LiveInvStarts, PlayerInvStarts DEF MonitoringInit, MonitoringInv

\* and whoever takes a step keeps all of them.
LEMMA MonitoringInvKept ==
  ASSUME MonitoringInv, [MonitoringNext]_<<vars, risk, live, player>>
  PROVE  MonitoringInv'
<1> USE DEF MonitoringInv
<1>1. \/ Next
      \/ UNCHANGED vars
  BY DEF MonitoringNext
<1>2. GatewayFits' /\ EventInv' /\ PresenceInv' /\ DeliveryInv'
  BY <1>1, GatewayStepKeeps, EventStepKeeps, PresenceStepKeeps, DeliveryStepKeeps, EventsStutter
<1>3. RiskInv'
  <2>1. Risk!RiskStep \/ UNCHANGED risk
    BY DEF MonitoringNext
  <2>2. QED
    BY <2>1, RiskStepKeeps, RiskStutters
<1>4. LiveInv'
  <2>1. (Live!RealtimeStep \/ Live!Restart) \/ UNCHANGED live
    BY DEF MonitoringNext
  <2>2. QED
    BY <2>1, LiveStepKeeps, LiveStutters
<1>5. PlayerInv'
  <2>1. Player!PlayerStep \/ UNCHANGED player
    BY DEF MonitoringNext
  <2>2. QED
    BY <2>1, PlayerStepKeeps, PlayerStutters
<1>6. QED
  BY <1>2, <1>3, <1>4, <1>5

\* In every execution the parts keep their invariants.
THEOREM MonitoringInductive == MonitoringSpec => []MonitoringInv
  BY MonitoringInvStarts, MonitoringInvKept, PTL DEF MonitoringSpec

\* However heartbeats, reconciliations, requests and deaths of handlers interleave, and
\* whatever was wrong before: unless the two have met since the last transition that was
\* told in full, an ONLINE gateway has no alert of being offline and an OFFLINE one has.
THEOREM PresenceIsTold == MonitoringSpec => []AlertTellsPresence
<1>1. MonitoringInv => AlertTellsPresence
  BY PresenceSuffices DEF MonitoringInv, EventInv
<1>2. QED
  BY <1>1, MonitoringInductive, PTL

\* For any number of events and handlers: an event that calls for an alert has one, or its
\* handler is about to write it, or that handler has ended.
THEOREM AlertsFollow == MonitoringSpec => []EventsAlerted
<1>1. MonitoringInv => EventsAlerted
  BY DEF MonitoringInv, EventInv
<1>2. QED
  BY <1>1, MonitoringInductive, PTL

\* For any number of turns at the same time and of attempts: a notification that one turn
\* at a time has in hand, and records, is delivered once at most, and its row says so.
THEOREM DeliveryIsTold == MonitoringSpec => []RowTellsDelivery
<1>1. MonitoringInv => RowTellsDelivery
  BY DeliverySuffices DEF MonitoringInv, EventInv
<1>2. QED
  BY <1>1, MonitoringInductive, PTL

\* For any days, schedules, windows and numbers of motions, whatever is changed while they
\* are analyzed: a classification holds nothing against a motion that was not true of it
\* meanwhile, by the words of the settings, and leaves out nothing that was true of it all
\* the time; but for the hours, if a schedule was saved between two queries that read one,
\* or if the motion was in the morning after an interval that passes midnight.
THEOREM JudgmentsAreGrounded == MonitoringSpec => []Grounded
<1>1. MonitoringInv => Grounded
  BY RiskInvSuffices DEF MonitoringInv
<1>2. QED
  BY <1>1, MonitoringInductive, PTL

\* For any number of tabs, connections and changes: a dashboard that is told of changes
\* shows them.
THEOREM ChangesAreShown == MonitoringSpec => []ShownIsFresh
<1>1. MonitoringInv => ShownIsFresh
  BY LiveInvSuffices DEF MonitoringInv
<1>2. QED
  BY <1>1, MonitoringInductive, PTL

\* For any number of polls and effects: one picture at most, and a session that is stopped
\* once.
THEOREM OnePictureAtMost == MonitoringSpec => []OnePicture
<1>1. MonitoringInv => OnePicture
  BY PlayerInvSuffices DEF MonitoringInv
<1>2. QED
  BY <1>1, MonitoringInductive, PTL

\* What others did is no handler's beginning.
LEMMA StaysSilent ==
  ASSUME EventTypes, NEW h \in Handlers, Extended, \A g \in Handlers \ {h} : work'[g] = work[g],
         Silenced, gateway'.status = "DISABLED", ~Beating(h)'
  PROVE  Silenced'
<1>1. \A g \in Handlers \ {h} : ~Beating(g)'
  BY OthersKeepRoles DEF Silenced
<1>2. QED
  BY <1>1 DEF Silenced

\* A disabled gateway that nobody beats for is made UNKNOWN or REMOVED by its owner, or
\* stays as it is.
LEMMA SilenceKept ==
  ASSUME EventInv, GatewayFits, [Next]_vars, Silenced
  PROVE  Silenced' \/ gateway'.status \in {"UNKNOWN", "REMOVED"}
<1>1. EventTypes /\ gateway.status = "DISABLED" /\ \A h \in Handlers : ~Beating(h)
  BY DEF EventInv, Silenced
<1>2. CASE UNCHANGED vars
  <2>1. UNCHANGED <<gateway, work, events>>
    BY <1>2 DEF vars
  <2>2. QED
    BY <1>1, <2>1 DEF Silenced, Beating, Processing, About, At
<1>3. CASE OtherStep
  <2>1. /\ UNCHANGED <<events, work>>
        /\ \/ gateway' = gateway \/ gateway'.status = gateway.status
           \/ gateway'.status \in {"DISABLED", "UNKNOWN", "REMOVED"}
    BY <1>1, <1>3, OtherStepIs
  <2>2. QED
    BY <1>1, <2>1 DEF Silenced, Beating, Processing, About, At
<1>4. ASSUME NEW h \in Handlers, PlainStep(h)
      PROVE  Silenced' \/ gateway'.status \in {"UNKNOWN", "REMOVED"}
  <2>1. QuietStep(h)
    <3>1. ~Authenticate(h) /\ ~ReconcileFind(h)
      BY <1>1 DEF Authenticate, ReconcileFind, Stale
    <3>2. ~HeartbeatRead(h) /\ ~Heartbeat(h)
      BY <1>1 DEF HeartbeatRead, Heartbeat, Beating, At
    <3>3. QED
      BY <1>4, <3>1, <3>2 DEF PlainStep, QuietStep
  <2>2. /\ UNCHANGED events /\ (gateway' = gateway \/ gateway'.status = "UNKNOWN")
        /\ work'[h].pc \in {"idle", "claim", "expire", "ingest"}
        /\ \A g \in Handlers \ {h} : work'[g] = work[g]
    BY <1>1, <2>1, QuietStepIs
  <2>3. ~Beating(h)'
    BY <2>2 DEF Beating, Processing, At
  <2>4. QED
    BY <1>1, <2>2, <2>3, StaysSilent DEF Extended
<1>5. ASSUME NEW h \in Handlers, RaiseStep(h)
      PROVE  Silenced' \/ gateway'.status \in {"UNKNOWN", "REMOVED"}
  <2>1. PICK type \in Types :
          /\ Raise(h, type) /\ ~Processing(h) /\ UNCHANGED <<alert, dropped>>
          /\ \/ At(h, "transition")
             \/ gateway.status = "ONLINE"
             \/ type \in Motions /\ gateway' = gateway
    BY <1>1, <1>5, RaiseStepIs
  <2>2. type \in Motions /\ gateway' = gateway
    BY <1>1, <2>1 DEF Beating, At
  <2>3. /\ Extended /\ \A g \in Handlers \ {h} : work'[g] = work[g]
        /\ Processing(h)' /\ About(h)' = type
    BY <2>1, RaiseKeeps
  <2>4. ~Beating(h)'
    BY <2>2, <2>3, MotionsAssumption DEF Beating, Processing, At
  <2>5. QED
    BY <1>1, <2>2, <2>3, <2>4, StaysSilent
<1>6. ASSUME NEW h \in Handlers, ProcessStep(h) \/ Die(h)
      PROVE  Silenced'
  <2>1. Finish(h) /\ UNCHANGED <<gateway, events>>
    BY <1>1, <1>6, ProcessStepIs, DieIs
  <2>2. work'[h] = Idle /\ \A g \in Handlers \ {h} : work'[g] = work[g]
    BY <1>1, <2>1, FinishIs
  <2>3. ~Beating(h)'
    BY <2>2 DEF Beating, Processing, At, Idle
  <2>4. QED
    BY <1>1, <2>1, <2>2, <2>3, StaysSilent DEF Extended
<1>7. ASSUME NEW h \in Handlers, TurnStep(h)
      PROVE  Silenced'
  <2>1. /\ UNCHANGED <<gateway, events>> /\ work'[h].pc \in {"idle", "turn", "accepted"}
        /\ \A g \in Handlers \ {h} : work'[g] = work[g]
    BY <1>1, <1>7, TurnStepIs
  <2>2. ~Beating(h)'
    BY <2>1 DEF Beating, Processing, At
  <2>3. QED
    BY <1>1, <2>1, <2>2, StaysSilent DEF Extended
<1>8. QED
  BY <1>2, <1>3, <1>4, <1>5, <1>6, <1>7, NextIs DEF HandlerStep, TurnStep

\* A disabled gateway stays disabled, and silent, until its owner decides otherwise.
THEOREM DisabledStaysSilent == MonitoringSpec => DisabledStays
<1>1. ASSUME MonitoringInv, [MonitoringNext]_<<vars, risk, live, player>>
      PROVE  [Silenced => Silenced' \/ gateway'.status \in {"UNKNOWN", "REMOVED"}]_vars
  <2>1. [Next]_vars
    BY <1>1 DEF MonitoringNext
  <2>2. QED
    BY <1>1, <2>1, SilenceKept DEF MonitoringInv
<1>2. QED
  BY <1>1, MonitoringInductive, PTL DEF MonitoringSpec, DisabledStays
=============================================================================
