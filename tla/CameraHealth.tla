---------------------------- MODULE CameraHealth ----------------------------
(***************************************************************************)
(* The health of one camera: its gateway checks it and sends what it       *)
(* observes, and the API records it and writes an event when the camera    *)
(* comes or goes.  Next to them write the camera's owner, the gateway's    *)
(* motion monitor by notices of its own, and tests of the camera.          *)
(*                                                                         *)
(* Gateway and API interleave at every await, the gateway restarts, and a  *)
(* handler of the API ends anywhere.  The gateway's queue is abstract: a   *)
(* message may come at any time, in any order, again, or never.  Left out: *)
(* the hysteresis of a check's result, the rediscovery of a camera's       *)
(* address, alerts, which only read the events, and that a camera may be   *)
(* given to another gateway.                                               *)
(***************************************************************************)
EXTENDS Naturals, Sequences

CONSTANTS Runtimes,         \* objects in the gateway's memory
          Handlers,         \* requests to the API in progress at the same time
          OnlineNotices,    \* eventIds of the motion monitor's notices
          OfflineNotices,
          None,
          MaxObservations,  \* bounds
          MaxGeneration

ASSUME BoundsAssumption == MaxObservations \in Nat /\ MaxGeneration \in Nat \ {0}
ASSUME NamesAssumption ==
  /\ None \notin Runtimes /\ OnlineNotices \cap OfflineNotices = {}
  /\ (OnlineNotices \cup OfflineNotices) \cap Nat = {}

VARIABLES camera,        \* the row of Camera
          runtime,       \* what the gateway checks with
          current,       \* the one in CameraHealthManager.runtime
          observations,  \* everything observed, in order; a message is its place
          ledger,        \* messages that have a GatewayMessage row
          events,        \* the camera's connectivity events
          work,          \* what each handler of the API is doing
          rough          \* history: handlers overlapped, one died, or a
                       \* test wrote the status, of which no event tells

cloud == <<camera, ledger, events, work, rough>>
gateway == <<runtime, current, observations>>
vars == <<cloud, gateway>>

\* The other five statuses are never told apart.
Statuses == {"ONLINE", "OFFLINE", "OTHER"}
Camera == [active : BOOLEAN, deleted : BOOLEAN, status : Statuses,
           generation : Nat \ {0}, sequence : Nat, checkedAt : Nat]
Observation == [by : Runtimes, generation : Nat \ {0}, sequence : Nat \ {0}, status : Statuses]

Unused == [generation |-> 0, sequence |-> 0, checking |-> FALSE]
Runtime == [generation : Nat, sequence : Nat, checking : BOOLEAN]

Notices == OnlineNotices \cup OfflineNotices
Idle == [pc |-> "idle"]
MessageSteps == {"received", "find", "update", "event"}
Work == [pc : MessageSteps \ {"update"}, of : Nat]
          \cup [pc : {"update"}, of : Nat, previous : Statuses]
          \cup [pc : {"notice"}, of : Notices]
          \cup [pc : {"status", "connect"}]

Init ==
  /\ camera = [active |-> TRUE, deleted |-> FALSE, status |-> "OTHER", generation |-> 1, sequence |-> 0,
               checkedAt |-> 0]
  /\ runtime = [r \in Runtimes |-> Unused] /\ current = None
  /\ observations = <<>>
  /\ ledger = {} /\ events = <<>>
  /\ work = [h \in Handlers |-> Idle] /\ rough = FALSE
-----------------------------------------------------------------------------
(* CameraHealthManager *)

InService == camera.active /\ ~camera.deleted

\* The configuration of the cloud: a runtime of an older generation is replaced,
\* though its check may be going on.
Sync ==
  /\ \/ /\ InService
        /\ current # None => runtime[current].generation # camera.generation
        /\ \E r \in Runtimes :
             /\ runtime[r] = Unused
             /\ runtime' = [runtime EXCEPT ![r].generation = camera.generation]
             /\ current' = r
     \/ /\ ~InService
        /\ current' = None /\ UNCHANGED runtime
  /\ UNCHANGED <<cloud, observations>>

\* The command was written when the camera was disabled or removed, and comes again until its
\* acknowledgement arrives.
Unregister ==
  /\ camera.generation > 1 \/ camera.deleted
  /\ current' = None
  /\ UNCHANGED <<cloud, runtime, observations>>

Check ==
  /\ current # None /\ ~runtime[current].checking
  /\ runtime' = [runtime EXCEPT ![current].checking = TRUE]
  /\ UNCHANGED <<cloud, current, observations>>

\* The check ends, and its observation is numbered and queued.  Bound: MaxObservations.
Observe(r) ==
  /\ runtime[r].checking /\ Len(observations) < MaxObservations
  /\ runtime' = [runtime EXCEPT ![r].checking = FALSE, ![r].sequence = @ + 1]
  /\ \E status \in Statuses :
       observations' = Append(observations,
                              [by |-> r, generation |-> runtime[r].generation,
                               sequence |-> runtime[r].sequence + 1, status |-> status])
  /\ UNCHANGED <<cloud, current>>

Restart ==
  /\ runtime' = [r \in Runtimes |-> [runtime[r] EXCEPT !.checking = FALSE]]
  /\ current' = None
  /\ UNCHANGED <<cloud, observations>>
-----------------------------------------------------------------------------
(* The API: CameraHealthService.ingest *)

At(h, pc) == work[h].pc = pc
Begin(h, job) ==
  /\ work[h] = Idle
  /\ work' = [work EXCEPT ![h] = job]
  /\ rough' = (rough \/ \E g \in Handlers : work[g] # Idle)
Goto(h, job) == work' = [work EXCEPT ![h] = job] /\ UNCHANGED rough
Finish(h) == Goto(h, Idle)

Seen(h) == observations[work[h].of]

Die(h) ==
  /\ work[h] # Idle
  /\ work' = [work EXCEPT ![h] = Idle] /\ rough' = TRUE
  /\ UNCHANGED <<camera, ledger, events, gateway>>

Send(h, n) ==
  /\ n \in DOMAIN observations
  /\ Begin(h, [pc |-> "received", of |-> n])
  /\ UNCHANGED <<camera, ledger, events, gateway>>

\* The row comes before the effect: who has one is a duplicate.
Receive(h) ==
  /\ At(h, "received")
  /\ ledger' = ledger \cup {work[h].of}
  /\ IF work[h].of \in ledger THEN Finish(h) ELSE Goto(h, [pc |-> "find", of |-> work[h].of])
  /\ UNCHANGED <<camera, events, gateway>>

\* An observation is ignored when it is five minutes old.
Ignore(h) ==
  /\ At(h, "find")
  /\ Finish(h)
  /\ UNCHANGED <<camera, ledger, events, gateway>>

Newer(h) == Seen(h).generation = camera.generation /\ Seen(h).sequence > camera.sequence
FindCamera(h) ==
  /\ At(h, "find")
  /\ IF InService /\ Newer(h)
     THEN Goto(h, [pc |-> "update", of |-> work[h].of, previous |-> camera.status])
     ELSE Finish(h)
  /\ UNCHANGED <<camera, ledger, events, gateway>>

Recorded(row, n) ==
  [row EXCEPT !.status = observations[n].status, !.sequence = observations[n].sequence,
              !.checkedAt = n]

\* A transition, unless the row already had the status that find read; one to another
\* status has no event.
Transition(h) == Seen(h).status \notin {work[h].previous, "OTHER"}

\* Variant: the row is written by id.
UpdateById(h) ==
  /\ At(h, "update")
  /\ camera' = Recorded(camera, work[h].of)
  /\ IF Transition(h) THEN Goto(h, [pc |-> "event", of |-> work[h].of]) ELSE Finish(h)
  /\ UNCHANGED <<ledger, events, gateway>>
\* updateMany, with the generation and the sequence in its condition.
Update(h) ==
  /\ At(h, "update")
  /\ camera' = IF Newer(h) THEN Recorded(camera, work[h].of) ELSE camera
  /\ IF Newer(h) /\ Transition(h)
     THEN Goto(h, [pc |-> "event", of |-> work[h].of]) ELSE Finish(h)
  /\ UNCHANGED <<ledger, events, gateway>>

WriteEvent(h) ==
  /\ At(h, "event")
  /\ events' = Append(events, [of |-> work[h].of, type |-> Seen(h).status])
  /\ Finish(h)
  /\ UNCHANGED <<camera, ledger, gateway>>
-----------------------------------------------------------------------------
(* EventService.ingest: a notice of the motion monitor, as often as it comes *)

TypeOf(e) == IF e \in OnlineNotices THEN "ONLINE" ELSE "OFFLINE"

\* A notice of what the camera is already is ignored.
FindNotice(h, e) ==
  /\ InService /\ camera.status # TypeOf(e)
  /\ Begin(h, [pc |-> "notice", of |-> e])
  /\ UNCHANGED <<camera, ledger, events, gateway>>

\* Variant: the event is written, and the camera is not.
WriteNoticeOnly(h) ==
  /\ At(h, "notice")
  /\ LET e == work[h].of IN
       IF \E i \in DOMAIN events : events[i].of = e THEN UNCHANGED <<camera, events>>
       ELSE /\ events' = Append(events, [of |-> e, type |-> TypeOf(e)])
            /\ UNCHANGED camera
  /\ Finish(h)
  /\ UNCHANGED <<ledger, gateway>>
\* One transaction: the event, unless there is one of the same eventId, and the camera,
\* by id.
WriteNotice(h) ==
  /\ At(h, "notice")
  /\ LET e == work[h].of IN
       IF \E i \in DOMAIN events : events[i].of = e THEN UNCHANGED <<camera, events>>
       ELSE /\ events' = Append(events, [of |-> e, type |-> TypeOf(e)])
            /\ camera' = [camera EXCEPT !.status = TypeOf(e)]
  /\ Finish(h)
  /\ UNCHANGED <<ledger, gateway>>
-----------------------------------------------------------------------------
(* CameraService, and requestRetry *)

\* The reads they begin with.
FindUndeleted(h) ==
  /\ ~camera.deleted
  /\ Begin(h, [pc |-> "status"])
  /\ UNCHANGED <<camera, ledger, events, gateway>>

FindActive(h) ==
  /\ InService
  /\ Begin(h, [pc |-> "connect"])
  /\ UNCHANGED <<camera, ledger, events, gateway>>

\* By id, like the next two.  Bound: MaxGeneration.
SetStatus(h, active) ==
  /\ At(h, "status") /\ camera.generation < MaxGeneration
  /\ camera' = [camera EXCEPT !.active = active, !.status = "OTHER", !.generation = @ + 1]
  /\ Finish(h)
  /\ UNCHANGED <<ledger, events, gateway>>

\* CONNECTING; the check it asks for may come at any time anyway.
Retry(h) ==
  /\ At(h, "connect")
  /\ camera' = [camera EXCEPT !.status = "OTHER"]
  /\ Finish(h)
  /\ UNCHANGED <<ledger, events, gateway>>

\* Bound: MaxGeneration.
UpdateCredentials(h) ==
  /\ At(h, "connect") /\ camera.generation < MaxGeneration
  /\ camera' = [camera EXCEPT !.status = "OTHER", !.generation = @ + 1]
  /\ Finish(h)
  /\ UNCHANGED <<ledger, events, gateway>>

Remove ==
  /\ ~camera.deleted
  /\ camera' = [camera EXCEPT !.active = FALSE, !.deleted = TRUE]
  /\ UNCHANGED <<ledger, events, work, rough, gateway>>

\* The acknowledgement of TEST_CAMERA, at any time and again, of a disabled or removed
\* camera too.
Test ==
  /\ \E status \in Statuses : camera' = [camera EXCEPT !.status = status]
  /\ rough' = TRUE
  /\ UNCHANGED <<ledger, events, work, gateway>>
-----------------------------------------------------------------------------
HandlerStep(h) ==
  \/ Die(h) \/ Receive(h) \/ Ignore(h) \/ FindCamera(h) \/ Update(h)
  \/ WriteEvent(h) \/ WriteNotice(h) \/ FindUndeleted(h) \/ FindActive(h)
  \/ Retry(h) \/ UpdateCredentials(h)
  \/ \E n \in 1 .. MaxObservations : Send(h, n)
  \/ \E e \in Notices : FindNotice(h, e)
  \/ \E active \in BOOLEAN : SetStatus(h, active)

Next ==
  \/ \E h \in Handlers : HandlerStep(h)
  \/ Remove \/ Test \/ Sync \/ Unregister \/ Check \/ Restart
  \/ \E r \in Runtimes : Observe(r)

Spec == Init /\ [][Next]_vars
-----------------------------------------------------------------------------
(* Properties *)

\* Rows, messages and handlers are what the schema and the code can hold.
TypeOK ==
  /\ camera \in Camera
  /\ runtime \in [Runtimes -> Runtime] /\ current \in Runtimes \cup {None}
  /\ observations \in Seq(Observation)
  /\ ledger \subseteq Nat
  /\ events \in Seq([of : Nat \cup Notices, type : {"ONLINE", "OFFLINE"}])
  /\ work \in [Handlers -> Work \cup {Idle}] /\ rough \in BOOLEAN

\* What the camera's row says of its health is never replaced by an older observation,
\* however messages are delayed and repeated and however handlers overlap; unless the
\* gateway has begun to count again in the same generation, as it does after a restart.
CountedOnce ==
  \A q, r \in Runtimes :
    runtime[q].generation = camera.generation /\ runtime[r].generation = camera.generation
      => q = r
NewerOnly == [][CountedOnce => camera'.checkedAt >= camera.checkedAt]_vars

\* No observation reaches a camera that is disabled, though its check, its message or
\* the handler of it began before.  (A removed one keeps its generation.)
DisabledUntouched ==
  [][~camera.active /\ ~camera.deleted => camera'.checkedAt = camera.checkedAt]_vars

\* The last event tells whether the camera is online or offline, when nothing overlapped,
\* no handler died and no test was made.
EventsTellStatus ==
  ~rough /\ camera.status # "OTHER" /\ (\A h \in Handlers : ~At(h, "event"))
    => events # <<>> /\ events[Len(events)].type = camera.status
=============================================================================
