--------------------------- MODULE CameraDiscovery --------------------------
(***************************************************************************)
(* One session of discovery: the user's requests, the command the gateway  *)
(* polls for, its scan of the network, and the reports it sends through a  *)
(* LocalQueue.  Requests split where they await, and may end anywhere.     *)
(***************************************************************************)
EXTENDS Naturals, Sequences, FiniteSets

CONSTANTS Handlers,    \* requests in progress at the same time
          MaxTries     \* of LocalQueue

VARIABLES session,     \* the CameraDiscoverySession row
          found,       \* it has a candidate
          expired,     \* its expiresAt has passed
          commands,    \* the commands the gateway may be given: START, CANCEL
          scanning,    \* a scan is in progress
          received,    \* the GatewayMessage rows of its reports
          work,        \* what each handler is doing
          waiting,     \* the handler the gateway's flush waits for, or NONE
          disturbed,   \* history: a report came late, twice or not at all
          file, writers, flush, queued, gone, overlapped

queue == <<file, writers, flush, queued, gone, overlapped>>
gateway == <<commands, scanning, waiting, disturbed, queue>>
vars == <<session, found, expired, received, work, gateway>>

Open == {"DISPATCHED", "SCANNING", "RESULTS_AVAILABLE"}
Closed == {"COMPLETED", "FAILED", "CANCELED", "EXPIRED"}
Reports == {"SCANNING", "RESULTS", "COMPLETED", "FAILED", "CANCELED"}
Ends == {"COMPLETED", "FAILED"}

Queue == INSTANCE LocalQueue WITH Messages <- Reports

Nobody == "NONE"
Idle == [pc |-> "idle"]
Work == {Idle} \cup [pc : {"cancel", "confirm"}] \cup [pc : {"receive", "upsert", "write"}, report : Reports]

Init ==
  /\ session = [status |-> "NONE", confirmed |-> FALSE]
  /\ found = FALSE /\ expired = FALSE /\ received = {}
  /\ commands = {} /\ scanning = FALSE
  /\ work = [h \in Handlers |-> Idle]
  /\ waiting = Nobody /\ disturbed = FALSE
  /\ Queue!Init

At(h, pc) == work[h].pc = pc
Begin(h, job) == work[h] = Idle /\ work' = [work EXCEPT ![h] = job]
Turn(h, job) == work' = [work EXCEPT ![h] = job]
Finish(h) == Turn(h, Idle)
-----------------------------------------------------------------------------
(* CameraDiscoveryService: requests of the user *)

\* The gateway is ONLINE.  Expired sessions are deleted first, see CameraOnboarding.
Start ==
  /\ session.status = "NONE"
  /\ session' = [session EXCEPT !.status = "DISPATCHED"]
  /\ commands' = {"START"}
  /\ UNCHANGED <<found, expired, received, scanning, work, waiting, disturbed, queue>>

Lapse ==
  /\ session.status # "NONE" /\ ~expired
  /\ expired' = TRUE
  /\ UNCHANGED <<session, found, received, work, gateway>>

\* Before any look at the session: view, cancel and confirm.
Expire ==
  /\ expired /\ session.status \in Open
  /\ session' = [session EXCEPT !.status = "EXPIRED"]
  /\ UNCHANGED <<found, expired, received, work, gateway>>

CancelRead(h) ==
  /\ session.status \in Open /\ ~expired
  /\ Begin(h, [pc |-> "cancel"])
  /\ UNCHANGED <<session, found, expired, received, gateway>>

\* By id.
Cancel(h) ==
  /\ At(h, "cancel")
  /\ session' = [session EXCEPT !.status = "CANCELED"]
  /\ commands' = commands \cup {"CANCEL"}
  /\ Finish(h)
  /\ UNCHANGED <<found, expired, received, scanning, waiting, disturbed, queue>>

\* Whatever the status of the session.
ConfirmRead(h) ==
  /\ ~expired /\ found
  /\ Begin(h, [pc |-> "confirm"])
  /\ UNCHANGED <<session, found, expired, received, gateway>>

Confirm(h) ==
  /\ At(h, "confirm")
  /\ session' = [status |-> "COMPLETED", confirmed |-> TRUE]
  /\ Finish(h)
  /\ UNCHANGED <<found, expired, received, gateway>>
-----------------------------------------------------------------------------
(* The gateway: processCommands, WsDiscovery and the reports of a scan *)

cloud == <<session, found, expired, received, work>>
MainEnqueues == \E w \in writers : w.message \in {"SCANNING", "CANCELED"}
MainIsFree == flush = Queue!Resting /\ ~MainEnqueues

\* Bound: START is given once.  It ends when it is taken, or expires.
TakeStart ==
  /\ MainIsFree /\ "START" \in commands
  /\ commands' = commands \ {"START"}
  /\ Queue!EnqueueRead("SCANNING")
  /\ UNCHANGED <<cloud, scanning, waiting, disturbed>>

Enqueue(w) ==
  /\ Queue!Enqueue(w)
  /\ scanning' = (scanning \/ w.message = "SCANNING")
  /\ UNCHANGED <<cloud, commands, waiting, disturbed>>

\* A camera answers.  Bound: one.
Progress ==
  /\ scanning
  /\ Queue!EnqueueRead("RESULTS")
  /\ UNCHANGED <<cloud, commands, scanning, waiting, disturbed>>

\* The time is over, or the socket fails.
ScanEnds(report) ==
  /\ scanning
  /\ scanning' = FALSE
  /\ Queue!EnqueueRead(report)
  /\ UNCHANGED <<cloud, commands, waiting, disturbed>>

\* The scan is aborted: it ends at once, and that is reported as well.
TakeCancel ==
  /\ MainIsFree /\ "CANCEL" \in commands
  /\ commands' = commands \ {"CANCEL"}
  /\ Queue!EnqueueRead("CANCELED")
  /\ UNCHANGED <<cloud, scanning, waiting, disturbed>>

FlushRead ==
  /\ ~MainEnqueues /\ file # <<>>
  /\ Queue!FlushRead
  /\ UNCHANGED <<cloud, commands, scanning, waiting, disturbed>>

\* A report is sent, and the flush waits for the answer.
Send(h) ==
  /\ Queue!Sending /\ ~Queue!GivenUp /\ waiting = Nobody
  /\ Begin(h, [pc |-> "receive", report |-> Queue!First.message])
  /\ waiting' = h
  /\ UNCHANGED <<session, found, expired, received, commands, scanning, disturbed, queue>>

Answered ==
  /\ waiting # Nobody /\ work[waiting] = Idle
  /\ waiting' = Nobody
  /\ Queue!Sent
  /\ UNCHANGED <<cloud, commands, scanning, disturbed>>

\* The request is not answered, or with an error; its handler may go on.
Unanswered ==
  /\ Queue!Failed
  /\ waiting' = Nobody
  /\ disturbed' = TRUE
  /\ UNCHANGED <<cloud, commands, scanning>>

GiveUp ==
  /\ Queue!GiveUp
  /\ UNCHANGED <<cloud, commands, scanning, waiting, disturbed>>

FlushEnds ==
  /\ Queue!FlushEnds
  /\ UNCHANGED <<cloud, commands, scanning, waiting, disturbed>>

Restart ==
  /\ waiting' = Nobody /\ scanning' = FALSE
  /\ disturbed' = TRUE
  /\ Queue!Restart
  /\ UNCHANGED <<cloud, commands>>
-----------------------------------------------------------------------------
(* CameraDiscoveryService.ingest *)

Report(h) == work[h].report
Late == expired \/ session.status \in {"CANCELED", "EXPIRED"}

\* The row of the message comes first: what comes again is a duplicate, whatever has
\* become of the handler that took it.
Receive(h) ==
  /\ At(h, "receive")
  /\ received' = received \cup {Report(h)}
  /\ IF Report(h) \in received \/ Late THEN Finish(h)
     ELSE Turn(h, [work[h] EXCEPT !.pc = IF Report(h) \in {"RESULTS", "COMPLETED"}
                                         THEN "upsert" ELSE "write"])
  /\ UNCHANGED <<session, found, expired, gateway>>

\* The cameras of the report become candidates; a scan may end without one.
Upsert(h) ==
  /\ At(h, "upsert")
  /\ found' = TRUE \/ (found' = found /\ Report(h) = "COMPLETED")
  /\ Turn(h, [work[h] EXCEPT !.pc = "write"])
  /\ UNCHANGED <<session, expired, received, gateway>>

StatusOf(kind) == IF kind \in {"COMPLETED", "FAILED", "CANCELED"} THEN kind
                  ELSE IF found THEN "RESULTS_AVAILABLE" ELSE "SCANNING"

\* Variant: as long as there are candidates, they are what the session tells.
WriteResults(h) ==
  /\ At(h, "write")
  /\ session' = [session EXCEPT !.status = IF found THEN "RESULTS_AVAILABLE"
                                           ELSE StatusOf(Report(h))]
  /\ Finish(h)
  /\ UNCHANGED <<found, expired, received, gateway>>
\* By id, whatever has become of the session since it was read.
Write(h) ==
  /\ At(h, "write")
  /\ session' = [session EXCEPT !.status = StatusOf(Report(h))]
  /\ Finish(h)
  /\ UNCHANGED <<found, expired, received, gateway>>

\* A flush that waits for it gets an error.
Die(h) ==
  /\ work[h] # Idle
  /\ Finish(h)
  /\ disturbed' = (disturbed \/ work[h].pc \in {"receive", "upsert", "write"})
  /\ IF waiting = h THEN Queue!Failed /\ waiting' = Nobody ELSE UNCHANGED <<waiting, queue>>
  /\ UNCHANGED <<session, found, expired, received, commands, scanning>>
-----------------------------------------------------------------------------
Next ==
  \/ Start \/ Lapse \/ Expire
  \/ TakeStart \/ Progress \/ TakeCancel
  \/ \E report \in Ends : ScanEnds(report)
  \/ \E w \in writers : Enqueue(w)
  \/ FlushRead \/ Answered \/ Unanswered \/ GiveUp \/ FlushEnds \/ Restart
  \/ \E h \in Handlers :
       \/ CancelRead(h) \/ Cancel(h) \/ ConfirmRead(h) \/ Confirm(h)
       \/ Send(h) \/ Receive(h) \/ Upsert(h) \/ Write(h) \/ Die(h)

Spec == Init /\ [][Next]_vars
-----------------------------------------------------------------------------
(* Properties *)

TypeOK ==
  /\ session \in [status : {"NONE"} \cup Open \cup Closed, confirmed : BOOLEAN]
  /\ found \in BOOLEAN /\ expired \in BOOLEAN /\ received \subseteq Reports
  /\ commands \subseteq {"START", "CANCEL"} /\ scanning \in BOOLEAN
  /\ work \in [Handlers -> Work] /\ waiting \in Handlers \cup {Nobody}
  /\ disturbed \in BOOLEAN /\ Queue!TypeOK

\* Once the end of the scan was sent, the session is over: nobody waits for more until
\* it expires.  Only a report that was tried again or lost, or a restart, can make it
\* otherwise: a report that comes late opens a closed session again.
EndIsTold ==
  Ends \cap gone # {} /\ ~disturbed /\ ~overlapped
    /\ (\A h \in Handlers : work[h].pc \notin {"receive", "upsert", "write"})
  => expired \/ session.status \in Closed
=============================================================================
