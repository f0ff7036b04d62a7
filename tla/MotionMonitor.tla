---------------------------- MODULE MotionMonitor ----------------------------
(***************************************************************************)
(* Motion detection on the gateway: one ffmpeg process per configured      *)
(* camera, whose frames tell that the camera is online and when something  *)
(* moves.  The main loop fetches the configuration every turn and starts,  *)
(* stops and replaces the processes.                                       *)
(*                                                                         *)
(* A monitor is replaced when the updatedAt of its Camera row is another,  *)
(* which its own events and the health checks change as well: what was     *)
(* moving then is never reported to have ended.                            *)
(***************************************************************************)
EXTENDS Naturals

CONSTANTS Watched,      \* the cameras
          StableFrames, \* cooldownSeconds * sampleFps
          MaxUpdates,   \* bound: how often a Camera row is written
          MaxMonitors   \* bound: monitors that are started for a camera

VARIABLES wanted,    \* cloud: the cameras monitoringConfiguration returns
          updated,   \* cloud: Camera.updatedAt
          pending,   \* cameras with a connectivity event in the event queue
          monitors,  \* MotionMonitorManager.monitors: the number of the monitor, or 0
          started,   \* how many monitors were started for the camera
          state,     \* of each monitor
          sync,      \* the sync in progress
          told       \* history: the last connectivity event of each camera

cloud == <<wanted, updated, pending>>
manager == <<monitors, started, state, sync>>
vars == <<cloud, manager, told>>

Ids == 1 .. MaxMonitors
NotWanted == MaxUpdates + 1

\* process: what became of ffmpeg.  of: the configuration's updatedAt.
\* moved, still: consecutiveMotion and consecutiveStable of the MotionAggregator, active:
\* it has reported a STARTED and no ENDED.
NoMonitor == [process |-> "none", of |-> 0, online |-> FALSE, stopping |-> FALSE,
              moved |-> 0, still |-> 0, active |-> FALSE]
NoSync == [pc |-> "idle", got |-> [c \in Watched |-> NotWanted], todo |-> {}]

Init ==
  /\ wanted = {} /\ updated = [c \in Watched |-> 0] /\ pending = {}
  /\ monitors = [c \in Watched |-> 0] /\ started = [c \in Watched |-> 0]
  /\ state = [c \in Watched |-> [i \in Ids |-> NoMonitor]]
  /\ sync = NoSync
  /\ told = [c \in Watched |-> "NONE"]
-----------------------------------------------------------------------------
(* The cloud *)

Write(c) == updated[c] < MaxUpdates /\ updated' = [updated EXCEPT ![c] = @ + 1]

\* updateMotionConfiguration, and what else decides: the camera is associated with the
\* gateway or with another, disabled, given credentials, removed.
Configure(c) ==
  /\ Write(c)
  /\ \/ wanted' = wanted \cup {c}
     \/ wanted' = wanted \ {c}
  /\ UNCHANGED <<pending, manager, told>>

\* The event writes connectionStatus, and so updatedAt.
IngestConnectivity(c) ==
  /\ c \in pending
  /\ Write(c)
  /\ pending' = pending \ {c}
  /\ UNCHANGED <<wanted, manager, told>>

\* So does each report of the health of the camera.
IngestHealth(c) ==
  /\ Write(c)
  /\ UNCHANGED <<wanted, pending, manager, told>>
-----------------------------------------------------------------------------
(* sync *)

SyncStart ==
  /\ sync = NoSync
  /\ sync' = [NoSync EXCEPT !.pc = "sync", !.todo = Watched,
       !.got = [c \in Watched |-> IF c \in wanted THEN updated[c] ELSE NotWanted]]
  /\ UNCHANGED <<cloud, monitors, started, state, told>>

Current(c) == state[c][monitors[c]]
Turn(c) == sync.pc = "sync" /\ c \in sync.todo
Done(c) == sync' = [sync EXCEPT !.pc = "sync", !.todo = @ \ {c}]

Keep(c) ==
  /\ Turn(c)
  /\ IF monitors[c] = 0 THEN sync.got[c] = NotWanted ELSE Current(c).of = sync.got[c]
  /\ Done(c)
  /\ UNCHANGED <<cloud, monitors, started, state, told>>

\* stop: SIGTERM.  The removed cameras come first in the code; they share nothing.
Stop(c) ==
  /\ Turn(c) /\ monitors[c] # 0 /\ Current(c).of # sync.got[c]
  /\ state' = [state EXCEPT ![c][monitors[c]].stopping = TRUE]
  /\ monitors' = [monitors EXCEPT ![c] = 0]
  /\ sync' = [sync EXCEPT !.pc = "stopping"]
  /\ UNCHANGED <<cloud, started, told>>

\* The process has exited, or after three seconds it is sent SIGKILL.
Stopped ==
  /\ sync.pc = "stopping"
  /\ sync' = [sync EXCEPT !.pc = "sync"]
  /\ UNCHANGED <<cloud, monitors, started, state, told>>

Start(c) ==
  /\ Turn(c) /\ monitors[c] = 0 /\ sync.got[c] # NotWanted /\ started[c] < MaxMonitors
  /\ started' = [started EXCEPT ![c] = @ + 1]
  /\ state' = [state EXCEPT ![c][started[c] + 1] =
                 [NoMonitor EXCEPT !.process = "running", !.of = sync.got[c]]]
  /\ monitors' = [monitors EXCEPT ![c] = started[c] + 1]
  /\ Done(c)
  /\ UNCHANGED <<cloud, told>>

SyncEnds ==
  /\ sync.pc = "sync" /\ sync.todo = {}
  /\ sync' = NoSync
  /\ UNCHANGED <<cloud, monitors, started, state, told>>
-----------------------------------------------------------------------------
(* The events of a process *)

Tell(c, what) == told' = [told EXCEPT ![c] = what] /\ pending' = pending \cup {c}

\* MotionAggregator.update
Aggregated(m, moving) ==
  IF moving
  THEN [m EXCEPT !.moved = IF @ = 2 THEN 2 ELSE @ + 1, !.still = 0,
                 !.active = @ \/ m.moved >= 1]
  ELSE IF ~m.active THEN [m EXCEPT !.moved = 0]
  ELSE IF m.still + 1 < StableFrames THEN [m EXCEPT !.moved = 0, !.still = @ + 1]
  ELSE [m EXCEPT !.moved = 0, !.still = 0, !.active = FALSE]

\* A frame, which may also come late from a process that was stopped.  The event that
\* something began or ceased to move is queued.
Frame(c, i, moving) ==
  /\ state[c][i].process = "running"
  /\ state' = [state EXCEPT ![c][i] = [Aggregated(@, moving) EXCEPT !.online = TRUE]]
  /\ IF state[c][i].online THEN UNCHANGED <<told, pending>> ELSE Tell(c, "ONLINE")
  /\ UNCHANGED <<wanted, updated, monitors, started, sync>>

\* Variant: it is also told of a monitor that was stopped.
FinalizeAll(c, i) ==
  /\ state[c][i].process = "running"
  /\ state' = [state EXCEPT ![c][i].process = "exited", ![c][i].online = FALSE]
  /\ monitors' = [monitors EXCEPT ![c] = IF @ = i THEN 0 ELSE @]
  /\ Tell(c, "OFFLINE")
  /\ UNCHANGED <<wanted, updated, started, sync>>
\* ffmpeg exits by itself or because it was stopped.
Finalize(c, i) ==
  /\ state[c][i].process = "running"
  /\ state' = [state EXCEPT ![c][i].process = "exited", ![c][i].online = FALSE]
  /\ monitors' = [monitors EXCEPT ![c] = IF @ = i THEN 0 ELSE @]
  /\ IF state[c][i].stopping THEN UNCHANGED <<told, pending>> ELSE Tell(c, "OFFLINE")
  /\ UNCHANGED <<wanted, updated, started, sync>>

\* The event queue is a file.
Restart ==
  /\ monitors' = [c \in Watched |-> 0]
  /\ state' = [c \in Watched |-> [i \in Ids |-> NoMonitor]]
  /\ sync' = NoSync
  /\ UNCHANGED <<cloud, started, told>>
-----------------------------------------------------------------------------
CloudStep(c) == Configure(c) \/ IngestConnectivity(c) \/ IngestHealth(c)
SyncStep == Stopped \/ SyncEnds \/ \E c \in Watched : Keep(c) \/ Stop(c) \/ Start(c)
MonitorStep(c, i) == Finalize(c, i) \/ \E moving \in BOOLEAN : Frame(c, i, moving)
-----------------------------------------------------------------------------
(* Properties *)

\* A camera whose frames are read is never the one last told to be offline, however
\* slowly the monitor it replaces ends.
OnlineIsTold ==
  \A c \in Watched : monitors[c] # 0 /\ Current(c).online => told[c] = "ONLINE"
=============================================================================
