---------------------------- MODULE GatewayAgent -----------------------------
(***************************************************************************)
(* The gateway as one process: the main loop, which runs the commands of a *)
(* batch one after the other, syncs the monitors and flushes, and what     *)
(* goes on beside it: the pipelines, the recordings, the monitors.  It     *)
(* waits for a playlist, a snapshot, a monitor that stops or a flush, and  *)
(* when it ends all of them end.                                           *)
(***************************************************************************)
EXTENDS StreamAgent

CONSTANTS Snapshots, Recordings, MaxFiles, MaxStaging, MaxAttempts,
          Watched, StableFrames, MaxUpdates, MaxMonitors

\* An asset is a snapshot or a recording.
ASSUME CapturesAssumption ==
  MaxFiles \in Nat /\ MaxAttempts \in 1 .. 9 /\ Snapshots \cap Recordings = {}
ASSUME MonitorsAssumption == MaxMonitors \in Nat

VARIABLES recordings, completed, files, made, meta, open, job, flushes, captured, settled, cut,
          disturbed, wanted, updated, pending, monitors, started, state, sync, told

Captures == INSTANCE CaptureManager
Motion == INSTANCE MotionMonitor

captures == <<recordings, completed, files, made, meta, open, job, flushes, captured, settled, cut,
              disturbed>>
motion == <<wanted, updated, pending, monitors, started, state, sync, told>>

AgentInit == StreamsInit /\ Captures!Init /\ Motion!Init
-----------------------------------------------------------------------------
CapturesWait == job # Captures!NoJob \/ flushes["main"] # Captures!NoFlush
MotionWaits == sync # Motion!NoSync

\* The turn of the main loop.
ReceiveBatch(batch) == ~CapturesWait /\ ~MotionWaits /\ Receive(batch)
RunStreamCommand(s) == ~CapturesWait /\ RunBatch(s)
SendAck(a) == ~CapturesWait /\ ~MotionWaits /\ Flush(a)
SyncMonitors == Idle /\ ~CapturesWait /\ Motion!SyncStart
FlushCaptures(f) ==
  /\ f = "main" /\ flushes[f] = Captures!NoFlush /\ job = Captures!NoJob => Idle /\ ~MotionWaits
  /\ Captures!FlushStep(f)

\* A CAPTURE_SNAPSHOT or START_RECORDING of the batch; its acknowledgement is left out.
RunCaptureCommand ==
  /\ starting = {} /\ ~MotionWaits
  /\ \/ \E a \in Snapshots : Captures!SnapshotStart(a)
     \/ \E a \in Recordings : Captures!StartRecording(a)

\* Its source cannot be decrypted, which throws.
CaptureCommandThrows ==
  /\ starting = {} /\ ~CapturesWait /\ ~MotionWaits /\ inbox # {}
  /\ BatchAbandoned
  /\ UNCHANGED <<manager, starting>>

-----------------------------------------------------------------------------
(* Beside the main loop *)

CloudWrites == \E c \in Watched : Motion!CloudStep(c)
MonitorRuns == \E c \in Watched, i \in Motion!Ids : Motion!MonitorStep(c, i)
RecordingRuns == \E a \in Recordings :
  Captures!RecordingQueued(a) \/ Captures!RecordingWritten(a) \/ \E whole \in BOOLEAN : Captures!Exit(a, whole)

\* SIGINT and SIGTERM stop the processes first; a crash does not.
Shutdown == Restart /\ Captures!Restart /\ Motion!Restart

StreamStep ==
  \/ \E batch \in SUBSET Commands : ReceiveBatch(batch)
  \/ \E s \in Sessions : RunStreamCommand(s)
  \/ \E cam \in Cameras : PipelineExit(cam)
  \/ \E a \in Acks : SendAck(a)
  \/ CaptureCommandThrows
CaptureStep ==
  \/ RunCaptureCommand \/ Captures!MainStep \/ RecordingRuns
  \/ \E f \in Captures!Flushers : FlushCaptures(f)
MotionStep == SyncMonitors \/ Motion!SyncStep \/ CloudWrites \/ MonitorRuns

AgentNext ==
  \/ StreamStep /\ UNCHANGED <<captures, motion>>
  \/ CaptureStep /\ UNCHANGED <<agent, motion>>
  \/ MotionStep /\ UNCHANGED <<agent, captures>>
  \/ Shutdown

AgentSpec == AgentInit /\ [][AgentNext]_<<agent, captures, motion>>
-----------------------------------------------------------------------------
(* Properties: PipelinesServed of StreamAgent, and those of the other two *)

\* CaptureManager: no capture that the gateway accepted is forgotten.
CapturesKept == Captures!CapturesKept

\* CaptureManager: each file in staging is there for a purpose.
StagingOwned == Captures!StagingOwned

\* MotionMonitor: of a camera whose picture arrives the API is told that it is online.
OnlineIsTold == Motion!OnlineIsTold
=============================================================================
