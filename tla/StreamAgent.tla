----------------------------- MODULE StreamAgent -----------------------------
(***************************************************************************)
(* The gateway's side of live streaming: the main loop that runs a polled  *)
(* batch of commands one after the other, the StreamManager that shares    *)
(* one ffmpeg pipeline per camera among the sessions that view it, and the *)
(* local queue of acknowledgements, which alone survives a restart.        *)
(***************************************************************************)
EXTENDS StreamCommands

CONSTANTS Cameras,
          CameraOf,     \* the camera of each session
          MaxStreams    \* VIGION_MAX_STREAMS

ASSUME CamerasAssumption == IsFiniteSet(Cameras) /\ CameraOf \in [Sessions -> Cameras]
ASSUME MaxStreamsAssumption == MaxStreams \in Nat

VARIABLES running,    \* keys of StreamManager.pipelines
          viewers,    \* the sessions of each camera's pipeline
          indexed,    \* keys of StreamManager.sessionCamera
          inbox,      \* the commands of the batch still to be run
          starting,   \* sessions whose START_STREAM waits for a playlist
          acks        \* the acknowledgements in the local queue

manager == <<running, viewers, indexed>>
agent == <<manager, inbox, starting, acks>>

Acks == [cmd : Commands, ok : BOOLEAN]

StreamsInit ==
  /\ running = {} /\ indexed = {}
  /\ viewers = [cam \in Cameras |-> {}]
  /\ inbox = {} /\ starting = {} /\ acks = {}
------------------------------------------------------------------------------
(* The batch: commands run in the order they were created, one at a time *)

Idle == inbox = {} /\ starting = {}

Receive(batch) ==
  /\ Idle
  /\ inbox' = batch
  /\ UNCHANGED <<manager, starting, acks>>

\* The START_STREAM of a session was created before its STOP_STREAMs.
NextInBatch(c) ==
  /\ c \in inbox /\ starting = {}
  /\ c[2] # "START" => <<c[1], "START">> \notin inbox

Acked(c, ok) ==
  /\ inbox' = inbox \ {c}
  /\ acks' = acks \cup {[cmd |-> c, ok |-> ok]}

\* Something a command calls throws: the loop's catch drops the whole batch,
\* this command and the later ones unacknowledged.
BatchAbandoned == inbox' = {} /\ UNCHANGED acks
------------------------------------------------------------------------------
(* StreamManager.start *)

Join(s) ==
  /\ viewers' = [viewers EXCEPT ![CameraOf[s]] = @ \cup {s}]
  /\ indexed' = indexed \cup {s}

\* Variant: the pipeline outlives its last viewer.
ForgetViewer(s) ==
  /\ indexed' = indexed \ {s}
  /\ viewers' = [viewers EXCEPT ![CameraOf[s]] = @ \ {s}]
  /\ UNCHANGED running
\* stop, and the destroy of a pipeline that nobody views any more.
Forget(s) ==
  LET left == viewers[CameraOf[s]] \ {s} IN
  IF s \notin indexed THEN UNCHANGED manager
  ELSE /\ indexed' = indexed \ {s}
       /\ viewers' = [viewers EXCEPT ![CameraOf[s]] = left]
       /\ running' = IF left = {} THEN running \ {CameraOf[s]} ELSE running

\* A redelivered START_STREAM of a session that is served already.
StartAgain(s) ==
  /\ NextInBatch(<<s, "START">>)
  /\ s \in indexed
  /\ Acked(<<s, "START">>, TRUE)
  /\ UNCHANGED <<manager, starting>>

\* The camera has a pipeline, which the session joins.  If one of its first
\* uploads is refused the exception leaves the session in the pipeline.
StartShared(s) ==
  /\ NextInBatch(<<s, "START">>)
  /\ s \notin indexed /\ CameraOf[s] \in running
  /\ Join(s)
  /\ Acked(<<s, "START">>, TRUE) \/ BatchAbandoned
  /\ UNCHANGED <<running, starting>>

AtCapacity == Cardinality(running) >= MaxStreams

\* No room for another pipeline, or ffmpeg cannot be spawned; a source that
\* cannot be read throws instead.
StartRefused(s) ==
  /\ NextInBatch(<<s, "START">>)
  /\ s \notin indexed /\ CameraOf[s] \notin running
  /\ Acked(<<s, "START">>, FALSE) \/ BatchAbandoned
  /\ UNCHANGED <<manager, starting>>

StartSpawn(s) ==
  /\ NextInBatch(<<s, "START">>)
  /\ s \notin indexed /\ CameraOf[s] \notin running
  /\ ~AtCapacity
  /\ running' = running \cup {CameraOf[s]}
  /\ Join(s)
  /\ inbox' = inbox \ {<<s, "START">>}
  /\ starting' = {s}
  /\ UNCHANGED acks

\* waitForPlaylist returns; a start that failed stops its session.
StartAnswer(s, ok) ==
  /\ s \in starting
  /\ IF ok THEN UNCHANGED manager ELSE Forget(s)
  /\ starting' = {}
  /\ acks' = acks \cup {[cmd |-> <<s, "START">>, ok |-> ok]}
  /\ UNCHANGED inbox

RunStop(s, k) ==
  /\ NextInBatch(<<s, k>>)
  /\ Forget(s)
  /\ Acked(<<s, k>>, TRUE)
  /\ UNCHANGED starting

RunBatch(s) ==
  \/ StartAgain(s) \/ StartShared(s) \/ StartRefused(s) \/ StartSpawn(s)
  \/ \E ok \in BOOLEAN : StartAnswer(s, ok)
  \/ \E k \in Stops : RunStop(s, k)
------------------------------------------------------------------------------
(* What happens to the agent at any time *)

\* ffmpeg exits: destroy drops the pipeline and every session it served.
PipelineExit(cam) ==
  /\ cam \in running
  /\ running' = running \ {cam}
  /\ indexed' = indexed \ viewers[cam]
  /\ viewers' = [viewers EXCEPT ![cam] = {}]
  /\ UNCHANGED <<inbox, starting, acks>>

Restart ==
  /\ running' = {} /\ indexed' = {}
  /\ viewers' = [cam \in Cameras |-> {}]
  /\ inbox' = {} /\ starting' = {}
  /\ UNCHANGED acks

\* A message leaves the local queue: it was sent and accepted, or it is
\* dropped after eight attempts or 24 hours.
Flush(a) ==
  /\ Idle
  /\ a \in acks
  /\ acks' = acks \ {a}
  /\ UNCHANGED <<manager, inbox, starting>>
------------------------------------------------------------------------------
\* The two indexes of the StreamManager agree, no ffmpeg runs for nobody, and
\* the pipelines stay within the limit, whatever redeliveries, failed starts,
\* exits of ffmpeg and shared cameras come in between.
PipelinesServed ==
  /\ \A s \in Sessions : s \in indexed <=> s \in viewers[CameraOf[s]]
  /\ \A cam \in Cameras : cam \in running <=> viewers[cam] # {}
  /\ Cardinality(running) <= MaxStreams
==============================================================================
