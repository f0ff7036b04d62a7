---------------------------- MODULE StreamSystem -----------------------------
(***************************************************************************)
(* Live streaming as a whole: the cloud of StreamControl and the gateway   *)
(* of StreamAgent, which meet in three places: the gateway polls the       *)
(* command queue, uploads the playlists of the sessions it serves, and     *)
(* sends the acknowledgements of its local queue.                          *)
(***************************************************************************)
EXTENDS StreamControl, StreamAgent

SystemInit == Init /\ StreamsInit
------------------------------------------------------------------------------
\* Variant: what was handed out is read again whatever its status.
DeliveredAny == Commands
Delivered == {c \in Commands : command[c] = "DELIVERED"}

\* One GET /commands.  The response may be lost; the commands then stay
\* DELIVERED and come again with a later poll.
AgentPolls(fresh) ==
  /\ Poll(fresh)
  /\ \E again \in SUBSET Delivered : Receive(fresh \cup again) \/ Receive({})

\* A poll that finds command c past its expiresAt.
AgentLapses(c) == Idle /\ Lapse(c) /\ UNCHANGED agent

\* The uploader of a pipeline serves every session that views it.
AgentUploads(s) ==
  /\ s \in viewers[CameraOf[s]]
  /\ UploadAuthorize(s)
  /\ UNCHANGED agent

\* The first send of a message inserts its GatewayMessage row and then applies
\* it; every later copy is a duplicate without effect, so the message is gone
\* for the model when its row exists.  It has no effect if the API dies
\* between the row and the transaction, or if the queue drops it.
AgentAcknowledges(a) ==
  /\ Flush(a)
  /\ Acknowledge(a.cmd, a.ok) \/ UNCHANGED vars

\* What the cloud does by itself,
CloudStep(s) ==
  /\ \/ Create(s) \/ Cleanup(s) \/ RemoveMedia(s)
     \/ \E k \in Clicks : StopRead(s, k) \/ StopCommit(s, k)
     \/ UploadStore(s) \/ UploadActivate(s)
  /\ UNCHANGED agent

\* and what the gateway does.
AgentStep ==
  /\ \/ \E s \in Sessions : RunBatch(s)
     \/ \E cam \in Cameras : PipelineExit(cam)
     \/ Restart
  /\ UNCHANGED vars

SystemNext ==
  \/ \E s \in Sessions : CloudStep(s) \/ AgentUploads(s)
  \/ ApiRestart /\ UNCHANGED agent
  \/ \E fresh \in SUBSET Commands : AgentPolls(fresh)
  \/ \E c \in Commands : AgentLapses(c)
  \/ \E a \in Acks : AgentAcknowledges(a)
  \/ AgentStep

SystemSpec == SystemInit /\ [][SystemNext]_<<vars, agent>>

\* The cleanup worker runs every 30 seconds and expiresAt passes for every
\* session.  The agent loops for ever: it runs its batch, flushes and polls;
\* a command's expiresAt is fixed, so a later poll does find it past.
Fairness ==
  /\ \A s \in Sessions :
       /\ WF_<<vars, agent>>(Cleanup(s) /\ UNCHANGED agent)
       /\ WF_<<vars, agent>>(RunBatch(s) /\ UNCHANGED vars)
  /\ \A c \in Commands : SF_<<vars, agent>>(AgentLapses(c))

FairSpec == SystemSpec /\ Fairness
------------------------------------------------------------------------------
\* The gateway only does what it has been told: what it does to the cloud's
\* rows is what StreamControl allows a gateway that acknowledges nothing but
\* commands handed out to it, so all that is shown of StreamControl holds of
\* the whole.
CloudSpec == Spec

\* Every session that streams stops streaming: at the latest the cleanup
\* worker ends it when its TTL has passed.
LiveEnds == \A s \in Sessions : status[s] \in Live ~> status[s] \notin Live

\* Every command reaches an outcome, by an acknowledgement or by its TTL,
\* though acknowledgements may be lost and batches abandoned for ever.
CommandsSettle ==
  \A c \in Commands : command[c] \in {"PENDING", "DELIVERED"} ~> command[c] \in Settled

==============================================================================
