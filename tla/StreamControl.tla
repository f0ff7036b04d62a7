---------------------------- MODULE StreamControl ----------------------------
(***************************************************************************)
(* The cloud side of live streaming for one organization: its              *)
(* StreamSession rows, the GatewayCommand rows that carry START_STREAM and *)
(* STOP_STREAM to the gateway, and the media store its playlists go to.    *)
(*                                                                         *)
(* A transaction is one step and every await between two effects ends a    *)
(* step, so requests, the cleanup worker and the gateway interleave.  Time *)
(* is abstracted: what has a deadline may be found past it at any moment.  *)
(* The gateway is free here: it polls, uploads, and acknowledges whatever  *)
(* has been handed to it, when it likes and as often as it likes.          *)
(***************************************************************************)
EXTENDS StreamCommands

CONSTANTS MaxActive   \* MAX_ACTIVE_STREAMS_PER_ORG

ASSUME LimitAssumption == MaxActive \in Nat

VARIABLES status,     \* StreamSession.status ("NONE": no row)
          command,    \* GatewayCommand.status of each command ("NONE": no row)
          stopping,   \* stop requests between their read and their write
          removing,   \* sessions whose media a handler has still to remove
          upload,     \* the PUTs of playlists under way, each with its stage
          media       \* the directories under STREAM_MEDIA_ROOT

requests == <<stopping, removing, upload>>
vars == <<status, command, requests, media>>

Live == {"STARTING", "ACTIVE"}
Counted == Live \cup {"STOPPING"}
Terminal == {"ENDED", "FAILED", "EXPIRED"}
Statuses == {"NONE"} \cup Counted \cup Terminal

\* ANSWERED stands for SUCCEEDED and FAILED, which nothing tells apart.
Settled == {"ANSWERED", "EXPIRED"}
\* Variant: only commands that were never handed out expire.
OutstandingFresh == {c \in Commands : command[c] = "PENDING"}
Outstanding == {c \in Commands : command[c] \in {"PENDING", "DELIVERED"}}
HandedOut == {c \in Commands : command[c] \notin {"NONE", "PENDING"}}

ActiveSessions(st) == {s \in Sessions : status[s] \in st}

Init ==
  /\ status = [s \in Sessions |-> "NONE"]
  /\ command = [c \in Commands |-> "NONE"]
  /\ stopping = {} /\ removing = {} /\ upload = {} /\ media = {}
------------------------------------------------------------------------------
(* Creating and stopping *)

\* Variant: STARTING sessions are not counted.
LimitReachedActive == Cardinality(ActiveSessions({"ACTIVE"})) >= MaxActive
LimitReached == Cardinality(ActiveSessions(Counted)) >= MaxActive

\* Session and START_STREAM in one transaction.  The Organization row is
\* locked before the count, which serialises creations.
Create(s) ==
  /\ status[s] = "NONE"
  /\ ~LimitReached
  /\ status' = [status EXCEPT ![s] = "STARTING"]
  /\ command' = [command EXCEPT ![<<s, "START">>] = "PENDING"]
  /\ UNCHANGED <<requests, media>>

\* stop looks at the session first: it has nothing to do for one that is over
\* or already stopping.
StopRead(s, k) ==
  /\ status[s] \in Live
  /\ command[<<s, k>>] = "NONE"
  /\ stopping' = stopping \cup {<<s, k>>}
  /\ UNCHANGED <<status, command, removing, upload, media>>

\* Then it writes by id alone, whatever the status has become meanwhile.
StopCommit(s, k) ==
  /\ <<s, k>> \in stopping
  /\ status' = [status EXCEPT ![s] = "STOPPING"]
  /\ command' = [command EXCEPT ![<<s, k>>] = "PENDING"]
  /\ stopping' = stopping \ {<<s, k>>}
  /\ removing' = removing \cup {s}
  /\ UNCHANGED <<upload, media>>

\* Variant: only sessions that never became ACTIVE expire.
ExpirableStarting(s) == status[s] = "STARTING"
Expirable(s) == status[s] \in Live

\* One turn of cleanup's loop: the session is past expiresAt or idle, and its
\* transaction looks at the status again.
Cleanup(s) ==
  /\ Expirable(s)
  /\ status' = [status EXCEPT ![s] = "EXPIRED"]
  /\ command' = [command EXCEPT ![<<s, "CLEANUP">>] = "PENDING"]
  /\ removing' = removing \cup {s}
  /\ UNCHANGED <<stopping, upload, media>>

\* What stop and cleanup do after their transaction; more than one handler may
\* have to do it for the same session.
RemoveMedia(s) ==
  /\ s \in removing
  /\ removing' \in {removing, removing \ {s}}
  /\ media' = media \ {s}
  /\ UNCHANGED <<status, command, stopping, upload>>

\* The API process dies: whatever its handlers had still to do is lost.
ApiRestart ==
  /\ stopping' = {} /\ removing' = {} /\ upload' = {}
  /\ UNCHANGED <<status, command, media>>
------------------------------------------------------------------------------
(* The gateway's PUT of index.m3u8: authorized, stored, then activated.    *)
(* The uploader's timer does not wait for its last turn, so several PUTs   *)
(* of one session may be under way, and any number at the same stage.      *)

UploadAuthorize(s) ==
  /\ status[s] \in Live
  /\ upload' = upload \cup {<<s, "authorized">>}
  /\ UNCHANGED <<status, command, stopping, removing, media>>

UploadStore(s) ==
  /\ <<s, "authorized">> \in upload
  /\ \E rest \in {upload, upload \ {<<s, "authorized">>}} :
       upload' = rest \cup {<<s, "stored">>}
  /\ media' = media \cup {s}
  /\ UNCHANGED <<status, command, stopping, removing>>

\* Variant: the update that activates does not look at the status.
ActivatedAlways(st) == "ACTIVE"
Activated(st) == IF st = "STARTING" THEN "ACTIVE" ELSE st

UploadActivate(s) ==
  /\ <<s, "stored">> \in upload
  /\ upload' \in {upload, upload \ {<<s, "stored">>}}
  /\ status' = [status EXCEPT ![s] = Activated(@)]
  /\ UNCHANGED <<command, stopping, removing, media>>
------------------------------------------------------------------------------
(* The command queue *)

Undelivered(c) == command[c] = "PENDING"

\* A poll first settles what it finds past its expiresAt...
Lapse(c) ==
  /\ c \in Outstanding
  /\ command' = [command EXCEPT ![c] = "EXPIRED"]
  /\ UNCHANGED <<status, requests, media>>

\* ... and then hands out what is pending, oldest first and at most twenty
\* commands of the gateway at a time, next to what has been handed out more than
\* ten seconds ago.
Poll(batch) ==
  /\ \A c \in batch : Undelivered(c)
  /\ \A c \in batch : Undelivered(<<c[1], "START">>) => <<c[1], "START">> \in batch
  /\ command' = [c \in Commands |-> IF c \in batch THEN "DELIVERED" ELSE command[c]]
  /\ UNCHANGED <<status, requests, media>>

StartFailed(st) == IF st = "STARTING" THEN "FAILED" ELSE st
StopDone(st) == IF st \in {"ENDED", "EXPIRED"} THEN st ELSE "ENDED"

\* The transaction of acknowledge: the command is settled whatever its status,
\* the session moves as far as its own status allows.
Acknowledge(c, ok) ==
  /\ command' = [command EXCEPT ![c] = "ANSWERED"]
  /\ status' = [status EXCEPT ![c[1]] =
       IF c[2] # "START" THEN StopDone(@) ELSE IF ok THEN @ ELSE StartFailed(@)]
  /\ UNCHANGED <<requests, media>>
------------------------------------------------------------------------------
Next ==
  \/ \E s \in Sessions :
       \/ Create(s) \/ Cleanup(s) \/ RemoveMedia(s)
       \/ \E k \in Clicks : StopRead(s, k) \/ StopCommit(s, k)
       \/ UploadAuthorize(s) \/ UploadStore(s) \/ UploadActivate(s)
  \/ ApiRestart
  \/ \E batch \in SUBSET Commands : Poll(batch)
  \/ \E c \in Commands : Lapse(c)
  \/ \E c \in HandedOut, ok \in BOOLEAN : Acknowledge(c, ok)

Spec == Init /\ [][Next]_vars
------------------------------------------------------------------------------
TypeOK ==
  /\ status \in [Sessions -> Statuses]
  /\ command \in [Commands -> {"NONE", "PENDING", "DELIVERED"} \cup Settled]
  /\ stopping \subseteq Sessions \X Clicks
  /\ removing \subseteq Sessions
  /\ upload \subseteq Sessions \X {"authorized", "stored"}
  /\ media \subseteq Sessions

\* However creations, stops, expirations, late uploads and acknowledgements
\* interleave, no more than MaxActive sessions can be streamed at once.
LiveWithinLimit == Cardinality(ActiveSessions(Live)) <= MaxActive

\* A session is shown as ACTIVE only while its playlist is in the media store:
\* no removal begun by a stop or by cleanup reaches a session that can still
\* become ACTIVE, whatever late uploads do.
ActiveHasMedia == \A s \in Sessions : status[s] = "ACTIVE" => s \in media

\* A session that is over without an answer of the gateway has had a
\* STOP_STREAM written for it: nothing streams on for want of a request.
StopIsRequested ==
  \A s \in Sessions : status[s] \in {"STOPPING", "EXPIRED", "ENDED"} =>
    \E k \in Stops : command[<<s, k>>] # "NONE"

\* Once a command has an outcome it is never handed out again, although a late
\* acknowledgement may still replace one outcome by another.
OutcomeIsFinal ==
  [][\A c \in Commands : command[c] \in Settled => command'[c] \in Settled]_vars

\* What streaming promises: StreamAdmission, where a session is live while it
\* may be uploaded and viewed.
Streaming == ActiveSessions(Live)
Over == {s \in Sessions : status[s] \notin Live \cup {"NONE"}}
Admission == INSTANCE StreamAdmission WITH live <- Streaming, over <- Over
AdmissionSpec == Admission!Spec
==============================================================================
