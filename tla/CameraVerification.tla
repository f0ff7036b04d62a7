------------------------- MODULE CameraVerification -------------------------
(***************************************************************************)
(* From a confirmed candidate to a camera: the sessions in which the       *)
(* gateway tries the user's credentials on it, the completion that makes a *)
(* camera of one that succeeded, and the counter all cameras of the        *)
(* organization come out of, those created by hand included.               *)
(*                                                                         *)
(* All sessions are about one device, which tells its endpoint reference.  *)
(* Requests split where they await, and may end anywhere; the completion is*)
(* one serializable transaction.  The gateway is ONLINE and up to date.    *)
(***************************************************************************)
EXTENDS Naturals, FiniteSets

CONSTANTS Verifications,  \* the verification sessions there may be
          Handlers,       \* requests in progress at the same time
          MaxSubmits,     \* bound: how often credentials are submitted
          MaxCameras      \* of the plan

VARIABLES verifications,  \* the CameraVerificationSession rows
          due,            \* those whose expiresAt has passed
          commands,       \* the VERIFICATION_START commands, by the submission they carry
          cameras,        \* the camera of each session, with its identifiers and credential
          manual,         \* how many cameras created by hand there are
          counter,        \* ResourceCounter.cameraCount
          work,           \* what each handler is doing
          crossed,        \* history: sessions whose report was in hand when they got new credentials
          leaked          \* history: reservations whose request ended

stock == <<cameras, manual, counter, leaked>>
vars == <<verifications, due, commands, work, crossed, stock>>

Submits == 1 .. MaxSubmits
Statuses == {"NONE", "WAITING", "DISPATCHED", "COMPLETED", "FAILED", "CANCELED", "EXPIRED", "CONSUMED"}
Over == {"COMPLETED", "CONSUMED", "CANCELED", "EXPIRED"}

\* command, credential, verified: the submission they are of, 0 when there is none.  The
\* row does not tell which one was verified, only that one was.
NoSession == [status |-> "NONE", command |-> 0, credential |-> 0, verified |-> 0]
\* ENDED: acknowledged, reported or expired, before the gateway was given it.
NoCommand == [session |-> "NONE", status |-> "NONE"]
NoCamera == [credential |-> 0, verified |-> 0, live |-> FALSE]

Idle == [pc |-> "idle"]

Init ==
  /\ verifications = [v \in Verifications |-> NoSession]
  /\ due = {}
  /\ commands = [k \in Submits |-> NoCommand]
  /\ cameras = [v \in Verifications |-> NoCamera]
  /\ manual = 0 /\ counter = 0 /\ leaked = 0
  /\ work = [h \in Handlers |-> Idle]
  /\ crossed = {}

At(h, pc) == work[h].pc = pc
Begin(h, job) == work[h] = Idle /\ work' = [work EXCEPT ![h] = job]
Turn(h, job) == work' = [work EXCEPT ![h] = job]
Finish(h) == Turn(h, Idle)

Status(v) == verifications[v].status
Ended(ks) == [k \in Submits |-> IF k \in ks /\ commands[k].status = "PENDING"
                                THEN [commands[k] EXCEPT !.status = "ENDED"] ELSE commands[k]]
-----------------------------------------------------------------------------
(* CameraVerificationService: requests of the user *)

\* The candidate is confirmed and was not registered when it was found.
Start(v) ==
  /\ Status(v) = "NONE"
  /\ verifications' = [verifications EXCEPT ![v].status = "WAITING"]
  /\ UNCHANGED <<due, commands, work, crossed, stock>>

Due(v) ==
  /\ Status(v) # "NONE" /\ v \notin due
  /\ due' = due \cup {v}
  /\ UNCHANGED <<verifications, commands, work, crossed, stock>>

SubmitRead(h, v) ==
  /\ Status(v) \in {"WAITING", "FAILED"} /\ v \notin due
  /\ Begin(h, [pc |-> "submit", v |-> v])
  /\ UNCHANGED <<verifications, due, commands, crossed, stock>>

InHand(v) == \E g \in Handlers : At(g, "ingest") /\ work[g].v = v

\* By id: the session, the credentials kept for the completion, the command.
Submit(h, k) ==
  LET v == work[h].v IN
  /\ At(h, "submit")
  /\ k = Cardinality({j \in Submits : commands[j] # NoCommand}) + 1
  /\ verifications' = [verifications EXCEPT
       ![v] = [status |-> "DISPATCHED", command |-> k, credential |-> k, verified |-> 0]]
  /\ commands' = [commands EXCEPT ![k] = [session |-> v, status |-> "PENDING"]]
  /\ crossed' = IF InHand(v) THEN crossed \cup {v} ELSE crossed
  /\ Finish(h)
  /\ UNCHANGED <<due, stock>>

\* A session that is due is EXPIRED before it is looked at, see Cleanup.
CancelRead(h, v) ==
  /\ Status(v) \notin Over \cup {"NONE"}
  /\ Begin(h, [pc |-> "cancel", v |-> v, command |-> verifications[v].command])
  /\ UNCHANGED <<verifications, due, commands, crossed, stock>>

\* Variant: the credentials are left to the clean-up.
CancelOnly(h) ==
  LET v == work[h].v  k == work[h].command IN
  /\ At(h, "cancel")
  /\ verifications' = [verifications EXCEPT ![v].status = "CANCELED"]
  /\ commands' = Ended({k})
  /\ Finish(h)
  /\ UNCHANGED <<due, crossed, stock>>
\* By id.  The gateway is told to abort, which makes the report a failure.
Cancel(h) ==
  LET v == work[h].v  k == work[h].command IN
  /\ At(h, "cancel")
  /\ verifications' = [verifications EXCEPT ![v] =
       [@ EXCEPT !.status = "CANCELED", !.verified = 0, !.credential = 0]]
  /\ commands' = Ended({k})
  /\ Finish(h)
  /\ UNCHANGED <<due, crossed, stock>>

\* cleanup, before a session is started and when one is looked at that is due.
Expirable == {v \in due : Status(v) \notin Over}

CleanupRead(h) ==
  /\ due # {}
  /\ verifications' = [v \in Verifications |-> IF v \in due
                         THEN [verifications[v] EXCEPT !.credential = 0] ELSE verifications[v]]
  /\ Begin(h, IF Expirable = {} THEN Idle
              ELSE [pc |-> "cleanup", found |-> Expirable,
                    commands |-> {verifications[v].command : v \in Expirable}])
  /\ UNCHANGED <<due, commands, crossed, stock>>

\* By id, whatever has become of them.
Cleanup(h) ==
  /\ At(h, "cleanup")
  /\ verifications' = [v \in Verifications |-> IF v \in work[h].found
       THEN [verifications[v] EXCEPT !.status = "EXPIRED", !.credential = 0] ELSE verifications[v]]
  /\ commands' = Ended(work[h].commands)
  /\ Finish(h)
  /\ UNCHANGED <<due, crossed, stock>>
-----------------------------------------------------------------------------
(* The gateway: processCommands and verifyCamera *)

\* Until it ends the command may be given again: it is run, and reported, as often.
Take(k) ==
  /\ commands[k].status = "PENDING"
  /\ commands' = [commands EXCEPT ![k].status = "GIVEN"]
  /\ UNCHANGED <<verifications, due, work, crossed, stock>>

CommandEnds(k) ==
  /\ commands[k].status = "PENDING"
  /\ commands' = Ended({k})
  /\ UNCHANGED <<verifications, due, work, crossed, stock>>
-----------------------------------------------------------------------------
(* CameraVerificationService.ingest *)

\* Of a command that was given a report may come at any time, for each time it was run,
\* and none but the first time it is sent does anything.  Right: the camera let the
\* gateway in with these credentials, and is the model that was looked for.
Receive(h, k, right) ==
  LET v == commands[k].session IN
  /\ commands[k].status = "GIVEN"
  /\ v \notin due /\ Status(v) \notin {"CANCELED", "EXPIRED"}
  /\ Begin(h, [pc |-> "ingest", v |-> v, command |-> k, right |-> right])
  /\ UNCHANGED <<verifications, due, commands, crossed, stock>>

\* Variant: the session is found by its id.
IngestAny(h, k, right) == Receive(h, k, right)
\* The session must wait for this very command.
IngestRead(h, k, right) ==
  /\ commands[k] # NoCommand /\ verifications[commands[k].session].command = k
  /\ Receive(h, k, right)

\* By id, whatever has become of the session since it was read.
IngestWrite(h) ==
  LET v == work[h].v IN
  /\ At(h, "ingest")
  /\ verifications' = [verifications EXCEPT ![v] =
       [@ EXCEPT !.status = IF work[h].right THEN "COMPLETED" ELSE "FAILED",
                 !.verified = IF work[h].right THEN work[h].command ELSE 0]]
  /\ commands' = Ended({work[h].command})
  /\ Finish(h)
  /\ UNCHANGED <<due, crossed, stock>>
-----------------------------------------------------------------------------
(* CameraOnboardingCompletionService and CameraService *)

\* The identifiers of a camera that was removed stay.
Registered == \E v \in Verifications : cameras[v] # NoCamera

MayComplete(v) ==
  /\ cameras[v] = NoCamera /\ v \notin due
  /\ Status(v) = "COMPLETED" /\ verifications[v].verified # 0 /\ verifications[v].credential # 0
  /\ counter < MaxCameras

MakeCamera(v) ==
  /\ cameras' = [cameras EXCEPT ![v] = [credential |-> verifications[v].credential,
                                        verified |-> verifications[v].verified, live |-> TRUE]]
  /\ counter' = counter + 1
  /\ verifications' = [verifications EXCEPT ![v].status = "CONSUMED", ![v].credential = 0]
  /\ commands' = Ended({verifications[v].command})
  /\ UNCHANGED <<due, work, crossed, manual, leaked>>

\* Variant: the identifiers are not looked up.
CompleteAny(v) == MayComplete(v) /\ MakeCamera(v)
\* A session that has its camera answers with it.
Complete(v) == MayComplete(v) /\ ~Registered /\ MakeCamera(v)

RemoveCamera(v) ==
  /\ cameras[v].live
  /\ cameras' = [cameras EXCEPT ![v].live = FALSE]
  /\ counter' = IF counter > 0 THEN counter - 1 ELSE counter
  /\ UNCHANGED <<verifications, due, commands, work, crossed, manual, leaked>>

CreateReserve(h) ==
  /\ counter < MaxCameras
  /\ counter' = counter + 1
  /\ Begin(h, [pc |-> "create"])
  /\ UNCHANGED <<verifications, due, commands, crossed, cameras, manual, leaked>>

CreateWrite(h) ==
  /\ At(h, "create")
  /\ manual' = manual + 1
  /\ Finish(h)
  /\ UNCHANGED <<verifications, due, commands, crossed, cameras, counter, leaked>>

\* Variant: what was reserved is not released.
CreateGivesUp(h) ==
  /\ At(h, "create")
  /\ Finish(h)
  /\ UNCHANGED <<verifications, due, commands, crossed, stock>>
CreateFails(h) ==
  /\ At(h, "create")
  /\ counter' = IF counter > 0 THEN counter - 1 ELSE counter
  /\ Finish(h)
  /\ UNCHANGED <<verifications, due, commands, crossed, cameras, manual, leaked>>

RemoveManual ==
  /\ manual > 0
  /\ manual' = manual - 1
  /\ counter' = IF counter > 0 THEN counter - 1 ELSE counter
  /\ UNCHANGED <<verifications, due, commands, work, crossed, cameras, leaked>>

Die(h) ==
  /\ work[h] # Idle
  /\ leaked' = IF At(h, "create") THEN leaked + 1 ELSE leaked
  /\ Finish(h)
  /\ UNCHANGED <<verifications, due, commands, crossed, cameras, manual, counter>>
-----------------------------------------------------------------------------
Onward ==
  \/ \E v \in Verifications : Due(v) \/ Complete(v) \/ RemoveCamera(v)
  \/ \E k \in Submits : Take(k) \/ CommandEnds(k)
  \/ RemoveManual
  \/ \E h \in Handlers :
       \/ \E v \in Verifications : SubmitRead(h, v) \/ CancelRead(h, v)
       \/ \E k \in Submits : Submit(h, k)
       \/ \E k \in Submits, right \in BOOLEAN : IngestRead(h, k, right)
       \/ Cancel(h) \/ CleanupRead(h) \/ Cleanup(h) \/ IngestWrite(h)
       \/ CreateReserve(h) \/ CreateWrite(h) \/ CreateFails(h) \/ Die(h)

Next == Onward \/ \E v \in Verifications : Start(v)

Spec == Init /\ [][Next]_vars
-----------------------------------------------------------------------------
(* Properties *)

Numbers == 0 .. MaxSubmits

\* Rows and handlers are what the schema and the code can hold.
TypeOK ==
  /\ verifications \in [Verifications -> [status : Statuses, command : Numbers,
                                          credential : Numbers, verified : Numbers]]
  /\ due \subseteq Verifications
  /\ commands \in [Submits -> [session : Verifications \cup {"NONE"},
                               status : {"NONE", "PENDING", "GIVEN", "ENDED"}]]
  /\ cameras \in [Verifications -> [credential : Numbers, verified : Numbers, live : BOOLEAN]]
  /\ manual \in Nat /\ counter \in 0 .. MaxCameras /\ leaked \in Nat
  /\ work \in [Handlers -> {Idle} \cup [pc : {"create"}]
                \cup [pc : {"submit"}, v : Verifications]
                \cup [pc : {"cancel"}, v : Verifications, command : Numbers]
                \cup [pc : {"cleanup"}, found : SUBSET Verifications, commands : SUBSET Numbers]
                \cup [pc : {"ingest"}, v : Verifications, right : BOOLEAN, command : Submits]]
  /\ crossed \subseteq Verifications

\* However many sessions, requests and retries there are, one device becomes one camera,
\* even after that one was removed.
DeviceOnce == Cardinality({v \in Verifications : cameras[v] # NoCamera}) <= 1

\* A camera is created with credentials that the gateway found right: those of another
\* submission only when new ones were written while a report was in hand.
VerifiedCredential ==
  \A v \in Verifications \ crossed : cameras[v].credential = cameras[v].verified

\* The user's password is kept only as long as the session may still need it: those that
\* were last submitted, until it is canceled, expired or consumed, whatever report or
\* request is under way.
CredentialEnds ==
  \A v \in Verifications : verifications[v].credential # 0 =>
    /\ Status(v) \in {"DISPATCHED", "FAILED", "COMPLETED"}
    /\ verifications[v].credential = verifications[v].command

\* The counter is the cameras there are and the reservations in hand, and never more
\* than the plan's; only a request that ended in between leaves one behind.
CamerasCounted ==
  counter = manual + leaked + Cardinality({v \in Verifications : cameras[v].live})
                   + Cardinality({h \in Handlers : At(h, "create")})
=============================================================================
