--------------------------- MODULE StreamingProofs ----------------------------
(***************************************************************************)
(* Proofs about live streaming and the gateway, for any sessions, cameras, *)
(* assets and limits: the cloud (StreamControl) keeps its invariants and   *)
(* implements StreamAdmission; the whole (StreamSystem) implements the     *)
(* cloud; and the gateway (GatewayAgent) serves its pipelines, keeps its   *)
(* captures, and tells who is online.                                      *)
(***************************************************************************)
EXTENDS StreamSystem, GatewayAgent, FiniteSetTheorems, TLAPS

\* A session that has no row is unknown to every handler and to the queue.
NewUntouched ==
  \A s \in Sessions : status[s] = "NONE" =>
    /\ upload \cap ({s} \X {"authorized", "stored"}) = {} /\ s \notin removing
    /\ \A k \in Clicks : <<s, k>> \notin stopping
    /\ \A k \in Stops \cup {"START"} : command[<<s, k>>] = "NONE"

\* A handler removes media only after its transaction took the session out of
\* streaming.
RemovalIsLate == \A s \in removing : status[s] \notin Live

\* The playlist an activation is about to announce is there, as long as there
\* still is something to activate.
StoredIsThere ==
  \A s \in Sessions : <<s, "stored">> \in upload /\ status[s] = "STARTING" => s \in media

\* A stop that has yet to be written has no command, nor has the expiration of
\* a session that can still expire.
StopIsUnwritten ==
  /\ \A c \in stopping : command[c] = "NONE"
  /\ \A s \in Sessions : status[s] \in Live => command[<<s, "CLEANUP">>] = "NONE"

\* The inductive invariant.
IInv ==
  /\ TypeOK /\ LiveWithinLimit /\ ActiveHasMedia /\ StopIsRequested
  /\ NewUntouched /\ RemovalIsLate /\ StoredIsThere /\ StopIsUnwritten
------------------------------------------------------------------------------
(* Types *)

\* The types hold at first and every handler keeps them.
LEMMA TypeStep == TypeOK /\ [Next]_vars => TypeOK'
<1> SUFFICES ASSUME TypeOK, [Next]_vars PROVE TypeOK'
  OBVIOUS
<1> USE DEF TypeOK
<1>1. ASSUME NEW s \in Sessions, Create(s) PROVE TypeOK'
  BY <1>1 DEF Create, requests, Commands, Statuses, Counted, Live
<1>2. ASSUME NEW s \in Sessions, NEW k \in Clicks, StopRead(s, k) PROVE TypeOK'
  BY <1>2 DEF StopRead
<1>3. ASSUME NEW s \in Sessions, NEW k \in Clicks, StopCommit(s, k) PROVE TypeOK'
  BY <1>3 DEF StopCommit, Commands, Stops, Statuses, Counted
<1>4. ASSUME NEW s \in Sessions, Cleanup(s) PROVE TypeOK'
  BY <1>4 DEF Cleanup, Commands, Stops, Statuses, Terminal
<1>5. ASSUME NEW s \in Sessions, RemoveMedia(s) PROVE TypeOK'
  BY <1>5 DEF RemoveMedia
<1>6. CASE ApiRestart
  BY <1>6 DEF ApiRestart
<1>7. ASSUME NEW s \in Sessions, UploadAuthorize(s) PROVE TypeOK'
  BY <1>7 DEF UploadAuthorize
<1>8. ASSUME NEW s \in Sessions, UploadStore(s) PROVE TypeOK'
  BY <1>8 DEF UploadStore
<1>9. ASSUME NEW s \in Sessions, UploadActivate(s) PROVE TypeOK'
  BY <1>9 DEF UploadActivate, Activated, Statuses, Counted, Live
<1>10. CASE (\E batch \in SUBSET Commands : Poll(batch)) \/ \E c \in Commands : Lapse(c)
  BY <1>10 DEF Poll, Lapse, requests, Settled
<1>11. ASSUME NEW c \in HandedOut, NEW ok \in BOOLEAN, Acknowledge(c, ok) PROVE TypeOK'
  <2>1. c \in Commands /\ c[1] \in Sessions
    BY DEF HandedOut, Commands
  <2>2. command' \in [Commands -> {"NONE", "PENDING", "DELIVERED"} \cup Settled]
    BY <1>11, <2>1 DEF Acknowledge, Settled
  <2>3. status' \in [Sessions -> Statuses]
    BY <1>11, <2>1 DEF Acknowledge, StopDone, StartFailed, Statuses, Terminal
  <2> QED
    BY <1>11, <2>2, <2>3 DEF Acknowledge, requests
<1>12. CASE UNCHANGED vars
  BY <1>12 DEF vars, requests
<1> QED
  BY <1>1, <1>2, <1>3, <1>4, <1>5, <1>6, <1>7, <1>8, <1>9, <1>10, <1>11, <1>12 DEF Next

\* The rows, the requests in progress and the media store keep their types.
THEOREM TypeCorrect == Spec => []TypeOK
<1>1. Init => TypeOK
  BY DEF Init, TypeOK, Statuses
<1> QED
  BY <1>1, TypeStep, PTL DEF Spec
------------------------------------------------------------------------------
(* Counting the live sessions *)

\* What a session's status may become without a new session going live.
LEMMA FewerLive ==
  ASSUME TypeOK, LiveWithinLimit,
         \A s \in Sessions : status'[s] \in Live => status[s] \in Live
  PROVE  LiveWithinLimit'
<1> DEFINE was == ActiveSessions(Live)
           is == ActiveSessions(Live)'
<1>1. is \subseteq was
  BY DEF ActiveSessions
<1>2. IsFiniteSet(was) /\ IsFiniteSet(is)
  BY SessionsAssumption, FS_Subset DEF ActiveSessions
<1>3. Cardinality(is) <= Cardinality(was)
  BY <1>1, <1>2, FS_Subset
<1>4. Cardinality(is) \in Nat /\ Cardinality(was) \in Nat
  BY <1>2, FS_CardinalityType
<1> QED
  BY <1>3, <1>4, LimitAssumption DEF LiveWithinLimit

\* One more live session fits below the limit that create has checked.
LEMMA OneMoreLive ==
  ASSUME TypeOK, NEW s \in Sessions, Create(s)
  PROVE  LiveWithinLimit'
<1> DEFINE was == ActiveSessions(Live)
           counted == ActiveSessions(Counted)
           is == ActiveSessions(Live)'
<1>1. is = was \cup {s} /\ s \notin was
  BY DEF ActiveSessions, Create, TypeOK, Live
<1>2. IsFiniteSet(was) /\ IsFiniteSet(counted)
  BY SessionsAssumption, FS_Subset DEF ActiveSessions
<1>3. Cardinality(was) <= Cardinality(counted)
  BY <1>2, FS_Subset DEF ActiveSessions, Counted
<1>4. Cardinality(is) = Cardinality(was) + 1
  BY <1>1, <1>2, FS_AddElement
<1>5. Cardinality(was) \in Nat /\ Cardinality(counted) \in Nat
  BY <1>2, FS_CardinalityType
<1>6. Cardinality(counted) < MaxActive
  BY <1>5, LimitAssumption DEF Create, LimitReached
<1> QED
  BY <1>3, <1>4, <1>5, <1>6, LimitAssumption DEF LiveWithinLimit
------------------------------------------------------------------------------
(* The safety invariants *)

\* Nothing streams at first.
LEMMA InitIInv == Init => IInv
<1> SUFFICES ASSUME Init PROVE IInv
  OBVIOUS
<1>1. ActiveSessions(Live) = {}
  BY DEF Init, ActiveSessions, Live
<1>2. LiveWithinLimit
  BY <1>1, FS_EmptySet, LimitAssumption DEF LiveWithinLimit
<1> QED
  BY <1>2 DEF Init, IInv, TypeOK, Statuses, ActiveHasMedia, StopIsRequested,
              NewUntouched, RemovalIsLate, StoredIsThere, StopIsUnwritten,
              Commands, Stops, Live

\* A creation is the only step that adds a live session, and it has room.
LEMMA CreateIInv ==
  ASSUME IInv, NEW s \in Sessions, Create(s), TypeOK' PROVE IInv'
<1>1. LiveWithinLimit'
  BY OneMoreLive DEF IInv
<1>2. ActiveHasMedia' /\ RemovalIsLate' /\ StoredIsThere'
  BY DEF IInv, TypeOK, Create, requests, ActiveHasMedia, RemovalIsLate, StoredIsThere,
         NewUntouched, Live
<1>3. \A t \in Sessions, k \in Stops : command'[<<t, k>>] = command[<<t, k>>]
  BY ClicksAssumption DEF IInv, TypeOK, Create, Stops, Commands
<1>4. StopIsRequested'
  BY <1>3 DEF IInv, TypeOK, Create, StopIsRequested
<1>5. \A t \in Sessions, k \in Stops \cup {"START"} :
        t # s => command'[<<t, k>>] = command[<<t, k>>]
  BY DEF IInv, TypeOK, Create, Commands
<1>6. NewUntouched'
  BY <1>5 DEF IInv, TypeOK, Create, requests, NewUntouched
<1>7. StopIsUnwritten'
  <2>1. \A c \in stopping' : command'[c] = "NONE"
    BY ClicksAssumption DEF IInv, TypeOK, Create, requests, StopIsUnwritten
  <2>2. \A t \in Sessions : status'[t] \in Live => command'[<<t, "CLEANUP">>] = "NONE"
    BY <1>3 DEF IInv, TypeOK, Create, StopIsUnwritten, NewUntouched, Stops
  <2> QED
    BY <2>1, <2>2 DEF StopIsUnwritten
<1> QED
  BY <1>1, <1>2, <1>4, <1>6, <1>7 DEF IInv

\* A step that leaves the queue alone, and takes no session from one side of
\* the new, live or stopped ones to another, keeps what IInv says of them.
LEMMA SameQueue ==
  ASSUME IInv, UNCHANGED command,
         \A t \in Sessions :
           \/ status'[t] = status[t]
           \/ status[t] # "NONE" /\ status'[t] = "ACTIVE"
  PROVE  StopIsRequested'
BY DEF IInv, StopIsRequested

\* A stop request that has read its session has changed nothing yet.
LEMMA StopReadIInv ==
  ASSUME IInv, NEW s \in Sessions, NEW k \in Clicks, StopRead(s, k), TypeOK' PROVE IInv'
<1>1. LiveWithinLimit'
  BY FewerLive DEF IInv, StopRead
<1>2. NewUntouched'
  BY DEF IInv, TypeOK, StopRead, NewUntouched, Live
<1> QED
  BY <1>1, <1>2 DEF IInv, StopRead, ActiveHasMedia, StopIsRequested, RemovalIsLate,
                    StoredIsThere, StopIsUnwritten

\* The late write of a stop leaves a session that cannot become ACTIVE, with a
\* STOP_STREAM written for it.
LEMMA StopCommitIInv ==
  ASSUME IInv, NEW s \in Sessions, NEW k \in Clicks, StopCommit(s, k), TypeOK' PROVE IInv'
<1>1. status[s] # "NONE"
  BY DEF IInv, NewUntouched, StopCommit
<1>2. LiveWithinLimit'
  BY FewerLive DEF IInv, TypeOK, StopCommit, Live
<1>3. \A t \in Sessions, l \in Stops \cup {"START"} :
        command'[<<t, l>>] = IF <<t, l>> = <<s, k>> THEN "PENDING" ELSE command[<<t, l>>]
  BY DEF IInv, TypeOK, StopCommit, Commands, Stops
<1>4. StopIsRequested'
  BY <1>3 DEF IInv, TypeOK, StopCommit, StopIsRequested, Stops
<1>5. NewUntouched'
  BY <1>1, <1>3 DEF IInv, TypeOK, StopCommit, NewUntouched
<1>6. RemovalIsLate' /\ ActiveHasMedia' /\ StoredIsThere'
  BY DEF IInv, TypeOK, StopCommit, RemovalIsLate, ActiveHasMedia, StoredIsThere, Live
<1>7. StopIsUnwritten'
  <2>1. \A c \in stopping' : command'[c] = "NONE"
    BY DEF IInv, TypeOK, StopCommit, StopIsUnwritten
  <2>2. \A t \in Sessions : status'[t] \in Live => command'[<<t, "CLEANUP">>] = "NONE"
    BY <1>3, ClicksAssumption DEF IInv, TypeOK, StopCommit, StopIsUnwritten, Stops, Live
  <2> QED
    BY <2>1, <2>2 DEF StopIsUnwritten
<1> QED
  BY <1>2, <1>4, <1>5, <1>6, <1>7 DEF IInv

\* An expired session cannot become ACTIVE and has its STOP_STREAM.
LEMMA CleanupIInv ==
  ASSUME IInv, NEW s \in Sessions, Cleanup(s), TypeOK' PROVE IInv'
<1>1. LiveWithinLimit'
  BY FewerLive DEF IInv, TypeOK, Cleanup, Live
<1>2. \A t \in Sessions, l \in Stops \cup {"START"} :
        command'[<<t, l>>]
          = IF <<t, l>> = <<s, "CLEANUP">> THEN "PENDING" ELSE command[<<t, l>>]
  BY DEF IInv, TypeOK, Cleanup, Commands, Stops
<1>3. StopIsRequested'
  <2> SUFFICES ASSUME NEW t \in Sessions, status'[t] \in {"STOPPING", "EXPIRED", "ENDED"}
               PROVE  \E k \in Stops : command'[<<t, k>>] # "NONE"
    BY DEF StopIsRequested
  <2>1. CASE t = s
    BY <1>2, <2>1 DEF Stops
  <2>2. CASE t # s
    <3>1. PICK k \in Stops : command[<<t, k>>] # "NONE"
      BY <2>2 DEF IInv, TypeOK, Cleanup, StopIsRequested
    <3> QED
      BY <1>2, <2>2, <3>1
  <2> QED
    BY <2>1, <2>2
<1>4. NewUntouched'
  BY <1>2 DEF IInv, TypeOK, Cleanup, Expirable, Live, NewUntouched
<1>5. RemovalIsLate' /\ ActiveHasMedia' /\ StoredIsThere'
  BY DEF IInv, TypeOK, Cleanup, RemovalIsLate, ActiveHasMedia, StoredIsThere, Live
<1>6. StopIsUnwritten'
  <2>1. \A c \in stopping' : command'[c] = "NONE"
    BY ClicksAssumption DEF IInv, TypeOK, Cleanup, StopIsUnwritten
  <2>2. \A t \in Sessions : status'[t] \in Live => command'[<<t, "CLEANUP">>] = "NONE"
    BY <1>2 DEF IInv, TypeOK, Cleanup, StopIsUnwritten, Stops, Live
  <2> QED
    BY <2>1, <2>2 DEF StopIsUnwritten
<1> QED
  BY <1>1, <1>3, <1>4, <1>5, <1>6 DEF IInv

\* Only the media of sessions that are over is ever removed.
LEMMA RemoveMediaIInv ==
  ASSUME IInv, NEW s \in Sessions, RemoveMedia(s), TypeOK' PROVE IInv'
<1>1. LiveWithinLimit'
  BY FewerLive DEF IInv, RemoveMedia
<1>2. status[s] \notin Live
  BY DEF IInv, RemoveMedia, RemovalIsLate
<1>3. ActiveHasMedia' /\ StoredIsThere'
  BY <1>2 DEF IInv, RemoveMedia, ActiveHasMedia, StoredIsThere, Live
<1>4. NewUntouched' /\ RemovalIsLate' /\ StopIsRequested' /\ StopIsUnwritten'
  BY DEF IInv, RemoveMedia, NewUntouched, RemovalIsLate, StopIsRequested, StopIsUnwritten
<1> QED
  BY <1>1, <1>3, <1>4 DEF IInv

\* The handlers that are lost had promised nothing.
LEMMA ApiRestartIInv ==
  ASSUME IInv, ApiRestart, TypeOK' PROVE IInv'
<1>1. LiveWithinLimit'
  BY FewerLive DEF IInv, ApiRestart
<1> QED
  BY <1>1 DEF IInv, ApiRestart, ActiveHasMedia, StopIsRequested, NewUntouched,
              RemovalIsLate, StoredIsThere, StopIsUnwritten

\* A PUT activates only a session that is STARTING, whose media nobody removes.
LEMMA UploadIInv ==
  ASSUME IInv, NEW s \in Sessions, TypeOK',
         UploadAuthorize(s) \/ UploadStore(s) \/ UploadActivate(s)
  PROVE  IInv'
<1>1. CASE UploadAuthorize(s)
  <2>1. LiveWithinLimit'
    BY <1>1, FewerLive DEF IInv, UploadAuthorize
  <2>2. NewUntouched' /\ StoredIsThere'
    BY <1>1 DEF IInv, TypeOK, UploadAuthorize, NewUntouched, StoredIsThere, Live
  <2> QED
    BY <1>1, <2>1, <2>2
    DEF IInv, UploadAuthorize, ActiveHasMedia, StopIsRequested, RemovalIsLate,
        StopIsUnwritten
<1>2. CASE UploadStore(s)
  <2>1. LiveWithinLimit'
    BY <1>2, FewerLive DEF IInv, UploadStore
  <2>2. NewUntouched' /\ StoredIsThere'
    BY <1>2 DEF IInv, TypeOK, UploadStore, NewUntouched, StoredIsThere
  <2> QED
    BY <1>2, <2>1, <2>2
    DEF IInv, UploadStore, ActiveHasMedia, StopIsRequested, RemovalIsLate,
        StopIsUnwritten
<1>3. CASE UploadActivate(s)
  <2>1. LiveWithinLimit'
    BY <1>3, FewerLive DEF IInv, TypeOK, UploadActivate, Activated, Live
  <2>2. NewUntouched' /\ StoredIsThere'
    BY <1>3 DEF IInv, TypeOK, UploadActivate, Activated, NewUntouched, StoredIsThere
  <2>3. ActiveHasMedia'
    BY <1>3 DEF IInv, TypeOK, UploadActivate, Activated, ActiveHasMedia, StoredIsThere
  <2>4. StopIsRequested'
    BY <1>3, SameQueue DEF IInv, TypeOK, UploadActivate, Activated
  <2>5. RemovalIsLate'
    BY <1>3 DEF IInv, TypeOK, UploadActivate, Activated, RemovalIsLate, Live
  <2>6. StopIsUnwritten'
    BY <1>3 DEF IInv, TypeOK, UploadActivate, Activated, StopIsUnwritten, Live
  <2> QED
    BY <2>1, <2>2, <2>3, <2>4, <2>5, <2>6 DEF IInv
<1> QED
  BY <1>1, <1>2, <1>3

\* Polls and lapses move commands only, and none back to unwritten.
LEMMA PollIInv ==
  ASSUME IInv, TypeOK',
         (\E batch \in SUBSET Commands : Poll(batch)) \/ \E c \in Commands : Lapse(c)
  PROVE  IInv'
<1>1. UNCHANGED <<status, requests, media>>
  BY DEF Poll, Lapse
<1>2. \A c \in Commands : command'[c] = "NONE" <=> command[c] = "NONE"
  BY DEF IInv, TypeOK, Poll, Lapse, Undelivered, Outstanding
<1>3. LiveWithinLimit'
  BY <1>1, FewerLive DEF IInv
<1>4. StopIsRequested'
  BY <1>1, <1>2 DEF IInv, StopIsRequested, Commands
<1>5. NewUntouched'
  BY <1>1, <1>2 DEF IInv, requests, NewUntouched, Commands
<1>6. StopIsUnwritten'
  BY <1>1, <1>2 DEF IInv, TypeOK, requests, StopIsUnwritten, Commands, Stops
<1> QED
  BY <1>1, <1>3, <1>4, <1>5, <1>6
  DEF IInv, requests, ActiveHasMedia, RemovalIsLate, StoredIsThere

\* An acknowledgement ends sessions and makes none live.
LEMMA AcknowledgeIInv ==
  ASSUME IInv, NEW c \in HandedOut, NEW ok \in BOOLEAN, Acknowledge(c, ok), TypeOK'
  PROVE  IInv'
<1>1. PICK s \in Sessions, k \in Stops \cup {"START"} : c = <<s, k>>
  BY DEF HandedOut, Commands
<1>2. command[<<s, k>>] # "NONE" /\ status[s] # "NONE"
  BY <1>1 DEF IInv, NewUntouched, HandedOut
<1>3. /\ \A t \in Sessions : t # s => status'[t] = status[t]
      /\ status'[s] = IF k # "START" THEN StopDone(status[s])
                      ELSE IF ok THEN status[s] ELSE StartFailed(status[s])
  BY <1>1 DEF IInv, TypeOK, Acknowledge
<1>4. \A t \in Sessions : status'[t] \in Live => status'[t] = status[t]
  BY <1>3 DEF StopDone, StartFailed, Live
<1>5. LiveWithinLimit'
  BY <1>4, FewerLive DEF IInv
<1>6. \A t \in Sessions, l \in Stops \cup {"START"} :
        command'[<<t, l>>] = IF <<t, l>> = <<s, k>> THEN "ANSWERED" ELSE command[<<t, l>>]
  BY <1>1 DEF IInv, TypeOK, Acknowledge, Commands
<1>7. StopIsRequested'
  BY <1>3, <1>6 DEF IInv, StopIsRequested, StopDone, StartFailed
<1>8. NewUntouched'
  BY <1>2, <1>3, <1>6
  DEF IInv, NewUntouched, Acknowledge, requests, StopDone, StartFailed
<1>9. ActiveHasMedia' /\ StoredIsThere'
  BY <1>4 DEF IInv, Acknowledge, requests, ActiveHasMedia, StoredIsThere, Live
<1>10. RemovalIsLate'
  BY <1>4 DEF IInv, TypeOK, Acknowledge, requests, RemovalIsLate
<1>11. StopIsUnwritten'
  <2>1. \A d \in stopping' : command'[d] = "NONE"
    BY <1>1, <1>2 DEF IInv, TypeOK, Acknowledge, requests, StopIsUnwritten
  <2>2. \A t \in Sessions : status'[t] \in Live => command'[<<t, "CLEANUP">>] = "NONE"
    BY <1>2, <1>4, <1>6 DEF IInv, StopIsUnwritten, Stops
  <2> QED
    BY <2>1, <2>2 DEF StopIsUnwritten
<1> QED
  BY <1>5, <1>7, <1>8, <1>9, <1>10, <1>11 DEF IInv

\* Every step keeps the inductive invariant, by one lemma per action.
LEMMA IInvStep == IInv /\ [Next]_vars => IInv'
<1> SUFFICES ASSUME IInv, [Next]_vars PROVE IInv'
  OBVIOUS
<1>1. TypeOK'
  BY TypeStep DEF IInv
<1>2. CASE UNCHANGED vars
  <2>1. LiveWithinLimit'
    BY <1>2, FewerLive DEF IInv, vars
  <2> QED
    BY <1>1, <1>2, <2>1 DEF IInv, vars, requests, ActiveHasMedia, StopIsRequested,
                            NewUntouched, RemovalIsLate, StoredIsThere, StopIsUnwritten
<1>3. CASE Next
  BY <1>1, <1>3, CreateIInv, CleanupIInv, RemoveMediaIInv, StopReadIInv, StopCommitIInv,
     UploadIInv, ApiRestartIInv, PollIInv, AcknowledgeIInv DEF Next
<1> QED
  BY <1>2, <1>3

\* However handlers, worker and gateway interleave: the limit of sessions that
\* stream at once is kept, an ACTIVE session has its playlist, and a stopped
\* one has a STOP_STREAM.
THEOREM Safety == Spec => [](LiveWithinLimit /\ ActiveHasMedia /\ StopIsRequested)
<1>1. IInv => LiveWithinLimit /\ ActiveHasMedia /\ StopIsRequested
  BY DEF IInv
<1> QED
  BY <1>1, InitIInv, IInvStep, PTL DEF Spec
------------------------------------------------------------------------------
(* Outcomes and the abstract specification *)

\* A settled command is settled for good: no stop, expiration or poll writes
\* over it.
THEOREM OutcomesAreFinal == Spec => OutcomeIsFinal
<1> DEFINE Final == \A c \in Commands : command[c] \in Settled => command'[c] \in Settled
<1>1. ASSUME IInv, Next PROVE Final
  <2> SUFFICES ASSUME NEW c \in Commands, command[c] \in Settled
               PROVE  command'[c] \in Settled
    OBVIOUS
  <2> USE <1>1 DEF IInv, TypeOK, Settled
  <2>1. ASSUME NEW s \in Sessions, Create(s) PROVE command'[c] = command[c]
    BY <2>1 DEF Create, NewUntouched
  <2>2. ASSUME NEW s \in Sessions, NEW k \in Clicks, StopCommit(s, k)
        PROVE  command'[c] = command[c]
    BY <2>2 DEF StopCommit, StopIsUnwritten
  <2>3. ASSUME NEW s \in Sessions, Cleanup(s) PROVE command'[c] = command[c]
    BY <2>3 DEF Cleanup, Expirable, StopIsUnwritten
  <2>4. ASSUME (\E batch \in SUBSET Commands : Poll(batch)) \/ \E d \in Commands : Lapse(d)
        PROVE  command'[c] = command[c]
    BY <2>4 DEF Poll, Lapse, Undelivered, Outstanding
  <2>5. ASSUME NEW d \in HandedOut, NEW ok \in BOOLEAN, Acknowledge(d, ok)
        PROVE  command'[c] \in Settled
    BY <2>5 DEF Acknowledge
  <2> QED
    BY <2>1, <2>2, <2>3, <2>4, <2>5
    DEF Next, RemoveMedia, StopRead, UploadAuthorize, UploadStore, UploadActivate, ApiRestart
<1>2. IInv /\ [Next]_vars => [Final]_vars
  BY <1>1
<1> QED
  BY <1>2, InitIInv, IInvStep, PTL DEF Spec, OutcomeIsFinal

\* A step that moves one session that has a row, and does not bring it back
\* into streaming, retires it or changes nothing for StreamAdmission.
LEMMA RetireOrStutter ==
  ASSUME TypeOK, NEW s \in Sessions, status[s] # "NONE", status'[s] # "NONE",
         status'[s] \in Live => status[s] \in Live,
         \A t \in Sessions \ {s} : status'[t] = status[t]
  PROVE  [Admission!Next]_<<Streaming, Over>>
<1> USE DEF Streaming, Over, ActiveSessions
<1>1. CASE status[s] \in Live /\ status'[s] \notin Live
  <2>1. Streaming' = Streaming \ {s} /\ Over' = Over \cup {s} /\ s \in Streaming
    BY <1>1
  <2> QED
    BY <2>1 DEF Admission!Next, Admission!Retire
<1>2. CASE ~(status[s] \in Live /\ status'[s] \notin Live)
  <2>1. Streaming' = Streaming /\ Over' = Over
    BY <1>2
  <2> QED
    BY <2>1
<1> QED
  BY <1>1, <1>2

\* StreamControl implements StreamAdmission: a session is admitted once, below
\* the limit, and once it is retired no late upload, stop or acknowledgement
\* makes it stream again.
THEOREM ImplementsAdmission == Spec => AdmissionSpec
<1> DEFINE AdmissionStep == [Admission!Next]_<<Streaming, Over>>
<1>1. Init => Admission!Init
  BY DEF Init, Admission!Init, Streaming, Over, ActiveSessions, Live
<1>2. ASSUME IInv, [Next]_vars PROVE AdmissionStep
  <2> USE <1>2 DEF IInv
  <2>1. ASSUME NEW s \in Sessions, Create(s) PROVE AdmissionStep
    <3>1. Streaming' = Streaming \cup {s} /\ Over' = Over /\ s \notin Streaming \cup Over
      BY <2>1 DEF Create, Streaming, Over, ActiveSessions, TypeOK, Live
    <3>2. IsFiniteSet(Streaming) /\ IsFiniteSet(Streaming')
      BY SessionsAssumption, FS_Subset DEF Streaming, ActiveSessions
    <3>3. Cardinality(Streaming') = Cardinality(Streaming) + 1
      BY <3>1, <3>2, FS_AddElement
    <3>4. Cardinality(Streaming') <= MaxActive
      BY <2>1, OneMoreLive DEF LiveWithinLimit, Streaming
    <3>5. Cardinality(Streaming) < MaxActive
      BY <3>2, <3>3, <3>4, FS_CardinalityType, LimitAssumption
    <3>6. Admission!Cardinality(Streaming) = Cardinality(Streaming)
      BY DEF Cardinality, Admission!Cardinality
    <3> QED
      BY <3>1, <3>5, <3>6 DEF Admission!Next, Admission!Admit
  <2>2. ASSUME NEW s \in Sessions, NEW k \in Clicks, StopCommit(s, k) PROVE AdmissionStep
    <3>1. status[s] # "NONE"
      BY <2>2 DEF StopCommit, NewUntouched
    <3> QED
      BY <2>2, <3>1, RetireOrStutter DEF StopCommit, TypeOK, Live
  <2>3. ASSUME NEW s \in Sessions, Cleanup(s) PROVE AdmissionStep
    BY <2>3, RetireOrStutter DEF Cleanup, Expirable, TypeOK, Live
  <2>4. ASSUME NEW s \in Sessions, UploadActivate(s) PROVE AdmissionStep
    <3>1. CASE status[s] = "STARTING"
      BY <2>4, <3>1, RetireOrStutter DEF UploadActivate, Activated, TypeOK, Live
    <3>2. CASE status[s] # "STARTING"
      BY <2>4, <3>2 DEF UploadActivate, Activated, TypeOK, Streaming, Over,
                         ActiveSessions
    <3> QED
      BY <3>1, <3>2
  <2>5. ASSUME NEW c \in HandedOut, NEW ok \in BOOLEAN, Acknowledge(c, ok)
        PROVE  AdmissionStep
    <3>1. PICK s \in Sessions, k \in Stops \cup {"START"} : c = <<s, k>>
      BY DEF HandedOut, Commands
    <3>2. status[s] # "NONE"
      BY <3>1 DEF NewUntouched, HandedOut
    <3>3. /\ \A t \in Sessions \ {s} : status'[t] = status[t]
          /\ status'[s] \in {status[s], StopDone(status[s]), StartFailed(status[s])}
      BY <2>5, <3>1 DEF TypeOK, Acknowledge
    <3>4. status'[s] # "NONE" /\ (status'[s] \in Live => status[s] \in Live)
      BY <3>2, <3>3 DEF StopDone, StartFailed, Live
    <3> QED
      BY <3>2, <3>3, <3>4, RetireOrStutter
  <2>6. ASSUME UNCHANGED status PROVE AdmissionStep
    BY <2>6 DEF Streaming, Over, ActiveSessions
  <2> QED
    BY <2>1, <2>2, <2>3, <2>4, <2>5, <2>6
    DEF Next, RemoveMedia, StopRead, UploadAuthorize, UploadStore, ApiRestart, Poll, Lapse, vars
<1>3. IInv /\ [Next]_vars => AdmissionStep
  BY <1>2
<1> QED
  BY <1>1, <1>3, InitIInv, IInvStep, PTL DEF Spec, AdmissionSpec, Admission!Spec
------------------------------------------------------------------------------
(* The pipelines of the gateway *)

AgentTypes ==
  /\ running \subseteq Cameras /\ indexed \subseteq Sessions /\ starting \subseteq Sessions
  /\ viewers \in [Cameras -> SUBSET Sessions]
  /\ inbox \subseteq Commands /\ acks \subseteq Acks
\* A pipeline is viewed by sessions of its camera.
ViewersAtHome == \A cam \in Cameras : \A s \in viewers[cam] : CameraOf[s] = cam
PipelinesInv == AgentTypes /\ ViewersAtHome /\ PipelinesServed

\* One pipeline more, where there is room for it.
LEMMA OneMorePipeline ==
  ASSUME running \subseteq Cameras, NEW cam \in Cameras, cam \notin running, ~AtCapacity
  PROVE  Cardinality(running \cup {cam}) <= MaxStreams
<1>1. IsFiniteSet(running)
  BY CamerasAssumption, FS_Subset
<1>2. Cardinality(running) \in Nat /\ Cardinality(running \cup {cam}) = Cardinality(running) + 1
  BY <1>1, FS_CardinalityType, FS_AddElement
<1> QED
  BY <1>2, MaxStreamsAssumption DEF AtCapacity

\* Fewer pipelines stay within the limit.
LEMMA OneLessPipeline ==
  ASSUME running \subseteq Cameras, Cardinality(running) <= MaxStreams, NEW cam
  PROVE  Cardinality(running \ {cam}) <= MaxStreams
<1>1. IsFiniteSet(running) /\ IsFiniteSet(running \ {cam})
  BY CamerasAssumption, FS_Subset
<1>2. /\ Cardinality(running) \in Nat /\ Cardinality(running \ {cam}) \in Nat
      /\ Cardinality(running \ {cam}) <= Cardinality(running)
  BY <1>1, FS_CardinalityType, FS_Subset
<1> QED
  BY <1>2, MaxStreamsAssumption

\* A session that is forgotten leaves no trace, and takes its pipeline with it when it was
\* the last that viewed it.
LEMMA ForgetKeeps ==
  ASSUME PipelinesInv, NEW s \in Sessions, Forget(s)
  PROVE  /\ running' \subseteq Cameras /\ indexed' \subseteq Sessions
         /\ viewers' \in [Cameras -> SUBSET Sessions]
         /\ ViewersAtHome' /\ PipelinesServed'
<1> USE DEF PipelinesInv, AgentTypes
<1>1. CASE s \notin indexed
  BY <1>1 DEF Forget, manager, ViewersAtHome, PipelinesServed
<1>2. CASE s \in indexed
  <2> DEFINE cam == CameraOf[s]
             left == viewers[cam] \ {s}
  <2>1. cam \in Cameras
    BY CamerasAssumption
  <2>2. /\ indexed' = indexed \ {s} /\ viewers' = [viewers EXCEPT ![cam] = left]
        /\ running' = IF left = {} THEN running \ {cam} ELSE running
    BY <1>2 DEF Forget
  <2>3. \A c \in Cameras : viewers'[c] = IF c = cam THEN left ELSE viewers[c]
    BY <2>1, <2>2
  <2>4. ViewersAtHome'
    BY <2>3 DEF ViewersAtHome
  <2>5. \A t \in Sessions : t \in indexed' <=> t \in viewers'[CameraOf[t]]
    BY <2>2, <2>3, CamerasAssumption DEF PipelinesServed
  <2>6. \A c \in Cameras : c \in running' <=> viewers'[c] # {}
    <3>1. left # {} => cam \in running
      BY <2>1 DEF PipelinesServed
    <3> QED
      BY <2>2, <2>3, <3>1 DEF PipelinesServed
  <2>7. Cardinality(running') <= MaxStreams
    BY <2>2, OneLessPipeline DEF PipelinesServed
  <2>8. running' \subseteq Cameras /\ indexed' \subseteq Sessions
    BY <2>2
  <2>9. viewers' \in [Cameras -> SUBSET Sessions]
    BY <2>1, <2>2
  <2> HIDE DEF cam, left
  <2> QED
    BY <2>4, <2>5, <2>6, <2>7, <2>8, <2>9 DEF PipelinesServed
<1> QED
  BY <1>1, <1>2

\* A session that joins is the pipeline's of its camera, which runs by then.
LEMMA JoinKeeps ==
  ASSUME PipelinesInv, NEW s \in Sessions, Join(s),
         running' = running \cup {CameraOf[s]}, Cardinality(running') <= MaxStreams
  PROVE  /\ running' \subseteq Cameras /\ indexed' \subseteq Sessions
         /\ viewers' \in [Cameras -> SUBSET Sessions]
         /\ ViewersAtHome' /\ PipelinesServed'
<1> USE DEF PipelinesInv, AgentTypes
<1> DEFINE cam == CameraOf[s]
<1>1. cam \in Cameras
  BY CamerasAssumption
<1>2. indexed' = indexed \cup {s} /\ viewers' = [viewers EXCEPT ![cam] = viewers[cam] \cup {s}]
  BY DEF Join
<1>3. \A c \in Cameras : viewers'[c] = IF c = cam THEN viewers[cam] \cup {s} ELSE viewers[c]
  BY <1>1, <1>2
<1>4. ViewersAtHome'
  BY <1>3 DEF ViewersAtHome
<1>5. \A t \in Sessions : t \in indexed' <=> t \in viewers'[CameraOf[t]]
  BY <1>2, <1>3, CamerasAssumption DEF PipelinesServed
<1>6. \A c \in Cameras : c \in running' <=> viewers'[c] # {}
  BY <1>3 DEF PipelinesServed
<1>7. running' \subseteq Cameras /\ indexed' \subseteq Sessions
  BY <1>1, <1>2
<1>8. viewers' \in [Cameras -> SUBSET Sessions]
  BY <1>1, <1>2
<1> HIDE DEF cam
<1> QED
  BY <1>4, <1>5, <1>6, <1>7, <1>8 DEF PipelinesServed

\* The queue and the batch hold nothing but commands.
LEMMA AckedTypes ==
  ASSUME AgentTypes, NEW c \in Commands, NEW ok \in BOOLEAN,
         Acked(c, ok) \/ BatchAbandoned
  PROVE  inbox' \subseteq Commands /\ acks' \subseteq Acks
BY DEF AgentTypes, Acked, BatchAbandoned, Acks

\* Whatever command of a batch is run keeps PipelinesInv.
LEMMA RunBatchKeeps ==
  ASSUME PipelinesInv, NEW s \in Sessions, RunBatch(s)
  PROVE  PipelinesInv'
<1> USE DEF PipelinesInv
<1>0. \A k \in Stops \cup {"START"} : <<s, k>> \in Commands
  BY DEF Commands
<1>1. ASSUME StartAgain(s) \/ StartRefused(s)
      PROVE  PipelinesInv'
  <2>1. inbox' \subseteq Commands /\ acks' \subseteq Acks
    BY <1>0, <1>1, AckedTypes DEF StartAgain, StartRefused
  <2> QED
    BY <1>1, <2>1
    DEF StartAgain, StartRefused, manager, AgentTypes, ViewersAtHome, PipelinesServed
<1>2. ASSUME StartShared(s)
      PROVE  PipelinesInv'
  <2>1. inbox' \subseteq Commands /\ acks' \subseteq Acks
    BY <1>0, <1>2, AckedTypes DEF StartShared
  <2>2. running' = running \cup {CameraOf[s]} /\ Cardinality(running') <= MaxStreams
    BY <1>2 DEF StartShared, PipelinesServed
  <2> QED
    BY <1>2, <2>1, <2>2, JoinKeeps DEF StartShared, AgentTypes
<1>3. ASSUME StartSpawn(s)
      PROVE  PipelinesInv'
  <2>1. Cardinality(running') <= MaxStreams
    BY <1>3, OneMorePipeline, CamerasAssumption DEF StartSpawn, AgentTypes
  <2> QED
    BY <1>3, <2>1, JoinKeeps DEF StartSpawn, AgentTypes
<1>4. ASSUME NEW ok \in BOOLEAN, StartAnswer(s, ok)
      PROVE  PipelinesInv'
  <2>1. acks' \subseteq Acks
    BY <1>0, <1>4 DEF StartAnswer, AgentTypes, Acks
  <2>2. CASE ok
    BY <1>4, <2>1, <2>2 DEF StartAnswer, manager, AgentTypes, ViewersAtHome, PipelinesServed
  <2>3. CASE ~ok
    BY <1>4, <2>1, <2>3, ForgetKeeps DEF StartAnswer, AgentTypes
  <2> QED
    BY <2>2, <2>3
<1>5. ASSUME NEW k \in Stops, RunStop(s, k)
      PROVE  PipelinesInv'
  <2>1. inbox' \subseteq Commands /\ acks' \subseteq Acks
    BY <1>0, <1>5, AckedTypes DEF RunStop
  <2> QED
    BY <1>5, <2>1, ForgetKeeps DEF RunStop, AgentTypes
<1> QED
  BY <1>1, <1>2, <1>3, <1>4, <1>5 DEF RunBatch

\* So do a new batch, an acknowledgement that is sent, the end of a pipeline, and that of
\* the gateway.
LEMMA AgentElseKeeps ==
  ASSUME PipelinesInv,
         \/ \E batch \in SUBSET Commands : Receive(batch)
         \/ \E cam \in Cameras : PipelineExit(cam)
         \/ \E a \in Acks : Flush(a)
         \/ Restart
         \/ BatchAbandoned /\ UNCHANGED <<manager, starting>>
         \/ UNCHANGED agent
  PROVE  PipelinesInv'
<1> USE DEF PipelinesInv
<1>1. CASE \E batch \in SUBSET Commands : Receive(batch)
  BY <1>1 DEF Receive, manager, AgentTypes, ViewersAtHome, PipelinesServed
<1>2. ASSUME NEW cam \in Cameras, PipelineExit(cam)
      PROVE  PipelinesInv'
  <2>1. \A c \in Cameras : viewers'[c] = IF c = cam THEN {} ELSE viewers[c]
    BY <1>2 DEF PipelineExit, AgentTypes
  <2>2. AgentTypes' /\ ViewersAtHome'
    BY <1>2, <2>1 DEF PipelineExit, AgentTypes, ViewersAtHome
  <2>3. \A t \in Sessions : t \in indexed' <=> t \in viewers'[CameraOf[t]]
    BY <1>2, <2>1, CamerasAssumption DEF PipelineExit, ViewersAtHome, PipelinesServed
  <2>4. \A c \in Cameras : c \in running' <=> viewers'[c] # {}
    BY <1>2, <2>1 DEF PipelineExit, PipelinesServed
  <2>5. Cardinality(running') <= MaxStreams
    BY <1>2, OneLessPipeline DEF PipelineExit, PipelinesServed, AgentTypes
  <2> QED
    BY <2>2, <2>3, <2>4, <2>5 DEF PipelinesServed
<1>3. CASE \E a \in Acks : Flush(a)
  BY <1>3 DEF Flush, manager, AgentTypes, ViewersAtHome, PipelinesServed
<1>4. CASE Restart
  BY <1>4, FS_EmptySet, CamerasAssumption, MaxStreamsAssumption
  DEF Restart, AgentTypes, ViewersAtHome, PipelinesServed
<1>5. CASE BatchAbandoned /\ UNCHANGED <<manager, starting>>
  BY <1>5 DEF BatchAbandoned, manager, AgentTypes, ViewersAtHome, PipelinesServed
<1>6. CASE UNCHANGED agent
  BY <1>6 DEF agent, manager, AgentTypes, ViewersAtHome, PipelinesServed
<1> QED
  BY <1>1, <1>2, <1>3, <1>4, <1>5, <1>6

\* Nothing runs at first.
LEMMA PipelinesStart ==
  ASSUME StreamsInit
  PROVE  PipelinesInv
BY FS_EmptySet, CamerasAssumption, MaxStreamsAssumption
DEF StreamsInit, PipelinesInv, AgentTypes, ViewersAtHome, PipelinesServed
------------------------------------------------------------------------------
(* The whole: the cloud and the gateway *)

\* What the gateway holds of commands: it knows only those that were handed out.
CommandsKnown ==
  /\ inbox \subseteq HandedOut
  /\ \A s \in starting : <<s, "START">> \in HandedOut
  /\ \A a \in acks : a.cmd \in HandedOut
\* The inductive invariant of the whole.
SystemInv == IInv /\ PipelinesInv /\ CommandsKnown

\* A command that was handed out stays one, whatever the cloud does with it.
LEMMA HandedOutStays ==
  ASSUME IInv, [Next]_vars
  PROVE  HandedOut \subseteq HandedOut'
<1> SUFFICES ASSUME NEW c \in HandedOut PROVE command'[c] \notin {"NONE", "PENDING"}
  BY DEF HandedOut
<1> USE DEF IInv, TypeOK
<1>1. c \in Commands /\ command[c] \notin {"NONE", "PENDING"}
  BY DEF HandedOut
<1>2. ASSUME NEW s \in Sessions, Create(s) PROVE command'[c] = command[c]
  BY <1>1, <1>2 DEF Create, NewUntouched
<1>3. ASSUME NEW s \in Sessions, NEW k \in Clicks, StopCommit(s, k)
      PROVE  command'[c] = command[c]
  BY <1>1, <1>3 DEF StopCommit, StopIsUnwritten
<1>4. ASSUME NEW s \in Sessions, Cleanup(s) PROVE command'[c] = command[c]
  BY <1>1, <1>4 DEF Cleanup, Expirable, StopIsUnwritten
<1>5. ASSUME NEW batch \in SUBSET Commands, Poll(batch) PROVE command'[c] = command[c]
  BY <1>1, <1>5 DEF Poll, Undelivered
<1>6. ASSUME NEW d \in Commands, Lapse(d)
      PROVE  command'[c] \in {command[c], "EXPIRED"}
  BY <1>1, <1>6 DEF Lapse
<1>7. ASSUME NEW d \in HandedOut, NEW ok \in BOOLEAN, Acknowledge(d, ok)
      PROVE  command'[c] \in {command[c], "ANSWERED"}
  BY <1>1, <1>7 DEF Acknowledge
<1> QED
  BY <1>1, <1>2, <1>3, <1>4, <1>5, <1>6, <1>7
  DEF Next, vars, requests, RemoveMedia, StopRead, UploadAuthorize, UploadStore,
      UploadActivate, ApiRestart

\* The gateway learns of a command from a batch only.
LEMMA RunBatchKnown ==
  ASSUME CommandsKnown, AgentTypes, NEW s \in Sessions, RunBatch(s), HandedOut' = HandedOut
  PROVE  CommandsKnown'
<1> USE DEF CommandsKnown
<1>1. ASSUME NEW c \in inbox, NEW ok \in BOOLEAN, Acked(c, ok) \/ BatchAbandoned
      PROVE  inbox' \subseteq HandedOut /\ \A a \in acks' : a.cmd \in HandedOut
  BY <1>1 DEF Acked, BatchAbandoned
<1>2. CASE StartAgain(s) \/ StartShared(s) \/ StartRefused(s)
  BY <1>1, <1>2 DEF StartAgain, StartShared, StartRefused, NextInBatch
<1>3. CASE StartSpawn(s)
  BY <1>3 DEF StartSpawn, NextInBatch
<1>4. ASSUME NEW ok \in BOOLEAN, StartAnswer(s, ok)
      PROVE  CommandsKnown'
  BY <1>4 DEF StartAnswer
<1>5. ASSUME NEW k \in Stops, RunStop(s, k)
      PROVE  CommandsKnown'
  BY <1>1, <1>5 DEF RunStop, NextInBatch
<1> QED
  BY <1>2, <1>3, <1>4, <1>5 DEF RunBatch

\* Every step of the whole is one that StreamControl allows, and one that the agent takes or
\* that leaves the agent alone.
LEMMA SystemSteps ==
  ASSUME SystemInv, [SystemNext]_<<vars, agent>>
  PROVE  [Next]_vars /\ SystemInv'
<1>1. ASSUME [Next]_vars, PipelinesInv' PROVE [Next]_vars /\ IInv' /\ PipelinesInv'
  BY <1>1, IInvStep DEF SystemInv
<1>2. ASSUME [Next]_vars PROVE HandedOut \subseteq HandedOut'
  BY <1>2, HandedOutStays DEF SystemInv
<1>3. ASSUME [Next]_vars, UNCHANGED agent PROVE [Next]_vars /\ SystemInv'
  <2>1. PipelinesInv'
    BY <1>3, AgentElseKeeps DEF SystemInv
  <2>2. CommandsKnown'
    BY <1>2, <1>3 DEF SystemInv, CommandsKnown, agent
  <2> QED
    BY <1>1, <1>3, <2>1, <2>2 DEF SystemInv
<1>4. ASSUME UNCHANGED vars, PipelinesInv', HandedOut' = HandedOut => CommandsKnown'
      PROVE  [Next]_vars /\ SystemInv'
  <2>1. HandedOut' = HandedOut
    BY <1>4 DEF HandedOut, vars
  <2> QED
    BY <1>1, <1>4, <2>1 DEF SystemInv
<1>5. ASSUME NEW s \in Sessions, CloudStep(s) PROVE [Next]_vars /\ SystemInv'
  BY <1>3, <1>5 DEF CloudStep, Next
<1>6. ASSUME NEW s \in Sessions, AgentUploads(s) PROVE [Next]_vars /\ SystemInv'
  BY <1>3, <1>6 DEF AgentUploads, Next
<1>7. CASE ApiRestart /\ UNCHANGED agent
  BY <1>3, <1>7 DEF Next
<1>8. ASSUME NEW fresh \in SUBSET Commands, AgentPolls(fresh) PROVE [Next]_vars /\ SystemInv'
  <2>1. [Next]_vars
    BY <1>8 DEF AgentPolls, Next
  <2>2. PICK batch \in SUBSET (fresh \cup Delivered) : Receive(batch)
    BY <1>8 DEF AgentPolls
  <2>3. PipelinesInv'
    BY <2>2, AgentElseKeeps DEF SystemInv, Delivered
  <2>4. fresh \cup Delivered \subseteq HandedOut'
    <3>1. Delivered \subseteq HandedOut
      BY DEF Delivered, HandedOut
    <3>2. fresh \subseteq HandedOut'
      BY <1>8 DEF AgentPolls, Poll, HandedOut
    <3> QED
      BY <1>2, <2>1, <3>1, <3>2
  <2>5. CommandsKnown'
    BY <1>2, <2>1, <2>2, <2>4 DEF Receive, Idle, SystemInv, CommandsKnown
  <2> QED
    BY <1>1, <2>1, <2>3, <2>5 DEF SystemInv
<1>9. ASSUME NEW c \in Commands, AgentLapses(c) PROVE [Next]_vars /\ SystemInv'
  BY <1>3, <1>9 DEF AgentLapses, Next
<1>10. ASSUME NEW a \in Acks, AgentAcknowledges(a) PROVE [Next]_vars /\ SystemInv'
  <2>1. Flush(a) /\ PipelinesInv'
    BY <1>10, AgentElseKeeps DEF AgentAcknowledges, SystemInv
  <2>2. [Next]_vars
    BY <1>10 DEF AgentAcknowledges, Flush, SystemInv, CommandsKnown, Acks, Next
  <2>3. CommandsKnown'
    BY <1>2, <2>1, <2>2 DEF Flush, SystemInv, CommandsKnown
  <2> QED
    BY <1>1, <2>1, <2>2, <2>3 DEF SystemInv
<1>11. ASSUME NEW s \in Sessions, RunBatch(s), UNCHANGED vars
       PROVE  [Next]_vars /\ SystemInv'
  <2>1. PipelinesInv'
    BY <1>11, RunBatchKeeps DEF SystemInv
  <2>2. HandedOut' = HandedOut => CommandsKnown'
    BY <1>11, RunBatchKnown DEF SystemInv, PipelinesInv
  <2> QED
    BY <1>4, <1>11, <2>1, <2>2
<1>12. ASSUME NEW cam \in Cameras, PipelineExit(cam), UNCHANGED vars
       PROVE  [Next]_vars /\ SystemInv'
  <2>1. PipelinesInv'
    BY <1>12, AgentElseKeeps DEF SystemInv
  <2>2. HandedOut' = HandedOut => CommandsKnown'
    BY <1>12 DEF PipelineExit, SystemInv, CommandsKnown
  <2> QED
    BY <1>4, <1>12, <2>1, <2>2
<1>13. ASSUME Restart, UNCHANGED vars
       PROVE  [Next]_vars /\ SystemInv'
  <2>1. PipelinesInv'
    BY <1>13, AgentElseKeeps DEF SystemInv
  <2>2. HandedOut' = HandedOut => CommandsKnown'
    BY <1>13 DEF Restart, SystemInv, CommandsKnown
  <2> QED
    BY <1>4, <1>13, <2>1, <2>2
<1>14. CASE UNCHANGED <<vars, agent>>
  BY <1>3, <1>14
<1> QED
  BY <1>5, <1>6, <1>7, <1>8, <1>9, <1>10, <1>11, <1>12, <1>13, <1>14 DEF SystemNext, AgentStep

\* Nothing is queued and nothing runs at first.
LEMMA SystemStarts ==
  ASSUME SystemInit
  PROVE  SystemInv
BY InitIInv, PipelinesStart DEF SystemInit, SystemInv, CommandsKnown, StreamsInit

\* The gateway as it is does nothing to the cloud's rows but what StreamControl allows any
\* gateway.
THEOREM SystemImplementsCloud == SystemSpec => CloudSpec
<1>1. SystemInit => Init
  BY DEF SystemInit
<1>2. SystemInit => SystemInv
  BY SystemStarts
<1>3. SystemInv /\ [SystemNext]_<<vars, agent>> => SystemInv' /\ [Next]_vars
  BY SystemSteps
<1> QED
  BY <1>1, <1>2, <1>3, PTL DEF SystemSpec, CloudSpec, Spec

\* So the whole keeps what streaming promises, and its gateway serves its pipelines.
THEOREM SystemStreams ==
  SystemSpec => AdmissionSpec /\ [](LiveWithinLimit /\ ActiveHasMedia /\ PipelinesServed)
<1>1. SystemInit => SystemInv
  BY SystemStarts
<1>2. SystemInv /\ [SystemNext]_<<vars, agent>> => SystemInv'
  BY SystemSteps
<1>3. SystemInv => LiveWithinLimit /\ ActiveHasMedia /\ PipelinesServed
  BY DEF SystemInv, IInv, PipelinesInv
<1> QED
  BY <1>1, <1>2, <1>3, SystemImplementsCloud, ImplementsAdmission, PTL DEF SystemSpec, CloudSpec
------------------------------------------------------------------------------
(* The captures of the gateway *)

\* What a flush is made of.
ItemType == [file : Nat, attempts : Nat]
FlushShape(m) == {"pc", "todo", "a", "item"} \subseteq DOMAIN m /\ m.item \in ItemType
CaptureTypes ==
  /\ files \in [Captures!Assets -> [1 .. MaxFiles -> {"NONE", "PART", "WHOLE"}]]
  /\ made \in [Captures!Assets -> 0 .. MaxFiles]
  /\ meta \in [Captures!Assets -> ItemType]
  /\ open \in [Captures!Assets -> SUBSET Captures!Flushers]
  /\ recordings \in [Recordings -> 0 .. MaxFiles]
  /\ DOMAIN flushes = Captures!Flushers
  /\ \A f \in Captures!Flushers : FlushShape(flushes[f])
  /\ {"pc", "a", "file"} \subseteq DOMAIN job
  /\ job.pc \in {"idle", "shoot", "queue", "write", "flush"}
  /\ job.pc # "idle" => job.a \in Snapshots
  /\ disturbed \in BOOLEAN

\* A flush has the item of an asset in hand.
InHand(f) == flushes[f].pc \in {"upload", "remove", "retry", "rewrite"}
\* A file of asset a that was named, and is written; and one that holds what was captured
\* until the asset is settled.
Written(a, n) == n \in 1 .. made[a] /\ files[a][n] = "PART"
Safe(a, n) ==
  n \in 1 .. made[a] /\ files[a][n] # "PART" /\ (a \in settled \/ files[a][n] = "WHOLE")

JobFits ==
  /\ job.pc = "shoot" => Written(job.a, job.file)
  /\ job.pc \in {"queue", "write"} => Safe(job.a, job.file)
  /\ job.pc \in {"write", "flush"} => job.a \in captured
RecordingsFit == \A a \in Recordings :
  /\ recordings[a] # 0 => Written(a, recordings[a])
  /\ flushes[a].pc \in {"queue", "write"} => Safe(a, flushes[a].item.file)
  /\ flushes[a].pc = "write" => a \in captured
FlushesFit == \A f \in Captures!Flushers :
  /\ InHand(f) => flushes[f].a \in captured /\ Safe(flushes[f].a, flushes[f].item.file)
  /\ flushes[f].pc = "remove" => flushes[f].a \in settled
\* What is captured is settled or queued; or its metadata is no item, while it is written
\* or because it was cut off.
MetaFits == \A a \in Captures!Assets :
  /\ Captures!Readable(a) => a \in captured /\ Safe(a, meta[a].file)
  /\ a \in captured =>
       \/ a \in settled
       \/ Captures!Readable(a)
       \/ meta[a] = Captures!Unreadable /\ (open[a] # {} \/ a \in cut)
HistoryFits ==
  captured \subseteq Captures!Assets /\ settled \subseteq captured /\ completed \subseteq captured
CapturesSafe ==
  /\ CaptureTypes /\ JobFits /\ RecordingsFit /\ FlushesFit /\ MetaFits /\ HistoryFits

\* Until something is captured again, an asset has one file, the last, which is there for a
\* purpose, and whatever is known of a file of the asset is known of that one.
Purpose(a, n) ==
  \/ a \in Recordings /\ recordings[a] = n
  \/ a \in Recordings /\ flushes[a].pc \in {"queue", "write"} /\ flushes[a].item.file = n
  \/ job.pc \in {"shoot", "queue", "write"} /\ job.a = a /\ job.file = n
  \/ meta[a].file = n
  \/ \E f \in Captures!Flushers :
       flushes[f].pc = "rewrite" /\ flushes[f].a = a /\ flushes[f].item.file = n
OneFile == \A a \in Captures!Assets, n \in 1 .. MaxFiles :
  files[a][n] # "NONE" => n = made[a] /\ Purpose(a, n)
LastKnown ==
  /\ \A a \in Captures!Assets : Captures!Readable(a) => meta[a].file = made[a]
  /\ \A f \in Captures!Flushers : InHand(f) => flushes[f].item.file = made[flushes[f].a]
  /\ \A a \in Recordings : flushes[a].pc \in {"queue", "write"} => flushes[a].item.file = made[a]
  /\ job.pc \in {"queue", "write"} => job.file = made[job.a]

\* What is being captured was not captured before, so nobody else is at its metadata while
\* it is put into the queue; and what is written back is written, unless it was given up.
Fresh ==
  /\ job.pc \in {"shoot", "queue"} => job.a \notin captured
  /\ \A a \in Recordings : recordings[a] # 0 \/ flushes[a].pc = "queue" => a \notin captured
Queuing(f, a) ==
  \/ f = "main" /\ job.pc = "write" /\ job.a = a
  \/ f = a /\ a \in Recordings /\ flushes[a].pc = "write"
Alone == \A a \in Captures!Assets, f \in Captures!Flushers : Queuing(f, a) =>
  /\ meta[a] = Captures!Unreadable /\ f \in open[a]
  /\ \A g \in Captures!Flushers : InHand(g) => flushes[g].a # a
Rewritten == \A f \in Captures!Flushers : flushes[f].pc = "rewrite" =>
  f \in open[flushes[f].a] \/ files[flushes[f].a][made[flushes[f].a]] = "NONE"
Undisturbed == ~disturbed => OneFile /\ LastKnown /\ Fresh /\ Alone /\ Rewritten
CapturesInv == CapturesSafe /\ Undisturbed

\* An item that names a file is neither none nor one that cannot be read.
LEMMA Itemless == \A i : i.file \in 1 .. MaxFiles => i \notin {Captures!NoItem, Captures!Unreadable}
  BY CapturesAssumption DEF Captures!NoItem, Captures!Unreadable

\* None, and what cannot be read, are of the type of an item.
LEMMA ItemTypes ==
  /\ Captures!NoItem \in ItemType /\ Captures!Unreadable \in ItemType
  /\ Captures!NoItem # Captures!Unreadable
  /\ Captures!NoItem.file = 0 /\ Captures!Unreadable.file = 0
  BY DEF Captures!NoItem, Captures!Unreadable, ItemType

\* A file that is put: the others are as they were.
LEMMA PutIs ==
  ASSUME CaptureTypes, NEW a \in Captures!Assets, NEW n \in 1 .. MaxFiles,
         NEW s \in {"NONE", "PART", "WHOLE"}, Captures!Put(a, n, s)
  PROVE  /\ files' \in [Captures!Assets -> [1 .. MaxFiles -> {"NONE", "PART", "WHOLE"}]]
         /\ \A b \in Captures!Assets, k \in 1 .. MaxFiles :
              files'[b][k] = IF b = a /\ k = n THEN s ELSE files[b][k]
<1>1. files' = [files EXCEPT ![a] = [files[a] EXCEPT ![n] = s]]
  BY DEF Captures!Put, CaptureTypes
<1> QED
  BY <1>1 DEF CaptureTypes

\* A flush that goes on: the others are where they were.
LEMMA FlushIs ==
  ASSUME CaptureTypes, NEW f \in Captures!Flushers, NEW m, FlushShape(m),
         flushes' = [flushes EXCEPT ![f] = m]
  PROVE  /\ DOMAIN flushes' = Captures!Flushers
         /\ \A g \in Captures!Flushers : flushes'[g] = IF g = f THEN m ELSE flushes[g]
         /\ \A g \in Captures!Flushers : FlushShape(flushes'[g])
  BY DEF CaptureTypes

\* What is safe stays so, as long as only files that are written, or of assets that are
\* settled, are given up.
LEMMA SafeStays ==
  ASSUME CaptureTypes, \A a \in Captures!Assets : made'[a] \in Nat /\ made[a] <= made'[a],
         settled \subseteq settled',
         \A a \in Captures!Assets : \A n \in 1 .. made[a] :
           \/ files'[a][n] = files[a][n]
           \/ files[a][n] = "PART"
           \/ a \in settled' /\ files'[a][n] # "PART"
  PROVE  \A a \in Captures!Assets : \A n : Safe(a, n) => Safe(a, n)'
<1> SUFFICES ASSUME NEW a \in Captures!Assets, NEW n, Safe(a, n)
             PROVE  n \in 1 .. made'[a] /\ files'[a][n] # "PART"
                    /\ (a \in settled' \/ files'[a][n] = "WHOLE")
  BY DEF Safe
<1>1. made[a] \in Nat /\ made'[a] \in Nat /\ made[a] <= made'[a] /\ n \in 1 .. made[a]
  BY DEF CaptureTypes, Safe
<1> QED
  BY <1>1 DEF Safe

\* A capture begins: its file has a name that nobody knew.
LEMMA CaptureBegins ==
  ASSUME CaptureTypes, NEW a \in Captures!Assets, NEW n \in Captures!Files,
         Captures!NewFile(a, n), Captures!Put(a, n, "PART"), Captures!Capture(a),
         settled' = settled
  PROVE  /\ files' \in [Captures!Assets -> [1 .. MaxFiles -> {"NONE", "PART", "WHOLE"}]]
         /\ made' \in [Captures!Assets -> 0 .. MaxFiles]
         /\ made'[a] = n /\ Written(a, n)'
         /\ \A b \in Captures!Assets : made[b] <= made'[b] /\ (b # a => made'[b] = made[b])
         /\ \A b \in Captures!Assets : \A k \in 1 .. made[b] : files'[b][k] = files[b][k]
         /\ \A b \in Captures!Assets : \A k : Safe(b, k) => Safe(b, k)'
         /\ \A b \in Captures!Assets : \A k : Written(b, k) => Written(b, k)'
         /\ disturbed' \in BOOLEAN
         /\ ~disturbed' =>
              /\ ~disturbed /\ a \notin captured
              /\ \A k \in 1 .. MaxFiles : files[a][k] = "NONE" /\ (files'[a][k] # "NONE" => k = n)
              /\ \A b \in Captures!Assets \ {a} :
                   \A k \in 1 .. MaxFiles : files'[b][k] = files[b][k]
<1>1. n \in 1 .. MaxFiles /\ n = made[a] + 1
  BY DEF Captures!Files, Captures!NewFile
<1>2. /\ files' \in [Captures!Assets -> [1 .. MaxFiles -> {"NONE", "PART", "WHOLE"}]]
      /\ \A b \in Captures!Assets, k \in 1 .. MaxFiles :
           files'[b][k] = IF b = a /\ k = n THEN "PART" ELSE files[b][k]
  <2>1. files' = [files EXCEPT ![a] = [files[a] EXCEPT ![n] = "PART"]]
    BY DEF Captures!Put, CaptureTypes
  <2> QED
    BY <1>1, <2>1 DEF CaptureTypes
<1>3. /\ made' = [made EXCEPT ![a] = n] /\ made' \in [Captures!Assets -> 0 .. MaxFiles]
      /\ disturbed' \in BOOLEAN
  BY <1>1 DEF Captures!Capture, CaptureTypes
<1>4. \A b \in Captures!Assets : made[b] \in Nat /\ made[b] <= MaxFiles
  BY CapturesAssumption DEF CaptureTypes
<1>5. \A b \in Captures!Assets : made'[b] = IF b = a THEN n ELSE made[b]
  BY <1>3 DEF CaptureTypes
<1>6. \A b \in Captures!Assets :
        made'[b] \in Nat /\ made[b] <= made'[b] /\ (b # a => made'[b] = made[b])
  BY <1>1, <1>4, <1>5
<1>7. \A b \in Captures!Assets : \A k \in 1 .. made[b] : files'[b][k] = files[b][k]
  <2> SUFFICES ASSUME NEW b \in Captures!Assets, NEW k \in 1 .. made[b]
               PROVE  files'[b][k] = files[b][k]
    OBVIOUS
  <2>1. k \in 1 .. MaxFiles /\ ~(b = a /\ k = n)
    BY <1>1, <1>4, CapturesAssumption
  <2> QED
    BY <1>2, <2>1
<1>8. \A b \in Captures!Assets : \A k : Safe(b, k) => Safe(b, k)'
  BY <1>6, <1>7, SafeStays
<1>9. Written(a, n)'
  BY <1>1, <1>2, <1>4, <1>5 DEF Written
<1>10. \A b \in Captures!Assets : \A k : Written(b, k) => Written(b, k)'
  BY <1>4, <1>6, <1>7 DEF Written
<1>11. ~disturbed' =>
        /\ ~disturbed /\ a \notin captured
        /\ \A k \in 1 .. MaxFiles : files[a][k] = "NONE" /\ (files'[a][k] # "NONE" => k = n)
        /\ \A b \in Captures!Assets \ {a} : \A k \in 1 .. MaxFiles : files'[b][k] = files[b][k]
  BY <1>2 DEF Captures!Capture, Captures!Files, CaptureTypes
<1> QED
  BY <1>2, <1>3, <1>5, <1>6, <1>7, <1>8, <1>9, <1>10, <1>11

\* A snapshot that begins keeps what is safe.
LEMMA SnapshotStartKeeps ==
  ASSUME CapturesInv, NEW a \in Snapshots, Captures!SnapshotStart(a)
  PROVE  CapturesInv'
<1> USE DEF CapturesInv, CapturesSafe, HistoryFits
<1>1. PICK n \in Captures!Files :
        /\ Captures!NewFile(a, n) /\ Captures!Put(a, n, "PART")
        /\ job' = [pc |-> "shoot", a |-> a, file |-> n]
  BY DEF Captures!SnapshotStart
<1>2. a \in Captures!Assets /\ Captures!Capture(a)
      /\ UNCHANGED <<recordings, completed, flushes, meta, open, captured, settled, cut>>
  BY DEF Captures!SnapshotStart, Captures!Assets
<1>3. /\ files' \in [Captures!Assets -> [1 .. MaxFiles -> {"NONE", "PART", "WHOLE"}]]
      /\ made' \in [Captures!Assets -> 0 .. MaxFiles]
      /\ Written(a, n)'
      /\ \A b \in Captures!Assets : \A k : Safe(b, k) => Safe(b, k)'
      /\ \A b \in Captures!Assets : \A k : Written(b, k) => Written(b, k)'
      /\ disturbed' \in BOOLEAN
      /\ made'[a] = n /\ \A b \in Captures!Assets : b # a => made'[b] = made[b]
      /\ ~disturbed' =>
           /\ ~disturbed /\ a \notin captured
           /\ \A k \in 1 .. MaxFiles : files[a][k] = "NONE" /\ (files'[a][k] # "NONE" => k = n)
           /\ \A b \in Captures!Assets \ {a} :
                \A k \in 1 .. MaxFiles : files'[b][k] = files[b][k]
  BY <1>1, <1>2, CaptureBegins
<1>4. CaptureTypes'
  BY <1>1, <1>2, <1>3 DEF CaptureTypes, FlushShape
<1>5. JobFits'
  BY <1>1, <1>3 DEF JobFits
<1>6. RecordingsFit'
  BY <1>2, <1>3 DEF RecordingsFit, Captures!Assets
<1>7. FlushesFit'
  BY <1>2, <1>3 DEF FlushesFit, InHand
<1>8. MetaFits'
  BY <1>2, <1>3 DEF MetaFits, Captures!Readable
<1>9. ASSUME ~disturbed' PROVE OneFile'
  <2>1. job.pc = "idle"
    BY DEF Captures!SnapshotStart, Captures!Free, Captures!NoJob
  <2>2. Purpose(a, n)'
    BY <1>1 DEF Purpose, CaptureTypes
  <2>3. ASSUME NEW b \in Captures!Assets, b # a, NEW k, Purpose(b, k)
        PROVE  Purpose(b, k)'
    BY <1>1, <1>2, <2>1, <2>3 DEF Purpose, CaptureTypes
  <2> QED
    BY <1>3, <1>9, <2>2, <2>3 DEF Undisturbed, OneFile
<1>10. ASSUME ~disturbed' PROVE LastKnown'
  <2> USE <1>10 DEF Undisturbed, LastKnown
  <2>1. \A b \in Captures!Assets : Captures!Readable(b)' => meta'[b].file = made'[b]
    BY <1>2, <1>3 DEF MetaFits, Captures!Readable
  <2>2. \A f \in Captures!Flushers : InHand(f)' => flushes'[f].item.file = made'[flushes'[f].a]
    BY <1>2, <1>3 DEF FlushesFit, InHand
  <2>3. \A b \in Recordings : flushes'[b].pc \in {"queue", "write"} => flushes'[b].item.file = made'[b]
    <3>1. \A b \in Recordings : Safe(b, flushes[b].item.file) /\ b \notin captured
             => files[b][flushes[b].item.file] = "WHOLE" /\ flushes[b].item.file \in 1 .. MaxFiles
      BY CapturesAssumption DEF Safe, CaptureTypes, Captures!Assets
    <3> QED
      BY <1>2, <1>3, <3>1 DEF RecordingsFit, Captures!Assets
  <2>4. job'.pc \notin {"queue", "write"}
    BY <1>1, <1>2 DEF Captures!SnapshotStart, Captures!Free, Captures!NoJob
  <2> QED
    BY <2>1, <2>2, <2>3, <2>4
<1>11. ASSUME ~disturbed' PROVE Fresh' /\ Alone' /\ Rewritten'
  <2> USE <1>11 DEF Undisturbed
  <2>1. job.pc = "idle"
    BY DEF Captures!SnapshotStart, Captures!Free, Captures!NoJob
  <2>2. Fresh'
    BY <1>1, <1>2, <1>3, <2>1 DEF Fresh, CaptureTypes, Captures!Assets
  <2>3. Alone'
    BY <1>1, <1>2, <1>3, <2>1 DEF Alone, Queuing, InHand, Captures!Assets
  <2>4. ASSUME NEW f \in Captures!Flushers, flushes[f].pc = "rewrite"
        PROVE  f \in open[flushes[f].a] \/ files'[flushes[f].a][made'[flushes[f].a]] = "NONE"
    <3>1. PICK b : b = flushes[f].a
      OBVIOUS
    <3>2. b \in captured /\ Safe(b, flushes[f].item.file)
      BY <2>4, <3>1 DEF FlushesFit, InHand
    <3>3. b \in Captures!Assets /\ b # a
      BY <3>2, <1>3
    <3>4. made[b] \in 1 .. MaxFiles /\ made'[b] = made[b]
      BY <3>2, <3>3, <1>3, CapturesAssumption DEF Safe, CaptureTypes
    <3> QED
      BY <2>4, <3>1, <3>3, <3>4, <1>3 DEF Rewritten
  <2>5. Rewritten'
    BY <1>2, <2>4 DEF Rewritten
  <2> QED
    BY <2>2, <2>3, <2>5
<1> QED
  BY <1>2, <1>4, <1>5, <1>6, <1>7, <1>8, <1>9, <1>10, <1>11 DEF Undisturbed

\* So does a recording that begins.
LEMMA StartRecordingKeeps ==
  ASSUME CapturesInv, NEW a \in Recordings, Captures!StartRecording(a)
  PROVE  CapturesInv'
<1> USE DEF CapturesInv, CapturesSafe, HistoryFits
<1>1. PICK n \in Captures!Files :
        /\ Captures!NewFile(a, n) /\ Captures!Put(a, n, "PART")
        /\ recordings' = [recordings EXCEPT ![a] = n]
  BY DEF Captures!StartRecording
<1>2. a \in Captures!Assets /\ Captures!Capture(a)
      /\ UNCHANGED <<completed, job, flushes, meta, open, captured, settled, cut>>
  BY DEF Captures!StartRecording, Captures!Assets
<1>3. /\ files' \in [Captures!Assets -> [1 .. MaxFiles -> {"NONE", "PART", "WHOLE"}]]
      /\ made' \in [Captures!Assets -> 0 .. MaxFiles]
      /\ Written(a, n)'
      /\ \A b \in Captures!Assets : \A k : Safe(b, k) => Safe(b, k)'
      /\ \A b \in Captures!Assets : \A k : Written(b, k) => Written(b, k)'
      /\ disturbed' \in BOOLEAN
      /\ made'[a] = n /\ \A b \in Captures!Assets : b # a => made'[b] = made[b]
      /\ ~disturbed' =>
           /\ ~disturbed /\ a \notin captured
           /\ \A k \in 1 .. MaxFiles : files[a][k] = "NONE" /\ (files'[a][k] # "NONE" => k = n)
           /\ \A b \in Captures!Assets \ {a} :
                \A k \in 1 .. MaxFiles : files'[b][k] = files[b][k]
  BY <1>1, <1>2, CaptureBegins
<1>4. CaptureTypes'
  BY <1>1, <1>2, <1>3, CapturesAssumption DEF CaptureTypes, FlushShape, Captures!Files
<1>5. JobFits'
  BY <1>2, <1>3 DEF JobFits, CaptureTypes, Captures!Assets
<1>6. RecordingsFit'
  BY <1>1, <1>2, <1>3 DEF RecordingsFit, CaptureTypes, Captures!Assets
<1>7. FlushesFit'
  BY <1>2, <1>3 DEF FlushesFit, InHand
<1>8. MetaFits'
  BY <1>2, <1>3 DEF MetaFits, Captures!Readable
<1>9. ASSUME ~disturbed' PROVE OneFile'
  <2>1. job.pc = "idle"
    BY DEF Captures!StartRecording, Captures!Free, Captures!NoJob
  <2>2. Purpose(a, n)'
    BY <1>1 DEF Purpose, CaptureTypes
  <2>3. ASSUME NEW b \in Captures!Assets, b # a, NEW k, Purpose(b, k)
        PROVE  Purpose(b, k)'
    BY <1>1, <1>2, <2>1, <2>3 DEF Purpose, CaptureTypes
  <2> QED
    BY <1>3, <1>9, <2>2, <2>3 DEF Undisturbed, OneFile
<1>10. ASSUME ~disturbed' PROVE LastKnown'
  <2> USE <1>10 DEF Undisturbed, LastKnown
  <2>1. \A b \in Captures!Assets : Captures!Readable(b)' => meta'[b].file = made'[b]
    BY <1>2, <1>3 DEF MetaFits, Captures!Readable
  <2>2. \A f \in Captures!Flushers : InHand(f)' => flushes'[f].item.file = made'[flushes'[f].a]
    BY <1>2, <1>3 DEF FlushesFit, InHand
  <2>3. \A b \in Recordings : flushes'[b].pc \in {"queue", "write"} => flushes'[b].item.file = made'[b]
    <3>1. \A b \in Recordings : Safe(b, flushes[b].item.file) /\ b \notin captured
             => files[b][flushes[b].item.file] = "WHOLE" /\ flushes[b].item.file \in 1 .. MaxFiles
      BY CapturesAssumption DEF Safe, CaptureTypes, Captures!Assets
    <3> QED
      BY <1>2, <1>3, <3>1 DEF RecordingsFit, Captures!Assets
  <2>4. job'.pc \notin {"queue", "write"}
    BY <1>1, <1>2 DEF Captures!StartRecording, Captures!Free, Captures!NoJob
  <2> QED
    BY <2>1, <2>2, <2>3, <2>4
<1>11. ASSUME ~disturbed' PROVE Fresh' /\ Alone' /\ Rewritten'
  <2> USE <1>11 DEF Undisturbed
  <2>1. job.pc = "idle"
    BY DEF Captures!StartRecording, Captures!Free, Captures!NoJob
  <2>2. Fresh'
    BY <1>1, <1>2, <1>3, <2>1 DEF Fresh, CaptureTypes, Captures!Assets
  <2>3. Alone'
    BY <1>1, <1>2, <1>3, <2>1 DEF Alone, Queuing, InHand, Captures!Assets
  <2>4. ASSUME NEW f \in Captures!Flushers, flushes[f].pc = "rewrite"
        PROVE  f \in open[flushes[f].a] \/ files'[flushes[f].a][made'[flushes[f].a]] = "NONE"
    <3>1. PICK b : b = flushes[f].a
      OBVIOUS
    <3>2. b \in captured /\ Safe(b, flushes[f].item.file)
      BY <2>4, <3>1 DEF FlushesFit, InHand
    <3>3. b \in Captures!Assets /\ b # a
      BY <3>2, <1>3
    <3>4. made[b] \in 1 .. MaxFiles /\ made'[b] = made[b]
      BY <3>2, <3>3, <1>3, CapturesAssumption DEF Safe, CaptureTypes
    <3> QED
      BY <2>4, <3>1, <3>3, <3>4, <1>3 DEF Rewritten
  <2>5. Rewritten'
    BY <1>2, <2>4 DEF Rewritten
  <2> QED
    BY <2>2, <2>3, <2>5
<1> QED
  BY <1>2, <1>4, <1>5, <1>6, <1>7, <1>8, <1>9, <1>10, <1>11 DEF Undisturbed

\* ffmpeg ends with a snapshot.
LEMMA SnapshotEndsKeeps ==
  ASSUME CapturesInv, Captures!SnapshotTaken \/ Captures!SnapshotFails
  PROVE  CapturesInv'
<1> USE DEF CapturesInv, CapturesSafe, HistoryFits
<1>1. PICK s \in {"NONE", "WHOLE"} :
        /\ Captures!Put(job.a, job.file, s)
        /\ job' = IF s = "WHOLE" THEN [job EXCEPT !.pc = "queue"] ELSE Captures!NoJob
  BY DEF Captures!SnapshotTaken, Captures!SnapshotFails
<1>2. /\ job.pc = "shoot"
      /\ UNCHANGED <<recordings, completed, flushes, meta, open, captured, settled, cut, made, disturbed>>
  BY DEF Captures!SnapshotTaken, Captures!SnapshotFails, Captures!history
<1>3. /\ job.a \in Snapshots /\ job.a \in Captures!Assets
      /\ Written(job.a, job.file) /\ job.file \in 1 .. MaxFiles
  BY <1>2, CapturesAssumption DEF CaptureTypes, JobFits, Captures!Assets, Written
<1>4. /\ files' \in [Captures!Assets -> [1 .. MaxFiles -> {"NONE", "PART", "WHOLE"}]]
      /\ \A b \in Captures!Assets, k \in 1 .. MaxFiles :
           files'[b][k] = IF b = job.a /\ k = job.file THEN s ELSE files[b][k]
  <2>1. s \in {"NONE", "PART", "WHOLE"}
    OBVIOUS
  <2> QED
    BY <1>1, <1>3, <2>1, PutIs
<1>5. \A b \in Captures!Assets : made[b] \in Nat /\ made[b] <= MaxFiles
  BY CapturesAssumption DEF CaptureTypes
<1>6. \A b \in Captures!Assets : \A k : Safe(b, k) => Safe(b, k)'
  <2>1. \A b \in Captures!Assets : \A k \in 1 .. made[b] :
          files'[b][k] = files[b][k] \/ files[b][k] = "PART"
    BY <1>3, <1>4, <1>5, CapturesAssumption DEF Written
  <2> QED
    BY <1>2, <1>5, <2>1, SafeStays
<1>7. \A b \in Recordings : \A k : Written(b, k) => Written(b, k)'
  BY <1>2, <1>3, <1>4, <1>5, CapturesAssumption DEF Written, Captures!Assets
<1>8. CaptureTypes'
  BY <1>1, <1>2, <1>3, <1>4 DEF CaptureTypes, FlushShape, Captures!NoJob
<1>9. JobFits'
  BY <1>1, <1>2, <1>3, <1>4 DEF JobFits, CaptureTypes, Captures!NoJob, Safe, Written
<1>10. RecordingsFit'
  BY <1>2, <1>6, <1>7 DEF RecordingsFit, Captures!Assets
<1>11. FlushesFit'
  BY <1>2, <1>6 DEF FlushesFit, InHand
<1>12. MetaFits'
  BY <1>2, <1>6 DEF MetaFits, Captures!Readable
<1>13. ASSUME ~disturbed' PROVE OneFile' /\ LastKnown'
  <2> USE <1>2, <1>13 DEF Undisturbed
  <2>1. job.file = made[job.a]
    BY <1>3 DEF OneFile, Written
  <2>2. LastKnown'
    BY <1>1, <1>2, <2>1 DEF LastKnown, InHand, CaptureTypes, Captures!NoJob, Captures!Readable
  <2>3. ASSUME NEW b \in Captures!Assets, NEW k \in 1 .. MaxFiles, files'[b][k] # "NONE"
        PROVE  k = made'[b] /\ Purpose(b, k)'
    <3>1. files[b][k] # "NONE"
      BY <1>3, <1>4, <2>3 DEF Written
    <3>2. k = made[b] /\ Purpose(b, k)
      BY <3>1 DEF OneFile
    <3>3. CASE b = job.a /\ k = job.file
      BY <1>1, <1>2, <1>4, <2>3, <3>2, <3>3 DEF Purpose, CaptureTypes
    <3>4. CASE ~(b = job.a /\ k = job.file)
      BY <1>2, <3>2, <3>4 DEF Purpose
    <3> QED
      BY <3>3, <3>4
  <2> QED
    BY <2>2, <2>3 DEF OneFile
<1>14. ASSUME ~disturbed' PROVE Fresh' /\ Alone' /\ Rewritten'
  <2> USE <1>2, <1>14 DEF Undisturbed
  <2>1. Fresh'
    BY <1>1 DEF Fresh, CaptureTypes, Captures!NoJob
  <2>2. Alone'
    BY <1>1 DEF Alone, Queuing, InHand, CaptureTypes, Captures!NoJob
  <2>3. ASSUME NEW f \in Captures!Flushers, flushes[f].pc = "rewrite"
        PROVE  f \in open[flushes[f].a] \/ files'[flushes[f].a][made[flushes[f].a]] = "NONE"
    <3>1. PICK b : b = flushes[f].a
      OBVIOUS
    <3>2. b \in captured /\ b \in Captures!Assets /\ made[b] \in 1 .. MaxFiles
      BY <2>3, <3>1, <1>5, CapturesAssumption DEF FlushesFit, InHand, LastKnown, Safe
    <3>3. b # job.a
      BY <3>2 DEF Fresh
    <3> QED
      BY <2>3, <3>1, <3>2, <3>3, <1>4 DEF Rewritten
  <2>4. Rewritten'
    BY <2>3 DEF Rewritten
  <2> QED
    BY <2>1, <2>2, <2>4
<1> QED
  BY <1>2, <1>8, <1>9, <1>10, <1>11, <1>12, <1>13, <1>14 DEF Undisturbed

\* ffmpeg ends with a recording.
LEMMA ExitKeeps ==
  ASSUME CapturesInv, NEW a \in Recordings, NEW whole \in BOOLEAN, Captures!Exit(a, whole)
  PROVE  CapturesInv'
<1> USE DEF CapturesInv, CapturesSafe, HistoryFits
<1>0. PICK n : n = recordings[a]
  OBVIOUS
<1> DEFINE m == [[flushes[a] EXCEPT !.pc = "queue"] EXCEPT !.item.file = n]
<1>1. PICK s \in {"NONE", "WHOLE"} :
        /\ Captures!Put(a, n, s) /\ (whole <=> s = "WHOLE")
  BY <1>0 DEF Captures!Exit
<1>2. /\ n # 0 /\ flushes[a] = Captures!NoFlush
      /\ recordings' = [recordings EXCEPT ![a] = 0]
      /\ UNCHANGED <<job, completed, meta, open, captured, settled, cut, made, disturbed>>
  BY <1>0 DEF Captures!Exit, Captures!history
<1>3. a \in Captures!Assets /\ a \in Captures!Flushers /\ Written(a, n) /\ n \in 1 .. MaxFiles
  BY <1>0, <1>2, CapturesAssumption
  DEF CaptureTypes, RecordingsFit, Captures!Assets, Captures!Flushers, Written
<1>4. /\ files' \in [Captures!Assets -> [1 .. MaxFiles -> {"NONE", "PART", "WHOLE"}]]
      /\ \A b \in Captures!Assets, k \in 1 .. MaxFiles :
           files'[b][k] = IF b = a /\ k = n THEN s ELSE files[b][k]
  <2>1. s \in {"NONE", "PART", "WHOLE"}
    OBVIOUS
  <2> QED
    BY <1>1, <1>3, <2>1, PutIs
<1>5. \A b \in Captures!Assets : made[b] \in Nat /\ made[b] <= MaxFiles
  BY CapturesAssumption DEF CaptureTypes
<1>13. /\ FlushShape(m) /\ m.pc = "queue" /\ m.item.file = n
  BY <1>2, <1>3 DEF FlushShape, Captures!NoFlush, Captures!NoItem, ItemType
<1>15. /\ DOMAIN flushes' = Captures!Flushers
       /\ \A g \in Captures!Flushers : flushes'[g] = IF whole /\ g = a THEN m ELSE flushes[g]
       /\ \A g \in Captures!Flushers : FlushShape(flushes'[g])
  <2>1. CASE ~whole
    BY <2>1 DEF Captures!Exit, CaptureTypes
  <2>2. CASE whole
    <3> DEFINE was == [flushes EXCEPT ![a].pc = "queue"]
    <3>1. flushes' = [was EXCEPT ![a].item.file = n]
      BY <1>0, <2>2 DEF Captures!Exit
    <3>2. DOMAIN was = Captures!Flushers
          /\ \A g \in Captures!Flushers :
               was[g] = IF g = a THEN [flushes[a] EXCEPT !.pc = "queue"] ELSE flushes[g]
      BY <1>3 DEF CaptureTypes
    <3> HIDE DEF was
    <3>3. DOMAIN flushes' = Captures!Flushers
          /\ \A g \in Captures!Flushers : flushes'[g] = IF g = a THEN m ELSE flushes[g]
      BY <1>3, <3>1, <3>2
    <3> HIDE DEF m
    <3> QED
      BY <1>13, <2>2, <3>3 DEF CaptureTypes
  <2> QED
    BY <2>1, <2>2
<1> HIDE DEF m
<1>6. \A b \in Captures!Assets : \A k : Safe(b, k) => Safe(b, k)'
  <2>1. \A b \in Captures!Assets : \A k \in 1 .. made[b] :
          files'[b][k] = files[b][k] \/ files[b][k] = "PART"
    BY <1>3, <1>4, <1>5, CapturesAssumption DEF Written
  <2> QED
    BY <1>2, <1>5, <2>1, SafeStays
<1>7. \A b \in Captures!Assets \ {a} : \A k : Written(b, k) => Written(b, k)'
  BY <1>2, <1>3, <1>4, <1>5, CapturesAssumption DEF Written
<1>8. CaptureTypes'
  BY <1>2, <1>4, <1>15, CapturesAssumption DEF CaptureTypes
<1>9. JobFits'
  BY <1>2, <1>6, <1>7, CapturesAssumption DEF JobFits, CaptureTypes, Captures!Assets
<1>10. RecordingsFit'
  <2> SUFFICES ASSUME NEW b \in Recordings
               PROVE  /\ recordings'[b] # 0 => Written(b, recordings[b])'
                      /\ flushes'[b].pc \in {"queue", "write"} => Safe(b, flushes[b].item.file)'
                      /\ flushes'[b].pc = "write" => b \in captured
    BY <1>2 DEF RecordingsFit
  <2>0. b \in Captures!Assets /\ b \in Captures!Flushers
    BY DEF Captures!Assets, Captures!Flushers
  <2>1. recordings'[b] # 0 => Written(b, recordings[b])'
    BY <1>2, <1>7, <2>0 DEF RecordingsFit, CaptureTypes
  <2>2. CASE whole /\ b = a
    <3>1. Safe(a, n)'
      BY <1>1, <1>2, <1>3, <1>4, <2>2 DEF Safe, Written
    <3> QED
      BY <1>13, <1>15, <2>0, <2>1, <2>2, <3>1
  <2>3. CASE ~(whole /\ b = a)
    BY <1>6, <1>15, <2>0, <2>1, <2>3 DEF RecordingsFit
  <2> QED
    BY <2>2, <2>3
<1>11. FlushesFit'
  BY <1>2, <1>6, <1>13, <1>15 DEF FlushesFit, InHand
<1>12. MetaFits'
  BY <1>2, <1>6 DEF MetaFits, Captures!Readable
<1>14. ASSUME ~disturbed' PROVE OneFile' /\ LastKnown'
  <2> USE <1>2, <1>14 DEF Undisturbed
  <2>1. n = made[a]
    BY <1>3 DEF OneFile, Written
  <2>2. LastKnown'
    <3>1. Recordings \subseteq Captures!Flushers
      BY DEF Captures!Flushers
    <3> QED
      BY <1>2, <1>13, <1>15, <2>1, <3>1 DEF LastKnown, InHand, Captures!Readable
  <2>3. ASSUME NEW b \in Captures!Assets, NEW k \in 1 .. MaxFiles, files'[b][k] # "NONE"
        PROVE  k = made'[b] /\ Purpose(b, k)'
    <3>1. files[b][k] # "NONE"
      BY <1>3, <1>4, <2>3 DEF Written
    <3>2. k = made[b] /\ Purpose(b, k)
      BY <3>1 DEF OneFile
    <3>3. CASE b = a
      <4>1. k = n /\ whole
        BY <1>1, <1>3, <1>4, <2>1, <2>3, <3>2, <3>3
      <4> QED
        BY <1>2, <1>3, <1>13, <1>15, <3>2, <3>3, <4>1 DEF Purpose
    <3>4. CASE b # a
      <4>1. b \in Recordings => b \in Captures!Flushers
        BY DEF Captures!Flushers
      <4>2. \A g \in Captures!Flushers : flushes[g].pc = "rewrite" => flushes'[g] = flushes[g]
        BY <1>2, <1>15 DEF Captures!NoFlush
      <4> QED
        BY <1>2, <1>15, <3>2, <3>4, <4>1, <4>2 DEF Purpose, CaptureTypes
    <3> QED
      BY <3>3, <3>4
  <2> QED
    BY <2>2, <2>3 DEF OneFile
<1>16. ASSUME ~disturbed' PROVE Fresh' /\ Alone' /\ Rewritten'
  <2> USE <1>2, <1>16 DEF Undisturbed
  <2>0. Recordings \subseteq Captures!Flushers
    BY DEF Captures!Flushers
  <2>1. a \notin captured
    BY <1>0 DEF Fresh
  <2>2. Fresh'
    BY <1>13, <1>15, <2>0, <2>1 DEF Fresh, CaptureTypes
  <2>3. \A g \in Captures!Flushers :
          /\ flushes'[g].pc \in {"write", "upload", "remove", "retry", "rewrite"}
               => flushes'[g] = flushes[g]
    BY <1>13, <1>15
  <2>4. Alone'
    BY <2>0, <2>3 DEF Alone, Queuing, InHand
  <2>5. ASSUME NEW f \in Captures!Flushers, flushes[f].pc = "rewrite"
        PROVE  f \in open[flushes[f].a] \/ files'[flushes[f].a][made[flushes[f].a]] = "NONE"
    <3>1. PICK b : b = flushes[f].a
      OBVIOUS
    <3>2. b \in captured /\ b \in Captures!Assets /\ made[b] \in 1 .. MaxFiles
      BY <2>5, <3>1, <1>5, CapturesAssumption DEF FlushesFit, InHand, LastKnown, Safe
    <3>3. b # a
      BY <3>2, <2>1
    <3> QED
      BY <2>5, <3>1, <3>2, <3>3, <1>4 DEF Rewritten
  <2>6. Rewritten'
    BY <2>3, <2>5 DEF Rewritten
  <2> QED
    BY <2>2, <2>4, <2>6
<1> QED
  BY <1>2, <1>8, <1>9, <1>10, <1>11, <1>12, <1>14, <1>16 DEF Undisturbed

\* Metadata that is about to be written is no item, and belongs to who writes it.
LEMMA TruncateFits ==
  ASSUME CapturesInv, NEW f \in Captures!Flushers, NEW a \in Captures!Assets,
         Captures!Truncate(f, a), captured \subseteq captured', captured' \subseteq captured \cup {a},
         UNCHANGED <<files, made, settled, cut>>
  PROVE  /\ meta' \in [Captures!Assets -> ItemType]
         /\ open' \in [Captures!Assets -> SUBSET Captures!Flushers]
         /\ \A b \in Captures!Assets :
              /\ meta'[b] = IF b = a THEN Captures!Unreadable ELSE meta[b]
              /\ open'[b] = IF b = a THEN open[a] \cup {f} ELSE open[b]
         /\ MetaFits'
<1> USE DEF CapturesInv, CapturesSafe, CaptureTypes
<1>1. /\ meta' \in [Captures!Assets -> ItemType]
      /\ open' \in [Captures!Assets -> SUBSET Captures!Flushers]
      /\ \A b \in Captures!Assets :
           /\ meta'[b] = IF b = a THEN Captures!Unreadable ELSE meta[b]
           /\ open'[b] = IF b = a THEN open[a] \cup {f} ELSE open[b]
  BY ItemTypes DEF Captures!Truncate
<1>2. \A b \in Captures!Assets : \A k : Safe(b, k) => Safe(b, k)'
  BY DEF Safe
<1>3. MetaFits'
  <2>1. ASSUME NEW b \in Captures!Assets
        PROVE  /\ Captures!Readable(b)' => b \in captured' /\ Safe(b, meta[b].file)'
               /\ b \in captured' =>
                    \/ b \in settled'
                    \/ Captures!Readable(b)'
                    \/ meta'[b] = Captures!Unreadable /\ (open'[b] # {} \/ b \in cut')
    <3>1. CASE b = a
      BY <1>1, <3>1 DEF Captures!Readable
    <3>2. CASE b # a
      BY <1>1, <1>2, <3>2 DEF MetaFits, Captures!Readable
    <3> QED
      BY <3>1, <3>2
  <2> QED
    BY <2>1 DEF MetaFits
<1> QED
  BY <1>1, <1>3

\* What is written is an item again, or known to be none.
LEMMA WriteFits ==
  ASSUME CapturesInv, NEW f \in Captures!Flushers, NEW a \in Captures!Assets, NEW i \in ItemType,
         Captures!Write(f, a, i), a \in captured, Safe(a, i.file),
         UNCHANGED <<files, made, settled, captured>>
  PROVE  /\ meta' \in [Captures!Assets -> ItemType]
         /\ open' \in [Captures!Assets -> SUBSET Captures!Flushers]
         /\ \A b \in Captures!Assets : b # a => meta'[b] = meta[b] /\ open'[b] = open[b]
         /\ open'[a] = open[a] \ {f}
         /\ f \notin open[a] => meta'[a] = meta[a]
         /\ f \in open[a] => meta'[a] = Captures!Over(meta[a], i)
         /\ meta'[a] \in {meta[a], i, Captures!Unreadable}
         /\ MetaFits'
<1> USE DEF CapturesInv, CapturesSafe, CaptureTypes
<1>1. PICK o : o = Captures!Over(meta[a], i)
  OBVIOUS
<1>2. o \in {i, Captures!Unreadable} /\ o \in ItemType
  BY <1>1, ItemTypes DEF Captures!Over
<1>3. i \notin {Captures!NoItem, Captures!Unreadable}
  <2>1. i.file \in 1 .. MaxFiles
    BY CapturesAssumption DEF Safe
  <2> QED
    BY <2>1, Itemless
<1>4. /\ open' \in [Captures!Assets -> SUBSET Captures!Flushers]
      /\ \A b \in Captures!Assets : b # a => open'[b] = open[b]
      /\ open'[a] = open[a] \ {f}
  BY DEF Captures!Write
<1>5. \A b \in Captures!Assets : \A k : Safe(b, k) => Safe(b, k)'
  BY DEF Safe
<1>6. CASE f \notin open[a]
  <2>1. meta' = meta /\ cut' = cut
    BY <1>6 DEF Captures!Write
  <2>2. ASSUME NEW b \in Captures!Assets
        PROVE  /\ Captures!Readable(b)' => b \in captured' /\ Safe(b, meta[b].file)'
               /\ b \in captured' =>
                    \/ b \in settled'
                    \/ Captures!Readable(b)'
                    \/ meta'[b] = Captures!Unreadable /\ (open'[b] # {} \/ b \in cut')
    <3>1. open'[b] = open[b]
      <4>1. open[a] \ {f} = open[a]
        BY <1>6, Zenon
      <4> QED
        BY <1>4, <4>1
    <3> QED
      BY <1>5, <2>1, <3>1 DEF MetaFits, Captures!Readable
  <2>3. MetaFits'
    BY <2>2 DEF MetaFits
  <2> QED
    BY <1>4, <1>6, <2>1, <2>3
<1>7. CASE f \in open[a]
  <2>1. /\ meta' = [meta EXCEPT ![a] = o]
        /\ cut' = IF meta'[a] = i THEN cut \ {a} ELSE cut \cup {a}
    BY <1>1, <1>7 DEF Captures!Write
  <2>2. /\ meta' \in [Captures!Assets -> ItemType] /\ meta'[a] = o
        /\ \A b \in Captures!Assets : b # a => meta'[b] = meta[b]
    BY <1>2, <2>1
  <2>3. /\ \A b \in Captures!Assets : b # a /\ b \in cut => b \in cut'
        /\ o # i => a \in cut'
    BY <2>1, <2>2
  <2>4. MetaFits'
    <3> SUFFICES ASSUME NEW b \in Captures!Assets
                 PROVE  /\ Captures!Readable(b)' => b \in captured /\ Safe(b, meta[b].file)'
                        /\ b \in captured =>
                             \/ b \in settled
                             \/ Captures!Readable(b)'
                             \/ meta'[b] = Captures!Unreadable /\ (open'[b] # {} \/ b \in cut')
      BY DEF MetaFits
    <3>1. CASE b = a
      BY <1>2, <1>3, <1>5, <2>2, <2>3, <3>1 DEF Captures!Readable
    <3>2. CASE b # a
      BY <1>4, <1>5, <2>2, <2>3, <3>2 DEF MetaFits, Captures!Readable
    <3> QED
      BY <3>1, <3>2
  <2> QED
    BY <1>1, <1>2, <1>4, <1>7, <2>2, <2>4
<1> QED
  BY <1>6, <1>7

\* A snapshot whose metadata is about to be written is accepted.
LEMMA SnapshotQueuedKeeps ==
  ASSUME CapturesInv, Captures!SnapshotQueued
  PROVE  CapturesInv'
<1> USE DEF CapturesInv, CapturesSafe
<1>1. /\ job.pc = "queue" /\ job' = [job EXCEPT !.pc = "write"]
      /\ Captures!Truncate("main", job.a) /\ captured' = captured \cup {job.a}
      /\ UNCHANGED <<recordings, completed, flushes, files, settled, cut, disturbed, made>>
  BY DEF Captures!SnapshotQueued, Captures!Enqueue
<1>2. /\ job.a \in Snapshots /\ job.a \in Captures!Assets /\ Safe(job.a, job.file)
      /\ "main" \in Captures!Flushers
  BY <1>1 DEF CaptureTypes, JobFits, Captures!Assets, Captures!Flushers
<1>3. PICK a, n : a = job.a /\ n = job.file
  OBVIOUS
<1>4. /\ meta' \in [Captures!Assets -> ItemType]
      /\ open' \in [Captures!Assets -> SUBSET Captures!Flushers]
      /\ \A b \in Captures!Assets :
           /\ meta'[b] = IF b = a THEN Captures!Unreadable ELSE meta[b]
           /\ open'[b] = IF b = a THEN open[a] \cup {"main"} ELSE open[b]
      /\ MetaFits'
  BY <1>1, <1>2, <1>3, TruncateFits
<1>5. \A b \in Captures!Assets : \A k : Safe(b, k)' <=> Safe(b, k)
  BY <1>1 DEF Safe
<1>6. \A b \in Captures!Assets : \A k : Written(b, k)' <=> Written(b, k)
  BY <1>1 DEF Written
<1>7. CaptureTypes'
  BY <1>1, <1>4 DEF CaptureTypes, FlushShape
<1>8. JobFits'
  BY <1>1, <1>2, <1>5 DEF JobFits, CaptureTypes
<1>9. RecordingsFit'
  BY <1>1, <1>5, <1>6 DEF RecordingsFit, Captures!Assets
<1>10. FlushesFit'
  BY <1>1, <1>5 DEF FlushesFit, InHand, HistoryFits
<1>11. HistoryFits'
  BY <1>1, <1>2 DEF HistoryFits
<1>12. job'.pc = "write" /\ job'.a = a /\ job'.file = n
  BY <1>1, <1>3 DEF CaptureTypes
<1>13. ASSUME ~disturbed' PROVE OneFile' /\ LastKnown'
  <2> USE <1>1, <1>13 DEF Undisturbed
  <2>1. n = made[a]
    BY <1>3 DEF LastKnown
  <2>2. LastKnown'
    BY <1>3, <1>4, <1>12, <2>1 DEF LastKnown, InHand, Captures!Readable
  <2>3. ASSUME NEW b \in Captures!Assets, NEW k \in 1 .. MaxFiles, files'[b][k] # "NONE"
        PROVE  k = made'[b] /\ Purpose(b, k)'
    <3>1. k = made[b] /\ Purpose(b, k)
      BY <2>3 DEF OneFile
    <3>2. CASE b = a
      BY <1>12, <2>1, <3>1, <3>2 DEF Purpose
    <3>3. CASE b # a
      BY <1>3, <1>4, <1>12, <3>1, <3>3 DEF Purpose
    <3> QED
      BY <3>2, <3>3
  <2> QED
    BY <2>2, <2>3 DEF OneFile
<1>14. ASSUME ~disturbed' PROVE Fresh' /\ Alone' /\ Rewritten'
  <2> USE <1>1, <1>14 DEF Undisturbed
  <2>1. a \notin captured /\ a \notin Recordings
    BY <1>2, <1>3, CapturesAssumption DEF Fresh
  <2>2. \A g \in Captures!Flushers : InHand(g) => flushes[g].a # a
    BY <2>1 DEF FlushesFit
  <2>3. Fresh'
    BY <1>3, <1>12, <2>1 DEF Fresh
  <2>4. Alone'
    BY <1>2, <1>3, <1>4, <1>12, <2>1, <2>2 DEF Alone, Queuing, InHand
  <2>5. \A g \in Captures!Flushers : InHand(g) => flushes[g].a \in Captures!Assets
    BY DEF FlushesFit, HistoryFits
  <2>6. Rewritten'
    BY <1>4, <2>5 DEF Rewritten, InHand
  <2> QED
    BY <2>3, <2>4, <2>6
<1> QED
  BY <1>1, <1>4, <1>7, <1>8, <1>9, <1>10, <1>11, <1>13, <1>14 DEF Undisturbed

\* A snapshot that is put into the queue is safe there.
LEMMA SnapshotWrittenKeeps ==
  ASSUME CapturesInv, Captures!SnapshotWritten
  PROVE  CapturesInv'
<1> USE DEF CapturesInv, CapturesSafe
<1>1. PICK a, n : a = job.a /\ n = job.file
  OBVIOUS
<1>2. PICK i : i = [file |-> n, attempts |-> 0]
  OBVIOUS
<1>3. /\ job.pc = "write" /\ job' = [job EXCEPT !.pc = "flush"]
      /\ Captures!Write("main", a, i)
      /\ UNCHANGED <<recordings, completed, flushes, files, captured, settled, disturbed, made>>
  BY <1>1, <1>2 DEF Captures!SnapshotWritten, Captures!Enqueued
<1>4. /\ a \in Snapshots /\ a \in Captures!Assets /\ Safe(a, n) /\ a \in captured
      /\ "main" \in Captures!Flushers
  BY <1>1, <1>3 DEF CaptureTypes, JobFits, Captures!Assets, Captures!Flushers
<1>5. i \in ItemType /\ i.file = n /\ i.attempts = 0
  BY <1>2, <1>4, CapturesAssumption DEF Safe, ItemType, CaptureTypes
<1>6. /\ meta' \in [Captures!Assets -> ItemType]
      /\ open' \in [Captures!Assets -> SUBSET Captures!Flushers]
      /\ \A b \in Captures!Assets : b # a => meta'[b] = meta[b] /\ open'[b] = open[b]
      /\ open'[a] = open[a] \ {"main"}
      /\ "main" \in open[a] => meta'[a] = Captures!Over(meta[a], i)
      /\ MetaFits'
  BY <1>3, <1>4, <1>5, WriteFits
<1>7. \A b \in Captures!Assets : \A k : Safe(b, k)' <=> Safe(b, k)
  BY <1>3 DEF Safe
<1>8. \A b \in Captures!Assets : \A k : Written(b, k)' <=> Written(b, k)
  BY <1>3 DEF Written
<1>9. CaptureTypes'
  BY <1>3, <1>6 DEF CaptureTypes, FlushShape
<1>10. JobFits'
  BY <1>1, <1>3, <1>4 DEF JobFits, CaptureTypes
<1>11. RecordingsFit' /\ FlushesFit' /\ HistoryFits'
  BY <1>3, <1>7, <1>8 DEF RecordingsFit, FlushesFit, InHand, HistoryFits, Captures!Assets
<1>12. job'.pc = "flush"
  BY <1>3 DEF CaptureTypes
<1>13. ASSUME ~disturbed'
       PROVE  meta'[a] = i /\ a \notin Recordings
              /\ \A g \in Captures!Flushers : InHand(g) => flushes[g].a # a
  <2>1. Queuing("main", a)
    BY <1>1, <1>3 DEF Queuing
  <2>2. /\ meta[a] = Captures!Unreadable /\ "main" \in open[a]
        /\ \A g \in Captures!Flushers : InHand(g) => flushes[g].a # a
    BY <1>3, <1>4, <1>13, <2>1 DEF Undisturbed, Alone
  <2> QED
    BY <1>4, <1>6, <2>2, CapturesAssumption DEF Captures!Over
<1>14. ASSUME ~disturbed' PROVE OneFile' /\ LastKnown'
  <2> USE <1>3, <1>14 DEF Undisturbed
  <2>1. n = made[a]
    BY <1>1 DEF LastKnown
  <2>2. LastKnown'
    BY <1>5, <1>6, <1>12, <1>13, <2>1 DEF LastKnown, InHand, Captures!Readable
  <2>3. ASSUME NEW b \in Captures!Assets, NEW k \in 1 .. MaxFiles, files'[b][k] # "NONE"
        PROVE  k = made'[b] /\ Purpose(b, k)'
    <3>1. k = made[b] /\ Purpose(b, k)
      BY <2>3 DEF OneFile
    <3>2. CASE b = a
      BY <1>5, <1>13, <2>1, <3>1, <3>2 DEF Purpose
    <3>3. CASE b # a
      BY <1>1, <1>6, <3>1, <3>3 DEF Purpose
    <3> QED
      BY <3>2, <3>3
  <2> QED
    BY <2>2, <2>3 DEF OneFile
<1>15. ASSUME ~disturbed' PROVE Fresh' /\ Alone' /\ Rewritten'
  <2> USE <1>3, <1>15 DEF Undisturbed
  <2>1. Fresh'
    BY <1>12 DEF Fresh
  <2>2. Alone'
    BY <1>6, <1>12, <1>13 DEF Alone, Queuing, InHand
  <2>3. \A g \in Captures!Flushers : InHand(g) => flushes[g].a \in Captures!Assets
    BY DEF FlushesFit, HistoryFits
  <2>4. Rewritten'
    BY <1>6, <1>13, <2>3 DEF Rewritten, InHand
  <2> QED
    BY <2>1, <2>2, <2>4
<1> QED
  BY <1>3, <1>6, <1>9, <1>10, <1>11, <1>14, <1>15 DEF Undisturbed

\* So is a recording: it is accepted, ...
LEMMA RecordingQueuedKeeps ==
  ASSUME CapturesInv, NEW a \in Recordings, Captures!RecordingQueued(a)
  PROVE  CapturesInv'
<1> USE DEF CapturesInv, CapturesSafe
<1> DEFINE m == [flushes[a] EXCEPT !.pc = "write"]
<1>1. /\ flushes[a].pc = "queue"
      /\ Captures!Truncate(a, a) /\ captured' = captured \cup {a}
      /\ UNCHANGED <<recordings, completed, job, files, settled, cut, disturbed, made>>
  BY DEF Captures!RecordingQueued, Captures!Enqueue
<1>2. a \in Captures!Assets /\ a \in Captures!Flushers /\ Safe(a, flushes[a].item.file)
  BY <1>1 DEF RecordingsFit, Captures!Assets, Captures!Flushers
<1>3. PICK n : n = flushes[a].item.file
  OBVIOUS
<1>4. /\ meta' \in [Captures!Assets -> ItemType]
      /\ open' \in [Captures!Assets -> SUBSET Captures!Flushers]
      /\ \A b \in Captures!Assets :
           /\ meta'[b] = IF b = a THEN Captures!Unreadable ELSE meta[b]
           /\ open'[b] = IF b = a THEN open[a] \cup {a} ELSE open[b]
      /\ MetaFits'
  BY <1>1, <1>2, TruncateFits
<1>5. \A b \in Captures!Assets : \A k : Safe(b, k)' <=> Safe(b, k)
  BY <1>1 DEF Safe
<1>6. \A b \in Captures!Assets : \A k : Written(b, k)' <=> Written(b, k)
  BY <1>1 DEF Written
<1>7. FlushShape(m) /\ m.pc = "write" /\ m.item.file = n
  BY <1>2, <1>3 DEF FlushShape, CaptureTypes
<1>8. flushes' = [flushes EXCEPT ![a] = m]
  BY DEF Captures!RecordingQueued, CaptureTypes
<1> HIDE DEF m
<1>9. /\ DOMAIN flushes' = Captures!Flushers
      /\ \A g \in Captures!Flushers : flushes'[g] = IF g = a THEN m ELSE flushes[g]
      /\ \A g \in Captures!Flushers : FlushShape(flushes'[g])
  BY <1>2, <1>7, <1>8, FlushIs
<1>10. CaptureTypes'
  BY <1>1, <1>4, <1>9 DEF CaptureTypes
<1>11. JobFits'
  BY <1>1, <1>5, <1>6 DEF JobFits, CaptureTypes, Captures!Assets
<1>12. Recordings \subseteq Captures!Assets /\ Recordings \subseteq Captures!Flushers
  BY DEF Captures!Assets, Captures!Flushers
<1>13. RecordingsFit'
  BY <1>1, <1>2, <1>3, <1>5, <1>6, <1>7, <1>9, <1>12 DEF RecordingsFit
<1>14. FlushesFit'
  BY <1>1, <1>5, <1>7, <1>9 DEF FlushesFit, InHand, HistoryFits
<1>15. HistoryFits'
  BY <1>1, <1>2 DEF HistoryFits
<1>16. ASSUME ~disturbed' PROVE OneFile' /\ LastKnown'
  <2> USE <1>1, <1>16 DEF Undisturbed
  <2>1. n = made[a]
    BY <1>3 DEF LastKnown
  <2>2. LastKnown'
    BY <1>4, <1>7, <1>9, <1>12, <2>1 DEF LastKnown, InHand, Captures!Readable
  <2>3. ASSUME NEW b \in Captures!Assets, NEW k \in 1 .. MaxFiles, files'[b][k] # "NONE"
        PROVE  k = made'[b] /\ Purpose(b, k)'
    <3>1. k = made[b] /\ Purpose(b, k)
      BY <2>3 DEF OneFile
    <3>2. CASE b = a
      BY <1>2, <1>7, <1>9, <2>1, <3>1, <3>2 DEF Purpose
    <3>3. CASE b # a
      BY <1>4, <1>9, <1>12, <3>1, <3>3 DEF Purpose
    <3> QED
      BY <3>2, <3>3
  <2> QED
    BY <2>2, <2>3 DEF OneFile
<1>17. ASSUME ~disturbed' PROVE Fresh' /\ Alone' /\ Rewritten'
  <2> USE <1>1, <1>17 DEF Undisturbed
  <2>1. a \notin captured /\ a \notin Snapshots /\ recordings[a] = 0
    <3>1. a \notin captured /\ a \notin Snapshots
      BY CapturesAssumption DEF Fresh
    <3>2. ASSUME recordings[a] # 0 PROVE FALSE
      <4>1. recordings[a] \in 1 .. MaxFiles /\ files[a][recordings[a]] = "PART"
        BY <1>2, <3>2, CapturesAssumption DEF RecordingsFit, Written, CaptureTypes
      <4>2. recordings[a] = n
        BY <1>2, <1>3, <4>1 DEF OneFile, LastKnown
      <4> QED
        BY <1>2, <1>3, <4>1, <4>2 DEF Safe
    <3> QED
      BY <3>1, <3>2
  <2>2. \A g \in Captures!Flushers : InHand(g) => flushes[g].a # a
    BY <2>1 DEF FlushesFit
  <2>3. Fresh'
    BY <1>7, <1>9, <1>12, <2>1 DEF Fresh, CaptureTypes
  <2>4. \A g \in Captures!Flushers : InHand(g)' => InHand(g) /\ flushes'[g] = flushes[g]
    BY <1>7, <1>9 DEF InHand
  <2>5. ASSUME NEW b \in Captures!Assets, NEW f \in Captures!Flushers, Queuing(f, b)'
        PROVE  /\ meta'[b] = Captures!Unreadable /\ f \in open'[b]
               /\ \A g \in Captures!Flushers : InHand(g)' => flushes'[g].a # b
    <3>1. CASE b = a
      <4>1. f = a
        BY <2>1, <2>5, <3>1 DEF Queuing, CaptureTypes
      <4> QED
        BY <1>4, <2>2, <2>4, <3>1, <4>1
    <3>2. CASE b # a
      <4>1. Queuing(f, b)
        BY <1>9, <1>12, <2>5, <3>2 DEF Queuing
      <4> QED
        BY <1>4, <2>4, <3>2, <4>1 DEF Alone
    <3> QED
      BY <3>1, <3>2
  <2>6. Alone'
    BY <2>5 DEF Alone
  <2>7. \A g \in Captures!Flushers : InHand(g) => flushes[g].a \in Captures!Assets
    BY DEF FlushesFit, HistoryFits
  <2>8. Rewritten'
    BY <1>4, <2>4, <2>7 DEF Rewritten, InHand
  <2> QED
    BY <2>3, <2>6, <2>8
<1> QED
  BY <1>1, <1>4, <1>10, <1>11, <1>13, <1>14, <1>15, <1>16, <1>17 DEF Undisturbed

\* ... and put into the queue.
LEMMA RecordingWrittenKeeps ==
  ASSUME CapturesInv, NEW a \in Recordings, Captures!RecordingWritten(a)
  PROVE  CapturesInv'
<1> USE DEF CapturesInv, CapturesSafe
<1> DEFINE m == [Captures!NoFlush EXCEPT !.pc = "start"]
<1>1. PICK n : n = flushes[a].item.file
  OBVIOUS
<1>2. PICK i : i = [file |-> n, attempts |-> 0]
  OBVIOUS
<1>3. /\ flushes[a].pc = "write" /\ flushes' = [flushes EXCEPT ![a] = m]
      /\ Captures!Write(a, a, i)
      /\ UNCHANGED <<recordings, completed, job, files, captured, settled, disturbed, made>>
  BY <1>1, <1>2 DEF Captures!RecordingWritten, Captures!Enqueued
<1>4. /\ a \in Captures!Assets /\ a \in Captures!Flushers /\ Safe(a, n) /\ a \in captured
  BY <1>1, <1>3 DEF RecordingsFit, Captures!Assets, Captures!Flushers
<1>5. i \in ItemType /\ i.file = n /\ i.attempts = 0
  BY <1>2, <1>4, CapturesAssumption DEF Safe, ItemType, CaptureTypes
<1>6. /\ meta' \in [Captures!Assets -> ItemType]
      /\ open' \in [Captures!Assets -> SUBSET Captures!Flushers]
      /\ \A b \in Captures!Assets : b # a => meta'[b] = meta[b] /\ open'[b] = open[b]
      /\ open'[a] = open[a] \ {a}
      /\ a \in open[a] => meta'[a] = Captures!Over(meta[a], i)
      /\ MetaFits'
  BY <1>3, <1>4, <1>5, WriteFits
<1>7. \A b \in Captures!Assets : \A k : Safe(b, k)' <=> Safe(b, k)
  BY <1>3 DEF Safe
<1>8. \A b \in Captures!Assets : \A k : Written(b, k)' <=> Written(b, k)
  BY <1>3 DEF Written
<1>9. FlushShape(m) /\ m.pc = "start"
  BY ItemTypes DEF FlushShape, Captures!NoFlush
<1> HIDE DEF m
<1>10. /\ DOMAIN flushes' = Captures!Flushers
       /\ \A g \in Captures!Flushers : flushes'[g] = IF g = a THEN m ELSE flushes[g]
       /\ \A g \in Captures!Flushers : FlushShape(flushes'[g])
  BY <1>3, <1>4, <1>9, FlushIs
<1>11. CaptureTypes'
  BY <1>3, <1>6, <1>10 DEF CaptureTypes
<1>12. JobFits'
  BY <1>3, <1>7, <1>8 DEF JobFits, CaptureTypes, Captures!Assets
<1>13. Recordings \subseteq Captures!Assets /\ Recordings \subseteq Captures!Flushers
  BY DEF Captures!Assets, Captures!Flushers
<1>14. RecordingsFit'
  BY <1>3, <1>7, <1>8, <1>9, <1>10, <1>13 DEF RecordingsFit
<1>15. FlushesFit' /\ HistoryFits'
  BY <1>3, <1>7, <1>9, <1>10 DEF FlushesFit, InHand, HistoryFits
<1>16. ASSUME ~disturbed'
       PROVE  meta'[a] = i /\ \A g \in Captures!Flushers : InHand(g) => flushes[g].a # a
  <2>1. Queuing(a, a)
    BY <1>3 DEF Queuing
  <2>2. /\ meta[a] = Captures!Unreadable /\ a \in open[a]
        /\ \A g \in Captures!Flushers : InHand(g) => flushes[g].a # a
    BY <1>3, <1>4, <1>16, <2>1 DEF Undisturbed, Alone
  <2> QED
    BY <1>6, <2>2 DEF Captures!Over
<1>17. ASSUME ~disturbed' PROVE OneFile' /\ LastKnown'
  <2> USE <1>3, <1>17 DEF Undisturbed
  <2>1. n = made[a]
    BY <1>1 DEF LastKnown
  <2>2. LastKnown'
    BY <1>5, <1>6, <1>9, <1>10, <1>13, <1>16, <2>1 DEF LastKnown, InHand, Captures!Readable
  <2>3. ASSUME NEW b \in Captures!Assets, NEW k \in 1 .. MaxFiles, files'[b][k] # "NONE"
        PROVE  k = made'[b] /\ Purpose(b, k)'
    <3>1. k = made[b] /\ Purpose(b, k)
      BY <2>3 DEF OneFile
    <3>2. CASE b = a
      BY <1>5, <1>16, <2>1, <3>1, <3>2 DEF Purpose
    <3>3. CASE b # a
      BY <1>6, <1>10, <1>13, <3>1, <3>3 DEF Purpose
    <3> QED
      BY <3>2, <3>3
  <2> QED
    BY <2>2, <2>3 DEF OneFile
<1>18. ASSUME ~disturbed' PROVE Fresh' /\ Alone' /\ Rewritten'
  <2> USE <1>3, <1>18 DEF Undisturbed
  <2>1. Fresh'
    BY <1>9, <1>10, <1>13 DEF Fresh
  <2>2. \A g \in Captures!Flushers : InHand(g)' => InHand(g) /\ flushes'[g] = flushes[g]
    BY <1>9, <1>10 DEF InHand
  <2>3. ASSUME NEW b \in Captures!Assets, NEW f \in Captures!Flushers, Queuing(f, b)'
        PROVE  /\ meta'[b] = Captures!Unreadable /\ f \in open'[b]
               /\ \A g \in Captures!Flushers : InHand(g)' => flushes'[g].a # b
    <3>1. b # a /\ Queuing(f, b)
      BY <1>9, <1>10, <1>13, <2>3, CapturesAssumption DEF Queuing, CaptureTypes
    <3> QED
      BY <1>6, <2>2, <3>1 DEF Alone
  <2>4. Alone'
    BY <2>3 DEF Alone
  <2>5. \A g \in Captures!Flushers : InHand(g) => flushes[g].a \in Captures!Assets
    BY DEF FlushesFit, HistoryFits
  <2>6. Rewritten'
    BY <1>6, <1>16, <2>2, <2>5 DEF Rewritten, InHand
  <2> QED
    BY <2>1, <2>4, <2>6
<1> QED
  BY <1>3, <1>6, <1>11, <1>12, <1>14, <1>15, <1>17, <1>18 DEF Undisturbed

\* A flush that only moves on.
LEMMA FlushOnly ==
  ASSUME CapturesInv, NEW f \in Captures!Flushers, NEW m, FlushShape(m),
         flushes' = [flushes EXCEPT ![f] = m],
         flushes[f].pc \notin {"queue", "write", "rewrite"}, m.pc \notin {"queue", "write", "rewrite"},
         UNCHANGED <<recordings, files, made, meta, open, captured, cut, disturbed>>,
         settled \subseteq settled' /\ settled' \subseteq captured,
         m.pc \in {"upload", "remove", "retry"} => m.a \in captured /\ Safe(m.a, m.item.file),
         m.pc = "remove" => m.a \in settled',
         ~disturbed /\ m.pc \in {"upload", "remove", "retry"} =>
           /\ m.item.file = made[m.a]
           /\ meta[m.a] # Captures!Unreadable \/ (InHand(f) /\ flushes[f].a = m.a),
         \/ UNCHANGED <<job, completed>>
         \/ /\ job.pc = "flush" /\ job' = Captures!NoJob
            /\ completed' \subseteq completed \cup captured
  PROVE  CapturesInv'
<1> USE DEF CapturesInv, CapturesSafe
<1>1. /\ DOMAIN flushes' = Captures!Flushers
      /\ \A g \in Captures!Flushers : flushes'[g] = IF g = f THEN m ELSE flushes[g]
      /\ \A g \in Captures!Flushers : FlushShape(flushes'[g])
  BY FlushIs
<1>2. \A b \in Captures!Assets : \A k : Safe(b, k) => Safe(b, k)'
  BY DEF Safe
<1>3. \A b \in Captures!Assets : \A k : Written(b, k)' <=> Written(b, k)
  BY DEF Written
<1>4. CaptureTypes'
  BY <1>1 DEF CaptureTypes, Captures!NoJob
<1>5. JobFits'
  BY <1>2, <1>3 DEF JobFits, CaptureTypes, Captures!Assets, Captures!NoJob
<1>6. RecordingsFit'
  <2>1. Recordings \subseteq Captures!Assets /\ Recordings \subseteq Captures!Flushers
    BY DEF Captures!Assets, Captures!Flushers
  <2> QED
    BY <1>1, <1>2, <1>3, <2>1 DEF RecordingsFit
<1>7. FlushesFit'
  <2> SUFFICES ASSUME NEW g \in Captures!Flushers
               PROVE  /\ InHand(g)' => flushes'[g].a \in captured'
                                       /\ Safe(flushes[g].a, flushes[g].item.file)'
                      /\ flushes'[g].pc = "remove" => flushes'[g].a \in settled'
    BY DEF FlushesFit
  <2>1. CASE g = f
    <3>1. m.pc \in {"upload", "remove", "retry"} => Safe(m.a, m.item.file)'
      BY DEF Safe
    <3> QED
      BY <1>1, <2>1, <3>1 DEF InHand, Safe
  <2>2. CASE g # f
    BY <1>1, <1>2, <2>2 DEF FlushesFit, InHand, HistoryFits
  <2> QED
    BY <2>1, <2>2
<1>8. MetaFits'
  BY <1>2 DEF MetaFits, Captures!Readable
<1>9. HistoryFits'
  BY DEF HistoryFits
<1>10. ASSUME ~disturbed' PROVE OneFile' /\ LastKnown'
  <2> USE <1>10 DEF Undisturbed
  <2>1. \A b \in Recordings : b \in Captures!Flushers
    BY DEF Captures!Flushers
  <2>2. LastKnown'
    BY <1>1, <2>1 DEF LastKnown, InHand, Captures!NoJob, Captures!Readable
  <2>3. ASSUME NEW b \in Captures!Assets, NEW k \in 1 .. MaxFiles, files'[b][k] # "NONE"
        PROVE  k = made'[b] /\ Purpose(b, k)'
    <3>1. k = made[b] /\ Purpose(b, k)
      BY <2>3 DEF OneFile
    <3> QED
      BY <1>1, <2>1, <3>1 DEF Purpose, Captures!NoJob
  <2> QED
    BY <2>2, <2>3 DEF OneFile
<1>11. ASSUME ~disturbed' PROVE Fresh' /\ Alone' /\ Rewritten'
  <2> USE <1>11 DEF Undisturbed
  <2>1. \A b \in Recordings : b \in Captures!Flushers
    BY DEF Captures!Flushers
  <2>2. Fresh'
    BY <1>1, <2>1 DEF Fresh, Captures!NoJob
  <2>3. ASSUME NEW b \in Captures!Assets, NEW g \in Captures!Flushers, Queuing(g, b)'
        PROVE  /\ meta'[b] = Captures!Unreadable /\ g \in open'[b]
               /\ \A h \in Captures!Flushers : InHand(h)' => flushes'[h].a # b
    <3>1. Queuing(g, b)
      BY <1>1, <2>1, <2>3 DEF Queuing, Captures!NoJob
    <3>2. /\ meta[b] = Captures!Unreadable /\ g \in open[b]
          /\ \A h \in Captures!Flushers : InHand(h) => flushes[h].a # b
      BY <3>1 DEF Alone
    <3>3. ASSUME NEW h \in Captures!Flushers, InHand(h)' PROVE flushes'[h].a # b
      BY <1>1, <3>2, <3>3 DEF InHand
    <3> QED
      BY <3>2, <3>3
  <2>4. Alone'
    BY <2>3 DEF Alone
  <2>5. Rewritten'
    BY <1>1 DEF Rewritten
  <2> QED
    BY <2>2, <2>4, <2>5
<1> QED
  BY <1>4, <1>5, <1>6, <1>7, <1>8, <1>9, <1>10, <1>11 DEF Undisturbed

\* A flush that gives a file up and goes on to the next: nobody is writing its metadata.
LEMMA FlushSettles ==
  ASSUME CapturesInv, NEW f \in Captures!Flushers, NEW m, FlushShape(m), m.pc = "next",
         flushes' = [flushes EXCEPT ![f] = m], flushes[f].pc \notin {"queue", "write", "rewrite"},
         NEW a \in Captures!Assets, Captures!Unlink(a), a \in settled',
         UNCHANGED <<recordings, job, made, captured, cut, disturbed>>,
         settled \subseteq settled' /\ settled' \subseteq captured,
         files' \in [Captures!Assets -> [1 .. MaxFiles -> {"NONE", "PART", "WHOLE"}]],
         \A b \in Captures!Assets, k \in 1 .. MaxFiles :
           \/ files'[b][k] = files[b][k]
           \/ b \in settled' /\ files[b][k] # "PART" /\ files'[b][k] = "NONE",
         completed' \subseteq completed \cup settled',
         ~disturbed =>
           /\ files'[a][made[a]] = "NONE"
           /\ meta[a] # Captures!Unreadable \/ (InHand(f) /\ flushes[f].a = a)
  PROVE  CapturesInv'
<1> USE DEF CapturesInv, CapturesSafe
<1>1. /\ DOMAIN flushes' = Captures!Flushers
      /\ \A g \in Captures!Flushers : flushes'[g] = IF g = f THEN m ELSE flushes[g]
      /\ \A g \in Captures!Flushers : FlushShape(flushes'[g])
  BY FlushIs
<1>2. \A b \in Captures!Assets : made[b] \in Nat /\ made[b] <= MaxFiles
  BY CapturesAssumption DEF CaptureTypes
<1>3. \A b \in Captures!Assets : \A k : Safe(b, k) => Safe(b, k)'
  <2>1. \A b \in Captures!Assets : \A k \in 1 .. made[b] :
          files'[b][k] = files[b][k] \/ (b \in settled' /\ files'[b][k] # "PART")
    BY <1>2, CapturesAssumption
  <2> QED
    BY <1>2, <2>1, SafeStays
<1>4. \A b \in Captures!Assets : \A k : Written(b, k) => Written(b, k)'
  BY <1>2, CapturesAssumption DEF Written
<1>5. /\ meta' \in [Captures!Assets -> ItemType]
      /\ open' \in [Captures!Assets -> SUBSET Captures!Flushers]
      /\ \A b \in Captures!Assets :
           /\ meta'[b] = IF b = a THEN Captures!NoItem ELSE meta[b]
           /\ open'[b] = IF b = a THEN {} ELSE open[b]
  BY ItemTypes DEF CaptureTypes, Captures!Unlink
<1>6. CaptureTypes'
  BY <1>1, <1>5 DEF CaptureTypes
<1>7. JobFits'
  BY <1>3, <1>4 DEF JobFits, CaptureTypes, Captures!Assets
<1>8. RecordingsFit'
  <2>1. Recordings \subseteq Captures!Assets /\ Recordings \subseteq Captures!Flushers
    BY DEF Captures!Assets, Captures!Flushers
  <2> QED
    BY <1>1, <1>3, <1>4, <2>1 DEF RecordingsFit
<1>9. FlushesFit'
  BY <1>1, <1>3 DEF FlushesFit, InHand, HistoryFits
<1>10. MetaFits'
  BY <1>3, <1>5 DEF MetaFits, Captures!Readable
<1>11. HistoryFits'
  BY DEF HistoryFits
<1>12. ASSUME ~disturbed' PROVE OneFile' /\ LastKnown'
  <2> USE <1>12 DEF Undisturbed
  <2>1. \A b \in Recordings : b \in Captures!Flushers
    BY DEF Captures!Flushers
  <2>2. LastKnown'
    BY <1>1, <1>5, <2>1 DEF LastKnown, InHand, Captures!Readable
  <2>3. ASSUME NEW b \in Captures!Assets, NEW k \in 1 .. MaxFiles, files'[b][k] # "NONE"
        PROVE  k = made'[b] /\ Purpose(b, k)'
    <3>1. k = made[b] /\ Purpose(b, k)
      BY <2>3 DEF OneFile
    <3>2. b # a
      BY <2>3, <3>1
    <3> QED
      BY <1>1, <1>5, <2>1, <3>1, <3>2 DEF Purpose
  <2> QED
    BY <2>2, <2>3 DEF OneFile
<1>13. ASSUME ~disturbed' PROVE Fresh' /\ Alone' /\ Rewritten'
  <2> USE <1>13 DEF Undisturbed
  <2>1. \A b \in Recordings : b \in Captures!Flushers
    BY DEF Captures!Flushers
  <2>2. Fresh'
    BY <1>1, <2>1 DEF Fresh
  <2>3. ASSUME NEW b \in Captures!Assets, NEW g \in Captures!Flushers, Queuing(g, b)'
        PROVE  /\ meta'[b] = Captures!Unreadable /\ g \in open'[b]
               /\ \A h \in Captures!Flushers : InHand(h)' => flushes'[h].a # b
    <3>1. Queuing(g, b)
      BY <1>1, <2>1, <2>3 DEF Queuing
    <3>2. /\ meta[b] = Captures!Unreadable /\ g \in open[b]
          /\ \A h \in Captures!Flushers : InHand(h) => flushes[h].a # b
      BY <3>1 DEF Alone
    <3>3. b # a
      BY <3>2
    <3> QED
      BY <1>1, <1>5, <3>2, <3>3 DEF InHand
  <2>4. Alone'
    BY <2>3 DEF Alone
  <2>5. ASSUME NEW g \in Captures!Flushers, flushes'[g].pc = "rewrite"
        PROVE  g \in open'[flushes'[g].a] \/ files'[flushes'[g].a][made[flushes'[g].a]] = "NONE"
    <3>1. PICK b : b = flushes[g].a
      OBVIOUS
    <3>2. flushes'[g] = flushes[g] /\ flushes[g].pc = "rewrite"
      BY <1>1, <2>5
    <3>3. b \in captured /\ Safe(b, flushes[g].item.file) /\ flushes[g].item.file = made[b]
      BY <3>1, <3>2 DEF FlushesFit, InHand, LastKnown
    <3>4. b \in Captures!Assets /\ made[b] \in 1 .. MaxFiles
      BY <1>2, <3>3, CapturesAssumption DEF HistoryFits, Safe
    <3>5. g \in open[b] \/ files[b][made[b]] = "NONE"
      BY <3>1, <3>2 DEF Rewritten
    <3> QED
      BY <1>5, <3>1, <3>2, <3>4, <3>5
  <2>6. Rewritten'
    BY <2>5 DEF Rewritten
  <2> QED
    BY <2>2, <2>4, <2>6
<1> QED
  BY <1>6, <1>7, <1>8, <1>9, <1>10, <1>11, <1>12, <1>13 DEF Undisturbed

\* A flush is about to write an item back, and keeps what it is to write.
LEMMA RetryKeeps ==
  ASSUME CapturesInv, NEW f \in Captures!Flushers, Captures!Retry(f)
  PROVE  CapturesInv'
<1> USE DEF CapturesInv, CapturesSafe
<1>1. PICK a, i : a = flushes[f].a /\ i = flushes[f].item
  OBVIOUS
<1>2. /\ flushes[f].pc = "retry" /\ flushes' = [flushes EXCEPT ![f].pc = "rewrite"]
      /\ Captures!Truncate(f, a)
      /\ UNCHANGED <<recordings, completed, job, files, captured, settled, cut, disturbed, made>>
  BY <1>1 DEF Captures!Retry, Captures!Goto, Captures!history
<1>3. a \in captured /\ a \in Captures!Assets /\ Safe(a, i.file)
  BY <1>1, <1>2 DEF FlushesFit, InHand, HistoryFits
<1>4. /\ meta' \in [Captures!Assets -> ItemType]
      /\ open' \in [Captures!Assets -> SUBSET Captures!Flushers]
      /\ \A b \in Captures!Assets :
           /\ meta'[b] = IF b = a THEN Captures!Unreadable ELSE meta[b]
           /\ open'[b] = IF b = a THEN open[a] \cup {f} ELSE open[b]
      /\ MetaFits'
  BY <1>2, <1>3, TruncateFits
<1>5. PICK m : m = [flushes[f] EXCEPT !.pc = "rewrite"]
  OBVIOUS
<1>6. FlushShape(m) /\ m.pc = "rewrite" /\ m.a = a /\ m.item = i
  BY <1>1, <1>5 DEF CaptureTypes, FlushShape
<1>7. flushes' = [flushes EXCEPT ![f] = m]
  BY <1>2, <1>5 DEF CaptureTypes
<1>8. /\ DOMAIN flushes' = Captures!Flushers
      /\ \A g \in Captures!Flushers : flushes'[g] = IF g = f THEN m ELSE flushes[g]
      /\ \A g \in Captures!Flushers : FlushShape(flushes'[g])
  BY <1>6, <1>7, FlushIs
<1>9. \A b \in Captures!Assets : \A k : Safe(b, k)' <=> Safe(b, k)
  BY <1>2 DEF Safe
<1>10. \A b \in Captures!Assets : \A k : Written(b, k)' <=> Written(b, k)
  BY <1>2 DEF Written
<1>11. CaptureTypes'
  BY <1>2, <1>4, <1>8 DEF CaptureTypes
<1>12. JobFits'
  BY <1>2, <1>9, <1>10 DEF JobFits, CaptureTypes, Captures!Assets
<1>13. Recordings \subseteq Captures!Assets /\ Recordings \subseteq Captures!Flushers
  BY DEF Captures!Assets, Captures!Flushers
<1>14. RecordingsFit'
  BY <1>2, <1>6, <1>8, <1>9, <1>10, <1>13 DEF RecordingsFit
<1>15. FlushesFit'
  <2> SUFFICES ASSUME NEW g \in Captures!Flushers
               PROVE  /\ InHand(g)' => flushes'[g].a \in captured
                                       /\ Safe(flushes[g].a, flushes[g].item.file)'
                      /\ flushes'[g].pc = "remove" => flushes'[g].a \in settled
    BY <1>2 DEF FlushesFit
  <2>1. CASE g = f
    BY <1>1, <1>2, <1>3, <1>6, <1>8, <2>1 DEF InHand, Safe
  <2>2. CASE g # f
    BY <1>2, <1>8, <1>9, <2>2 DEF FlushesFit, InHand, HistoryFits
  <2> QED
    BY <2>1, <2>2
<1>16. HistoryFits'
  BY <1>2 DEF HistoryFits
<1>17. ASSUME ~disturbed' PROVE OneFile' /\ LastKnown'
  <2> USE <1>2, <1>17 DEF Undisturbed
  <2>1. i.file = made[a]
    BY <1>1 DEF LastKnown, InHand
  <2>2. LastKnown'
    BY <1>4, <1>6, <1>8, <1>13, <2>1 DEF LastKnown, InHand, Captures!Readable
  <2>3. ASSUME NEW b \in Captures!Assets, NEW k \in 1 .. MaxFiles, files'[b][k] # "NONE"
        PROVE  k = made'[b] /\ Purpose(b, k)'
    <3>1. k = made[b] /\ Purpose(b, k)
      BY <2>3 DEF OneFile
    <3>2. CASE b = a
      BY <1>6, <1>8, <2>1, <3>1, <3>2 DEF Purpose
    <3>3. CASE b # a
      BY <1>4, <1>6, <1>8, <1>13, <3>1, <3>3 DEF Purpose
    <3> QED
      BY <3>2, <3>3
  <2> QED
    BY <2>2, <2>3 DEF OneFile
<1>18. ASSUME ~disturbed' PROVE Fresh' /\ Alone' /\ Rewritten'
  <2> USE <1>2, <1>18 DEF Undisturbed
  <2>1. Fresh'
    BY <1>6, <1>8, <1>13 DEF Fresh
  <2>2. \A g \in Captures!Flushers : InHand(g)' => InHand(g) /\ flushes'[g].a = flushes[g].a
    BY <1>1, <1>6, <1>8 DEF InHand
  <2>3. ASSUME NEW b \in Captures!Assets, NEW g \in Captures!Flushers, Queuing(g, b)'
        PROVE  /\ meta'[b] = Captures!Unreadable /\ g \in open'[b]
               /\ \A h \in Captures!Flushers : InHand(h)' => flushes'[h].a # b
    <3>1. Queuing(g, b)
      BY <1>6, <1>8, <1>13, <2>3 DEF Queuing
    <3>2. /\ meta[b] = Captures!Unreadable /\ g \in open[b]
          /\ \A h \in Captures!Flushers : InHand(h) => flushes[h].a # b
      BY <3>1 DEF Alone
    <3> QED
      BY <1>4, <2>2, <3>2
  <2>4. Alone'
    BY <2>3 DEF Alone
  <2>5. ASSUME NEW g \in Captures!Flushers, flushes'[g].pc = "rewrite"
        PROVE  g \in open'[flushes'[g].a] \/ files[flushes'[g].a][made[flushes'[g].a]] = "NONE"
    <3>1. CASE g = f
      BY <1>3, <1>4, <1>6, <1>8, <3>1
    <3>2. CASE g # f
      <4>1. PICK b : b = flushes[g].a
        OBVIOUS
      <4>2. flushes'[g] = flushes[g] /\ flushes[g].pc = "rewrite"
        BY <1>8, <2>5, <3>2
      <4>3. b \in Captures!Assets
        BY <4>1, <4>2 DEF FlushesFit, InHand, HistoryFits
      <4>4. g \in open[b] \/ files[b][made[b]] = "NONE"
        BY <4>1, <4>2 DEF Rewritten
      <4> QED
        BY <1>4, <4>1, <4>2, <4>3, <4>4
    <3> QED
      BY <3>1, <3>2
  <2>6. Rewritten'
    BY <2>5 DEF Rewritten
  <2> QED
    BY <2>1, <2>4, <2>6
<1> QED
  BY <1>4, <1>11, <1>12, <1>14, <1>15, <1>16, <1>17, <1>18 DEF Undisturbed

\* An item is written back: it names the file it named.
LEMMA RewriteKeeps ==
  ASSUME CapturesInv, NEW f \in Captures!Flushers, Captures!Rewrite(f)
  PROVE  CapturesInv'
<1> USE DEF CapturesInv, CapturesSafe
<1>1. PICK a, was : a = flushes[f].a /\ was = flushes[f].item
  OBVIOUS
<1>2. PICK i : i = [was EXCEPT !.attempts = @ + 1]
  OBVIOUS
<1>3. i \in ItemType /\ i.file = was.file /\ i.attempts # 0
  <2>1. was \in ItemType
    BY <1>1 DEF CaptureTypes, FlushShape
  <2>2. was.attempts \in Nat /\ was.attempts + 1 \in Nat /\ was.attempts + 1 # 0
    BY <2>1 DEF ItemType
  <2> QED
    BY <1>2, <2>1, <2>2 DEF ItemType
<1>4. /\ flushes[f].pc = "rewrite" /\ Captures!NextItem(f) /\ Captures!Write(f, a, i)
      /\ UNCHANGED <<recordings, completed, job, files, captured, settled, disturbed, made>>
  BY <1>1, <1>2 DEF Captures!Rewrite
<1>5. a \in captured /\ a \in Captures!Assets /\ Safe(a, i.file)
  BY <1>1, <1>3, <1>4 DEF FlushesFit, InHand, HistoryFits
<1>6. /\ meta' \in [Captures!Assets -> ItemType]
      /\ open' \in [Captures!Assets -> SUBSET Captures!Flushers]
      /\ \A b \in Captures!Assets : b # a => meta'[b] = meta[b] /\ open'[b] = open[b]
      /\ open'[a] = open[a] \ {f}
      /\ f \notin open[a] => meta'[a] = meta[a]
      /\ f \in open[a] => meta'[a] = Captures!Over(meta[a], i)
      /\ MetaFits'
  BY <1>3, <1>4, <1>5, WriteFits
<1>7. f \in open[a] => meta'[a] = i
  BY <1>3, <1>6 DEF Captures!Over
<1>8. PICK todo : flushes' = [flushes EXCEPT ![f] =
        [Captures!NoFlush EXCEPT !.pc = "next", !.todo = todo]]
  BY <1>4 DEF Captures!NextItem
<1>9. PICK m : m = [Captures!NoFlush EXCEPT !.pc = "next", !.todo = todo]
  OBVIOUS
<1>10. FlushShape(m) /\ m.pc = "next"
  BY <1>9, ItemTypes DEF FlushShape, Captures!NoFlush
<1>11. flushes' = [flushes EXCEPT ![f] = m]
  BY <1>8, <1>9
<1>12. /\ DOMAIN flushes' = Captures!Flushers
       /\ \A g \in Captures!Flushers : flushes'[g] = IF g = f THEN m ELSE flushes[g]
       /\ \A g \in Captures!Flushers : FlushShape(flushes'[g])
  BY <1>10, <1>11, FlushIs
<1>13. \A b \in Captures!Assets : \A k : Safe(b, k)' <=> Safe(b, k)
  BY <1>4 DEF Safe
<1>14. \A b \in Captures!Assets : \A k : Written(b, k)' <=> Written(b, k)
  BY <1>4 DEF Written
<1>15. CaptureTypes'
  BY <1>4, <1>6, <1>12 DEF CaptureTypes
<1>16. JobFits'
  BY <1>4, <1>13, <1>14 DEF JobFits, CaptureTypes, Captures!Assets
<1>17. Recordings \subseteq Captures!Assets /\ Recordings \subseteq Captures!Flushers
  BY DEF Captures!Assets, Captures!Flushers
<1>18. RecordingsFit'
  BY <1>4, <1>10, <1>12, <1>13, <1>14, <1>17 DEF RecordingsFit
<1>19. FlushesFit'
  BY <1>4, <1>10, <1>12, <1>13 DEF FlushesFit, InHand, HistoryFits
<1>20. HistoryFits'
  BY <1>4 DEF HistoryFits
<1>21. ASSUME ~disturbed' PROVE OneFile' /\ LastKnown'
  <2> USE <1>4, <1>21 DEF Undisturbed
  <2>1. i.file = made[a]
    BY <1>1, <1>3 DEF LastKnown, InHand
  <2>2. \A b \in Captures!Assets : Captures!Readable(b)' => meta'[b].file = made[b]
    BY <1>5, <1>6, <1>7, <2>1 DEF LastKnown, Captures!Readable
  <2>3. LastKnown'
    BY <1>10, <1>12, <1>17, <2>2 DEF LastKnown, InHand
  <2>4. ASSUME NEW b \in Captures!Assets, NEW k \in 1 .. MaxFiles, files'[b][k] # "NONE"
        PROVE  k = made'[b] /\ Purpose(b, k)'
    <3>1. k = made[b] /\ Purpose(b, k)
      BY <2>4 DEF OneFile
    <3>2. CASE b = a /\ f \in open[a]
      BY <1>7, <2>1, <3>1, <3>2 DEF Purpose
    <3>3. CASE b = a /\ f \notin open[a]
      <4>1. files[a][made[a]] = "NONE"
        BY <1>1, <3>3 DEF Rewritten
      <4> QED
        BY <2>4, <3>1, <3>3, <4>1
    <3>4. CASE b # a
      BY <1>1, <1>6, <1>12, <1>17, <3>1, <3>4 DEF Purpose
    <3> QED
      BY <3>2, <3>3, <3>4
  <2> QED
    BY <2>3, <2>4 DEF OneFile
<1>22. ASSUME ~disturbed' PROVE Fresh' /\ Alone' /\ Rewritten'
  <2> USE <1>4, <1>22 DEF Undisturbed
  <2>1. Fresh'
    BY <1>10, <1>12, <1>17 DEF Fresh
  <2>2. \A g \in Captures!Flushers : InHand(g)' => g # f /\ InHand(g) /\ flushes'[g] = flushes[g]
    BY <1>10, <1>12 DEF InHand
  <2>3. ASSUME NEW b \in Captures!Assets, NEW g \in Captures!Flushers, Queuing(g, b)'
        PROVE  /\ meta'[b] = Captures!Unreadable /\ g \in open'[b]
               /\ \A h \in Captures!Flushers : InHand(h)' => flushes'[h].a # b
    <3>1. Queuing(g, b)
      BY <1>10, <1>12, <1>17, <2>3 DEF Queuing
    <3>2. /\ meta[b] = Captures!Unreadable /\ g \in open[b]
          /\ \A h \in Captures!Flushers : InHand(h) => flushes[h].a # b
      BY <3>1 DEF Alone
    <3>3. b # a
      BY <1>1, <3>2 DEF InHand
    <3> QED
      BY <1>6, <2>2, <3>2, <3>3
  <2>4. Alone'
    BY <2>3 DEF Alone
  <2>5. ASSUME NEW g \in Captures!Flushers, flushes'[g].pc = "rewrite"
        PROVE  g \in open'[flushes'[g].a] \/ files[flushes'[g].a][made[flushes'[g].a]] = "NONE"
    <3>1. PICK b : b = flushes[g].a
      OBVIOUS
    <3>2. g # f /\ flushes'[g] = flushes[g] /\ flushes[g].pc = "rewrite"
      BY <1>10, <1>12, <2>5
    <3>3. b \in Captures!Assets
      BY <3>1, <3>2 DEF FlushesFit, InHand, HistoryFits
    <3>4. g \in open[b] \/ files[b][made[b]] = "NONE"
      BY <3>1, <3>2 DEF Rewritten
    <3> QED
      BY <1>6, <3>1, <3>2, <3>3, <3>4
  <2>6. Rewritten'
    BY <2>5 DEF Rewritten
  <2> QED
    BY <2>1, <2>4, <2>6
<1> QED
  BY <1>6, <1>15, <1>16, <1>18, <1>19, <1>20, <1>21, <1>22 DEF Undisturbed

\* Whatever a flush does next.
LEMMA FlushStepKeeps ==
  ASSUME CapturesInv, NEW f \in Captures!Flushers, Captures!FlushStep(f)
  PROVE  CapturesInv'
<1> USE DEF CapturesInv, CapturesSafe
<1>0. FlushShape(flushes[f])
  BY DEF CaptureTypes
<1>1. CASE Captures!FlushStart(f)
  <2>1. PICK todo : flushes' = [flushes EXCEPT ![f] =
          [Captures!NoFlush EXCEPT !.pc = "next", !.todo = todo]]
    BY <1>1 DEF Captures!FlushStart
  <2> DEFINE m == [Captures!NoFlush EXCEPT !.pc = "next", !.todo = todo]
  <2>2. FlushShape(m) /\ m.pc = "next"
    BY ItemTypes DEF FlushShape, Captures!NoFlush
  <2>3. /\ flushes[f].pc \notin {"queue", "write", "rewrite"}
        /\ UNCHANGED <<recordings, completed, job, files, made, meta, open>>
        /\ UNCHANGED <<captured, settled, cut, disturbed>>
    BY <1>1 DEF Captures!FlushStart, Captures!disk, Captures!history, Captures!NoFlush
  <2> HIDE DEF m
  <2> QED
    BY <2>1, <2>2, <2>3, FlushOnly DEF HistoryFits, m
<1>2. ASSUME NEW a \in Captures!Assets, Captures!SkipItem(f, a)
      PROVE  CapturesInv'
  <2> DEFINE m == [flushes[f] EXCEPT !.todo = @ \ {a}]
  <2>1. flushes[f].pc = "next" /\ flushes' = [flushes EXCEPT ![f] = m]
    BY <1>2 DEF Captures!SkipItem, Captures!Turn, CaptureTypes
  <2>2. FlushShape(m) /\ m.pc = "next"
    BY <1>0, <2>1 DEF FlushShape
  <2>3. /\ UNCHANGED <<recordings, completed, job, files, made, meta, open>>
        /\ UNCHANGED <<captured, settled, cut, disturbed>>
    BY <1>2 DEF Captures!SkipItem, Captures!disk, Captures!history
  <2> HIDE DEF m
  <2> QED
    BY <2>1, <2>2, <2>3, FlushOnly DEF HistoryFits
<1>3. ASSUME NEW a \in Captures!Assets, Captures!ExpireItem(f, a)
      PROVE  CapturesInv'
  <2> DEFINE m == [flushes[f] EXCEPT !.todo = @ \ {a}]
  <2>1. /\ flushes[f].pc = "next" /\ flushes' = [flushes EXCEPT ![f] = m]
        /\ Captures!Readable(a) /\ Captures!Unlink(a)
        /\ settled' = settled \cup {a}
        /\ UNCHANGED <<recordings, completed, job, captured, cut, disturbed, made>>
    BY <1>3 DEF Captures!ExpireItem, Captures!Turn, CaptureTypes
  <2>2. FlushShape(m) /\ m.pc = "next"
    BY <1>0, <2>1 DEF FlushShape
  <2>3. PICK n : n = meta[a].file
    OBVIOUS
  <2>4. a \in captured /\ Safe(a, n) /\ n \in 1 .. MaxFiles
    BY <2>1, <2>3, CapturesAssumption DEF MetaFits, Safe, CaptureTypes
  <2>5. Captures!Put(a, n, "NONE")
    BY <1>3, <2>3 DEF Captures!ExpireItem
  <2>6. files' = [files EXCEPT ![a] = [files[a] EXCEPT ![n] = "NONE"]]
    BY <2>5 DEF Captures!Put, CaptureTypes
  <2>7. /\ files' \in [Captures!Assets -> [1 .. MaxFiles -> {"NONE", "PART", "WHOLE"}]]
        /\ \A b \in Captures!Assets, k \in 1 .. MaxFiles :
             files'[b][k] = IF b = a /\ k = n THEN "NONE" ELSE files[b][k]
    BY <2>4, <2>6 DEF CaptureTypes
  <2>8. \A b \in Captures!Assets, k \in 1 .. MaxFiles :
           \/ files'[b][k] = files[b][k]
           \/ b \in settled' /\ files[b][k] # "PART" /\ files'[b][k] = "NONE"
    BY <2>1, <2>4, <2>7 DEF Safe
  <2>9. ~disturbed => files'[a][made[a]] = "NONE" /\ meta[a] # Captures!Unreadable
    BY <2>1, <2>3, <2>4, <2>7 DEF Undisturbed, LastKnown, Captures!Readable
  <2>10. settled \subseteq settled' /\ settled' \subseteq captured /\ a \in settled'
    BY <2>1, <2>4 DEF HistoryFits
  <2>11. flushes[f].pc \notin {"queue", "write", "rewrite"}
    BY <2>1
  <2> HIDE DEF m
  <2> QED
    BY <2>1, <2>2, <2>7, <2>8, <2>9, <2>10, <2>11, FlushSettles DEF HistoryFits
<1>4. ASSUME NEW a \in Captures!Assets, Captures!ReadItem(f, a)
      PROVE  CapturesInv'
  <2>1. PICK pc \in {"retry", "upload"} :
          flushes' = [flushes EXCEPT ![f].a = a, ![f].item = meta[a], ![f].pc = pc]
    BY <1>4 DEF Captures!ReadItem, Captures!Reading
  <2>2. /\ Captures!Readable(a)
        /\ UNCHANGED <<recordings, completed, job, files, made, meta, open>>
        /\ UNCHANGED <<captured, settled, cut, disturbed>>
    BY <1>4 DEF Captures!ReadItem, Captures!Reading, Captures!disk, Captures!history
  <2> DEFINE m1 == [flushes[f] EXCEPT !.a = a]
             m2 == [m1 EXCEPT !.item = meta[a]]
             m == [m2 EXCEPT !.pc = pc]
  <2>3. FlushShape(m) /\ m.pc = pc /\ m.a = a /\ m.item = meta[a]
    <3>1. FlushShape(m1) /\ m1.a = a
      BY <1>0 DEF FlushShape
    <3> HIDE DEF m1
    <3>2. FlushShape(m2) /\ m2.a = a /\ m2.item = meta[a]
      BY <3>1 DEF FlushShape, CaptureTypes
    <3> HIDE DEF m2
    <3> QED
      BY <3>2 DEF FlushShape, CaptureTypes
  <2>4. flushes' = [flushes EXCEPT ![f] = m]
    BY <2>1 DEF CaptureTypes
  <2>5. /\ a \in captured /\ Safe(a, meta[a].file)
        /\ ~disturbed => meta[a].file = made[a]
        /\ meta[a] # Captures!Unreadable
    BY <2>2 DEF MetaFits, Undisturbed, LastKnown, Captures!Readable
  <2>6. flushes[f].pc \notin {"queue", "write", "rewrite"}
    BY <1>4 DEF Captures!ReadItem, Captures!Reading, Captures!Turn
  <2>7. m.pc \notin {"queue", "write", "rewrite"} /\ m.pc # "remove"
    BY <2>1, <2>3
  <2> HIDE DEF m1, m2, m
  <2> QED
    BY <2>2, <2>3, <2>4, <2>5, <2>6, <2>7, FlushOnly DEF HistoryFits
<1>5. ASSUME NEW stored \in BOOLEAN, NEW answered \in BOOLEAN, Captures!Upload(f, stored, answered)
      PROVE  CapturesInv'
  <2>1. PICK pc \in {"remove", "retry"} :
          /\ flushes' = [flushes EXCEPT ![f].pc = pc]
          /\ pc = "remove" => stored
    BY <1>5 DEF Captures!Upload, Captures!Goto
  <2>2. /\ flushes[f].pc = "upload"
        /\ settled' = IF stored THEN settled \cup {flushes[f].a} ELSE settled
        /\ UNCHANGED <<recordings, completed, job, files, made, meta, open, captured, cut, disturbed>>
    BY <1>5 DEF Captures!Upload, Captures!disk
  <2> DEFINE m == [flushes[f] EXCEPT !.pc = pc]
  <2>3. FlushShape(m) /\ m.pc = pc /\ m.a = flushes[f].a /\ m.item = flushes[f].item
    BY <1>0 DEF FlushShape
  <2>4. flushes' = [flushes EXCEPT ![f] = m]
    BY <2>1 DEF CaptureTypes
  <2>5. /\ flushes[f].a \in captured /\ Safe(flushes[f].a, flushes[f].item.file)
        /\ ~disturbed => flushes[f].item.file = made[flushes[f].a]
        /\ InHand(f) /\ flushes[f].pc \notin {"queue", "write", "rewrite"}
    BY <2>2 DEF FlushesFit, InHand, Undisturbed, LastKnown
  <2>6. /\ settled \subseteq settled' /\ settled' \subseteq captured
        /\ (m.pc = "remove" => m.a \in settled')
    BY <2>1, <2>2, <2>3, <2>5 DEF HistoryFits
  <2>7. m.pc \notin {"queue", "write", "rewrite"}
    BY <2>1, <2>3
  <2> HIDE DEF m
  <2> QED
    BY <2>2, <2>3, <2>4, <2>5, <2>6, <2>7, FlushOnly
<1>6. CASE Captures!Remove(f)
  <2>1. PICK a, n : a = flushes[f].a /\ n = flushes[f].item.file
    OBVIOUS
  <2>2. /\ flushes[f].pc = "remove" /\ Captures!Put(a, n, "NONE") /\ Captures!Unlink(a)
        /\ completed' = completed \cup {a} /\ Captures!NextItem(f)
        /\ UNCHANGED <<recordings, job, captured, settled, cut, disturbed, made>>
    BY <1>6, <2>1 DEF Captures!Remove, Captures!history
  <2>3. PICK todo : flushes' = [flushes EXCEPT ![f] =
          [Captures!NoFlush EXCEPT !.pc = "next", !.todo = todo]]
    BY <2>2 DEF Captures!NextItem
  <2> DEFINE m == [Captures!NoFlush EXCEPT !.pc = "next", !.todo = todo]
  <2>4. FlushShape(m) /\ m.pc = "next"
    BY ItemTypes DEF FlushShape, Captures!NoFlush
  <2>5. /\ a \in captured /\ a \in settled /\ a \in Captures!Assets
        /\ Safe(a, n) /\ n \in 1 .. MaxFiles
    BY <2>1, <2>2, CapturesAssumption DEF FlushesFit, InHand, HistoryFits, Safe, CaptureTypes
  <2>6. files' = [files EXCEPT ![a] = [files[a] EXCEPT ![n] = "NONE"]]
    BY <2>2 DEF Captures!Put, CaptureTypes
  <2>7. /\ files' \in [Captures!Assets -> [1 .. MaxFiles -> {"NONE", "PART", "WHOLE"}]]
        /\ \A b \in Captures!Assets, k \in 1 .. MaxFiles :
             files'[b][k] = IF b = a /\ k = n THEN "NONE" ELSE files[b][k]
    BY <2>5, <2>6 DEF CaptureTypes
  <2>8. \A b \in Captures!Assets, k \in 1 .. MaxFiles :
           \/ files'[b][k] = files[b][k]
           \/ b \in settled' /\ files[b][k] # "PART" /\ files'[b][k] = "NONE"
    BY <2>2, <2>5, <2>7 DEF Safe
  <2>9. flushes' = [flushes EXCEPT ![f] = m]
    BY <2>3
  <2>10. ~disturbed => files'[a][made[a]] = "NONE"
    BY <2>1, <2>2, <2>5, <2>7 DEF Undisturbed, LastKnown, InHand
  <2>11. InHand(f) /\ flushes[f].a = a /\ flushes[f].pc \notin {"queue", "write", "rewrite"}
    BY <2>1, <2>2 DEF InHand
  <2> HIDE DEF m
  <2> QED
    BY <2>2, <2>4, <2>5, <2>7, <2>8, <2>9, <2>10, <2>11, FlushSettles DEF HistoryFits
<1>7. CASE Captures!FlushEnds(f)
  <2>1. /\ flushes' = [flushes EXCEPT ![f] = Captures!NoFlush] /\ flushes[f].pc = "next"
        /\ UNCHANGED <<recordings, files, made, meta, open, captured, settled, cut, disturbed>>
        /\ \/ UNCHANGED <<job, completed>>
           \/ job.pc = "flush" /\ job' = Captures!NoJob /\ completed' = completed \cup {job.a}
    BY <1>7 DEF Captures!FlushEnds, Captures!disk, Captures!history
  <2>2. FlushShape(Captures!NoFlush) /\ Captures!NoFlush.pc = "idle"
    BY ItemTypes DEF FlushShape, Captures!NoFlush
  <2>3. \/ UNCHANGED <<job, completed>>
        \/ /\ job.pc = "flush" /\ job' = Captures!NoJob
           /\ completed' \subseteq completed \cup captured
    BY <2>1 DEF JobFits
  <2> QED
    BY <2>1, <2>2, <2>3, FlushOnly DEF HistoryFits
<1> QED
  BY <1>1, <1>2, <1>3, <1>4, <1>5, <1>6, <1>7, RetryKeeps, RewriteKeeps DEF Captures!FlushStep

\* No operation of the captures: what holds of them goes on.
LEMMA CapturesRest ==
  ASSUME CapturesInv, UNCHANGED captures
  PROVE  CapturesInv'
<1> USE DEF captures
<1>1. \A a, n : (Safe(a, n)' <=> Safe(a, n)) /\ (Written(a, n)' <=> Written(a, n))
  BY DEF Safe, Written
<1>2. CapturesSafe'
  <2>1. CaptureTypes'
    BY DEF CapturesInv, CapturesSafe, CaptureTypes
  <2>2. JobFits'
    BY <1>1 DEF CapturesInv, CapturesSafe, JobFits
  <2>3. RecordingsFit'
    BY <1>1 DEF CapturesInv, CapturesSafe, RecordingsFit
  <2>4. FlushesFit'
    BY <1>1 DEF CapturesInv, CapturesSafe, FlushesFit, InHand
  <2>5. MetaFits'
    BY <1>1 DEF CapturesInv, CapturesSafe, MetaFits, Captures!Readable
  <2>6. HistoryFits'
    BY DEF CapturesInv, CapturesSafe, HistoryFits
  <2> QED
    BY <2>1, <2>2, <2>3, <2>4, <2>5, <2>6 DEF CapturesSafe
<1>3. ASSUME ~disturbed' PROVE OneFile' /\ LastKnown'
  BY <1>3 DEF CapturesInv, Undisturbed, OneFile, LastKnown, Purpose, InHand, Captures!Readable
<1>4. ASSUME ~disturbed' PROVE Fresh' /\ Alone' /\ Rewritten'
  BY <1>4 DEF CapturesInv, Undisturbed, Fresh, Alone, Rewritten, Queuing, InHand
<1> QED
  BY <1>2, <1>3, <1>4 DEF CapturesInv, Undisturbed

\* A restart forgets who was at what, and the staging directory stays as it is: what was
\* being written is cut off.
LEMMA RestartKeepsCaptures ==
  ASSUME CapturesInv, Captures!Restart
  PROVE  CapturesInv'
<1> USE DEF CapturesInv, CapturesSafe
<1>1. /\ recordings' = [a \in Recordings |-> 0] /\ completed' = {} /\ job' = Captures!NoJob
      /\ flushes' = [f \in Captures!Flushers |-> Captures!NoFlush] /\ disturbed' = TRUE
      /\ open' = [a \in Captures!Assets |-> {}]
      /\ cut' = cut \cup {a \in Captures!Assets : meta[a] = Captures!Unreadable}
      /\ UNCHANGED <<files, made, meta, captured, settled>>
  BY DEF Captures!Restart
<1>2. \A a, n : Safe(a, n)' <=> Safe(a, n)
  BY <1>1 DEF Safe
<1>3. CaptureTypes'
  <2>1. \A f \in Captures!Flushers : FlushShape(flushes'[f])
    BY <1>1, ItemTypes DEF FlushShape, Captures!NoFlush
  <2>2. {"pc", "a", "file"} \subseteq DOMAIN job' /\ job'.pc = "idle"
    BY <1>1 DEF Captures!NoJob
  <2> QED
    BY <1>1, <2>1, <2>2, CapturesAssumption DEF CaptureTypes
<1>4. JobFits'
  BY <1>1 DEF JobFits, Captures!NoJob
<1>5. RecordingsFit'
  BY <1>1 DEF RecordingsFit, Captures!NoFlush, Captures!Flushers
<1>6. FlushesFit'
  BY <1>1 DEF FlushesFit, InHand, Captures!NoFlush
<1>7. MetaFits'
  BY <1>1, <1>2 DEF MetaFits, Captures!Readable
<1>8. HistoryFits' /\ Undisturbed'
  BY <1>1 DEF HistoryFits, Undisturbed
<1> QED
  BY <1>3, <1>4, <1>5, <1>6, <1>7, <1>8

\* An empty staging directory.
LEMMA CapturesStart ==
  ASSUME Captures!Init
  PROVE  CapturesInv
<1> USE DEF Captures!Init, Captures!Files
<1>1. \A a \in Captures!Assets : meta[a] = Captures!NoItem
  OBVIOUS
<1>2. CaptureTypes
  <2>1. meta \in [Captures!Assets -> ItemType]
    BY ItemTypes
  <2>2. \A f \in Captures!Flushers : FlushShape(flushes[f])
    BY ItemTypes DEF FlushShape, Captures!NoFlush
  <2>3. {"pc", "a", "file"} \subseteq DOMAIN job /\ job.pc = "idle"
    BY DEF Captures!NoJob
  <2>4. files \in [Captures!Assets -> [1 .. MaxFiles -> {"NONE", "PART", "WHOLE"}]]
    OBVIOUS
  <2>5. made \in [Captures!Assets -> 0 .. MaxFiles] /\ recordings \in [Recordings -> 0 .. MaxFiles]
    BY CapturesAssumption
  <2>6. /\ open \in [Captures!Assets -> SUBSET Captures!Flushers]
        /\ DOMAIN flushes = Captures!Flushers /\ disturbed \in BOOLEAN
    OBVIOUS
  <2> HIDE DEF Captures!Init
  <2> QED
    BY <2>1, <2>2, <2>3, <2>4, <2>5, <2>6 DEF CaptureTypes
<1>3. JobFits /\ HistoryFits
  BY DEF JobFits, HistoryFits, Captures!NoJob
<1>4. RecordingsFit
  BY DEF RecordingsFit, Captures!NoFlush, Captures!Flushers
<1>5. FlushesFit
  BY DEF FlushesFit, InHand, Captures!NoFlush
<1>6. MetaFits
  BY <1>1 DEF MetaFits, Captures!Readable
<1>7. OneFile
  BY DEF OneFile
<1>8. LastKnown
  BY <1>1
  DEF LastKnown, InHand, Captures!NoFlush, Captures!NoJob, Captures!Flushers, Captures!Readable
<1>9. Fresh /\ Alone /\ Rewritten
  <2>1. Fresh
    BY DEF Fresh
  <2>2. Alone
    BY DEF Alone, Queuing, Captures!NoFlush, Captures!NoJob, Captures!Flushers
  <2>3. Rewritten
    BY DEF Rewritten, Captures!NoFlush
  <2> QED
    BY <2>1, <2>2, <2>3
<1> QED
  BY <1>2, <1>3, <1>4, <1>5, <1>6, <1>7, <1>8, <1>9 DEF CapturesInv, CapturesSafe, Undisturbed

\* Whatever the capture manager does, beside the main loop or in it.
LEMMA CapturesKeep ==
  ASSUME CapturesInv, CaptureStep \/ Captures!Restart \/ UNCHANGED captures
  PROVE  CapturesInv'
<1>1. CASE CaptureStep
  <2>1. CASE RunCaptureCommand
    BY <2>1, SnapshotStartKeeps, StartRecordingKeeps DEF RunCaptureCommand
  <2>2. CASE Captures!MainStep
    BY <2>2, SnapshotEndsKeeps, SnapshotQueuedKeeps, SnapshotWrittenKeeps DEF Captures!MainStep
  <2>3. CASE RecordingRuns
    BY <2>3, RecordingQueuedKeeps, RecordingWrittenKeeps, ExitKeeps DEF RecordingRuns
  <2>4. ASSUME NEW f \in Captures!Flushers, FlushCaptures(f)
        PROVE  CapturesInv'
    BY <2>4, FlushStepKeeps DEF FlushCaptures
  <2> QED
    BY <1>1, <2>1, <2>2, <2>3, <2>4 DEF CaptureStep
<1> QED
  BY <1>1, RestartKeepsCaptures, CapturesRest

\* What is safe is what the capture manager promises.
LEMMA CapturesPromised ==
  ASSUME CapturesInv
  PROVE  CapturesKept /\ StagingOwned
<1> USE DEF CapturesInv, CapturesSafe
<1>1. CapturesKept
  <2> SUFFICES ASSUME NEW a \in captured \cup completed
               PROVE  \/ a \in settled
                      \/ Captures!Readable(a) /\ files[a][meta[a].file] = "WHOLE"
                      \/ meta[a] = Captures!Unreadable /\ (open[a] # {} \/ a \in cut)
    BY DEF CapturesKept, Captures!CapturesKept
  <2>1. a \in captured /\ a \in Captures!Assets
    BY DEF HistoryFits
  <2> QED
    BY <2>1 DEF MetaFits, Safe
<1>2. StagingOwned
  BY DEF StagingOwned, Captures!StagingOwned, Undisturbed, OneFile, Purpose, Captures!Files
<1> QED
  BY <1>1, <1>2
------------------------------------------------------------------------------
(* The monitors of the gateway *)

MotionTypes ==
  /\ monitors \in [Watched -> 0 .. MaxMonitors] /\ started \in [Watched -> 0 .. MaxMonitors]
  /\ DOMAIN state = Watched /\ \A c \in Watched : DOMAIN state[c] = Motion!Ids
  /\ \A c \in Watched, i \in Motion!Ids :
       {"process", "online", "stopping"} \subseteq DOMAIN state[c][i]
  /\ DOMAIN told = Watched
\* A monitor that runs and is not to stop is the camera's.
OneMonitor == \A c \in Watched, i \in Motion!Ids :
  state[c][i].process = "running" /\ ~state[c][i].stopping => monitors[c] = i
MotionInv == MotionTypes /\ OneMonitor /\ OnlineIsTold

\* What a step of monitor i of camera c leaves alone.
LEMMA OnlyThis ==
  ASSUME MotionTypes, NEW c \in Watched, NEW i \in Motion!Ids, NEW m,
         state' = [state EXCEPT ![c] = [state[c] EXCEPT ![i] = m]],
         {"process", "online", "stopping"} \subseteq DOMAIN m
  PROVE  /\ DOMAIN state' = Watched /\ \A d \in Watched : DOMAIN state'[d] = Motion!Ids
         /\ \A d \in Watched, j \in Motion!Ids :
              state'[d][j] = IF d = c /\ j = i THEN m ELSE state[d][j]
         /\ \A d \in Watched, j \in Motion!Ids :
              {"process", "online", "stopping"} \subseteq DOMAIN state'[d][j]
BY DEF MotionTypes

\* A frame changes nothing of a monitor but what it shows.
LEMMA FrameKeeps ==
  ASSUME MotionInv, NEW c \in Watched, NEW i \in Motion!Ids, NEW moving \in BOOLEAN,
         Motion!Frame(c, i, moving)
  PROVE  MotionInv'
<1> DEFINE was == state[c][i]
           got == Motion!Aggregated(was, moving)
           m == [got EXCEPT !.online = TRUE]
<1>1. {"process", "online", "stopping"} \subseteq DOMAIN was
  BY DEF MotionInv, MotionTypes
<1>2. DOMAIN got = DOMAIN was /\ got.process = was.process /\ got.stopping = was.stopping
  <2> HIDE DEF was
  <2>1. QED
    BY <1>1 DEF Motion!Aggregated
<1>3. /\ DOMAIN m = DOMAIN was
      /\ m.process = was.process /\ m.stopping = was.stopping /\ m.online
  <2> HIDE DEF was, got
  <2>1. QED
    BY <1>1, <1>2
<1>4. state' = [state EXCEPT ![c] = [state[c] EXCEPT ![i] = m]]
  BY DEF Motion!Frame, MotionInv, MotionTypes
<1> HIDE DEF was, got, m
<1>5. /\ DOMAIN state' = Watched /\ \A d \in Watched : DOMAIN state'[d] = Motion!Ids
      /\ \A d \in Watched, j \in Motion!Ids :
           state'[d][j] = IF d = c /\ j = i THEN m ELSE state[d][j]
      /\ \A d \in Watched, j \in Motion!Ids :
           {"process", "online", "stopping"} \subseteq DOMAIN state'[d][j]
  BY <1>1, <1>3, <1>4, OnlyThis DEF MotionInv
<1>6. UNCHANGED <<monitors, started>>
  BY DEF Motion!Frame
<1>7. OneMonitor'
  BY <1>3, <1>5, <1>6 DEF MotionInv, OneMonitor, was
<1>8. DOMAIN told' = Watched /\ told'[c] \in {told[c], "ONLINE"}
      /\ (was.online \/ told'[c] = "ONLINE") /\ \A d \in Watched \ {c} : told'[d] = told[d]
  BY DEF Motion!Frame, Motion!Tell, MotionInv, MotionTypes, was
<1>9. OnlineIsTold'
  BY <1>3, <1>5, <1>6, <1>8
  DEF MotionInv, MotionTypes, OnlineIsTold, Motion!OnlineIsTold, Motion!Current, Motion!Ids, was
<1> QED
  BY <1>5, <1>6, <1>7, <1>8, <1>9 DEF MotionInv, MotionTypes

\* A process that ends was the camera's, or nobody is told.
LEMMA FinalizeKeeps ==
  ASSUME MotionInv, NEW c \in Watched, NEW i \in Motion!Ids, Motion!Finalize(c, i)
  PROVE  MotionInv'
<1> DEFINE was == state[c][i]
           m == [was EXCEPT !.process = "exited", !.online = FALSE]
<1>1. {"process", "online", "stopping"} \subseteq DOMAIN was
  BY DEF MotionInv, MotionTypes
<1>3. DOMAIN m = DOMAIN was /\ m.process = "exited"
  <2> HIDE DEF was
  <2>1. QED
    BY <1>1
<1>4. state' = [state EXCEPT ![c] = [state[c] EXCEPT ![i] = m]]
  BY DEF Motion!Finalize, MotionInv, MotionTypes
<1> HIDE DEF was, m
<1>5. /\ DOMAIN state' = Watched /\ \A d \in Watched : DOMAIN state'[d] = Motion!Ids
      /\ \A d \in Watched, j \in Motion!Ids :
           state'[d][j] = IF d = c /\ j = i THEN m ELSE state[d][j]
      /\ \A d \in Watched, j \in Motion!Ids :
           {"process", "online", "stopping"} \subseteq DOMAIN state'[d][j]
  BY <1>1, <1>3, <1>4, OnlyThis DEF MotionInv
<1>6. /\ \A d \in Watched : monitors'[d] = IF d = c /\ monitors[c] = i THEN 0 ELSE monitors[d]
      /\ monitors' \in [Watched -> 0 .. MaxMonitors] /\ UNCHANGED started
  BY MonitorsAssumption DEF Motion!Finalize, MotionInv, MotionTypes
<1>7. OneMonitor'
  BY <1>3, <1>5, <1>6 DEF MotionInv, OneMonitor
<1>8. /\ DOMAIN told' = Watched /\ \A d \in Watched \ {c} : told'[d] = told[d]
      /\ told'[c] = told[c] \/ (was.process = "running" /\ ~was.stopping)
  BY DEF Motion!Finalize, Motion!Tell, MotionInv, MotionTypes, was
<1>9. OnlineIsTold'
  <2> SUFFICES ASSUME NEW d \in Watched, monitors'[d] # 0, state'[d][monitors'[d]].online
               PROVE  told'[d] = "ONLINE"
    BY DEF OnlineIsTold, Motion!OnlineIsTold, Motion!Current
  <2>1. monitors'[d] = monitors[d] /\ monitors[d] \in Motion!Ids /\ ~(d = c /\ monitors[d] = i)
    BY <1>6 DEF MotionInv, MotionTypes, Motion!Ids
  <2>2. state'[d][monitors'[d]] = state[d][monitors[d]]
    BY <1>5, <2>1
  <2>3. told[d] = "ONLINE"
    BY <2>1, <2>2 DEF MotionInv, OnlineIsTold, Motion!OnlineIsTold, Motion!Current
  <2>4. d = c => ~(was.process = "running" /\ ~was.stopping)
    BY <2>1 DEF MotionInv, OneMonitor, was
  <2> QED
    BY <1>8, <2>3, <2>4
<1> QED
  BY <1>5, <1>6, <1>7, <1>8, <1>9 DEF MotionInv, MotionTypes

\* A new monitor takes a number that no process of the camera needs any more.
LEMMA StartKeeps ==
  ASSUME MotionInv, NEW c \in Watched, Motion!Start(c)
  PROVE  MotionInv'
<1> DEFINE i == started[c] + 1
           m == [Motion!NoMonitor EXCEPT !.process = "running", !.of = sync.got[c]]
<1>1. i \in Motion!Ids /\ i # 0
  BY MonitorsAssumption DEF Motion!Start, MotionInv, MotionTypes, Motion!Ids
<1>3. {"process", "online", "stopping"} \subseteq DOMAIN m /\ ~m.online
  BY DEF Motion!NoMonitor
<1>4. state' = [state EXCEPT ![c] = [state[c] EXCEPT ![i] = m]]
  BY DEF Motion!Start, MotionInv, MotionTypes
<1>6. /\ monitors' = [monitors EXCEPT ![c] = i] /\ started' = [started EXCEPT ![c] = i]
      /\ UNCHANGED told /\ monitors[c] = 0
  BY DEF Motion!Start, MotionInv, MotionTypes
<1> HIDE DEF i, m
<1>5. /\ DOMAIN state' = Watched /\ \A d \in Watched : DOMAIN state'[d] = Motion!Ids
      /\ \A d \in Watched, j \in Motion!Ids :
           state'[d][j] = IF d = c /\ j = i THEN m ELSE state[d][j]
      /\ \A d \in Watched, j \in Motion!Ids :
           {"process", "online", "stopping"} \subseteq DOMAIN state'[d][j]
  BY <1>1, <1>3, <1>4, OnlyThis DEF MotionInv
<1>7. OneMonitor'
  BY <1>1, <1>5, <1>6 DEF MotionInv, MotionTypes, OneMonitor, Motion!Ids
<1>8. OnlineIsTold'
  BY <1>1, <1>3, <1>5, <1>6
  DEF MotionInv, MotionTypes, OnlineIsTold, Motion!OnlineIsTold, Motion!Current, Motion!Ids
<1> QED
  BY <1>1, <1>5, <1>6, <1>7, <1>8 DEF MotionInv, MotionTypes, Motion!Ids

\* A monitor that is to stop is no longer the camera's.
LEMMA StopKeeps ==
  ASSUME MotionInv, NEW c \in Watched, Motion!Stop(c)
  PROVE  MotionInv'
<1> DEFINE i == monitors[c]
           was == state[c][i]
           m == [was EXCEPT !.stopping = TRUE]
<1>1. i \in Motion!Ids
  BY DEF Motion!Stop, MotionInv, MotionTypes, Motion!Ids
<1>2. {"process", "online", "stopping"} \subseteq DOMAIN was
  BY <1>1 DEF MotionInv, MotionTypes
<1>3. {"process", "online", "stopping"} \subseteq DOMAIN m /\ m.stopping
  <2> HIDE DEF was
  <2>1. QED
    BY <1>2
<1>4. state' = [state EXCEPT ![c] = [state[c] EXCEPT ![i] = m]]
  BY DEF Motion!Stop, MotionInv, MotionTypes
<1>6. monitors' = [monitors EXCEPT ![c] = 0] /\ UNCHANGED <<started, told>>
  BY DEF Motion!Stop, MotionInv, MotionTypes
<1>9. \A j \in Motion!Ids : state[c][j].process = "running" /\ ~state[c][j].stopping => j = i
  BY DEF MotionInv, OneMonitor
<1> HIDE DEF i, m
<1>5. /\ DOMAIN state' = Watched /\ \A d \in Watched : DOMAIN state'[d] = Motion!Ids
      /\ \A d \in Watched, j \in Motion!Ids :
           state'[d][j] = IF d = c /\ j = i THEN m ELSE state[d][j]
      /\ \A d \in Watched, j \in Motion!Ids :
           {"process", "online", "stopping"} \subseteq DOMAIN state'[d][j]
  BY <1>1, <1>3, <1>4, OnlyThis DEF MotionInv
<1>7. OneMonitor'
  BY <1>3, <1>5, <1>6, <1>9 DEF MotionInv, MotionTypes, OneMonitor
<1>8. OnlineIsTold'
  BY <1>5, <1>6
  DEF MotionInv, MotionTypes, OnlineIsTold, Motion!OnlineIsTold, Motion!Current, Motion!Ids
<1> QED
  BY <1>5, <1>6, <1>7, <1>8, MonitorsAssumption DEF MotionInv, MotionTypes

\* Every step of the monitors and of what is configured keeps MotionInv, and so does the
\* end of the gateway.
LEMMA MotionKeeps ==
  ASSUME MotionInv, MotionStep \/ Motion!Restart \/ UNCHANGED motion
  PROVE  MotionInv'
<1>1. CASE UNCHANGED motion
  BY <1>1
  DEF motion, MotionInv, MotionTypes, OneMonitor, OnlineIsTold, Motion!OnlineIsTold,
      Motion!Current
<1>2. CASE Motion!Restart
  <2>1. /\ monitors' = [c \in Watched |-> 0] /\ UNCHANGED <<started, told>>
        /\ state' = [c \in Watched |-> [i \in Motion!Ids |-> Motion!NoMonitor]]
    BY <1>2 DEF Motion!Restart
  <2>2. MotionTypes' /\ OneMonitor'
    BY <2>1, MonitorsAssumption DEF Motion!NoMonitor, MotionInv, MotionTypes, OneMonitor
  <2>3. OnlineIsTold'
    BY <2>1 DEF OnlineIsTold, Motion!OnlineIsTold
  <2> QED
    BY <2>2, <2>3 DEF MotionInv
<1>3. CASE \/ SyncMonitors \/ CloudWrites
           \/ Motion!Stopped \/ Motion!SyncEnds \/ \E c \in Watched : Motion!Keep(c)
  <2>1. UNCHANGED <<monitors, started, state, told>>
    BY <1>3 DEF SyncMonitors, CloudWrites, Motion!Stopped, Motion!SyncEnds, Motion!Keep,
       Motion!SyncStart, Motion!CloudStep, Motion!Configure, Motion!IngestConnectivity,
       Motion!IngestHealth, Motion!manager
  <2> QED
    BY <2>1
    DEF MotionInv, MotionTypes, OneMonitor, OnlineIsTold, Motion!OnlineIsTold, Motion!Current
<1>4. CASE \E c \in Watched : Motion!Stop(c) \/ Motion!Start(c)
  BY <1>4, StopKeeps, StartKeeps
<1>5. CASE MonitorRuns
  BY <1>5, FrameKeeps, FinalizeKeeps DEF MonitorRuns, Motion!MonitorStep
<1> QED
  BY <1>1, <1>2, <1>3, <1>4, <1>5 DEF MotionStep, Motion!SyncStep

\* Nothing is monitored at first.
LEMMA MotionStarts ==
  ASSUME Motion!Init
  PROVE  MotionInv
BY MonitorsAssumption
DEF Motion!Init, Motion!NoMonitor, MotionInv, MotionTypes, OneMonitor, OnlineIsTold,
    Motion!OnlineIsTold, Motion!Current
------------------------------------------------------------------------------
(* The gateway as one process *)

\* The inductive invariant of the gateway.
GatewayInv == PipelinesInv /\ CapturesInv /\ MotionInv

\* Whatever the streams do, in the main loop or beside it.
LEMMA StreamStepKeeps ==
  ASSUME PipelinesInv, StreamStep
  PROVE  PipelinesInv'
<1>1. ASSUME NEW batch \in SUBSET Commands, ReceiveBatch(batch)
      PROVE  PipelinesInv'
  BY <1>1, AgentElseKeeps DEF ReceiveBatch
<1>2. ASSUME NEW s \in Sessions, RunStreamCommand(s)
      PROVE  PipelinesInv'
  BY <1>2, RunBatchKeeps DEF RunStreamCommand
<1>3. ASSUME NEW a \in Acks, SendAck(a)
      PROVE  PipelinesInv'
  BY <1>3, AgentElseKeeps DEF SendAck
<1>4. ASSUME CaptureCommandThrows
      PROVE  PipelinesInv'
  BY <1>4, AgentElseKeeps DEF CaptureCommandThrows
<1> QED
  BY <1>1, <1>2, <1>3, <1>4, AgentElseKeeps DEF StreamStep

\* Every step of the gateway keeps all three parts, its end included.
LEMMA GatewayKeeps ==
  ASSUME GatewayInv, [AgentNext]_<<agent, captures, motion>>
  PROVE  GatewayInv'
<1> USE DEF GatewayInv
<1>1. CASE StreamStep /\ UNCHANGED <<captures, motion>>
  BY <1>1, StreamStepKeeps, CapturesKeep, MotionKeeps
<1>2. CASE CaptureStep /\ UNCHANGED <<agent, motion>>
  BY <1>2, AgentElseKeeps, CapturesKeep, MotionKeeps
<1>3. CASE MotionStep /\ UNCHANGED <<agent, captures>>
  BY <1>3, AgentElseKeeps, CapturesKeep, MotionKeeps
<1>4. CASE Shutdown
  BY <1>4, AgentElseKeeps, CapturesKeep, MotionKeeps DEF Shutdown
<1>5. CASE UNCHANGED <<agent, captures, motion>>
  BY <1>5, AgentElseKeeps, CapturesKeep, MotionKeeps
<1> QED
  BY <1>1, <1>2, <1>3, <1>4, <1>5 DEF AgentNext

\* Its invariant holds for ever.
LEMMA GatewayInductive == AgentSpec => []GatewayInv
<1>1. AgentInit => GatewayInv
  BY PipelinesStart, CapturesStart, MotionStarts DEF AgentInit, GatewayInv
<1>2. GatewayInv /\ [AgentNext]_<<agent, captures, motion>> => GatewayInv'
  BY GatewayKeeps
<1> QED
  BY <1>1, <1>2, PTL DEF AgentSpec

\* Whatever redeliveries, failed starts, exits of ffmpeg, captures and restarts come in
\* between: the pipelines of the gateway are those its sessions view, within the limit.
THEOREM PipelinesAreServed == AgentSpec => []PipelinesServed
<1>1. GatewayInv => PipelinesServed
  BY DEF GatewayInv, PipelinesInv
<1> QED
  BY <1>1, GatewayInductive, PTL

\* Whatever flushes overlap, uploads fail and restarts come: what the gateway captured is
\* uploaded, or still queued as a whole, until its TTL ends it; unless its metadata is just
\* being written, or was cut off by a restart or by another that wrote it at the same time.
THEOREM CapturesAreKept == AgentSpec => []CapturesKept
<1>1. GatewayInv => CapturesKept
  BY CapturesPromised DEF GatewayInv
<1> QED
  BY <1>1, GatewayInductive, PTL

\* Each file in staging has a purpose, until the gateway restarts or captures something twice.
THEOREM StagingIsOwned == AgentSpec => []StagingOwned
<1>1. GatewayInv => StagingOwned
  BY CapturesPromised DEF GatewayInv
<1> QED
  BY <1>1, GatewayInductive, PTL

\* Whatever monitors are started, stopped and restarted: of a camera whose picture arrives the
\* API was told that it is online.
THEOREM PictureIsTold == AgentSpec => []OnlineIsTold
<1>1. GatewayInv => OnlineIsTold
  BY DEF GatewayInv, MotionInv
<1> QED
  BY <1>1, GatewayInductive, PTL
==============================================================================
