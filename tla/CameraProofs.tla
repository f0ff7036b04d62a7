---------------------------- MODULE CameraProofs ----------------------------
(***************************************************************************)
(* Proofs about CameraHealth for any runtimes, handlers, notices and       *)
(* bounds: what is recorded of a camera gets newer, nothing is recorded of *)
(* one that is disabled, and the last event tells its status.              *)
(*                                                                         *)
(* And about CameraOnboarding for any requests, sessions, submissions,     *)
(* names and bounds: what the parts promise - the verification and the     *)
(* counter of cameras, the gateway's queue, the discovery that reports     *)
(* through it, and the catalogue - in steps of one another.                *)
(***************************************************************************)
EXTENDS CameraHealth, CameraOnboarding, FiniteSetTheorems, TLAPS

\* Runtimes never know a generation that is still to come.
RuntimesFit ==
  /\ \A r \in Runtimes : runtime[r].generation <= camera.generation
  /\ \A r \in Runtimes : runtime[r].checking => runtime[r].generation # 0
  /\ current # None => runtime[current].generation # 0

\* A runtime counts what it observes.
By(n) == runtime[observations[n].by]
Counted ==
  /\ \A n \in DOMAIN observations :
       /\ observations[n].generation = By(n).generation
       /\ observations[n].sequence <= By(n).sequence
  /\ \A m, n \in DOMAIN observations :
       m < n /\ observations[m].by = observations[n].by
         => observations[m].sequence < observations[n].sequence

\* The row has the sequence of what it records, and what is of a newer generation was
\* observed later.
RowFits ==
  camera.checkedAt # 0 =>
    /\ camera.checkedAt \in DOMAIN observations
    /\ camera.sequence = observations[camera.checkedAt].sequence
    /\ \A n \in DOMAIN observations :
         observations[n].generation = camera.generation
           /\ observations[camera.checkedAt].generation # camera.generation
         => camera.checkedAt < n

\* A handler that is to record an observation of this generation has found the camera
\* in service, and it still is, or was removed.
JobFits(job) ==
  job.pc \in MessageSteps =>
    /\ job.of \in DOMAIN observations
    /\ job.pc = "update" /\ observations[job.of].generation = camera.generation
         => camera.active \/ camera.deleted
    /\ job.pc = "event" => observations[job.of].status # "OTHER"
HandlersFit == \A h \in Handlers : JobFits(work[h])

\* The inductive invariant.
IInv == TypeOK /\ RuntimesFit /\ Counted /\ RowFits /\ HandlersFit

NewerStep == CountedOnce => camera'.checkedAt >= camera.checkedAt
DisabledStep == ~camera.active /\ ~camera.deleted => camera'.checkedAt = camera.checkedAt

USE BoundsAssumption, NamesAssumption DEF MessageSteps
-----------------------------------------------------------------------------
\* A camera that was just created has recorded nothing, and nothing was observed.
LEMMA InitIInv == Init => IInv
  <1> SUFFICES ASSUME Init  PROVE IInv
    OBVIOUS
  <1> USE DEF Init
  <1>1. camera \in Camera
    BY DEF Camera, Statuses
  <1>2. TypeOK
    <2>1. runtime \in [Runtimes -> Runtime]
      BY DEF Runtime, Unused
    <2>2. observations \in Seq(Observation)
          /\ events \in Seq([of : Nat \cup Notices, type : {"ONLINE", "OFFLINE"}])
      OBVIOUS
    <2>3. work \in [Handlers -> Work \cup {Idle}]
      OBVIOUS
    <2>. QED  BY <1>1, <2>1, <2>2, <2>3 DEF TypeOK
  <1>3. RuntimesFit
    BY DEF RuntimesFit, Unused
  <1>4. Counted
    BY DEF Counted
  <1>5. RowFits /\ HandlersFit
    BY DEF RowFits, HandlersFit, JobFits, Idle
  <1>. QED  BY <1>2, <1>3, <1>4, <1>5 DEF IInv

\* A handler that is not idle has a job of one of the kinds there are.
LEMMA WorkType ==
  ASSUME TypeOK, NEW h \in Handlers, work[h].pc # "idle"
  PROVE  work[h] \in Work
  BY DEF TypeOK, Idle

\* An observation bears the generation and number of the runtime it was made by.
LEMMA ObservedType ==
  ASSUME TypeOK, NEW n \in DOMAIN observations
  PROVE  observations[n] \in Observation /\ observations[n].by \in Runtimes
         /\ observations[n].generation \in Nat \ {0} /\ observations[n].sequence \in Nat \ {0}
         /\ By(n) \in Runtime /\ By(n).generation \in Nat /\ By(n).sequence \in Nat
         /\ n \in Nat \ {0}
  <1>1. observations[n] \in Observation /\ n \in Nat \ {0}
    BY DEF TypeOK
  <1>2. observations[n].by \in Runtimes
    BY <1>1 DEF Observation
  <1>3. By(n) \in Runtime
    BY <1>2 DEF TypeOK, By
  <1>. QED  BY <1>1, <1>2, <1>3 DEF Observation, Runtime

\* What a message is about.
LEMMA SeenType ==
  ASSUME IInv, NEW h \in Handlers, work[h].pc \in MessageSteps
  PROVE  work[h].of \in DOMAIN observations /\ work[h].of \in Nat \ {0}
         /\ Seen(h) \in Observation
  BY DEF IInv, HandlersFit, JobFits, TypeOK, Seen

\* A change of the camera that leaves its health alone: either it stays as it is, or
\* no handler is up to date any more.
Unrelated ==
  /\ camera' \in Camera
  /\ camera'.checkedAt = camera.checkedAt /\ camera'.sequence = camera.sequence
  /\ \/ /\ camera'.generation = camera.generation
        /\ camera.active \/ camera.deleted => camera'.active \/ camera'.deleted
     \/ camera'.generation = camera.generation + 1

\* What becomes of the invariant when the gateway does nothing.
LEMMA UnrelatedFits ==
  ASSUME IInv, UNCHANGED gateway, Unrelated
  PROVE  /\ RuntimesFit' /\ Counted' /\ RowFits'
         /\ \A job : JobFits(job) => JobFits(job)'
         /\ NewerStep /\ DisabledStep
  <1> USE DEF gateway, Unrelated
  <1>1. RuntimesFit' /\ Counted'
    <2>1. \A r \in Runtimes : runtime[r].generation \in Nat
      BY DEF IInv, TypeOK, Runtime
    <2>. QED  BY <2>1 DEF IInv, RuntimesFit, Counted, By, TypeOK, Camera
  <1>2. \A n \in DOMAIN observations : observations[n].generation <= camera.generation
    BY ObservedType DEF IInv, RuntimesFit, Counted, By
  <1>3. RowFits'
    BY <1>2 DEF IInv, RowFits, TypeOK, Camera, Observation
  <1>4. \A job : JobFits(job) => JobFits(job)'
    BY <1>2 DEF IInv, JobFits, TypeOK, Camera, Observation
  <1>5. NewerStep /\ DisabledStep
    BY DEF NewerStep, DisabledStep, IInv, TypeOK, Camera
  <1>. QED  BY <1>1, <1>3, <1>4, <1>5

\* The handler goes on to a job that fits, and the others stay.
LEMMA GoesOn ==
  ASSUME IInv, NEW h \in Handlers, NEW job \in Work \cup {Idle},
         work' = [work EXCEPT ![h] = job], rough' \in BOOLEAN,
         JobFits(job), \A j : JobFits(j) => JobFits(j)'
  PROVE  /\ work' \in [Handlers -> Work \cup {Idle}]
         /\ rough' \in BOOLEAN
         /\ HandlersFit'
  <1>1. work' \in [Handlers -> Work \cup {Idle}] /\ work'[h] = job
        /\ \A g \in Handlers : g # h => work'[g] = work[g]
    BY DEF IInv, TypeOK
  <1>2. \A g \in Handlers : JobFits(work[g])'
    BY <1>1 DEF IInv, HandlersFit, JobFits
  <1>. QED  BY <1>1, <1>2 DEF HandlersFit

\* So a step of a handler that leaves the camera's health alone keeps the invariant.
LEMMA HandlerStepFits ==
  ASSUME IInv, NEW h \in Handlers, NEW job \in Work \cup {Idle},
         work' = [work EXCEPT ![h] = job], rough' \in BOOLEAN,
         UNCHANGED gateway, Unrelated, ledger' \subseteq Nat,
         events' \in Seq([of : Nat \cup Notices, type : {"ONLINE", "OFFLINE"}]),
         JobFits(job)
  PROVE  IInv' /\ NewerStep /\ DisabledStep
  <1>1. /\ RuntimesFit' /\ Counted' /\ RowFits'
        /\ \A j : JobFits(j) => JobFits(j)'
        /\ NewerStep /\ DisabledStep
    BY UnrelatedFits
  <1>2. /\ work' \in [Handlers -> Work \cup {Idle}] /\ rough' \in BOOLEAN /\ HandlersFit'
    BY <1>1, GoesOn
  <1>3. TypeOK'
    BY <1>2 DEF IInv, TypeOK, gateway, Unrelated
  <1>. QED  BY <1>1, <1>2, <1>3 DEF IInv

\* The message that begins is recorded once: what comes again ends here.
LEMMA ReceiveFits ==
  ASSUME IInv, NEW h \in Handlers, Receive(h)
  PROVE  IInv' /\ NewerStep /\ DisabledStep
  <1> USE DEF Receive, At, Goto, Finish, cloud
  <1>1. work[h].of \in DOMAIN observations /\ work[h].of \in Nat
    BY SeenType
  <1>2. Unrelated /\ rough' \in BOOLEAN
        /\ events' \in Seq([of : Nat \cup Notices, type : {"ONLINE", "OFFLINE"}])
    BY DEF Unrelated, IInv, TypeOK
  <1>3. ledger' \subseteq Nat
    BY <1>1 DEF IInv, TypeOK
  <1>4. CASE work' = [work EXCEPT ![h] = Idle]
    BY <1>2, <1>3, <1>4, HandlerStepFits DEF JobFits, Idle
  <1>5. CASE work' = [work EXCEPT ![h] = [pc |-> "find", of |-> work[h].of]]
    <2> DEFINE job == [pc |-> "find", of |-> work[h].of]
    <2>1. job \in Work \cup {Idle}
      BY <1>1 DEF Work
    <2>2. JobFits(job)
      BY <1>1 DEF JobFits
    <2>3. work' = [work EXCEPT ![h] = job]
      BY <1>5
    <2>. HIDE DEF job
    <2>. QED  BY <1>2, <1>3, <2>1, <2>2, <2>3, HandlerStepFits
  <1>. QED  BY <1>4, <1>5

\* An observation goes on only if the camera is in service and it is newer than the row.
LEMMA FindCameraFits ==
  ASSUME IInv, NEW h \in Handlers, FindCamera(h)
  PROVE  IInv' /\ NewerStep /\ DisabledStep
  <1> USE DEF FindCamera, At, Goto, Finish
  <1>1. work[h].of \in DOMAIN observations /\ work[h].of \in Nat
    BY SeenType
  <1>2. /\ Unrelated /\ rough' \in BOOLEAN /\ ledger' \subseteq Nat
        /\ events' \in Seq([of : Nat \cup Notices, type : {"ONLINE", "OFFLINE"}])
    BY DEF Unrelated, IInv, TypeOK
  <1>3. CASE work' = [work EXCEPT ![h] = Idle]
    BY <1>2, <1>3, HandlerStepFits DEF JobFits, Idle
  <1>4. CASE InService
             /\ work' = [work EXCEPT ![h] = [pc |-> "update", of |-> work[h].of,
                                            previous |-> camera.status]]
    <2> DEFINE job == [pc |-> "update", of |-> work[h].of, previous |-> camera.status]
    <2>1. job \in Work \cup {Idle}
      BY <1>1 DEF Work, IInv, TypeOK, Camera
    <2>2. JobFits(job)
      BY <1>1, <1>4 DEF JobFits, InService
    <2>3. work' = [work EXCEPT ![h] = job]
      BY <1>4
    <2>. HIDE DEF job
    <2>. QED  BY <1>2, <2>1, <2>2, <2>3, HandlerStepFits
  <1>. QED  BY <1>3, <1>4

\* The steps after which the handler has nothing more to do.
LEMMA EndFits ==
  ASSUME IInv, NEW h \in Handlers, NEW active \in BOOLEAN,
         Die(h) \/ Ignore(h) \/ WriteEvent(h) \/ WriteNotice(h) \/ SetStatus(h, active)
           \/ Retry(h) \/ UpdateCredentials(h)
  PROVE  IInv' /\ NewerStep /\ DisabledStep
  <1> USE DEF At, Goto, Finish
  <1>1. work' = [work EXCEPT ![h] = Idle] /\ UNCHANGED gateway /\ ledger' \subseteq Nat
        /\ rough' \in BOOLEAN
    BY DEF Die, Ignore, WriteEvent, WriteNotice, SetStatus, Retry, UpdateCredentials, IInv, TypeOK
  <1>2. events' \in Seq([of : Nat \cup Notices, type : {"ONLINE", "OFFLINE"}])
    <2>1. CASE WriteEvent(h)
      <3>1. Seen(h) \in Observation /\ work[h].of \in Nat /\ Seen(h).status # "OTHER"
        BY <2>1, SeenType DEF WriteEvent, IInv, HandlersFit, JobFits, Seen
      <3>2. [of |-> work[h].of, type |-> Seen(h).status]
              \in [of : Nat \cup Notices, type : {"ONLINE", "OFFLINE"}]
        BY <3>1 DEF Observation, Statuses
      <3>. QED  BY <2>1, <3>2 DEF WriteEvent, IInv, TypeOK
    <2>2. CASE WriteNotice(h)
      <3>1. work[h].of \in Notices
        BY <2>2, WorkType DEF WriteNotice, IInv, Work
      <3>2. [of |-> work[h].of, type |-> TypeOf(work[h].of)]
              \in [of : Nat \cup Notices, type : {"ONLINE", "OFFLINE"}]
        BY <3>1 DEF TypeOf
      <3>3. \/ events' = events
            \/ events' = Append(events, [of |-> work[h].of, type |-> TypeOf(work[h].of)])
        BY <2>2 DEF WriteNotice
      <3>4. events \in Seq([of : Nat \cup Notices, type : {"ONLINE", "OFFLINE"}])
        BY DEF IInv, TypeOK
      <3> DEFINE new == [of |-> work[h].of, type |-> TypeOf(work[h].of)]
                 Event == [of : Nat \cup Notices, type : {"ONLINE", "OFFLINE"}]
      <3> HIDE DEF new, Event
      <3>5. new \in Event /\ events \in Seq(Event)
            /\ (events' = events \/ events' = Append(events, new))
        BY <3>2, <3>3, <3>4 DEF new, Event
      <3>6. events' \in Seq(Event)
        BY <3>5
      <3>. QED  BY <3>6 DEF Event
    <2>. QED  BY <2>1, <2>2 DEF Die, Ignore, SetStatus, Retry, UpdateCredentials, IInv, TypeOK
  <1>3. Unrelated
    <2> USE DEF Unrelated, IInv, TypeOK, Camera, Statuses
    <2>0. camera \in Camera /\ camera.generation + 1 \in Nat \ {0}
      OBVIOUS
    <2>1. CASE Die(h) \/ Ignore(h) \/ WriteEvent(h)
      BY <2>1 DEF Die, Ignore, WriteEvent
    <2>2. CASE WriteNotice(h)
      <3>1. \/ camera' = camera
            \/ camera' = [camera EXCEPT !.status = TypeOf(work[h].of)]
        BY <2>2 DEF WriteNotice
      <3>2. TypeOf(work[h].of) \in Statuses
        BY DEF TypeOf
      <3>. QED  BY <3>1, <3>2
    <2>3. CASE SetStatus(h, active)
      <3>1. camera' = [camera EXCEPT !.active = active, !.status = "OTHER", !.generation = @ + 1]
        BY <2>3 DEF SetStatus
      <3>2. camera' \in Camera
        BY <2>0, <3>1
      <3>3. camera'.generation = camera.generation + 1 /\ camera'.checkedAt = camera.checkedAt
            /\ camera'.sequence = camera.sequence
        BY <3>1
      <3>. QED  BY <3>2, <3>3
    <2>4. CASE Retry(h)
      BY <2>4 DEF Retry
    <2>5. CASE UpdateCredentials(h)
      <3>1. camera' = [camera EXCEPT !.status = "OTHER", !.generation = @ + 1]
        BY <2>5 DEF UpdateCredentials
      <3>2. camera' \in Camera
        BY <2>0, <3>1
      <3>3. camera'.generation = camera.generation + 1 /\ camera'.checkedAt = camera.checkedAt
            /\ camera'.sequence = camera.sequence
        BY <3>1
      <3>. QED  BY <3>2, <3>3
    <2>. QED  BY <2>1, <2>2, <2>3, <2>4, <2>5
  <1>4. JobFits(Idle)
    BY DEF JobFits, Idle
  <1>. QED  BY <1>1, <1>2, <1>3, <1>4, HandlerStepFits

\* The steps that a handler begins with.
LEMMA BeginFits ==
  ASSUME IInv, NEW h \in Handlers, NEW job \in Work, JobFits(job), Begin(h, job),
         UNCHANGED <<camera, ledger, events, gateway>>
  PROVE  IInv' /\ NewerStep /\ DisabledStep
  <1>1. work' = [work EXCEPT ![h] = job] /\ rough' \in BOOLEAN /\ UNCHANGED gateway
    BY DEF Begin, IInv, TypeOK
  <1>2. /\ Unrelated /\ ledger' \subseteq Nat
        /\ events' \in Seq([of : Nat \cup Notices, type : {"ONLINE", "OFFLINE"}])
    BY DEF Unrelated, IInv, TypeOK
  <1>. QED  BY <1>1, <1>2, HandlerStepFits

\* Requests and messages that begin change no row, and have read it as it is.
LEMMA StartFits ==
  ASSUME IInv, NEW h \in Handlers,
         \/ FindUndeleted(h) \/ FindActive(h)
         \/ \E n \in 1 .. MaxObservations : Send(h, n)
         \/ \E e \in Notices : FindNotice(h, e)
  PROVE  IInv' /\ NewerStep /\ DisabledStep
  <1>1. CASE FindUndeleted(h) \/ FindActive(h)
    BY <1>1, BeginFits DEF FindUndeleted, FindActive, JobFits, Work
  <1>2. ASSUME NEW n \in 1 .. MaxObservations, Send(h, n)
        PROVE  IInv' /\ NewerStep /\ DisabledStep
    BY <1>2, BeginFits DEF Send, JobFits, Work
  <1>3. ASSUME NEW e \in Notices, FindNotice(h, e)
        PROVE  IInv' /\ NewerStep /\ DisabledStep
    BY <1>3, BeginFits DEF FindNotice, JobFits, Work
  <1>. QED  BY <1>1, <1>2, <1>3

\* A message that is recorded is of the row's generation, and has more than its sequence;
\* so when runtimes count once in a generation, what the row had was observed before.
LEMMA UpdateFits ==
  ASSUME IInv, NEW h \in Handlers, Update(h)
  PROVE  IInv' /\ NewerStep /\ DisabledStep
  <1> USE DEF Update, At
  <1> DEFINE n == work[h].of
  <1>1. n \in DOMAIN observations /\ n \in Nat \ {0} /\ Seen(h) \in Observation
    BY SeenType
  <1>2. UNCHANGED gateway /\ rough' \in BOOLEAN /\ ledger' \subseteq Nat
        /\ events' \in Seq([of : Nat \cup Notices, type : {"ONLINE", "OFFLINE"}])
    BY DEF Goto, Finish, IInv, TypeOK
  <1>3. PICK job \in Work \cup {Idle} :
          /\ work' = [work EXCEPT ![h] = job]
          /\ JobFits(job)
    <2>1. CASE work' = [work EXCEPT ![h] = Idle]
      <3>1. JobFits(Idle)
        BY DEF JobFits, Idle
      <3>. QED  BY <2>1, <3>1
    <2>2. CASE Transition(h) /\ work' = [work EXCEPT ![h] = [pc |-> "event", of |-> work[h].of]]
      <3>1. [pc |-> "event", of |-> work[h].of] \in Work
        BY <1>1 DEF Work
      <3>2. JobFits([pc |-> "event", of |-> work[h].of])
        BY <1>1, <2>2 DEF JobFits, Transition, Seen
      <3>. QED  BY <2>2, <3>1, <3>2
    <2>3. CASE Newer(h) /\ Transition(h)
      <3>1. Goto(h, [pc |-> "event", of |-> work[h].of])
        BY <2>3
      <3>. QED  BY <2>2, <2>3, <3>1 DEF Goto
    <2>4. CASE ~(Newer(h) /\ Transition(h))
      <3>1. Finish(h)
        BY <2>4
      <3>. QED  BY <2>1, <3>1 DEF Goto, Finish
    <2>. QED  BY <2>3, <2>4
  <1>4. CASE camera' = camera
    <2>1. Unrelated
      BY <1>4 DEF Unrelated, IInv, TypeOK
    <2>. QED  BY <1>2, <1>3, <2>1, HandlerStepFits
  <1>5. CASE Newer(h) /\ camera' = Recorded(camera, work[h].of)
    <2>1. /\ camera' \in Camera
          /\ camera'.checkedAt = n /\ camera'.sequence = observations[n].sequence
          /\ camera'.generation = camera.generation
          /\ camera'.active = camera.active /\ camera'.deleted = camera.deleted
      BY <1>1, <1>5 DEF Recorded, Seen, IInv, TypeOK, Camera, Observation
    <2>2. observations[n].generation = camera.generation
          /\ observations[n].sequence > camera.sequence
      BY <1>5 DEF Newer, Seen
    <2>3. RuntimesFit' /\ Counted' /\ RowFits'
      <3>1. RuntimesFit' /\ Counted'
        BY <1>2, <2>1 DEF gateway, IInv, RuntimesFit, Counted, By
      <3>2. RowFits'
        BY <1>1, <1>2, <2>1, <2>2 DEF gateway, RowFits
      <3>. QED  BY <3>1, <3>2
    <2>4. \A j : JobFits(j) => JobFits(j)'
      BY <1>2, <2>1 DEF JobFits, gateway
    <2>5. /\ work' \in [Handlers -> Work \cup {Idle}] /\ rough' \in BOOLEAN /\ HandlersFit'
      BY <1>2, <1>3, <2>4, GoesOn
    <2>6. TypeOK'
      BY <1>2, <2>1, <2>5 DEF IInv, TypeOK, gateway
    <2>7. NewerStep
      <3> SUFFICES ASSUME CountedOnce, camera.checkedAt # 0, camera.checkedAt # n
                   PROVE  camera.checkedAt < n
        BY <1>1, <2>1 DEF NewerStep, IInv, TypeOK, Camera
      <3> DEFINE m == camera.checkedAt
      <3>1. m \in DOMAIN observations /\ camera.sequence = observations[m].sequence
        BY DEF IInv, RowFits
      <3>2. CASE observations[m].generation # camera.generation
        BY <1>1, <2>2, <3>2 DEF IInv, RowFits
      <3>3. CASE observations[m].generation = camera.generation
        <4>1. By(m).generation = camera.generation /\ By(n).generation = camera.generation
              /\ observations[m].by \in Runtimes /\ observations[n].by \in Runtimes
          BY <1>1, <2>2, <3>1, <3>3, ObservedType DEF IInv, Counted
        <4>2. observations[m].by = observations[n].by
          BY <4>1 DEF CountedOnce, By
        <4>3. m \in Nat /\ n \in Nat /\ observations[m].sequence \in Nat
              /\ observations[n].sequence \in Nat
          BY <1>1, <3>1, ObservedType DEF IInv
        <4>4. n < m => observations[n].sequence < observations[m].sequence
          BY <1>1, <3>1, <4>2 DEF IInv, Counted
        <4>. QED  BY <2>2, <3>1, <4>3, <4>4
      <3>. QED  BY <3>2, <3>3
    <2>8. DisabledStep
      BY <2>2 DEF DisabledStep, IInv, HandlersFit, JobFits
    <2>. QED  BY <2>3, <2>5, <2>6, <2>7, <2>8 DEF IInv
  <1>. QED  BY <1>4, <1>5

\* The changes of the camera that no handler makes.
LEMMA CameraFits ==
  ASSUME IInv, Remove \/ Test
  PROVE  IInv' /\ NewerStep /\ DisabledStep
  <1>1. UNCHANGED gateway /\ UNCHANGED <<ledger, events, work>> /\ rough' \in BOOLEAN
    BY DEF Remove, Test, IInv, TypeOK
  <1>2. Unrelated
    <2> USE DEF Unrelated, IInv, TypeOK, Camera
    <2>1. CASE Remove
      BY <2>1 DEF Remove
    <2>2. CASE Test
      <3>1. PICK status \in Statuses : camera' = [camera EXCEPT !.status = status]
        BY <2>2 DEF Test
      <3>. QED  BY <3>1
    <2>. QED  BY <2>1, <2>2
  <1>3. /\ RuntimesFit' /\ Counted' /\ RowFits'
        /\ \A j : JobFits(j) => JobFits(j)'
        /\ NewerStep /\ DisabledStep
    BY <1>1, <1>2, UnrelatedFits
  <1>4. TypeOK'
    BY <1>1, <1>2 DEF IInv, TypeOK, gateway, Unrelated
  <1>5. HandlersFit'
    BY <1>1, <1>3 DEF IInv, HandlersFit, JobFits
  <1>. QED  BY <1>3, <1>4, <1>5 DEF IInv

\* The steps of the gateway, which the handlers do not see.
LEMMA RuntimesChange ==
  ASSUME IInv, UNCHANGED <<cloud, observations>>,
         runtime' \in [Runtimes -> Runtime], current' \in Runtimes \cup {None},
         RuntimesFit',
         \A r \in Runtimes :
           /\ runtime'[r].sequence = runtime[r].sequence
           /\ runtime[r].generation # 0 => runtime'[r].generation = runtime[r].generation
  PROVE  IInv' /\ NewerStep /\ DisabledStep
  <1> USE DEF cloud
  <1>1. TypeOK'
    BY DEF IInv, TypeOK
  <1>2. \A n \in DOMAIN observations :
          observations[n].by \in Runtimes /\ By(n).generation # 0
    BY ObservedType DEF IInv, Counted
  <1>3. Counted'
    BY <1>2 DEF IInv, Counted, By
  <1>4. RowFits' /\ HandlersFit'
    BY DEF IInv, RowFits, HandlersFit, JobFits
  <1>5. NewerStep /\ DisabledStep
    BY DEF NewerStep, DisabledStep, IInv, TypeOK, Camera
  <1>. QED  BY <1>1, <1>3, <1>4, <1>5 DEF IInv

\* The gateway gives a generation to one runtime, or to a fresh one after a restart, and
\* none of this is known to the API yet.
LEMMA GatewayFits ==
  ASSUME IInv, Sync \/ Unregister \/ Check \/ Restart
  PROVE  IInv' /\ NewerStep /\ DisabledStep
  <1>1. CASE \E r \in Runtimes :
               /\ runtime[r] = Unused
               /\ runtime' = [runtime EXCEPT ![r].generation = camera.generation]
               /\ current' = r
               /\ UNCHANGED <<cloud, observations>>
    <2>1. PICK r \in Runtimes :
            /\ runtime[r] = Unused
            /\ runtime' = [runtime EXCEPT ![r].generation = camera.generation]
            /\ current' = r
      BY <1>1
    <2>2. camera.generation \in Nat \ {0} /\ runtime \in [Runtimes -> Runtime]
      BY DEF IInv, TypeOK, Camera
    <2>3. runtime'[r] = [generation |-> camera.generation, sequence |-> 0, checking |-> FALSE]
          /\ \A q \in Runtimes : q # r => runtime'[q] = runtime[q]
      <3>1. runtime'[r] = [Unused EXCEPT !.generation = camera.generation]
            /\ \A q \in Runtimes : q # r => runtime'[q] = runtime[q]
        BY <2>1, <2>2
      <3>. QED  BY <3>1 DEF Unused
    <2>4. runtime' \in [Runtimes -> Runtime]
      BY <2>1, <2>2 DEF Runtime
    <2>5. \A q \in Runtimes :
            /\ runtime'[q].sequence = runtime[q].sequence
            /\ runtime[q].generation # 0 => runtime'[q].generation = runtime[q].generation
      BY <2>1, <2>3 DEF Unused
    <2>6. RuntimesFit'
      BY <1>1, <2>1, <2>2, <2>3 DEF IInv, RuntimesFit, cloud
    <2>. QED  BY <1>1, <2>1, <2>4, <2>5, <2>6, RuntimesChange
  <1>2. CASE UNCHANGED <<cloud, observations, runtime>> /\ current' = None
    <2>1. RuntimesFit'
      BY <1>2 DEF IInv, RuntimesFit, cloud
    <2>. QED  BY <1>2, <2>1, RuntimesChange DEF IInv, TypeOK
  <1>3. CASE Check
    <2>1. current \in Runtimes /\ runtime \in [Runtimes -> Runtime]
      BY <1>3 DEF Check, IInv, TypeOK
    <2>2. /\ runtime' \in [Runtimes -> Runtime]
          /\ \A r \in Runtimes :
               /\ runtime'[r].sequence = runtime[r].sequence
               /\ runtime'[r].generation = runtime[r].generation
               /\ runtime'[r].checking => runtime[r].checking \/ r = current
      BY <1>3, <2>1 DEF Check, Runtime
    <2>3. RuntimesFit'
      BY <1>3, <2>1, <2>2 DEF Check, IInv, RuntimesFit, cloud
    <2>. QED  BY <1>3, <2>1, <2>2, <2>3, RuntimesChange DEF Check
  <1>4. CASE Restart
    <2>1. runtime \in [Runtimes -> Runtime]
      BY DEF IInv, TypeOK
    <2>2. /\ runtime' \in [Runtimes -> Runtime]
          /\ \A r \in Runtimes :
               /\ runtime'[r].sequence = runtime[r].sequence
               /\ runtime'[r].generation = runtime[r].generation
               /\ ~runtime'[r].checking
      BY <1>4, <2>1 DEF Restart, Runtime
    <2>3. RuntimesFit'
      BY <1>4, <2>2 DEF Restart, IInv, RuntimesFit, cloud
    <2>. QED  BY <1>4, <2>2, <2>3, RuntimesChange DEF Restart
  <1>. QED  BY <1>1, <1>2, <1>3, <1>4 DEF Sync, Unregister

\* A runtime numbers what it observes, so its observations are newer the larger the number.
LEMMA ObserveFits ==
  ASSUME IInv, NEW r \in Runtimes, Observe(r)
  PROVE  IInv' /\ NewerStep /\ DisabledStep
  <1> USE DEF Observe, cloud
  <1>1. PICK status \in Statuses :
          observations' = Append(observations,
                                 [by |-> r, generation |-> runtime[r].generation,
                                  sequence |-> runtime[r].sequence + 1, status |-> status])
    OBVIOUS
  <1>2. runtime \in [Runtimes -> Runtime] /\ observations \in Seq(Observation)
        /\ runtime[r].generation \in Nat \ {0} /\ runtime[r].sequence \in Nat
    BY DEF IInv, TypeOK, Runtime, RuntimesFit
  <1> DEFINE last == Len(observations) + 1
             new == [by |-> r, generation |-> runtime[r].generation,
                     sequence |-> runtime[r].sequence + 1, status |-> status]
  <1>3. new \in Observation
    BY <1>2 DEF Observation
  <1>4. /\ observations' \in Seq(Observation)
        /\ last \notin DOMAIN observations
        /\ DOMAIN observations' = DOMAIN observations \cup {last}
        /\ observations'[last] = new
        /\ \A n \in DOMAIN observations :
             n \in Nat /\ n < last /\ observations'[n] = observations[n]
    BY <1>1, <1>2, <1>3
  <1>5. /\ runtime' \in [Runtimes -> Runtime]
        /\ runtime'[r].sequence = runtime[r].sequence + 1
        /\ \A q \in Runtimes :
             /\ runtime'[q].generation = runtime[q].generation
             /\ q # r => runtime'[q] = runtime[q]
             /\ runtime'[q].checking => runtime[q].checking
    BY <1>2 DEF Runtime
  <1>6. TypeOK'
    BY <1>4, <1>5 DEF IInv, TypeOK
  <1>7. RuntimesFit'
    BY <1>5 DEF IInv, RuntimesFit, TypeOK
  <1>8. Counted'
    <2>1. \A n \in DOMAIN observations :
            /\ observations[n].by \in Runtimes
            /\ observations[n].sequence \in Nat /\ By(n).sequence \in Nat
            /\ observations[n].generation = By(n).generation
            /\ observations[n].sequence <= By(n).sequence
      BY ObservedType DEF IInv, Counted
    <2>2. \A n \in DOMAIN observations' :
            /\ observations'[n].generation = runtime'[observations'[n].by].generation
            /\ observations'[n].sequence <= runtime'[observations'[n].by].sequence
      BY <1>2, <1>4, <1>5, <2>1 DEF By
    <2>3. \A m, n \in DOMAIN observations' :
            (m < n /\ observations'[m].by = observations'[n].by)
              => observations'[m].sequence < observations'[n].sequence
      <3> SUFFICES ASSUME NEW m \in DOMAIN observations', NEW n \in DOMAIN observations',
                          m < n, observations'[m].by = observations'[n].by
                   PROVE  observations'[m].sequence < observations'[n].sequence
        OBVIOUS
      <3>1. m \in DOMAIN observations
        BY <1>2, <1>4
      <3>2. CASE n = last
        BY <1>2, <1>4, <2>1, <3>1, <3>2 DEF By
      <3>3. CASE n \in DOMAIN observations
        BY <1>4, <3>1, <3>3 DEF IInv, Counted
      <3>. QED  BY <1>4, <3>2, <3>3
    <2>. QED  BY <2>2, <2>3 DEF Counted, By
  <1>9. RowFits'
    BY <1>2, <1>4 DEF IInv, RowFits
  <1>10. HandlersFit'
    BY <1>4 DEF IInv, HandlersFit, JobFits
  <1>11. NewerStep /\ DisabledStep
    BY DEF NewerStep, DisabledStep, IInv, TypeOK, Camera
  <1>. QED  BY <1>6, <1>7, <1>8, <1>9, <1>10, <1>11 DEF IInv
-----------------------------------------------------------------------------
\* Every step keeps the invariant, goes back to no older observation, and records none of
\* a camera that is disabled.
LEMMA IInvStep == IInv /\ [Next]_vars => IInv' /\ NewerStep /\ DisabledStep
  <1> SUFFICES ASSUME IInv, [Next]_vars
               PROVE  IInv' /\ NewerStep /\ DisabledStep
    OBVIOUS
  <1>1. ASSUME NEW h \in Handlers, HandlerStep(h)
        PROVE  IInv' /\ NewerStep /\ DisabledStep
    <2>1. CASE FindUndeleted(h) \/ FindActive(h)
               \/ (\E n \in 1 .. MaxObservations : Send(h, n))
               \/ (\E e \in Notices : FindNotice(h, e))
      BY <2>1, StartFits
    <2>2. CASE Receive(h)
      BY <2>2, ReceiveFits
    <2>3. CASE FindCamera(h)
      BY <2>3, FindCameraFits
    <2>4. CASE Update(h)
      BY <2>4, UpdateFits
    <2>5. CASE Die(h) \/ Ignore(h) \/ WriteEvent(h) \/ WriteNotice(h) \/ Retry(h)
               \/ UpdateCredentials(h) \/ (\E active \in BOOLEAN : SetStatus(h, active))
      BY <2>5, EndFits
    <2>. QED  BY <1>1, <2>1, <2>2, <2>3, <2>4, <2>5 DEF HandlerStep
  <1>2. CASE Remove \/ Test
    BY <1>2, CameraFits
  <1>3. CASE Sync \/ Unregister \/ Check \/ Restart
    BY <1>3, GatewayFits
  <1>4. ASSUME NEW r \in Runtimes, Observe(r)
        PROVE  IInv' /\ NewerStep /\ DisabledStep
    BY <1>4, ObserveFits
  <1>5. CASE UNCHANGED vars
    <2> USE DEF vars, cloud, gateway
    <2>1. TypeOK' /\ RuntimesFit' /\ Counted'
      BY <1>5 DEF IInv, TypeOK, RuntimesFit, Counted, By
    <2>2. RowFits' /\ HandlersFit'
      BY <1>5 DEF IInv, RowFits, HandlersFit, JobFits
    <2>3. NewerStep /\ DisabledStep
      BY <1>5 DEF NewerStep, DisabledStep, IInv, TypeOK, Camera
    <2>. QED  BY <2>1, <2>2, <2>3 DEF IInv
  <1>. QED  BY <1>1, <1>2, <1>3, <1>4, <1>5 DEF Next

\* In every execution the row, messages and handlers are of their types.
THEOREM TypeCorrect == Spec => []TypeOK
  <1>1. IInv => TypeOK
    BY DEF IInv
  <1>. QED  BY InitIInv, IInvStep, <1>1, PTL DEF Spec

\* For any handlers and any number of restarts, messages and generations, the row never
\* goes back to an older observation while one runtime counts the generation.
THEOREM GetsNewer == Spec => NewerOnly
  <1>1. IInv /\ [Next]_vars => [CountedOnce => camera'.checkedAt >= camera.checkedAt]_vars
    BY IInvStep DEF NewerStep
  <1>. QED  BY InitIInv, IInvStep, <1>1, PTL DEF Spec, NewerOnly

\* Nor is any observation recorded of a disabled camera, whatever was under way when it
\* was disabled.
THEOREM DisabledStays == Spec => DisabledUntouched
  <1>1. IInv /\ [Next]_vars
          => [~camera.active /\ ~camera.deleted => camera'.checkedAt = camera.checkedAt]_vars
    BY IInvStep DEF DisabledStep
  <1>. QED  BY InitIInv, IInvStep, <1>1, PTL DEF Spec, DisabledUntouched
-----------------------------------------------------------------------------
\* While nothing overlaps: who is about to record an observation has found the status
\* that the camera still has, and who is about to write an event has recorded its
\* status; otherwise the last event tells it.
Alone == \A g, h \in Handlers : work[g] # Idle /\ work[h] # Idle => g = h
StillKnown(job) ==
  /\ job.pc = "update" => job.previous = camera.status
  /\ job.pc = "event" => observations[job.of].status = camera.status
Told == events # <<>> /\ events[Len(events)].type = camera.status
EventsFit ==
  ~rough =>
    /\ Alone
    /\ \A h \in Handlers : StillKnown(work[h])
    /\ camera.status = "OTHER" \/ Told \/ \E h \in Handlers : At(h, "event")

\* What is appended is the last.
LEMMA LastIs ==
  ASSUME NEW S, NEW s \in Seq(S), NEW x
  PROVE  Append(s, x)[Len(Append(s, x))] = x /\ Append(s, x) # <<>>
  <1>1. s \in Seq(S \cup {x})
    OBVIOUS
  <1>. QED  BY <1>1

\* A step of one handler leaves the others where they are.
LEMMA WorkBecomes ==
  ASSUME IInv, NEW h \in Handlers, NEW job, work' = [work EXCEPT ![h] = job]
  PROVE  work'[h] = job /\ \A g \in Handlers \ {h} : work'[g] = work[g]
  BY DEF IInv, TypeOK

\* A step of the only handler that is busy keeps EventsFit when what it goes on to do
\* is known, and the status is told or will be.
LEMMA TellsOn ==
  ASSUME EventsFit, NEW h \in Handlers, rough' = rough, work[h] # Idle,
         \A g \in Handlers \ {h} : work'[g] = work[g],
         ~rough => /\ StillKnown(work[h])'
                   /\ camera'.status = "OTHER" \/ Told' \/ At(h, "event")'
  PROVE  EventsFit'
  <1> SUFFICES ASSUME ~rough
               PROVE  /\ Alone' /\ \A g \in Handlers : StillKnown(work[g])'
                      /\ camera'.status = "OTHER" \/ Told' \/ \E g \in Handlers : At(g, "event")'
    BY DEF EventsFit
  <1>1. \A g \in Handlers \ {h} : work'[g] = Idle
    BY DEF EventsFit, Alone
  <1>2. Alone'
    BY <1>1 DEF Alone
  <1>3. \A g \in Handlers : StillKnown(work[g])'
    BY <1>1 DEF StillKnown, Idle
  <1>. QED  BY <1>2, <1>3

\* A handler that begins when nobody is busy knows nothing of the camera yet.
LEMMA BeginTells ==
  ASSUME IInv, EventsFit, NEW h \in Handlers, NEW job, Begin(h, job),
         job.pc \notin {"update", "event"}, UNCHANGED <<camera, events, observations>>
  PROVE  EventsFit'
  <1> SUFFICES ASSUME ~rough'
               PROVE  /\ Alone' /\ \A g \in Handlers : StillKnown(work[g])'
                      /\ camera'.status = "OTHER" \/ Told' \/ \E g \in Handlers : At(g, "event")'
    BY DEF EventsFit
  <1>1. ~rough /\ \A g \in Handlers : work[g] = Idle
    BY Zenon DEF Begin
  <1>2. work'[h] = job /\ \A g \in Handlers \ {h} : work'[g] = Idle
    BY <1>1, WorkBecomes DEF Begin
  <1>3. Alone' /\ \A g \in Handlers : StillKnown(work[g])'
    BY <1>2 DEF Alone, StillKnown, Idle
  <1>4. camera.status = "OTHER" \/ Told
    BY <1>1 DEF EventsFit, At, Idle
  <1>. QED  BY <1>3, <1>4 DEF Told

\* A busy handler that ends where the status was told already, or neither ONLINE nor
\* OFFLINE.
LEMMA EndTells ==
  ASSUME IInv, EventsFit, NEW h \in Handlers, work[h] # Idle, Finish(h),
         UNCHANGED <<events, observations>>,
         camera'.status = "OTHER" \/ (camera'.status = camera.status /\ ~At(h, "event"))
  PROVE  EventsFit'
  <1>1. work'[h] = Idle /\ (\A g \in Handlers \ {h} : work'[g] = work[g]) /\ rough' = rough
    BY WorkBecomes DEF Finish, Goto
  <1>2. StillKnown(work[h])'
    BY <1>1 DEF StillKnown, Idle
  <1>3. ~rough /\ ~At(h, "event") => \A g \in Handlers : ~At(g, "event")
    BY DEF EventsFit, Alone, At, Idle
  <1>4. ~rough => camera'.status = "OTHER" \/ Told'
    BY <1>3 DEF EventsFit, Told
  <1>. QED  BY <1>1, <1>2, <1>4, TellsOn

\* Every step of a handler keeps EventsFit.
LEMMA StepTells ==
  ASSUME IInv, EventsFit, NEW h \in Handlers, HandlerStep(h)
  PROVE  EventsFit'
  <1> USE DEF gateway
  <1>1. CASE Die(h)
    BY <1>1 DEF Die, EventsFit
  <1>2. CASE \/ FindUndeleted(h) \/ FindActive(h)
             \/ \E n \in 1 .. MaxObservations : Send(h, n)
             \/ \E e \in Notices : FindNotice(h, e)
    BY <1>2, BeginTells DEF FindUndeleted, FindActive, Send, FindNotice
  <1>3. CASE \/ Ignore(h) \/ Retry(h) \/ UpdateCredentials(h)
             \/ \E active \in BOOLEAN : SetStatus(h, active)
    <2>1. Finish(h) /\ UNCHANGED <<events, observations>>
      BY <1>3 DEF Ignore, Retry, UpdateCredentials, SetStatus
    <2>3. work[h].pc \in {"find", "connect", "status"}
      BY <1>3 DEF Ignore, Retry, UpdateCredentials, SetStatus, At
    <2>2. camera'.status \in {"OTHER", camera.status}
      BY <1>3 DEF Ignore, Retry, UpdateCredentials, SetStatus, IInv, TypeOK, Camera
    <2>4. work[h] # Idle /\ ~At(h, "event")
      BY <2>3 DEF At, Idle
    <2>. QED  BY <2>1, <2>2, <2>4, EndTells
  <1>4. CASE Receive(h)
    <2>1. At(h, "received") /\ work[h] # Idle /\ UNCHANGED <<camera, events, observations>>
      BY <1>4 DEF Receive, At, Idle
    <2>2. CASE Finish(h)
      BY <2>1, <2>2, EndTells DEF At
    <2>3. CASE Goto(h, [pc |-> "find", of |-> work[h].of])
      <3>1. /\ work'[h] = [pc |-> "find", of |-> work[h].of] /\ rough' = rough
            /\ \A g \in Handlers \ {h} : work'[g] = work[g]
        BY <2>3, WorkBecomes DEF Goto
      <3>2. StillKnown(work[h])'
        BY <3>1 DEF StillKnown
      <3>3. ~rough => camera.status = "OTHER" \/ Told
        BY <2>1 DEF EventsFit, Alone, At, Idle
      <3>4. ~rough => camera'.status = "OTHER" \/ Told'
        BY <2>1, <3>3 DEF Told
      <3>. QED  BY <2>1, <3>1, <3>2, <3>4, TellsOn
    <2>. QED  BY <1>4, <2>2, <2>3 DEF Receive
  <1>5. CASE FindCamera(h)
    <2>1. At(h, "find") /\ work[h] # Idle /\ UNCHANGED <<camera, events, observations>>
      BY <1>5 DEF FindCamera, At, Idle
    <2>2. CASE Finish(h)
      BY <2>1, <2>2, EndTells DEF At
    <2>3. CASE Goto(h, [pc |-> "update", of |-> work[h].of, previous |-> camera.status])
      <3> DEFINE job == [pc |-> "update", of |-> work[h].of, previous |-> camera.status]
      <3>1. work'[h] = job /\ rough' = rough /\ \A g \in Handlers \ {h} : work'[g] = work[g]
        <4>1. work' = [work EXCEPT ![h] = job] /\ rough' = rough
          BY <2>3 DEF Goto
        <4> HIDE DEF job
        <4>. QED  BY <4>1, WorkBecomes
      <3>2. StillKnown(work[h])'
        BY <2>1, <3>1 DEF StillKnown
      <3>3. ~rough => camera.status = "OTHER" \/ Told
        BY <2>1 DEF EventsFit, Alone, At, Idle
      <3>4. ~rough => camera'.status = "OTHER" \/ Told'
        BY <2>1, <3>3 DEF Told
      <3>. QED  BY <2>1, <3>1, <3>2, <3>4, TellsOn
    <2>. QED  BY <1>5, <2>2, <2>3 DEF FindCamera
  <1>6. CASE Update(h)
    <2>1. At(h, "update") /\ work[h] # Idle /\ UNCHANGED <<events, observations>>
      BY <1>6 DEF Update, At, Idle
    <2>2. CASE ~Newer(h)
      <3>1. camera' = camera /\ Finish(h)
        BY <1>6, <2>2 DEF Update
      <3>. QED  BY <2>1, <3>1, EndTells DEF At
    <2>3. CASE Newer(h)
      <3>1. camera'.status = Seen(h).status
        BY <1>6, <2>3 DEF Update, Recorded, Seen, IInv, TypeOK, Camera
      <3>2. CASE Transition(h)
        <4>1. Goto(h, [pc |-> "event", of |-> work[h].of])
          BY <1>6, <2>3, <3>2 DEF Update
        <4>2. /\ work'[h] = [pc |-> "event", of |-> work[h].of] /\ rough' = rough
              /\ \A g \in Handlers \ {h} : work'[g] = work[g]
          BY <4>1, WorkBecomes DEF Goto
        <4>3. StillKnown(work[h])' /\ At(h, "event")'
          BY <2>1, <3>1, <4>2 DEF StillKnown, Seen, At
        <4>. QED  BY <2>1, <4>2, <4>3, TellsOn
      <3>3. CASE ~Transition(h)
        <4>1. Finish(h)
          BY <1>6, <3>3 DEF Update
        <4>2. CASE rough
          BY <4>1, <4>2 DEF Finish, Goto, EventsFit
        <4>3. CASE ~rough
          <5>1. work[h].previous = camera.status
            BY <2>1, <4>3 DEF EventsFit, StillKnown, At
          <5>2. camera'.status \in {"OTHER", camera.status}
            BY <3>1, <3>3, <5>1 DEF Transition
          <5>. QED  BY <2>1, <4>1, <5>2, EndTells DEF At
        <4>. QED  BY <4>2, <4>3
      <3>. QED  BY <3>2, <3>3
    <2>. QED  BY <2>2, <2>3
  <1>7. CASE WriteEvent(h)
    <2> DEFINE new == [of |-> work[h].of, type |-> Seen(h).status]
    <2>1. /\ At(h, "event") /\ work[h] # Idle /\ UNCHANGED <<camera, observations>>
          /\ events' = Append(events, new) /\ Finish(h)
      BY <1>7 DEF WriteEvent, At, Idle
    <2>2. work'[h] = Idle /\ (\A g \in Handlers \ {h} : work'[g] = work[g]) /\ rough' = rough
      BY <2>1, WorkBecomes DEF Finish, Goto
    <2>3. events'[Len(events')] = new /\ events' # <<>>
      <3> HIDE DEF new
      <3>. QED  BY <2>1, LastIs DEF IInv, TypeOK
    <2>4. ~rough => Told'
      BY <2>1, <2>3 DEF Told, EventsFit, StillKnown, Seen, At
    <2>5. StillKnown(work[h])'
      BY <2>2 DEF StillKnown, Idle
    <2>. QED  BY <2>1, <2>2, <2>4, <2>5, TellsOn
  <1>8. CASE WriteNotice(h)
    <2> DEFINE e == work[h].of
               new == [of |-> e, type |-> TypeOf(e)]
    <2>1. /\ At(h, "notice") /\ work[h] # Idle /\ UNCHANGED observations /\ Finish(h)
      BY <1>8 DEF WriteNotice, At, Idle
    <2>2. CASE UNCHANGED <<camera, events>>
      BY <2>1, <2>2, EndTells DEF At
    <2>3. CASE events' = Append(events, new) /\ camera' = [camera EXCEPT !.status = TypeOf(e)]
      <3>1. work'[h] = Idle /\ (\A g \in Handlers \ {h} : work'[g] = work[g]) /\ rough' = rough
        BY <2>1, WorkBecomes DEF Finish, Goto
      <3>2. events'[Len(events')] = new /\ events' # <<>>
        <4> HIDE DEF new
        <4>. QED  BY <2>3, LastIs DEF IInv, TypeOK
      <3>3. Told'
        BY <2>3, <3>2 DEF Told, IInv, TypeOK, Camera
      <3>4. StillKnown(work[h])'
        BY <3>1 DEF StillKnown, Idle
      <3>. QED  BY <2>1, <3>1, <3>3, <3>4, TellsOn
    <2>. QED  BY <1>8, <2>2, <2>3 DEF WriteNotice
  <1>. QED  BY <1>1, <1>2, <1>3, <1>4, <1>5, <1>6, <1>7, <1>8 DEF HandlerStep

\* And so does every other step: a test is rough, the rest leaves the status alone.
LEMMA EventsFitStep ==
  ASSUME IInv, EventsFit, [Next]_vars
  PROVE  EventsFit'
  <1>1. CASE Test
    BY <1>1 DEF Test, EventsFit
  <1>2. CASE \/ Remove \/ Sync \/ Unregister \/ Check \/ Restart \/ UNCHANGED vars
             \/ \E r \in Runtimes : Observe(r)
    <2>1. UNCHANGED <<work, events, rough>> /\ camera'.status = camera.status
      BY <1>2 DEF Remove, Sync, Unregister, Check, Restart, Observe, vars, cloud, gateway,
         IInv, TypeOK, Camera
    <2>2. \A n \in DOMAIN observations : observations'[n] = observations[n]
      <3>1. CASE observations' = observations
        BY <3>1
      <3>2. CASE \E new : observations' = Append(observations, new)
        BY <3>2 DEF IInv, TypeOK
      <3>. QED  BY <1>2, <3>1, <3>2 DEF Remove, Sync, Unregister, Check, Restart, Observe, vars,
                   gateway
    <2>3. \A h \in Handlers : StillKnown(work[h]) => StillKnown(work[h])'
      BY <2>1, <2>2, SeenType DEF StillKnown
    <2>. QED  BY <2>1, <2>3 DEF EventsFit, Alone, Told, At
  <1>. QED  BY <1>1, <1>2, StepTells DEF Next

\* For any handlers, messages in any order, and restarts of the gateway: the last event
\* tells whether the camera is online or offline, when nothing overlapped, no handler died
\* and no test was made.
THEOREM LastEventTells == Spec => []EventsTellStatus
  <1>1. Init => EventsFit
    BY DEF Init, EventsFit, Alone, StillKnown, Idle
  <1>2. EventsFit => EventsTellStatus
    BY DEF EventsFit, EventsTellStatus, Told
  <1>. QED  BY InitIInv, IInvStep, EventsFitStep, <1>1, <1>2, PTL DEF Spec
-----------------------------------------------------------------------------
(* CameraOnboarding: the rows of CameraVerification, and its counter *)

VerificationJobs ==
  {V!Idle} \cup [pc : {"create"}] \cup [pc : {"submit"}, v : Verifications]
    \cup [pc : {"cancel"}, v : Verifications, command : V!Numbers]
    \cup [pc : {"cleanup"}, found : SUBSET Verifications, commands : SUBSET V!Numbers]
    \cup [pc : {"ingest"}, v : Verifications, right : BOOLEAN, command : V!Submits]
SessionRows == [status : V!Statuses, command : V!Numbers, credential : V!Numbers,
                verified : V!Numbers]
CommandRows == {V!NoCommand} \cup [session : Verifications, status : {"PENDING", "GIVEN", "ENDED"}]
CameraRows == [credential : V!Numbers, verified : V!Numbers, live : BOOLEAN]
VerificationTypes ==
  /\ verifications \in [Verifications -> SessionRows]
  /\ verificationCommands \in [V!Submits -> CommandRows]
  /\ cameras \in [Verifications -> CameraRows]
  /\ verificationWork \in [Requests -> VerificationJobs]
  /\ due \subseteq Verifications /\ crossed \subseteq Verifications
CountTypes == manual \in Nat /\ leaked \in Nat /\ counter \in Nat

\* Credentials are those that were last submitted, and are kept only while they are needed.
\* What was verified is of the last submission as well, unless new credentials crossed a report.
SubmissionKnown == \A v \in Verifications :
  /\ verifications[v].credential # 0 =>
       /\ verifications[v].status \in {"DISPATCHED", "FAILED", "COMPLETED"}
       /\ verifications[v].credential = verifications[v].command
  /\ v \notin crossed => verifications[v].verified \in {0, verifications[v].command}
\* So is a report in hand.
ReportCurrent == \A h \in Requests :
  verificationWork[h].pc = "ingest" /\ verificationWork[h].v \notin crossed =>
    verifications[verificationWork[h].v].command = verificationWork[h].command
OneCamera == \A v, w \in Verifications :
  cameras[v] # V!NoCamera /\ cameras[w] # V!NoCamera => v = w
\* A camera that is there has a credential.
CamerasReal == \A v \in Verifications :
  cameras[v].live => cameras[v] # V!NoCamera
RowsInv ==
  /\ VerificationTypes /\ SubmissionKnown /\ ReportCurrent
  /\ OneCamera /\ CamerasReal /\ VerifiedCredential
VerificationInv == RowsInv /\ CountTypes /\ CamerasCounted

Row(status, command, credential, verified) ==
  [status |-> status, command |-> command, credential |-> credential, verified |-> verified]

Ending(r, status) == [r EXCEPT !.status = status, !.credential = 0]
Canceling(r) == [r EXCEPT !.status = "CANCELED", !.verified = 0, !.credential = 0]
Reporting(r, status, d) == [r EXCEPT !.status = status, !.verified = d]
Clearing(r) == [r EXCEPT !.credential = 0]

\* The row of a session after each of the updates that there are.
LEMMA RowUpdated ==
  ASSUME NEW r \in SessionRows, NEW s, NEW d
  PROVE  /\ Ending(r, s) = Row(s, r.command, 0, r.verified)
         /\ Canceling(r) = Row("CANCELED", r.command, 0, 0)
         /\ Reporting(r, s, d) = Row(s, r.command, r.credential, d)
         /\ Clearing(r) = Row(r.status, r.command, 0, r.verified)
<1>1. ASSUME NEW q PROVE [r EXCEPT !.status = q] = Row(q, r.command, r.credential, r.verified)
  BY DEF SessionRows, Row
<1>2. Ending(r, s) = Row(s, r.command, 0, r.verified)
  <2> DEFINE m == [r EXCEPT !.status = s]
             n == [m EXCEPT !.credential = 0]
  <2>1. m = Row(s, r.command, r.credential, r.verified) /\ n = Ending(r, s)
    BY <1>1 DEF Ending
  <2> HIDE DEF m
  <2>2. n = Row(s, r.command, 0, r.verified)
    BY <2>1 DEF Row
  <2> QED
    BY <2>1, <2>2
<1>3. Reporting(r, s, d) = Row(s, r.command, r.credential, d)
  <2> DEFINE m == [r EXCEPT !.status = s]
             n == [m EXCEPT !.verified = d]
  <2>1. m = Row(s, r.command, r.credential, r.verified) /\ n = Reporting(r, s, d)
    BY <1>1 DEF Reporting
  <2> HIDE DEF m
  <2>2. n = Row(s, r.command, r.credential, d)
    BY <2>1 DEF Row
  <2> QED
    BY <2>1, <2>2
<1>4. Canceling(r) = Row("CANCELED", r.command, 0, 0)
  <2> DEFINE m == [r EXCEPT !.status = "CANCELED"]
             n == [m EXCEPT !.verified = 0]
             o == [n EXCEPT !.credential = 0]
  <2>1. m = Row("CANCELED", r.command, r.credential, r.verified) /\ o = Canceling(r)
    BY <1>1 DEF Canceling
  <2> HIDE DEF m
  <2>2. n = Row("CANCELED", r.command, r.credential, 0)
    BY <2>1 DEF Row
  <2> HIDE DEF n
  <2>3. o = Row("CANCELED", r.command, 0, 0)
    BY <2>2 DEF Row
  <2> QED
    BY <2>1, <2>3
<1>5. Clearing(r) = Row(r.status, r.command, 0, r.verified)
  BY DEF SessionRows, Row, Clearing
<1> QED
  BY <1>2, <1>3, <1>4, <1>5

\* A job that begins, or ends: the others are as they were.
LEMMA JobIs ==
  ASSUME VerificationTypes, NEW h \in Requests, NEW job \in VerificationJobs, V!Turn(h, job)
  PROVE  /\ verificationWork' \in [Requests -> VerificationJobs]
         /\ \A g \in Requests : verificationWork'[g] = IF g = h THEN job ELSE verificationWork[g]
  BY DEF VerificationTypes, V!Turn

\* Reports in hand stay current as long as no command changes but that of a crossed session.
LEMMA CurrentStays ==
  ASSUME VerificationTypes, ReportCurrent, crossed \subseteq crossed',
         \A v \in Verifications \ crossed' :
           (\E h \in Requests : verificationWork[h].pc = "ingest" /\ verificationWork[h].v = v) =>
             verifications'[v].command = verifications[v].command,
         \A h \in Requests : verificationWork'[h] \in {verificationWork[h], V!Idle}
                             \/ verificationWork'[h].pc # "ingest"
  PROVE  ReportCurrent'
<1> SUFFICES ASSUME NEW h \in Requests, verificationWork'[h].pc = "ingest",
                    verificationWork'[h].v \notin crossed'
             PROVE  verifications'[verificationWork'[h].v].command = verificationWork'[h].command
  BY DEF ReportCurrent
<1>1. verificationWork'[h] = verificationWork[h]
  BY DEF V!Idle
<1>2. verificationWork[h].v \in Verifications
  BY <1>1 DEF VerificationTypes, VerificationJobs, V!Idle
<1> QED
  BY <1>1, <1>2 DEF ReportCurrent

\* An operation that only has requests begin or end, or commands move, keeps the rows.
LEMMA RowsRest ==
  ASSUME RowsInv, UNCHANGED <<verifications, cameras, crossed>>,
         verificationCommands' \in [V!Submits -> CommandRows],
         due' \subseteq Verifications, verificationWork' \in [Requests -> VerificationJobs],
         \A h \in Requests : verificationWork'[h] \in {verificationWork[h], V!Idle}
                             \/ verificationWork'[h].pc # "ingest"
  PROVE  RowsInv'
<1> USE DEF RowsInv
<1>1. VerificationTypes'
  BY DEF VerificationTypes
<1>2. ReportCurrent'
  BY CurrentStays
<1>3. SubmissionKnown' /\ OneCamera' /\ CamerasReal' /\ VerifiedCredential'
  BY DEF SubmissionKnown, OneCamera, CamerasReal, VerifiedCredential, V!VerifiedCredential
<1> QED
  BY <1>1, <1>2, <1>3

\* Commands that end are of their type.
LEMMA EndedTypes ==
  ASSUME VerificationTypes, NEW ks
  PROVE  V!Ended(ks) \in [V!Submits -> CommandRows]
<1>1. \A k \in V!Submits : verificationCommands[k].status = "PENDING" =>
        [verificationCommands[k] EXCEPT !.status = "ENDED"] \in CommandRows
  BY DEF VerificationTypes, CommandRows, V!NoCommand
<1> QED
  BY <1>1 DEF VerificationTypes, V!Ended

\* An operation that moves sessions without a new camera keeps the rows.
LEMMA RowsMove ==
  ASSUME RowsInv, UNCHANGED <<cameras, due>>,
         verificationCommands' \in [V!Submits -> CommandRows],
         verifications' \in [Verifications -> SessionRows],
         crossed \subseteq crossed', crossed' \subseteq Verifications,
         SubmissionKnown',
         \A v \in Verifications \ crossed' :
           (\E h \in Requests : verificationWork[h].pc = "ingest" /\ verificationWork[h].v = v) =>
             verifications'[v].command = verifications[v].command,
         verificationWork' \in [Requests -> VerificationJobs],
         \A h \in Requests : verificationWork'[h] \in {verificationWork[h], V!Idle}
                             \/ verificationWork'[h].pc # "ingest"
  PROVE  RowsInv'
<1> USE DEF RowsInv
<1>1. VerificationTypes'
  BY DEF VerificationTypes
<1>2. ReportCurrent'
  BY CurrentStays
<1>3. OneCamera' /\ CamerasReal' /\ VerifiedCredential'
  BY DEF OneCamera, CamerasReal, VerifiedCredential, V!VerifiedCredential
<1> QED
  BY <1>1, <1>2, <1>3

\* Requests that begin, and what they read.
LEMMA ReadsKeepRows ==
  ASSUME RowsInv,
         \/ \E v \in Verifications : V!Due(v)
         \/ \E k \in V!Submits : V!Take(k) \/ V!CommandEnds(k)
         \/ \E h \in Requests, v \in Verifications : V!SubmitRead(h, v) \/ V!CancelRead(h, v)
         \/ \E h \in Requests :
              V!CreateReserve(h) \/ V!CreateWrite(h) \/ V!CreateFails(h) \/ V!Die(h)
         \/ V!RemoveManual
  PROVE  RowsInv'
<1> USE DEF RowsInv
<1>1. ASSUME NEW v \in Verifications, V!Due(v) PROVE RowsInv'
  BY <1>1, RowsRest DEF V!Due, VerificationTypes, V!stock
<1>2. ASSUME NEW k \in V!Submits, V!Take(k) PROVE RowsInv'
  <2>1. [verificationCommands[k] EXCEPT !.status = "GIVEN"] \in CommandRows
    BY <1>2 DEF V!Take, VerificationTypes, CommandRows, V!NoCommand
  <2>2. verificationCommands' \in [V!Submits -> CommandRows]
    BY <1>2, <2>1 DEF V!Take, VerificationTypes
  <2> QED
    BY <1>2, <2>2, RowsRest DEF V!Take, VerificationTypes, V!stock
<1>3. ASSUME NEW k \in V!Submits, V!CommandEnds(k) PROVE RowsInv'
  BY <1>3, RowsRest, EndedTypes DEF V!CommandEnds, VerificationTypes, V!stock
<1>4. ASSUME NEW h \in Requests, NEW v \in Verifications, V!SubmitRead(h, v) PROVE RowsInv'
  <2> DEFINE job == [pc |-> "submit", v |-> v]
  <2>1. job \in VerificationJobs /\ job.pc # "ingest"
    BY DEF VerificationJobs
  <2>2. V!Turn(h, job) /\ UNCHANGED <<verifications, due, verificationCommands, crossed, cameras>>
    BY <1>4 DEF V!SubmitRead, V!Begin, V!Turn, V!stock
  <2> HIDE DEF job
  <2> QED
    BY <2>1, <2>2, JobIs, RowsRest DEF VerificationTypes
<1>5. ASSUME NEW h \in Requests, NEW v \in Verifications, V!CancelRead(h, v) PROVE RowsInv'
  <2> DEFINE job == [pc |-> "cancel", v |-> v, command |-> verifications[v].command]
  <2>1. job \in VerificationJobs /\ job.pc # "ingest"
    BY DEF VerificationJobs, VerificationTypes, SessionRows
  <2>2. V!Turn(h, job) /\ UNCHANGED <<verifications, due, verificationCommands, crossed, cameras>>
    BY <1>5 DEF V!CancelRead, V!Begin, V!Turn, V!stock
  <2> HIDE DEF job
  <2> QED
    BY <2>1, <2>2, JobIs, RowsRest DEF VerificationTypes
<1>6. ASSUME NEW h \in Requests, NEW job \in {V!Idle} \cup [pc : {"create"}], V!Turn(h, job),
             UNCHANGED <<verifications, due, verificationCommands, crossed, cameras>>
      PROVE  RowsInv'
  <2>1. job \in VerificationJobs /\ job.pc # "ingest"
    BY DEF VerificationJobs, V!Idle
  <2> QED
    BY <1>6, <2>1, JobIs, RowsRest DEF VerificationTypes
<1>7. ASSUME NEW h \in Requests, V!CreateReserve(h) PROVE RowsInv'
  BY <1>6, <1>7 DEF V!CreateReserve, V!Begin, V!Turn
<1>8. ASSUME NEW h \in Requests, V!CreateWrite(h) \/ V!CreateFails(h) \/ V!Die(h) PROVE RowsInv'
  BY <1>6, <1>8 DEF V!CreateWrite, V!CreateFails, V!Die, V!Finish
<1>9. ASSUME V!RemoveManual PROVE RowsInv'
  BY <1>9, RowsRest DEF V!RemoveManual, VerificationTypes
<1> QED
  BY <1>1, <1>2, <1>3, <1>4, <1>5, <1>7, <1>8, <1>9

\* A session that is started, or canceled.
LEMMA StartKeepsRows ==
  ASSUME RowsInv, NEW v \in Verifications, V!Start(v)
  PROVE  RowsInv'
<1> USE DEF RowsInv
<1> DEFINE m == [verifications[v] EXCEPT !.status = "WAITING"]
<1>1. verifications' = [verifications EXCEPT ![v] = m]
  BY DEF V!Start, VerificationTypes
<1>2. m \in SessionRows
      /\ m.command = verifications[v].command
      /\ m.verified = verifications[v].verified /\ m.credential = 0
  BY DEF V!Start, V!Status, VerificationTypes, SubmissionKnown, V!Statuses, SessionRows
<1> HIDE DEF m
<1>3. \A u \in Verifications : verifications'[u] = IF u = v THEN m ELSE verifications[u]
  BY <1>1 DEF VerificationTypes
<1>4. SubmissionKnown'
  <2>1. crossed' = crossed
    BY DEF V!Start, V!stock
  <2>2. ASSUME NEW u \in Verifications, u # v
        PROVE  verifications'[u] = verifications[u]
    BY <1>3, <2>2
  <2>3. verifications'[v] = m
    BY <1>3
  <2> QED
    BY <1>2, <2>1, <2>2, <2>3 DEF SubmissionKnown
<1>5. \A u \in Verifications : verifications'[u].command = verifications[u].command
  BY <1>2, <1>3
<1>6. verifications' \in [Verifications -> SessionRows]
  BY <1>1, <1>2 DEF VerificationTypes
<1> QED
  BY <1>4, <1>5, <1>6, RowsMove DEF V!Start, V!stock, VerificationTypes

\* A request that cancels writes by id, and takes what was verified with the credentials.
LEMMA CancelKeepsRows ==
  ASSUME RowsInv, NEW h \in Requests, V!Cancel(h)
  PROVE  RowsInv'
<1> USE DEF RowsInv
<1>1. PICK v, k : v = verificationWork[h].v /\ k = verificationWork[h].command
  OBVIOUS
<1> DEFINE m == [verifications[v] EXCEPT !.status = "CANCELED", !.verified = 0, !.credential = 0]
<1>2. v \in Verifications /\ verifications' = [verifications EXCEPT ![v] = m]
  BY <1>1 DEF V!Cancel, V!At, VerificationTypes, VerificationJobs, V!Idle
<1>3. m \in SessionRows
      /\ m.command = verifications[v].command /\ m.verified = 0 /\ m.credential = 0
  <2>1. verifications[v] \in SessionRows
    BY <1>2 DEF VerificationTypes
  <2>2. "CANCELED" \in V!Statuses /\ 0 \in V!Numbers
    BY VerificationsAssumption DEF V!Statuses, V!Numbers
  <2>3. m = Row("CANCELED", verifications[v].command, 0, 0)
    BY <2>1, RowUpdated DEF Canceling
  <2> HIDE DEF m
  <2> QED
    BY <2>1, <2>2, <2>3 DEF Row, SessionRows
<1> HIDE DEF m
<1>4. \A u \in Verifications : verifications'[u] = IF u = v THEN m ELSE verifications[u]
  BY <1>2 DEF VerificationTypes
<1>5. SubmissionKnown'
  <2>1. crossed' = crossed
    BY DEF V!Cancel
  <2>2. ASSUME NEW u \in Verifications, u # v
        PROVE  verifications'[u] = verifications[u]
    BY <1>4, <2>2
  <2>3. verifications'[v] = m
    BY <1>2, <1>4
  <2> QED
    BY <1>3, <2>1, <2>2, <2>3 DEF SubmissionKnown
<1>6. \A u \in Verifications : verifications'[u].command = verifications[u].command
  BY <1>3, <1>4
<1>7. verifications' \in [Verifications -> SessionRows]
  BY <1>2, <1>3 DEF VerificationTypes
<1>8. /\ V!Turn(h, V!Idle) /\ verificationCommands' = V!Ended({k})
      /\ UNCHANGED <<due, crossed, cameras>>
  BY <1>1 DEF V!Cancel, V!Finish, V!stock
<1>9. V!Idle \in VerificationJobs
  BY DEF VerificationJobs
<1> QED
  BY <1>5, <1>6, <1>7, <1>8, <1>9, EndedTypes, JobIs, RowsMove DEF VerificationTypes

\* New credentials: what was verified is forgotten, and a report in hand is crossed.
LEMMA SubmitKeepsRows ==
  ASSUME RowsInv, NEW h \in Requests, NEW k \in V!Submits, V!Submit(h, k)
  PROVE  RowsInv'
<1> USE DEF RowsInv
<1>1. PICK v : v = verificationWork[h].v
  OBVIOUS
<1> DEFINE m == [status |-> "DISPATCHED", command |-> k, credential |-> k, verified |-> 0]
<1>2. /\ v \in Verifications /\ verifications' = [verifications EXCEPT ![v] = m]
      /\ crossed' = IF V!InHand(v) THEN crossed \cup {v} ELSE crossed
      /\ verificationCommands'
           = [verificationCommands EXCEPT ![k] = [session |-> v, status |-> "PENDING"]]
      /\ V!Turn(h, V!Idle) /\ UNCHANGED <<due, cameras>>
  BY <1>1 DEF V!Submit, V!At, VerificationTypes, VerificationJobs, V!Idle, V!Finish, V!stock
<1>3. m \in SessionRows
  BY VerificationsAssumption DEF V!Statuses, V!Numbers, V!Submits, SessionRows
<1>4. \A u \in Verifications : verifications'[u] = IF u = v THEN m ELSE verifications[u]
  BY <1>2 DEF VerificationTypes
<1>5. SubmissionKnown'
  BY <1>2, <1>4 DEF SubmissionKnown
<1>6. \A u \in Verifications \ crossed' :
           (\E g \in Requests : verificationWork[g].pc = "ingest" /\ verificationWork[g].v = u) =>
             verifications'[u].command = verifications[u].command
  BY <1>2, <1>4 DEF V!InHand, V!At
<1>7. verifications' \in [Verifications -> SessionRows]
  BY <1>2, <1>3 DEF VerificationTypes
<1>8. verificationCommands' \in [V!Submits -> CommandRows]
  BY <1>2 DEF VerificationTypes, CommandRows
<1>9. V!Idle \in VerificationJobs /\ crossed \subseteq crossed' /\ crossed' \subseteq Verifications
  BY <1>2 DEF VerificationJobs, VerificationTypes
<1> HIDE DEF m
<1> QED
  BY <1>2, <1>5, <1>6, <1>7, <1>8, <1>9, JobIs, RowsMove

\* The clean-up takes credentials away.
LEMMA CleanupKeepsRows ==
  ASSUME RowsInv, NEW h \in Requests, V!CleanupRead(h) \/ V!Cleanup(h)
  PROVE  RowsInv'
<1> USE DEF RowsInv
<1>1. \A v \in Verifications :
        \/ verifications'[v] = verifications[v]
        \/ \E s \in V!Statuses :
             verifications'[v] = Row(s, verifications[v].command, 0, verifications[v].verified)
  <2>1. "EXPIRED" \in V!Statuses /\ 0 \in V!Numbers
    BY VerificationsAssumption DEF V!Statuses, V!Numbers
  <2> TAKE v \in Verifications
  <2>2. verifications[v] \in SessionRows /\ verifications[v].status \in V!Statuses
    BY DEF VerificationTypes, SessionRows
  <2>3. verifications'[v] \in {verifications[v], Clearing(verifications[v]),
                               Ending(verifications[v], "EXPIRED")}
    BY DEF V!CleanupRead, V!Cleanup, Clearing, Ending
  <2>4. /\ Clearing(verifications[v])
           = Row(verifications[v].status, verifications[v].command, 0, verifications[v].verified)
        /\ Ending(verifications[v], "EXPIRED")
           = Row("EXPIRED", verifications[v].command, 0, verifications[v].verified)
    BY <2>2, RowUpdated
  <2> QED
    BY <2>1, <2>2, <2>3, <2>4
<1>2. \A v \in Verifications :
        /\ verifications'[v] \in SessionRows
        /\ verifications'[v].command = verifications[v].command
        /\ verifications'[v].verified = verifications[v].verified
        /\ \/ verifications'[v].credential = 0
           \/ verifications'[v] = verifications[v]
  <2> TAKE v \in Verifications
  <2>1. verifications[v] \in SessionRows /\ 0 \in V!Numbers
    BY VerificationsAssumption DEF VerificationTypes, V!Numbers
  <2>2. verifications[v] = verifications'[v] \/ \E s \in V!Statuses :
             verifications'[v] = Row(s, verifications[v].command, 0, verifications[v].verified)
    BY <1>1
  <2>3. ASSUME NEW r \in SessionRows, NEW s \in V!Statuses PROVE
          LET q == Row(s, r.command, 0, r.verified) IN
          q \in SessionRows /\ q.command = r.command /\ q.verified = r.verified /\ q.credential = 0
    BY <2>1 DEF Row, SessionRows
  <2> QED
    BY <2>1, <2>2, <2>3
<1>3. verifications' \in [Verifications -> SessionRows]
  <2>1. verifications' = [v \in Verifications |-> verifications'[v]]
    BY DEF V!CleanupRead, V!Cleanup
  <2> QED
    BY <1>2, <2>1
<1>4. UNCHANGED <<due, crossed, cameras>>
  BY DEF V!CleanupRead, V!Cleanup, V!stock
<1>5. SubmissionKnown'
  BY <1>2, <1>4 DEF SubmissionKnown
<1>6. verificationCommands' \in [V!Submits -> CommandRows]
  <2>1. CASE V!CleanupRead(h)
    BY <2>1 DEF V!CleanupRead, VerificationTypes
  <2>2. CASE V!Cleanup(h)
    BY <2>2, EndedTypes DEF V!Cleanup
  <2> QED
    BY <2>1, <2>2
<1>7. PICK job \in VerificationJobs : V!Turn(h, job) /\ job.pc # "ingest"
  <2>1. CASE V!CleanupRead(h)
    <3> DEFINE job == [pc |-> "cleanup", found |-> V!Expirable,
                       commands |-> {verifications[v].command : v \in V!Expirable}]
    <3>1. V!Expirable \subseteq Verifications
      BY DEF V!Expirable, VerificationTypes
    <3>2. {verifications[v].command : v \in V!Expirable} \subseteq V!Numbers
      BY <3>1 DEF VerificationTypes, SessionRows
    <3>3. job \in VerificationJobs /\ V!Idle \in VerificationJobs /\ V!Idle.pc # "ingest"
      BY <3>1, <3>2 DEF VerificationJobs, V!Idle
    <3>4. V!Turn(h, V!Idle) \/ V!Turn(h, job)
      BY <2>1 DEF V!CleanupRead, V!Begin, V!Turn
    <3> QED
      BY <3>3, <3>4
  <2>2. CASE V!Cleanup(h)
    <3>1. V!Idle \in VerificationJobs /\ V!Idle.pc # "ingest"
      BY DEF VerificationJobs, V!Idle
    <3> QED
      BY <2>2, <3>1 DEF V!Cleanup, V!Finish
  <2> QED
    BY <2>1, <2>2
<1> QED
  BY <1>2, <1>3, <1>4, <1>5, <1>6, <1>7, JobIs, RowsMove DEF VerificationTypes

\* A report that is read is of the command the session waits for; when it is written the
\* session waits for it still, unless it was crossed.
LEMMA IngestKeepsRows ==
  ASSUME RowsInv, NEW h \in Requests,
         \/ \E k \in V!Submits, right \in BOOLEAN : V!IngestRead(h, k, right)
         \/ V!IngestWrite(h)
  PROVE  RowsInv'
<1> USE DEF RowsInv
<1>1. ASSUME NEW k \in V!Submits, NEW right \in BOOLEAN, V!IngestRead(h, k, right)
      PROVE  RowsInv'
  <2>1. PICK v : v = verificationCommands[k].session
    OBVIOUS
  <2> DEFINE job == [pc |-> "ingest", v |-> v, command |-> k, right |-> right]
  <2>2. /\ verificationCommands[k] # V!NoCommand /\ verificationCommands[k].status = "GIVEN"
        /\ verifications[v].command = k /\ V!Turn(h, job)
        /\ UNCHANGED <<verifications, due, verificationCommands, crossed, cameras>>
    BY <1>1, <2>1 DEF V!IngestRead, V!Receive, V!Begin, V!Turn, V!stock
  <2>3. v \in Verifications
    BY <2>1, <2>2 DEF VerificationTypes, CommandRows
  <2> QED
    <3>1. job \in VerificationJobs
      BY <2>3 DEF VerificationJobs
    <3>2. /\ verificationWork' \in [Requests -> VerificationJobs]
          /\ \A g \in Requests : verificationWork'[g] = IF g = h THEN job ELSE verificationWork[g]
      <4> HIDE DEF job
      <4> QED
        BY <2>2, <3>1, JobIs
    <3>3. VerificationTypes'
      BY <2>2, <3>2 DEF VerificationTypes
    <3>4. ReportCurrent'
      BY <2>2, <3>2 DEF ReportCurrent
    <3>5. SubmissionKnown' /\ OneCamera' /\ CamerasReal' /\ VerifiedCredential'
      BY <2>2 DEF SubmissionKnown, OneCamera, CamerasReal, VerifiedCredential,
         V!VerifiedCredential
    <3> QED
      BY <3>3, <3>4, <3>5
<1>2. CASE V!IngestWrite(h)
  <2>1. PICK v, k, right : /\ v = verificationWork[h].v /\ k = verificationWork[h].command
                           /\ right = verificationWork[h].right
    OBVIOUS
  <2> DEFINE m == [verifications[v] EXCEPT !.status = IF right THEN "COMPLETED" ELSE "FAILED",
                                           !.verified = IF right THEN k ELSE 0]
  <2>2. /\ verificationWork[h].pc = "ingest" /\ v \in Verifications /\ k \in V!Submits
        /\ right \in BOOLEAN
    BY <1>2, <2>1 DEF V!IngestWrite, V!At, VerificationTypes, VerificationJobs, V!Idle
  <2>3. verifications' = [verifications EXCEPT ![v] = m]
    BY <1>2, <2>1, <2>2 DEF V!IngestWrite, VerificationTypes
  <2>4. /\ m \in SessionRows
        /\ m.command = verifications[v].command /\ m.credential = verifications[v].credential
        /\ m.verified \in {0, k} /\ m.status \in {"COMPLETED", "FAILED"}
    <3>1. verifications[v] \in SessionRows
      BY <2>2 DEF VerificationTypes
    <3>2. "COMPLETED" \in V!Statuses /\ "FAILED" \in V!Statuses /\ 0 \in V!Numbers
          /\ k \in V!Numbers
      BY <2>2, VerificationsAssumption DEF V!Statuses, V!Numbers, V!Submits
    <3>3. PICK s, d : /\ s = IF right THEN "COMPLETED" ELSE "FAILED"
                      /\ d = IF right THEN k ELSE 0
      OBVIOUS
    <3>4. m = Reporting(verifications[v], s, d)
      BY <3>3 DEF Reporting
    <3>5. m = Row(s, verifications[v].command, verifications[v].credential, d)
      BY <3>1, <3>4, RowUpdated
    <3> HIDE DEF m
    <3> QED
      BY <3>1, <3>2, <3>3, <3>5 DEF Row, SessionRows
  <2> HIDE DEF m
  <2>5. \A u \in Verifications : verifications'[u] = IF u = v THEN m ELSE verifications[u]
    BY <2>2, <2>3 DEF VerificationTypes
  <2>6. /\ V!Turn(h, V!Idle) /\ verificationCommands' = V!Ended({k})
        /\ UNCHANGED <<due, crossed, cameras>>
    BY <1>2, <2>1 DEF V!IngestWrite, V!Finish, V!stock
  <2>7. v \notin crossed => verifications[v].command = k
    BY <2>1, <2>2 DEF ReportCurrent
  <2>8. SubmissionKnown'
    BY <2>4, <2>5, <2>6, <2>7 DEF SubmissionKnown
  <2>9. verifications' \in [Verifications -> SessionRows]
    BY <2>3, <2>4 DEF VerificationTypes
  <2>10. V!Idle \in VerificationJobs
    BY DEF VerificationJobs
  <2>11. \A u \in Verifications : verifications'[u].command = verifications[u].command
    BY <2>4, <2>5
  <2> QED
    BY <2>6, <2>8, <2>9, <2>10, <2>11, EndedTypes, JobIs, RowsMove DEF VerificationTypes
<1> QED
  BY <1>1, <1>2

\* The session's one camera has the credential that was verified.
LEMMA CamerasKeepRows ==
  ASSUME RowsInv, NEW v \in Verifications, V!Complete(v) \/ V!RemoveCamera(v)
  PROVE  RowsInv'
<1> USE DEF RowsInv
<1>1. CASE V!Complete(v)
  <2> DEFINE row == verifications[v]
             m == [row EXCEPT !.status = "CONSUMED", !.credential = 0]
             made == [credential |-> row.credential, verified |-> row.verified, live |-> TRUE]
  <2>1. row \in SessionRows
        /\ row.verified # 0 /\ row.credential # 0
    BY <1>1 DEF V!Complete, V!MayComplete, VerificationTypes
  <2>2. /\ verifications' = [verifications EXCEPT ![v] = m]
        /\ cameras' = [cameras EXCEPT ![v] = made]
        /\ verificationCommands' = V!Ended({row.command})
        /\ UNCHANGED <<due, verificationWork, crossed>>
        /\ \A u \in Verifications : cameras[u] = V!NoCamera
    BY <1>1 DEF V!Complete, V!MakeCamera, V!Registered, VerificationTypes
  <2>3. /\ row.credential = row.command
        /\ v \notin crossed => row.verified = row.credential
    BY <2>1 DEF SubmissionKnown
  <2>4. /\ m \in SessionRows
        /\ m.command = row.command /\ m.credential = 0 /\ m.verified = row.verified
    <3>1. "CONSUMED" \in V!Statuses /\ 0 \in V!Numbers
      BY VerificationsAssumption DEF V!Statuses, V!Numbers
    <3>2. m = Row("CONSUMED", row.command, 0, row.verified)
      BY <2>1, RowUpdated DEF Ending
    <3> HIDE DEF m
    <3> QED
      BY <2>1, <3>1, <3>2 DEF Row, SessionRows
  <2>5. made \in CameraRows
        /\ made # V!NoCamera /\ (v \notin crossed => made.credential = made.verified)
    <3>1. made.credential = row.credential /\ V!NoCamera.credential = 0
      BY DEF V!NoCamera
    <3>2. made \in CameraRows
      BY <2>1 DEF CameraRows, SessionRows
    <3> QED
      BY <2>1, <2>3, <3>1, <3>2
  <2> HIDE DEF m, made
  <2>6. \A u \in Verifications :
          /\ verifications'[u] = IF u = v THEN m ELSE verifications[u]
          /\ cameras'[u] = IF u = v THEN made ELSE cameras[u]
    BY <2>2 DEF VerificationTypes
  <2>7. VerificationTypes'
    BY <2>2, <2>4, <2>5, EndedTypes DEF VerificationTypes
  <2>8. SubmissionKnown'
    BY <2>2, <2>4, <2>6 DEF SubmissionKnown
  <2>9. ReportCurrent'
    BY <2>2, <2>4, <2>6, CurrentStays
  <2>10. OneCamera' /\ CamerasReal' /\ VerifiedCredential'
    BY <2>2, <2>5, <2>6 DEF OneCamera, CamerasReal, VerifiedCredential, V!VerifiedCredential
  <2> QED
    BY <2>7, <2>8, <2>9, <2>10
<1>2. CASE V!RemoveCamera(v)
  <2> DEFINE made == [cameras[v] EXCEPT !.live = FALSE]
  <2>1. /\ cameras[v].live /\ cameras' = [cameras EXCEPT ![v] = made]
        /\ UNCHANGED <<verifications, due, verificationCommands, verificationWork, crossed>>
    BY <1>2 DEF V!RemoveCamera, VerificationTypes
  <2>2. /\ made \in CameraRows
        /\ ~made.live /\ cameras[v] # V!NoCamera
        /\ made.credential = cameras[v].credential /\ made.verified = cameras[v].verified
    BY <2>1 DEF VerificationTypes, CamerasReal, CameraRows
  <2> HIDE DEF made
  <2>3. \A u \in Verifications : cameras'[u] = IF u = v THEN made ELSE cameras[u]
    BY <2>1 DEF VerificationTypes
  <2>4. VerificationTypes'
    BY <2>1, <2>2 DEF VerificationTypes
  <2>5. SubmissionKnown' /\ ReportCurrent'
    BY <2>1 DEF SubmissionKnown, ReportCurrent
  <2>6. OneCamera' /\ CamerasReal' /\ VerifiedCredential'
    BY <2>1, <2>2, <2>3 DEF OneCamera, CamerasReal, VerifiedCredential, V!VerifiedCredential
  <2> QED
    BY <2>4, <2>5, <2>6
<1> QED
  BY <1>1, <1>2

LiveCameras == {v \in Verifications : cameras[v].live}
Creating == {h \in Requests : verificationWork[h].pc = "create"}

\* The cardinality of a part is that of the finite sets.
LEMMA SameCardinality ==
  ASSUME NEW S
  PROVE  V!Cardinality(S) = Cardinality(S)
  BY DEF Cardinality, V!Cardinality

\* Sets that grow and shrink by one.
LEMMA OneMore ==
  ASSUME NEW S, IsFiniteSet(S), NEW x, x \notin S
  PROVE  Cardinality(S \cup {x}) = Cardinality(S) + 1
  BY FS_AddElement

\* A finite set without one of its elements has one less.
LEMMA OneLess ==
  ASSUME NEW S, IsFiniteSet(S), NEW x, x \in S
  PROVE  Cardinality(S \ {x}) = Cardinality(S) - 1 /\ Cardinality(S) > 0
<1>1. Cardinality(S \ {x}) = Cardinality(S) - 1 /\ IsFiniteSet(S \ {x})
  BY FS_RemoveElement
<1> QED
  BY <1>1, FS_CardinalityType

\* The sets that are counted are finite.
LEMMA CountedSets ==
  /\ IsFiniteSet(LiveCameras) /\ Cardinality(LiveCameras) \in Nat
  /\ IsFiniteSet(Creating) /\ Cardinality(Creating) \in Nat
<1>1. LiveCameras \subseteq Verifications /\ Creating \subseteq Requests
  BY DEF LiveCameras, Creating
<1>2. IsFiniteSet(LiveCameras) /\ IsFiniteSet(Creating)
  BY <1>1, FS_Subset, VerificationsAssumption, RequestsAssumption
<1> QED
  BY <1>2, FS_CardinalityType

CountExact == counter = manual + leaked + Cardinality(LiveCameras) + Cardinality(Creating)

\* What is counted, with the cardinality of the finite sets.
LEMMA CountedIs == CamerasCounted <=> CountExact
  BY SameCardinality DEF CamerasCounted, V!CamerasCounted, CountExact, LiveCameras, Creating, V!At

\* The same after a step: the counter is compared with the same sets.
LEMMA CountedIsThen == CamerasCounted' <=> CountExact'
<1>1. V!Cardinality(LiveCameras') = Cardinality(LiveCameras')
      /\ V!Cardinality(Creating') = Cardinality(Creating')
  BY SameCardinality
<1> QED
  BY <1>1 DEF CamerasCounted, V!CamerasCounted, CountExact, LiveCameras, Creating, V!At

\* A request that begins, and one that ends to create a camera.
LEMMA CreationBegins ==
  ASSUME VerificationTypes, NEW h \in Requests, V!CreateReserve(h)
  PROVE  Cardinality(Creating') = Cardinality(Creating) + 1
<1> DEFINE job == [pc |-> "create"]
<1>1. job \in VerificationJobs /\ job.pc = "create"
  BY DEF VerificationJobs
<1>2. V!Turn(h, job) /\ h \notin Creating
  BY DEF V!CreateReserve, V!Begin, V!Turn, Creating, V!Idle
<1> HIDE DEF job
<1>3. \A g \in Requests : verificationWork'[g] = IF g = h THEN job ELSE verificationWork[g]
  BY <1>1, <1>2, JobIs
<1>4. Creating' = Creating \cup {h}
  BY <1>1, <1>3 DEF Creating
<1> QED
  BY <1>2, <1>4, CountedSets, OneMore

\* A request that was to create a camera ends, and there is one less of them.
LEMMA CreationEnds ==
  ASSUME VerificationTypes, NEW h \in Requests, V!At(h, "create"), V!Finish(h)
  PROVE  Cardinality(Creating') = Cardinality(Creating) - 1 /\ Cardinality(Creating) > 0
<1>1. V!Idle \in VerificationJobs /\ V!Idle.pc # "create" /\ h \in Creating /\ V!Turn(h, V!Idle)
  BY DEF VerificationJobs, V!Idle, V!At, Creating, V!Finish
<1>2. \A g \in Requests : verificationWork'[g] = IF g = h THEN V!Idle ELSE verificationWork[g]
  BY <1>1, JobIs
<1>3. Creating' = Creating \ {h}
  BY <1>1, <1>2 DEF Creating
<1> QED
  BY <1>1, <1>3, CountedSets, OneLess

CountRest == UNCHANGED <<counter, manual, leaked, cameras>>

\* What neither makes nor removes a camera leaves the counter as it is.
LEMMA CountStays ==
  ASSUME RowsInv, RowsInv', CountTypes, CountExact, CountRest,
         UNCHANGED verificationWork \/
         \E h \in Requests : /\ verificationWork[h].pc # "create"
                             /\ verificationWork'[h].pc # "create"
                             /\ \A g \in Requests \ {h} : verificationWork'[g] = verificationWork[g]
  PROVE  CountTypes' /\ CountExact'
<1>1. Creating' = Creating
  BY DEF Creating
<1>2. LiveCameras' = LiveCameras
  BY DEF LiveCameras, CountRest
<1> QED
  BY <1>1, <1>2 DEF CountTypes, CountExact, CountRest


\* The steps of the other operations.
LEMMA OthersCount ==
  ASSUME RowsInv, RowsInv', CountTypes, CountExact,
         \/ \E v \in Verifications : V!Start(v) \/ V!Due(v)
         \/ \E k \in V!Submits : V!Take(k) \/ V!CommandEnds(k)
         \/ \E h \in Requests :
              \/ \E v \in Verifications : V!SubmitRead(h, v) \/ V!CancelRead(h, v)
              \/ \E k \in V!Submits : V!Submit(h, k)
              \/ \E k \in V!Submits, right \in BOOLEAN : V!IngestRead(h, k, right)
              \/ V!Cancel(h) \/ V!CleanupRead(h) \/ V!Cleanup(h) \/ V!IngestWrite(h)
              \/ V!Die(h) /\ ~V!At(h, "create")
  PROVE  CountTypes' /\ CountExact'
<1> USE DEF RowsInv
<1> SUFFICES
      /\ CountRest
      /\ UNCHANGED verificationWork \/
         \E h \in Requests : /\ verificationWork[h].pc # "create"
                             /\ verificationWork'[h].pc # "create"
                             /\ \A g \in Requests \ {h} : verificationWork'[g] = verificationWork[g]
  BY CountStays
<1>1. CountRest
  BY DEF CountRest, V!Start, V!Due, V!Take, V!CommandEnds, V!SubmitRead, V!CancelRead, V!Submit,
         V!IngestRead, V!Receive, V!Cancel, V!CleanupRead, V!Cleanup, V!IngestWrite, V!Die, V!stock
<1>2. ASSUME NEW h \in Requests, NEW job, V!Turn(h, job), job.pc # "create",
             verificationWork[h].pc # "create"
      PROVE  /\ verificationWork[h].pc # "create" /\ verificationWork'[h].pc # "create"
             /\ \A g \in Requests \ {h} : verificationWork'[g] = verificationWork[g]
  BY <1>2 DEF V!Turn, VerificationTypes
<1>3. V!Idle.pc # "create"
  BY DEF V!Idle
<1>4. CASE \/ \E v \in Verifications : V!Start(v) \/ V!Due(v)
           \/ \E k \in V!Submits : V!Take(k) \/ V!CommandEnds(k)
  BY <1>1, <1>4 DEF V!Start, V!Due, V!Take, V!CommandEnds
<1>5. CASE \E h \in Requests, v \in Verifications : V!SubmitRead(h, v) \/ V!CancelRead(h, v)
  <2>1. PICK h \in Requests, v \in Verifications : V!SubmitRead(h, v) \/ V!CancelRead(h, v)
    BY <1>5
  <2>2. V!Turn(h, [pc |-> "submit", v |-> v])
        \/ V!Turn(h, [pc |-> "cancel", v |-> v, command |-> verifications[v].command])
    BY <2>1 DEF V!SubmitRead, V!CancelRead, V!Begin, V!Turn
  <2>3. verificationWork[h].pc # "create"
    BY <2>1, <1>3 DEF V!SubmitRead, V!CancelRead, V!Begin
  <2> QED
    BY <1>1, <1>2, <2>2, <2>3
<1>6. CASE \E h \in Requests : \E k \in V!Submits, right \in BOOLEAN : V!IngestRead(h, k, right)
  <2>1. PICK h \in Requests, k \in V!Submits, right \in BOOLEAN : V!IngestRead(h, k, right)
    BY <1>6
  <2>2. V!Turn(h, [pc |-> "ingest", v |-> verificationCommands[k].session, command |-> k,
                   right |-> right])
    BY <2>1 DEF V!IngestRead, V!Receive, V!Begin, V!Turn
  <2>3. verificationWork[h].pc # "create"
    BY <2>1, <1>3 DEF V!IngestRead, V!Receive, V!Begin
  <2> QED
    BY <1>1, <1>2, <2>2, <2>3
<1>7. CASE \E h \in Requests : V!CleanupRead(h)
  <2>1. PICK h \in Requests : V!CleanupRead(h)
    BY <1>7
  <2>2. V!Turn(h, V!Idle) \/ V!Turn(h, [pc |-> "cleanup", found |-> V!Expirable,
                       commands |-> {verifications[v].command : v \in V!Expirable}])
    BY <2>1 DEF V!CleanupRead, V!Begin, V!Turn
  <2>3. verificationWork[h].pc # "create"
    BY <2>1, <1>3 DEF V!CleanupRead, V!Begin
  <2> QED
    BY <1>1, <1>2, <1>3, <2>2, <2>3
<1>8. CASE \E h \in Requests :
             \/ \E k \in V!Submits : V!Submit(h, k)
             \/ V!Cancel(h) \/ V!Cleanup(h) \/ V!IngestWrite(h)
             \/ V!Die(h) /\ ~V!At(h, "create")
  <2>1. PICK h \in Requests : V!Turn(h, V!Idle) /\ verificationWork[h].pc # "create"
    BY <1>8 DEF V!Submit, V!Cancel, V!Cleanup, V!IngestWrite, V!Die, V!Finish, V!At
  <2> QED
    BY <1>1, <1>2, <1>3, <2>1
<1> QED
  BY <1>4, <1>5, <1>6, <1>7, <1>8

\* The one that makes a camera, and those that remove one: the counter is what there is.
LEMMA CamerasCount ==
  ASSUME RowsInv, RowsInv', CountTypes, CountExact, NEW v \in Verifications,
         V!Complete(v) \/ V!RemoveCamera(v)
  PROVE  CountTypes' /\ CountExact'
<1> USE DEF RowsInv
<1>1. Creating' = Creating
  BY DEF Creating, V!Complete, V!MakeCamera, V!RemoveCamera
<1>2. CASE V!Complete(v)
  <2>1. /\ cameras[v] = V!NoCamera /\ counter' = counter + 1 /\ UNCHANGED <<manual, leaked>>
        /\ cameras' = [cameras EXCEPT ![v] = [credential |-> verifications[v].credential,
                                        verified |-> verifications[v].verified, live |-> TRUE]]
    BY <1>2 DEF V!Complete, V!MayComplete, V!MakeCamera
  <2>2. \A u \in Verifications : cameras'[u].live = IF u = v THEN TRUE ELSE cameras[u].live
    BY <2>1 DEF VerificationTypes
  <2>3. v \notin LiveCameras /\ LiveCameras' = LiveCameras \cup {v}
    <3>1. ~cameras[v].live
      BY <2>1 DEF V!NoCamera
    <3>2. \A u \in Verifications : cameras'[u].live <=> u = v \/ cameras[u].live
      BY <2>2
    <3> QED
      BY <3>1, <3>2 DEF LiveCameras
  <2>4. Cardinality(LiveCameras') = Cardinality(LiveCameras) + 1
    BY <2>3, CountedSets, OneMore
  <2> QED
    BY <1>1, <2>1, <2>4, CountedSets DEF CountTypes, CountExact
<1>3. CASE V!RemoveCamera(v)
  <2>1. /\ cameras[v].live /\ counter' = (IF counter > 0 THEN counter - 1 ELSE counter)
        /\ cameras' = [cameras EXCEPT ![v].live = FALSE] /\ UNCHANGED <<manual, leaked>>
    BY <1>3 DEF V!RemoveCamera
  <2>2. \A u \in Verifications : cameras'[u].live = IF u = v THEN FALSE ELSE cameras[u].live
    BY <2>1 DEF VerificationTypes, CameraRows
  <2>3. v \in LiveCameras /\ LiveCameras' = LiveCameras \ {v}
    <3>1. \A u \in Verifications : cameras'[u].live <=> u # v /\ cameras[u].live
      BY <2>2
    <3>2. v \in LiveCameras
      BY <2>1 DEF LiveCameras
    <3>3. LiveCameras' = LiveCameras \ {v}
      BY <3>1 DEF LiveCameras
    <3> QED
      BY <3>2, <3>3
  <2>4. Cardinality(LiveCameras') = Cardinality(LiveCameras) - 1 /\ Cardinality(LiveCameras) > 0
    BY <2>3, CountedSets, OneLess
  <2> QED
    BY <1>1, <2>1, <2>4, CountedSets DEF CountTypes, CountExact
<1> QED
  BY <1>2, <1>3

\* Cameras created by hand: what is reserved is created, given back, or left behind.
LEMMA ManualCount ==
  ASSUME RowsInv, RowsInv', CountTypes, CountExact,
         \/ V!RemoveManual
         \/ \E h \in Requests : \/ V!CreateReserve(h) \/ V!CreateWrite(h) \/ V!CreateFails(h)
                                \/ V!Die(h) /\ V!At(h, "create")
  PROVE  CountTypes' /\ CountExact'
<1> USE DEF RowsInv
<1>1. LiveCameras' = LiveCameras
  BY DEF LiveCameras, V!RemoveManual, V!CreateReserve, V!CreateWrite, V!CreateFails, V!Die
<1>2. CASE V!RemoveManual
  <2>1. Creating' = Creating
    BY <1>2 DEF Creating, V!RemoveManual
  <2> QED
    BY <1>1, <1>2, <2>1, CountedSets DEF CountTypes, CountExact, V!RemoveManual
<1>3. ASSUME NEW h \in Requests, V!CreateReserve(h) PROVE CountTypes' /\ CountExact'
  <2>1. Cardinality(Creating') = Cardinality(Creating) + 1
    BY <1>3, CreationBegins
  <2> QED
    BY <1>1, <1>3, <2>1, CountedSets DEF CountTypes, CountExact, V!CreateReserve
<1>4. ASSUME NEW h \in Requests,
             V!CreateWrite(h) \/ V!CreateFails(h) \/ (V!Die(h) /\ V!At(h, "create"))
      PROVE CountTypes' /\ CountExact'
  <2>1. Cardinality(Creating') = Cardinality(Creating) - 1 /\ Cardinality(Creating) > 0
    BY <1>4, CreationEnds DEF V!CreateWrite, V!CreateFails, V!Die
  <2>2. CASE V!CreateWrite(h)
    BY <1>1, <2>1, <2>2, CountedSets DEF CountTypes, CountExact, V!CreateWrite
  <2>3. CASE V!CreateFails(h)
    BY <1>1, <2>1, <2>3, CountedSets DEF CountTypes, CountExact, V!CreateFails
  <2>4. CASE V!Die(h) /\ V!At(h, "create")
    BY <1>1, <2>1, <2>4, CountedSets DEF CountTypes, CountExact, V!Die
  <2> QED
    BY <1>4, <2>2, <2>3, <2>4
<1> QED
  BY <1>2, <1>3, <1>4

\* In the beginning.
LEMMA VerificationBegins ==
  ASSUME V!Init
  PROVE  VerificationInv
<1>1. RowsInv
  <2>1. VerificationTypes
    BY VerificationsAssumption DEF V!Init, VerificationTypes, SessionRows, CommandRows,
       CameraRows, VerificationJobs,
       V!NoSession, V!NoCamera, V!Statuses, V!Numbers
  <2>2. /\ \A v \in Verifications : verifications[v].credential = 0 /\ verifications[v].verified = 0
        /\ \A v \in Verifications : cameras[v] = V!NoCamera
        /\ \A h \in Requests : verificationWork[h].pc # "ingest"
    BY DEF V!Init, V!NoSession, V!Idle
  <2>3. V!NoCamera.live = FALSE /\ V!NoCamera.credential = V!NoCamera.verified
    BY DEF V!NoCamera
  <2> QED
    BY <2>1, <2>2, <2>3 DEF RowsInv, SubmissionKnown, ReportCurrent, OneCamera, CamerasReal,
       VerifiedCredential,
       V!VerifiedCredential
<1>2. LiveCameras = {} /\ Creating = {}
  BY DEF V!Init, V!NoCamera, V!Idle, LiveCameras, Creating
<1> QED
  BY <1>1, <1>2, FS_EmptySet, CountedIs DEF V!Init, VerificationInv, CountTypes, CountExact

\* A step of the verification keeps its invariant.
LEMMA VerificationStep ==
  ASSUME VerificationInv, V!Next
  PROVE  VerificationInv'
<1>1. RowsInv'
  BY ReadsKeepRows, StartKeepsRows, CancelKeepsRows, SubmitKeepsRows, CleanupKeepsRows,
     IngestKeepsRows, CamerasKeepRows DEF V!Next, V!Onward, VerificationInv
<1>2. CountTypes' /\ CountExact'
  BY <1>1, CountedIs, OthersCount, CamerasCount, ManualCount DEF V!Next, V!Onward, VerificationInv
<1> QED
  BY <1>1, <1>2, CountedIsThen DEF VerificationInv

\* What the parts promise.
LEMMA VerificationPromises ==
  ASSUME VerificationInv
  PROVE  DeviceOnce /\ VerifiedCredential /\ CredentialEnds /\ CamerasCounted
<1>1. DeviceOnce
  <2> DEFINE S == {v \in Verifications : cameras[v] # V!NoCamera}
  <2>1. \A v \in S : S = {v}
    BY DEF VerificationInv, RowsInv, OneCamera
  <2>2. Cardinality(S) <= 1
    <3>1. Cardinality(S) \in {0, 1}
      BY <2>1, FS_EmptySet, FS_Singleton
    <3> QED
      BY <3>1
  <2>3. V!Cardinality(S) = Cardinality(S)
    BY SameCardinality
  <2> QED
    BY <2>2, <2>3 DEF DeviceOnce, V!DeviceOnce
<1>2. CredentialEnds
  BY DEF VerificationInv, RowsInv, SubmissionKnown, CredentialEnds, V!CredentialEnds, V!Status
<1> QED
  BY <1>1, <1>2 DEF VerificationInv, RowsInv
-----------------------------------------------------------------------------
(* The gateway's queue *)

Items == Seq(D!Queue!Item)
Carried(items) == {items[i].message : i \in DOMAIN items}
Distinct(items) == \A i, j \in DOMAIN items : items[i].message = items[j].message => i = j

QueueTypes ==
  /\ file \in Items /\ flush \in [on : BOOLEAN, rest : Items, pending : Items]
  /\ writers \subseteq [message : D!Reports, items : Items]
  /\ queued \subseteq D!Reports

\* As long as no two operations met: a lone writer has the file in hand, and what a flush
\* has yet to send and what it keeps is all that was enqueued and is not gone.
Orderly ==
  /\ writers # {} => flush = D!Queue!Resting
  /\ \A w, u \in writers : w = u
  /\ \A w \in writers : w.items = file /\ w.message \notin queued
  /\ Carried(file) \subseteq queued /\ gone \subseteq queued /\ Distinct(file)
  /\ ~flush.on => flush = D!Queue!Resting /\ Carried(file) = queued \ gone
  /\ flush.on =>
       /\ Distinct(flush.rest) /\ Distinct(flush.pending)
       /\ Carried(flush.rest) \cap Carried(flush.pending) = {}
       /\ Carried(flush.rest) \cup Carried(flush.pending) = queued \ gone
       /\ queued \ gone \subseteq Carried(file)
QueueInv == QueueTypes /\ (~overlapped => Orderly)

\* What is left of a queue when its first item is taken.
LEMMA TailOf ==
  ASSUME NEW s \in Items, s # <<>>
  PROVE  /\ Tail(s) \in Items /\ Head(s) \in D!Queue!Item /\ 1 \in DOMAIN s /\ s[1] = Head(s)
         /\ \A i \in DOMAIN Tail(s) : i + 1 \in DOMAIN s /\ Tail(s)[i] = s[i + 1] /\ i + 1 > 1
         /\ Carried(s) = {Head(s).message} \cup Carried(Tail(s))
         /\ Distinct(s) => Distinct(Tail(s)) /\ Head(s).message \notin Carried(Tail(s))
<1> USE DEF Items
<1>1. /\ Tail(s) \in Seq(D!Queue!Item) /\ Head(s) \in D!Queue!Item
      /\ 1 \in DOMAIN s /\ s[1] = Head(s)
  OBVIOUS
<1>2. \A i \in DOMAIN Tail(s) : i + 1 \in DOMAIN s /\ Tail(s)[i] = s[i + 1] /\ i + 1 > 1
  OBVIOUS
<1>3. \A i \in DOMAIN s : i = 1 \/ (i - 1 \in DOMAIN Tail(s) /\ Tail(s)[i - 1] = s[i])
  OBVIOUS
<1>4. Carried(s) = {Head(s).message} \cup Carried(Tail(s))
  <2>1. ASSUME NEW m \in Carried(s) PROVE m \in {Head(s).message} \cup Carried(Tail(s))
    BY <1>1, <1>3, <2>1 DEF Carried
  <2>2. ASSUME NEW m \in {Head(s).message} \cup Carried(Tail(s)) PROVE m \in Carried(s)
    BY <1>1, <1>2, <2>2 DEF Carried
  <2> QED
    BY <2>1, <2>2
<1>5. ASSUME Distinct(s) PROVE Distinct(Tail(s)) /\ Head(s).message \notin Carried(Tail(s))
  <2>1. Distinct(Tail(s))
    <3> SUFFICES ASSUME NEW i \in DOMAIN Tail(s), NEW j \in DOMAIN Tail(s),
                        Tail(s)[i].message = Tail(s)[j].message
                 PROVE  i = j
      BY DEF Distinct
    <3>1. i + 1 = j + 1
      BY <1>2, <1>5 DEF Distinct
    <3>2. i \in Nat /\ j \in Nat
      BY <1>1
    <3> QED
      BY <3>1, <3>2
  <2>2. Head(s).message \notin Carried(Tail(s))
    <3> SUFFICES ASSUME NEW i \in DOMAIN Tail(s), Tail(s)[i].message = Head(s).message
                 PROVE  FALSE
      BY DEF Carried
    <3>1. i + 1 = 1
      BY <1>1, <1>2, <1>5 DEF Distinct
    <3>2. i \in Nat /\ i # 0
      BY <1>1
    <3> QED
      BY <3>1, <3>2
  <2> QED
    BY <2>1, <2>2
<1> QED
  BY <1>1, <1>2, <1>4, <1>5

\* A queue with one item more.
LEMMA AppendTo ==
  ASSUME NEW s \in Items, NEW item \in D!Queue!Item
  PROVE  /\ Append(s, item) \in Items
         /\ \A i \in DOMAIN Append(s, item) :
              \/ i \in DOMAIN s /\ Append(s, item)[i] = s[i]
              \/ i = Len(s) + 1 /\ Append(s, item)[i] = item
         /\ Carried(Append(s, item)) = Carried(s) \cup {item.message}
         /\ Distinct(s) /\ item.message \notin Carried(s) => Distinct(Append(s, item))
<1> USE DEF Items
<1> DEFINE t == Append(s, item)
<1>1. t \in Seq(D!Queue!Item)
  OBVIOUS
<1>2. \A i \in DOMAIN t :
        \/ i \in DOMAIN s /\ t[i] = s[i]
        \/ i = Len(s) + 1 /\ t[i] = item
  OBVIOUS
<1>3. /\ \A i \in DOMAIN s : i \in DOMAIN t /\ t[i] = s[i]
      /\ Len(s) + 1 \in DOMAIN t /\ t[Len(s) + 1] = item
  OBVIOUS
<1> HIDE DEF t
<1>4. Carried(t) = Carried(s) \cup {item.message}
  <2>1. ASSUME NEW m \in Carried(t) PROVE m \in Carried(s) \cup {item.message}
    BY <1>2, <2>1 DEF Carried
  <2>2. ASSUME NEW m \in Carried(s) \cup {item.message} PROVE m \in Carried(t)
    BY <1>3, <2>2 DEF Carried
  <2> QED
    BY <2>1, <2>2
<1>5. ASSUME Distinct(s), item.message \notin Carried(s) PROVE Distinct(t)
  BY <1>2, <1>5 DEF Distinct, Carried
<1> QED
  BY <1>1, <1>2, <1>4, <1>5 DEF t

\* An item that failed once more.
LEMMA TriedAgain ==
  ASSUME NEW item \in D!Queue!Item, item.tries # MaxTries
  PROVE  /\ [item EXCEPT !.tries = @ + 1] \in D!Queue!Item
         /\ [item EXCEPT !.tries = @ + 1].message = item.message
  BY TriesAssumption DEF D!Queue!Item

\* An enqueue that begins has the file in hand, when it met nothing.
LEMMA EnqueueReadKeeps ==
  ASSUME QueueInv, NEW m \in D!Reports, D!Queue!EnqueueRead(m)
  PROVE  QueueInv' /\ (~overlapped' => ~overlapped /\ ~D!Queue!Busy)
<1> USE DEF QueueInv
<1>1. PICK items \in D!Queue!MaybeEmptied :
          writers' = writers \cup {[message |-> m, items |-> items]}
  BY DEF D!Queue!EnqueueRead
<1>2. items \in {file, <<>>} /\ (~D!Queue!Busy => items = file)
  BY DEF D!Queue!MaybeEmptied
<1>3. items \in Items
  <2>1. file \in Items /\ <<>> \in Items
    BY DEF QueueTypes, Items
  <2> QED
    BY <1>2, <2>1
<1>4. QueueTypes'
  BY <1>1, <1>3 DEF QueueTypes, D!Queue!EnqueueRead
<1>5. ~overlapped' => ~overlapped /\ ~D!Queue!Busy
  BY DEF D!Queue!EnqueueRead
<1>6. ASSUME ~overlapped' PROVE Orderly'
  <2>1. /\ writers' = {[message |-> m, items |-> file]} /\ m \notin queued
        /\ flush = D!Queue!Resting
        /\ UNCHANGED <<file, flush, queued, gone>>
    BY <1>1, <1>2, <1>5, <1>6 DEF D!Queue!EnqueueRead, D!Queue!Busy
  <2>2. /\ ~flush.on /\ Carried(file) \subseteq queued /\ gone \subseteq queued /\ Distinct(file)
        /\ Carried(file) = queued \ gone
    BY <1>5, <1>6, <2>1 DEF Orderly, D!Queue!Resting
  <2>3. Carried(file)' = Carried(file) /\ Distinct(file)' = Distinct(file)
    BY <2>1 DEF Carried, Distinct
  <2> QED
    BY <2>1, <2>2, <2>3 DEF Orderly
<1> QED
  BY <1>4, <1>5, <1>6

\* An enqueue that ends adds its message to the file.
LEMMA EnqueueKeeps ==
  ASSUME QueueInv, NEW w \in writers, D!Queue!Enqueue(w)
  PROVE  QueueInv'
<1> USE DEF QueueInv
<1> DEFINE item == [message |-> w.message, tries |-> 0]
<1>1. item \in D!Queue!Item /\ w.items \in Items /\ w.message \in D!Reports
      /\ item.message = w.message
  BY TriesAssumption DEF QueueTypes, D!Queue!Item
<1>2. /\ file' = Append(w.items, item) /\ writers' = writers \ {w}
      /\ queued' = queued \cup {w.message} /\ UNCHANGED <<flush, gone, overlapped>>
  BY DEF D!Queue!Enqueue
<1> HIDE DEF item
<1>3. file' \in Items /\ Carried(file') = Carried(w.items) \cup {w.message}
      /\ (Distinct(w.items) /\ w.message \notin Carried(w.items) => Distinct(file'))
  BY <1>1, <1>2, AppendTo
<1>4. QueueTypes'
  BY <1>1, <1>2, <1>3 DEF QueueTypes
<1>5. ASSUME ~overlapped PROVE Orderly'
  <2>1. writers' = {} /\ w.items = file /\ w.message \notin queued /\ flush = D!Queue!Resting
        /\ Carried(file) = queued \ gone /\ ~flush.on /\ gone \subseteq queued /\ Distinct(file)
    BY <1>2, <1>5 DEF Orderly, D!Queue!Resting
  <2>2. Carried(file') = queued' \ gone' /\ Distinct(file')
    BY <1>2, <1>3, <2>1
  <2>3. Carried(file)' = Carried(file') /\ Distinct(file)' = Distinct(file')
    BY DEF Carried, Distinct
  <2> QED
    BY <1>2, <2>1, <2>2, <2>3 DEF Orderly
<1> QED
  BY <1>2, <1>4, <1>5

\* A flush begins with the file.
LEMMA FlushReadKeeps ==
  ASSUME QueueInv, D!Queue!FlushRead
  PROVE  /\ QueueInv' /\ flush'.on
         /\ ~overlapped' => ~overlapped /\ flush'.rest = file /\ flush'.pending = <<>>
<1> USE DEF QueueInv
<1>1. PICK items \in D!Queue!MaybeEmptied : flush' = [on |-> TRUE, rest |-> items, pending |-> <<>>]
  <2>1. PICK items \in D!Queue!MaybeEmptied :
            flush' = [D!Queue!Resting EXCEPT !.on = TRUE, !.rest = items]
    BY DEF D!Queue!FlushRead
  <2>2. PICK on, none : on = TRUE /\ none = <<>>
    OBVIOUS
  <2>3. D!Queue!Resting = [on |-> FALSE, rest |-> none, pending |-> none]
    BY <2>2 DEF D!Queue!Resting
  <2> DEFINE a == [D!Queue!Resting EXCEPT !.on = on]
             b == [a EXCEPT !.rest = items]
  <2>4. b = flush'
    BY <2>1, <2>2
  <2>5. a = [on |-> on, rest |-> none, pending |-> none]
    BY <2>3
  <2> HIDE DEF a
  <2>6. b = [on |-> on, rest |-> items, pending |-> none]
    BY <2>5
  <2> QED
    BY <2>2, <2>4, <2>6
<1>2. items \in {file, <<>>} /\ (~D!Queue!Busy => items = file)
  BY DEF D!Queue!MaybeEmptied
<1>3. items \in Items /\ <<>> \in Items
  <2>1. file \in Items /\ <<>> \in Items
    BY DEF QueueTypes, Items
  <2> QED
    BY <1>2, <2>1
<1>4. QueueTypes'
  BY <1>1, <1>3 DEF QueueTypes, D!Queue!FlushRead
<1>5. ~overlapped' => ~overlapped /\ items = file
  BY <1>2 DEF D!Queue!FlushRead
<1>6. ASSUME ~overlapped' PROVE Orderly'
  <2>1. writers' = {} /\ flush = D!Queue!Resting /\ UNCHANGED <<file, queued, gone>>
    BY <1>6 DEF D!Queue!FlushRead, D!Queue!Busy
  <2>2. Carried(<<>>) = {} /\ Distinct(<<>>)
    BY DEF Carried, Distinct
  <2>3. ~flush.on
    BY <2>1 DEF D!Queue!Resting
  <2>4. /\ flush'.on /\ flush'.rest = file /\ flush'.pending = <<>> 
    BY <1>1, <1>5, <1>6
  <2>5. Carried(file) = queued \ gone /\ Distinct(file) /\ gone \subseteq queued
    BY <1>5, <1>6, <2>3 DEF Orderly
  <2>6. /\ Carried(file)' = Carried(file') /\ Distinct(file)' = Distinct(file')
        /\ Carried(flush.rest)' = Carried(file) /\ Carried(flush.pending)' = {}
        /\ Distinct(flush.rest)' /\ Distinct(flush.pending)'
    BY <2>2, <2>4, <2>5 DEF Carried, Distinct
  <2> QED
    BY <2>1, <2>4, <2>5, <2>6 DEF Orderly
<1> QED
  BY <1>1, <1>4, <1>5, <1>6


\* The flush takes its first item: it is gone, or kept for the next flush.
LEMMA Takes ==
  ASSUME QueueInv, D!Queue!Sending, UNCHANGED <<file, writers, queued, overlapped>>,
         flush'.on = flush.on, flush'.rest = Tail(flush.rest),
         flush' \in [on : BOOLEAN, rest : Items, pending : Items],
         \/ /\ flush'.pending = flush.pending /\ gone' = gone \cup {Head(flush.rest).message}
         \/ /\ gone' = gone
            /\ Carried(flush'.pending) = Carried(flush.pending) \cup {Head(flush.rest).message}
            /\ Distinct(flush.pending) /\ Head(flush.rest).message \notin Carried(flush.pending)
               => Distinct(flush'.pending)
  PROVE  QueueInv'
<1> USE DEF QueueInv
<1>1. QueueTypes'
  BY DEF QueueTypes
<1>2. ASSUME ~overlapped PROVE Orderly'
  <2>1. flush.rest \in Items /\ flush.rest # <<>>
    BY DEF QueueTypes, D!Queue!Sending
  <2>2. flush.on /\ writers = {}
    BY <1>2, <2>1 DEF Orderly, D!Queue!Resting
  <2> DEFINE m == Head(flush.rest).message
  <2>3. /\ Carried(flush.rest) = {m} \cup Carried(flush'.rest)
        /\ Distinct(flush'.rest) /\ m \notin Carried(flush'.rest)
    BY <1>2, <2>1, <2>2, TailOf DEF Orderly
  <2>4. /\ Distinct(flush.pending) /\ m \notin Carried(flush.pending)
        /\ Carried(flush.rest) \cap Carried(flush.pending) = {}
        /\ Carried(flush.rest) \cup Carried(flush.pending) = queued \ gone
        /\ queued \ gone \subseteq Carried(file) /\ Carried(file) \subseteq queued
        /\ gone \subseteq queued /\ Distinct(file)
    BY <1>2, <2>2, <2>3 DEF Orderly
  <2> HIDE DEF m
  <2>5. /\ Distinct(flush'.pending)
        /\ Carried(flush'.rest) \cap Carried(flush'.pending) = {}
        /\ Carried(flush'.rest) \cup Carried(flush'.pending) = queued \ gone'
        /\ queued \ gone' \subseteq Carried(file)
        /\ gone' \subseteq queued
    BY <2>3, <2>4 DEF m
  <2>6. /\ Carried(file)' = Carried(file) /\ Distinct(file)' = Distinct(file)
        /\ Carried(flush.rest)' = Carried(flush'.rest)
        /\ Carried(flush.pending)' = Carried(flush'.pending)
        /\ Distinct(flush.rest)' = Distinct(flush'.rest)
        /\ Distinct(flush.pending)' = Distinct(flush'.pending)
    BY DEF Carried, Distinct
  <2> QED
    BY <2>2, <2>3, <2>4, <2>5, <2>6 DEF Orderly
<1> QED
  BY <1>1, <1>2

\* The fields of the flush when it goes on.
LEMMA OnwardIs ==
  ASSUME QueueTypes, D!Queue!Sending
  PROVE  /\ D!Queue!Onward = [on |-> flush.on, rest |-> Tail(flush.rest), pending |-> flush.pending]
         /\ D!Queue!Onward \in [on : BOOLEAN, rest : Items, pending : Items]
         /\ D!Queue!First = Head(flush.rest) /\ D!Queue!First \in D!Queue!Item
<1>1. Tail(flush.rest) \in Items /\ Head(flush.rest) \in D!Queue!Item
  BY TailOf DEF QueueTypes, D!Queue!Sending
<1>2. PICK rest : rest = Tail(flush.rest)
  OBVIOUS
<1>3. D!Queue!Onward = [flush EXCEPT !.rest = rest]
  BY <1>2 DEF D!Queue!Onward
<1> QED
  BY <1>1, <1>2, <1>3 DEF QueueTypes, D!Queue!First

\* What is sent, or given up, is gone.
LEMMA SentKeeps ==
  ASSUME QueueInv, D!Queue!Sent \/ D!Queue!GiveUp
  PROVE  QueueInv'
<1>1. QueueTypes /\ D!Queue!Sending
  BY DEF QueueInv, D!Queue!Sent, D!Queue!GiveUp
<1>2. /\ flush' = D!Queue!Onward /\ gone' = gone \cup {D!Queue!First.message}
      /\ UNCHANGED <<file, writers, queued, overlapped>>
  BY DEF D!Queue!Sent, D!Queue!GiveUp
<1>3. /\ flush'.on = flush.on /\ flush'.rest = Tail(flush.rest) /\ flush'.pending = flush.pending
      /\ flush' \in [on : BOOLEAN, rest : Items, pending : Items]
      /\ D!Queue!First = Head(flush.rest)
  BY <1>1, <1>2, OnwardIs
<1> QED
  BY <1>1, <1>2, <1>3, Takes

\* What failed, with one try more.
LEMMA FailedIs ==
  ASSUME QueueTypes, D!Queue!Failed
  PROVE  /\ flush'.on = flush.on /\ flush'.rest = Tail(flush.rest)
         /\ flush' \in [on : BOOLEAN, rest : Items, pending : Items]
         /\ \E item \in D!Queue!Item :
              item.message = Head(flush.rest).message
              /\ flush'.pending = Append(flush.pending, item)
         /\ Head(flush.rest) \in D!Queue!Item
<1>1. /\ D!Queue!Onward = [on |-> flush.on, rest |-> Tail(flush.rest), pending |-> flush.pending]
      /\ D!Queue!Onward \in [on : BOOLEAN, rest : Items, pending : Items]
      /\ D!Queue!First = Head(flush.rest) /\ D!Queue!First \in D!Queue!Item
  BY OnwardIs DEF D!Queue!Failed
<1>2. PICK onward, item : /\ onward = D!Queue!Onward
                          /\ item = [D!Queue!First EXCEPT !.tries = @ + 1]
  OBVIOUS
<1>3. item \in D!Queue!Item /\ item.message = Head(flush.rest).message
  BY <1>1, <1>2, TriedAgain DEF D!Queue!Failed, D!Queue!GivenUp
<1>4. flush' = [onward EXCEPT !.pending = Append(flush.pending, item)]
  BY <1>1, <1>2 DEF D!Queue!Failed
<1>5. PICK pending : pending = Append(flush.pending, item)
  OBVIOUS
<1>6. pending \in Items
  BY <1>3, <1>5, AppendTo DEF QueueTypes
<1>7. flush' = [onward EXCEPT !.pending = pending]
  BY <1>4, <1>5
<1> QED
  BY <1>1, <1>2, <1>3, <1>5, <1>6, <1>7

\* What failed is kept for the next flush.
LEMMA FailedKeeps ==
  ASSUME QueueInv, D!Queue!Failed
  PROVE  QueueInv'
<1>1. QueueTypes /\ D!Queue!Sending /\ UNCHANGED <<file, writers, queued, gone, overlapped>>
  BY DEF QueueInv, D!Queue!Failed
<1>2. PICK item \in D!Queue!Item :
        item.message = Head(flush.rest).message /\ flush'.pending = Append(flush.pending, item)
  BY <1>1, FailedIs
<1>3. /\ Carried(flush'.pending) = Carried(flush.pending) \cup {item.message}
      /\ Distinct(flush.pending) /\ item.message \notin Carried(flush.pending)
         => Distinct(flush'.pending)
  <2>1. flush.pending \in Items
    BY <1>1 DEF QueueTypes
  <2> QED
    BY <1>2, <2>1, AppendTo
<1>4. /\ flush'.on = flush.on /\ flush'.rest = Tail(flush.rest)
      /\ flush' \in [on : BOOLEAN, rest : Items, pending : Items]
  BY <1>1, FailedIs
<1> QED
  BY <1>1, <1>2, <1>3, <1>4, Takes

\* A flush that ends leaves what failed in the file.
LEMMA FlushEndsKeeps ==
  ASSUME QueueInv, D!Queue!FlushEnds
  PROVE  QueueInv' /\ flush.rest = <<>> /\ ~flush'.on /\ flush'.rest = <<>>
<1> USE DEF QueueInv
<1>1. /\ flush.on /\ flush.rest = <<>> /\ file' = flush.pending /\ flush' = D!Queue!Resting
      /\ UNCHANGED <<writers, queued, gone, overlapped>>
  BY DEF D!Queue!FlushEnds, D!Queue!Sending
<1>2. ~flush'.on /\ flush'.rest = <<>> /\ flush' \in [on : BOOLEAN, rest : Items, pending : Items]
  BY <1>1 DEF D!Queue!Resting, Items
<1>3. QueueTypes'
  BY <1>1, <1>2 DEF QueueTypes
<1>4. ASSUME ~overlapped PROVE Orderly'
  <2>1. writers = {}
    BY <1>1, <1>4 DEF Orderly, D!Queue!Resting
  <2>2. Carried(flush.rest) = {}
    BY <1>1 DEF Carried
  <2>3. Carried(flush.pending) = queued \ gone /\ Distinct(flush.pending) /\ gone \subseteq queued
    BY <1>1, <1>4, <2>2 DEF Orderly
  <2>4. Carried(file)' = Carried(flush.pending) /\ Distinct(file)' = Distinct(flush.pending)
    BY <1>1 DEF Carried, Distinct
  <2> QED
    BY <1>1, <1>2, <2>1, <2>3, <2>4 DEF Orderly
<1> QED
  BY <1>1, <1>2, <1>3, <1>4

\* A restart that cuts nothing off leaves the queue as it is.
LEMMA RestartKeeps ==
  ASSUME QueueInv, D!Queue!Restart
  PROVE  QueueInv'
<1> USE DEF QueueInv
<1>1. /\ file' \in {file, <<>>} /\ (~D!Queue!Busy => file' = file)
      /\ writers' = {} /\ flush' = D!Queue!Resting /\ UNCHANGED <<queued, gone>>
      /\ overlapped' = (overlapped \/ D!Queue!Busy)
  BY DEF D!Queue!Restart, D!Queue!MaybeEmptied
<1>2. QueueTypes'
  <2>1. file \in Items /\ <<>> \in Items
    BY DEF QueueTypes, Items
  <2> QED
    BY <1>1, <2>1 DEF QueueTypes, D!Queue!Resting
<1>3. ASSUME ~overlapped' PROVE Orderly'
  <2>1. ~overlapped /\ file' = file /\ flush = D!Queue!Resting
    BY <1>1, <1>3 DEF D!Queue!Busy
  <2>2. Carried(file) = queued \ gone /\ Distinct(file) /\ gone \subseteq queued
    BY <2>1 DEF Orderly, D!Queue!Resting
  <2>3. Carried(file)' = Carried(file) /\ Distinct(file)' = Distinct(file)
    BY <2>1 DEF Carried, Distinct
  <2> QED
    BY <1>1, <2>1, <2>2, <2>3 DEF Orderly, D!Queue!Resting
<1> QED
  BY <1>2, <1>3

\* The queue keeps its invariant while others act.
LEMMA QueueRests ==
  ASSUME QueueInv, UNCHANGED <<file, writers, flush, queued, gone, overlapped>>
  PROVE  QueueInv'
<1>1. Carried(file)' = Carried(file) /\ Distinct(file)' = Distinct(file)
      /\ Carried(flush.rest)' = Carried(flush.rest)
      /\ Carried(flush.pending)' = Carried(flush.pending)
      /\ Distinct(flush.rest)' = Distinct(flush.rest)
      /\ Distinct(flush.pending)' = Distinct(flush.pending)
  BY DEF Carried, Distinct
<1> QED
  BY <1>1 DEF QueueInv, QueueTypes, Orderly

\* Nothing is lost.
LEMMA QueueKeeps ==
  ASSUME QueueInv
  PROVE  Kept
<1> SUFFICES ASSUME ~overlapped
             PROVE  /\ queued \ gone \subseteq Carried(file)
                    /\ ~D!Queue!Busy => Carried(file) \cap gone = {}
  BY DEF Kept, D!Queue!Kept, D!Queue!Held, Carried
<1>1. Orderly
  BY DEF QueueInv
<1>2. CASE flush.on
  BY <1>1, <1>2 DEF Orderly, D!Queue!Busy, D!Queue!Resting
<1>3. CASE ~flush.on
  BY <1>1, <1>3 DEF Orderly
<1> QED
  BY <1>2, <1>3
-----------------------------------------------------------------------------
(* The discovery *)

Progressing == {"SCANNING", "RESULTS"}
EndIn(known) == D!Ends \cap known # {}
InHand(h) == discoveryWork[h].pc \in {"receive", "upsert", "write"}
Quiet == ~disturbed /\ ~overlapped
Closed == expired \/ session.status \in D!Closed

\* A queue of which all that was tried is known, all that follows the end of a scan, and once
\* that is known all progress.
Good(items, known) == \A j \in DOMAIN items :
  /\ items[j].tries # 0 => items[j].message \in known
  /\ /\ items[j].message \in Progressing
     /\ EndIn(known) \/ \E i \in DOMAIN items : i < j /\ items[i].message \in D!Ends
     => items[j].message \in known

DiscoveryRow == [status : {"NONE"} \cup D!Open \cup D!Closed, confirmed : BOOLEAN]
DiscoveryTypes ==
  /\ discoveryWork \in [Requests -> D!Work] /\ waiting \in Requests \cup {"NONE"}
  /\ received \subseteq D!Reports
  /\ session \in DiscoveryRow

Waits == waiting # "NONE" =>
  /\ D!Queue!Sending /\ ~D!Queue!GivenUp
  /\ ~InHand(waiting) => D!Queue!First.message \in received
InHands == \A h \in Requests : InHand(h) =>
  /\ waiting = h /\ discoveryWork[h].report = D!Queue!First.message
  /\ discoveryWork[h].pc # "receive" =>
       /\ discoveryWork[h].report \in received
       /\ EndIn(received) => discoveryWork[h].report \notin Progressing
ScanKnown ==
  /\ EndIn(queued \cup {w.message : w \in writers}) =>
       /\ ~scanning /\ "SCANNING" \in queued
       /\ \A w \in writers : w.message \notin Progressing
  /\ scanning => "SCANNING" \in queued
Closing == EndIn(received) =>
  Closed \/ \E h \in Requests : /\ discoveryWork[h].pc \in {"upsert", "write"}
                                /\ discoveryWork[h].report \in D!Ends
Received == received \subseteq queued /\ gone \subseteq received
              /\ Carried(flush.pending) \subseteq received
Queues == (~flush.on => Good(file, received)) /\ Good(flush.rest, received)
Telling == Received /\ Queues /\ Waits /\ InHands /\ ScanKnown /\ Closing
DiscoveryInv == QueueInv /\ DiscoveryTypes /\ (Quiet => Telling)

\* The parts of the invariant, in the next state.
LEMMA GoodPrime ==
  /\ Good(file, received)' <=> Good(file', received')
  /\ Good(flush.rest, received)' <=> Good(flush'.rest, received')
  /\ Carried(flush.pending)' = Carried(flush'.pending)
  /\ EndIn(received)' <=> EndIn(received')
  BY DEF Good, Carried, EndIn

\* What is known only grows: a queue stays good unless an end of the scan gets known.
LEMMA GoodTail ==
  ASSUME NEW s \in Items, s # <<>>, NEW known, Good(s, known)
  PROVE  Good(Tail(s), known)
<1>1. \A i \in DOMAIN Tail(s) : i + 1 \in DOMAIN s /\ Tail(s)[i] = s[i + 1] /\ i \in Nat
  BY DEF Items
<1>2. ASSUME NEW j \in DOMAIN Tail(s)
      PROVE  (\E i \in DOMAIN Tail(s) : i < j /\ Tail(s)[i].message \in D!Ends)
             => \E i \in DOMAIN s : i < j + 1 /\ s[i].message \in D!Ends
  <2> SUFFICES ASSUME NEW i \in DOMAIN Tail(s), i < j, Tail(s)[i].message \in D!Ends
               PROVE  i + 1 < j + 1 /\ s[i + 1].message \in D!Ends /\ i + 1 \in DOMAIN s
    OBVIOUS
  <2> QED
    BY <1>1
<1> QED
  BY <1>1, <1>2 DEF Good

\* When an end that stands first gets known, all progress behind it is.
LEMMA GoodGrows ==
  ASSUME NEW s \in Items, NEW known, Good(s, known), s # <<>>
  PROVE  Good(s, known \cup {Head(s).message})
<1> DEFINE m == Head(s).message
<1>1. 1 \in DOMAIN s /\ s[1].message = m /\ \A j \in DOMAIN s : j \in Nat /\ (j = 1 \/ 1 < j)
  BY DEF Items
<1> HIDE DEF m
<1>2. ASSUME NEW j \in DOMAIN s, s[j].message \in Progressing, EndIn(known \cup {m})
      PROVE  s[j].message \in known \cup {m}
  <2>1. CASE j = 1
    BY <1>1, <2>1
  <2>2. CASE 1 < j /\ EndIn(known)
    BY <1>2, <2>2 DEF Good
  <2>3. CASE 1 < j /\ m \in D!Ends
    BY <1>1, <1>2, <2>3 DEF Good
  <2> QED
    BY <1>1, <1>2, <2>1, <2>2, <2>3 DEF EndIn
<1>3. ASSUME NEW j \in DOMAIN s, s[j].message \in Progressing,
             \E i \in DOMAIN s : i < j /\ s[i].message \in D!Ends
      PROVE  s[j].message \in known
  BY <1>3 DEF Good
<1> QED
  BY <1>2, <1>3 DEF Good, m

\* Requests that leave the reports alone.
LEMMA RequestsTell ==
  ASSUME DiscoveryInv,
         UNCHANGED <<received, scanning, waiting, file, writers, flush, queued, gone, overlapped>>,
         disturbed => disturbed', discoveryWork' \in [Requests -> D!Work],
         \A h \in Requests : discoveryWork'[h] = discoveryWork[h] \/
           (~InHand(h) /\ discoveryWork'[h].pc \notin {"receive", "upsert", "write"}),
         session' \in DiscoveryRow,
         Closed => Closed'
  PROVE  DiscoveryInv'
<1> USE DEF DiscoveryInv
<1>1. QueueInv' /\ DiscoveryTypes'
  BY QueueRests DEF DiscoveryTypes
<1>2. ASSUME Quiet' PROVE Telling'
  <2>1. Telling
    BY <1>2 DEF Quiet
  <2>2. /\ \A h \in Requests : InHand(h)' <=> InHand(h)
        /\ \A h \in Requests : InHand(h) => discoveryWork'[h] = discoveryWork[h]
    BY DEF InHand
  <2>3. Received' /\ Queues' /\ ScanKnown'
    BY <2>1, GoodPrime DEF Telling, Received, Queues, ScanKnown, EndIn
  <2>4. Waits'
    <3>1. waiting # "NONE" => waiting \in Requests
      BY DEF DiscoveryTypes
    <3>2. /\ D!Queue!Sending' = D!Queue!Sending /\ D!Queue!GivenUp' = D!Queue!GivenUp
          /\ D!Queue!First' = D!Queue!First
      BY DEF D!Queue!Sending, D!Queue!GivenUp, D!Queue!First
    <3>3. waiting # "NONE" => (InHand(waiting)' <=> InHand(waiting))
      BY <2>2, <3>1 DEF InHand
    <3> QED
      BY <2>1, <3>2, <3>3 DEF Telling, Waits
  <2>5. InHands'
    <3>1. D!Queue!First' = D!Queue!First /\ (EndIn(received)' <=> EndIn(received))
      BY DEF D!Queue!First, EndIn
    <3> SUFFICES ASSUME NEW h \in Requests, InHand(h)'
                 PROVE  /\ waiting' = h /\ discoveryWork'[h].report = D!Queue!First'.message
                        /\ discoveryWork'[h].pc # "receive" =>
                             /\ discoveryWork'[h].report \in received'
                             /\ EndIn(received)' => discoveryWork'[h].report \notin Progressing
      BY DEF InHands
    <3> QED
      BY <2>1, <2>2, <3>1 DEF Telling, InHands
  <2>6. Closing'
    <3>1. EndIn(received)' <=> EndIn(received)
      BY DEF EndIn
    <3>2. \A h \in Requests :
              discoveryWork[h].pc \in {"upsert", "write"} => discoveryWork'[h] = discoveryWork[h]
      BY <2>2 DEF InHand
    <3> QED
      BY <2>1, <3>1, <3>2 DEF Telling, Closing
  <2> QED
    BY <2>3, <2>4, <2>5, <2>6 DEF Telling
<1> QED
  BY <1>1, <1>2

\* No report is under way.
NoReport == waiting = "NONE" /\ \A h \in Requests : ~InHand(h)

\* No report is under way when nobody waits, or the flush has nothing to send.
LEMMA NobodyWaits ==
  ASSUME DiscoveryTypes, Telling, waiting = "NONE" \/ flush.rest = <<>>
  PROVE  NoReport
<1>1. waiting = "NONE"
  BY DEF Telling, Waits, D!Queue!Sending
<1> QED
  BY <1>1, RequestsAssumption DEF Telling, InHands, NoReport

\* That stays so while requests and flush rest.
LEMMA AloneTells ==
  ASSUME NoReport, UNCHANGED <<waiting, discoveryWork>>
  PROVE  Waits' /\ InHands' /\ NoReport'
  BY DEF NoReport, Waits, InHands, InHand

\* What a restart or a report that failed disturbs is not told of.
LEMMA DisturbedTells ==
  ASSUME DiscoveryTypes, QueueInv', disturbed',
         discoveryWork' \in [Requests -> D!Work], waiting' \in Requests \cup {"NONE"},
         UNCHANGED <<received, session>>
  PROVE  DiscoveryInv'
  BY DEF DiscoveryInv, DiscoveryTypes, Quiet

\* An enqueue begins: a scan that ended reports that last.
LEMMA EnqueueReadTells ==
  ASSUME DiscoveryInv, NEW m \in D!Reports, D!Queue!EnqueueRead(m),
         UNCHANGED <<session, expired, received, discoveryWork, waiting, disturbed>>,
         \/ m = "SCANNING" /\ scanning' = scanning
         \/ m = "RESULTS" /\ scanning /\ scanning' = scanning
         \/ m \in D!Ends /\ scanning /\ ~scanning'
         \/ m = "CANCELED" /\ scanning' = scanning
  PROVE  DiscoveryInv'
<1> USE DEF DiscoveryInv
<1>1. QueueInv' /\ (~overlapped' => ~overlapped /\ ~D!Queue!Busy)
  BY EnqueueReadKeeps
<1>2. ASSUME Quiet' PROVE Telling'
  <2>1. Telling /\ ~D!Queue!Busy
    BY <1>1, <1>2 DEF Quiet
  <2>2. writers = {} /\ flush = D!Queue!Resting /\ UNCHANGED <<file, flush, queued, gone>>
        /\ m \notin queued
    BY <2>1 DEF D!Queue!Busy, D!Queue!EnqueueRead
  <2>3. Received' /\ Queues' /\ Closing'
    BY <2>1, <2>2, GoodPrime DEF Telling, Received, Queues, Closing, Closed, EndIn
  <2>4. Waits' /\ InHands'
    BY <2>1, <2>2, NobodyWaits, AloneTells DEF D!Queue!Resting
  <2>5. ScanKnown'
    <3>1. \A w \in writers' : w.message = m
      BY <2>2 DEF D!Queue!EnqueueRead
    <3>2. {w.message : w \in writers'} \subseteq {m}
      BY <3>1
    <3>3. EndIn(queued) => ~scanning /\ "SCANNING" \in queued
      BY <2>1 DEF Telling, ScanKnown, EndIn
    <3>4. scanning => "SCANNING" \in queued
      BY <2>1 DEF Telling, ScanKnown
    <3>5. EndIn(queued \cup {w.message : w \in writers'}) => EndIn(queued) \/ m \in D!Ends
      BY <3>2 DEF EndIn
    <3>6. EndIn(queued \cup {w.message : w \in writers'}) =>
             ~scanning' /\ "SCANNING" \in queued /\ m \notin Progressing
      BY <2>2, <3>3, <3>4, <3>5 DEF Progressing, D!Ends
    <3>7. scanning' => "SCANNING" \in queued
      BY <3>4
    <3>8. EndIn(queued \cup {w.message : w \in writers})'
            <=> EndIn(queued \cup {w.message : w \in writers'})
      BY <2>2 DEF EndIn
    <3> QED
      BY <2>2, <3>1, <3>6, <3>7, <3>8 DEF ScanKnown
  <2> QED
    BY <2>3, <2>4, <2>5 DEF Telling
<1> QED
  BY <1>1, <1>2 DEF DiscoveryTypes

\* An enqueue ends: nothing of a scan's progress comes behind its end.
LEMMA EnqueueTells ==
  ASSUME DiscoveryInv, NEW w \in writers, D!Queue!Enqueue(w),
         scanning' = (scanning \/ w.message = "SCANNING"),
         UNCHANGED <<session, expired, received, discoveryWork, waiting, disturbed>>
  PROVE  DiscoveryInv'
<1> USE DEF DiscoveryInv
<1>1. QueueInv' /\ UNCHANGED <<flush, gone, overlapped>>
  BY EnqueueKeeps DEF D!Queue!Enqueue
<1>2. ASSUME Quiet' PROVE Telling'
  <2>1. Telling /\ Orderly
    BY <1>1, <1>2 DEF Quiet, QueueInv
  <2>2. /\ flush = D!Queue!Resting /\ w.items = file /\ writers' = {}
        /\ queued' = queued \cup {w.message} /\ w.message \in D!Reports
        /\ Carried(file) \subseteq queued
    BY <2>1 DEF Orderly, D!Queue!Enqueue, QueueInv, QueueTypes
  <2>3. EndIn(queued) \/ w.message \in D!Ends
          => w.message \notin Progressing /\ ~scanning /\ "SCANNING" \in queued
    BY <2>1 DEF Telling, ScanKnown, EndIn
  <2>4. PICK item \in D!Queue!Item : file' = Append(file, item) /\ item.message = w.message
            /\ item.tries = 0
    BY <2>2, TriesAssumption DEF D!Queue!Enqueue, D!Queue!Item
  <2>5. Good(file', received)
    <3>1. Good(file, received)
      BY <2>1, <2>2 DEF Telling, Queues, D!Queue!Resting
    <3>2. file \in Items
      BY DEF QueueInv, QueueTypes
    <3>3. \A j \in DOMAIN file' : \/ j \in DOMAIN file /\ file'[j] = file[j]
                                  \/ j = Len(file) + 1 /\ file'[j] = item
      BY <2>4, <3>2, AppendTo
    <3>4. EndIn(received) => EndIn(queued)
      BY <2>1 DEF Telling, Received, EndIn
    <3>5. ASSUME NEW i \in DOMAIN file, file[i].message \in D!Ends PROVE EndIn(queued)
      BY <2>2, <3>5 DEF Carried, EndIn
    <3>6. \A j \in DOMAIN file : j \in Nat /\ j <= Len(file)
      BY <3>2 DEF Items
    <3>7. ASSUME NEW j \in DOMAIN file', file'[j].message \in Progressing,
                 EndIn(received) \/ \E i \in DOMAIN file' : i < j /\ file'[i].message \in D!Ends
          PROVE  file'[j].message \in received
      <4>1. CASE j \in DOMAIN file /\ file'[j] = file[j]
        <5>1. \A i \in DOMAIN file' : i < j => i \in DOMAIN file /\ file'[i] = file[i]
          BY <3>2, <3>3, <3>6, <4>1 DEF Items
        <5> QED
          BY <3>1, <3>7, <4>1, <5>1 DEF Good
      <4>2. CASE j = Len(file) + 1 /\ file'[j] = item
        <5>1. ~EndIn(queued)
          BY <2>3, <2>4, <3>7, <4>2
        <5>2. \A i \in DOMAIN file' : i < j => i \in DOMAIN file /\ file'[i] = file[i]
          BY <3>2, <3>3, <4>2 DEF Items
        <5> QED
          BY <3>4, <3>5, <3>7, <5>1, <5>2
      <4> QED
        BY <3>3, <4>1, <4>2
    <3>8. \A j \in DOMAIN file' : file'[j].tries # 0 => file'[j].message \in received
      BY <2>4, <3>1, <3>3 DEF Good
    <3> QED
      BY <3>7, <3>8 DEF Good
  <2>6. Received' /\ Queues' /\ Closing'
    BY <1>1, <2>1, <2>2, <2>5, GoodPrime DEF Telling, Received, Queues, Closing, Closed, EndIn
  <2>7. Waits' /\ InHands'
    BY <2>1, <2>2, NobodyWaits, AloneTells DEF D!Queue!Resting
  <2>8. ScanKnown'
    <3>1. EndIn(queued \cup {u.message : u \in writers})' => EndIn(queued) \/ w.message \in D!Ends
      BY <2>2 DEF EndIn
    <3>2. w.message = "SCANNING" => w.message \in Progressing
      BY DEF Progressing
    <3>3. scanning => "SCANNING" \in queued
      BY <2>1 DEF Telling, ScanKnown
    <3> QED
      BY <2>2, <2>3, <3>1, <3>2, <3>3 DEF ScanKnown
  <2> QED
    BY <2>6, <2>7, <2>8 DEF Telling
<1> QED
  BY <1>1, <1>2 DEF DiscoveryTypes

\* The flush begins, and ends.
LEMMA FlushTells ==
  ASSUME DiscoveryInv, D!Queue!FlushRead \/ D!Queue!FlushEnds,
         UNCHANGED <<session, expired, received, discoveryWork, waiting, disturbed, scanning>>
  PROVE  DiscoveryInv'
<1> USE DEF DiscoveryInv
<1>1. QueueInv' /\ UNCHANGED <<writers, queued, gone>>
  BY FlushReadKeeps, FlushEndsKeeps DEF D!Queue!FlushRead, D!Queue!FlushEnds
<1>2. ASSUME Quiet' PROVE Telling'
  <2>1. Telling /\ Orderly
    BY <1>2 DEF Quiet, QueueInv, D!Queue!FlushRead, D!Queue!FlushEnds
  <2>2. NoReport
    <3>1. flush.rest = <<>>
      <4>1. CASE D!Queue!FlushRead
        BY <4>1 DEF D!Queue!FlushRead, D!Queue!Resting
      <4>2. CASE D!Queue!FlushEnds
        BY <4>2, FlushEndsKeeps
      <4> QED
        BY <4>1, <4>2
    <3> QED
      BY <2>1, <3>1, NobodyWaits
  <2>3. Received' /\ Queues'
    <3>1. CASE D!Queue!FlushRead
      <4>1. ~flush.on /\ flush'.on /\ flush'.rest = file /\ flush'.pending = <<>>
        BY <1>2, <3>1, FlushReadKeeps DEF Quiet, D!Queue!FlushRead, D!Queue!Resting
      <4>2. Carried(<<>>) = {}
        BY DEF Carried
      <4> QED
        BY <1>1, <2>1, <4>1, <4>2, GoodPrime DEF Telling, Received, Queues
    <3>2. CASE D!Queue!FlushEnds
      <4>1. file' = flush.pending /\ flush' = D!Queue!Resting /\ flush'.rest = <<>>
            /\ flush'.pending = <<>>
        BY <3>2 DEF D!Queue!FlushEnds, D!Queue!Resting
      <4>2. Good(<<>>, received) /\ Carried(<<>>) = {}
        BY DEF Good, Carried
      <4>3. Good(flush.pending, received)
        BY <2>1 DEF Telling, Received, Carried, Good
      <4> QED
        BY <1>1, <2>1, <4>1, <4>2, <4>3, GoodPrime DEF Telling, Received, Queues
    <3> QED
      BY <3>1, <3>2
  <2>4. Waits' /\ InHands'
    BY <2>2, AloneTells
  <2>5. Closing' /\ ScanKnown'
    BY <1>1, <2>1 DEF Telling, Closing, ScanKnown, Closed, EndIn
  <2> QED
    BY <2>3, <2>4, <2>5 DEF Telling
<1> QED
  BY <1>1, <1>2 DEF DiscoveryTypes

\* The flush takes a report that is known.
LEMMA TakenTells ==
  ASSUME DiscoveryInv, QueueInv', DiscoveryTypes', Quiet => D!Queue!First.message \in received,
         UNCHANGED <<file, writers, queued, overlapped, received, scanning>>,
         disturbed => disturbed',
         D!Queue!Sending, flush'.on = flush.on, flush'.rest = Tail(flush.rest),
         flush.pending \in Items
           => Carried(flush'.pending) \subseteq Carried(flush.pending) \cup {D!Queue!First.message},
         gone' \subseteq gone \cup {D!Queue!First.message}, Quiet => NoReport', Closing => Closing'
  PROVE  DiscoveryInv'
<1> USE DEF DiscoveryInv
<1> SUFFICES ASSUME Quiet' PROVE Telling'
  OBVIOUS
<1>1. Quiet /\ Telling
  BY DEF Quiet
<1>2. flush.rest \in Items /\ flush.rest # <<>> /\ flush.pending \in Items
  BY DEF QueueInv, QueueTypes, D!Queue!Sending
<1>3. Received' /\ Queues'
  <2>1. Good(Tail(flush.rest), received)
    BY <1>1, <1>2, GoodTail DEF Telling, Queues
  <2> QED
    BY <1>1, <1>2, <2>1, GoodPrime DEF Telling, Received, Queues
<1>4. Waits' /\ InHands'
  BY <1>1 DEF NoReport, Waits, InHands, InHand
<1>5. ScanKnown'
  BY <1>1 DEF Telling, ScanKnown, EndIn
<1> QED
  BY <1>1, <1>3, <1>4, <1>5 DEF Telling

\* The answer comes, or the report is given up.
LEMMA AnsweredTells ==
  ASSUME DiscoveryInv, D!Answered \/ D!GiveUp
  PROVE  DiscoveryInv'
<1> USE DEF DiscoveryInv
<1>1. /\ D!Queue!Sent \/ D!Queue!GiveUp
      /\ D!Queue!Sending /\ flush' = D!Queue!Onward /\ gone' = gone \cup {D!Queue!First.message}
      /\ UNCHANGED <<file, writers, queued, overlapped>>
      /\ UNCHANGED <<session, expired, received, discoveryWork, disturbed, scanning>>
  BY DEF D!Answered, D!GiveUp, D!Queue!Sent, D!Queue!GiveUp, D!cloud
<1>2. QueueInv' /\ QueueTypes
  BY <1>1, SentKeeps DEF QueueInv
<1>3. flush'.on = flush.on /\ flush'.rest = Tail(flush.rest) /\ flush'.pending = flush.pending
  BY <1>1, <1>2, OnwardIs
<1>4. DiscoveryTypes'
  BY <1>1 DEF DiscoveryTypes, D!Answered, D!GiveUp, D!Nobody
<1>5. ASSUME Quiet PROVE D!Queue!First.message \in received /\ NoReport'
  <2>1. Telling /\ Orderly
    BY <1>5 DEF Quiet, QueueInv
  <2>2. CASE D!Answered
    <3>1. waiting # "NONE" /\ waiting \in Requests /\ ~InHand(waiting) /\ waiting' = "NONE"
      BY <2>2 DEF D!Answered, D!Nobody, D!Idle, DiscoveryTypes, InHand
    <3>2. \A h \in Requests : ~InHand(h)
      BY <2>1, <3>1 DEF Telling, InHands
    <3> QED
      BY <1>1, <2>1, <3>1, <3>2 DEF Telling, Waits, NoReport, InHand
  <2>3. CASE D!GiveUp
    <3>1. waiting = "NONE" /\ waiting' = waiting
      BY <2>1, <2>3 DEF Telling, Waits, D!GiveUp, D!Queue!GiveUp
    <3>2. NoReport /\ NoReport'
      BY <1>1, <2>1, <3>1, NobodyWaits DEF NoReport, InHand
    <3>3. D!Queue!First = Head(flush.rest) /\ flush.rest \in Items /\ flush.rest # <<>>
          /\ D!Queue!First.tries = MaxTries /\ 1 \in DOMAIN flush.rest
          /\ flush.rest[1] = Head(flush.rest)
      BY <1>2, <2>3, TailOf DEF D!Queue!First, QueueTypes, D!GiveUp, D!Queue!GiveUp,
         D!Queue!Sending, D!Queue!GivenUp
    <3>4. D!Queue!First.message \in received
      BY <2>1, <3>3, TriesAssumption DEF Telling, Queues, Good
    <3> QED
      BY <3>2, <3>4
  <2> QED
    BY <2>2, <2>3
<1>6. Closing => Closing'
  BY <1>1 DEF Closing, Closed, EndIn
<1> QED
  BY <1>1, <1>2, <1>3, <1>4, <1>5, <1>6, TakenTells

\* A request that ends early disturbs the report it has in hand; what its answer kept waiting
\* is tried again.
LEMMA DieTells ==
  ASSUME DiscoveryInv, NEW h \in Requests, D!Die(h)
  PROVE  DiscoveryInv'
<1> USE DEF DiscoveryInv
<1>1. /\ discoveryWork' = [discoveryWork EXCEPT ![h] = D!Idle]
      /\ disturbed' = (disturbed \/ InHand(h))
      /\ UNCHANGED <<session, expired, received, scanning>>
      /\ \/ waiting = h /\ D!Queue!Failed /\ waiting' = "NONE"
         \/ UNCHANGED <<waiting, file, writers, flush, queued, gone, overlapped>>
  BY DEF D!Die, D!Finish, D!Turn, D!Nobody, D!queue, InHand
<1>2. D!Idle \in D!Work /\ D!Idle.pc \notin {"receive", "upsert", "write"}
  BY DEF D!Work, D!Idle
<1>3. /\ discoveryWork' \in [Requests -> D!Work] /\ DiscoveryTypes'
      /\ \A g \in Requests : discoveryWork'[g] = IF g = h THEN D!Idle ELSE discoveryWork[g]
  BY <1>1, <1>2 DEF DiscoveryTypes
<1>4. QueueInv'
  BY <1>1, FailedKeeps, QueueRests
<1>5. CASE InHand(h)
  BY <1>1, <1>3, <1>4, <1>5, DisturbedTells DEF DiscoveryTypes
<1>6. CASE ~InHand(h) /\ UNCHANGED <<waiting, file, writers, flush, queued, gone, overlapped>>
  <2>1. (Closed => Closed') /\ session' \in DiscoveryRow
    BY <1>1 DEF Closed, DiscoveryTypes
  <2> QED
    BY <1>1, <1>2, <1>3, <1>6, <2>1, RequestsTell
<1>7. CASE ~InHand(h) /\ waiting = h /\ D!Queue!Failed /\ waiting' = "NONE"
  <2>1. ASSUME Quiet PROVE D!Queue!First.message \in received /\ NoReport'
    <3>1. Telling /\ h # "NONE"
      BY <2>1, RequestsAssumption
    <3>2. \A g \in Requests : ~InHand(g)
      BY <1>7, <3>1 DEF Telling, InHands
    <3>3. \A g \in Requests : ~InHand(g)'
      BY <1>2, <1>3, <3>2 DEF InHand
    <3> QED
      BY <1>7, <3>1, <3>3 DEF Telling, Waits, NoReport
  <2>2. /\ D!Queue!Sending /\ gone' = gone /\ UNCHANGED <<file, writers, queued, overlapped>>
        /\ D!Queue!First = Head(flush.rest)
    BY <1>7 DEF D!Queue!Failed, D!Queue!First
  <2>3. /\ flush'.on = flush.on /\ flush'.rest = Tail(flush.rest)
        /\ \E item \in D!Queue!Item :
              item.message = Head(flush.rest).message
              /\ flush'.pending = Append(flush.pending, item)
    BY <1>7, FailedIs DEF QueueInv
  <2>4. flush.pending \in Items
          => Carried(flush'.pending) \subseteq Carried(flush.pending) \cup {D!Queue!First.message}
    BY <2>2, <2>3, AppendTo
  <2>5. Closing => Closing'
    <3>1. \A g \in Requests :
              discoveryWork[g].pc \in {"upsert", "write"} => discoveryWork'[g] = discoveryWork[g]
      BY <1>3, <1>7 DEF InHand
    <3>2. (Closed <=> Closed') /\ (EndIn(received) <=> EndIn(received)')
      BY <1>1 DEF Closed, EndIn
    <3> QED
      BY <3>1, <3>2 DEF Closing
  <2>6. disturbed => disturbed'
    BY <1>1
  <2> QED
    BY <1>1, <1>3, <1>4, <2>1, <2>2, <2>3, <2>4, <2>5, <2>6, TakenTells
<1> QED
  BY <1>1, <1>5, <1>6, <1>7

\* A report that is not answered, and a restart, disturb.
LEMMA DisturbingTells ==
  ASSUME DiscoveryInv, D!Unanswered \/ D!Restart
  PROVE  DiscoveryInv'
<1>1. QueueInv' /\ disturbed' /\ waiting' = "NONE" /\ UNCHANGED <<session, received, discoveryWork>>
  BY FailedKeeps, RestartKeeps DEF DiscoveryInv, D!Unanswered, D!Restart, D!Nobody, D!cloud
<1> QED
  BY <1>1, DisturbedTells DEF DiscoveryInv, DiscoveryTypes

\* A report is sent: one at a time.
LEMMA SendTells ==
  ASSUME DiscoveryInv, NEW h \in Requests, D!Send(h)
  PROVE  DiscoveryInv'
<1> USE DEF DiscoveryInv
<1> DEFINE job == [pc |-> "receive", report |-> D!Queue!First.message]
<1>1. /\ D!Queue!Sending /\ ~D!Queue!GivenUp /\ waiting = "NONE" /\ waiting' = h
      /\ discoveryWork[h] = D!Idle /\ discoveryWork' = [discoveryWork EXCEPT ![h] = job]
      /\ UNCHANGED <<session, expired, received, scanning, disturbed,
                     file, writers, flush, queued, gone, overlapped>>
  BY DEF D!Send, D!Begin, D!Nobody, D!queue
<1>2. job \in D!Work /\ job.pc = "receive" /\ job.report = D!Queue!First.message
  <2>1. D!Queue!First \in D!Queue!Item
    BY <1>1, OnwardIs DEF QueueInv
  <2> QED
    BY <2>1 DEF D!Work, D!Queue!Item
<1> HIDE DEF job
<1>3. /\ DiscoveryTypes' /\ QueueInv'
      /\ \A g \in Requests : discoveryWork'[g] = IF g = h THEN job ELSE discoveryWork[g]
  BY <1>1, <1>2, QueueRests DEF DiscoveryTypes
<1>4. ASSUME Quiet' PROVE Telling'
  <2>1. Telling /\ NoReport
    BY <1>1, <1>4, NobodyWaits DEF Quiet
  <2>2. Received' /\ Queues' /\ ScanKnown'
    BY <1>1, <2>1, GoodPrime DEF Telling, Received, Queues, ScanKnown, EndIn
  <2>3. D!Queue!Sending' = D!Queue!Sending /\ D!Queue!GivenUp' = D!Queue!GivenUp
        /\ D!Queue!First' = D!Queue!First
    BY <1>1 DEF D!Queue!Sending, D!Queue!GivenUp, D!Queue!First
  <2>4. InHand(h)' /\ \A g \in Requests : InHand(g)' => g = h
    BY <1>2, <1>3, <2>1 DEF InHand, NoReport
  <2>5. Waits'
    <3>1. InHand(waiting)'
      BY <1>1, <1>2, <1>3 DEF InHand
    <3> QED
      BY <1>1, <2>3, <3>1 DEF Waits
  <2>6. InHands'
    <3> SUFFICES ASSUME NEW g \in Requests, InHand(g)'
                 PROVE  /\ waiting' = g /\ discoveryWork'[g].report = D!Queue!First'.message
                        /\ discoveryWork'[g].pc = "receive"
      BY DEF InHands
    <3> QED
      BY <1>1, <1>2, <1>3, <2>3, <2>4
  <2>7. Closing'
    <3>1. EndIn(received)' <=> EndIn(received)
      BY <1>1 DEF EndIn
    <3>2. EndIn(received) => Closed
      BY <2>1 DEF Telling, Closing, NoReport, InHand
    <3> QED
      BY <1>1, <3>1, <3>2 DEF Closing, Closed
  <2> QED
    BY <2>2, <2>5, <2>6, <2>7 DEF Telling
<1> QED
  BY <1>3, <1>4

\* The row of a message comes first; a message that is known, or late, is done with.
LEMMA ReceiveTells ==
  ASSUME DiscoveryInv, NEW h \in Requests, D!Receive(h)
  PROVE  DiscoveryInv'
<1> USE DEF DiscoveryInv
<1>1. PICK m : m = discoveryWork[h].report
  OBVIOUS
<1>2. PICK job : discoveryWork' = [discoveryWork EXCEPT ![h] = job] /\ job \in D!Work
        /\ \/ job = D!Idle /\ (m \in received \/ D!Late)
           \/ /\ job.pc \in {"upsert", "write"} /\ job.report = m
              /\ m \notin received /\ ~D!Late
  <2>1. CASE D!Report(h) \in received \/ D!Late
    BY <1>1, <2>1 DEF D!Receive, D!Finish, D!Turn, D!Report, D!Work
  <2>2. CASE ~(D!Report(h) \in received \/ D!Late)
    <3>1. PICK pc \in {"upsert", "write"} :
            discoveryWork' = [discoveryWork EXCEPT ![h] = [discoveryWork[h] EXCEPT !.pc = pc]]
      BY <2>2 DEF D!Receive, D!Turn
    <3>2. PICK job : job = [discoveryWork[h] EXCEPT !.pc = pc]
      OBVIOUS
    <3>3. discoveryWork[h] \in [pc : {"receive", "upsert", "write"}, report : D!Reports]
      BY DEF D!Receive, D!At, DiscoveryTypes, D!Work, D!Idle
    <3>4. job.pc = pc /\ job.report = m
          /\ job \in [pc : {"receive", "upsert", "write"}, report : D!Reports]
      BY <1>1, <3>2, <3>3
    <3>5. job \in D!Work
      BY <3>4 DEF D!Work
    <3> QED
      BY <1>1, <2>2, <3>1, <3>2, <3>4, <3>5 DEF D!Report
  <2> QED
    BY <2>1, <2>2
<1>3. /\ discoveryWork[h].pc = "receive" /\ m \in D!Reports /\ received' = received \cup {m}
      /\ UNCHANGED <<session, expired, scanning, waiting, disturbed,
                     file, writers, flush, queued, gone, overlapped>>
  <2>1. discoveryWork[h] \in [pc : {"receive", "upsert", "write"}, report : D!Reports]
    BY DEF D!Receive, D!At, DiscoveryTypes, D!Work, D!Idle
  <2> QED
    BY <1>1, <2>1 DEF D!Receive, D!At, D!Report, D!gateway, D!queue
<1>4. /\ DiscoveryTypes' /\ QueueInv'
      /\ \A g \in Requests : discoveryWork'[g] = IF g = h THEN job ELSE discoveryWork[g]
  BY <1>2, <1>3, QueueRests DEF DiscoveryTypes
<1>5. ASSUME Quiet' PROVE Telling'
  <2>1. Telling /\ Orderly
    BY <1>3, <1>5 DEF Quiet, QueueInv
  <2>2. waiting = h /\ m = D!Queue!First.message /\ \A g \in Requests : InHand(g) => g = h
    BY <1>1, <1>3, <2>1 DEF Telling, InHands, InHand
  <2>3. D!Queue!Sending /\ ~D!Queue!GivenUp /\ h # "NONE"
    BY <2>1, <2>2, RequestsAssumption DEF Telling, Waits
  <2>4. flush.rest \in Items /\ flush.rest # <<>> /\ m = Head(flush.rest).message /\ flush.on
    BY <2>1, <2>2, <2>3 DEF QueueInv, QueueTypes, D!Queue!Sending, D!Queue!First, Orderly,
       D!Queue!Resting
  <2>5. m \in queued
    BY <2>1, <2>4, TailOf DEF Orderly
  <2>6. Received' /\ Queues' /\ ScanKnown'
    <3>1. Good(flush.rest, received')
      BY <1>3, <2>1, <2>4, GoodGrows DEF Telling, Queues
    <3> QED
      BY <1>3, <2>1, <2>4, <2>5, <3>1, GoodPrime DEF Telling, Received, Queues, ScanKnown, EndIn
  <2>7. D!Queue!Sending' = D!Queue!Sending /\ D!Queue!GivenUp' = D!Queue!GivenUp
        /\ D!Queue!First' = D!Queue!First
    BY <1>3 DEF D!Queue!Sending, D!Queue!GivenUp, D!Queue!First
  <2>8. Waits'
    BY <1>3, <2>2, <2>3, <2>7 DEF Waits
  <2>9. InHands'
    <3>1. \A g \in Requests : InHand(g)' => g = h
      BY <1>4, <2>2 DEF InHand
    <3>2. InHand(h)' => job.pc \in {"upsert", "write"} /\ job.report = m /\ m \notin received
      BY <1>2, <1>4 DEF InHand, D!Idle
    <3>3. m \notin received /\ EndIn(received \cup {m}) => m \notin Progressing
      <4>1. 1 \in DOMAIN flush.rest /\ flush.rest[1].message = m
        BY <2>4, TailOf
      <4>2. EndIn(received) /\ m \in Progressing => m \in received
        BY <2>1, <4>1 DEF Telling, Queues, Good
      <4>3. m \in D!Ends => m \notin Progressing
        BY DEF D!Ends, Progressing
      <4> QED
        BY <4>2, <4>3 DEF EndIn
    <3>4. EndIn(received)' <=> EndIn(received \cup {m})
      BY <1>3 DEF EndIn
    <3> SUFFICES ASSUME InHand(h)'
                 PROVE  /\ waiting' = h /\ discoveryWork'[h].report = D!Queue!First'.message
                        /\ discoveryWork'[h].report \in received'
                        /\ EndIn(received)' => discoveryWork'[h].report \notin Progressing
      BY <3>1 DEF InHands
    <3> QED
      BY <1>3, <1>4, <2>2, <2>7, <3>2, <3>3, <3>4
  <2>10. Closing'
    <3>1. EndIn(received)' => EndIn(received) \/ m \in D!Ends
      BY <1>3 DEF EndIn
    <3>2. EndIn(received) => Closed
      BY <1>3, <2>1, <2>2 DEF Telling, Closing, InHand
    <3>3. D!Late => Closed
      BY DEF D!Late, Closed, D!Closed
    <3>4. m \in D!Ends /\ m \in received => EndIn(received)
      BY DEF EndIn
    <3>5. Closed' <=> Closed
      BY <1>3 DEF Closed
    <3>6. CASE job = D!Idle
      BY <1>2, <3>1, <3>2, <3>3, <3>4, <3>5, <3>6 DEF Closing, D!Idle
    <3>7. CASE job.pc \in {"upsert", "write"} /\ job.report = m
      BY <1>4, <3>1, <3>2, <3>5, <3>7 DEF Closing
    <3> QED
      BY <1>2, <3>6, <3>7
  <2> QED
    BY <2>6, <2>8, <2>9, <2>10 DEF Telling
<1> QED
  BY <1>4, <1>5


\* The cameras of a report become candidates, then the status is written.
LEMMA UpsertTells ==
  ASSUME DiscoveryInv, NEW h \in Requests, D!Upsert(h)
  PROVE  DiscoveryInv'
<1> USE DEF DiscoveryInv
<1>1. PICK job : /\ discoveryWork' = [discoveryWork EXCEPT ![h] = job] /\ job \in D!Work
                 /\ job.pc = "write" /\ job.report = discoveryWork[h].report
  <2>1. PICK job : job = [discoveryWork[h] EXCEPT !.pc = "write"]
    OBVIOUS
  <2>2. discoveryWork[h] \in [pc : {"receive", "upsert", "write"}, report : D!Reports]
    BY DEF D!Upsert, D!At, DiscoveryTypes, D!Work, D!Idle
  <2>3. job.pc = "write" /\ job.report = discoveryWork[h].report
        /\ job \in [pc : {"receive", "upsert", "write"}, report : D!Reports]
    BY <2>1, <2>2
  <2> QED
    BY <2>1, <2>3 DEF D!Upsert, D!Turn, D!Work
<1>2. /\ discoveryWork[h].pc = "upsert"
      /\ UNCHANGED <<session, expired, received, scanning, waiting, disturbed,
                     file, writers, flush, queued, gone, overlapped>>
  BY DEF D!Upsert, D!At, D!gateway, D!queue
<1>3. /\ DiscoveryTypes' /\ QueueInv'
      /\ \A g \in Requests : discoveryWork'[g] = IF g = h THEN job ELSE discoveryWork[g]
  BY <1>1, <1>2, QueueRests DEF DiscoveryTypes
<1>4. ASSUME Quiet' PROVE Telling'
  <2>1. Telling
    BY <1>2, <1>4 DEF Quiet
  <2>2. Received' /\ Queues' /\ ScanKnown'
    BY <1>2, <2>1, GoodPrime DEF Telling, Received, Queues, ScanKnown, EndIn
  <2>3. \A g \in Requests : /\ InHand(g)' <=> InHand(g)
                            /\ discoveryWork'[g].pc = discoveryWork[g].pc \/ g = h
                            /\ InHand(g) => discoveryWork'[g].report = discoveryWork[g].report
    BY <1>1, <1>2, <1>3 DEF InHand
  <2>4. /\ D!Queue!Sending' = D!Queue!Sending /\ D!Queue!GivenUp' = D!Queue!GivenUp
        /\ D!Queue!First' = D!Queue!First /\ (EndIn(received)' <=> EndIn(received))
        /\ Closed' <=> Closed
    BY <1>2 DEF D!Queue!Sending, D!Queue!GivenUp, D!Queue!First, EndIn, Closed
  <2>5. Waits'
    <3>1. waiting # "NONE" => waiting \in Requests
      BY DEF DiscoveryTypes
    <3>2. waiting # "NONE" => (InHand(waiting)' <=> InHand(waiting))
      BY <1>2, <2>3, <3>1 DEF InHand
    <3> QED
      BY <1>2, <2>1, <2>4, <3>2 DEF Telling, Waits
  <2>6. InHands'
    <3> SUFFICES ASSUME NEW g \in Requests, InHand(g)'
                 PROVE  /\ waiting' = g /\ discoveryWork'[g].report = D!Queue!First'.message
                        /\ discoveryWork'[g].pc # "receive" =>
                             /\ discoveryWork'[g].report \in received'
                             /\ EndIn(received)' => discoveryWork'[g].report \notin Progressing
      BY DEF InHands
    <3>1. g = h
      BY <1>2, <2>1, <2>3 DEF Telling, InHands, InHand
    <3>2. InHand(h) /\ discoveryWork[h].pc # "receive"
      BY <1>2 DEF InHand
    <3> QED
      BY <1>2, <2>1, <2>3, <2>4, <3>1, <3>2 DEF Telling, InHands
  <2>7. Closing'
    <3> SUFFICES ASSUME NEW g \in Requests, discoveryWork[g].pc \in {"upsert", "write"},
                        discoveryWork[g].report \in D!Ends
                 PROVE  /\ discoveryWork'[g].pc \in {"upsert", "write"}
                        /\ discoveryWork'[g].report \in D!Ends
      BY <2>1, <2>4 DEF Telling, Closing
    <3> QED
      BY <1>1, <1>3
  <2> QED
    BY <2>2, <2>5, <2>6, <2>7 DEF Telling
<1> QED
  BY <1>3, <1>4

\* The status is written: when an end of the scan is known, it is one that closes the session.
LEMMA WriteTells ==
  ASSUME DiscoveryInv, NEW h \in Requests, D!Write(h)
  PROVE  DiscoveryInv'
<1> USE DEF DiscoveryInv
<1>1. PICK m : m = discoveryWork[h].report
  OBVIOUS
<1>2. discoveryWork[h] \in [pc : {"receive", "upsert", "write"}, report : D!Reports]
      /\ discoveryWork[h].pc = "write" /\ m \in D!Reports
  BY <1>1 DEF D!Write, D!At, DiscoveryTypes, D!Work, D!Idle
<1>3. /\ discoveryWork' = [discoveryWork EXCEPT ![h] = D!Idle]
      /\ session' = [session EXCEPT !.status = D!StatusOf(m)]
      /\ UNCHANGED <<expired, received, scanning, waiting, disturbed,
                     file, writers, flush, queued, gone, overlapped>>
  BY <1>1 DEF D!Write, D!Finish, D!Turn, D!Report, D!gateway, D!queue
<1>4. D!Idle \in D!Work /\ D!Idle.pc = "idle"
  BY DEF D!Work, D!Idle
<1>5. session' \in DiscoveryRow /\ session'.status = D!StatusOf(m)
  <2>1. D!StatusOf(m) \in D!Open \cup D!Closed
    BY DEF D!StatusOf, D!Open, D!Closed
  <2> QED
    BY <1>3, <2>1 DEF DiscoveryTypes, DiscoveryRow
<1>6. /\ DiscoveryTypes' /\ QueueInv'
      /\ \A g \in Requests : discoveryWork'[g] = IF g = h THEN D!Idle ELSE discoveryWork[g]
  BY <1>3, <1>4, <1>5, QueueRests DEF DiscoveryTypes
<1>7. ASSUME Quiet' PROVE Telling'
  <2>1. Telling
    BY <1>3, <1>7 DEF Quiet
  <2>2. Received' /\ Queues' /\ ScanKnown'
    BY <1>3, <2>1, GoodPrime DEF Telling, Received, Queues, ScanKnown, EndIn
  <2>3. /\ waiting = h /\ m = D!Queue!First.message /\ m \in received
        /\ EndIn(received) => m \notin Progressing
        /\ \A g \in Requests : InHand(g) => g = h
    BY <1>1, <1>2, <2>1 DEF Telling, InHands, InHand
  <2>4. \A g \in Requests : ~InHand(g)'
    BY <1>4, <1>6, <2>3 DEF InHand
  <2>5. /\ D!Queue!Sending' = D!Queue!Sending /\ D!Queue!GivenUp' = D!Queue!GivenUp
        /\ D!Queue!First' = D!Queue!First /\ (EndIn(received)' <=> EndIn(received))
    BY <1>3 DEF D!Queue!Sending, D!Queue!GivenUp, D!Queue!First, EndIn
  <2>6. Waits' /\ InHands'
    BY <1>3, <2>1, <2>3, <2>4, <2>5 DEF Telling, Waits, InHands
  <2>7. Closing'
    <3>1. SUFFICES ASSUME EndIn(received) PROVE Closed'
      BY <2>5 DEF Closing
    <3>2. m \in {"COMPLETED", "FAILED", "CANCELED"}
      BY <1>2, <2>3, <3>1 DEF D!Reports, Progressing
    <3>3. D!StatusOf(m) \in D!Closed
      BY <3>2 DEF D!StatusOf, D!Closed
    <3> QED
      BY <1>5, <3>3 DEF Closed
  <2> QED
    BY <2>2, <2>6, <2>7 DEF Telling
<1> QED
  BY <1>6, <1>7

\* The user's requests, and the time.
LEMMA AskedTells ==
  ASSUME DiscoveryInv,
         \/ D!Start \/ D!Lapse \/ D!Expire
         \/ \E h \in Requests : D!CancelRead(h) \/ D!Cancel(h) \/ D!ConfirmRead(h) \/ D!Confirm(h)
  PROVE  DiscoveryInv'
<1> USE DEF DiscoveryInv
<1>1. /\ UNCHANGED <<received, scanning, waiting, disturbed>>
      /\ UNCHANGED <<file, writers, flush, queued, gone, overlapped>>
  BY DEF D!Start, D!Lapse, D!Expire, D!CancelRead, D!Cancel, D!ConfirmRead, D!Confirm,
     D!gateway, D!queue
<1>2. session' \in DiscoveryRow
  <2>1. session \in DiscoveryRow
    BY DEF DiscoveryTypes
  <2>2. session' \in {session, [status |-> "COMPLETED", confirmed |-> TRUE]} \/
        \E s \in {"DISPATCHED", "EXPIRED", "CANCELED"} : session' = [session EXCEPT !.status = s]
    BY DEF D!Start, D!Lapse, D!Expire, D!CancelRead, D!Cancel, D!ConfirmRead, D!Confirm
  <2>3. {"DISPATCHED", "EXPIRED", "CANCELED", "COMPLETED"} \subseteq D!Open \cup D!Closed
    BY DEF D!Open, D!Closed
  <2>4. ASSUME NEW s \in D!Open \cup D!Closed PROVE [session EXCEPT !.status = s] \in DiscoveryRow
    BY <2>1 DEF DiscoveryRow
  <2>5. [status |-> "COMPLETED", confirmed |-> TRUE] \in DiscoveryRow
    BY <2>3 DEF DiscoveryRow
  <2>6. ASSUME NEW s \in {"DISPATCHED", "EXPIRED", "CANCELED"},
               session' = [session EXCEPT !.status = s]
        PROVE  session' \in DiscoveryRow
    BY <2>3, <2>4, <2>6
  <2> QED
    BY <2>1, <2>2, <2>5, <2>6
<1>3. Closed => Closed'
  BY DEF Closed, DiscoveryTypes, DiscoveryRow, D!Open, D!Closed,
         D!Start, D!Lapse, D!Expire, D!CancelRead, D!Cancel, D!ConfirmRead, D!Confirm
<1>4. /\ discoveryWork' \in [Requests -> D!Work]
      /\ \A h \in Requests : discoveryWork'[h] = discoveryWork[h] \/
           (~InHand(h) /\ discoveryWork'[h].pc \notin {"receive", "upsert", "write"})
  <2>1. CASE D!Start \/ D!Lapse \/ D!Expire
    BY <2>1 DEF D!Start, D!Lapse, D!Expire, DiscoveryTypes
  <2>2. CASE \E h \in Requests : D!CancelRead(h) \/ D!Cancel(h) \/ D!ConfirmRead(h) \/ D!Confirm(h)
    <3>1. PICK h \in Requests : D!CancelRead(h) \/ D!Cancel(h) \/ D!ConfirmRead(h) \/ D!Confirm(h)
      BY <2>2
    <3>2. PICK job : /\ discoveryWork' = [discoveryWork EXCEPT ![h] = job]
                     /\ job \in D!Work /\ job.pc \in {"idle", "cancel", "confirm"} /\ ~InHand(h)
      BY <3>1 DEF D!CancelRead, D!Cancel, D!ConfirmRead, D!Confirm, D!Begin, D!Finish, D!Turn,
         D!At,
                  D!Idle, D!Work, InHand
    <3> QED
      BY <3>2 DEF DiscoveryTypes
  <2> QED
    BY <2>1, <2>2
<1> QED
  BY <1>1, <1>2, <1>3, <1>4, RequestsTell

\* The gateway's enqueues.
LEMMA GatewayTells ==
  ASSUME DiscoveryInv,
         \/ D!TakeStart \/ D!Progress \/ D!TakeCancel \/ \E report \in D!Ends : D!ScanEnds(report)
         \/ \E w \in writers : D!Enqueue(w)
         \/ D!FlushRead \/ D!FlushEnds
  PROVE  DiscoveryInv'
<1>1. CASE D!TakeStart
  BY <1>1, EnqueueReadTells DEF D!TakeStart, D!cloud, D!Reports
<1>2. CASE D!Progress
  BY <1>2, EnqueueReadTells DEF D!Progress, D!cloud, D!Reports
<1>3. CASE D!TakeCancel
  BY <1>3, EnqueueReadTells DEF D!TakeCancel, D!cloud, D!Reports
<1>4. ASSUME NEW report \in D!Ends, D!ScanEnds(report) PROVE DiscoveryInv'
  BY <1>4, EnqueueReadTells DEF D!ScanEnds, D!cloud, D!Reports, D!Ends
<1>5. ASSUME NEW w \in writers, D!Enqueue(w) PROVE DiscoveryInv'
  BY <1>5, EnqueueTells DEF D!Enqueue, D!cloud
<1>6. CASE D!FlushRead \/ D!FlushEnds
  BY <1>6, FlushTells DEF D!FlushRead, D!FlushEnds, D!cloud
<1> QED
  BY <1>1, <1>2, <1>3, <1>4, <1>5, <1>6

\* A step of the discovery keeps its invariant.
LEMMA DiscoveryStep ==
  ASSUME DiscoveryInv, D!Next
  PROVE  DiscoveryInv'
<1>1. CASE \/ D!Start \/ D!Lapse \/ D!Expire
           \/ \E h \in Requests : D!CancelRead(h) \/ D!Cancel(h) \/ D!ConfirmRead(h) \/ D!Confirm(h)
  BY <1>1, AskedTells
<1>2. CASE \/ D!TakeStart \/ D!Progress \/ D!TakeCancel \/ \E report \in D!Ends : D!ScanEnds(report)
           \/ \E w \in writers : D!Enqueue(w)
           \/ D!FlushRead \/ D!FlushEnds
  BY <1>2, GatewayTells
<1>3. CASE D!Answered \/ D!GiveUp \/ D!Unanswered \/ D!Restart
  BY <1>3, AnsweredTells, DisturbingTells
<1>4. ASSUME NEW h \in Requests, D!Send(h) \/ D!Receive(h) \/ D!Upsert(h) \/ D!Write(h) \/ D!Die(h)
      PROVE  DiscoveryInv'
  BY <1>4, SendTells, ReceiveTells, UpsertTells, WriteTells, DieTells
<1> QED
  BY <1>1, <1>2, <1>3, <1>4 DEF D!Next

\* So do the steps of the other parts.
LEMMA DiscoveryRests ==
  ASSUME DiscoveryInv,
         UNCHANGED <<session, expired, received, discoveryWork, scanning, waiting, disturbed,
                     file, writers, flush, queued, gone, overlapped>>
  PROVE  DiscoveryInv'
<1>1. discoveryWork' \in [Requests -> D!Work] /\ session' \in DiscoveryRow /\ (Closed => Closed')
  BY DEF DiscoveryInv, DiscoveryTypes, Closed
<1> QED
  BY <1>1, RequestsTell

\* In the beginning.
LEMMA DiscoveryBegins ==
  ASSUME D!Init
  PROVE  DiscoveryInv
<1>1. QueueInv
  <2>1. file = <<>> /\ writers = {} /\ flush = D!Queue!Resting /\ queued = {} /\ gone = {}
    BY DEF D!Init, D!Queue!Init
  <2>2. Carried(<<>>) = {} /\ Distinct(<<>>) /\ <<>> \in Items
    BY DEF Carried, Distinct, Items
  <2>3. ~flush.on /\ flush \in [on : BOOLEAN, rest : Items, pending : Items]
    BY <2>1, <2>2 DEF D!Queue!Resting
  <2> QED
    BY <2>1, <2>2, <2>3 DEF QueueInv, QueueTypes, Orderly
<1>2. DiscoveryTypes
  BY DEF D!Init, DiscoveryTypes, DiscoveryRow, D!Work, D!Nobody
<1>3. Telling
  <2>1. /\ file = <<>> /\ writers = {} /\ flush = D!Queue!Resting /\ queued = {} /\ gone = {}
        /\ received = {} /\ ~scanning /\ waiting = "NONE"
        /\ \A h \in Requests : ~InHand(h)
    BY DEF D!Init, D!Queue!Init, D!Idle, InHand, D!Nobody
  <2>2. Carried(<<>>) = {} /\ Good(<<>>, {}) /\ ~EndIn({})
    BY DEF Carried, Good, EndIn
  <2>3. flush.rest = <<>> /\ flush.pending = <<>>
    BY <2>1 DEF D!Queue!Resting
  <2>4. Received /\ Queues
    BY <2>1, <2>2, <2>3 DEF Received, Queues
  <2>5. Waits /\ InHands
    BY <2>1 DEF Waits, InHands
  <2>6. Closing /\ ScanKnown
    <3>1. {w.message : w \in writers} = {}
      BY <2>1
    <3>2. queued \cup {w.message : w \in writers} = {}
      BY <2>1, <3>1
    <3> QED
      BY <2>1, <2>2, <3>2 DEF Closing, ScanKnown
  <2> QED
    BY <2>4, <2>5, <2>6 DEF Telling
<1> QED
  BY <1>1, <1>2, <1>3 DEF DiscoveryInv

\* What the queue and the discovery promise.
LEMMA DiscoveryPromises ==
  ASSUME DiscoveryInv
  PROVE  Kept /\ EndIsTold
<1>1. Kept
  BY QueueKeeps DEF DiscoveryInv
<1>2. EndIsTold
  <2> SUFFICES ASSUME D!Ends \cap gone # {}, ~disturbed, ~overlapped,
                      \A h \in Requests : discoveryWork[h].pc \notin {"receive", "upsert", "write"}
               PROVE  Closed
    BY DEF EndIsTold, D!EndIsTold, Closed
  <2>1. EndIn(received)
    BY DEF DiscoveryInv, Quiet, Telling, Received, EndIn
  <2> QED
    BY <2>1 DEF DiscoveryInv, Quiet, Telling, Closing
<1> QED
  BY <1>1, <1>2
-----------------------------------------------------------------------------
(* The catalogue *)

\* A model is known by its brand and its name, and its aliases in their normal form.  A variant
\* has its model, and is the only one of it with a hardware or SKU.
Marked(v) == v.hardware # C!NoHardware \/ v.sku # C!NoHardware
CatalogueInv ==
  /\ \A m \in models : m.aliasRecords = {C!normalize(a) : a \in m.aliases}
  /\ \A m, n \in models : C!Same(m, n.brand, n.name) => m = n
  /\ \A v \in variants : C!Exists(v.brand, v.model)
  /\ \A v, u \in variants :
       v.brand = u.brand /\ v.model = u.model /\ Marked(v) /\ Marked(u) => v = u

\* A model that is added is another than those there are, and so is its variant.
LEMMA ModelAdded ==
  ASSUME CatalogueInv, NEW m, ~C!Exists(m.brand, m.name), NEW v,
         m.aliasRecords = {C!normalize(a) : a \in m.aliases},
         v.brand = m.brand, v.model = m.name,
         models' = models \cup {m}, variants' = variants \cup {v}
  PROVE  CatalogueInv'
<1>1. \A n \in models' : n.aliasRecords = {C!normalize(a) : a \in n.aliases}
  BY DEF CatalogueInv
<1>2. \A n, o \in models' : C!Same(n, o.brand, o.name) => n = o
  BY DEF CatalogueInv, C!Same, C!Exists
<1>3. \A u \in variants' : \E n \in models' : C!Same(n, u.brand, u.model)
  BY DEF CatalogueInv, C!Same, C!Exists
<1>4. \A u, w \in variants' :
        u.brand = w.brand /\ u.model = w.model /\ Marked(u) /\ Marked(w) => u = w
  <2>1. \A u \in variants : ~(u.brand = v.brand /\ u.model = v.model)
    BY DEF CatalogueInv
  <2> QED
    BY <2>1 DEF CatalogueInv
<1> QED
  BY <1>1, <1>2, <1>3, <1>4 DEF CatalogueInv, C!Exists

\* The catalogue's writers keep it.
LEMMA CatalogueStepKeeps ==
  ASSUME CatalogueInv, C!CatalogueStep
  PROVE  CatalogueInv'
<1>1. ASSUME NEW name \in C!Written,
             C!createManufacturer(name) \/ \E m \in manufacturers : C!createBrand(m, name)
      PROVE  CatalogueInv'
  BY <1>1 DEF C!createManufacturer, C!createBrand, CatalogueInv, C!Exists
<1>2. ASSUME NEW name \in C!Written, NEW b \in brands, NEW aliases \in SUBSET C!Written,
             NEW h, NEW sku, C!createModel(b, name, aliases, h, sku)
      PROVE  CatalogueInv'
  <2> DEFINE key == <<IF h = C!NoHardware THEN "default" ELSE h, "global">>
             records == {C!normalize(a) : a \in aliases}
             m == [brand |-> b, name |-> C!normalize(name), aliases |-> aliases,
                   aliasRecords |-> records]
             v == C!Variant(b, C!normalize(name), h, sku, key)
  <2>1. ~C!Exists(b, C!normalize(name)) /\ models' = models \cup {m}
        /\ variants' = variants \cup {v}
    BY <1>2 DEF C!createModel, C!AddModel
  <2>2. /\ m.brand = b /\ m.name = C!normalize(name)
        /\ m.aliasRecords = records /\ m.aliases = aliases
    OBVIOUS
  <2>3. v.brand = b /\ v.model = C!normalize(name)
    BY DEF C!Variant
  <2>4. m.aliasRecords = {C!normalize(a) : a \in m.aliases}
    BY <2>2
  <2> HIDE DEF m, v
  <2> QED
    BY <2>1, <2>2, <2>3, <2>4, ModelAdded
<1>3. ASSUME NEW manufacturer \in C!Written, NEW brand \in C!Written, NEW model \in C!Written,
             C!Import(manufacturer, brand, model)
      PROVE  CatalogueInv'
  <2> DEFINE b == [manufacturer |-> C!normalize(manufacturer), name |-> C!normalize(brand)]
             name == C!normalize(model)
             m == [brand |-> b, name |-> name, aliases |-> {}, aliasRecords |-> {}]
             v == C!Variant(b, name, C!NoHardware, C!NoHardware, <<"default">>)
  <2>1. /\ models' = IF C!Exists(b, name) THEN models ELSE models \cup {m}
        /\ variants' = variants \cup {v}
    BY <1>3 DEF C!Import, C!ImportAs
  <2>2. m.brand = b /\ m.name = name /\ m.aliasRecords = {} /\ m.aliases = {}
    OBVIOUS
  <2>3. v.brand = b /\ v.model = name /\ ~Marked(v)
    BY DEF C!Variant, Marked
  <2>4. m.aliasRecords = {C!normalize(a) : a \in m.aliases}
    BY <2>2
  <2> HIDE DEF m, v, b, name
  <2>5. CASE C!Exists(b, name)
    <3>1. \A u \in variants' : C!Exists(u.brand, u.model)
      BY <2>1, <2>3, <2>5 DEF CatalogueInv
    <3> QED
      BY <2>1, <2>3, <2>5, <3>1 DEF CatalogueInv, C!Exists
  <2>6. CASE ~C!Exists(b, name)
    BY <2>1, <2>2, <2>3, <2>4, <2>6, ModelAdded
  <2> QED
    BY <2>5, <2>6
<1> QED
  BY <1>1, <1>2, <1>3 DEF C!CatalogueStep

\* The cardinality of the catalogue is that of the finite sets.
LEMMA CatalogueCardinality ==
  ASSUME NEW S
  PROVE  C!Cardinality(S) = Cardinality(S)
  BY DEF Cardinality, C!Cardinality

\* A label with the names of a model is its own, of whatever variant.
LEMMA LabelIsOf ==
  ASSUME CatalogueInv, NEW m \in models, NEW label \in C!LabelsOf(m)
  PROVE  /\ label.manufacturer # C!Absent /\ label.model # C!Absent /\ label.variant = C!NoHardware
         /\ C!BrandMatches(m.brand, label) /\ C!ModelMatches(m, label)
<1>1. PICK manufacturer \in C!Writing({m.brand.name, m.brand.manufacturer}),
           model \in C!Writing({C!normalize(a) : a \in m.aliases} \cup {m.name}) :
        label = [manufacturer |-> manufacturer, model |-> model, variant |-> C!NoHardware]
  <2>1. C!LabelsOf(m) =
          {[manufacturer |-> p, model |-> q, variant |-> C!NoHardware] :
             p \in C!Writing({m.brand.name, m.brand.manufacturer}),
             q \in C!Writing({C!normalize(a) : a \in m.aliases} \cup {m.name})}
    BY DEF C!LabelsOf
  <2> DEFINE P == C!Writing({m.brand.name, m.brand.manufacturer})
             Q == C!Writing({C!normalize(a) : a \in m.aliases} \cup {m.name})
             L == C!LabelsOf(m)
  <2>2. L = {[manufacturer |-> p, model |-> q, variant |-> C!NoHardware] : p \in P, q \in Q}
    BY <2>1
  <2>3. label \in L
    OBVIOUS
  <2> HIDE DEF P, Q, L
  <2>4. \E p \in P, q \in Q : label = [manufacturer |-> p, model |-> q, variant |-> C!NoHardware]
    BY <2>2, <2>3
  <2> QED
    BY <2>4 DEF P, Q
<1>2. manufacturer \in C!Written /\ model \in C!Written
  BY DEF C!Writing
<1>3. \A w \in C!Written : w # C!Absent
  BY CatalogueAssumption DEF C!Written, C!Absent
<1>4. C!BrandMatches(m.brand, label)
  BY <1>1 DEF C!Writing, C!BrandMatches
<1>5. C!ModelMatches(m, label)
  BY <1>1 DEF C!Writing, C!ModelMatches, CatalogueInv
<1> QED
  BY <1>1, <1>2, <1>3, <1>4, <1>5

\* What answers to a label: the variants of the models that do.
LEMMA LabelFinds ==
  ASSUME NEW label, label.manufacturer # C!Absent, NEW v
  PROVE  v \in C!Answering(label) <=>
           /\ v \in variants
           /\ label.variant # C!NoHardware => label.variant \in {v.hardware, v.sku}
           /\ C!BrandMatches(v.brand, label)
           /\ \E m \in models : C!Same(m, v.brand, v.model) /\ C!ModelMatches(m, label)
  BY DEF C!Answering

\* Either all that answer are listed or the list is full, and a list of one has left out
\* nothing; of a label with both names that has one answer the analysis is certain.
LEMMA ResultsAre ==
  ASSUME CatalogueInv, NEW label, NEW result \in C!analyze(label),
         label.manufacturer # C!Absent, label.model # C!Absent
  PROVE  /\ C!Answering(label) = result.matches \/ C!Cardinality(result.matches) = MaxMatches
         /\ result.confidence = "HIGH" => C!Cardinality(C!Answering(label)) = 1
         /\ C!Cardinality(C!Answering(label)) = 1 =>
              result.confidence = IF label.variant # C!NoHardware THEN "EXACT" ELSE "HIGH"
<1>1. PICK matches \in C!catalogMatches(label) :
        result.matches = matches /\ result.confidence = C!Confidence(label, matches)
  BY DEF C!analyze
<1>2. MaxMatches \in Nat /\ MaxMatches # 1 /\ MaxMatches # 0
  BY CatalogueAssumption
<1> DEFINE answering == C!Answering(label)
<1>3. CASE C!Cardinality(answering) <= MaxMatches
  <2>1. matches = answering
    BY <1>1, <1>3 DEF C!catalogMatches
  <2> QED
    BY <1>1, <2>1 DEF C!Confidence
<1>4. CASE ~(C!Cardinality(answering) <= MaxMatches)
  <2>1. C!Cardinality(matches) = MaxMatches
    BY <1>1, <1>4 DEF C!catalogMatches
  <2>2. C!Cardinality(answering) # 1
    BY <1>2, <1>4
  <2>3. C!Confidence(label, matches) # "HIGH"
    BY <1>2, <2>1 DEF C!Confidence
  <2> QED
    BY <1>1, <2>1, <2>2, <2>3
<1> QED
  BY <1>3, <1>4

\* What the analysis of a label promises.
LEMMA CatalogueIdentifies ==
  ASSUME CatalogueInv
  PROVE  LabelIdentifies
<1> SUFFICES ASSUME NEW m \in models, NEW label \in C!LabelsOf(m)
    PROVE  /\ \A result \in C!analyze(label) :
                /\ C!Versions(m) \subseteq result.matches
                   \/ C!Cardinality(result.matches) = MaxMatches
                /\ result.confidence = "HIGH" => C!Cardinality(C!Answering(label)) = 1
           /\ ~C!Other(m, label) =>
                /\ C!Cardinality(C!Versions(m)) = 1 =>
                     \A result \in C!analyze(label) : result.confidence = "HIGH"
                /\ \A v \in C!Versions(m) : \A variant \in {v.hardware, v.sku} \ {C!NoHardware} :
                     \A result \in C!analyze([label EXCEPT !.variant = variant]) :
                       result.confidence = "EXACT"
  BY DEF LabelIdentifies, C!LabelIdentifies
<1>1. /\ label.manufacturer # C!Absent /\ label.model # C!Absent /\ label.variant = C!NoHardware
      /\ C!BrandMatches(m.brand, label) /\ C!ModelMatches(m, label)
  BY LabelIsOf
<1>2. \A v : v \in C!Versions(m) <=> v \in variants /\ v.brand = m.brand /\ v.model = m.name
  BY DEF C!Versions, C!Same
<1>3. C!Versions(m) \subseteq C!Answering(label)
  BY <1>1, <1>2, LabelFinds DEF C!Same
<1>4. \A result \in C!analyze(label) :
        /\ C!Versions(m) \subseteq result.matches \/ C!Cardinality(result.matches) = MaxMatches
        /\ result.confidence = "HIGH" => C!Cardinality(C!Answering(label)) = 1
  BY <1>1, <1>3, ResultsAre
<1>5. ASSUME ~C!Other(m, label), NEW v \in variants, C!BrandMatches(v.brand, label),
             NEW n \in models, C!Same(n, v.brand, v.model), C!ModelMatches(n, label)
      PROVE  v \in C!Versions(m)
  <2>1. n = m
    BY <1>5 DEF C!Other, C!Same
  <2> QED
    BY <1>2, <1>5, <2>1 DEF C!Same
<1>6. ASSUME ~C!Other(m, label), C!Cardinality(C!Versions(m)) = 1,
             NEW result \in C!analyze(label)
      PROVE  result.confidence = "HIGH"
  <2>1. C!Answering(label) = C!Versions(m)
    BY <1>1, <1>3, <1>5, <1>6, LabelFinds
  <2> QED
    BY <1>1, <1>6, <2>1, ResultsAre
<1>7. ASSUME ~C!Other(m, label), NEW v \in C!Versions(m),
             NEW variant \in {v.hardware, v.sku} \ {C!NoHardware},
             NEW result \in C!analyze([label EXCEPT !.variant = variant])
      PROVE  result.confidence = "EXACT"
  <2>1. PICK l : l = [label EXCEPT !.variant = variant]
    OBVIOUS
  <2>2. l.manufacturer = label.manufacturer /\ l.model = label.model /\ l.variant = variant
    BY <2>1 DEF C!LabelsOf
  <2>3. /\ \A b : C!BrandMatches(b, l) <=> C!BrandMatches(b, label)
        /\ \A n : C!ModelMatches(n, l) <=> C!ModelMatches(n, label)
    BY <2>2 DEF C!BrandMatches, C!ModelMatches
  <2>4. C!Answering(l) = {v}
    <3>1. v \in C!Answering(l)
      BY <1>1, <1>2, <2>2, <2>3, LabelFinds DEF C!Same
    <3>2. ASSUME NEW u \in C!Answering(l) PROVE u = v
      <4>1. u \in variants /\ variant \in {u.hardware, u.sku} /\ u \in C!Versions(m)
        BY <1>1, <1>5, <1>7, <2>2, <2>3, <3>2, LabelFinds
      <4>2. Marked(u) /\ Marked(v)
        BY <4>1 DEF Marked
      <4> QED
        BY <1>2, <4>1, <4>2 DEF CatalogueInv
    <3> QED
      BY <3>1, <3>2
  <2>5. C!Cardinality(C!Answering(l)) = 1
    BY <2>4, FS_Singleton, CatalogueCardinality
  <2>6. result \in C!analyze(l)
    BY <2>1
  <2> QED
    BY <1>1, <2>2, <2>5, <2>6, ResultsAre
<1> QED
  BY <1>4, <1>6, <1>7
-----------------------------------------------------------------------------
(* The parts together *)

OnboardingInv == VerificationInv /\ DiscoveryInv /\ CatalogueInv

\* The steps of the other parts leave the verification and the catalogue as they are.
LEMMA VerificationRests ==
  ASSUME VerificationInv, UNCHANGED verification
  PROVE  VerificationInv'
<1>1. UNCHANGED <<verifications, due, verificationCommands, verificationWork, crossed,
                  cameras, manual, counter, leaked>>
  BY DEF verification
<1>2. RowsInv /\ VerificationTypes /\ CountTypes /\ CountExact
  BY CountedIs DEF VerificationInv, RowsInv
<1>3. RowsInv'
  BY <1>1, <1>2, RowsRest DEF VerificationTypes
<1>4. CountTypes' /\ CountExact'
  BY <1>1, <1>2, <1>3, CountStays DEF CountRest
<1> QED
  BY <1>3, <1>4, CountedIsThen DEF VerificationInv
\* The catalogue is written by its own steps only.
LEMMA CatalogueRests ==
  ASSUME CatalogueInv, UNCHANGED catalogue
  PROVE  CatalogueInv'
  BY DEF CatalogueInv, catalogue, C!Exists

\* The invariants of the parts are kept by every step of any of them.
LEMMA OnboardingInductive ==
  /\ OnboardingInit => OnboardingInv
  /\ OnboardingInv /\ [OnboardingNext]_<<onboarding, catalogue>> => OnboardingInv'
<1>1. ASSUME OnboardingInit PROVE OnboardingInv
  <2>1. CatalogueInv
    BY <1>1 DEF OnboardingInit, C!Init, CatalogueInv
  <2> QED
    BY <1>1, <2>1, VerificationBegins, DiscoveryBegins DEF OnboardingInit, OnboardingInv
<1>2. ASSUME OnboardingInv, OnboardingNext PROVE OnboardingInv'
  <2>1. VerificationInv'
    <3>1. V!Next \/ UNCHANGED verification
      BY <1>2 DEF OnboardingNext, Onboard, Discover, Verify, BeginVerification, onboarding, V!Next
    <3> QED
      BY <1>2, <3>1, VerificationStep, VerificationRests DEF OnboardingInv
  <2>2. DiscoveryInv'
    <3>1. D!Next \/ UNCHANGED discovery
      BY <1>2 DEF OnboardingNext, Onboard, Discover, Verify, BeginVerification, onboarding
    <3>2. UNCHANGED discovery =>
            UNCHANGED <<session, expired, received, discoveryWork, scanning, waiting, disturbed,
                        file, writers, flush, queued, gone, overlapped>>
      BY DEF discovery
    <3> QED
      BY <1>2, <3>1, <3>2, DiscoveryStep, DiscoveryRests DEF OnboardingInv
  <2>3. CatalogueInv'
    <3>1. C!CatalogueStep \/ UNCHANGED catalogue
      BY <1>2 DEF OnboardingNext
    <3> QED
      BY <1>2, <3>1, CatalogueStepKeeps, CatalogueRests DEF OnboardingInv
  <2> QED
    BY <2>1, <2>2, <2>3 DEF OnboardingInv
<1>3. ASSUME OnboardingInv, UNCHANGED <<onboarding, catalogue>> PROVE OnboardingInv'
  <2>1. UNCHANGED discovery /\ UNCHANGED verification /\ UNCHANGED catalogue
    BY <1>3 DEF onboarding
  <2>2. UNCHANGED <<session, expired, received, discoveryWork, scanning, waiting, disturbed,
                    file, writers, flush, queued, gone, overlapped>>
    BY <2>1 DEF discovery
  <2> QED
    BY <1>3, <2>1, <2>2, VerificationRests, DiscoveryRests, CatalogueRests DEF OnboardingInv
<1> QED
  BY <1>1, <1>2, <1>3

\* However enqueues, flushes and restarts follow one another, and however often a report is
\* tried: what was enqueued is in the gateway's file until it is sent or given up, as long
\* as no two operations of the queue met.
THEOREM NothingIsLost == OnboardingSpec => []Kept
<1>1. OnboardingInv => Kept
  BY DiscoveryPromises DEF OnboardingInv
<1> QED
  BY <1>1, OnboardingInductive, PTL DEF OnboardingSpec

\* For any number of requests, with reports that come while the user cancels or confirms: an
\* end of the scan that was sent has closed the session of discovery, or it has expired,
\* unless a report was disturbed.
THEOREM EndsAreTold == OnboardingSpec => []EndIsTold
<1>1. OnboardingInv => EndIsTold
  BY DiscoveryPromises DEF OnboardingInv
<1> QED
  BY <1>1, OnboardingInductive, PTL DEF OnboardingSpec

\* For any number of sessions, requests and submissions of credentials: one device becomes
\* one camera at most, ever.
THEOREM OneCameraOnly == OnboardingSpec => []DeviceOnce
<1>1. OnboardingInv => DeviceOnce
  BY VerificationPromises DEF OnboardingInv
<1> QED
  BY <1>1, OnboardingInductive, PTL DEF OnboardingSpec

\* A camera's credentials are those that the gateway found right, unless new ones were
\* submitted while a report was in hand.
THEOREM CredentialsAreVerified == OnboardingSpec => []VerifiedCredential
<1>1. OnboardingInv => VerifiedCredential
  BY VerificationPromises DEF OnboardingInv
<1> QED
  BY <1>1, OnboardingInductive, PTL DEF OnboardingSpec

\* The user's password is that of the last submission, and is kept only by a session that
\* may still need it, whichever requests and reports cross.
THEOREM PasswordsAreDropped == OnboardingSpec => []CredentialEnds
<1>1. OnboardingInv => CredentialEnds
  BY VerificationPromises DEF OnboardingInv
<1> QED
  BY <1>1, OnboardingInductive, PTL DEF OnboardingSpec

\* The counter of cameras is those there are, those being created, and what requests that
\* ended early have left behind, for any plan and any number of requests.
THEOREM CamerasAreCounted == OnboardingSpec => []CamerasCounted
<1>1. OnboardingInv => CamerasCounted
  BY VerificationPromises DEF OnboardingInv
<1> QED
  BY <1>1, OnboardingInductive, PTL DEF OnboardingSpec

\* Whatever administrators write by hand and from spreadsheets, in any writing, and however
\* long the list of matches may be, if longer than one: a label with the names of a model
\* lists its variants unless the list is full, and identifies it with certainty if nothing
\* else answers; one that gives no variant is certain only then.
THEOREM LabelsIdentify == OnboardingSpec => []LabelIdentifies
<1>1. OnboardingInv => LabelIdentifies
  BY CatalogueIdentifies DEF OnboardingInv
<1> QED
  BY <1>1, OnboardingInductive, PTL DEF OnboardingSpec
=============================================================================
