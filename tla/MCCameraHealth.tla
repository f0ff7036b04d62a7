--------------------------- MODULE MCCameraHealth ---------------------------
EXTENDS CameraHealth, TLC

\* Runtimes are interchangeable, and so are handlers.
Symmetry == Permutations(Runtimes) \cup Permutations(Handlers)

\* An observation still matters when a handler that has it, or will, may record it or
\* write its event.  The row's generation only grows, and in a generation its sequence,
\* so what is not new to the row will never be.
Matters(n) ==
  \/ /\ observations[n].generation = camera.generation
     /\ observations[n].sequence > camera.sequence
     /\ n \notin ledger \/ \E h \in Handlers : work[h].pc \in MessageSteps /\ work[h].of = n
  \/ \E h \in Handlers : At(h, "event") /\ work[h].of = n

\* Nothing reads again
\*  - who made an observation, and the rest of it when it does not matter,
\*  - the status that a handler found, when it will not record its observation,
\*  - the sequence of a runtime that is neither current nor checking,
\*  - of the events more than the notices among them and, while nothing was rough, the
\*    last one.
View ==
  <<camera, current, ledger, rough,
    [h \in Handlers |-> IF At(h, "update") /\ ~Matters(work[h].of)
                        THEN <<"update", work[h].of>> ELSE work[h]],
    [r \in Runtimes |-> IF r = current \/ runtime[r].checking THEN runtime[r]
                        ELSE runtime[r].generation],
    [n \in DOMAIN observations |->
       IF Matters(n)
       THEN <<observations[n].generation, observations[n].sequence, observations[n].status>>
       ELSE <<>>],
    {e \in Notices : \E i \in DOMAIN events : events[i].of = e},
    IF rough \/ events = <<>> THEN "NONE" ELSE events[Len(events)].type>>
=============================================================================
