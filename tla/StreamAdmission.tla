--------------------------- MODULE StreamAdmission ---------------------------
(***************************************************************************)
(* What live streaming promises an organization, without saying how: a     *)
(* session is admitted at most once, never beyond the limit of sessions    *)
(* that stream at the same time, and once it is retired it never streams   *)
(* again.                                                                  *)
(***************************************************************************)
EXTENDS Naturals, FiniteSets

CONSTANTS Sessions,   \* every session an organization may ever ask for
          MaxActive   \* MAX_ACTIVE_STREAMS_PER_ORG

VARIABLES live,       \* the sessions that may stream
          over        \* the sessions that have streamed and may not any more

Init == live = {} /\ over = {}

Admit(s) ==
  /\ s \notin live \cup over
  /\ Cardinality(live) < MaxActive
  /\ live' = live \cup {s}
  /\ UNCHANGED over

Retire(s) ==
  /\ s \in live
  /\ live' = live \ {s}
  /\ over' = over \cup {s}

Next == \E s \in Sessions : Admit(s) \/ Retire(s)

Spec == Init /\ [][Next]_<<live, over>>
==============================================================================
