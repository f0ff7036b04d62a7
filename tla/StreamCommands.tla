--------------------------- MODULE StreamCommands ----------------------------
(***************************************************************************)
(* The commands of live streaming, which the cloud queues and the gateway  *)
(* runs: a START_STREAM comes with the session; a STOP_STREAM is written   *)
(* by a stop request of a user or by the cleanup worker.                   *)
(***************************************************************************)
EXTENDS Naturals, FiniteSets

CONSTANTS Sessions,   \* the sessions the organization's users ask for
          Clicks      \* the stop requests a user may send for one session

ASSUME SessionsAssumption == IsFiniteSet(Sessions)
ASSUME ClicksAssumption == Clicks \cap {"START", "CLEANUP"} = {}

Stops == Clicks \cup {"CLEANUP"}
Commands == Sessions \X (Stops \cup {"START"})
==============================================================================
