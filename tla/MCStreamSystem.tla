---------------------------- MODULE MCStreamSystem ---------------------------
(***************************************************************************)
(* Small instances of StreamSystem: sessions that share a camera.          *)
(***************************************************************************)
EXTENDS StreamSystem

CONSTANTS cam1
OneCamera == [s \in Sessions |-> cam1]
==============================================================================
