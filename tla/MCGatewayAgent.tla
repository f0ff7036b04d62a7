--------------------------- MODULE MCGatewayAgent ----------------------------
(***************************************************************************)
(* A small instance of GatewayAgent: two sessions of one camera, a third   *)
(* of another, room for one pipeline; a snapshot and a recording; a camera *)
(* that is watched.                                                        *)
(***************************************************************************)
EXTENDS GatewayAgent, TLC

CONSTANTS s1, s2, s3, cam1, cam2, p1, r1
TwoCameras == s1 :> cam1 @@ s2 :> cam1 @@ s3 :> cam2
Symmetry == Permutations({s1, s2})

\* Streams, captures and monitors share nothing but the main loop: one of them is
\* explored at a time, the others being as they were at first.
Resting(parts) ==
  /\ "streams" \in parts => StreamsInit
  /\ "captures" \in parts => Captures!Init
  /\ "motion" \in parts => Motion!Init
Apart ==
  \/ Resting({"streams", "captures"})
  \/ Resting({"streams", "motion"})
  \/ Resting({"captures", "motion"})

\* Two captures at most.
Few == made[p1] + made[r1] <= 2
==============================================================================
