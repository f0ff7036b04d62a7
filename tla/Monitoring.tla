----------------------------- MODULE Monitoring ------------------------------
(***************************************************************************)
(* What the API does with the events of one gateway: it keeps them and     *)
(* raises alerts about them (EventAlerts), judges what moved (MotionRisk)  *)
(* and tells the dashboards (Realtime), from which a user opens the live   *)
(* picture of a camera (StreamPlayer).                                     *)
(*                                                                         *)
(* The handler of an event calls the three one after the other, each with  *)
(* the event's id only: the classification is read by nothing but the      *)
(* wording of an alert, a message says no more than that something was     *)
(* changed.  They share the process and no state, so that their steps      *)
(* interleave freely, and its end is that of each, in any order.  So do    *)
(* those of a player, whatever makes its dashboard render again.           *)
(***************************************************************************)
EXTENDS EventAlerts

CONSTANTS Reports, Moments, Day, Window, Repeats, Intervals, Openings, MaxChanges,
          Tabs, MaxConnections, MaxVersions, MaxLoads, MaxPolls, MaxEffects

ASSUME DayAssumption == Day \in Nat \ {0}
ASSUME ReportsAssumption == IsFiniteSet(Reports) /\ Repeats \in Nat
ASSUME MomentsAssumption == Moments \subseteq Nat
ASSUME IntervalsAssumption ==
  Intervals \subseteq [weekday : 0 .. 6, start : 0 .. Day - 1, end : 0 .. Day - 1]
ASSUME OpeningsAssumption ==
  \A opening \in Openings : opening = "CLOSED" \/ opening \in (0 .. Day - 1) \X (0 .. Day - 1)

VARIABLES schedules, zone, changes, moved, analysis, reading, verdict, possible, certain, excused,
          version, unpublished, lost, clients, leftover, phase, wire, loads, shown, newest,
          session, request, polls, stops, stopped, open, current, view, timer, effects

Risk == INSTANCE MotionRisk
Live == INSTANCE Realtime
Player == INSTANCE StreamPlayer

risk == <<schedules, zone, changes, moved, analysis, reading, verdict, possible, certain, excused>>
live == <<version, unpublished, lost, clients, leftover, phase, wire, loads, shown, newest>>
player == <<session, request, polls, stops, stopped, open, current, view, timer, effects>>

MonitoringInit == Init /\ Risk!Init /\ Live!Init /\ Player!Init

MonitoringNext ==
  \/ Next /\ UNCHANGED <<risk, live, player>>
  \/ Risk!RiskStep /\ UNCHANGED <<vars, live, player>>
  \/ (Live!RealtimeStep \/ Live!Restart) /\ UNCHANGED <<vars, risk, player>>
  \/ Player!PlayerStep /\ UNCHANGED <<vars, risk, live>>

MonitoringSpec == MonitoringInit /\ [][MonitoringNext]_<<vars, risk, live, player>>
-----------------------------------------------------------------------------
(* Properties *)

\* MotionRisk: an event is judged by what was true of it while it was.
Grounded == Risk!Grounded

\* Realtime: a dashboard that is told of changes shows them.
ShownIsFresh == Live!ShownIsFresh

\* StreamPlayer: one picture at most, and a session that is stopped once.
OnePicture == Player!OnePicture
=============================================================================
