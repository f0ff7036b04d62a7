----------------------------- MODULE MCMonitoring ----------------------------
(***************************************************************************)
(* A small instance of Monitoring: one gateway with one motion, three      *)
(* events; two motions to judge, in days of three minutes; two tabs; one   *)
(* player.                                                                 *)
(***************************************************************************)
EXTENDS Monitoring, TLC

TwoChannels == <<"EMAIL", "PUSH", "NONE">>

\* Handlers are interchangeable.  So are motions and tabs, which would cost more than it
\* saves.
Symmetry == Permutations(Handlers)

\* From the last minute of a day over midnight to the second.
PastMidnight == {[weekday |-> 0, start |-> 2, end |-> 1]}
Special == {"CLOSED", <<1, 2>>}

\* The delivery reads nothing of the gateway and its events but the rows that were
\* created for the alerts, and writes nothing they read: their steps commute, and a row
\* may as well be there before the first turn, which takes any of those that are due.
\* So it is enough to let the delivery begin when no other handler is busy, to let none
\* begin after that, and to forget what the rows are about.
Delivering == \/ subscribed \/ contended # {}
              \/ \E e \in EventIds : \/ sent[e] > 0
                                     \/ notification[e] \notin {NoRow, NewRow(Channel[e])}
              \/ \E h \in Handlers : work[h].pc \in {"turn", "accepted"}

\* And a request that claims a code does nothing more to a gateway that is there: it may
\* as well end before the gateway is used.
Claiming == \E h \in Handlers : work[h].pc \in {"claim", "expire"}

\* Of the analysis of another motion nothing is read but that motion: it may as well wait
\* where it began.
Judging(r) == Risk!InAnalysis(r) /\ ~Risk!At(r, "process")
Separate ==
  /\ Delivering => \A h \in Handlers : work[h].pc \in {"idle", "turn", "accepted"}
  /\ Claiming => /\ gateway.status \in {"NONE", "UNKNOWN"}
                 /\ \A h \in Handlers : work[h].pc \in {"idle", "claim", "expire"}
  /\ \A r, q \in Reports : r = q \/ ~Judging(r) \/ ~Judging(q)

\* Events, risk, dashboards and players share nothing: one of them is explored at a
\* time, the others being as they were at first.
Fresh == pairing = "NONE" /\ ~subscribed
Unmoved == changes = 0 /\ \A r \in Reports : moved[r] = Risk!NoMotion
Unread == /\ version = 0 /\ clients = {} /\ leftover = 0
          /\ \A t \in Tabs : phase[t] = "asking" /\ loads[t] = {}
Unopened == Player!Init
OneAtATime ==
  \/ Unmoved /\ Unread /\ Unopened /\ Next /\ UNCHANGED <<risk, live, player>>
  \/ Fresh /\ Unread /\ Unopened /\ Risk!RiskStep /\ UNCHANGED <<vars, live, player>>
  \/ /\ Fresh /\ Unmoved /\ Unopened
     /\ Live!RealtimeStep \/ Live!Restart
     /\ UNCHANGED <<vars, risk, player>>
  \/ Fresh /\ Unmoved /\ Unread /\ Player!PlayerStep /\ UNCHANGED <<vars, risk, live>>
MCSpec == MonitoringInit /\ [][OneAtATime]_<<vars, risk, live, player>>

\* A classification, once it is there, is not looked at again; and a player that was
\* opened leaves nothing to the others.
View == IF Delivering THEN <<delivery, work>>
        ELSE IF ~Unopened THEN <<player>>
        ELSE <<vars, schedules, zone, changes, moved, analysis, reading, Risk!history, live>>
=============================================================================
