------------------------------ MODULE Realtime ------------------------------
(***************************************************************************)
(* The dashboards of one member of an organization: browser tabs that load *)
(* a summary and are told over a stream of server-sent events when to load *)
(* it again.                                                               *)
(*                                                                         *)
(* A stream ends when the server says so, with the network or with the     *)
(* process, and its tab asks for a ticket and connects again.  What is     *)
(* published meanwhile reaches nobody.  Loads overlap.                     *)
(***************************************************************************)
EXTENDS Naturals, FiniteSets

CONSTANTS Tabs,            \* the tabs of one user
          MaxConnections,  \* of a user: 3
          MaxVersions,     \* bound: how often something is changed
          MaxLoads         \* bound: loads of a tab that are under way

VARIABLES version,      \* how often something that the summary shows was changed
          unpublished,  \* changes that were committed and not published yet
          lost,         \* history: changes that were never published
          clients,      \* RealtimeService.clients: the tabs whose stream is open,
          leftover,     \* and how many that ended are counted until their `close`
          phase,        \* the state of each tab's useRealtime
          wire,         \* how many messages are on their way to it
          loads,        \* the summaries that are on their way to it
          shown,        \* the summary it shows
          newest        \* history: the newest summary it was sent, or should have been

server == <<version, unpublished, lost, clients, leftover>>
browser == <<phase, wire, loads, shown, newest>>
vars == <<server, browser>>

Init ==
  /\ version = 0 /\ unpublished = {} /\ lost = {}
  /\ clients = {} /\ leftover = 0
  /\ phase = [t \in Tabs |-> "asking"] /\ wire = [t \in Tabs |-> 0]
  /\ loads = [t \in Tabs |-> {}]
  /\ shown = [t \in Tabs |-> 0] /\ newest = [t \in Tabs |-> 0]
-----------------------------------------------------------------------------
(* The server *)

\* An event, an alert, a notification, a gateway, a camera.
Commit ==
  /\ version < MaxVersions
  /\ version' = version + 1
  /\ unpublished' = unpublished \cup {version + 1}
  /\ UNCHANGED <<lost, clients, leftover, browser>>

Ended(some) == clients' = clients \ some /\ leftover' = leftover + Cardinality(clients \cap some)

\* A stream that takes no more is ended; what was written to it may still arrive.
Publish(v, slow) ==
  /\ v \in unpublished /\ slow \subseteq clients
  /\ unpublished' = unpublished \ {v}
  /\ wire' = [t \in Tabs |-> IF t \in clients \ slow THEN wire[t] + 1 ELSE wire[t]]
  /\ Ended(slow)
  /\ UNCHANGED <<version, lost, phase, loads, shown, newest>>

\* Its handler ends before.
PublishLost(v) ==
  /\ v \in unpublished
  /\ unpublished' = unpublished \ {v} /\ lost' = lost \cup {v}
  /\ UNCHANGED <<version, clients, leftover, browser>>

\* After 15 minutes, at a heartbeat that cannot be written, or with the network,
\* which need not tell the tab.
StreamEnds(t) ==
  /\ t \in clients
  /\ Ended({t})
  /\ \E rest \in {0, wire[t]} : wire' = [wire EXCEPT ![t] = rest]
  /\ UNCHANGED <<version, unpublished, lost, phase, loads, shown, newest>>

Close ==
  /\ leftover > 0
  /\ leftover' = leftover - 1
  /\ UNCHANGED <<version, unpublished, lost, clients, browser>>

\* Tickets and streams are in memory.
Restart ==
  /\ clients' = {} /\ leftover' = 0
  /\ unpublished' = {} /\ lost' = lost \cup unpublished
  /\ phase' = [t \in Tabs |-> IF phase[t] = "ticket" THEN "waiting" ELSE phase[t]]
  /\ UNCHANGED <<version, wire, loads, shown, newest>>
-----------------------------------------------------------------------------
(* useRealtime *)

In(t, p) == phase[t] = p
Goto(t, p) == phase' = [phase EXCEPT ![t] = p]

TicketObtained(t) ==
  /\ In(t, "asking") /\ Goto(t, "ticket")
  /\ UNCHANGED <<server, wire, loads, shown, newest>>

\* A ticket is deleted when it is used; `ready` is the first thing written.
Connect(t) ==
  /\ In(t, "ticket") /\ Cardinality(clients) + leftover < MaxConnections
  /\ clients' = clients \cup {t}
  /\ Goto(t, "opening")
  /\ UNCHANGED <<version, unpublished, lost, leftover, wire, loads, shown, newest>>

\* No ticket, one that has expired, too many connections.
Refused(t) ==
  /\ phase[t] \in {"asking", "ticket"} /\ Goto(t, "waiting")
  /\ UNCHANGED <<server, wire, loads, shown, newest>>

\* onerror.
SourceFails(t) ==
  /\ phase[t] \in {"opening", "connected"} /\ Goto(t, "waiting")
  /\ Ended({t})
  /\ wire' = [wire EXCEPT ![t] = 0]
  /\ UNCHANGED <<version, unpublished, lost, loads, shown, newest>>

Retry(t) ==
  /\ In(t, "waiting") /\ Goto(t, "asking")
  /\ UNCHANGED <<server, wire, loads, shown, newest>>

\* The server reads at once, which is the worst it can do.
Load(t) ==
  /\ Cardinality(loads[t] \cup {version}) <= MaxLoads
  /\ loads' = [loads EXCEPT ![t] = @ \cup {version}]

\* Variant: a connection is taken to change nothing.
ReadyOnly(t) ==
  /\ In(t, "opening") /\ Goto(t, "connected")
  /\ UNCHANGED <<server, wire, loads, shown, newest>>
Ready(t) ==
  /\ In(t, "opening") /\ Goto(t, "connected")
  /\ Load(t)
  /\ UNCHANGED <<server, wire, shown, newest>>

Message(t) ==
  /\ In(t, "connected") /\ wire[t] > 0
  /\ wire' = [wire EXCEPT ![t] = @ - 1]
  /\ Load(t)
  /\ UNCHANGED <<server, phase, shown, newest>>
-----------------------------------------------------------------------------
(* MonitoringDashboard *)

\* When it is mounted, every minute, and when the network is back.
Poll(t) == Load(t) /\ UNCHANGED <<server, phase, wire, shown, newest>>

Arrived(t, v) ==
  /\ v \in loads[t]
  /\ loads' = [loads EXCEPT ![t] = @ \ {v}]
  /\ newest' = [newest EXCEPT ![t] = IF v > @ THEN v ELSE @]
  /\ UNCHANGED <<server, phase, wire>>
\* Whatever it shows already.
Show(t, v) == Arrived(t, v) /\ shown' = [shown EXCEPT ![t] = v]
\* It says so, and shows what it showed.
LoadFails(t, v) == Arrived(t, v) /\ UNCHANGED shown
-----------------------------------------------------------------------------
RealtimeStep ==
  \/ Commit \/ Close
  \/ \E v \in unpublished : PublishLost(v) \/ \E slow \in SUBSET clients : Publish(v, slow)
  \/ \E t \in Tabs :
       \/ StreamEnds(t) \/ TicketObtained(t) \/ Connect(t) \/ Refused(t) \/ SourceFails(t)
       \/ Retry(t) \/ Ready(t) \/ Message(t) \/ Poll(t)
       \/ \E v \in loads[t] : Show(t, v) \/ LoadFails(t, v)

Spec == Init /\ [][RealtimeStep \/ Restart]_vars
-----------------------------------------------------------------------------
(* Properties *)

\* A tab whose stream is open at both ends, with no message and no summary on its way,
\* shows every change but those that were never published, unless its loads failed or
\* overtook one another.
Quiet(t) ==
  /\ In(t, "connected") /\ t \in clients
  /\ wire[t] = 0 /\ loads[t] = {} /\ unpublished = {} /\ shown[t] = newest[t]
ShownIsFresh == \A t \in Tabs : Quiet(t) => (shown[t] + 1) .. version \subseteq lost
=============================================================================
