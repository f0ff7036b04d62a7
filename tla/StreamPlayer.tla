---------------------------- MODULE StreamPlayer -----------------------------
(***************************************************************************)
(* The player that a dashboard opens for the live picture of a camera: it  *)
(* asks for a session, asks for its status until it is ACTIVE, loads the   *)
(* library that plays it and stops the session when it is closed.          *)
(*                                                                         *)
(* An effect of React ends when what it depends on changes, and what it    *)
(* waits for may arrive later.  Requests and their answers overtake each   *)
(* other.  Left out: what the player says meanwhile.                       *)
(***************************************************************************)
EXTENDS Naturals, FiniteSets

CONSTANTS MaxPolls,   \* bound: requests for the status that are under way
          MaxEffects  \* bound: effects whose library is being loaded, or plays

VARIABLES session,  \* StreamSession.status at the API ("NONE": no row)
          request,  \* the POST that creates it
          polls,    \* the requests for its status: "NONE", "ASKED", or the answer
          stops,    \* the DELETEs that are under way
          stopped,  \* history: how many were sent
          open,     \* whether the player is mounted: TRUE, FALSE
          current,  \* sessionId.current: whether it is set
          view,     \* the status of the session as the player knows it
          timer,    \* backgroundTimer: whether it runs
          effects   \* the effect that plays: "NONE", "LOADING", "DISPOSED" (loading for an
                    \* effect that ended), "PLAYING"; one that ended with it is "NONE" again

vars == <<session, request, polls, stops, stopped, open, current, view, timer, effects>>
requests == <<session, request, polls, stops, stopped>>
player == <<open, current, view, timer, effects>>

Live == {"STARTING", "ACTIVE"}
Statuses == Live \cup {"NONE", "STOPPING", "ENDED", "FAILED", "EXPIRED"}

Init ==
  /\ session = "NONE" /\ request = "SENT"
  /\ polls = [p \in 1 .. MaxPolls |-> "NONE"]
  /\ stops = 0 /\ stopped = 0
  /\ open = TRUE /\ current = FALSE /\ view = "NONE" /\ timer = FALSE
  /\ effects = [e \in 1 .. MaxEffects |-> "NONE"]
-----------------------------------------------------------------------------
(* The API; a request or its answer may be lost *)

Create ==
  /\ request = "SENT"
  /\ \/ session' = "STARTING" /\ request' = "CREATED"
     \/ request' = "FAILED" /\ UNCHANGED session
  /\ UNCHANGED <<polls, stops, stopped, player>>

\* What becomes of the session without the player: see StreamControl.
Later(status) ==
  CASE status = "STARTING" -> {"ACTIVE", "FAILED", "EXPIRED", "ENDED"}
    [] status = "ACTIVE" -> {"EXPIRED", "ENDED"}
    [] status = "STOPPING" -> {"ENDED"}
    [] OTHER -> {}
Progress ==
  /\ session' \in Later(session)
  /\ UNCHANGED <<request, polls, stops, stopped, player>>

Read(p) ==
  /\ polls[p] = "ASKED"
  /\ polls' = [polls EXCEPT ![p] = session]
  /\ UNCHANGED <<session, request, stops, stopped, player>>

Stop(arrives) ==
  /\ stops > 0 /\ stops' = stops - 1
  /\ session' = IF arrives /\ session \in Live THEN "STOPPING" ELSE session
  /\ UNCHANGED <<request, polls, stopped, player>>
-----------------------------------------------------------------------------
(* The player *)

\* The cleanup of the effect that plays.
Disposed == [e \in DOMAIN effects |-> IF effects[e] \in {"LOADING", "DISPOSED"} THEN "DISPOSED"
                                      ELSE "NONE"]

\* setSession.  The effect depends on nothing of the session but its status.
SetSession(status) ==
  /\ view' = status
  /\ IF status = view THEN UNCHANGED effects
     ELSE IF status # "ACTIVE" THEN effects' = Disposed
     ELSE \E e \in DOMAIN effects :
            Disposed[e] = "NONE" /\ effects' = [Disposed EXCEPT ![e] = "LOADING"]

\* The session of a player that is closed by now is forgotten.
Created(answered) ==
  /\ request = "CREATED"
  /\ IF answered /\ open
       THEN request' = "KNOWN" /\ current' = TRUE /\ SetSession("STARTING")
       ELSE request' = "FAILED" /\ UNCHANGED <<current, view, effects>>
  /\ UNCHANGED <<session, polls, stops, stopped, open, timer>>

Poll(p) ==
  /\ open /\ view \in {"STARTING", "STOPPING"} /\ polls[p] = "NONE"
  /\ polls' = [polls EXCEPT ![p] = "ASKED"]
  /\ UNCHANGED <<session, request, stops, stopped, player>>

Polled(p, answered) ==
  /\ polls[p] \notin {"NONE", "ASKED"}
  /\ polls' = [polls EXCEPT ![p] = "NONE"]
  /\ IF answered /\ open THEN SetSession(polls[p]) ELSE UNCHANGED <<view, effects>>
  /\ UNCHANGED <<session, request, stops, stopped, open, current, timer>>

\* Variant: whether its effect has ended is not looked at.
LoadedLate(e) ==
  /\ effects[e] \in {"LOADING", "DISPOSED"}
  /\ effects' = [effects EXCEPT ![e] = "PLAYING"]
  /\ UNCHANGED <<requests, open, current, view, timer>>
Loaded(e) ==
  /\ effects[e] \in {"LOADING", "DISPOSED"}
  /\ effects' = [effects EXCEPT ![e] = IF @ = "LOADING" THEN "PLAYING" ELSE "NONE"]
  /\ UNCHANGED <<requests, open, current, view, timer>>

\* It cannot be loaded, the browser cannot play it, or three retries failed.
PlayFails(e) ==
  /\ effects[e] # "NONE"
  /\ effects' = [effects EXCEPT ![e] = "NONE"]
  /\ UNCHANGED <<requests, open, current, view, timer>>

Send == IF current THEN stops' = stops + 1 /\ stopped' = stopped + 1
        ELSE UNCHANGED <<stops, stopped>>

\* Unmounted: by navigation, or by onClose.
Close ==
  /\ open /\ open' = FALSE
  /\ Send /\ current' = FALSE
  /\ timer' = FALSE /\ effects' = Disposed
  /\ UNCHANGED <<session, request, polls, view>>

\* stop, which closes the player when the DELETE has been answered, or at once when it
\* is called again.
AskToStop ==
  /\ open /\ current
  /\ Send /\ current' = FALSE
  /\ UNCHANGED <<session, request, polls, open, view, timer, effects>>

\* The tab has been hidden for a minute; onClose follows.
TimerFires == timer /\ Close

\* visibilitychange
Hide(hidden) ==
  /\ open /\ timer' = hidden
  /\ UNCHANGED <<requests, open, current, view, effects>>

\* The dashboard renders again, with another onClose: the effect that has the timer is
\* replaced by one that has none, hidden or not.
Rerender ==
  /\ open /\ timer' = FALSE
  /\ UNCHANGED <<requests, open, current, view, effects>>
-----------------------------------------------------------------------------
PlayerStep ==
  \/ Create \/ Progress \/ \E arrives \in BOOLEAN : Stop(arrives)
  \/ \E answered \in BOOLEAN :
       Created(answered) \/ \E p \in DOMAIN polls : Polled(p, answered)
  \/ \E p \in DOMAIN polls : Read(p) \/ Poll(p)
  \/ \E e \in DOMAIN effects : Loaded(e) \/ PlayFails(e)
  \/ Close \/ AskToStop \/ TimerFires \/ Rerender
  \/ \E hidden \in BOOLEAN : Hide(hidden)

Spec == Init /\ [][PlayerStep]_vars
-----------------------------------------------------------------------------
(* Properties *)

\* However the status changes while the library is loaded, and whatever old answers
\* arrive late, there is one picture at most, only while the session is shown to be
\* ACTIVE, and none is left behind by a player that was closed; and a player that got to
\* know its session asks once that it be stopped, however it comes to be closed.
OnePicture ==
  /\ \A e \in DOMAIN effects : effects[e] = "PLAYING" =>
       open /\ view = "ACTIVE" /\ \A f \in DOMAIN effects \ {e} : effects[f] # "PLAYING"
  /\ stopped <= 1
  /\ ~open /\ request = "KNOWN" => stopped = 1
=============================================================================
