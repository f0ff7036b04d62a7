----------------------------- MODULE MotionRisk -----------------------------
(***************************************************************************)
(* What the API makes of a motion: out of hours or not, by the schedule of *)
(* the camera or of the organization, in front of a sensitive zone,        *)
(* repeated or long, and the risk that follows from it.                    *)
(*                                                                         *)
(* The analysis of an event reads at every await something that the owner  *)
(* or the next motion may be about to change.  A schedule is read in three *)
(* queries outside a transaction: its row, its intervals, its exceptions.  *)
(***************************************************************************)
EXTENDS Integers, FiniteSets

CONSTANTS Reports,    \* the motions of one camera
          Moments,    \* bound: the local minutes at which something may move
          Day,        \* how many minutes a day has: 1440
          Window,     \* how many minutes back a motion is recent: 5
          Repeats,    \* how many recent motions are persistent: 3
          Intervals,  \* bound: the intervals a schedule may have
          Openings,   \* bound: the exceptions a schedule may have for a day
          MaxChanges  \* bound: how often schedules and zones are changed

VARIABLES schedules,  \* the MonitoringSchedule rows of the camera and of the organization
          zone,       \* the camera has an enabled zone of priority HIGH
          changes,    \* how often they were changed
          moved,      \* the CameraEvent rows
          analysis,   \* what has been found out of each so far
          reading,    \* the schedule that each is reading
          verdict,    \* the riskFactors of each EventClassification
          possible,   \* history: what was true of an event since its analysis began,
          certain,    \* what has been true of it all the time,
          excused     \* and those that the hours may be wrong of

settings == <<schedules, zone, changes>>
judgment == <<moved, analysis, reading, verdict>>
history == <<possible, certain, excused>>
vars == <<settings, judgment, history>>

Factors == {"OUT_OF_HOURS", "SENSITIVE_ZONE", "PERSISTENT_ACTIVITY"}
Scopes == {"CAMERA", "ORG"}
NoSchedule == [mode |-> "NONE"]
NoMotion == [at |-> -1, long |-> FALSE]
NoVerdict == {"NONE"}
NoReading == [scope |-> "NONE", todo |-> {}, schedule |-> NoSchedule]

Init ==
  /\ schedules = [s \in Scopes |-> NoSchedule] /\ zone = FALSE /\ changes = 0
  /\ moved = [r \in Reports |-> NoMotion]
  /\ analysis = [r \in Reports |-> [pc |-> "none", factors |-> {}]]
  /\ reading = [r \in Reports |-> NoReading]
  /\ verdict = [r \in Reports |-> NoVerdict]
  /\ possible = [r \in Reports |-> {}] /\ certain = [r \in Reports |-> {}] /\ excused = {}
-----------------------------------------------------------------------------
(* The local time *)

\* localParts
LocalDate(at) == at \div Day
Weekday(at) == LocalDate(at) % 7
Minute(at) == at % Day
Dates == UNION {{LocalDate(at) - 1, LocalDate(at)} : at \in Moments}

\* Variant: nothing goes on after midnight.
SameDayInterval(minute, start, end) == start = end \/ (minute >= start /\ minute < end)
InLocalInterval(minute, start, end) ==
  \/ start = end
  \/ start < end /\ minute >= start /\ minute < end
  \/ start > end /\ (minute >= start \/ minute < end)
-----------------------------------------------------------------------------
(* RiskEngine.calculate, in thousandths *)

Weight(factor) == CASE factor = "OUT_OF_HOURS" -> 350
                    [] factor = "SENSITIVE_ZONE" -> 200
                    [] factor = "PERSISTENT_ACTIVITY" -> 250
If(factor, factors) == IF factor \in factors THEN Weight(factor) ELSE 0
Score(factors) == 100 + If("OUT_OF_HOURS", factors) + If("SENSITIVE_ZONE", factors)
                      + If("PERSISTENT_ACTIVITY", factors)
RiskLevel(factors) == CASE Score(factors) >= 800 -> "VERY_HIGH"
                        [] Score(factors) \in 550 .. 799 -> "HIGH"
                        [] Score(factors) \in 300 .. 549 -> "MEDIUM"
                        [] OTHER -> "LOW"
Classification(factors) ==
  CASE factors = Factors -> "POSSIBLE_INTRUSION"
    [] factors # Factors /\ "OUT_OF_HOURS" \in factors -> "OUT_OF_HOURS_ACTIVITY"
    [] "OUT_OF_HOURS" \notin factors /\ "PERSISTENT_ACTIVITY" \in factors -> "UNUSUAL_ACTIVITY"
    [] OTHER -> "NORMAL_ACTIVITY"
-----------------------------------------------------------------------------
(* ContextEngine *)

NoExceptions == [d \in Dates |-> "NONE"]

\* The camera's comes first.
Scope == IF schedules["CAMERA"] # NoSchedule THEN "CAMERA" ELSE "ORG"
Applicable == schedules[Scope]

OutOfHours(schedule, at) ==
  LET exception == schedule.exceptions[LocalDate(at)] IN
  IF exception # "NONE"
  THEN exception = "CLOSED" \/ ~InLocalInterval(Minute(at), exception[1], exception[2])
  ELSE \A i \in schedule.intervals :
         i.weekday = Weekday(at) => ~InLocalInterval(Minute(at), i.start, i.end)

Recent(at) == {r \in Reports : moved[r] # NoMotion /\ moved[r].at \in (at - Window) .. at}

Factor(factor, holds) == IF holds THEN {factor} ELSE {}

\* What a schedule says of a date, whoever reads it: from when to when there may be
\* something, which is on the next day if it is no later.
Spans(schedule, date) ==
  LET exception == schedule.exceptions[date] IN
  IF exception = "CLOSED" THEN {}
  ELSE IF exception # "NONE" THEN {exception}
  ELSE {<<i.start, i.end>> : i \in {j \in schedule.intervals : j.weekday = date % 7}}
Overnight(span) == span[1] >= span[2]
Within(span, minute) ==
  span[1] <= minute /\ minute < (IF Overnight(span) THEN span[2] + Day ELSE span[2])
Open(schedule, at) ==
  \/ \E span \in Spans(schedule, LocalDate(at)) : Within(span, Minute(at))
  \/ \E span \in Spans(schedule, LocalDate(at) - 1) : Within(span, Minute(at) + Day)

\* What is true of an event at present, by the words of the settings.
Truth(r) ==
  Factor("OUT_OF_HOURS", Applicable.mode = "SCHEDULED" /\ ~Open(Applicable, moved[r].at))
    \cup Factor("SENSITIVE_ZONE", zone)
    \cup Factor("PERSISTENT_ACTIVITY", Cardinality(Recent(moved[r].at)) >= Repeats \/ moved[r].long)

\* An interval that goes on after midnight is taken to be open in the morning of its own
\* day, and not of the next.
SmallHours(r) ==
  LET at == moved[r].at IN
  /\ Applicable.mode = "SCHEDULED"
  /\ \E date \in {LocalDate(at), LocalDate(at) - 1} : \E span \in Spans(Applicable, date) :
       Overnight(span) /\ Minute(at) < span[2]

At(r, pc) == analysis[r].pc = pc
InAnalysis(r) == analysis[r].pc \notin {"none", "over"}

\* History.  When a schedule is saved, those who are reading one may have read the rest of
\* another than they began with.
History(saved) ==
  /\ possible' = [r \in Reports |-> IF ~InAnalysis(r)' THEN {}
                                    ELSE possible[r] \cup Truth(r)']
  /\ certain' = [r \in Reports |-> IF ~InAnalysis(r)' THEN {}
                                   ELSE IF At(r, "none") THEN Truth(r)'
                                   ELSE certain[r] \cap Truth(r)']
  /\ excused' = {r \in Reports :
       InAnalysis(r)' /\ (r \in excused \/ (At(r, "relations")' /\ (saved \/ SmallHours(r)')))}
Observe == History(FALSE)
-----------------------------------------------------------------------------
(* The events *)

\* A message about a motion that is not known.
Arrive(r, at) ==
  /\ moved[r] = NoMotion
  /\ moved' = [moved EXCEPT ![r] = [at |-> at, long |-> FALSE]]
  /\ analysis' = [analysis EXCEPT ![r].pc = "process"]
  /\ UNCHANGED <<settings, reading, verdict>>
  /\ Observe

\* The end of a motion that went on for a minute: the next message about it, or the same.
\* Nothing is analyzed again, and nothing here reads one that comes later.
EndArrives(r) ==
  /\ InAnalysis(r) /\ ~moved[r].long
  /\ moved' = [moved EXCEPT ![r].long = TRUE]
  /\ UNCHANGED <<settings, analysis, reading, verdict>>
  /\ Observe
-----------------------------------------------------------------------------
(* IntelligenceService.process *)

Find(r, pc, next, found) ==
  /\ At(r, pc)
  /\ analysis' = [analysis EXCEPT ![r].pc = next, ![r].factors = @ \cup found]
  /\ UNCHANGED <<settings, moved, verdict>>
  /\ Observe
Look(r, pc, next, found) == Find(r, pc, next, found) /\ UNCHANGED reading

\* It has no classification yet; its row is read with endedAt.
ReadEvent(r) == Look(r, "process", "schedules", Factor("PERSISTENT_ACTIVITY", moved[r].long))

\* findMany: first the rows.  Of the rest, nothing is looked at unless there are hours; ...
ReadSchedules(r) ==
  \/ Applicable.mode # "SCHEDULED" /\ Look(r, "schedules", "recent", {})
  \/ /\ Applicable.mode = "SCHEDULED"
     /\ Find(r, "schedules", "relations", {})
     /\ reading' = [reading EXCEPT ![r] =
          [scope |-> Scope, todo |-> {"intervals", "exceptions"},
           schedule |-> [Applicable EXCEPT !.intervals = {}, !.exceptions = NoExceptions]]]

\* ... then what they include, in any order.
Including(schedule, relation, scope) ==
  IF relation = "intervals" THEN [schedule EXCEPT !.intervals = schedules[scope].intervals]
  ELSE [schedule EXCEPT !.exceptions = schedules[scope].exceptions]
ReadRelation(r, relation) ==
  LET read == Including(reading[r].schedule, relation, reading[r].scope) IN
  /\ relation \in reading[r].todo
  /\ \/ /\ reading[r].todo # {relation}
        /\ Find(r, "relations", "relations", {})
        /\ reading' = [reading EXCEPT ![r].schedule = read, ![r].todo = @ \ {relation}]
     \/ /\ reading[r].todo = {relation}
        /\ Find(r, "relations", "recent", Factor("OUT_OF_HOURS", OutOfHours(read, moved[r].at)))
        /\ reading' = [reading EXCEPT ![r] = NoReading]

CountRecent(r) ==
  Look(r, "recent", "zones",
       Factor("PERSISTENT_ACTIVITY", Cardinality(Recent(moved[r].at)) >= Repeats))

CountZones(r) == Look(r, "zones", "create", Factor("SENSITIVE_ZONE", zone))

CreateClassification(r) ==
  /\ At(r, "create")
  /\ verdict' = [verdict EXCEPT ![r] = analysis[r].factors]
  /\ analysis' = [analysis EXCEPT ![r] = [pc |-> "over", factors |-> {}]]
  /\ UNCHANGED <<settings, moved, reading>>
  /\ Observe

\* It throws, which ingest catches, or the process ends: the event has no classification.
AnalysisFails(r) ==
  /\ InAnalysis(r)
  /\ analysis' = [analysis EXCEPT ![r] = [pc |-> "over", factors |-> {}]]
  /\ reading' = [reading EXCEPT ![r] = NoReading]
  /\ UNCHANGED <<settings, moved, verdict>>
  /\ Observe
-----------------------------------------------------------------------------
(* The settings *)

Change == changes < MaxChanges /\ changes' = changes + 1

\* Its intervals are replaced in one transaction, its exceptions stay.  ALWAYS is DISABLED
\* too, which nothing here tells apart: neither looks at the intervals.
SaveSchedule(scope, mode, intervals) ==
  /\ Change
  /\ schedules' = [schedules EXCEPT ![scope] =
       [mode |-> mode, intervals |-> intervals,
        exceptions |-> IF @ = NoSchedule THEN NoExceptions ELSE @.exceptions]]
  /\ UNCHANGED <<zone, judgment>>
  /\ History(TRUE)

AddException(scope, date, opening) ==
  /\ schedules[scope] # NoSchedule
  /\ Change
  /\ schedules' = [schedules EXCEPT ![scope].exceptions[date] = opening]
  /\ UNCHANGED <<zone, judgment>>
  /\ Observe

SetZone(there) ==
  /\ zone # there /\ Change
  /\ zone' = there
  /\ UNCHANGED <<schedules, judgment>>
  /\ Observe
SaveZone == SetZone(TRUE)
DeleteZone == SetZone(FALSE)
-----------------------------------------------------------------------------
RiskStep ==
  \/ SaveZone \/ DeleteZone
  \/ \E s \in Scopes :
       \/ SaveSchedule(s, "ALWAYS", {})
       \/ \E intervals \in SUBSET Intervals : SaveSchedule(s, "SCHEDULED", intervals)
       \/ \E date \in Dates, o \in Openings : AddException(s, date, o)
  \/ \E r \in Reports :
       \/ EndArrives(r) \/ ReadEvent(r) \/ ReadSchedules(r) \/ CountRecent(r) \/ CountZones(r)
       \/ \E relation \in {"intervals", "exceptions"} : ReadRelation(r, relation)
       \/ CreateClassification(r) \/ AnalysisFails(r)
       \/ \E at \in Moments : Arrive(r, at)

Spec == Init /\ [][RiskStep]_vars
-----------------------------------------------------------------------------
(* Properties *)

\* Whatever the owner changes while a motion is analyzed, nothing is held against it
\* that was not true of it meanwhile, and nothing is left out that was true all the time.
\* Only the hours may be wrong: when a schedule was saved in the middle of reading them,
\* and in the morning, about an interval that passes midnight.
Asked(r) == IF r \in excused THEN Factors \ {"OUT_OF_HOURS"} ELSE Factors
Grounded ==
  \A r \in Reports : At(r, "create") =>
    /\ certain[r] \cap Asked(r) \subseteq analysis[r].factors
    /\ analysis[r].factors \cap Asked(r) \subseteq possible[r]
=============================================================================
