------------------------------ MODULE QueryInv ------------------------------
(***************************************************************************)
(* The inductive invariant of Query.  The time an argument was taken for   *)
(* is a function of its text, or a reading of the clock; at each statement *)
(* of main() it is known which tests the times and the zone have passed,   *)
(* and then what the condition was built from.                             *)
(***************************************************************************)
EXTENDS Query

SecondOfDay(hms) == hms[1] * 3600 + hms[2] * 60 + hms[3]

(* The instant the calendar and the clock give for a text of a known shape.*)
Moment(t) ==
  <<DayNumber(t.num[1], t.num[2], t.num[3]), SecondOfDay(GivenTime(t))>>

Reading(time) == \E s \in 0..MaxClock : time = <<ThisDay, s>>

(* What is left of an argument once it is parsed.                          *)
Taken(t, time) ==
  IF t.bytes \in Now THEN Reading(time)
  ELSE IF t.bytes \in Shapes /\ Real(t) THEN time = Moment(t)
  ELSE time = Err

TimesInv ==
  /\ Reading(clock)
  /\ IF pc = "start" THEN start = Err ELSE Taken(input.start, start)
  /\ IF pc \in {"start", "end"} THEN end = Err ELSE Taken(input.end, end)

(* Readings of the clock are in the order they were taken in, unless it    *)
(* was set back.                                                           *)
ClockInv ==
  /\ stepped \in BOOLEAN
  /\ pc = "end" /\ input.start.bytes \in Now => start[2] <= clock[2] \/ stepped
  /\ pc \notin {"start", "end"} /\ input.start.bytes \in Now /\ input.end.bytes \in Now =>
       start[2] <= end[2] \/ stepped

PassedInv ==
  /\ pc \in {"start", "end", "parsed", "timezone", "accounts", "query"} \cup Ended
  /\ pc \in {"backwards", "timezone", "refused", "accounts", "query", "answered", "panic"} =>
       ~Failed
  /\ pc = "backwards" => After(start, end)
  /\ pc \in {"accounts", "query", "answered"} => local_utc_offset_minutes(input.zone) = 0
  /\ pc = "panic" => local_utc_offset_minutes(input.zone) = Unresolved

CondInv ==
  /\ pc = "query" => cond = JobCond
  /\ pc = "answered" => answer = {j \in Jobs : Selects(JobCond, j)}

IInv == input \in Inputs /\ answer \subseteq Jobs /\ TimesInv /\ ClockInv /\ PassedInv /\ CondInv
=============================================================================
