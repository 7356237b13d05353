-------------------------------- MODULE Query --------------------------------
(***************************************************************************)
(* From the command line to the jobs of the answer: main() of              *)
(* src/src/main.rs up to the accounts, the condition jobs_get of           *)
(* src/src/slurmdb.rs builds, and (external) the jobs slurmdbd selects.    *)
(* The clock is read once for each `now' and moves in between.             *)
(***************************************************************************)
EXTENDS TimeParse

CONSTANTS
  Inputs,     \* command lines and timezones a process can be started with
  Jobs,       \* jobs in the accounting database
  lower,      \* to_lowercase, on the words of -A
  MaxClock    \* the clock shows seconds 0..MaxClock of one day

(* An argument is a String, so that a later byte of a character follows    *)
(* the first or another later one.                                         *)
Argument(t) ==
  /\ t.bytes \in Seq(Class) /\ t.num \in [1..6 -> Nat]
  /\ \A i \in DOMAIN t.bytes : t.bytes[i] = "v" => i > 1 /\ t.bytes[i - 1] \in {"u", "v"}

(* An offset is 32 bits wide in a tzfile, and not the smallest number.     *)
Zone(zone) ==
  /\ zone.resolved \in BOOLEAN
  /\ zone.now \in Int /\ -2147483647 <= zone.now /\ zone.now <= 2147483647

Blank == " "

(* An entry of -A is one word at most, with blanks around it.              *)
OneWord(entry) ==
  \A k, n \in DOMAIN entry : entry[k] # Blank /\ entry[n] # Blank => entry[k] = entry[n]

ASSUME InputAssumption ==
  /\ \A i \in Inputs :
       /\ DOMAIN i = {"start", "end", "accounts", "markers", "zone"}
       /\ Argument(i.start) /\ Argument(i.end)
       /\ \A k \in DOMAIN i.accounts : OneWord(i.accounts[k])
       /\ i.markers \in BOOLEAN /\ Zone(i.zone)
  /\ \A j \in Jobs : DOMAIN j = {"account", "flags", "latest", "from", "to"}

ASSUME ClockAssumption == MaxClock \in Nat /\ MaxClock <= 86399

VARIABLES
  input,    \* the command line and the timezone
  clock,    \* the system clock
  stepped,  \* ghost: it was set back since the first reading
  pc,       \* the next statement of main(), or how the run ended
  start,    \* starttime
  end,      \* endtime
  cond,     \* job_cond
  answer    \* the jobs slurmdb_jobs_get returned

vars == <<input, clock, stepped, pc, start, end, cond, answer>>

ThisDay == 20000      \* 2024-10-04

Ended == {"usage", "backwards", "refused", "panic", "answered"}

Init ==
  /\ input \in Inputs
  /\ clock = <<ThisDay, 0>>
  /\ stepped = FALSE
  /\ pc = "start"
  /\ start = Err
  /\ end = Err
  /\ cond = [none |-> TRUE]
  /\ answer = {}

------------------------------------------------------------------------------
Becomes(next) == pc' = next
Keep(rest) == UNCHANGED <<input, rest>>

ParseStart ==
  /\ pc = "start"
  /\ start' = parse_time(input.start, clock)
  /\ Becomes(IF start' = Panicked THEN "panic" ELSE "end")
  /\ Keep(<<clock, stepped, end, cond, answer>>)

ParseEnd ==
  /\ pc = "end"
  /\ end' = parse_time(input.end, clock)
  /\ Becomes(IF end' = Panicked THEN "panic" ELSE "parsed")
  /\ Keep(<<clock, stepped, start, cond, answer>>)

Failed == start = Err \/ end = Err

(* The texts are parsed again for their message; none failing now is       *)
(* unreachable!().                                                         *)
ReportBadTime ==
  /\ pc = "parsed"
  /\ Failed
  /\ Becomes(IF Err \in {parse_time(input.start, clock), parse_time(input.end, clock)}
             THEN "usage" ELSE "panic")
  /\ Keep(<<clock, stepped, start, end, cond, answer>>)

(* An instant before another.                                              *)
Earlier(a, b) == a[1] < b[1] \/ (a[1] = b[1] /\ a[2] < b[2])

\* Mutant: an empty window is refused, too.
NotBefore(a, b) == ~Earlier(a, b)

After(a, b) == Earlier(b, a)

CheckArgs ==
  /\ pc = "parsed"
  /\ ~Failed
  /\ Becomes(IF ~input.markers THEN "usage"
             ELSE IF After(start, end) THEN "backwards" ELSE "timezone")
  /\ Keep(<<clock, stepped, start, end, cond, answer>>)

(* abs() of the sentinel panics in a debug build and wraps in a release    *)
(* build; neither goes on.                                                 *)
RequireUtc ==
  /\ pc = "timezone"
  /\ LET offset == local_utc_offset_minutes(input.zone)
     IN  \/ offset = 0 /\ Becomes("accounts")
         \/ offset # 0 /\ Becomes("refused")
         \/ offset = Unresolved /\ Becomes("panic")
  /\ Keep(<<clock, stepped, start, end, cond, answer>>)

(* split, trim, filter and lower-case: a list of accounts stands as a set, *)
(* an entry as its words, and NULL as the empty list.                      *)
Trim(entry) == {entry[k] : k \in DOMAIN entry} \ {Blank}
Entries(entries) == {Trim(entries[i]) : i \in DOMAIN entries} \ {{}}
Accounts(entries) == {{lower[w] : w \in entry} : entry \in Entries(entries)}

CondFlags == {"DUP", "NO_STEP", "NO_TRUNC"}     \* JOBCOND_FLAG_*
NOTSET == 1     \* SLURMDB_JOB_FLAG_NOTSET

\* Mutant: db_flags is left as Default made it.
DefaultDbFlags == 0

DbFlags == NOTSET

(* userid_list is never set.                                               *)
JobCond ==
  [acct_list |-> Accounts(input.accounts), usage_start |-> start, usage_end |-> end,
   flags |-> CondFlags, db_flags |-> DbFlags]

BuildCond ==
  /\ pc = "accounts"
  /\ cond' = JobCond
  /\ Becomes("query")
  /\ Keep(<<clock, stepped, start, end, answer>>)

(* slurmdbd: no list means no filter, db_flags is a filter unless NOTSET,  *)
(* an earlier record of a requeued job comes with DUP only.                *)
Selects(c, j) ==
  /\ c.acct_list = {} \/ {j.account} \in c.acct_list
  /\ c.db_flags = NOTSET \/ c.db_flags = j.flags
  /\ "DUP" \in c.flags \/ j.latest
  /\ ~Earlier(c.usage_end, j.from) /\ ~Earlier(j.to, c.usage_start)

JobsGet ==
  /\ pc = "query"
  /\ answer' = {j \in Jobs : Selects(cond, j)}
  /\ Becomes("answered")
  /\ Keep(<<clock, stepped, start, end, cond>>)

(* Time passes, or somebody sets the clock back; only runs that will look  *)
(* at it can tell.                                                         *)
ClockMoves ==
  /\ pc \in {"start", "end"}
  /\ input.start.bytes \in Now \/ input.end.bytes \in Now
  /\ \E s \in 0..MaxClock :
       /\ clock' = <<clock[1], s>>
       /\ stepped' = (stepped \/ (pc = "end" /\ s < clock[2]))
  /\ UNCHANGED <<input, pc, start, end, cond, answer>>

Terminated == pc \in Ended /\ UNCHANGED vars

Next ==
  \/ ParseStart \/ ParseEnd \/ ReportBadTime \/ CheckArgs \/ RequireUtc
  \/ BuildCond \/ JobsGet \/ ClockMoves \/ Terminated

Spec == Init /\ [][Next]_vars

------------------------------------------------------------------------------
(* Properties.                                                             *)

IsInstant(t) == Len(t) = 2 /\ t[1] \in Int /\ t[2] \in Nat /\ t[2] <= 86399

TypeOK ==
  /\ pc \in {"start", "end", "parsed", "timezone", "accounts", "query"} \cup Ended
  /\ start = Err \/ start = Panicked \/ IsInstant(start)
  /\ pc \in {"backwards", "timezone", "refused", "accounts", "query", "answered"} =>
       IsInstant(start) /\ IsInstant(end)
  /\ answer \subseteq Jobs

(* The grammar of the comment (timeparse.rs:57-58) as a set of texts.      *)
Date == <<"d", "d", "d", "d", "-", "d", "d", "-", "d", "d">>
ToMinute(sep) == <<"d", "d", "d", "d", "-", "d", "d", "-", "d", "d", sep, "d", "d", ":", "d", "d">>
ToSecond(sep) ==
  <<"d", "d", "d", "d", "-", "d", "d", "-", "d", "d", sep, "d", "d", ":", "d", "d", ":", "d", "d">>
Shapes == {Date} \cup {ToMinute(sep) : sep \in Separator} \cup {ToSecond(sep) : sep \in Separator}

RealClock(t) ==
  /\ Len(t.bytes) > 10 => t.num[4] < 24 /\ t.num[5] < 60
  /\ Len(t.bytes) > 16 => t.num[6] < 60

MonthLength(y, m) ==
  IF m = 2 /\ LeapYear(y) THEN 29
  ELSE <<31, 28, 31, 30, 31, 30, 31, 31, 30, 31, 30, 31>>[m]

Real(t) ==
  /\ t.num[2] \in 1..12 /\ t.num[3] >= 1 /\ t.num[3] <= MonthLength(t.num[1], t.num[2])
  /\ RealClock(t)

(* A start time is accepted exactly when it is `now' or has one of the     *)
(* documented shapes and names a day and a time that exist: no text one or *)
(* two slips away from a good one gets through the chain of early returns, *)
(* and no good one is lost in it.                                          *)
AcceptsTheGrammar ==
  pc \notin {"start", "panic"} =>
    (start # Err <=>
       input.start.bytes \in Now \/ (input.start.bytes \in Shapes /\ Real(input.start)))

(* Whatever bytes -S and -E hold, fastsacct does not panic over them: the  *)
(* slice at byte 10 never cuts a character (timeparse.rs:73), and the      *)
(* second parse fails where the first one did (main.rs:140).               *)
NoTimePanics ==
  pc = "panic" => IsInstant(start) /\ IsInstant(end) /\ ~input.zone.resolved

(* Days before a year since 0000-01-01, and before a month in it.          *)
LeapYearsBefore(y) == (y + 3) \div 4 - (y + 99) \div 100 + (y + 399) \div 400
DaysBeforeYear(y) == 365 * y + LeapYearsBefore(y)
DaysBeforeMonth(y, m) ==
  LET sum[k \in 1..12] == IF k = 1 THEN 0 ELSE sum[k - 1] + MonthLength(y, k - 1)
  IN  sum[m]
DayNumber(y, m, d) ==
  DaysBeforeYear(y) + DaysBeforeMonth(y, m) + d - 1 - DaysBeforeYear(1970)

GivenTime(t) ==
  <<IF Len(t.bytes) > 10 THEN t.num[4] ELSE 0, IF Len(t.bytes) > 10 THEN t.num[5] ELSE 0,
    IF Len(t.bytes) > 16 THEN t.num[6] ELSE 0>>

DateGiven == input.start.bytes \in Shapes /\ IsInstant(start)

(* The instant a date is taken for is the one the calendar gives, counted  *)
(* by years and months from year 0: eras, centuries, leap days and dates   *)
(* before 1970 included.                                                   *)
EpochIsCalendar ==
  DateGiven =>
    LET n == input.start.num
        hms == GivenTime(input.start)
    IN  start = <<DayNumber(n[1], n[2], n[3]), hms[1] * 3600 + hms[2] * 60 + hms[3]>>

(* The usage_start of the --debug line reads as the date that was given.   *)
LogShowsTheDate ==
  DateGiven => format_utc_iso(start) = SubSeq(input.start.num, 1, 3) \o GivenTime(input.start)

(* -S now -E now is refused as "start time is after end time" only when    *)
(* the clock was set back between the two readings (main.rs:132, 162).     *)
NowNowRuns ==
  pc = "backwards" /\ input.start.bytes \in Now /\ input.end.bytes \in Now => stepped

(* No run queries under a zone that cannot be resolved or is a minute or   *)
(* more off UTC at that moment.                                            *)
OnlyUtcQueries ==
  pc = "answered" => input.zone.resolved /\ input.zone.now \in -59..59

Named ==
  {lower[w] : w \in UNION {Trim(input.accounts[i]) : i \in DOMAIN input.accounts}}

(* The answer is what was asked for: every record, requeued and backfilled *)
(* jobs included, of the named accounts in the window, in whatever case    *)
(* and with whatever blanks they were written -- and of all accounts only  *)
(* if -A names none.                                                       *)
AnswerIsWhatWasAsked ==
  pc = "answered" =>
    \A j \in Jobs :
      j \in answer <=>
        /\ Named = {} \/ j.account \in Named
        /\ ~Earlier(end, j.from) /\ ~Earlier(j.to, start)

(* "Refuse to run under a non-UTC system timezone" (timeparse.rs:110): a   *)
(* zone that is off UTC at any time is not UTC.                            *)
RefusesNonUtc ==
  pc = "answered" => input.zone.now = 0 /\ input.zone.otherwise = 0
==============================================================================
