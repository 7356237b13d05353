---------------------------- MODULE Query_proofs ----------------------------
(***************************************************************************)
(* Theorems about Query for every command line, zone, clock and set of     *)
(* jobs. They rest on the inductive invariant IInv of QueryInv, on the     *)
(* calendar and on the grammar.                                            *)
(***************************************************************************)
EXTENDS QueryInv, TimeParse_proofs

(* `now' is none of the documented shapes.                                 *)
LEMMA ShapeOrNow ==
  ASSUME NEW b, b \in Now
  PROVE  b \notin Shapes
<1>1. Len(b) = 3
  BY DEF Now
<1>2. Len(Date) = 10 /\ \A sep : Len(ToMinute(sep)) = 16 /\ Len(ToSecond(sep)) = 19
  BY DEF Date, ToMinute, ToSecond
<1>3. QED
  BY <1>1, <1>2 DEF Shapes

(* Byte 10 is an ASCII digit where the text is cut, so that no character   *)
(* is cut in two.                                                          *)
LEMMA SliceIsSafe ==
  ASSUME NEW t, Argument(t)
  PROVE  ~SlicePanics(t.bytes)
<1>1. SUFFICES ASSUME SlicePanics(t.bytes)
               PROVE  FALSE
  OBVIOUS
<1>2. t.bytes[10] = "d" /\ t.bytes[11] = "v" /\ t.bytes \in Seq(Class)
  BY <1>1 DEF SlicePanics, DateBytes, Digits, Argument
<1>3. 11 \in DOMAIN t.bytes
  BY <1>1, <1>2 DEF SlicePanics
<1>4. t.bytes[11] = "v" => t.bytes[11 - 1] \in {"u", "v"}
  BY <1>3, Zenon DEF Argument
<1>5. QED
  BY <1>2, <1>4

(* parse_time accepts the documented shapes of times that exist, and reads *)
(* hour, minute and second where they were given.                          *)
LEMMA AcceptedIsReal ==
  ASSUME NEW t, Argument(t)
  PROVE  /\ Accepted(t) <=> t.bytes \in Shapes /\ Real(t)
         /\ Accepted(t) => <<Hour(t), Minute(t), Second(t)>> = GivenTime(t)
<1> DEFINE b == t.bytes
<1>1. b \in Seq(Class) /\ t.num \in [1..6 -> Nat]
  BY DEF Argument
<1>2. PICK n \in Nat : n = Len(b)
  BY <1>1
<1>3. ASSUME Len(b) > 10, ClockBytes(b)
      PROVE  MinuteEnd(b) <= Len(b) <=> Len(b) > 16
  <2>1. \/ ShortClock(b) /\ ~(MinuteEnd(b) <= Len(b))
        \/ LongClock(b) /\ MinuteEnd(b) <= Len(b)
    BY <1>1, <1>3, ClockAccepted, Zenon
  <2>2. (ShortClock(b) => ~(Len(b) > 16)) /\ (LongClock(b) => Len(b) > 16)
    <3>1. (ShortClock(b) => n = 16) /\ (LongClock(b) => n = 19)
      BY <1>2, Zenon DEF ShortClock, LongClock
    <3>2. (n = 16 => ~(n > 16)) /\ (n = 19 => n > 16)
      OBVIOUS
    <3>3. QED
      BY <1>2, <3>1, <3>2, Zenon
  <2>3. QED
    BY <2>1, <2>2, Zenon
<1>4. DateBytes(b) /\ (Len(b) > 10 => ClockBytes(b)) <=> b \in Shapes
  <2>1. ASSUME Len(b) > 10, ClockBytes(b)
        PROVE  b[11] \in Separator /\ (ShortClock(b) \/ LongClock(b))
    BY <1>1, <2>1, ClockAccepted DEF ClockBytes
  <2>2. ASSUME b[11] \in Separator, ShortClock(b) \/ LongClock(b)
        PROVE  ClockBytes(b)
    BY <1>1, <2>2, ClockRecognised
  <2>3. QED
    BY <1>1, <2>1, <2>2, ShapeBytes
<1>5. ASSUME b \in Shapes
      PROVE  <<Hour(t), Minute(t), Second(t)>> = GivenTime(t) /\ (InRange(t) <=> Real(t))
  <2>1. (Len(b) > 10 => ClockBytes(b)) /\ (Len(b) > 16 => Len(b) > 10)
    BY <1>2, <1>4, <1>5
  <2>2. Len(b) > 10 /\ MinuteEnd(b) <= Len(b) <=> Len(b) > 16
    BY <1>3, <2>1
  <2>3. <<Hour(t), Minute(t), Second(t)>> = GivenTime(t)
    BY <2>2 DEF Hour, Minute, Second, GivenTime
  <2>4. PICK y \in Nat, m \in Nat, d \in Nat, h \in Nat, i \in Nat, s \in Nat :
          y = t.num[1] /\ m = t.num[2] /\ d = t.num[3] /\ h = t.num[4] /\ i = t.num[5] /\ s = t.num[6]
    <3>1. /\ t.num[1] \in Nat /\ t.num[2] \in Nat /\ t.num[3] \in Nat
          /\ t.num[4] \in Nat /\ t.num[5] \in Nat /\ t.num[6] \in Nat
      BY <1>1
    <3>2. QED
      BY <3>1, Zenon
  <2>5. InRange(t) <=>
          /\ m \in 1..12 /\ d \in 1..days_in_month(y, m)
          /\ Len(b) > 10 => h <= 23 /\ i <= 59
          /\ Len(b) > 16 => s <= 59
    <3>1. /\ Hour(t) = IF Len(b) > 10 THEN h ELSE 0
          /\ Minute(t) = IF Len(b) > 10 THEN i ELSE 0
          /\ Second(t) = IF Len(b) > 16 THEN s ELSE 0
      BY <2>2, <2>4 DEF Hour, Minute, Second
    <3>2. /\ Hour(t) <= 23 <=> (Len(b) > 10 => h <= 23)
          /\ Minute(t) <= 59 <=> (Len(b) > 10 => i <= 59)
          /\ Second(t) <= 59 <=> (Len(b) > 16 => s <= 59)
      BY <3>1
    <3>3. QED
      BY <2>4, <3>2, Zenon DEF InRange
  <2>6. Real(t) <=>
          /\ m \in 1..12 /\ d >= 1 /\ d <= MonthLength(y, m)
          /\ Len(b) > 10 => h < 24 /\ i < 60
          /\ Len(b) > 16 => s < 60
    BY <2>4 DEF Real, RealClock
  <2>7. m \in 1..12 => days_in_month(y, m) = MonthLength(y, m) /\ MonthLength(y, m) \in 28..31
    BY MonthLengths
  <2>8. QED
    BY <2>3, <2>5, <2>6, <2>7
<1>6. QED
  BY <1>4, <1>5 DEF Accepted

(* The calendar gives every date a day.                                    *)
LEMMA DayNumberIsInt ==
  ASSUME NEW y \in Int, NEW m \in 1..12, NEW d \in Int
  PROVE  DayNumber(y, m, d) \in Int
<1>1. LeapDay(y) \in Int
  BY DEF LeapDay
<1>2. MonthStart(y, m) \in Int
  BY <1>1, SMT DEF MonthStart
<1>3. DaysBeforeYear(y) \in Int /\ DaysBeforeYear(1970) \in Int
  BY SMT DEF DaysBeforeYear, LeapYearsBefore
<1>4. DaysBeforeMonth(y, m) \in Int
  BY <1>2, MonthStarts, Zenon
<1>5. QED
  BY <1>3, <1>4, SMT DEF DayNumber

(* A time that exists is a second of the day.                              *)
LEMMA TimeInRange ==
  ASSUME NEW t, Argument(t), Real(t)
  PROVE  SecondOfDay(GivenTime(t)) \in Nat /\ SecondOfDay(GivenTime(t)) <= 86399
<1> DEFINE h == IF Len(t.bytes) > 10 THEN t.num[4] ELSE 0
           i == IF Len(t.bytes) > 10 THEN t.num[5] ELSE 0
           s == IF Len(t.bytes) > 16 THEN t.num[6] ELSE 0
<1>1. /\ h \in Nat /\ h <= 23 /\ i \in Nat /\ i <= 59 /\ s \in Nat /\ s <= 59
  BY DEF Argument, Real, RealClock
<1>2. GivenTime(t) = <<h, i, s>>
  BY DEF GivenTime
<1> HIDE DEF h, i, s
<1>3. SecondOfDay(GivenTime(t)) = h * 3600 + i * 60 + s
  BY <1>2, SMT DEF SecondOfDay
<1>4. QED
  BY <1>1, <1>3, SMT

(* A date that exists is an instant, which neither an error nor a panic    *)
(* is.                                                                     *)
LEMMA MomentIsInstant ==
  ASSUME NEW t, Argument(t), Real(t)
  PROVE  IsInstant(Moment(t)) /\ Moment(t) # Err /\ Moment(t) # Panicked
<1>1. t.num[1] \in Int /\ t.num[2] \in 1..12 /\ t.num[3] \in Int
  BY DEF Argument, Real
<1> DEFINE day == DayNumber(t.num[1], t.num[2], t.num[3])
           second == SecondOfDay(GivenTime(t))
<1>2. day \in Int
  BY <1>1, DayNumberIsInt
<1>3. second \in Nat /\ second <= 86399
  BY TimeInRange
<1>4. Moment(t) = <<day, second>>
  BY DEF Moment
<1> HIDE DEF day, second
<1>5. QED
  BY <1>2, <1>3, <1>4, SMT DEF IsInstant, Err, Panicked

(* What parse_time returns, case by case.                                  *)
LEMMA ParsedTime ==
  ASSUME NEW t, Argument(t), NEW now
  PROVE  /\ t.bytes \in Now => parse_time(t, now) = now
         /\ t.bytes \notin Now /\ t.bytes \in Shapes /\ Real(t) => parse_time(t, now) = Moment(t)
         /\ t.bytes \notin Now /\ ~(t.bytes \in Shapes /\ Real(t)) => parse_time(t, now) = Err
<1>1. ~SlicePanics(t.bytes)
  BY SliceIsSafe
<1>2. Accepted(t) <=> t.bytes \in Shapes /\ Real(t)
  BY AcceptedIsReal, Zenon
<1> DEFINE day == days_from_civil(t.num[1], t.num[2], t.num[3])
           hms == <<Hour(t), Minute(t), Second(t)>>
<1>3. /\ t.bytes \in Now => parse_time(t, now) = now
      /\ t.bytes \notin Now /\ Accepted(t) => parse_time(t, now) = <<day, SecondOfDay(hms)>>
      /\ t.bytes \notin Now /\ ~Accepted(t) => parse_time(t, now) = Err
  <2>1. SecondOfDay(hms) = Hour(t) * 3600 + Minute(t) * 60 + Second(t)
    BY SMT DEF SecondOfDay
  <2> HIDE DEF day
  <2>2. parse_time(t, now) = IF t.bytes \in Now THEN now
                            ELSE IF SlicePanics(t.bytes) THEN Panicked
                            ELSE IF Accepted(t) THEN <<day, SecondOfDay(hms)>> ELSE Err
    BY <2>1, SMT DEF parse_time, day
  <2> HIDE DEF hms
  <2>3. QED
    BY <1>1, <2>2, Zenon
<1>4. ASSUME Accepted(t)
      PROVE  <<day, SecondOfDay(hms)>> = Moment(t)
  <2>1. t.num[1] \in Int /\ t.num[2] \in 1..12 /\ t.num[3] \in Int
    BY <1>4 DEF Accepted, InRange, Argument
  <2>2. day = DayNumber(t.num[1], t.num[2], t.num[3])
    BY <2>1, EpochDays, Zenon
  <2>3. hms = GivenTime(t)
    BY <1>4, AcceptedIsReal, Zenon
  <2> HIDE DEF day, hms
  <2>4. QED
    BY <2>2, <2>3, Zenon DEF Moment
<1> HIDE DEF day, hms
<1>5. QED
  BY <1>2, <1>3, <1>4, Zenon

(* What is known of a time by the text it was parsed from.                 *)
LEMMA TakenTime ==
  ASSUME NEW t, Argument(t), NEW time, Taken(t, time)
  PROVE  /\ time # Panicked
         /\ time # Err => IsInstant(time)
         /\ time # Err <=> t.bytes \in Now \/ (t.bytes \in Shapes /\ Real(t))
<1>1. Err # Panicked
  BY SMT DEF Err, Panicked
<1>2. ASSUME Reading(time)
      PROVE  IsInstant(time) /\ time # Err /\ time # Panicked
  <2>1. PICK s \in 0..MaxClock : time = <<ThisDay, s>>
    BY <1>2 DEF Reading
  <2>2. s \in Nat /\ s <= 86399
    BY ClockAssumption, SMT
  <2>3. QED
    BY <2>1, <2>2, SMT DEF IsInstant, Err, Panicked, ThisDay
<1>3. QED
  BY <1>1, <1>2, MomentIsInstant, Zenon DEF Taken

(* The first parse of an argument establishes what the invariant says.     *)
LEMMA ParsedIsTaken ==
  ASSUME NEW t, Argument(t), NEW now, Reading(now)
  PROVE  Taken(t, parse_time(t, now))
BY ParsedTime, Zenon DEF Taken

(* The sentinel is no offset a zone can have, and 0 minutes is less than a *)
(* minute.                                                                 *)
LEMMA Offsets ==
  ASSUME NEW zone, Zone(zone)
  PROVE  /\ local_utc_offset_minutes(zone) = Unresolved => ~zone.resolved
         /\ local_utc_offset_minutes(zone) = 0 => zone.resolved /\ zone.now \in -59..59
<1> DEFINE n == zone.now
<1>1. n \in Int /\ -2147483647 <= n /\ n <= 2147483647
  BY SMT DEF Zone
<1> HIDE DEF n
<1>2. /\ TruncDiv(n, 60) # Unresolved
      /\ TruncDiv(n, 60) = 0 => n \in -59..59
  BY <1>1, SMT DEF TruncDiv, Unresolved
<1>3. 0 # Unresolved
  BY SMT DEF Unresolved
<1>4. zone.resolved \in BOOLEAN
  BY SMT DEF Zone
<1>5. local_utc_offset_minutes(zone) = IF zone.resolved THEN TruncDiv(n, 60) ELSE Unresolved
  BY SMT DEF local_utc_offset_minutes, n
<1> HIDE DEF n
<1>6. QED
  BY <1>2, <1>3, <1>4, <1>5, Zenon DEF n

(* Before the first reading nothing was parsed, asked or answered.         *)
LEMMA InitInv == Init => IInv
<1> SUFFICES ASSUME Init PROVE IInv
  OBVIOUS
<1>1. Reading(clock)
  BY ClockAssumption, SMT DEF Init, Reading
<1>2. QED
  BY <1>1, Zenon DEF Init, IInv, TimesInv, ClockInv, PassedInv, CondInv

(* The invariant keeps what is known of the command line.                  *)
LEMMA InputGiven ==
  IInv => Argument(input.start) /\ Argument(input.end) /\ Zone(input.zone)
BY InputAssumption, Zenon DEF IInv

(* -S is parsed, and if it is `now' the clock is read.                     *)
LEMMA ParseStartStep == IInv /\ ParseStart => IInv'
<1> SUFFICES ASSUME IInv, ParseStart PROVE IInv'
  OBVIOUS
<1>1. pc = "start" /\ start' = parse_time(input.start, clock)
      /\ input' = input /\ clock' = clock /\ stepped' = stepped /\ end' = end /\ answer' = answer
  BY Zenon DEF ParseStart, Keep
<1>2. Reading(clock) /\ end = Err
  BY <1>1, Zenon DEF IInv, TimesInv
<1>3. Taken(input.start, start')
  BY <1>1, <1>2, InputGiven, ParsedIsTaken, Zenon
<1>4. pc' = "end"
  <2>1. start' # Panicked
    BY <1>3, InputGiven, TakenTime, Zenon
  <2>2. QED
    BY <2>1, Zenon DEF ParseStart, Becomes
<1>5. TimesInv'
  BY <1>1, <1>2, <1>3, <1>4 DEF TimesInv
<1>6. ClockInv'
  <2>1. input.start.bytes \in Now => start' = clock
    BY <1>1, InputGiven, ParsedTime, Zenon
  <2>2. clock[2] <= clock[2]
    BY <1>2, SMT DEF Reading
  <2>3. QED
    BY <1>1, <1>4, <2>1, <2>2, SMT DEF IInv, ClockInv
<1>7. PassedInv'
  BY <1>4 DEF PassedInv, Ended
<1>8. CondInv'
  BY <1>4 DEF CondInv
<1>9. QED
  BY <1>1, <1>5, <1>6, <1>7, <1>8, Zenon DEF IInv

(* -E is parsed; of two readings this is the later one.                    *)
LEMMA ParseEndStep == IInv /\ ParseEnd => IInv'
<1> SUFFICES ASSUME IInv, ParseEnd PROVE IInv'
  OBVIOUS
<1>1. pc = "end" /\ end' = parse_time(input.end, clock)
      /\ input' = input /\ clock' = clock /\ stepped' = stepped /\ start' = start /\ answer' = answer
  BY Zenon DEF ParseEnd, Keep
<1>2. Reading(clock) /\ Taken(input.start, start)
  BY <1>1 DEF IInv, TimesInv
<1>3. Taken(input.end, end')
  BY <1>1, <1>2, InputGiven, ParsedIsTaken, Zenon
<1>4. pc' = "parsed"
  <2>1. end' # Panicked
    BY <1>3, InputGiven, TakenTime, Zenon
  <2>2. QED
    BY <2>1, Zenon DEF ParseEnd, Becomes
<1>5. TimesInv'
  BY <1>1, <1>2, <1>3, <1>4 DEF TimesInv
<1>6. ClockInv'
  <2>1. input.end.bytes \in Now => end' = clock
    BY <1>1, InputGiven, ParsedTime, Zenon
  <2>2. QED
    BY <1>1, <1>4, <2>1 DEF IInv, ClockInv
<1>7. PassedInv'
  BY <1>4 DEF PassedInv, Ended
<1>8. CondInv'
  BY <1>4 DEF CondInv
<1>9. QED
  BY <1>1, <1>5, <1>6, <1>7, <1>8, Zenon DEF IInv

(* The second parse of a text that was refused is refused again.           *)
LEMMA RefusedAgain ==
  ASSUME NEW t, Argument(t), NEW now, Taken(t, Err)
  PROVE  parse_time(t, now) = Err
BY TakenTime, ParsedTime, Zenon

(* The steps of main() after both times are parsed move pc alone.          *)
Rest == pc \in {"parsed", "timezone", "accounts", "query"} \cup Ended
Advance == Rest /\ Rest' /\ UNCHANGED <<input, clock, stepped, start, end>>

(* Such steps disturb no time.                                             *)
LEMMA AdvanceKeeps == IInv /\ Advance => TimesInv' /\ ClockInv'
<1> SUFFICES ASSUME IInv, Advance PROVE TimesInv' /\ ClockInv'
  OBVIOUS
<1>1. pc \notin {"start", "end"} /\ pc' \notin {"start", "end"}
  BY DEF Advance, Rest, Ended
<1>2. input' = input /\ clock' = clock /\ stepped' = stepped /\ start' = start /\ end' = end
  BY DEF Advance
<1>3. QED
  BY <1>1, <1>2 DEF IInv, TimesInv, ClockInv

(* One of the texts is refused again: unreachable!() is not reached.       *)
LEMMA ReportBadTimeStep == IInv /\ ReportBadTime => IInv'
<1> SUFFICES ASSUME IInv, ReportBadTime PROVE IInv'
  OBVIOUS
<1>1. pc = "parsed" /\ Failed /\ answer' = answer
      /\ input' = input /\ clock' = clock /\ stepped' = stepped /\ start' = start /\ end' = end
  BY Zenon DEF ReportBadTime, Keep
<1>2. Taken(input.start, start) /\ Taken(input.end, end)
  BY <1>1 DEF IInv, TimesInv
<1>3. Err \in {parse_time(input.start, clock), parse_time(input.end, clock)}
  BY <1>1, <1>2, InputGiven, RefusedAgain, Zenon DEF Failed
<1>4. pc' = "usage"
  BY <1>3, Zenon DEF ReportBadTime, Becomes
<1>5. TimesInv' /\ ClockInv'
  BY <1>1, <1>4, AdvanceKeeps DEF Advance, Rest, Ended
<1>6. PassedInv'
  BY <1>4 DEF PassedInv, Ended
<1>7. CondInv'
  BY <1>4 DEF CondInv
<1>8. QED
  BY <1>1, <1>5, <1>6, <1>7, Zenon DEF IInv

(* The markers and the order of the times are checked.                     *)
LEMMA CheckArgsStep == IInv /\ CheckArgs => IInv'
<1> SUFFICES ASSUME IInv, CheckArgs PROVE IInv'
  OBVIOUS
<1>1. pc = "parsed" /\ ~Failed /\ answer' = answer
      /\ input' = input /\ clock' = clock /\ stepped' = stepped /\ start' = start /\ end' = end
  BY Zenon DEF CheckArgs, Keep
<1>2. pc' = "usage" \/ (pc' = "backwards" /\ After(start, end)) \/ pc' = "timezone"
  BY Zenon DEF CheckArgs, Becomes
<1>3. TimesInv' /\ ClockInv'
  BY <1>1, <1>2, AdvanceKeeps DEF Advance, Rest, Ended
<1>4. ~Failed' /\ (After(start, end) => After(start, end)')
  BY <1>1, Zenon DEF Failed, After, Earlier
<1>5. PassedInv'
  BY <1>2, <1>4 DEF PassedInv, Ended
<1>6. CondInv'
  BY <1>2 DEF CondInv
<1>7. QED
  BY <1>1, <1>3, <1>5, <1>6, Zenon DEF IInv

(* The offset of the zone is checked.                                      *)
LEMMA RequireUtcStep == IInv /\ RequireUtc => IInv'
<1> SUFFICES ASSUME IInv, RequireUtc PROVE IInv'
  OBVIOUS
<1>1. pc = "timezone" /\ answer' = answer
      /\ input' = input /\ clock' = clock /\ stepped' = stepped /\ start' = start /\ end' = end
  BY Zenon DEF RequireUtc, Keep
<1> DEFINE offset == local_utc_offset_minutes(input.zone)
<1>2. \/ offset = 0 /\ pc' = "accounts"
      \/ pc' = "refused"
      \/ offset = Unresolved /\ pc' = "panic"
  BY Zenon DEF RequireUtc, Becomes
<1>3. TimesInv' /\ ClockInv'
  BY <1>1, <1>2, AdvanceKeeps DEF Advance, Rest, Ended
<1>4. ~Failed' /\ offset' = offset
  <2>1. ~Failed
    BY <1>1 DEF IInv, PassedInv
  <2>2. QED
    BY <1>1, <2>1, Zenon DEF Failed
<1>5. PassedInv'
  <2> HIDE DEF offset
  <2>1. /\ pc' \in {"accounts", "query", "answered"} => offset' = 0
        /\ pc' = "panic" => offset' = Unresolved
        /\ pc' # "backwards" /\ pc' \in Ended \cup {"accounts"}
    BY <1>2, <1>4 DEF Ended
  <2>2. QED
    BY <1>4, <2>1, Zenon DEF PassedInv, offset
<1>6. CondInv'
  BY <1>2 DEF CondInv
<1>7. QED
  BY <1>1, <1>3, <1>5, <1>6, Zenon DEF IInv

(* The condition is built from the command line and the two times.         *)
LEMMA BuildCondStep == IInv /\ BuildCond => IInv'
<1> SUFFICES ASSUME IInv, BuildCond PROVE IInv'
  OBVIOUS
<1>1. pc = "accounts" /\ pc' = "query" /\ answer' = answer
      /\ input' = input /\ clock' = clock /\ stepped' = stepped /\ start' = start /\ end' = end
  BY Zenon DEF BuildCond, Keep, Becomes
<1>2. TimesInv' /\ ClockInv'
  BY <1>1, AdvanceKeeps DEF Advance, Rest, Ended
<1>3. PassedInv'
  <2>1. ~Failed /\ local_utc_offset_minutes(input.zone) = 0
    BY <1>1 DEF IInv, PassedInv
  <2>2. ~Failed' /\ local_utc_offset_minutes(input.zone)' = 0
    BY <1>1, <2>1, Zenon DEF Failed
  <2>3. QED
    BY <1>1, <2>2 DEF PassedInv
<1>4. CondInv'
  <2>1. cond' = JobCond /\ JobCond' = JobCond
    BY <1>1, Zenon DEF BuildCond, JobCond
  <2>2. QED
    BY <1>1, <2>1 DEF CondInv
<1>5. QED
  BY <1>1, <1>2, <1>3, <1>4, Zenon DEF IInv

(* The jobs the condition selects are answered.                            *)
LEMMA JobsGetStep == IInv /\ JobsGet => IInv'
<1> SUFFICES ASSUME IInv, JobsGet PROVE IInv'
  OBVIOUS
<1>1. pc = "query" /\ pc' = "answered"
      /\ input' = input /\ clock' = clock /\ stepped' = stepped /\ start' = start /\ end' = end
  BY Zenon DEF JobsGet, Keep, Becomes
<1>2. answer' \subseteq Jobs
  BY Zenon DEF JobsGet
<1>3. TimesInv' /\ ClockInv'
  BY <1>1, AdvanceKeeps DEF Advance, Rest, Ended
<1>4. PassedInv'
  <2>1. ~Failed /\ local_utc_offset_minutes(input.zone) = 0
    BY <1>1 DEF IInv, PassedInv
  <2>2. ~Failed' /\ local_utc_offset_minutes(input.zone)' = 0
    BY <1>1, <2>1, Zenon DEF Failed
  <2>3. QED
    BY <1>1, <2>2 DEF PassedInv, Ended
<1>5. CondInv'
  <2>1. answer' = {j \in Jobs : Selects(JobCond, j)}
    BY <1>1 DEF JobsGet, IInv, CondInv
  <2>2. JobCond' = JobCond
    BY <1>1, Zenon DEF JobCond
  <2>3. QED
    BY <1>1, <2>1, <2>2 DEF CondInv
<1>6. QED
  BY <1>1, <1>2, <1>3, <1>4, <1>5, Zenon DEF IInv

(* A clock that goes back says so in stepped.                              *)
LEMMA ClockMovesStep == IInv /\ ClockMoves => IInv'
<1> SUFFICES ASSUME IInv, ClockMoves PROVE IInv'
  OBVIOUS
<1>1. pc \in {"start", "end"} /\ pc' = pc /\ answer' = answer
      /\ input' = input /\ start' = start /\ end' = end
  BY Zenon DEF ClockMoves
<1>2. PICK s \in 0..MaxClock : /\ clock' = <<clock[1], s>>
                              /\ stepped' = (stepped \/ (pc = "end" /\ s < clock[2]))
  BY Zenon DEF ClockMoves
<1>3. PICK r \in 0..MaxClock : clock = <<ThisDay, r>>
  BY Zenon DEF IInv, TimesInv, Reading
<1>4. Reading(clock')
  <2>1. clock[1] = ThisDay
    BY <1>3, SMT
  <2>2. QED
    BY <1>2, <2>1, SMT DEF Reading
<1>5. TimesInv'
  BY <1>1, <1>4, Zenon DEF IInv, TimesInv
<1>6. ClockInv'
  <2>1. clock'[2] = s /\ clock[2] = r /\ s \in Int /\ r \in Int
    BY <1>2, <1>3, SMT
  <2>2. ASSUME input.start.bytes \in Now, pc = "end" PROVE start[2] <= s \/ stepped'
    <3>1. start[2] <= r \/ stepped
      BY <2>1, <2>2, Zenon DEF IInv, ClockInv
    <3>2. PICK q \in 0..MaxClock : start = <<ThisDay, q>>
      BY <2>2, Zenon DEF IInv, TimesInv, Taken, Reading
    <3>3. start[2] = q /\ q \in Int
      BY <3>2, SMT
    <3>4. CASE stepped
      BY <1>2, <3>4, Zenon
    <3>5. CASE s < r
      BY <1>2, <2>1, <2>2, <3>5, Zenon
    <3>6. QED
      BY <2>1, <3>1, <3>3, <3>4, <3>5, SMT
  <2>3. stepped' \in BOOLEAN
    BY <1>2, Zenon DEF IInv, ClockInv
  <2>4. pc' \in {"start", "end"}
    BY <1>1, Zenon
  <2>5. QED
    BY <1>1, <2>1, <2>2, <2>3, <2>4, Zenon DEF ClockInv
<1>7. PassedInv'
  BY <1>1 DEF PassedInv, Ended
<1>8. CondInv'
  BY <1>1 DEF CondInv
<1>9. QED
  BY <1>1, <1>5, <1>6, <1>7, <1>8, Zenon DEF IInv

(* Nothing happens.                                                        *)
LEMMA StutterStep == IInv /\ UNCHANGED vars => IInv'
<1> SUFFICES ASSUME IInv, UNCHANGED vars PROVE IInv'
  OBVIOUS
<1>1. input' = input /\ clock' = clock /\ stepped' = stepped /\ pc' = pc /\ start' = start
      /\ end' = end /\ cond' = cond /\ answer' = answer
  BY DEF vars
<1>2. TimesInv'
  BY <1>1, Zenon DEF IInv, TimesInv
<1>3. ClockInv'
  BY <1>1, Zenon DEF IInv, ClockInv
<1>4. PassedInv'
  BY <1>1, Zenon DEF IInv, PassedInv, Failed, After, Earlier
<1>5. CondInv'
  <2>1. JobCond' = JobCond
    BY <1>1, Zenon DEF JobCond
  <2>2. QED
    BY <1>1, <2>1 DEF IInv, CondInv
<1>6. QED
  BY <1>1, <1>2, <1>3, <1>4, <1>5, Zenon DEF IInv

(* Every step keeps the invariant.                                         *)
LEMMA NextInv == IInv /\ [Next]_vars => IInv'
<1>1. IInv /\ Terminated => IInv'
  BY StutterStep, Zenon DEF Terminated
<1>2. QED
  BY <1>1, ParseStartStep, ParseEndStep, ReportBadTimeStep, CheckArgsStep, RequireUtcStep,
     BuildCondStep, JobsGetStep, ClockMovesStep, StutterStep, Zenon DEF Next

(* At each statement of main() it is known what the two times were taken   *)
(* for and which tests they and the zone have passed.                      *)
THEOREM Inductive == Spec => []IInv
BY InitInv, NextInv, PTL DEF Spec

(* A parsed argument is an instant or an error, and never a panic.         *)
LEMMA NoErrIsInstant ==
  IInv => /\ pc # "start" => start # Panicked /\ (start # Err => IsInstant(start))
          /\ pc \notin {"start", "end"} => end # Panicked /\ (end # Err => IsInstant(end))
BY InputGiven, TakenTime, Zenon DEF IInv, TimesInv

(* The type invariant is part of the invariant.                            *)
LEMMA InvTypeOK == IInv => TypeOK
<1> SUFFICES ASSUME IInv PROVE TypeOK
  OBVIOUS
<1>1. start = Err \/ start = Panicked \/ IsInstant(start)
  BY NoErrIsInstant, Zenon DEF IInv, TimesInv
<1>2. ASSUME pc \in {"backwards", "timezone", "refused", "accounts", "query", "answered"}
      PROVE  IsInstant(start) /\ IsInstant(end)
  <2>1. ~Failed /\ pc \notin {"start", "end"}
    BY <1>2 DEF IInv, PassedInv
  <2>2. QED
    BY <2>1, NoErrIsInstant, Zenon DEF Failed
<1>3. QED
  BY <1>1, <1>2, Zenon DEF TypeOK, IInv, PassedInv

(* main() is at a known statement, and past the tests both times are       *)
(* instants.                                                               *)
THEOREM TypeCorrect == Spec => []TypeOK
BY Inductive, InvTypeOK, PTL

(* What was taken was acceptable.                                          *)
LEMMA InvGrammar == IInv => AcceptsTheGrammar
BY InputGiven, TakenTime, Zenon DEF IInv, TimesInv, AcceptsTheGrammar

(* A text for -S is taken exactly when it is `now' or has a documented     *)
(* shape and names a day and a time that exist, however long it is and     *)
(* whatever bytes it holds: the chain of early returns of parse_time lets  *)
(* nothing else through and loses nothing.                                 *)
THEOREM Grammar == Spec => []AcceptsTheGrammar
BY Inductive, InvGrammar, PTL

(* Only a zone that cannot be resolved is left to panic over.              *)
LEMMA InvNoTimePanics == IInv => NoTimePanics
<1> SUFFICES ASSUME IInv, pc = "panic" PROVE IsInstant(start) /\ IsInstant(end) /\ ~input.zone.resolved
  BY DEF NoTimePanics
<1>1. ~Failed /\ local_utc_offset_minutes(input.zone) = Unresolved /\ pc \notin {"start", "end"}
  BY DEF IInv, PassedInv
<1>2. ~input.zone.resolved
  BY <1>1, InputGiven, Offsets, Zenon
<1>3. QED
  BY <1>1, <1>2, NoErrIsInstant, Zenon DEF Failed

(* No bytes of -S and -E make fastsacct panic, and neither does a clock    *)
(* that moves between the two parses of a text that was refused.           *)
THEOREM NoPanic == Spec => []NoTimePanics
BY Inductive, InvNoTimePanics, PTL

(* What a start time of a documented shape was taken for.                  *)
LEMMA StartIsMoment ==
  IInv /\ DateGiven => start = Moment(input.start) /\ Argument(input.start) /\ Real(input.start)
<1> SUFFICES ASSUME IInv, DateGiven
             PROVE  start = Moment(input.start) /\ Argument(input.start) /\ Real(input.start)
  OBVIOUS
<1>1. start # Err
  <2>1. Len(start) = 2
    BY SMT DEF DateGiven, IsInstant
  <2>2. QED
    BY <2>1, SMT DEF Err
<1>2. input.start.bytes \in Shapes /\ input.start.bytes \notin Now
  BY ShapeOrNow, Zenon DEF DateGiven
<1>3. Taken(input.start, start)
  BY <1>1, Zenon DEF IInv, TimesInv
<1>4. QED
  BY <1>1, <1>2, <1>3, InputGiven, Zenon DEF Taken

(* The instant of the invariant is the calendar's.                         *)
LEMMA InvEpoch == IInv => EpochIsCalendar
<1> SUFFICES ASSUME IInv, DateGiven PROVE EpochIsCalendar
  BY DEF EpochIsCalendar
<1>1. start = Moment(input.start)
  BY StartIsMoment, Zenon
<1>2. QED
  BY <1>1, SMT DEF Moment, SecondOfDay, EpochIsCalendar

(* The days_from_civil of every year counts what the calendar counts.      *)
THEOREM Epoch == Spec => []EpochIsCalendar
BY Inductive, InvEpoch, PTL

(* Hour, minute and second come back from the second of the day.           *)
LEMMA ClockComesBack ==
  ASSUME NEW h \in Nat, h <= 23, NEW i \in Nat, i <= 59, NEW s \in Nat, s <= 59,
         NEW t, t = h * 3600 + i * 60 + s
  PROVE  t \div 3600 = h /\ (t \div 60) % 60 = i /\ t % 60 = s
<1>1. t \div 3600 = h
  <2>1. PICK r \in Nat : r = i * 60 + s
    BY SMT
  <2>2. r < 3600 /\ t = h * 3600 + r
    BY <2>1, SMT
  <2>3. QED
    BY <2>2, SMT
<1>2. t \div 60 = h * 60 + i
  BY SMT
<1>3. t % 60 = s
  BY SMT
<1>4. (h * 60 + i) % 60 = i
  BY SMT
<1>5. (t \div 60) % 60 = i
  BY <1>2, <1>4, SMT
<1>6. QED
  BY <1>1, <1>3, <1>5, SMT

(* The last three numbers of format_utc_iso are the time that was given.   *)
LEMMA GivenClock ==
  ASSUME NEW t, Argument(t), Real(t)
  PROVE  LET second == SecondOfDay(GivenTime(t))
         IN  <<second \div 3600, (second \div 60) % 60, second % 60>> = GivenTime(t)
<1> DEFINE h == IF Len(t.bytes) > 10 THEN t.num[4] ELSE 0
           i == IF Len(t.bytes) > 10 THEN t.num[5] ELSE 0
           s == IF Len(t.bytes) > 16 THEN t.num[6] ELSE 0
           second == SecondOfDay(GivenTime(t))
<1>1. h \in Nat /\ h <= 23 /\ i \in Nat /\ i <= 59 /\ s \in Nat /\ s <= 59
  BY DEF Argument, Real, RealClock
<1>2. GivenTime(t) = <<h, i, s>>
  BY DEF GivenTime
<1> HIDE DEF h, i, s
<1>3. second = h * 3600 + i * 60 + s
  BY <1>2, SMT DEF SecondOfDay
<1> HIDE DEF second
<1>4. second \div 3600 = h /\ (second \div 60) % 60 = i /\ second % 60 = s
  BY <1>1, <1>3, ClockComesBack, SMT
<1>5. <<second \div 3600, (second \div 60) % 60, second % 60>> = GivenTime(t)
  BY <1>2, <1>4, SMT
<1>6. QED
  BY <1>5 DEF second

(* The first three numbers of format_utc_iso are the date that was given.  *)
LEMMA GivenDate ==
  ASSUME NEW t, Argument(t), Real(t)
  PROVE  civil_from_days(DayNumber(t.num[1], t.num[2], t.num[3])) = SubSeq(t.num, 1, 3)
<1>1. PICK y \in Nat, m \in 1..12, d \in Nat : y = t.num[1] /\ m = t.num[2] /\ d = t.num[3]
  <2>1. t.num[1] \in Nat /\ t.num[2] \in 1..12 /\ t.num[3] \in Nat
    BY DEF Argument, Real
  <2>2. QED
    BY <2>1, Zenon
<1>2. d >= 1 /\ d <= MonthLength(y, m)
  BY <1>1, Zenon DEF Real
<1>3. d \in 1..MonthLength(y, m)
  <2>1. MonthLength(y, m) \in Int
    BY MonthLengths
  <2>2. QED
    BY <1>2, <2>1
<1>4. days_from_civil(y, m, d) = DayNumber(y, m, d)
  BY EpochDays
<1>5. civil_from_days(days_from_civil(y, m, d)) = <<y, m, d>>
  BY <1>3, DayFound
<1>6. SubSeq(t.num, 1, 3) = <<y, m, d>>
  <2> DEFINE n == t.num
  <2>1. n \in [1..6 -> Nat] /\ y = n[1] /\ m = n[2] /\ d = n[3]
    BY <1>1 DEF Argument
  <2> HIDE DEF n
  <2> DEFINE sub == SubSeq(n, 1, 3)
  <2>2. \A i \in 1..3 : n[i] \in Nat
    BY <2>1
  <2>3. sub \in Seq(Nat) /\ Len(sub) = 3 /\ \A i \in 1..3 : sub[i] = n[i]
    <3>1. /\ sub \in Seq(Nat) /\ Len(sub) = IF 1 <= 3 THEN 3 - 1 + 1 ELSE 0
          /\ \A i \in 1..(3 - 1 + 1) : sub[i] = n[1 + i - 1]
      BY <2>2, SubSeqProperties
    <3> HIDE DEF sub
    <3>2. QED
      BY <3>1
  <2> HIDE DEF sub
  <2>4. sub = <<y, m, d>>
    BY <2>1, <2>3
  <2>5. QED
    BY <2>4 DEF n, sub
<1>7. QED
  BY <1>1, <1>4, <1>5, <1>6, Zenon

(* The six numbers of format_utc_iso are those of the text.                *)
LEMMA InvLog == IInv => LogShowsTheDate
<1> SUFFICES ASSUME IInv, DateGiven
             PROVE  format_utc_iso(start) = SubSeq(input.start.num, 1, 3) \o GivenTime(input.start)
  BY DEF LogShowsTheDate
<1> DEFINE t == input.start
           day == DayNumber(t.num[1], t.num[2], t.num[3])
           second == SecondOfDay(GivenTime(t))
<1>1. start = <<day, second>> /\ Argument(t) /\ Real(t)
  BY StartIsMoment, Zenon DEF Moment
<1>2. civil_from_days(day) = SubSeq(t.num, 1, 3)
  BY <1>1, GivenDate, Zenon
<1> DEFINE hms == <<second \div 3600, (second \div 60) % 60, second % 60>>
<1>3. hms = GivenTime(t)
  BY <1>1, GivenClock, SMT
<1> HIDE DEF day, second, t
<1>4. start[1] = day /\ start[2] = second
  BY <1>1, SMT
<1>5. format_utc_iso(start) = civil_from_days(day) \o hms
  BY <1>4, SMT DEF format_utc_iso
<1> HIDE DEF hms
<1>6. format_utc_iso(start) = SubSeq(t.num, 1, 3) \o GivenTime(t)
  BY <1>2, <1>3, <1>5, Zenon
<1>7. QED
  BY <1>6, Zenon DEF t

(* civil_from_days undoes days_from_civil for every date of every year, so *)
(* the --debug line shows the date and the time that were given.           *)
THEOREM LogDate == Spec => []LogShowsTheDate
BY Inductive, InvLog, PTL

(* Time passes between the two readings of a run asked for `now' twice.    *)
LEMMA InvNowNow == IInv => NowNowRuns
<1> SUFFICES ASSUME IInv, pc = "backwards", input.start.bytes \in Now, input.end.bytes \in Now
             PROVE  stepped
  BY DEF NowNowRuns
<1>1. After(start, end) /\ (start[2] <= end[2] \/ stepped) /\ pc \notin {"start", "end"}
  BY DEF IInv, PassedInv, ClockInv
<1>2. Reading(start) /\ Reading(end)
  BY <1>1, Zenon DEF IInv, TimesInv, Taken
<1>3. PICK p \in 0..MaxClock, q \in 0..MaxClock : start = <<ThisDay, p>> /\ end = <<ThisDay, q>>
  BY <1>2, Zenon DEF Reading
<1>4. start[1] = ThisDay /\ end[1] = ThisDay /\ start[2] = p /\ end[2] = q /\ p \in Int /\ q \in Int
  BY <1>3, SMT
<1>5. q < p
  BY <1>1, <1>4, SMT DEF After, Earlier, ThisDay
<1>6. ~(p <= q)
  BY <1>4, <1>5, SMT
<1>7. QED
  BY <1>1, <1>4, <1>6, Zenon

(* -S now -E now is refused only when the clock was set back.              *)
THEOREM NowNow == Spec => []NowNowRuns
BY Inductive, InvNowNow, PTL

(* A query was reached with an offset of 0 minutes.                        *)
LEMMA InvUtc == IInv => OnlyUtcQueries
<1> SUFFICES ASSUME IInv, pc = "answered" PROVE input.zone.resolved /\ input.zone.now \in -59..59
  BY DEF OnlyUtcQueries
<1>1. local_utc_offset_minutes(input.zone) = 0
  BY DEF IInv, PassedInv
<1>2. QED
  BY <1>1, InputGiven, Offsets, Zenon

(* The minutes are cut towards zero, so less than a minute off UTC counts  *)
(* as UTC on either side, and nothing else does.                           *)
THEOREM UtcOnly == Spec => []OnlyUtcQueries
BY Inductive, InvUtc, PTL

(* What is left of an entry by trim and filter is one word.                *)
LEMMA WordOfEntry ==
  ASSUME NEW entry, OneWord(entry), Trim(entry) # {}
  PROVE  \E w \in Trim(entry) : Trim(entry) = {w}
<1>1. PICK w \in Trim(entry) : TRUE
  OBVIOUS
<1>2. \A v \in Trim(entry) : v = w
  BY <1>1, Zenon DEF OneWord, Trim
<1>3. QED
  BY <1>1, <1>2

(* The list holds the lower-cased words of -A, and none is empty only if   *)
(* -A names no account.                                                    *)
LEMMA AccountsNamed ==
  IInv => /\ JobCond.acct_list = {} <=> Named = {}
          /\ \A a : {a} \in JobCond.acct_list <=> a \in Named
<1> SUFFICES ASSUME IInv
             PROVE  /\ JobCond.acct_list = {} <=> Named = {}
                    /\ \A a : {a} \in JobCond.acct_list <=> a \in Named
  OBVIOUS
<1> DEFINE list == input.accounts
<1>1. \A i \in DOMAIN list : OneWord(list[i])
  BY InputAssumption, Zenon DEF IInv
<1> DEFINE found == JobCond.acct_list
<1>2. found = Accounts(list)
  BY DEF JobCond
<1>3. \A a : a \in Named <=> \E i \in DOMAIN list : \E w \in Trim(list[i]) : a = lower[w]
  BY Zenon DEF Named
<1>4. \A e : e \in Accounts(list) <=>
             \E i \in DOMAIN list : Trim(list[i]) # {} /\ e = {lower[w] : w \in Trim(list[i])}
  BY Zenon DEF Accounts, Entries
<1> HIDE DEF list, found
<1>5. \A i \in DOMAIN list : \A w \in Trim(list[i]) : {lower[v] : v \in Trim(list[i])} = {lower[w]}
  <2> SUFFICES ASSUME NEW i \in DOMAIN list, NEW w \in Trim(list[i])
               PROVE  {lower[v] : v \in Trim(list[i])} = {lower[w]}
    OBVIOUS
  <2>1. Trim(list[i]) = {w}
    BY <1>1, WordOfEntry, Zenon
  <2>2. QED
    BY <2>1
<1>6. ASSUME NEW a, a \in Named
      PROVE  {a} \in Accounts(list)
  <2>1. PICK i \in DOMAIN list : \E w \in Trim(list[i]) : a = lower[w]
    BY <1>3, <1>6, Zenon
  <2>2. {lower[v] : v \in Trim(list[i])} = {a} /\ Trim(list[i]) # {}
    BY <1>5, <2>1, Zenon
  <2>3. QED
    BY <1>4, <2>2, Zenon
<1>7. ASSUME NEW e, e \in Accounts(list)
      PROVE  \E a \in Named : e = {a}
  <2>1. PICK i \in DOMAIN list : Trim(list[i]) # {} /\ e = {lower[w] : w \in Trim(list[i])}
    BY <1>4, <1>7, Zenon
  <2>2. PICK w \in Trim(list[i]) : TRUE
    BY <2>1
  <2>3. e = {lower[w]} /\ lower[w] \in Named
    BY <1>3, <1>5, <2>1, <2>2, Zenon
  <2>4. QED
    BY <2>3, Zenon
<1>8. \A a, b : {a} = {b} => a = b
  BY Zenon
<1>9. Accounts(list) = {} <=> Named = {}
  BY <1>6, <1>7
<1>10. ASSUME NEW a, {a} \in Accounts(list)
       PROVE  a \in Named
  <2>1. PICK b \in Named : {a} = {b}
    BY <1>7, <1>10
  <2>2. a = b
    BY <1>8, <2>1
  <2>3. QED
    BY <2>2
<1>11. \A a : {a} \in Accounts(list) <=> a \in Named
  BY <1>6, <1>10
<1>12. (found = {} <=> Named = {}) /\ (\A a : {a} \in found <=> a \in Named)
  BY <1>2, <1>9, <1>11
<1>13. QED
  BY <1>12 DEF found

(* The condition of the invariant selects what was asked for.              *)
LEMMA InvAnswer == IInv => AnswerIsWhatWasAsked
<1> SUFFICES ASSUME IInv, pc = "answered", NEW j \in Jobs
             PROVE  j \in answer <=> /\ Named = {} \/ j.account \in Named
                                    /\ ~Earlier(end, j.from) /\ ~Earlier(j.to, start)
  BY Zenon DEF AnswerIsWhatWasAsked
<1>1. j \in answer <=> Selects(JobCond, j)
  BY Zenon DEF IInv, CondInv
<1>2. /\ JobCond.usage_start = start /\ JobCond.usage_end = end
      /\ JobCond.db_flags = NOTSET /\ "DUP" \in JobCond.flags
  BY DEF JobCond, CondFlags, DbFlags
<1>3. Selects(JobCond, j) <=> /\ Named = {} \/ j.account \in Named
                             /\ ~Earlier(end, j.from) /\ ~Earlier(j.to, start)
  BY <1>2, AccountsNamed, Zenon DEF Selects
<1>4. QED
  BY <1>1, <1>3, Zenon

(* The condition jobs_get builds selects every record of the named         *)
(* accounts in the window and no other, whatever else it says.             *)
THEOREM AnswerAsAsked == Spec => []AnswerIsWhatWasAsked
BY Inductive, InvAnswer, PTL
=============================================================================
