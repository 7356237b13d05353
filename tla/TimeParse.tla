----------------------------- MODULE TimeParse -----------------------------
(***************************************************************************)
(* src/src/timeparse.rs: the grammar of -S and -E, civil dates, the offset *)
(* of the local timezone.  An instant is <<day, second of the day>>, since *)
(* the epoch: its 64-bit number of seconds is beyond TLC's integers.       *)
(***************************************************************************)
EXTENDS Integers, Sequences

(* Rust's / rounds towards zero, \div downwards.                           *)
TruncDiv(a, b) == IF a >= 0 THEN a \div b ELSE -((-a) \div b)

------------------------------------------------------------------------------
(* Civil dates.                                                            *)

LeapYear(y) == (y % 4 = 0 /\ y % 100 # 0) \/ y % 400 = 0

days_in_month(y, m) ==
  CASE m \in {1, 3, 5, 7, 8, 10, 12} -> 31
    [] m \in {4, 6, 9, 11} -> 30
    [] m = 2 -> IF LeapYear(y) THEN 29 ELSE 28
    [] OTHER -> 0

\* Mutant: the era of a negative year taken by a plain division.
PlainEra(y) == TruncDiv(y, 400)

Era(y) == TruncDiv(IF y >= 0 THEN y ELSE y - 399, 400)

days_from_civil(year, m, d) ==
  LET y == IF m <= 2 THEN year - 1 ELSE year
      era == Era(y)
      yoe == y - era * 400
      mp == (m + 9) % 12
      doy == TruncDiv(153 * mp + 2, 5) + d - 1
      doe == yoe * 365 + TruncDiv(yoe, 4) - TruncDiv(yoe, 100) + doy
  IN  era * 146097 + doe - 719468

\* Mutant: the last day of a 400-year era is forgotten.
YearOfShortEra(doe) == (doe - doe \div 1460 + doe \div 36524) \div 365

YearOfEra(doe) == (doe - doe \div 1460 + doe \div 36524 - doe \div 146096) \div 365

civil_from_days(days) ==
  LET z == days + 719468
      era == TruncDiv(IF z >= 0 THEN z ELSE z - 146096, 146097)
      doe == z - era * 146097
      yoe == YearOfEra(doe)
      doy == doe - (365 * yoe + yoe \div 4 - yoe \div 100)
      mp == (5 * doy + 2) \div 153
      m == IF mp < 10 THEN mp + 3 ELSE mp - 9
      y == yoe + era * 400
  IN  <<IF m <= 2 THEN y + 1 ELSE y, m, doy - (153 * mp + 2) \div 5 + 1>>

(* The six numbers of the --debug line.                                    *)
format_utc_iso(t) ==
  civil_from_days(t[1]) \o <<t[2] \div 3600, (t[2] \div 60) % 60, t[2] % 60>>

------------------------------------------------------------------------------
(* The grammar.  A text is its bytes, each by its class -- "d" a digit,    *)
(* "u" and "v" the first and a later byte of a character outside ASCII,    *)
(* "x" any other -- and the numbers its digits spell where the code looks  *)
(* for them.                                                               *)

Separator == {"T", " "}
Class == {"d", "-", ":", "n", "o", "w", "N", "O", "W", "u", "v", "x"} \cup Separator

Now == {"n", "N"} \X {"o", "O"} \X {"w", "W"}

Digits(b, from, to) == Len(b) >= to /\ \A i \in from..to : b[i] = "d"

DateBytes(b) ==
  /\ Len(b) >= 10 /\ b[5] = "-" /\ b[8] = "-"
  /\ Digits(b, 1, 4) /\ Digits(b, 6, 7) /\ Digits(b, 9, 10)

\* Mutant: the rest is cut off before the digits are looked at.
SliceFirst(b) == Len(b) > 10 /\ b[11] = "v"

(* &value[10..] panics inside a character.                                 *)
SlicePanics(b) == DateBytes(b) /\ Len(b) > 10 /\ b[11] = "v"

(* split(':') from byte 12 on: a part ends at a colon or with the text.    *)
PartEnd(b, from) ==
  CHOOSE i \in from..(Len(b) + 1) :
    (i = Len(b) + 1 \/ b[i] = ":") /\ \A j \in from..(i - 1) : b[j] # ":"

HourEnd(b) == PartEnd(b, 12)
MinuteEnd(b) == PartEnd(b, HourEnd(b) + 1)
SecondEnd(b) == PartEnd(b, MinuteEnd(b) + 1)

two_digits(b, before, stop) == stop = before + 3 /\ Digits(b, before + 1, before + 2)

\* Mutant: nobody asks whether anything follows the seconds.
AnythingAfter(b) ==
  /\ b[11] \in Separator
  /\ two_digits(b, 11, HourEnd(b))
  /\ HourEnd(b) <= Len(b) /\ two_digits(b, HourEnd(b), MinuteEnd(b))
  /\ MinuteEnd(b) <= Len(b) => two_digits(b, MinuteEnd(b), SecondEnd(b))

ClockBytes(b) ==
  /\ b[11] \in Separator
  /\ two_digits(b, 11, HourEnd(b))
  /\ HourEnd(b) <= Len(b) /\ two_digits(b, HourEnd(b), MinuteEnd(b))
  /\ MinuteEnd(b) <= Len(b) => two_digits(b, MinuteEnd(b), SecondEnd(b)) /\ SecondEnd(b) > Len(b)

Hour(t) == IF Len(t.bytes) > 10 THEN t.num[4] ELSE 0
Minute(t) == IF Len(t.bytes) > 10 THEN t.num[5] ELSE 0
Second(t) ==
  IF Len(t.bytes) > 10 /\ MinuteEnd(t.bytes) <= Len(t.bytes) THEN t.num[6] ELSE 0

\* Mutant: 24:00 is let through.
UpTo24(t) ==
  /\ t.num[2] \in 1..12
  /\ t.num[3] \in 1..days_in_month(t.num[1], t.num[2])
  /\ Hour(t) <= 24 /\ Minute(t) <= 59 /\ Second(t) <= 59

InRange(t) ==
  /\ t.num[2] \in 1..12
  /\ t.num[3] \in 1..days_in_month(t.num[1], t.num[2])
  /\ Hour(t) <= 23 /\ Minute(t) <= 59 /\ Second(t) <= 59

Err == <<>>
Panicked == <<0, 0, "panic">>

Accepted(t) ==
  DateBytes(t.bytes) /\ (Len(t.bytes) > 10 => ClockBytes(t.bytes)) /\ InRange(t)

parse_time(t, clock) ==
  IF t.bytes \in Now THEN clock
  ELSE IF SlicePanics(t.bytes) THEN Panicked
  ELSE IF Accepted(t)
    THEN <<days_from_civil(t.num[1], t.num[2], t.num[3]),
           Hour(t) * 3600 + Minute(t) * 60 + Second(t)>>
  ELSE Err

------------------------------------------------------------------------------
(* The timezone.                                                           *)

Unresolved == -2147483647 - 1      \* i32::MIN, when localtime_r fails

\* Mutant: no sentinel for a zone that cannot be resolved.
GuessZero(zone) == IF zone.resolved THEN TruncDiv(zone.now, 60) ELSE 0

local_utc_offset_minutes(zone) ==
  IF zone.resolved THEN TruncDiv(zone.now, 60) ELSE Unresolved
=============================================================================
