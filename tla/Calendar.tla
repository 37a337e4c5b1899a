------------------------------ MODULE Calendar ------------------------------
(***************************************************************************)
(* The time helpers of common.cpp: readers and merge turn the stamps of    *)
(* the database into seconds and back.  gmtime_r and timegm are the        *)
(* library's; a struct tm is a record with the year in full.               *)
(***************************************************************************)
EXTENDS Integers, Sequences, SequencesExt

CONSTANT Years        \* the years the calendar covers

\* string_time writes no other year.
ASSUME CalendarAssumption == Years \subseteq 1900..4900

Leap(y) == (y % 4 = 0 /\ y % 100 # 0) \/ y % 400 = 0

\* Days of the year before month m, 0..11.
DaysBefore(y, m) ==
    <<0, 31, 59, 90, 120, 151, 181, 212, 243, 273, 304, 334>>[m + 1] + (IF Leap(y) /\ m > 1 THEN 1 ELSE 0)

\* Days from 1970-01-01 to the first of January.
YearDay(y) == 365 * (y - 1970) + (y - 1969) \div 4 - (y - 1901) \div 100 + (y - 1601) \div 400

\* timegm: months that are out of range move the year, the rest adds up.
timegm(t) ==
    LET y == t.year + t.mon \div 12
        m == t.mon % 12
    IN  86400 * (YearDay(y) + DaysBefore(y, m) + t.mday - 1) + 3600 * t.hour + 60 * t.min + t.sec

\* The year of a day, and the month of a day in a year.
YearOf(day) == CHOOSE y \in Years : YearDay(y) <= day /\ day < YearDay(y + 1)
MonthOf(y, day) == CHOOSE m \in 0..11 : /\ YearDay(y) + DaysBefore(y, m) <= day
                                        /\ m = 11 \/ day < YearDay(y) + DaysBefore(y, m + 1)

gmtime(ts) ==
    LET day == ts \div 86400
        y == YearOf(day)
        m == MonthOf(y, day)
        s == ts % 86400
    IN  [year |-> y, mon |-> m, mday |-> day - YearDay(y) - DaysBefore(y, m) + 1,
         hour |-> s \div 3600, min |-> (s % 3600) \div 60, sec |-> s % 60]

Midnight(y, m, d) == [year |-> y, mon |-> m, mday |-> d, hour |-> 0, min |-> 0, sec |-> 0]

\* "%Y-%m-%d %H:%M:%S" as the six numbers it writes; a year before 1900 or
\* after 4900 is written as the first moment of 1900.
string_time(dt) ==
    LET t == gmtime(dt)
    IN  IF t.year < 1900 \/ t.year > 4900
        THEN <<1900, 1, 1, 0, 0, 0>>
        ELSE <<t.year, t.mon + 1, t.mday, t.hour, t.min, t.sec>>

\* sscanf has read the first numbers of the text; one is enough for the
\* fields to be used, those that were not read hold whatever was there.
parseDateTime(read, garbage) ==
    IF read = <<>> THEN 0
    ELSE LET f == [i \in 1..6 |-> IF i <= Len(read) THEN read[i] ELSE garbage]
         IN  timegm([year |-> f[1], mon |-> f[2] - 1, mday |-> f[3],
                     hour |-> f[4], min |-> f[5], sec |-> f[6]])

get_day_ts(timestamp, timezone_offset) ==
    LET t == gmtime(timestamp + 3600 * timezone_offset)
    IN  timegm(Midnight(t.year, t.mon, t.mday)) - 3600 * timezone_offset

get_day_end_ts(timestamp, timezone_offset) == get_day_ts(timestamp, timezone_offset) + 86399

\* Mutant: the first of the month is sought in the day of Greenwich.
get_month_ts_Utc(timestamp, timezone_offset) ==
    LET t == gmtime(timestamp)
    IN  timegm(Midnight(t.year, t.mon, 1)) - 3600 * timezone_offset

get_month_ts(timestamp, timezone_offset) ==
    LET t == gmtime(timestamp + 3600 * timezone_offset)
    IN  timegm(Midnight(t.year, t.mon, 1)) - 3600 * timezone_offset

get_month_end_ts(timestamp, timezone_offset) ==
    LET t == gmtime(timestamp + 3600 * timezone_offset)
        next == IF t.mon + 1 = 12 THEN Midnight(t.year + 1, 0, 1) ELSE Midnight(t.year, t.mon + 1, 1)
    IN  timegm(next) - 1 - 3600 * timezone_offset

\* Days, hours and minutes, what there is none of left out, and the seconds
\* that are left: extract_derived_units_time_str
seconds_to_human_readable_str(seconds) ==
    FoldLeft(LAMBDA acc, unit :
                 IF acc.rest < unit THEN acc
                 ELSE [units |-> Append(acc.units, <<acc.rest \div unit, unit>>), rest |-> acc.rest % unit],
             [units |-> <<>>, rest |-> seconds], <<86400, 3600, 60>>)
=============================================================================
