--------------------------- MODULE CertificateDates ---------------------------
(***************************************************************************)
(* The dates of a certificate (word read-date of the T0 code): from the    *)
(* fields of a UTCTime or GeneralizedTime to a day number and a second, in *)
(* the scale that the client uses for the time it is given.  A calendar    *)
(* that knows nothing of the formula walks beside it, one day at a time.   *)
(***************************************************************************)
EXTENDS Integers, Sequences

CONSTANTS
    Starts,     \* 1 January of some years, each with a day number and a last year
    Clocks      \* the times of day tried on every day

(* Each start is a year whose first day has a known number: the year 0, of *)
(* which the count starts; 1601, the first year of a cycle of 400; and     *)
(* 1970, where the clock of the client starts.                             *)
ASSUME CalendarAssumption ==
    /\ \A start \in Starts :
          <<start.year, start.number>> \in {<<0, 0>>, <<1601, 584754>>, <<1970, 719528>>}
    /\ Clocks \subseteq (0 .. 23) \X (0 .. 59) \X (0 .. 59)

VARIABLE calendar   \* the civil calendar: a date and its day number

(* The table of the data block: 32 times the days before a month, plus its *)
(* length; a second row for leap years.                                    *)
MonthTable ==
    <<31, 1020, 1919, 2910, 3871, 4862, 5823, 6815, 7806, 8767, 9758, 10719,
      31, 1021, 1951, 2942, 3903, 4894, 5855, 6847, 7838, 8799, 9790, 10751>>

LeapYear(year) == year % 4 = 0 /\ (year % 100 # 0 \/ year % 400 = 0)

MonthEntry(year, month) == MonthTable[month + IF LeapYear(year) THEN 12 ELSE 0]

DaysBeforeYear_unrounded(year) ==
    year * 365 + year \div 4 - year \div 100 + year \div 400

DaysBeforeYear(year) ==
    year * 365 + (year + 3) \div 4 - (year + 99) \div 100 + (year + 399) \div 400

(* A UTCTime has two digits for the year.                                  *)
FullYear(yy) == yy + IF yy < 50 THEN 2000 ELSE 1900

DateReadable(year, month, day) ==
    month \in 1 .. 12 /\ day \in 1 .. MonthEntry(year, month) % 32

ReadDate(year, month, day, clock) ==
    <<DaysBeforeYear(year) + MonthEntry(year, month) \div 32 + day - 1,
      clock[1] * 3600 + clock[2] * 60 + clock[3]>>

(* What the client sets before a handshake, from seconds since 1970.       *)
SystemDate(now) == <<now \div 86400 + 719528, now % 86400>>

LengthOf(year, month) ==
    CASE month \in {4, 6, 9, 11} -> 30
      [] month = 2 -> IF (year % 4 = 0 /\ year % 100 # 0) \/ year % 400 = 0
                      THEN 29 ELSE 28
      [] OTHER -> 31

CalendarInit ==
    \E start \in Starts :
        calendar = [stage |-> "day", year |-> start.year, month |-> 1, day |-> 1,
                    number |-> start.number, last |-> start.last]

TheDay(year, month, day) ==
    [stage |-> "day", year |-> year, month |-> month, day |-> day,
     number |-> calendar.number + 1, last |-> calendar.last]

NextDay ==
    /\ calendar.stage = "day"
    /\ calendar.year <= calendar.last
    /\ LET c == calendar
       IN  calendar' =
              IF c.day < LengthOf(c.year, c.month)
              THEN TheDay(c.year, c.month, c.day + 1)
              ELSE IF c.month < 12
              THEN TheDay(c.year, c.month + 1, 1)
              ELSE TheDay(c.year + 1, 1, 1)

(* The calendar that the day numbers are compared with.                    *)
CalendarSpec == CalendarInit /\ [][NextDay]_calendar

UnixDays == 719528 .. 719528 + 24854   \* whose seconds are below 2^31

(* Every date of the calendar reads as its day number, in both encodings,  *)
(* and nothing that is not a date of the calendar is read; and it is then  *)
(* the same instant as the client's own clock, so that certificates are    *)
(* compared with the time that they mean.                                  *)
DatesAreTheirDays ==
    calendar.stage = "day" =>
        LET c == calendar
        IN  /\ \A clock \in Clocks :
                  LET read == ReadDate(c.year, c.month, c.day, clock)
                  IN  /\ read[1] = c.number
                      /\ c.number \in UnixDays =>
                            read = SystemDate((c.number - 719528) * 86400 +
                                    clock[1] * 3600 + clock[2] * 60 + clock[3])
                      /\ c.year \in 1950 .. 2049 =>
                            read = ReadDate(FullYear(c.year % 100),
                                            c.month, c.day, clock)
            /\ \A day \in 0 .. 32 :
                  DateReadable(c.year, c.month, day)
                      <=> day \in 1 .. LengthOf(c.year, c.month)
=============================================================================
