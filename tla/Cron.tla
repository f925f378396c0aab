-------------------------------- MODULE Cron --------------------------------
(***************************************************************************)
(* Next of a cron expression: the search for the first minute after an     *)
(* instant that all five fields admit, in the local time of a zone whose   *)
(* offset changes once.  t is a minute of UTC, after a second of it.  The  *)
(* calendar has months and days without leap years.                        *)
(***************************************************************************)
EXTENDS Integers

CONSTANTS
    Second,  \* seconds of a minute
    Minute,  \* the minutes of an hour, from 0; also the other units
    Hour, Weekday,
    Months,  \* the number of months of a year
    DaysBefore, \* the days of a year before its (m + 1)-st month
    Years,   \* how far Next looks
    After,   \* the instants it is asked for
    Crons,   \* the expressions, as sets of what each field admits
    Shift, Standard, Saving \* the minute of the change, the offsets around it

ASSUME CronAssumption ==
    /\ {Second, Minute, Hour, Weekday, Months, Years} \subseteq Nat \ {0}
    /\ DaysBefore \in [0..Months -> Nat] /\ DaysBefore[0] = 0
    /\ \A m, n \in 0..Months : m < n => DaysBefore[m] < DaysBefore[n]
    /\ After \subseteq Nat /\ Shift \in Nat
    /\ {Standard, Saving} \subseteq Int

VARIABLES
    cron,  \* the arrays of the parsed expression: [minute, hour, dom, month, dow]
    after, t, result

vars == <<cron, after, t, result>>

Pending == -1
Zero == 0 \* the zero time

-----------------------------------------------------------------------------
(* The calendar: what Go's time package does *)

Day == Hour * Minute
YearDays == DaysBefore[Months]

Offset(u) == IF u < Shift THEN Standard ELSE Saving
Wall(u) == u + Offset(u)

\* Date: a minute of local time, read with the offset in force at that minute
\* of UTC, unless that offset is not in force where it leads
Date(w) == LET u == w - Offset(w) IN
           IF Offset(u) = Offset(w) THEN u ELSE w - Offset(u)

DayOf(u) == Wall(u) \div Day
DayOfYear(u) == DayOf(u) % YearDays
MonthOf(u) == CHOOSE m \in 1..Months : /\ DaysBefore[m - 1] <= DayOfYear(u)
                                       /\ DayOfYear(u) < DaysBefore[m]
MonthStart(u) == (DayOf(u) - DayOfYear(u)) + DaysBefore[MonthOf(u) - 1]
NextMonthStart(u) == (DayOf(u) - DayOfYear(u)) + DaysBefore[MonthOf(u)]
DomOf(u) == (DayOf(u) - MonthStart(u)) + 1
DowOf(u) == DayOf(u) % Weekday
HourOf(u) == (Wall(u) % Day) \div Minute
MinuteOf(u) == Wall(u) % Minute

-----------------------------------------------------------------------------
(* Next *)

MonthFits(u) == MonthOf(u) \in cron.month
DayFits(u) == DomOf(u) \in cron.dom /\ DowOf(u) \in cron.dow
HourFits(u) == HourOf(u) \in cron.hour
MinuteFits(u) == MinuteOf(u) \in cron.minute

\* after.AddDate(5, 0, 0), in seconds
Limit == (Date(Wall(after \div Second) + Years * YearDays * Day) * Second)
         + (after % Second)

Searching == result = Pending /\ t * Second < Limit

NextMonth ==
    /\ Searching /\ ~MonthFits(t)
    /\ t' = Date(NextMonthStart(t) * Day)
    /\ UNCHANGED <<cron, after, result>>

\* Mutation: the same hour of the next day
NextDayKeeps ==
    /\ Searching /\ MonthFits(t) /\ ~DayFits(t)
    /\ t' = Date(Wall(t) + Day)
    /\ UNCHANGED <<cron, after, result>>

NextDay ==
    /\ Searching /\ MonthFits(t) /\ ~DayFits(t)
    /\ t' = Date((DayOf(t) + 1) * Day)
    /\ UNCHANGED <<cron, after, result>>

NextHour ==
    /\ Searching /\ MonthFits(t) /\ DayFits(t) /\ ~HourFits(t)
    /\ t' = Date(DayOf(t) * Day + (HourOf(t) + 1) * Minute)
    /\ UNCHANGED <<cron, after, result>>

NextMinute ==
    /\ Searching /\ MonthFits(t) /\ DayFits(t) /\ HourFits(t) /\ ~MinuteFits(t)
    /\ t' = t + 1
    /\ UNCHANGED <<cron, after, result>>

Fits(u) == MonthFits(u) /\ DayFits(u) /\ HourFits(u) /\ MinuteFits(u)

Found ==
    /\ Searching /\ Fits(t)
    /\ result' = t
    /\ UNCHANGED <<cron, after, t>>

GiveUp ==
    /\ result = Pending /\ ~Searching
    /\ result' = Zero
    /\ UNCHANGED <<cron, after, t>>

-----------------------------------------------------------------------------
\* after.Truncate(time.Minute).Add(time.Minute)
Init ==
    /\ cron \in Crons /\ after \in After
    /\ t = after \div Second + 1
    /\ result = Pending

Next == NextMonth \/ NextDay \/ NextHour \/ NextMinute \/ Found \/ GiveUp

Spec == Init /\ [][Next]_vars

\* a function without calls that wait
FairSpec == Spec /\ WF_vars(Next)

\* What Next returns is the first minute, strictly after the instant, that the
\* fields admit, or the zero time when there is none in five years: no jump to
\* the next month, day or hour passes over a match, at the ends of months and
\* years and where the clock is put forward.  Where it is put back by an hour, one
\* may: see CronProofs.
NextIsFirst ==
    result # Pending =>
      LET last == IF result = Zero THEN (Limit - 1) \div Second ELSE result - 1 IN
      /\ result # Zero => result * Second > after /\ Fits(result)
      /\ \A u \in (after \div Second + 1)..last : ~Fits(u)

\* Next returns.
NextReturns == <>(result # Pending)
=============================================================================
