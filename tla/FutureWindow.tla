---------------------------- MODULE FutureWindow ----------------------------
(***************************************************************************)
(* The future filter as the days pass: a show is listed if the first day of*)
(* its starting month is not after today's date three months on, as Go's   *)
(* AddDate computes it: 30 November and three months is "30 February",     *)
(* which is the 1st or 2nd of March.  A month is counted from January of   *)
(* the year 0; the clock shows UTC.  ListPipeline reads this clock.        *)
(***************************************************************************)
EXTENDS Integers

CONSTANTS
    AheadMonths,          \* the 3 that Process passes to FilterFuture
    FirstDays, LastDays,  \* bounds: the days the clock may start at and stop at
    Months                \* bound: the months that shows start in

VARIABLE today

Leap(year) == (year % 4 = 0 /\ year % 100 # 0) \/ year % 400 = 0
DaysIn(month) ==
    LET ofYear == (month % 12) + 1
    IN  IF ofYear = 2 THEN IF Leap(month \div 12) THEN 29 ELSE 28
        ELSE IF ofYear \in {4, 6, 9, 11} THEN 30 ELSE 31

Dates == [month : Nat, day : 1 .. 31]
Valid(date) == date \in Dates /\ date.day <= DaysIn(date.month)

ASSUME MonthsAssumption ==
    /\ AheadMonths \in Nat
    /\ Months \subseteq Nat
    /\ \A day \in FirstDays : Valid(day)

NotAfter(a, b) == a.month < b.month \/ (a.month = b.month /\ a.day <= b.day)

\* Changed form of AddDate: the year is left as it is.
AddDateSameYear(date, months) ==
    LET month == 12 * (date.month \div 12) + (((date.month % 12) + months) % 12)
    IN  IF date.day <= DaysIn(month) THEN [month |-> month, day |-> date.day]
        ELSE [month |-> month + 1, day |-> date.day - DaysIn(month)]

\* time.AddDate(0, months, 0).
AddDate(date, months) ==
    LET month == date.month + months
    IN  IF date.day <= DaysIn(month) THEN [month |-> month, day |-> date.day]
        ELSE [month |-> month + 1, day |-> date.day - DaysIn(month)]

Limit == AddDate(today, AheadMonths)

\* For a show whose start year and month are known; FilterFuture passes the others.
IsWithinMonths(start) == NotAfter([start EXCEPT !.day = 1], Limit)

ClockInit == today \in FirstDays

NextDay ==
    /\ today \notin LastDays
    /\ today' = IF today.day < DaysIn(today.month)
                THEN [today EXCEPT !.day = @ + 1]
                ELSE [month |-> today.month + 1, day |-> 1]

-----------------------------------------------------------------------------
\* Today and the limit are dates of the calendar (IsWithinMonths, anilist.go:120-126).
WindowTypeOK == Valid(today) /\ Valid(Limit)

\* A show that was once listed stays listed: no day's limit lies in an earlier month
\* than the limit of the day before, although AddDate runs over short months' ends.
OnceListedStays ==
    [][\A start \in [month : Months, day : {1}] :
           IsWithinMonths(start) => IsWithinMonths(start)']_today
=============================================================================
