---------------------------- MODULE TimeService ----------------------------
(***************************************************************************)
(* What becomes of the time an SNTP server sends: sntp_set_system_time     *)
(* shifts it by the time zone, and isDST and adjustDST turn it into summer *)
(* time, from the day of the month and the weekday alone.  The calendar's  *)
(* own rules are stated beside them.  TLC compares the two over every      *)
(* month, day, weekday and hour.                                           *)
(***************************************************************************)
EXTENDS Integers

\* The conversion to a date is the C library's; years do not matter.
DaysInMonth == <<31, 29, 31, 30, 31, 30, 31, 31, 30, 31, 30, 31>>

\* wday: 0 is Sunday.
RTC_t == {t \in [month : 1 .. 12, mday : 1 .. 31, wday : 0 .. 6, hour : 0 .. 23] :
             t.mday <= DaysInMonth[t.month]}

\* EE_TIME_ZONE: 1 .. 20 hours east, 21 .. hours west; seconds to be added.
\* shift_time has 16 bits, and a shift to the west is subtracted.
shift_time(timezone) ==
    IF timezone > 20 THEN -(((timezone - 20) * 3600) % 65536)
                     ELSE (timezone * 3600) % 65536

AfterLastSunday(t) == t.mday - t.wday >= 25 /\ (t.wday # 0 \/ t.hour >= 2)

\* t is the standard time of the zone.
isDST(t) ==
    /\ t.month \in 3 .. 10
    /\ t.month = 10 => ~AfterLastSunday(t)
    /\ t.month = 3 => AfterLastSunday(t)

\* The date and time one hour later, across the end of a day and of a month;
\* the end of a year needs no care in summer.
OneHourLater(t) ==
    IF t.hour < 23 THEN [t EXCEPT !.hour = @ + 1]
    ELSE LET last == t.mday = DaysInMonth[t.month]
         IN  [month |-> IF last THEN t.month + 1 ELSE t.month,
              mday |-> IF last THEN 1 ELSE t.mday + 1,
              wday |-> (t.wday + 1) % 7,
              hour |-> 0]

adjustDST(t) == IF isDST(t) THEN OneHourLater(t) ELSE t
-----------------------------------------------------------------------------
(* The calendar, by hours since the month began.                           *)
Since(mday, hour) == 24 * (mday - 1) + hour

\* The last Sunday of the month that t belongs to.
LastSunday(t) ==
    CHOOSE s \in 1 .. DaysInMonth[t.month] :
        /\ s > DaysInMonth[t.month] - 7
        /\ (s - t.mday + t.wday) % 7 = 0

\* Summer time runs from the last Sunday of March, 2:00, to the last Sunday
\* of October, 2:00 of standard time.
Summer(t) ==
    \/ t.month \in 4 .. 9
    \/ t.month = 3  /\ Since(t.mday, t.hour) >= Since(LastSunday(t), 2)
    \/ t.month = 10 /\ Since(t.mday, t.hour) < Since(LastSunday(t), 2)

\* isDST follows the calendar at every hour of every possible month.
DSTFollowsCalendar == \A t \in RTC_t : isDST(t) <=> Summer(t)

\* adjustDST moves the clock by one hour: the same month and one hour more,
\* or the first day of the next month and the hour 0, and the weekday moves
\* with the day.
AdjustsByOneHour ==
    \A t \in RTC_t : isDST(t) =>
        LET a == adjustDST(t)
        IN  /\ a \in RTC_t
            /\ IF a.month = t.month
               THEN Since(a.mday, a.hour) = Since(t.mday, t.hour) + 1
               ELSE /\ a.month = t.month + 1 /\ Since(a.mday, a.hour) = 0
                    /\ Since(t.mday, t.hour) = 24 * DaysInMonth[t.month] - 1
            /\ a.wday = (t.wday + (IF a.mday = t.mday THEN 0 ELSE 1)) % 7

\* The sixteen bits of shift_time hold the shift of every zone that the page
\* vrijeme.html offers: twelve hours either way.
ShiftsFit ==
    /\ \A z \in 0 .. 12 : shift_time(z) = 3600 * z
    /\ \A z \in 21 .. 32 : shift_time(z) = -3600 * (z - 20)
=============================================================================
