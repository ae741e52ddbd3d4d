------------------------------- MODULE Clock -------------------------------
(***************************************************************************)
(* The clock window (ClockWindow.cpp): time and date read from the         *)
(* real-time clock register by register while it goes on, a calendar that  *)
(* is leafed through, a stopwatch on the timer's jiffies.                  *)
(***************************************************************************)
EXTENDS Integers, Sequences, SequencesExt

CONSTANTS
    HOURS, MINS, SECS,  \* of a day, an hour, a minute: 24, 60, 60
    FirstDates,         \* dates the clock starts from, the year without its century
    JiffyRange,         \* jiffies counts up to this: two to its width
    MaxSeconds, MaxJiffies, MaxLeaves, MaxDraws     \* bounds: time, keys, drawings

ASSUME ClockAssumption ==
    /\ {HOURS, MINS, SECS} \subseteq Nat \ {0} /\ JiffyRange \in Nat \ {0, 1}
    /\ FirstDates \subseteq (1 .. 31) \X (1 .. 12) \X (0 .. 99)

VARIABLES
    rtc,                \* the registers: h, mi, s, d, mo, y
    reads,              \* registers the window's call has still to read
    got,                \* what they held
    began, midnight,    \* history: the registers when the drawing began; a day ended meanwhile
    cal,                \* m_cal_year, m_cal_month; year 0: to be set from the clock
    anchor, leafed,     \* history: the month last taken from the clock, months leafed since
    sw,                 \* m_sw_acc, m_sw_start, m_sw_run
    jiffies,
    ran,                \* history: jiffies the stopwatch ran
    elapsed, leaves, draws,     \* history: seconds and jiffies gone, keys, drawings
    half                \* which of its two halves is looked at: they share nothing
clockVars == <<half, rtc, reads, got, began, midnight, cal, anchor, leafed, sw, jiffies, ran, elapsed, leaves, draws>>

-----------------------------------------------------------------------------
(* The calendar *)

\* Mutant of IsLeap: every fourth year.
IsLeapJulian(y) == y % 4 = 0
IsLeap(y) == (y % 4 = 0 /\ y % 100 # 0) \/ y % 400 = 0
DaysInMonth(y, m) ==
    IF m = 2 /\ IsLeap(y) THEN 29
    ELSE <<31, 28, 31, 30, 31, 30, 31, 31, 30, 31, 30, 31>>[m]
\* weekday_monday0, Zeller: January and February belong to the year before.
Weekday(year, month, day) ==
    LET m == IF month < 3 THEN month + 12 ELSE month
        y == IF month < 3 THEN year - 1 ELSE year
        k == y % 100
        j == y \div 100
    IN  (((day + ((13 * (m + 1)) \div 5) + k + (k \div 4) + (j \div 4) + (5 * j)) % 7) + 5) % 7
\* draw_calendar: the row and column of a day.
Cell(y, m, d) == LET i == Weekday(y, m, 1) + d - 1 IN [row |-> i \div 7, col |-> i % 7]

\* Mutant of Leafed: the year stays.
LeafedRound(c, by) == [c EXCEPT !.m = ((@ - 1 + by) % 12) + 1]
\* The month after or before.
Leafed(c, by) ==
    CASE by = 1  -> IF c.m = 12 THEN [y |-> c.y + 1, m |-> 1] ELSE [c EXCEPT !.m = @ + 1]
      [] by = -1 -> IF c.m = 1 THEN [y |-> c.y - 1, m |-> 12] ELSE [c EXCEPT !.m = @ - 1]

-----------------------------------------------------------------------------
(* The real-time clock, and reading it *)

NextDay(r) ==
    IF r.d < DaysInMonth(2000 + r.y, r.mo) THEN [r EXCEPT !.d = @ + 1]
    ELSE IF r.mo < 12 THEN [r EXCEPT !.d = 1, !.mo = @ + 1]
    ELSE [r EXCEPT !.d = 1, !.mo = 1, !.y = (@ + 1) % 100]
Ticked(r) ==
    IF r.s < SECS - 1 THEN [r EXCEPT !.s = @ + 1]
    ELSE IF r.mi < MINS - 1 THEN [r EXCEPT !.s = 0, !.mi = @ + 1]
    ELSE IF r.h < HOURS - 1 THEN [r EXCEPT !.s = 0, !.mi = 0, !.h = @ + 1]
    ELSE NextDay([r EXCEPT !.s = 0, !.mi = 0, !.h = 0])

SyncReads == <<<<"cal", "mo">>, <<"cal", "y">>>>
\* Mutant of DrawReads: the seconds first.
DrawReadsUp == <<<<"time", "s">>, <<"time", "mi">>, <<"time", "h">>, <<"date", "d">>, <<"date", "mo">>, <<"date", "y">>,
                 <<"today", "d">>, <<"today", "mo">>, <<"today", "y">>>>
\* draw: the time from the hour down, the date from the day up, and in draw_calendar the
\* date once more for the mark.
DrawReads == <<<<"time", "h">>, <<"time", "mi">>, <<"time", "s">>, <<"date", "d">>, <<"date", "mo">>, <<"date", "y">>,
               <<"today", "d">>, <<"today", "mo">>, <<"today", "y">>>>
Registers == ToSet(DrawReads) \union ToSet(SyncReads)

ClockInit ==
    /\ \E date \in FirstDates :
          rtc = [h |-> HOURS - 1, mi |-> MINS - 1, s |-> 0, d |-> date[1], mo |-> date[2], y |-> date[3]]
    /\ reads = <<>> /\ got = [r \in Registers |-> 0] /\ began = rtc /\ midnight = FALSE
    /\ cal = [y |-> 0, m |-> 1] /\ anchor = cal /\ leafed = 0
    /\ sw = [acc |-> 0, start |-> 0, run |-> FALSE] /\ jiffies = JiffyRange - 2 /\ ran = 0
    /\ elapsed = [s |-> 0, j |-> 0] /\ leaves = 0 /\ draws = 0 /\ half \in {"calendar", "stopwatch"}

Second ==
    /\ elapsed.s < MaxSeconds /\ elapsed' = [elapsed EXCEPT !.s = @ + 1]
    /\ rtc' = Ticked(rtc) /\ midnight' = (midnight \/ rtc'.d # rtc.d)
    /\ UNCHANGED <<reads, got, began, cal, anchor, leafed, sw, jiffies, ran, leaves, draws>>
Draw ==
    /\ reads = <<>> /\ draws < MaxDraws /\ draws' = draws + 1
    /\ reads' = (IF cal.y = 0 THEN SyncReads ELSE <<>>) \o DrawReads
    /\ began' = rtc /\ midnight' = FALSE
    /\ UNCHANGED <<rtc, got, cal, anchor, leafed, sw, jiffies, ran, elapsed, leaves>>
\* One register; sync_calendar ends with the year.
Read ==
    LET r == reads[1]
    IN  /\ reads # <<>> /\ reads' = Tail(reads) /\ got' = [got EXCEPT ![r] = rtc[r[2]]]
        /\ IF r = <<"cal", "y">>
           THEN cal' = [y |-> 2000 + rtc.y, m |-> got[<<"cal", "mo">>]] /\ anchor' = cal' /\ leafed' = 0
           ELSE UNCHANGED <<cal, anchor, leafed>>
        /\ UNCHANGED <<rtc, began, midnight, sw, jiffies, ran, elapsed, leaves, draws>>

Leave == reads = <<>> /\ leaves < MaxLeaves /\ leaves' = leaves + 1 /\ UNCHANGED <<rtc, got, elapsed, draws>>
Turn(by) ==
    /\ Leave /\ cal.y # 0 /\ cal' = Leafed(cal, by) /\ leafed' = leafed + by
    /\ UNCHANGED <<reads, began, midnight, anchor, sw, jiffies, ran>>
Today ==
    /\ Leave /\ cal' = [cal EXCEPT !.y = 0] /\ reads' = SyncReads
    /\ UNCHANGED <<began, midnight, anchor, leafed, sw, jiffies, ran>>

-----------------------------------------------------------------------------
(* The stopwatch *)

Since(start) == (jiffies - start) % JiffyRange
\* draw_stopwatch: what it shows.
Shown == (sw.acc + (IF sw.run THEN Since(sw.start) ELSE 0)) % JiffyRange
Jiffy ==
    /\ elapsed.j < MaxJiffies /\ elapsed' = [elapsed EXCEPT !.j = @ + 1]
    /\ jiffies' = (jiffies + 1) % JiffyRange /\ ran' = IF sw.run THEN ran + 1 ELSE ran
    /\ UNCHANGED <<rtc, reads, got, began, midnight, cal, anchor, leafed, sw, leaves, draws>>
\* Mutant of StartStop: the time so far is forgotten.
StartStopAnew ==
    /\ Leave /\ sw' = [acc |-> IF sw.run THEN Since(sw.start) ELSE 0, start |-> jiffies, run |-> ~sw.run]
    /\ UNCHANGED <<reads, began, midnight, cal, anchor, leafed, jiffies, ran>>
StartStop ==
    /\ Leave
    /\ sw' = IF sw.run THEN [sw EXCEPT !.acc = (@ + Since(sw.start)) % JiffyRange, !.run = FALSE]
             ELSE [sw EXCEPT !.start = jiffies, !.run = TRUE]
    /\ UNCHANGED <<reads, began, midnight, cal, anchor, leafed, jiffies, ran>>
Raz ==
    /\ Leave /\ sw' = [acc |-> 0, start |-> jiffies, run |-> FALSE] /\ ran' = 0
    /\ UNCHANGED <<reads, began, midnight, cal, anchor, leafed, jiffies>>

ClockNext ==
    /\ UNCHANGED half
    /\ \/ half = "calendar"  /\ (Second \/ Draw \/ Read \/ Today \/ \E by \in {1, -1} : Turn(by))
       \/ half = "stopwatch" /\ (Jiffy \/ StartStop \/ Raz)
ClockSpec == ClockInit /\ [][ClockNext]_clockVars

-----------------------------------------------------------------------------
(* The hands *)

SIN60 == <<0, 107, 213, 316, 416, 512, 602, 685, 761, 828, 887, 935, 974, 1002, 1018, 1024, 1018, 1002, 974, 935,
           887, 828, 761, 685, 602, 512, 416, 316, 213, 107, 0, -107, -213, -316, -416, -512, -602, -685, -761, -828,
           -887, -935, -974, -1002, -1018, -1024, -1018, -1002, -974, -935,
           -887, -828, -761, -685, -602, -512, -416, -316, -213, -107>>
COS60 == <<1024, 1018, 1002, 974, 935, 887, 828, 761, 685, 602, 512, 416, 316, 213, 107, 0, -107, -213, -316, -416,
           -512, -602, -685, -761, -828, -887, -935, -974, -1002, -1018,
           -1024, -1018, -1002, -974, -935, -887, -828, -761, -685, -602,
           -512, -416, -316, -213, -107, 0, 107, 213, 316, 416, 512, 602, 685, 761, 828, 887, 935, 974, 1002, 1018>>
\* draw_analog: the mark the hour hand points at.
HourMark(h, mi) == (((h % 12) * 5) + (mi \div 12)) % 60

-----------------------------------------------------------------------------
(* Properties *)

\* Days follow each other without a gap, from one cell to the next and from month to
\* month; the week they are counted from is right (1 January 2000 was a Saturday).
CalendarTrue ==
    /\ Weekday(2000, 1, 1) = 5
    /\ \A y \in 1995 .. 2105, m \in 1 .. 12 :
         LET next == Leafed([y |-> y, m |-> m], 1)
         IN  /\ Weekday(next.y, next.m, 1) = (Weekday(y, m, 1) + DaysInMonth(y, m)) % 7
             /\ Cell(y, m, DaysInMonth(y, m)).row <= 5
             /\ \A d \in {1, 15, DaysInMonth(y, m)} : Cell(y, m, d).col = Weekday(y, m, d)
    /\ \A y \in 1995 .. 2105 : Weekday(y + 1, 1, 1) = (Weekday(y, 1, 1) + (IF IsLeap(y) THEN 366 ELSE 365)) % 7
    /\ ~IsLeap(2100) /\ IsLeap(2000)
\* The calendar shows the month that was taken from the clock and leafed from.
LeafsTrue ==
    reads = <<>> /\ cal.y # 0 =>
        cal.m \in 1 .. 12 /\ (12 * cal.y) + cal.m = (12 * anchor.y) + anchor.m + leafed
\* Read register by register the time may lag, but never runs ahead of the clock nor falls
\* behind the hour the drawing began in; on a day without midnight the date is the day's.
TimeNeverAhead ==
    LET secs(r) == (((r.h * MINS) + r.mi) * SECS) + r.s
        seen == [h |-> got[<<"time", "h">>], mi |-> got[<<"time", "mi">>], s |-> got[<<"time", "s">>]]
    IN  reads = <<>> /\ draws > 0 /\ ~midnight =>
            /\ secs(seen) <= secs(rtc) /\ secs(seen) >= secs([began EXCEPT !.mi = 0, !.s = 0])
            /\ \A reg \in {"d", "mo", "y"} : got[<<"date", reg>>] = rtc[reg] /\ got[<<"today", reg>>] = rtc[reg]
\* Over all starts and stops, and when jiffies wraps, the stopwatch shows how long it ran.
StopwatchTrue == Shown = ran % JiffyRange
\* The hands are as long as they should be and turn the right way; the hour hand goes on
\* by a mark every twelve minutes.
HandsTrue ==
    /\ \A i \in 1 .. 60 : LET q == (SIN60[i] * SIN60[i]) + (COS60[i] * COS60[i])
                          IN  q \in (1023 * 1023) .. (1025 * 1025) /\ COS60[i] = SIN60[((i + 14) % 60) + 1]
    /\ \A i \in 1 .. 15 : SIN60[i + 1] > SIN60[i]
    /\ \A h \in 0 .. 23, mi \in 0 .. 59 : HourMark(h, mi) = (((h % 12) * 60) + mi) \div 12
ClockRight ==
    /\ LeafsTrue /\ TimeNeverAhead /\ StopwatchTrue
    /\ elapsed = [s |-> 0, j |-> 0] /\ leaves = 0 /\ draws = 0 => CalendarTrue /\ HandsTrue
=============================================================================
