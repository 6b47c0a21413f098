---------------------------- MODULE ScheduleDates ----------------------------
(***************************************************************************)
(* When a schedule is due next (esp_schedule.c): the days of the week, the *)
(* months and the years it looks at, and when it counts as expired.        *)
(*                                                                         *)
(* An instant is a number of slots; a day has DatSlots of them, a month    *)
(* DatDays days, a year the 12 months of struct tm.  Masks are sets.  The  *)
(* timer takes the clock from one due instant to the next.                 *)
(***************************************************************************)
EXTENDS Naturals, FiniteSets, FiniteSetsExt

CONSTANTS
    DatSlots, DatDays,
    DatYears,       \* bound: years of the calendar
    DatWeekSets,    \* repeat_days to check
    DatMonthSets    \* repeat_months to check, of 1..12

ASSUME DatAssumption ==
    /\ {DatSlots, DatDays, DatYears} \subseteq Nat \ {0}
    /\ DatWeekSets \subseteq SUBSET (0..6) /\ DatMonthSets \subseteq SUBSET (1..12)

VARIABLES
    datCfg,      \* the schedule's trigger
    datNow,      \* the clock
    datTarget    \* next_scheduled_time_utc, DatNever when the timer is not started again

datVars == <<datCfg, datNow, datTarget>>

DatYear == 12 * DatDays * DatSlots   \* slots of a year

DatSlot(t) == t % DatSlots
DatDay(t) == ((t \div DatSlots) % DatDays) + 1
DatMonth(t) == ((t \div (DatSlots * DatDays)) % 12) + 1
DatYearOf(t) == t \div DatYear
DatWeekday(t) == (t \div DatSlots) % 7
DatNever == (DatYears + 3) * DatYear

\* mktime for a month counted from 1, and from the year before on.
DatMake(year, month, day, slot) ==
    ((year * 12 + month - 1) * DatDays + day - 1) * DatSlots + slot

DatConfigs ==
    [kind : {"week"}, slot : 0..DatSlots - 1, days : DatWeekSets] \cup
    [kind : {"date"}, slot : 0..DatSlots - 1, day : 1..DatDays, months : DatMonthSets \ {{}},
     year : 0..DatYears - 1, yearly : BOOLEAN] \cup
    [kind : {"date"}, slot : 0..DatSlots - 1, day : 1..DatDays, months : {{}},
     year : {0}, yearly : {FALSE}]   \* the next date: it comes without a year

\* esp_schedule_get_no_of_days
DatNoOfDays(cfg, now) ==
    LET today == DatWeekday(now)
        later == {d \in cfg.days : d > today}
    IN  IF cfg.days = {} THEN IF cfg.slot > DatSlot(now) THEN 0 ELSE 1
        ELSE IF today \in cfg.days /\ cfg.slot > DatSlot(now) THEN 0
        ELSE IF later # {} THEN Min(later) - today
        ELSE IF Min(cfg.days) = today THEN 7
        ELSE 7 - today + Min(cfg.days)

DatCarried_Not(month) == month

\* The first month of next year.
DatCarried(month) == month + 12

\* esp_schedule_get_next_month; 0 for none.
DatNextMonth(cfg, now) ==
    LET month == DatMonth(now)
        toCome == cfg.day > DatDay(now) \/ (cfg.day = DatDay(now) /\ cfg.slot > DatSlot(now))
        later == {m \in cfg.months : m > month}
    IN  IF cfg.months = {} THEN IF toCome THEN month ELSE month + 1
        ELSE IF cfg.year > DatYearOf(now) THEN Min(cfg.months)
        ELSE IF month \in cfg.months /\ toCome THEN month
        ELSE IF later # {} THEN Min(later)
        ELSE IF ~cfg.yearly THEN 0
        ELSE DatCarried(Min(cfg.months))

\* esp_schedule_get_next_schedule_time_diff: the instant it computes.
DatNext(cfg, now) ==
    IF cfg.kind = "week"
    THEN DatMake(DatYearOf(now), DatMonth(now), DatDay(now), cfg.slot)
         + DatNoOfDays(cfg, now) * DatSlots
    ELSE LET found == DatNextMonth(cfg, now)
             month == IF found = 0 THEN DatMonth(now) + 1 ELSE found
             year  == IF cfg.year > DatYearOf(now) THEN cfg.year ELSE DatYearOf(now)
         IN  DatMake(year, month, cfg.day, cfg.slot)

\* esp_schedule_is_expired, next being the instant that was due.
DatExpired(cfg, now, next) ==
    CASE cfg.kind = "week" -> cfg.days = {} /\ next <= now
      [] cfg.kind = "date" /\ cfg.months = {} -> next <= now
      [] OTHER -> ~cfg.yearly /\ DatMake(cfg.year, Max(cfg.months), cfg.day, cfg.slot) < now

DatInit ==
    /\ datCfg \in DatConfigs
    /\ datNow \in 0..DatYear - 1
    /\ datTarget = DatNext(datCfg, datNow)

\* esp_schedule_common_timer_cb with the start of the timer.
DatFire ==
    /\ datTarget < DatYears * DatYear
    /\ datNow' = datTarget
    /\ datTarget' = IF DatExpired(datCfg, datTarget, datTarget) THEN DatNever
                    ELSE DatNext(datCfg, datTarget)
    /\ UNCHANGED datCfg

DatNextStep == DatFire
DatSpec == DatInit /\ [][DatNextStep]_datVars

-----------------------------------------------------------------------------
\* What a schedule says of an instant.
DatMatches(cfg, t) ==
    /\ DatSlot(t) = cfg.slot
    /\ IF cfg.kind = "week" THEN cfg.days = {} \/ DatWeekday(t) \in cfg.days
       ELSE /\ DatDay(t) = cfg.day
            /\ \/ cfg.months = {}
               \/ /\ DatMonth(t) \in cfg.months
                  /\ IF cfg.yearly THEN DatYearOf(t) >= cfg.year ELSE DatYearOf(t) = cfg.year

DatDue(cfg, now) == {t \in now + 1..DatNever - 1 : DatMatches(cfg, t)}

DatOnce(cfg) == IF cfg.kind = "week" THEN cfg.days = {} ELSE cfg.months = {}

\* The instant of the last month of a schedule that does not repeat.
DatLast(cfg, now) ==
    /\ cfg.kind = "date" /\ cfg.months # {} /\ ~cfg.yearly
    /\ DatDue(cfg, now) = {}

\* The timer is set for the earliest instant the schedule names, whatever the
\* day, month or year it starts in.  Left out is the end of a date schedule that
\* does not repeat: at its last instant it does not count as expired yet, and the
\* timer is set for the next month (esp_schedule.c:29-153, 222, 302).
DatNextIsEarliest ==
    (datTarget # DatNever /\ ~DatLast(datCfg, datNow)) =>
        datTarget = Min(DatDue(datCfg, datNow))
=============================================================================
