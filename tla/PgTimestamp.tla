----------------------------- MODULE PgTimestamp -----------------------------
(***************************************************************************)
(* Timestamp and interval arithmetic of MEOS, src/meos/src/general/        *)
(* pg_call.c: pg_interval_pl, pg_timestamp_pl_interval,                    *)
(* pg_timestamp_mi_interval, pg_interval_justify_hours and                 *)
(* pg_timestamp_mi.                                                        *)
(*                                                                         *)
(* A caller holds one timestamp ts and one interval iv and calls these     *)
(* functions on them, each result replacing the register it was computed  *)
(* for.  An elog(ERROR) aborts the call: the registers are left as they    *)
(* were and the outcome is recorded in last.                               *)
(*                                                                         *)
(* Integers keep their width: a C int (int32) lies in -IntHalf..IntHalf-1  *)
(* and an int64 in -Int64Half..Int64Half-1, and a C sum or difference      *)
(* that leaves its width wraps (the behaviour of the build for this        *)
(* undefined overflow).  The calendar is PostgreSQL's (date2j, j2date,     *)
(* day_tab); the widths and USECS_PER_DAY are scaled so that TLC can       *)
(* enumerate them while keeping the relations the code depends on: the     *)
(* end of the timestamp range lies just below the int64 maximum and the    *)
(* Julian day numbers of valid dates fit a C int.                          *)
(***************************************************************************)
EXTENDS Integers

CONSTANTS
  IntHalf,              \* 2^31 at full width: a C int is in -IntHalf..IntHalf-1
  Int64Half,            \* 2^63 at full width
  USECS_PER_DAY,        \* time units per day
  POSTGRES_EPOCH_JDATE, \* Julian day of 2000-01-01, timestamp 0
  TIMESTAMP_END_JULIAN, \* first Julian day past the valid timestamps
  JULIAN_MAXYEAR,       \* last year whose Julian days fit a C int ...
  JULIAN_MAXMONTH,      \* ... up to (excluding) this month
  TsInputs,             \* timestamps a caller passes in
  IvInputs,             \* intervals a caller passes in
  MaxCalls              \* bound on the number of calls in a behaviour

ASSUME WidthAssumption ==
  /\ IntHalf \in Nat \ {0}
  /\ Int64Half \in Nat \ {0}
  /\ USECS_PER_DAY \in Nat \ {0}
  \* the days in any int64 time fit a C int, as 2^63 / 86400000000 < 2^31
  /\ Int64Half \div USECS_PER_DAY < IntHalf

ASSUME CalendarAssumption ==
  /\ POSTGRES_EPOCH_JDATE \in Nat
  /\ TIMESTAMP_END_JULIAN \in Nat
  /\ POSTGRES_EPOCH_JDATE < TIMESTAMP_END_JULIAN
  /\ TIMESTAMP_END_JULIAN < IntHalf
  /\ (TIMESTAMP_END_JULIAN - POSTGRES_EPOCH_JDATE) * USECS_PER_DAY < Int64Half - 1
  /\ POSTGRES_EPOCH_JDATE * USECS_PER_DAY < Int64Half
  /\ JULIAN_MAXYEAR \in Int /\ JULIAN_MAXMONTH \in 1..12

ASSUME BoundAssumption == MaxCalls \in Nat

-----------------------------------------------------------------------------
(* Machine integers.                                                       *)

Int32 == -IntHalf .. IntHalf - 1
Int64 == -Int64Half .. Int64Half - 1

(* Two's complement wrap of x, which lies in -2*half..2*half-1: the range  *)
(* of every sum, difference and negation of two such integers the code    *)
(* forms.                                                                  *)
Wrap(x, half) == IF x >= half THEN x - 2 * half
                 ELSE IF x < -half THEN x + 2 * half
                 ELSE x

WrapInt(x) == Wrap(x, IntHalf)
WrapInt64(x) == Wrap(x, Int64Half)

(* C's / and %, which truncate toward zero.                                *)
(* Divisors are positive here.                                             *)
CDiv(a, b) == IF a >= 0 THEN a \div b ELSE -((-a) \div b)
CMod(a, b) == a - CDiv(a, b) * b

-----------------------------------------------------------------------------
(* Timestamps: a count of time units since 2000-01-01 with two sentinels.  *)

DT_NOBEGIN == -Int64Half
DT_NOEND == Int64Half - 1
TIMESTAMP_NOT_FINITE(t) == t \in {DT_NOBEGIN, DT_NOEND}
MIN_TIMESTAMP == (0 - POSTGRES_EPOCH_JDATE) * USECS_PER_DAY
END_TIMESTAMP == (TIMESTAMP_END_JULIAN - POSTGRES_EPOCH_JDATE) * USECS_PER_DAY
IS_VALID_TIMESTAMP(t) == MIN_TIMESTAMP <= t /\ t < END_TIMESTAMP

Interval == [month : Int32, day : Int32, time : Int64]

(* A caller's timestamps come from pg_timestamp_in, which returns valid    *)
(* timestamps and the sentinels, and its intervals are well formed.        *)
ASSUME InputAssumption ==
  /\ TsInputs \subseteq Int64
  /\ \A t \in TsInputs : IS_VALID_TIMESTAMP(t) \/ TIMESTAMP_NOT_FINITE(t)
  /\ IvInputs \subseteq Interval
  /\ TsInputs # {} /\ IvInputs # {}

(* The result of a function that may elog(ERROR).                          *)
Ok(v) == [ok |-> TRUE, val |-> v]
Err == [ok |-> FALSE, val |-> 0]

-----------------------------------------------------------------------------
(* PostgreSQL's calendar (datetime.c, timestamp.c), which pg_call.c calls. *)

MONTHS_PER_YEAR == 12
JULIAN_MINYEAR == -4713
JULIAN_MINMONTH == 11

isleap(y) == y % 4 = 0 /\ (y % 100 # 0 \/ y % 400 = 0)

day_tab(y, m) ==
  CASE m \in {1, 3, 5, 7, 8, 10, 12} -> 31
    [] m \in {4, 6, 9, 11} -> 30
    [] m = 2 -> IF isleap(y) THEN 29 ELSE 28

IS_VALID_JULIAN(y, m) ==
  /\ y > JULIAN_MINYEAR \/ (y = JULIAN_MINYEAR /\ m >= JULIAN_MINMONTH)
  /\ y < JULIAN_MAXYEAR \/ (y = JULIAN_MAXYEAR /\ m < JULIAN_MAXMONTH)

date2j(y, m, d) ==
  LET yy == IF m > 2 THEN y + 4800 ELSE y + 4799
      mm == IF m > 2 THEN m + 1 ELSE m + 13
      century == yy \div 100
  IN  yy * 365 - 32167 + yy \div 4 - century + century \div 4
        + (7834 * mm) \div 256 + d

(* An unsigned int: the value modulo 2 * IntHalf.                         *)
UInt(x) == x % (2 * IntHalf)

(* j2date: the Julian day is converted to an unsigned int, so a negative   *)
(* one starts near 2 * IntHalf, and the sums that follow wrap.             *)
j2date(jd) ==
  LET j1 == UInt(jd + 32044)
      q1 == j1 \div 146097
      ex == (j1 - q1 * 146097) * 4 + 3
      j2 == UInt(j1 + 60 + q1 * 3 + ex \div 146097)
      q2 == j2 \div 1461
      j3 == j2 - q2 * 1461
      y0 == (j3 * 4) \div 1461
      j4 == (IF y0 # 0 THEN (j3 + 305) % 365 ELSE (j3 + 306) % 366) + 123
      q3 == (j4 * 2141) \div 65536
  IN  [year |-> y0 + q2 * 4 - 4800,
       mon  |-> ((q3 + 10) % MONTHS_PER_YEAR) + 1,
       mday |-> j4 - (7834 * q3) \div 256]

(* timestamp2tm without time zone: the date and the time of day.           *)
timestamp2tm(t) ==
  LET date0 == CDiv(t, USECS_PER_DAY)
      time0 == CMod(t, USECS_PER_DAY)
      date == IF time0 < 0 THEN date0 - 1 ELSE date0
      tod  == IF time0 < 0 THEN time0 + USECS_PER_DAY ELSE time0
      d    == j2date(date + POSTGRES_EPOCH_JDATE)
  IN  [year |-> d.year, mon |-> d.mon, mday |-> d.mday, tod |-> tod]

(* tm2timestamp: its overflow checks and its final range check reject      *)
(* exactly the dates whose timestamp is not valid.                         *)
tm2timestamp(tm) ==
  IF ~IS_VALID_JULIAN(tm.year, tm.mon) THEN Err
  ELSE LET t == (date2j(tm.year, tm.mon, tm.mday) - POSTGRES_EPOCH_JDATE)
                  * USECS_PER_DAY + tm.tod
       IN  IF IS_VALID_TIMESTAMP(t) THEN Ok(t) ELSE Err

-----------------------------------------------------------------------------
(* pg_call.c                                                               *)

SAMESIGN(a, b) == (a < 0) = (b < 0)

(* A field sum of pg_interval_pl with its int4pl overflow check.           *)
(* Mutant: the overflow test drops its SAMESIGN(a, b) conjunct.            *)
FieldOverflowsMutNoSameSign(a, b, r) == ~SAMESIGN(r, a)

FieldOverflows(a, b, r) == SAMESIGN(a, b) /\ ~SAMESIGN(r, a)

pg_interval_pl(s1, s2) ==
  LET r == [month |-> WrapInt(s1.month + s2.month),
            day   |-> WrapInt(s1.day + s2.day),
            time  |-> WrapInt64(s1.time + s2.time)]
  IN  IF \E f \in {"month", "day", "time"} : FieldOverflows(s1[f], s2[f], r[f])
      THEN Err ELSE Ok(r)

(* The span->month != 0 step: add months, normalise the year with C's      *)
(* truncating division, clamp the day to the end of the month.             *)
(* Mutant: a negative month count is normalised without the year borrow.  *)
AddMonthsMutNoBorrow(t, month) ==
  LET tm == timestamp2tm(t)
      mon == WrapInt(tm.mon + month)
      year == IF mon > MONTHS_PER_YEAR THEN tm.year + CDiv(mon - 1, MONTHS_PER_YEAR)
              ELSE IF mon < 1 THEN tm.year + CDiv(mon, MONTHS_PER_YEAR)
              ELSE tm.year
      mon2 == IF mon > MONTHS_PER_YEAR THEN CMod(mon - 1, MONTHS_PER_YEAR) + 1
              ELSE IF mon < 1 THEN CMod(mon, MONTHS_PER_YEAR) + MONTHS_PER_YEAR
              ELSE mon
      mday == IF tm.mday > day_tab(year, mon2) THEN day_tab(year, mon2) ELSE tm.mday
  IN  tm2timestamp([year |-> year, mon |-> mon2, mday |-> mday, tod |-> tm.tod])

AddMonths(t, month) ==
  LET tm == timestamp2tm(t)
      mon == WrapInt(tm.mon + month)
      year == IF mon > MONTHS_PER_YEAR THEN tm.year + CDiv(mon - 1, MONTHS_PER_YEAR)
              ELSE IF mon < 1 THEN tm.year + CDiv(mon, MONTHS_PER_YEAR) - 1
              ELSE tm.year
      mon2 == IF mon > MONTHS_PER_YEAR THEN CMod(mon - 1, MONTHS_PER_YEAR) + 1
              ELSE IF mon < 1 THEN CMod(mon, MONTHS_PER_YEAR) + MONTHS_PER_YEAR
              ELSE mon
      mday == IF tm.mday > day_tab(year, mon2) THEN day_tab(year, mon2) ELSE tm.mday
  IN  tm2timestamp([year |-> year, mon |-> mon2, mday |-> mday, tod |-> tm.tod])

(* The span->day != 0 step: add days to the Julian day in a C int, convert *)
(* it back with j2date, whatever its sign, and let tm2timestamp check it.  *)
AddDays(t, day) ==
  LET tm == timestamp2tm(t)
      julian == WrapInt(date2j(tm.year, tm.mon, tm.mday) + day)
      d == j2date(julian)
  IN  tm2timestamp([year |-> d.year, mon |-> d.mon, mday |-> d.mday, tod |-> tm.tod])

(* The three steps of pg_timestamp_pl_interval on a finite timestamp, each *)
(* taking the result of the one before: months if span->month != 0, days   *)
(* if span->day != 0, then the time with the final range check.            *)
MonthStep(t, month) == IF month # 0 THEN AddMonths(t, month) ELSE Ok(t)

DayStep(r, day) == IF r.ok /\ day # 0 THEN AddDays(r.val, day) ELSE r

TimeStep(r, time) ==
  LET t3 == WrapInt64(r.val + time)
  IN  IF ~r.ok THEN Err
      ELSE IF IS_VALID_TIMESTAMP(t3) THEN Ok(t3) ELSE Err

pg_timestamp_pl_interval(t, span) ==
  IF TIMESTAMP_NOT_FINITE(t) THEN Ok(t)
  ELSE TimeStep(DayStep(MonthStep(t, span.month), span.day), span.time)

pg_timestamp_mi_interval(t, span) ==
  pg_timestamp_pl_interval(t, [month |-> WrapInt(-span.month),
                               day   |-> WrapInt(-span.day),
                               time  |-> WrapInt64(-span.time)])

pg_interval_justify_hours(span) ==
  LET wholeday == CDiv(span.time, USECS_PER_DAY)
      time == CMod(span.time, USECS_PER_DAY)
      day == WrapInt(span.day + wholeday)
  IN  IF day > 0 /\ time < 0
        THEN [span EXCEPT !.day = day - 1, !.time = time + USECS_PER_DAY]
      ELSE IF day < 0 /\ time > 0
        THEN [span EXCEPT !.day = day + 1, !.time = time - USECS_PER_DAY]
      ELSE [span EXCEPT !.day = day, !.time = time]

(* Mutant: the difference is returned without interval_justify_hours.     *)
pg_timestamp_miMutNoJustify(dt1, dt2) ==
  IF TIMESTAMP_NOT_FINITE(dt1) \/ TIMESTAMP_NOT_FINITE(dt2) THEN Err
  ELSE Ok([month |-> 0, day |-> 0, time |-> WrapInt64(dt1 - dt2)])

pg_timestamp_mi(dt1, dt2) ==
  IF TIMESTAMP_NOT_FINITE(dt1) \/ TIMESTAMP_NOT_FINITE(dt2) THEN Err
  ELSE Ok(pg_interval_justify_hours(
            [month |-> 0, day |-> 0, time |-> WrapInt64(dt1 - dt2)]))

-----------------------------------------------------------------------------
(* The caller.                                                             *)

VARIABLES
  ts,    \* the caller's timestamp
  iv,    \* the caller's interval
  calls, \* calls made so far
  last   \* the last call: its operation, its argument and whether it returned

vars == <<ts, iv, calls, last>>

Ops == {"none", "interval_pl", "timestamp_pl_interval",
        "timestamp_mi_interval", "timestamp_mi", "timestamp_in", "interval_cmp"}

(* The argument of a call: an interval, a timestamp or none.                *)
NoArg == [iv |-> [month |-> 0, day |-> 0, time |-> 0], ts |-> 0]
IvArg(s) == [NoArg EXCEPT !.iv = s]
TsArg(t) == [NoArg EXCEPT !.ts = t]

Init ==
  /\ ts \in TsInputs
  /\ iv \in IvInputs
  /\ calls = 0
  /\ last = [op |-> "none", arg |-> NoArg, ok |-> TRUE]

(* A call of operation op with argument arg and result r, which replaces   *)
(* the caller's timestamp (onTs) or interval when it returns.              *)
Call(op, arg, r, onTs) ==
  /\ calls < MaxCalls
  /\ calls' = calls + 1
  /\ last' = [op |-> op, arg |-> arg, ok |-> r.ok]
  /\ IF r.ok /\ onTs THEN ts' = r.val ELSE UNCHANGED ts
  /\ IF r.ok /\ ~onTs THEN iv' = r.val ELSE UNCHANGED iv

IntervalPl ==
  \E s2 \in IvInputs : Call("interval_pl", IvArg(s2), pg_interval_pl(iv, s2), FALSE)

TimestampPlInterval ==
  Call("timestamp_pl_interval", NoArg, pg_timestamp_pl_interval(ts, iv), TRUE)

TimestampMiInterval ==
  Call("timestamp_mi_interval", NoArg, pg_timestamp_mi_interval(ts, iv), TRUE)

TimestampMi ==
  \E t2 \in TsInputs : Call("timestamp_mi", TsArg(t2), pg_timestamp_mi(ts, t2), FALSE)

(* The caller stops after MaxCalls calls.                                  *)
Done == calls = MaxCalls /\ UNCHANGED vars

Next ==
  \/ IntervalPl
  \/ TimestampPlInterval
  \/ TimestampMiInterval
  \/ TimestampMi
  \/ Done

Spec == Init /\ [][Next]_vars


-----------------------------------------------------------------------------
(* References for the properties: what the functions compute, in exact     *)
(* arithmetic, as spec.md section 4.1 states it (each step fails when its  *)
(* result leaves the valid range, and never wraps).                        *)

RefAddMonths(t, k) ==
  LET tm == timestamp2tm(t)
      idx == tm.year * MONTHS_PER_YEAR + (tm.mon - 1) + k
      y == idx \div MONTHS_PER_YEAR
      m == (idx % MONTHS_PER_YEAR) + 1
      d == IF tm.mday < day_tab(y, m) THEN tm.mday ELSE day_tab(y, m)
  IN  tm2timestamp([year |-> y, mon |-> m, mday |-> d, tod |-> tm.tod])

RefAddTime(r, x) ==
  IF r.ok /\ IS_VALID_TIMESTAMP(r.val + x) THEN Ok(r.val + x) ELSE Err

RefPlInterval(t, span) ==
  IF TIMESTAMP_NOT_FINITE(t) THEN Ok(t)
  ELSE LET r1 == RefAddMonths(t, span.month)
       IN  RefAddTime(RefAddTime(r1, span.day * USECS_PER_DAY), span.time)

RefNegate(span) == [month |-> -span.month, day |-> -span.day, time |-> -span.time]

(* The outcome of the call the step made, against a reference result.      *)
Matches(ref) == last'.ok = ref.ok /\ (ref.ok => ts' = ref.val)

CallStep(op) == calls' = calls + 1 /\ last'.op = op

-----------------------------------------------------------------------------
(* Properties.                                                             *)

TypeOK ==
  /\ ts \in Int64
  /\ iv \in Interval
  /\ calls \in 0..MaxCalls
  /\ last \in [op : Ops, arg : [iv : Interval, ts : Int64], ok : BOOLEAN]

(* The caller's timestamp is always a valid timestamp or one of the two    *)
(* sentinels: pg_timestamp_pl_interval and pg_timestamp_mi_interval never  *)
(* return a timestamp outside MIN_TIMESTAMP..END_TIMESTAMP-1, whatever     *)
(* sequence of intervals was added before.                                 *)
TsValid == IS_VALID_TIMESTAMP(ts) \/ TIMESTAMP_NOT_FINITE(ts)

(* pg_interval_pl returns the exact sum of every field when all three fit  *)
(* their width, and raises "interval out of range" when one does not: the  *)
(* SAMESIGN checks detect exactly the overflows.                           *)
IntervalPlStep ==
  CallStep("interval_pl") =>
    LET s2 == last'.arg.iv
        fits == /\ iv.month + s2.month \in Int32
                /\ iv.day + s2.day \in Int32
                /\ iv.time + s2.time \in Int64
    IN  /\ last'.ok = fits
        /\ fits => iv' = [month |-> iv.month + s2.month,
                          day |-> iv.day + s2.day,
                          time |-> iv.time + s2.time]

(* Every call of pg_interval_pl in a behaviour sums or fails that way.     *)
IntervalPlChecked == [][IntervalPlStep]_vars

(* Adding or subtracting a whole number of months follows the calendar     *)
(* exactly: the month index moves by the count, the day is clamped to the  *)
(* end of the month, and the call fails exactly when the result leaves the *)
(* valid range.  This covers the C int wrap of tm_mon, the truncating      *)
(* division and year borrow of a negative month total, and the negation of *)
(* INT_MIN in pg_timestamp_mi_interval.                                    *)
MonthStepsExact ==
  [][iv.day = 0 /\ iv.time = 0 =>
       /\ CallStep("timestamp_pl_interval") => Matches(RefPlInterval(ts, iv))
       /\ CallStep("timestamp_mi_interval") =>
            Matches(RefPlInterval(ts, RefNegate(iv)))]_vars

(* pg_timestamp_mi returns a justified interval, as spec.md section 4.1    *)
(* requires: no months, less than one day of time, and day and time never  *)
(* of opposite signs.                                                      *)
TimestampMiStep ==
  CallStep("timestamp_mi") /\ last'.ok =>
    /\ iv'.month = 0
    /\ -USECS_PER_DAY < iv'.time /\ iv'.time < USECS_PER_DAY
    /\ ~(iv'.day > 0 /\ iv'.time < 0)
    /\ ~(iv'.day < 0 /\ iv'.time > 0)

(* Every interval pg_timestamp_mi returns in a behaviour is justified.     *)
TimestampMiJustified == [][TimestampMiStep]_vars

(* Adding or subtracting any interval follows the calendar and fails       *)
(* rather than wraps (spec.md section 3: "arithmetic on a finite           *)
(* TimePoint with a finite Interval must detect overflow and fail rather   *)
(* than wrap").                                                            *)
PlIntervalExact ==
  [][/\ CallStep("timestamp_pl_interval") => Matches(RefPlInterval(ts, iv))
     /\ CallStep("timestamp_mi_interval") =>
          Matches(RefPlInterval(ts, RefNegate(iv)))]_vars

(* The interval pg_timestamp_mi returns spans exactly dt1 - dt2.           *)
TimestampMiExact ==
  [][CallStep("timestamp_mi") /\ last'.ok =>
       iv'.day * USECS_PER_DAY + iv'.time = ts - last'.arg.ts]_vars

=============================================================================
