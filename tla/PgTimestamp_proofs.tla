-------------------------- MODULE PgTimestamp_proofs --------------------------
(***************************************************************************)
(* Proofs about PgTimestamp for every value of its constants: the caller's *)
(* registers keep their C types, and its timestamp stays a valid timestamp *)
(* or a sentinel, whatever the sequence of calls.                          *)
(***************************************************************************)
EXTENDS PgTimestamp, TLAPS

(* A function result whose value is an integer.                            *)
IntResult == [ok : BOOLEAN, val : Int]

(* A timestamp the caller may hold.                                        *)
GoodTs(t) == t \in Int64 /\ (IS_VALID_TIMESTAMP(t) \/ TIMESTAMP_NOT_FINITE(t))

(* The inductive invariant: the type invariant and the validity of ts.     *)
IInv == TypeOK /\ TsValid

-----------------------------------------------------------------------------
(* Machine integers.                                                       *)

(* A wrapped sum of two integers of a width has that width again.          *)
LEMMA WrapRange ==
  ASSUME NEW half \in Nat \ {0}, NEW x \in -2 * half .. 2 * half - 1
  PROVE  Wrap(x, half) \in -half .. half - 1
BY DEF Wrap

LEMMA WrapIsInt ==
  ASSUME NEW x \in Int
  PROVE  Wrap(x, IntHalf) \in Int /\ Wrap(x, Int64Half) \in Int
BY WidthAssumption DEF Wrap

(* C's truncating division and remainder by a positive divisor: the        *)
(* remainder has the sign of the dividend and is smaller than the divisor, *)
(* and the quotient is no larger in magnitude than dividend / divisor.     *)
LEMMA CDivMod ==
  ASSUME NEW a \in Int, NEW b \in Nat \ {0}
  PROVE  /\ CDiv(a, b) \in Int
         /\ CMod(a, b) \in Int
         /\ a >= 0 => CMod(a, b) \in 0 .. b - 1 /\ CDiv(a, b) \in 0 .. a \div b
         /\ a < 0 => CMod(a, b) \in -(b - 1) .. 0 /\ CDiv(a, b) \in -((-a) \div b) .. 0
<1>1. CASE a >= 0
  <2>1. a \div b \in Nat /\ a % b \in 0 .. b - 1 /\ a = b * (a \div b) + (a % b)
    BY <1>1
  <2>. QED  BY <1>1, <2>1 DEF CDiv, CMod
<1>2. CASE a < 0
  <2>1. (-a) \div b \in Nat /\ (-a) % b \in 0 .. b - 1
        /\ -a = b * ((-a) \div b) + ((-a) % b)
    BY <1>2
  <2>. QED  BY <1>2, <2>1 DEF CDiv, CMod
<1>. QED  BY <1>1, <1>2

(* The constants' bounds the range arguments need.                         *)
LEMMA DayUnitBound == USECS_PER_DAY < Int64Half
<1>1. TIMESTAMP_END_JULIAN - POSTGRES_EPOCH_JDATE \in Nat \ {0}
  BY CalendarAssumption
<1>2. (TIMESTAMP_END_JULIAN - POSTGRES_EPOCH_JDATE) * USECS_PER_DAY >= USECS_PER_DAY
  BY <1>1, WidthAssumption
<1>. QED  BY <1>2, CalendarAssumption, WidthAssumption

(* Every valid timestamp is an int64: MIN_TIMESTAMP and END_TIMESTAMP lie  *)
(* inside the int64 range.                                                  *)
LEMMA ValidIsInt64 ==
  ASSUME NEW t \in Int, IS_VALID_TIMESTAMP(t)
  PROVE  t \in Int64
<1>1. MIN_TIMESTAMP = -(POSTGRES_EPOCH_JDATE * USECS_PER_DAY)
  BY CalendarAssumption, WidthAssumption DEF MIN_TIMESTAMP
<1>. QED  BY <1>1, CalendarAssumption, WidthAssumption
          DEF IS_VALID_TIMESTAMP, END_TIMESTAMP, Int64

(* Euclidean division of a natural number by a positive one.             *)
LEMMA DivModNat ==
  ASSUME NEW n \in Nat, NEW b \in Nat \ {0}
  PROVE  /\ n \div b \in Nat
         /\ n % b \in 0 .. b - 1
         /\ n = b * (n \div b) + (n % b)
OBVIOUS

(* The truncated quotient of a larger dividend is no smaller.              *)
LEMMA DivMono ==
  ASSUME NEW a \in Nat, NEW c \in Nat, NEW b \in Nat \ {0}, a <= c
  PROVE  a \div b <= c \div b
<1>1. a = b * (a \div b) + (a % b) /\ c = b * (c \div b) + (c % b)
  OBVIOUS
<1>2. a % b \in 0 .. b - 1 /\ c % b \in 0 .. b - 1
  OBVIOUS
<1>3. SUFFICES ASSUME a \div b > c \div b PROVE FALSE
  OBVIOUS
<1>4. b * (a \div b) >= b * (c \div b) + b
  BY <1>3
<1>. QED  BY <1>1, <1>2, <1>4

-----------------------------------------------------------------------------
(* The calendar.                                                           *)

TmType == [year : Int, mon : Int, mday : Int, tod : Int]

LEMMA J2DateType ==
  ASSUME NEW jd \in Int
  PROVE  j2date(jd) \in [year : Int, mon : Int, mday : Int]
BY WidthAssumption DEF j2date, UInt, MONTHS_PER_YEAR

LEMMA Timestamp2TmType ==
  ASSUME NEW t \in Int
  PROVE  timestamp2tm(t) \in TmType
<1> DEFINE date0 == CDiv(t, USECS_PER_DAY)
           time0 == CMod(t, USECS_PER_DAY)
           date == IF time0 < 0 THEN date0 - 1 ELSE date0
           tod  == IF time0 < 0 THEN time0 + USECS_PER_DAY ELSE time0
<1>1. date0 \in Int /\ time0 \in Int
  BY CDivMod, WidthAssumption
<1>2. date + POSTGRES_EPOCH_JDATE \in Int /\ tod \in Int
  BY <1>1, CalendarAssumption, WidthAssumption
<1>3. j2date(date + POSTGRES_EPOCH_JDATE) \in [year : Int, mon : Int, mday : Int]
  BY <1>2, J2DateType
<1>. QED  BY <1>2, <1>3 DEF timestamp2tm, TmType

(* tm2timestamp returns an integer, and only a valid timestamp.            *)
LEMMA Tm2TimestampResult ==
  ASSUME NEW tm \in TmType
  PROVE  /\ tm2timestamp(tm) \in IntResult
         /\ tm2timestamp(tm).ok => IS_VALID_TIMESTAMP(tm2timestamp(tm).val)
<1>1. date2j(tm.year, tm.mon, tm.mday) \in Int
  BY DEF TmType, date2j
<1>. QED  BY <1>1, CalendarAssumption, WidthAssumption
          DEF tm2timestamp, TmType, IntResult, Ok, Err

LEMMA DayTabType ==
  ASSUME NEW y \in Int, NEW m \in 1 .. 12
  PROVE  day_tab(y, m) \in Int
BY DEF day_tab

(* The month AddMonths normalises to lies in 1..12, whatever the sign of   *)
(* tm_mon + span->month.                                                   *)
LEMMA AddMonthsResult ==
  ASSUME NEW t \in Int, NEW month \in Int
  PROVE  AddMonths(t, month) \in IntResult
<1> DEFINE tm == timestamp2tm(t)
           mon == WrapInt(tm.mon + month)
           year == IF mon > MONTHS_PER_YEAR THEN tm.year + CDiv(mon - 1, MONTHS_PER_YEAR)
                   ELSE IF mon < 1 THEN tm.year + CDiv(mon, MONTHS_PER_YEAR) - 1
                   ELSE tm.year
           mon2 == IF mon > MONTHS_PER_YEAR THEN CMod(mon - 1, MONTHS_PER_YEAR) + 1
                   ELSE IF mon < 1 THEN CMod(mon, MONTHS_PER_YEAR) + MONTHS_PER_YEAR
                   ELSE mon
           mday == IF tm.mday > day_tab(year, mon2) THEN day_tab(year, mon2) ELSE tm.mday
<1>1. tm \in TmType
  BY Timestamp2TmType
<1>2. mon \in Int
  BY <1>1, WrapIsInt DEF TmType, WrapInt
<1>3. year \in Int /\ mon2 \in 1 .. 12
  <2>1. CASE mon > MONTHS_PER_YEAR
    <3>0. mon - 1 \in Int /\ mon - 1 >= 0
      BY <1>2, <2>1 DEF MONTHS_PER_YEAR
    <3>1. CDiv(mon - 1, 12) \in Int /\ CMod(mon - 1, 12) \in 0 .. 11
      BY <3>0 DEF CDiv, CMod
    <3>. QED  BY <1>1, <1>2, <2>1, <3>1 DEF MONTHS_PER_YEAR, TmType, year, mon2
  <2>2. CASE mon < 1
    <3>0. mon \in Int /\ mon <= 0
      BY <1>2, <2>2
    <3>1. CDiv(mon, 12) \in Int /\ CMod(mon, 12) \in -11 .. 0
      BY <3>0 DEF CDiv, CMod
    <3>. QED  BY <1>1, <1>2, <2>2, <3>1 DEF MONTHS_PER_YEAR, TmType, year, mon2
  <2>3. CASE ~(mon > MONTHS_PER_YEAR) /\ ~(mon < 1)
    <3>1. year = tm.year /\ mon2 = mon
      BY <1>2, <2>3 DEF MONTHS_PER_YEAR, year, mon2
    <3>2. mon \in 1 .. 12
      BY <1>2, <2>3 DEF MONTHS_PER_YEAR
    <3>. QED  BY <1>1, <3>1, <3>2 DEF TmType
  <2>. QED  BY <2>1, <2>2, <2>3
<1>4. mday \in Int
  BY <1>1, <1>3, DayTabType DEF TmType, mday
<1>5. [year |-> year, mon |-> mon2, mday |-> mday, tod |-> tm.tod] \in TmType
  BY <1>1, <1>3, <1>4 DEF TmType
<1>. QED  BY <1>5, Tm2TimestampResult DEF AddMonths, tm, mon, year, mon2, mday

LEMMA AddDaysResult ==
  ASSUME NEW t \in Int, NEW day \in Int
  PROVE  AddDays(t, day) \in IntResult
<1> DEFINE tm == timestamp2tm(t)
           julian == WrapInt(date2j(tm.year, tm.mon, tm.mday) + day)
           d == j2date(julian)
<1>1. tm \in TmType
  BY Timestamp2TmType
<1>2. julian \in Int
  BY <1>1, WrapIsInt DEF TmType, WrapInt, date2j, julian
<1>3. [year |-> d.year, mon |-> d.mon, mday |-> d.mday, tod |-> tm.tod] \in TmType
  BY <1>1, <1>2, J2DateType DEF TmType
<1>. QED  BY <1>3, Tm2TimestampResult DEF AddDays, IntResult, Err, tm, julian, d

LEMMA DayStepResult ==
  ASSUME NEW r \in IntResult, NEW day \in Int
  PROVE  DayStep(r, day) \in IntResult
<1>1. CASE r.ok /\ day # 0
  <2>1. AddDays(r.val, day) \in IntResult
    BY AddDaysResult DEF IntResult
  <2>. QED  BY <1>1, <2>1 DEF DayStep
<1>2. CASE ~(r.ok /\ day # 0)
  BY <1>2 DEF DayStep
<1>. QED  BY <1>1, <1>2

(* The time step returns only a valid timestamp: its IS_VALID_TIMESTAMP    *)
(* check guards whatever the int64 sum wrapped to.                         *)
LEMMA TimeStepResult ==
  ASSUME NEW r \in IntResult, NEW x \in Int
  PROVE  /\ TimeStep(r, x).ok \in BOOLEAN
         /\ TimeStep(r, x).ok => /\ TimeStep(r, x).val \in Int64
                                 /\ IS_VALID_TIMESTAMP(TimeStep(r, x).val)
<1>1. WrapInt64(r.val + x) \in Int
  BY WrapIsInt DEF IntResult, WrapInt64
<1>2. IS_VALID_TIMESTAMP(WrapInt64(r.val + x)) => WrapInt64(r.val + x) \in Int64
  BY <1>1, ValidIsInt64
<1>. QED  BY <1>2 DEF TimeStep, Ok, Err

(* pg_timestamp_pl_interval returns the sentinel it was given, or a valid  *)
(* timestamp: its final IS_VALID_TIMESTAMP check guards every finite       *)
(* result, whatever the month and day steps computed.                      *)
LEMMA PlIntervalResult ==
  ASSUME NEW t \in Int64, NEW span \in Interval
  PROVE  LET r == pg_timestamp_pl_interval(t, span)
         IN  /\ r.ok \in BOOLEAN
             /\ r.ok => /\ r.val \in Int64
                        /\ IS_VALID_TIMESTAMP(r.val) \/ (r.val = t /\ TIMESTAMP_NOT_FINITE(t))
<1>1. CASE TIMESTAMP_NOT_FINITE(t)
  BY <1>1 DEF pg_timestamp_pl_interval, Ok
<1>2. CASE ~TIMESTAMP_NOT_FINITE(t)
  <2>1. span.month \in Int /\ span.day \in Int /\ span.time \in Int /\ t \in Int
    BY DEF Interval, Int32, Int64
  <2>2. MonthStep(t, span.month) \in IntResult
    BY <2>1, AddMonthsResult DEF MonthStep, IntResult, Ok
  <2>3. DayStep(MonthStep(t, span.month), span.day) \in IntResult
    BY <2>1, <2>2, DayStepResult
  <2>. QED  BY <1>2, <2>1, <2>3, TimeStepResult DEF pg_timestamp_pl_interval
<1>. QED  BY <1>1, <1>2

(* pg_timestamp_mi_interval negates each field in its width, which keeps   *)
(* the interval well formed (INT_MIN negates to itself).                   *)
LEMMA NegateType ==
  ASSUME NEW span \in Interval
  PROVE  [month |-> WrapInt(-span.month), day |-> WrapInt(-span.day),
          time |-> WrapInt64(-span.time)] \in Interval
<1>1. -span.month \in -2 * IntHalf .. 2 * IntHalf - 1
      /\ -span.day \in -2 * IntHalf .. 2 * IntHalf - 1
      /\ -span.time \in -2 * Int64Half .. 2 * Int64Half - 1
  BY WidthAssumption DEF Interval, Int32, Int64
<1>. QED  BY <1>1, WrapRange, WidthAssumption DEF Interval, Int32, Int64, WrapInt, WrapInt64

LEMMA MiIntervalResult ==
  ASSUME NEW t \in Int64, NEW span \in Interval
  PROVE  LET r == pg_timestamp_mi_interval(t, span)
         IN  /\ r.ok \in BOOLEAN
             /\ r.ok => /\ r.val \in Int64
                        /\ IS_VALID_TIMESTAMP(r.val) \/ (r.val = t /\ TIMESTAMP_NOT_FINITE(t))
BY NegateType, PlIntervalResult DEF pg_timestamp_mi_interval

(* pg_interval_pl returns a well-formed interval or an error.              *)
LEMMA IntervalPlResult ==
  ASSUME NEW s1 \in Interval, NEW s2 \in Interval
  PROVE  /\ pg_interval_pl(s1, s2).ok \in BOOLEAN
         /\ pg_interval_pl(s1, s2).ok => pg_interval_pl(s1, s2).val \in Interval
<1>1. /\ s1.month + s2.month \in -2 * IntHalf .. 2 * IntHalf - 1
      /\ s1.day + s2.day \in -2 * IntHalf .. 2 * IntHalf - 1
      /\ s1.time + s2.time \in -2 * Int64Half .. 2 * Int64Half - 1
  BY WidthAssumption DEF Interval, Int32, Int64
<1>2. [month |-> WrapInt(s1.month + s2.month), day |-> WrapInt(s1.day + s2.day),
       time |-> WrapInt64(s1.time + s2.time)] \in Interval
  BY <1>1, WrapRange, WidthAssumption DEF Interval, Int32, Int64, WrapInt, WrapInt64
<1>. QED  BY <1>2 DEF pg_interval_pl, Ok, Err

(* pg_interval_justify_hours keeps an interval well formed: the whole days *)
(* of an int64 time fit a C int, and the borrow moves day and time toward  *)
(* zero.                                                                   *)
LEMMA JustifyType ==
  ASSUME NEW span \in Interval
  PROVE  pg_interval_justify_hours(span) \in Interval
<1> DEFINE wholeday == CDiv(span.time, USECS_PER_DAY)
           time == CMod(span.time, USECS_PER_DAY)
           day == WrapInt(span.day + wholeday)
<1>1. USECS_PER_DAY \in Nat \ {0} /\ span.time \in Int64 /\ span.day \in Int32
  BY WidthAssumption DEF Interval
<1>2. /\ wholeday \in -(IntHalf - 1) .. IntHalf - 1
      /\ time \in -(USECS_PER_DAY - 1) .. USECS_PER_DAY - 1
  <2>1. CASE span.time >= 0
    <3>1. span.time \in Nat /\ Int64Half \in Nat /\ span.time <= Int64Half
      BY <1>1, <2>1, WidthAssumption DEF Int64
    <3>2. span.time \div USECS_PER_DAY <= Int64Half \div USECS_PER_DAY
      BY <1>1, <3>1, DivMono
    <3>3. /\ CDiv(span.time, USECS_PER_DAY) \in 0 .. span.time \div USECS_PER_DAY
          /\ CMod(span.time, USECS_PER_DAY) \in 0 .. USECS_PER_DAY - 1
      BY <1>1, <2>1, CDivMod DEF Int64
    <3>. QED  BY <1>1, <3>2, <3>3, WidthAssumption DEF wholeday, time, Int64
  <2>2. CASE span.time < 0
    <3>1. -span.time \in Nat /\ Int64Half \in Nat /\ -span.time <= Int64Half
      BY <1>1, <2>2, WidthAssumption DEF Int64
    <3>2. (-span.time) \div USECS_PER_DAY <= Int64Half \div USECS_PER_DAY
      BY <1>1, <3>1, DivMono
    <3>3. CDiv(span.time, USECS_PER_DAY) = -((-span.time) \div USECS_PER_DAY)
      BY <1>1, <2>2 DEF CDiv, Int64
    <3>4. /\ (-span.time) \div USECS_PER_DAY \in Nat
          /\ (-span.time) % USECS_PER_DAY \in 0 .. USECS_PER_DAY - 1
          /\ -span.time = USECS_PER_DAY * ((-span.time) \div USECS_PER_DAY)
                          + ((-span.time) % USECS_PER_DAY)
      BY <1>1, <3>1, DivModNat
    <3>5. CMod(span.time, USECS_PER_DAY) = -((-span.time) % USECS_PER_DAY)
      <4> DEFINE q == (-span.time) \div USECS_PER_DAY
                 r == (-span.time) % USECS_PER_DAY
      <4>1. CMod(span.time, USECS_PER_DAY) = span.time + q * USECS_PER_DAY
        BY <3>3, <3>4, <1>1 DEF CMod, Int64
      <4>2. span.time + q * USECS_PER_DAY = -r
        BY <3>4, <1>1 DEF Int64
      <4>. QED  BY <4>1, <4>2
    <3>. QED  BY <1>1, <3>2, <3>3, <3>4, <3>5, WidthAssumption DEF wholeday, time, Int64
  <2>. QED  BY <1>1, <2>1, <2>2 DEF Int64
<1>3. day \in Int32
  <2>1. span.day + wholeday \in -2 * IntHalf .. 2 * IntHalf - 1
    BY <1>1, <1>2, WidthAssumption DEF Int32
  <2>. QED  BY <2>1, WrapRange, WidthAssumption DEF Int32, WrapInt, day
<1>4. USECS_PER_DAY < Int64Half
  BY DayUnitBound
<1>5. pg_interval_justify_hours(span) =
        IF day > 0 /\ time < 0
          THEN [span EXCEPT !.day = day - 1, !.time = time + USECS_PER_DAY]
        ELSE IF day < 0 /\ time > 0
          THEN [span EXCEPT !.day = day + 1, !.time = time - USECS_PER_DAY]
        ELSE [span EXCEPT !.day = day, !.time = time]
  BY DEF pg_interval_justify_hours, wholeday, time, day
<1>6. /\ day > 0 /\ time < 0 => day - 1 \in Int32 /\ time + USECS_PER_DAY \in Int64
      /\ day < 0 /\ time > 0 => day + 1 \in Int32 /\ time - USECS_PER_DAY \in Int64
      /\ time \in Int64
  BY <1>1, <1>2, <1>3, <1>4, WidthAssumption DEF Int32, Int64
<1>. QED  BY <1>3, <1>5, <1>6 DEF Interval

LEMMA TimestampMiResult ==
  ASSUME NEW dt1 \in Int64, NEW dt2 \in Int64
  PROVE  /\ pg_timestamp_mi(dt1, dt2).ok \in BOOLEAN
         /\ pg_timestamp_mi(dt1, dt2).ok => pg_timestamp_mi(dt1, dt2).val \in Interval
<1>1. dt1 - dt2 \in -2 * Int64Half .. 2 * Int64Half - 1
  BY WidthAssumption DEF Int64
<1>2. [month |-> 0, day |-> 0, time |-> WrapInt64(dt1 - dt2)] \in Interval
  BY <1>1, WrapRange, WidthAssumption DEF Interval, Int32, Int64, WrapInt64
<1>. QED  BY <1>2, JustifyType DEF pg_timestamp_mi, Ok, Err

-----------------------------------------------------------------------------
(* The caller.                                                             *)

(* A call preserves the invariant when its result, if it returns, is of    *)
(* the type of the register it replaces (and a valid timestamp).           *)
LEMMA CallPreserves ==
  ASSUME IInv, NEW op \in Ops, NEW arg \in [iv : Interval, ts : Int64],
         NEW r, NEW onTs \in BOOLEAN,
         r.ok \in BOOLEAN,
         r.ok /\ onTs => GoodTs(r.val),
         r.ok /\ ~onTs => r.val \in Interval,
         Call(op, arg, r, onTs)
  PROVE  IInv'
<1>1. calls' \in 0 .. MaxCalls
  BY BoundAssumption DEF Call, IInv, TypeOK
<1>2. last' \in [op : Ops, arg : [iv : Interval, ts : Int64], ok : BOOLEAN]
  BY DEF Call
<1>3. ts' \in Int64 /\ TsValid'
  BY DEF Call, IInv, TypeOK, TsValid, GoodTs
<1>4. iv' \in Interval
  BY DEF Call, IInv, TypeOK
<1>. QED  BY <1>1, <1>2, <1>3, <1>4 DEF IInv, TypeOK

(* The caller's timestamps and intervals are of their types.               *)
LEMMA InputTypes ==
  /\ \A t \in TsInputs : GoodTs(t)
  /\ IvInputs \subseteq Interval
<1>1. ASSUME NEW t \in TsInputs PROVE GoodTs(t)
  BY InputAssumption DEF GoodTs
<1>. QED  BY <1>1, InputAssumption

(* The initial states satisfy the invariant.                               *)
THEOREM InitIInv == Init => IInv
<1> SUFFICES ASSUME Init PROVE IInv
  OBVIOUS
<1>1. GoodTs(ts) /\ iv \in Interval
  BY InputTypes DEF Init
<1>2. NoArg \in [iv : Interval, ts : Int64]
  BY WidthAssumption DEF NoArg, Interval, Int32, Int64
<1>3. calls \in 0 .. MaxCalls
  BY BoundAssumption DEF Init
<1>. QED  BY <1>1, <1>2, <1>3 DEF Init, IInv, TypeOK, TsValid, GoodTs, Ops

(* Every step of the caller, each call and the final stutter, preserves    *)
(* the invariant.                                                          *)
THEOREM NextIInv == IInv /\ [Next]_vars => IInv'
<1> SUFFICES ASSUME IInv, [Next]_vars PROVE IInv'
  OBVIOUS
<1>0. /\ GoodTs(ts) /\ iv \in Interval
      /\ NoArg \in [iv : Interval, ts : Int64]
  BY WidthAssumption DEF IInv, TypeOK, TsValid, GoodTs, NoArg, Interval, Int32, Int64
<1>1. CASE IntervalPl
  <2>1. PICK s2 \in IvInputs :
          Call("interval_pl", IvArg(s2), pg_interval_pl(iv, s2), FALSE)
    BY <1>1 DEF IntervalPl
  <2>2. s2 \in Interval /\ IvArg(s2) \in [iv : Interval, ts : Int64]
    BY <1>0, InputTypes DEF IvArg, NoArg
  <2>. QED  BY <1>0, <2>1, <2>2, IntervalPlResult, CallPreserves DEF Ops
<1>2. CASE TimestampPlInterval
  <2>1. LET r == pg_timestamp_pl_interval(ts, iv)
        IN  r.ok \in BOOLEAN /\ (r.ok => GoodTs(r.val))
    BY <1>0, PlIntervalResult DEF GoodTs
  <2>. QED  BY <1>0, <1>2, <2>1, CallPreserves DEF TimestampPlInterval, Ops
<1>3. CASE TimestampMiInterval
  <2>1. LET r == pg_timestamp_mi_interval(ts, iv)
        IN  r.ok \in BOOLEAN /\ (r.ok => GoodTs(r.val))
    BY <1>0, MiIntervalResult DEF GoodTs
  <2>. QED  BY <1>0, <1>3, <2>1, CallPreserves DEF TimestampMiInterval, Ops
<1>4. CASE TimestampMi
  <2>1. PICK t2 \in TsInputs :
          Call("timestamp_mi", TsArg(t2), pg_timestamp_mi(ts, t2), FALSE)
    BY <1>4 DEF TimestampMi
  <2>2. t2 \in Int64 /\ TsArg(t2) \in [iv : Interval, ts : Int64]
    BY <1>0, InputTypes DEF TsArg, NoArg, GoodTs
  <2>3. ts \in Int64
    BY <1>0 DEF GoodTs
  <2>. QED  BY <1>0, <2>1, <2>2, <2>3, TimestampMiResult, CallPreserves DEF Ops
<1>5. CASE Done \/ UNCHANGED vars
  BY <1>5 DEF Done, vars, IInv, TypeOK, TsValid
<1>. QED  BY <1>1, <1>2, <1>3, <1>4, <1>5 DEF Next

(* The caller's registers keep their C types in every reachable state:     *)
(* the wrapped field sums of pg_interval_pl, the negations of              *)
(* pg_timestamp_mi_interval and the day carry of                           *)
(* pg_interval_justify_hours never leave int32 and int64.                  *)
THEOREM TypeCorrect == Spec => []TypeOK
<1>1. IInv => TypeOK
  BY DEF IInv
<1>. QED  BY <1>1, InitIInv, NextIInv, PTL DEF Spec

(* The caller's timestamp is valid or a sentinel in every reachable state: *)
(* pg_timestamp_pl_interval and pg_timestamp_mi_interval never return a    *)
(* timestamp outside the valid range, for every width and calendar bound.  *)
THEOREM TsAlwaysValid == Spec => []TsValid
<1>1. IInv => TsValid
  BY DEF IInv
<1>. QED  BY <1>1, InitIInv, NextIInv, PTL DEF Spec

-----------------------------------------------------------------------------
(* pg_interval_pl's overflow checks.                                       *)

(* The int4pl/int8pl test of a wrapped sum of two integers of a width:     *)
(* SAMESIGN(a, b) /\ ~SAMESIGN(result, a) holds exactly when the exact sum *)
(* leaves the width, and a sum that fits is not changed by the wrap.       *)
LEMMA SumChecked ==
  ASSUME NEW h \in Nat \ {0}, NEW a \in -h .. h - 1, NEW b \in -h .. h - 1
  PROVE  /\ FieldOverflows(a, b, Wrap(a + b, h)) <=> a + b \notin -h .. h - 1
         /\ a + b \in -h .. h - 1 => Wrap(a + b, h) = a + b
<1>1. CASE a + b >= h
  <2>1. Wrap(a + b, h) = a + b - 2 * h /\ a >= 0 /\ b >= 0 /\ a + b - 2 * h < 0
    BY <1>1 DEF Wrap
  <2>. QED  BY <1>1, <2>1 DEF FieldOverflows, SAMESIGN
<1>2. CASE a + b < -h
  <2>1. Wrap(a + b, h) = a + b + 2 * h /\ a < 0 /\ b < 0 /\ a + b + 2 * h >= 0
    BY <1>2 DEF Wrap
  <2>. QED  BY <1>2, <2>1 DEF FieldOverflows, SAMESIGN
<1>3. CASE a + b \in -h .. h - 1
  <2>1. Wrap(a + b, h) = a + b
    BY <1>3 DEF Wrap
  <2>2. SAMESIGN(a, b) => SAMESIGN(a + b, a)
    BY DEF SAMESIGN
  <2>. QED  BY <1>3, <2>1, <2>2 DEF FieldOverflows
<1>. QED  BY <1>1, <1>2, <1>3

(* pg_interval_pl returns the exact field sums when they fit and raises    *)
(* its ERROR when one does not.                                            *)
LEMMA IntervalPlExact ==
  ASSUME NEW s1 \in Interval, NEW s2 \in Interval
  PROVE  LET fits == /\ s1.month + s2.month \in Int32
                     /\ s1.day + s2.day \in Int32
                     /\ s1.time + s2.time \in Int64
         IN  /\ pg_interval_pl(s1, s2).ok = fits
             /\ fits => pg_interval_pl(s1, s2).val =
                          [month |-> s1.month + s2.month, day |-> s1.day + s2.day,
                           time |-> s1.time + s2.time]
<1> DEFINE r == [month |-> WrapInt(s1.month + s2.month),
                 day   |-> WrapInt(s1.day + s2.day),
                 time  |-> WrapInt64(s1.time + s2.time)]
<1>1. /\ FieldOverflows(s1.month, s2.month, r.month) <=> s1.month + s2.month \notin Int32
      /\ s1.month + s2.month \in Int32 => r.month = s1.month + s2.month
  BY WidthAssumption, SumChecked DEF Interval, Int32, WrapInt
<1>2. /\ FieldOverflows(s1.day, s2.day, r.day) <=> s1.day + s2.day \notin Int32
      /\ s1.day + s2.day \in Int32 => r.day = s1.day + s2.day
  BY WidthAssumption, SumChecked DEF Interval, Int32, WrapInt
<1>3. /\ FieldOverflows(s1.time, s2.time, r.time) <=> s1.time + s2.time \notin Int64
      /\ s1.time + s2.time \in Int64 => r.time = s1.time + s2.time
  BY WidthAssumption, SumChecked DEF Interval, Int64, WrapInt64
<1>4. (\E f \in {"month", "day", "time"} : FieldOverflows(s1[f], s2[f], r[f]))
      <=> \/ FieldOverflows(s1.month, s2.month, r.month)
          \/ FieldOverflows(s1.day, s2.day, r.day)
          \/ FieldOverflows(s1.time, s2.time, r.time)
  OBVIOUS
<1>5. pg_interval_pl(s1, s2) =
        IF \E f \in {"month", "day", "time"} : FieldOverflows(s1[f], s2[f], r[f])
        THEN Err ELSE Ok(r)
  BY DEF pg_interval_pl
<1>. QED  BY <1>1, <1>2, <1>3, <1>4, <1>5 DEF Ok, Err

(* A step of the caller satisfies IntervalPlStep: only IntervalPl makes an *)
(* interval_pl call, on the caller's interval and one of the inputs.       *)
LEMMA IntervalPlStepHolds == TypeOK /\ [Next]_vars => [IntervalPlStep]_vars
<1> SUFFICES ASSUME TypeOK, [Next]_vars, CallStep("interval_pl") PROVE IntervalPlStep
  BY DEF IntervalPlStep
<1>1. CASE IntervalPl
  <2>1. PICK s2 \in IvInputs :
          Call("interval_pl", IvArg(s2), pg_interval_pl(iv, s2), FALSE)
    BY <1>1 DEF IntervalPl
  <2>2. s2 \in Interval /\ iv \in Interval
    BY InputTypes DEF TypeOK
  <2>3. /\ last'.arg.iv = s2
        /\ last'.ok = pg_interval_pl(iv, s2).ok
        /\ pg_interval_pl(iv, s2).ok => iv' = pg_interval_pl(iv, s2).val
    BY <2>1 DEF Call, IvArg, NoArg
  <2>. QED  BY <2>2, <2>3, IntervalPlExact DEF IntervalPlStep
<1>2. CASE TimestampPlInterval \/ TimestampMiInterval \/ TimestampMi
  BY <1>2 DEF TimestampPlInterval, TimestampMiInterval, TimestampMi, Call, CallStep
<1>3. CASE Done \/ UNCHANGED vars
  BY <1>3 DEF Done, vars, CallStep, TypeOK
<1>. QED  BY <1>1, <1>2, <1>3 DEF Next

(* Every call of pg_interval_pl, in every behaviour and for every width,   *)
(* returns the exact field sums or fails exactly when one overflows: the   *)
(* SAMESIGN tests of lines 553-567 are exact.                              *)
THEOREM IntervalPlCheckedHolds == Spec => IntervalPlChecked
<1>1. IInv => TypeOK
  BY DEF IInv
<1>. QED  BY <1>1, InitIInv, NextIInv, IntervalPlStepHolds, PTL DEF Spec, IntervalPlChecked

-----------------------------------------------------------------------------
(* pg_timestamp_mi's justification.                                        *)

(* pg_interval_justify_hours leaves the months alone, keeps less than a    *)
(* day of time and gives day and time the same sign: C's remainder has the *)
(* sign of the dividend, and the borrow or carry of one day moves a time   *)
(* of the wrong sign across zero, whatever day the wrap of the day sum     *)
(* produced.                                                               *)
LEMMA JustifyJustified ==
  ASSUME NEW span \in Interval
  PROVE  LET j == pg_interval_justify_hours(span)
         IN  /\ j.month = span.month
             /\ -USECS_PER_DAY < j.time /\ j.time < USECS_PER_DAY
             /\ ~(j.day > 0 /\ j.time < 0)
             /\ ~(j.day < 0 /\ j.time > 0)
<1> DEFINE wholeday == CDiv(span.time, USECS_PER_DAY)
           time == CMod(span.time, USECS_PER_DAY)
           day == WrapInt(span.day + wholeday)
<1>1. USECS_PER_DAY \in Nat \ {0} /\ span.time \in Int /\ span.day \in Int
  BY WidthAssumption DEF Interval, Int32, Int64
<1>2. wholeday \in Int /\ time \in -(USECS_PER_DAY - 1) .. USECS_PER_DAY - 1
  <2>1. /\ CDiv(span.time, USECS_PER_DAY) \in Int
        /\ span.time >= 0 => CMod(span.time, USECS_PER_DAY) \in 0 .. USECS_PER_DAY - 1
        /\ span.time < 0 => CMod(span.time, USECS_PER_DAY) \in -(USECS_PER_DAY - 1) .. 0
    BY <1>1, CDivMod
  <2>. QED  BY <1>1, <2>1 DEF wholeday, time
<1>3. day \in Int
  BY <1>1, <1>2, WrapIsInt DEF WrapInt, day
<1>4. pg_interval_justify_hours(span) =
        IF day > 0 /\ time < 0
          THEN [span EXCEPT !.day = day - 1, !.time = time + USECS_PER_DAY]
        ELSE IF day < 0 /\ time > 0
          THEN [span EXCEPT !.day = day + 1, !.time = time - USECS_PER_DAY]
        ELSE [span EXCEPT !.day = day, !.time = time]
  BY DEF pg_interval_justify_hours, wholeday, time, day
<1>. QED  BY <1>1, <1>2, <1>3, <1>4 DEF Interval

(* A step of the caller satisfies TimestampMiStep: only TimestampMi makes  *)
(* a timestamp_mi call, and what it stores is a justified difference.      *)
LEMMA TimestampMiStepHolds == TypeOK /\ [Next]_vars => [TimestampMiStep]_vars
<1> SUFFICES ASSUME TypeOK, [Next]_vars, CallStep("timestamp_mi"), last'.ok
             PROVE  /\ iv'.month = 0
                    /\ -USECS_PER_DAY < iv'.time /\ iv'.time < USECS_PER_DAY
                    /\ ~(iv'.day > 0 /\ iv'.time < 0)
                    /\ ~(iv'.day < 0 /\ iv'.time > 0)
  BY DEF TimestampMiStep
<1>1. CASE TimestampMi
  <2>1. PICK t2 \in TsInputs :
          Call("timestamp_mi", TsArg(t2), pg_timestamp_mi(ts, t2), FALSE)
    BY <1>1 DEF TimestampMi
  <2> DEFINE span == [month |-> 0, day |-> 0, time |-> WrapInt64(ts - t2)]
  <2>2. t2 \in Int64 /\ ts \in Int64
    BY InputTypes DEF GoodTs, TypeOK
  <2>3. span \in Interval
    <3>1. ts - t2 \in -2 * Int64Half .. 2 * Int64Half - 1
      BY <2>2, WidthAssumption DEF Int64
    <3>. QED  BY <3>1, WrapRange, WidthAssumption DEF Interval, Int32, Int64, WrapInt64
  <2>4. pg_timestamp_mi(ts, t2).ok
    BY <2>1 DEF Call
  <2>5. iv' = pg_interval_justify_hours(span)
    BY <2>1, <2>4 DEF Call, pg_timestamp_mi, Ok, Err
  <2>. QED  BY <2>3, <2>5, JustifyJustified
<1>2. CASE IntervalPl \/ TimestampPlInterval \/ TimestampMiInterval
  BY <1>2 DEF IntervalPl, TimestampPlInterval, TimestampMiInterval, Call, CallStep
<1>3. CASE Done \/ UNCHANGED vars
  BY <1>3 DEF Done, vars, CallStep, TypeOK
<1>. QED  BY <1>1, <1>2, <1>3 DEF Next

(* Every interval pg_timestamp_mi returns, in every behaviour and for      *)
(* every width, is justified (spec.md section 4.1).                        *)
THEOREM TimestampMiJustifiedHolds == Spec => TimestampMiJustified
<1>1. IInv => TypeOK
  BY DEF IInv
<1>. QED  BY <1>1, InitIInv, NextIInv, TimestampMiStepHolds, PTL
          DEF Spec, TimestampMiJustified

-----------------------------------------------------------------------------
(* The day step at full width.                                             *)

(* The constants of a 64-bit PostgreSQL build: a 32-bit C int, a 64-bit   *)
(* int64, microseconds, and the calendar bounds of datatype/timestamp.h.   *)
(* 2^63 is written as 4 * 2^61, a product of literals the provers read.    *)
FullWidth ==
  /\ IntHalf = 2147483648
  /\ Int64Half = 4 * 2305843009213693952
  /\ USECS_PER_DAY = 86400000000
  /\ POSTGRES_EPOCH_JDATE = 2451545
  /\ TIMESTAMP_END_JULIAN = 109203528
  /\ JULIAN_MAXYEAR = 5874898
  /\ JULIAN_MAXMONTH = 6

(* The interval of -50000 days.                                            *)
BackDays == [month |-> 0, day |-> -50000, time |-> 0]

(* Floor division and modulus by a positive divisor, from a witness of    *)
(* the division: the form in which the provers evaluate them on negative  *)
(* dividends.                                                              *)
LEMMA DivModChar ==
  ASSUME NEW x \in Int, NEW d \in Int, NEW q \in Int, NEW r \in Int,
         0 < d, 0 <= r, r < d, x = d * q + r
  PROVE  x \div d = q /\ x % d = r
BY SMTT(60)

(* The last step of pg_timestamp_pl_interval on a timestamp it keeps, and  *)
(* the reference's time step on one it leaves or on a failure.             *)
LEMMA TimeStepKeeps ==
  ASSUME NEW v, NEW x, IS_VALID_TIMESTAMP(WrapInt64(v + x))
  PROVE  TimeStep(Ok(v), x) = Ok(WrapInt64(v + x))
BY DEF TimeStep, Ok

LEMMA RefAddTimeFails ==
  ASSUME NEW v, NEW x
  PROVE  /\ ~IS_VALID_TIMESTAMP(v + x) => RefAddTime(Ok(v), x) = Err
         /\ RefAddTime(Err, x) = Err
BY DEF RefAddTime, Ok, Err

LEMMA RefPlIntervalFinite ==
  ASSUME NEW t0, NEW span, ~TIMESTAMP_NOT_FINITE(t0)
  PROVE  RefPlInterval(t0, span) =
           RefAddTime(RefAddTime(RefAddMonths(t0, span.month), span.day * USECS_PER_DAY),
                      span.time)
BY DEF RefPlInterval

(* The first valid timestamp is 4714-11-24 BC (year -4713) at midnight,    *)
(* Julian day 0.                                                           *)
LEMMA MinTimestampDate ==
  ASSUME FullWidth
  PROVE  /\ timestamp2tm(MIN_TIMESTAMP) = [year |-> -4713, mon |-> 11, mday |-> 24, tod |-> 0]
         /\ date2j(-4713, 11, 24) = 0
         /\ MIN_TIMESTAMP = -211813488000000000
<1>1. MIN_TIMESTAMP = -211813488000000000
  BY SMTT(60) DEF FullWidth, MIN_TIMESTAMP
<1>2. /\ CDiv(MIN_TIMESTAMP, USECS_PER_DAY) = -2451545
      /\ CMod(MIN_TIMESTAMP, USECS_PER_DAY) = 0
  BY <1>1, SMTT(60) DEF FullWidth, CDiv, CMod
<1>3. j2date(0) = [year |-> -4713, mon |-> 11, mday |-> 24]
  BY SMTT(60) DEF FullWidth, j2date, UInt, MONTHS_PER_YEAR
<1>4. date2j(-4713, 11, 24) = 0
  BY SMTT(60) DEF date2j
<1>. QED  BY <1>1, <1>2, <1>3, <1>4, SMTT(60) DEF FullWidth, timestamp2tm

(* j2date's unsigned arithmetic at 32 bits: Julian day -50000 wraps to     *)
(* 4609-06-19 BC, Julian day 38193, a date tm2timestamp accepts.           *)
LEMMA J2DateWraps ==
  ASSUME FullWidth
  PROVE  /\ j2date(-50000) = [year |-> -4608, mon |-> 6, mday |-> 19]
         /\ date2j(-4608, 6, 19) = 38193
<1>1. (-50000 + 32044) % (2 * IntHalf) = 4294949340
  <2>1. /\ 2 * IntHalf \in Int /\ 0 < 2 * IntHalf
        /\ -50000 + 32044 = (2 * IntHalf) * (-1) + 4294949340
        /\ 4294949340 < 2 * IntHalf
    BY SMTT(60) DEF FullWidth
  <2>. QED  BY <2>1, DivModChar
<1>2. j2date(-50000) = [year |-> -4608, mon |-> 6, mday |-> 19]
  BY <1>1, SMTT(60) DEF FullWidth, j2date, UInt, MONTHS_PER_YEAR
<1>3. date2j(-4608, 6, 19) = 38193
  BY SMTT(60) DEF date2j
<1>. QED  BY <1>2, <1>3, SMTT(60)

(* Subtracting 50000 days from the first valid timestamp at full width:    *)
(* the Julian day of line 632 is -50000, j2date wraps it to a valid date,  *)
(* and pg_timestamp_pl_interval returns that date, 38193 days after the    *)
(* first valid timestamp, where the calendar (RefPlInterval) leaves the    *)
(* valid range and the call must fail.  TLC's scaled widths cannot reach   *)
(* this: the wrap lands on a valid date only when 3 * (2^w / 146097) days  *)
(* exceed the 32044 of j2date's offset, which needs w >= 31 bits.          *)
THEOREM DayStepWrapsForward ==
  ASSUME FullWidth
  PROVE  /\ pg_timestamp_pl_interval(MIN_TIMESTAMP, BackDays)
              = Ok(MIN_TIMESTAMP + 38193 * USECS_PER_DAY)
         /\ RefPlInterval(MIN_TIMESTAMP, BackDays) = Err
<1>1. /\ timestamp2tm(MIN_TIMESTAMP) = [year |-> -4713, mon |-> 11, mday |-> 24, tod |-> 0]
      /\ date2j(-4713, 11, 24) = 0
      /\ MIN_TIMESTAMP = -211813488000000000
  BY MinTimestampDate, SMTT(60)
<1>2. /\ j2date(-50000) = [year |-> -4608, mon |-> 6, mday |-> 19]
      /\ date2j(-4608, 6, 19) = 38193
  BY J2DateWraps, SMTT(60)
<1>3. ~TIMESTAMP_NOT_FINITE(MIN_TIMESTAMP)
  BY <1>1, SMTT(60) DEF FullWidth, TIMESTAMP_NOT_FINITE, DT_NOBEGIN, DT_NOEND
<1> DEFINE t == MIN_TIMESTAMP + 38193 * USECS_PER_DAY
<1>4. t = -208513612800000000 /\ IS_VALID_TIMESTAMP(t)
  BY <1>1, SMTT(60) DEF FullWidth, t, IS_VALID_TIMESTAMP, MIN_TIMESTAMP, END_TIMESTAMP
<1>5. WrapInt(0 + -50000) = -50000 /\ WrapInt64(t + 0) = t
  BY <1>4, SMTT(60) DEF FullWidth, WrapInt, WrapInt64, Wrap
<1>6. tm2timestamp([year |-> -4608, mon |-> 6, mday |-> 19, tod |-> 0]) = Ok(t)
  <2>1. IS_VALID_JULIAN(-4608, 6)
    BY SMTT(60) DEF FullWidth, IS_VALID_JULIAN, JULIAN_MINYEAR, JULIAN_MINMONTH
  <2>2. (38193 - POSTGRES_EPOCH_JDATE) * USECS_PER_DAY + 0 = t
    BY <1>1, SMTT(60) DEF FullWidth, t
  <2>. QED  BY <1>2, <1>4, <2>1, <2>2, SMTT(60) DEF tm2timestamp
<1>7. AddDays(MIN_TIMESTAMP, -50000) = Ok(t)
  BY <1>1, <1>2, <1>5, <1>6, SMTT(60) DEF AddDays
<1>8. pg_timestamp_pl_interval(MIN_TIMESTAMP, BackDays) = Ok(t)
  <2>1. DayStep(MonthStep(MIN_TIMESTAMP, 0), -50000) = Ok(t)
    BY <1>7, SMTT(60) DEF MonthStep, DayStep, Ok
  <2>2. TimeStep(Ok(t), 0) = Ok(t)
    <3>1. IS_VALID_TIMESTAMP(WrapInt64(t + 0)) /\ WrapInt64(t + 0) = t
      BY <1>4, <1>5
    <3>. QED  BY <3>1, TimeStepKeeps
  <2>. QED  BY <1>3, <2>1, <2>2, SMTT(60) DEF pg_timestamp_pl_interval, BackDays
<1>9. RefPlInterval(MIN_TIMESTAMP, BackDays) = Err
  <2>1. RefAddMonths(MIN_TIMESTAMP, 0) = Ok(MIN_TIMESTAMP)
    <3>1. day_tab(-4713, 11) = 30
      BY SMTT(60) DEF day_tab
    <3>2. IS_VALID_JULIAN(-4713, 11)
      BY SMTT(60) DEF FullWidth, IS_VALID_JULIAN, JULIAN_MINYEAR, JULIAN_MINMONTH
    <3>3. (0 - POSTGRES_EPOCH_JDATE) * USECS_PER_DAY + 0 = MIN_TIMESTAMP
      BY SMTT(60) DEF FullWidth, MIN_TIMESTAMP
    <3>4. IS_VALID_TIMESTAMP(MIN_TIMESTAMP)
      BY <1>1, SMTT(60) DEF FullWidth, IS_VALID_TIMESTAMP, MIN_TIMESTAMP, END_TIMESTAMP
    <3>5. tm2timestamp([year |-> -4713, mon |-> 11, mday |-> 24, tod |-> 0]) = Ok(MIN_TIMESTAMP)
      BY <1>1, <3>2, <3>3, <3>4, SMTT(60) DEF tm2timestamp
    <3> DEFINE tm0 == timestamp2tm(MIN_TIMESTAMP)
               idx == tm0.year * MONTHS_PER_YEAR + (tm0.mon - 1) + 0
    <3>6. idx \div MONTHS_PER_YEAR = -4713 /\ (idx % MONTHS_PER_YEAR) + 1 = 11
      <4>1. /\ idx \in Int /\ idx = MONTHS_PER_YEAR * (-4713) + 10
            /\ MONTHS_PER_YEAR \in Int /\ 0 < MONTHS_PER_YEAR /\ 10 < MONTHS_PER_YEAR
        BY <1>1, SMTT(60) DEF MONTHS_PER_YEAR, idx, tm0
      <4>. QED  BY <4>1, DivModChar
    <3>7. (IF tm0.mday < day_tab(-4713, 11) THEN tm0.mday ELSE day_tab(-4713, 11)) = 24
      BY <1>1, <3>1, SMTT(60) DEF tm0
    <3>8. tm2timestamp([year |-> -4713, mon |-> 11, mday |-> 24, tod |-> tm0.tod])
            = Ok(MIN_TIMESTAMP)
      BY <1>1, <3>5 DEF tm0
    <3>9. RefAddMonths(MIN_TIMESTAMP, 0) =
            tm2timestamp([year |-> idx \div MONTHS_PER_YEAR,
                          mon |-> (idx % MONTHS_PER_YEAR) + 1,
                          mday |-> IF tm0.mday < day_tab(idx \div MONTHS_PER_YEAR,
                                                         (idx % MONTHS_PER_YEAR) + 1)
                                   THEN tm0.mday
                                   ELSE day_tab(idx \div MONTHS_PER_YEAR,
                                                (idx % MONTHS_PER_YEAR) + 1),
                          tod |-> tm0.tod])
      BY DEF RefAddMonths, tm0, idx
    <3>. QED  BY <3>6, <3>7, <3>8, <3>9
  <2>2. RefAddMonths(MIN_TIMESTAMP, BackDays.month) = Ok(MIN_TIMESTAMP)
    <3>1. BackDays.month = 0
      BY DEF BackDays
    <3>. QED  BY <2>1, <3>1
  <2>3. ~IS_VALID_TIMESTAMP(MIN_TIMESTAMP + BackDays.day * USECS_PER_DAY)
    BY SMTT(60) DEF FullWidth, IS_VALID_TIMESTAMP, MIN_TIMESTAMP, BackDays
  <2>4. RefPlInterval(MIN_TIMESTAMP, BackDays) =
          RefAddTime(RefAddTime(RefAddMonths(MIN_TIMESTAMP, BackDays.month),
                                BackDays.day * USECS_PER_DAY), BackDays.time)
    BY <1>3, RefPlIntervalFinite
  <2>. QED  BY <2>2, <2>3, <2>4, RefAddTimeFails
<1>. QED  BY <1>8, <1>9, SMTT(60)

====
