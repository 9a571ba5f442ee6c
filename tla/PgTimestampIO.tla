---------------------------- MODULE PgTimestampIO ----------------------------
(***************************************************************************)
(* The caller of PgTimestamp also reads timestamps from text and compares  *)
(* intervals (src/meos/src/general/pg_call.c):                             *)
(*  - timestamp_in_common (lines 408-470): the parsed date goes through    *)
(*    tm2timestamp and its range check, then AdjustTimestampForTypmod      *)
(*    (lines 328-379) rounds it to the precision of the typmod;            *)
(*  - pg_interval_cmp (lines 729-764): both intervals are mapped to a      *)
(*    128-bit linear value and compared.                                   *)
(* The text itself is abstracted to what ParseDateTime and DecodeDateTime  *)
(* make of it: a dtype and a broken-down date.  pg_timestamp_in and        *)
(* pg_timestamptz_in differ only in the wording of their errors (the time  *)
(* zone of a timestamptz is taken as part of the time of day).             *)
(***************************************************************************)
EXTENDS PgTimestamp

CONSTANTS
  MAX_TIMESTAMP_PRECISION, \* 6: microseconds
  TimestampScales,         \* units per rounding step of each precision
  TmInputs,                \* the broken-down dates the parser returns
  TypmodInputs             \* the typmods a caller passes in

ASSUME TypmodAssumption ==
  /\ MAX_TIMESTAMP_PRECISION \in Nat
  /\ TimestampScales \in [0..MAX_TIMESTAMP_PRECISION -> Nat \ {0}]
  \* a step of the full precision is one unit; no step exceeds a day
  /\ TimestampScales[MAX_TIMESTAMP_PRECISION] = 1
  /\ \A p \in 0..MAX_TIMESTAMP_PRECISION : TimestampScales[p] <= USECS_PER_DAY
  /\ TypmodInputs \subseteq Int
  /\ TmInputs \subseteq [year : Int, mon : Int, mday : Int, tod : Int]

(* The int64 room the code relies on: a day past END_TIMESTAMP and before  *)
(* MIN_TIMESTAMP is still an int64 (the rounding offset cannot wrap), and  *)
(* the days of an interval, months of 30 days, days and whole days of its  *)
(* time, fit an int64 ("We cannot overflow int64 days here", line 736).    *)
ASSUME RoomAssumption ==
  /\ END_TIMESTAMP + USECS_PER_DAY < Int64Half
  /\ (POSTGRES_EPOCH_JDATE + 1) * USECS_PER_DAY < Int64Half
  /\ 31 * IntHalf + Int64Half \div USECS_PER_DAY < Int64Half

(* The rounding offsets, half of each scale (lines 342-350): 500000 for    *)
(* 1000000 down to 0 for 1.                                                *)
TimestampOffsetsMutFull == TimestampScales
TimestampOffsets ==
  [p \in DOMAIN TimestampScales |-> TimestampScales[p] \div 2]

(* AdjustTimestampForTypmodError: infinite timestamps, typmod -1 and the   *)
(* full precision are left alone; a typmod out of range is an error        *)
(* (elog ERROR, as AdjustTimestampForTypmod passes no error flag); a       *)
(* finite timestamp is rounded half away from zero, in int64.              *)
AdjustTimestampForTypmodError(time, typmod) ==
  IF \/ TIMESTAMP_NOT_FINITE(time)
     \/ typmod = -1
     \/ typmod = MAX_TIMESTAMP_PRECISION
  THEN Ok(time)
  ELSE IF typmod < 0 \/ typmod > MAX_TIMESTAMP_PRECISION THEN Err
  ELSE LET s == TimestampScales[typmod]
           o == TimestampOffsets[typmod]
       IN  IF time >= 0
           THEN Ok(CDiv(WrapInt64(time + o), s) * s)
           ELSE Ok(WrapInt64(-(CDiv(WrapInt64(-time + o), s) * s)))

(* The outcome of ParseDateTime and DecodeDateTime: a date, the special    *)
(* words epoch, infinity and -infinity, or a syntax error.                 *)
DTypes == {"date", "epoch", "late", "early", "invalid"}

(* SetEpochTimestamp (timestamp.c): 1970-01-01 00:00 through tm2timestamp. *)
SetEpochTimestamp ==
  tm2timestamp([year |-> 1970, mon |-> 1, mday |-> 1, tod |-> 0]).val

(* The timestamp the switch of timestamp_in_common produces (lines         *)
(* 418-458): tm2timestamp's failure is "timestamp out of range".           *)
ParsedTimestamp(dtype, tm) ==
  CASE dtype = "invalid" -> Err
    [] dtype = "date"    -> tm2timestamp(tm)
    [] dtype = "epoch"   -> Ok(SetEpochTimestamp)
    [] dtype = "late"    -> Ok(DT_NOEND)
    [] dtype = "early"   -> Ok(DT_NOBEGIN)

(* timestamp_in_common: the parse, then the typmod rounding (line 466).    *)
timestamp_in_common(parsed, typmod) ==
  IF parsed.ok THEN AdjustTimestampForTypmodError(parsed.val, typmod) ELSE Err

(* interval_cmp_value: the days of the time, months of 30 days and days    *)
(* summed in int64 (lines 739-742).  The int128 span (lines 745-748) is    *)
(* kept as the pair it is made of, days * USECS_PER_DAY + dayfraction,     *)
(* which TLC's integers can hold.                                          *)
interval_cmp_valueMutNoFraction(span) ==
  [dayfraction |-> 0,
   days |-> WrapInt64(WrapInt64(CDiv(span.time, USECS_PER_DAY) + span.month * 30) + span.day)]
interval_cmp_value(span) ==
  [dayfraction |-> CMod(span.time, USECS_PER_DAY),
   days |-> WrapInt64(WrapInt64(CDiv(span.time, USECS_PER_DAY) + span.month * 30) + span.day)]

Sign(x) == IF x < 0 THEN -1 ELSE IF x > 0 THEN 1 ELSE 0

(* int128_compare (int128.h) of two spans: as |dayfraction| is below a     *)
(* day, days two apart decide the order alone.                             *)
int128_compareMutRaw(x, y) ==
  LET d == x.days - y.days IN
  IF d > 1 THEN 1
  ELSE IF d < -1 THEN -1
  ELSE d * USECS_PER_DAY + x.dayfraction - y.dayfraction
int128_compare(x, y) ==
  LET d == x.days - y.days IN
  IF d > 1 THEN 1
  ELSE IF d < -1 THEN -1
  ELSE Sign(d * USECS_PER_DAY + x.dayfraction - y.dayfraction)

pg_interval_cmp(s1, s2) ==
  int128_compare(interval_cmp_value(s1), interval_cmp_value(s2))

-----------------------------------------------------------------------------
(* The caller, with its typmod and the result of its last comparison.      *)

VARIABLES
  typmod, \* the typmod of the last timestamp_in
  cmp     \* the result of the last interval_cmp

iovars == <<ts, iv, calls, last, typmod, cmp>>

IOInit == Init /\ typmod = -1 /\ cmp = 0

(* pg_timestamp_in / pg_timestamptz_in with outcome r: ts becomes the      *)
(* rounded timestamp; last.arg.ts records the timestamp before rounding.   *)
InCall(parsed, tmod, r) ==
  /\ calls < MaxCalls
  /\ calls' = calls + 1
  /\ typmod' = tmod
  /\ last' = [op |-> "timestamp_in", arg |-> TsArg(parsed.val), ok |-> r.ok]
  /\ ts' = IF r.ok THEN r.val ELSE ts
  /\ UNCHANGED <<iv, cmp>>

TimestampIn ==
  \E dtype \in DTypes, tm \in TmInputs, tmod \in TypmodInputs :
    InCall(ParsedTimestamp(dtype, tm), tmod,
           timestamp_in_common(ParsedTimestamp(dtype, tm), tmod))

(* pg_interval_cmp(iv, s2).                                                *)
IntervalCmp ==
  \E s2 \in IvInputs :
    /\ calls < MaxCalls
    /\ calls' = calls + 1
    /\ cmp' = pg_interval_cmp(iv, s2)
    /\ last' = [op |-> "interval_cmp", arg |-> IvArg(s2), ok |-> TRUE]
    /\ UNCHANGED <<ts, iv, typmod>>

IONext ==
  \/ Next /\ UNCHANGED <<typmod, cmp>>
  \/ TimestampIn
  \/ IntervalCmp

IOSpec == IOInit /\ [][IONext]_iovars

-----------------------------------------------------------------------------
(* Properties.                                                             *)

IOTypeOK ==
  /\ TypeOK
  /\ typmod \in TypmodInputs \cup {-1}
  /\ cmp \in {-1, 0, 1}

(* A timestamp read with a typmod 0..MAX_TIMESTAMP_PRECISION-1 is the      *)
(* nearest multiple of the typmod's scale to the parsed timestamp, halves  *)
(* rounded away from zero, for negative timestamps as for positive ones    *)
(* (AdjustTimestampForTypmodError, lines 366-376).                         *)
Dist(x, y) == IF x >= y THEN x - y ELSE y - x
RoundsNearest(v, t, s) ==
  /\ v % s = 0
  /\ 2 * Dist(v, t) <= s
  /\ 2 * Dist(v, t) = s => Dist(v, 0) > Dist(t, 0)
TypmodRoundsNearestStep ==
  /\ CallStep("timestamp_in")
  /\ last'.ok
  /\ typmod' \in 0..MAX_TIMESTAMP_PRECISION
  /\ ~TIMESTAMP_NOT_FINITE(last'.arg.ts)
  => RoundsNearest(ts', last'.arg.ts, TimestampScales[typmod'])
TypmodRoundsNearest == [][TypmodRoundsNearestStep]_iovars

(* pg_interval_cmp orders intervals by their length with months of 30 days *)
(* and days of USECS_PER_DAY (spec.md section 2): the int64 day sum of     *)
(* interval_cmp_value does not overflow, as its comment claims (line 736), *)
(* and the day fraction is kept.                                           *)
(* The reference is the sign of (D days) * USECS_PER_DAY + T for the       *)
(* differences D of the day counts and T of the times, in exact            *)
(* arithmetic: beyond 2 * Int64Half \div USECS_PER_DAY days, D decides.   *)
LinearCompare(s1, s2) ==
  LET D == (s1.month * 30 + s1.day) - (s2.month * 30 + s2.day)
      T == s1.time - s2.time
      thr == (2 * Int64Half) \div USECS_PER_DAY
  IN  IF D > thr THEN 1 ELSE IF D < -thr THEN -1 ELSE Sign(D * USECS_PER_DAY + T)
IntervalCmpExactStep ==
  CallStep("interval_cmp") => cmp' = LinearCompare(iv, last'.arg.iv)
IntervalCmpExact == [][IntervalCmpExactStep]_iovars

=============================================================================
