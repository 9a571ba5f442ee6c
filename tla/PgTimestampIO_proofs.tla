------------------------- MODULE PgTimestampIO_proofs -------------------------
(***************************************************************************)
(* Proofs about PgTimestampIO for every value of its constants: the typmod *)
(* rounding of timestamp_in_common is to the nearest multiple of the scale *)
(* with halves away from zero, and pg_interval_cmp orders intervals by     *)
(* their exact length with months of 30 days.                              *)
(***************************************************************************)
EXTENDS PgTimestampIO, PgTimestamp_proofs, TLAPS

-----------------------------------------------------------------------------
(* Rounding.                                                               *)

(* A multiple of s leaves no remainder.                                    *)
LEMMA MultipleMod ==
  ASSUME NEW q \in Int, NEW s \in Nat \ {0}
  PROVE  (q * s) % s = 0 /\ (-(q * s)) % s = 0
<1>1. (q * s) % s = 0
  BY Z3
<1>2. (-(q * s)) % s = 0
  <2>1. -(q * s) = (-q) * s
    OBVIOUS
  <2>. QED  BY <2>1, Z3
<1>. QED  BY <1>1, <1>2

(* Rounding a natural number u up from u + s \div 2 to a multiple q * s   *)
(* of s moves it by at most half of s, and a move of exactly half is      *)
(* upwards.                                                                *)
LEMMA RoundNat ==
  ASSUME NEW u \in Nat, NEW s \in Nat \ {0}, NEW q, q = (u + s \div 2) \div s
  PROVE  /\ q \in Nat
         /\ q * s <= u + s \div 2
         /\ 2 * Dist(q * s, u) <= s
         /\ 2 * Dist(q * s, u) = s => q * s > u
<1> DEFINE o == s \div 2
<1>1. o \in Nat /\ 2 * o \in {s - 1, s}
  OBVIOUS
<1>2. q \in Nat /\ (u + o) % s \in 0 .. s - 1 /\ u + o = s * q + ((u + o) % s)
  <2>1. u + o \in Nat /\ q = (u + o) \div s
    BY <1>1 DEF o
  <2>. QED  BY <2>1, DivModNat
<1>3. q * s <= u + o /\ u + o < q * s + s
  BY <1>2
<1>4. 2 * (q * s - u) <= s /\ 2 * (u - q * s) < s
  BY <1>1, <1>3
<1>. QED  BY <1>2, <1>3, <1>4 DEF Dist

(* A value of the width is its own wrap.                                   *)
LEMMA WrapId ==
  ASSUME NEW half \in Nat \ {0}, NEW x \in -half .. half - 1
  PROVE  Wrap(x, half) = x
BY DEF Wrap

(* The scale and the offset of a typmod below the full precision.         *)
LEMMA ScaleBounds ==
  ASSUME NEW p \in 0 .. MAX_TIMESTAMP_PRECISION
  PROVE  /\ TimestampScales[p] \in Nat \ {0}
         /\ TimestampScales[p] <= USECS_PER_DAY
         /\ TimestampOffsets[p] = TimestampScales[p] \div 2
BY TypmodAssumption DEF TimestampOffsets

(* The room around the valid range: a valid timestamp plus or minus a day  *)
(* is an int64.                                                            *)
LEMMA ValidRoom ==
  ASSUME NEW t \in Int, IS_VALID_TIMESTAMP(t)
  PROVE  /\ t + USECS_PER_DAY < Int64Half
         /\ -t + USECS_PER_DAY < Int64Half
<1>1. t < END_TIMESTAMP /\ -t <= POSTGRES_EPOCH_JDATE * USECS_PER_DAY
  BY CalendarAssumption, WidthAssumption DEF IS_VALID_TIMESTAMP, MIN_TIMESTAMP
<1>2. POSTGRES_EPOCH_JDATE * USECS_PER_DAY + USECS_PER_DAY < Int64Half
  <2>1. (POSTGRES_EPOCH_JDATE + 1) * USECS_PER_DAY
          = POSTGRES_EPOCH_JDATE * USECS_PER_DAY + USECS_PER_DAY
    BY CalendarAssumption, WidthAssumption
  <2>. QED  BY <2>1, RoomAssumption
<1>3. END_TIMESTAMP + USECS_PER_DAY < Int64Half
  BY RoomAssumption
<1>4. END_TIMESTAMP \in Int /\ POSTGRES_EPOCH_JDATE * USECS_PER_DAY \in Int
  BY CalendarAssumption, WidthAssumption DEF END_TIMESTAMP
<1>. QED  BY <1>1, <1>2, <1>3, <1>4, WidthAssumption

(* The rounding expression of lines 366-376 for a scale s and the offset  *)
(* s \div 2, on an integer t with a scale of room on both sides: the      *)
(* nearest multiple of s, halves away from zero, and no wrap.             *)
LEMMA RoundExpr ==
  ASSUME NEW t \in Int, NEW s \in Nat \ {0}, NEW o \in Int, o = s \div 2,
         t + s < Int64Half, -t + s < Int64Half,
         NEW v, v = IF t >= 0 THEN CDiv(WrapInt64(t + o), s) * s
                    ELSE WrapInt64(-(CDiv(WrapInt64(-t + o), s) * s))
  PROVE  v \in Int64 /\ RoundsNearest(v, t, s)
<1>0. Int64Half \in Nat \ {0} /\ o \in 0 .. s
  BY WidthAssumption
<1>1. CASE t >= 0
  <2>0. PICK q \in Int : q = (t + s \div 2) \div s
    OBVIOUS
  <2>1. WrapInt64(t + o) = t + o
    BY <1>0, <1>1, WrapId DEF WrapInt64
  <2>2. CDiv(t + o, s) = q
    BY <1>0, <1>1, <2>0 DEF CDiv
  <2>3. /\ q \in Nat /\ q * s <= t + s \div 2
        /\ 2 * Dist(q * s, t) <= s
        /\ 2 * Dist(q * s, t) = s => q * s > t
    <3>1. t \in Nat
      BY <1>1
    <3>. QED  BY <3>1, <2>0, RoundNat
  <2>4. (q * s) % s = 0
    BY <2>3, MultipleMod
  <2>5. q * s \in Int64
    BY <1>0, <2>3 DEF Int64
  <2>. QED  BY <1>1, <2>1, <2>2, <2>3, <2>4, <2>5 DEF Dist, RoundsNearest
<1>2. CASE t < 0
  <2>0. PICK q \in Int : q = (-t + s \div 2) \div s
    OBVIOUS
  <2>1. WrapInt64(-t + o) = -t + o
    BY <1>0, <1>2, WrapId DEF WrapInt64
  <2>2. CDiv(-t + o, s) = q
    BY <1>0, <1>2, <2>0 DEF CDiv
  <2>3. /\ q \in Nat /\ q * s <= -t + s \div 2
        /\ 2 * Dist(q * s, -t) <= s
        /\ 2 * Dist(q * s, -t) = s => q * s > -t
    <3>1. -t \in Nat
      BY <1>2
    <3>. QED  BY <3>1, <2>0, RoundNat
  <2>4. WrapInt64(-(q * s)) = -(q * s)
    BY <1>0, <2>3, WrapId DEF WrapInt64
  <2>5. (-(q * s)) % s = 0
    BY <2>3, MultipleMod
  <2>6. -(q * s) \in Int64
    BY <1>0, <2>3 DEF Int64
  <2>7. /\ 2 * Dist(-(q * s), t) <= s
        /\ 2 * Dist(-(q * s), t) = s => Dist(-(q * s), 0) > Dist(t, 0)
    BY <1>2, <2>3 DEF Dist
  <2>. QED  BY <1>2, <2>1, <2>2, <2>4, <2>5, <2>6, <2>7 DEF RoundsNearest
<1>. QED  BY <1>1, <1>2

(* A valid timestamp is not a sentinel.                                    *)
LEMMA ValidFinite ==
  ASSUME NEW t \in Int, IS_VALID_TIMESTAMP(t)
  PROVE  ~TIMESTAMP_NOT_FINITE(t)
<1>1. t + USECS_PER_DAY < Int64Half /\ -t + USECS_PER_DAY < Int64Half
  BY ValidRoom
<1>. QED  BY <1>1, WidthAssumption DEF TIMESTAMP_NOT_FINITE, DT_NOBEGIN, DT_NOEND

(* AdjustTimestampForTypmodError on a valid timestamp and a typmod in      *)
(* 0..MAX_TIMESTAMP_PRECISION returns the nearest multiple of the scale.   *)
LEMMA AdjustNearest ==
  ASSUME NEW t \in Int, IS_VALID_TIMESTAMP(t), NEW p \in 0 .. MAX_TIMESTAMP_PRECISION
  PROVE  /\ AdjustTimestampForTypmodError(t, p).ok
         /\ AdjustTimestampForTypmodError(t, p).val \in Int64
         /\ RoundsNearest(AdjustTimestampForTypmodError(t, p).val, t, TimestampScales[p])
<1>0. ~TIMESTAMP_NOT_FINITE(t) /\ t \in Int64
  BY ValidFinite, ValidIsInt64
<1>1. CASE p = MAX_TIMESTAMP_PRECISION
  <2>1. TimestampScales[p] = 1 /\ t % 1 = 0
    BY <1>1, TypmodAssumption
  <2>. QED  BY <1>0, <1>1, <2>1 DEF AdjustTimestampForTypmodError, Ok, Dist, RoundsNearest
<1>2. CASE p # MAX_TIMESTAMP_PRECISION
  <2>1. /\ TimestampScales[p] \in Nat \ {0}
        /\ TimestampScales[p] <= USECS_PER_DAY
        /\ TimestampOffsets[p] = TimestampScales[p] \div 2
    BY ScaleBounds
  <2>2. t + USECS_PER_DAY < Int64Half /\ -t + USECS_PER_DAY < Int64Half
    BY ValidRoom
  <2>3. t + TimestampScales[p] < Int64Half /\ -t + TimestampScales[p] < Int64Half
    BY <2>1, <2>2, WidthAssumption
  <2>4. TimestampOffsets[p] \in Int
    BY <2>1
  <2>5. /\ ~(TIMESTAMP_NOT_FINITE(t) \/ p = -1 \/ p = MAX_TIMESTAMP_PRECISION)
        /\ ~(p < 0 \/ p > MAX_TIMESTAMP_PRECISION)
    BY <1>0, <1>2, TypmodAssumption
  <2>6. AdjustTimestampForTypmodError(t, p)
          = Ok(IF t >= 0
               THEN CDiv(WrapInt64(t + TimestampOffsets[p]), TimestampScales[p])
                      * TimestampScales[p]
               ELSE WrapInt64(-(CDiv(WrapInt64(-t + TimestampOffsets[p]),
                                     TimestampScales[p]) * TimestampScales[p])))
    BY <2>5, Zenon DEF AdjustTimestampForTypmodError
  <2>7. PICK v : v = IF t >= 0
                     THEN CDiv(WrapInt64(t + TimestampOffsets[p]), TimestampScales[p])
                            * TimestampScales[p]
                     ELSE WrapInt64(-(CDiv(WrapInt64(-t + TimestampOffsets[p]),
                                           TimestampScales[p]) * TimestampScales[p]))
    OBVIOUS
  <2>8. v \in Int64 /\ RoundsNearest(v, t, TimestampScales[p])
    BY <2>1, <2>3, <2>4, <2>7, RoundExpr
  <2>. QED  BY <2>6, <2>7, <2>8 DEF Ok
<1>. QED  BY <1>1, <1>2

(* On a timestamp of the caller's type, the rounding fails or returns an   *)
(* int64.                                                                  *)
LEMMA AdjustType ==
  ASSUME NEW t, GoodTs(t), NEW p \in Int
  PROVE  /\ AdjustTimestampForTypmodError(t, p).ok \in BOOLEAN
         /\ AdjustTimestampForTypmodError(t, p).ok
              => AdjustTimestampForTypmodError(t, p).val \in Int64
<1>1. CASE TIMESTAMP_NOT_FINITE(t) \/ p = -1 \/ p = MAX_TIMESTAMP_PRECISION
  BY <1>1 DEF AdjustTimestampForTypmodError, Ok, GoodTs
<1>2. CASE ~(TIMESTAMP_NOT_FINITE(t) \/ p = -1 \/ p = MAX_TIMESTAMP_PRECISION)
           /\ (p < 0 \/ p > MAX_TIMESTAMP_PRECISION)
  BY <1>2 DEF AdjustTimestampForTypmodError, Err
<1>3. CASE ~(TIMESTAMP_NOT_FINITE(t) \/ p = -1 \/ p = MAX_TIMESTAMP_PRECISION)
           /\ p \in 0 .. MAX_TIMESTAMP_PRECISION
  <2>1. t \in Int /\ IS_VALID_TIMESTAMP(t)
    BY <1>3 DEF GoodTs, Int64
  <2>. QED  BY <2>1, <1>3, AdjustNearest
<1>. QED  BY <1>1, <1>2, <1>3, TypmodAssumption

(* What the parse hands to the rounding: an error, a valid timestamp or a  *)
(* sentinel.                                                               *)
LEMMA ParsedResult ==
  ASSUME NEW dtype \in DTypes, NEW tm \in TmInputs
  PROVE  /\ ParsedTimestamp(dtype, tm) \in IntResult
         /\ ParsedTimestamp(dtype, tm).ok => GoodTs(ParsedTimestamp(dtype, tm).val)
         /\ ~ParsedTimestamp(dtype, tm).ok => ParsedTimestamp(dtype, tm).val = 0
<1>1. tm \in TmType /\ [year |-> 1970, mon |-> 1, mday |-> 1, tod |-> 0] \in TmType
  BY TypmodAssumption DEF TmType
<1>2. /\ tm2timestamp(tm) \in IntResult
      /\ tm2timestamp(tm).ok => GoodTs(tm2timestamp(tm).val)
      /\ ~tm2timestamp(tm).ok => tm2timestamp(tm).val = 0
  <2>1. ~tm2timestamp(tm).ok => tm2timestamp(tm).val = 0
    BY DEF tm2timestamp, Err, Ok
  <2>. QED  BY <1>1, <2>1, Tm2TimestampResult, ValidIsInt64 DEF GoodTs, IntResult
<1>3. GoodTs(DT_NOEND) /\ GoodTs(DT_NOBEGIN)
  BY WidthAssumption DEF GoodTs, Int64, TIMESTAMP_NOT_FINITE, DT_NOEND, DT_NOBEGIN
<1>4. GoodTs(SetEpochTimestamp)
  <2>. DEFINE e == tm2timestamp([year |-> 1970, mon |-> 1, mday |-> 1, tod |-> 0])
  <2>1. e \in IntResult /\ (e.ok => IS_VALID_TIMESTAMP(e.val))
    BY <1>1, Tm2TimestampResult DEF e
  <2>2. IS_VALID_TIMESTAMP(0)
    <3>1. POSTGRES_EPOCH_JDATE * USECS_PER_DAY \in Nat
      BY CalendarAssumption, WidthAssumption
    <3>2. (TIMESTAMP_END_JULIAN - POSTGRES_EPOCH_JDATE) * USECS_PER_DAY > 0
      BY CalendarAssumption, WidthAssumption
    <3>3. MIN_TIMESTAMP = -(POSTGRES_EPOCH_JDATE * USECS_PER_DAY)
      BY CalendarAssumption, WidthAssumption DEF MIN_TIMESTAMP
    <3>. QED  BY <3>1, <3>2, <3>3 DEF IS_VALID_TIMESTAMP, END_TIMESTAMP
  <2>3. ~e.ok => e.val = 0
    BY DEF e, tm2timestamp, Err, Ok
  <2>4. IS_VALID_TIMESTAMP(e.val) /\ e.val \in Int
    BY <2>1, <2>2, <2>3 DEF IntResult
  <2>. QED  BY <2>4, ValidIsInt64 DEF GoodTs, SetEpochTimestamp, e
<1>5. CASE dtype = "invalid"
  BY <1>5 DEF ParsedTimestamp, IntResult, Err
<1>6. CASE dtype = "date"
  BY <1>2, <1>6 DEF ParsedTimestamp
<1>7. CASE dtype = "epoch"
  BY <1>4, <1>7 DEF ParsedTimestamp, IntResult, Ok, GoodTs, Int64
<1>8. CASE dtype = "late"
  BY <1>3, <1>8 DEF ParsedTimestamp, IntResult, Ok, GoodTs, Int64
<1>9. CASE dtype = "early"
  BY <1>3, <1>9 DEF ParsedTimestamp, IntResult, Ok, GoodTs, Int64
<1>. QED  BY <1>5, <1>6, <1>7, <1>8, <1>9 DEF DTypes

-----------------------------------------------------------------------------
(* The caller's registers keep their types.                                *)

(* A call that returns a value of the register's type keeps TypeOK; the    *)
(* timestamp need not be valid (see the run typmod_rounds_past_end).       *)
LEMMA CallKeepsType ==
  ASSUME TypeOK, NEW op \in Ops, NEW arg \in [iv : Interval, ts : Int64],
         NEW r, NEW onTs \in BOOLEAN,
         r.ok \in BOOLEAN,
         r.ok /\ onTs => r.val \in Int64,
         r.ok /\ ~onTs => r.val \in Interval,
         Call(op, arg, r, onTs)
  PROVE  TypeOK'
<1>1. calls' \in 0 .. MaxCalls
  BY BoundAssumption DEF Call, TypeOK
<1>2. last' \in [op : Ops, arg : [iv : Interval, ts : Int64], ok : BOOLEAN]
  BY DEF Call
<1>3. ts' \in Int64 /\ iv' \in Interval
  BY DEF Call, TypeOK
<1>. QED  BY <1>1, <1>2, <1>3 DEF TypeOK

(* The steps of the arithmetic model keep TypeOK on any int64 timestamp.   *)
LEMMA NextKeepsType ==
  ASSUME TypeOK, [Next]_vars
  PROVE  TypeOK'
<1>0. /\ ts \in Int64 /\ iv \in Interval
      /\ NoArg \in [iv : Interval, ts : Int64]
  BY WidthAssumption DEF TypeOK, NoArg, Interval, Int32, Int64
<1>1. CASE IntervalPl
  <2>1. PICK s2 \in IvInputs :
          Call("interval_pl", IvArg(s2), pg_interval_pl(iv, s2), FALSE)
    BY <1>1 DEF IntervalPl
  <2>2. s2 \in Interval /\ IvArg(s2) \in [iv : Interval, ts : Int64]
    BY <1>0, InputTypes DEF IvArg, NoArg
  <2>. QED  BY <1>0, <2>1, <2>2, IntervalPlResult, CallKeepsType DEF Ops
<1>2. CASE TimestampPlInterval
  <2>1. LET r == pg_timestamp_pl_interval(ts, iv)
        IN  r.ok \in BOOLEAN /\ (r.ok => r.val \in Int64)
    BY <1>0, PlIntervalResult
  <2>. QED  BY <1>0, <1>2, <2>1, CallKeepsType DEF TimestampPlInterval, Ops
<1>3. CASE TimestampMiInterval
  <2>1. LET r == pg_timestamp_mi_interval(ts, iv)
        IN  r.ok \in BOOLEAN /\ (r.ok => r.val \in Int64)
    BY <1>0, MiIntervalResult
  <2>. QED  BY <1>0, <1>3, <2>1, CallKeepsType DEF TimestampMiInterval, Ops
<1>4. CASE TimestampMi
  <2>1. PICK t2 \in TsInputs :
          Call("timestamp_mi", TsArg(t2), pg_timestamp_mi(ts, t2), FALSE)
    BY <1>4 DEF TimestampMi
  <2>2. t2 \in Int64 /\ TsArg(t2) \in [iv : Interval, ts : Int64]
    BY <1>0, InputTypes DEF TsArg, NoArg, GoodTs
  <2>. QED  BY <1>0, <2>1, <2>2, TimestampMiResult, CallKeepsType DEF Ops
<1>5. CASE Done \/ UNCHANGED vars
  BY <1>5 DEF Done, vars, TypeOK
<1>. QED  BY <1>1, <1>2, <1>3, <1>4, <1>5 DEF Next

(* pg_interval_cmp returns -1, 0 or 1.                                     *)
LEMMA CmpRange ==
  ASSUME NEW s1 \in Interval, NEW s2 \in Interval
  PROVE  pg_interval_cmp(s1, s2) \in {-1, 0, 1}
BY DEF pg_interval_cmp, int128_compare, Sign

(* The initial states are well typed.                                      *)
THEOREM InitIOTypeOK == IOInit => IOTypeOK
<1> SUFFICES ASSUME IOInit PROVE IOTypeOK
  OBVIOUS
<1>. QED  BY InitIInv DEF IOInit, IInv, IOTypeOK

(* Every step of the caller, the timestamp_in calls that can round a       *)
(* timestamp past END_TIMESTAMP included, keeps the registers' types.      *)
THEOREM NextIOTypeOK == IOTypeOK /\ [IONext]_iovars => IOTypeOK'
<1> SUFFICES ASSUME IOTypeOK, [IONext]_iovars PROVE IOTypeOK'
  OBVIOUS
<1>1. CASE Next /\ UNCHANGED <<typmod, cmp>>
  BY <1>1, NextKeepsType DEF IOTypeOK
<1>2. CASE TimestampIn
  <2>1. PICK dtype \in DTypes, tm \in TmInputs, tmod \in TypmodInputs :
          InCall(ParsedTimestamp(dtype, tm), tmod,
                 timestamp_in_common(ParsedTimestamp(dtype, tm), tmod))
    BY <1>2 DEF TimestampIn
  <2>. DEFINE parsed == ParsedTimestamp(dtype, tm)
              r == timestamp_in_common(parsed, tmod)
  <2>2. parsed \in IntResult /\ (parsed.ok => GoodTs(parsed.val))
    BY ParsedResult DEF parsed
  <2>3. parsed.val \in Int64
    <3>1. ~parsed.ok => parsed.val = 0
      BY ParsedResult DEF parsed
    <3>. QED  BY <2>2, <3>1, WidthAssumption DEF IntResult, GoodTs, Int64
  <2>4. r.ok \in BOOLEAN /\ (r.ok => r.val \in Int64)
    <3>1. CASE parsed.ok
      BY <2>2, <3>1, TypmodAssumption, AdjustType DEF r, timestamp_in_common
    <3>2. CASE ~parsed.ok
      BY <3>2 DEF r, timestamp_in_common, Err
    <3>. QED  BY <3>1, <3>2
  <2>5. TsArg(parsed.val) \in [iv : Interval, ts : Int64]
    BY <2>3, WidthAssumption DEF TsArg, NoArg, Interval, Int32, Int64
  <2>6. calls' \in 0 .. MaxCalls /\ ts' \in Int64 /\ iv' \in Interval
    BY <2>1, <2>4, BoundAssumption DEF InCall, r, parsed, IOTypeOK, TypeOK
  <2>7. last' \in [op : Ops, arg : [iv : Interval, ts : Int64], ok : BOOLEAN]
    BY <2>1, <2>4, <2>5 DEF InCall, r, parsed, Ops
  <2>. QED  BY <2>1, <2>6, <2>7, TypmodAssumption DEF InCall, IOTypeOK, TypeOK
<1>3. CASE IntervalCmp
  <2>1. PICK s2 \in IvInputs :
          /\ calls < MaxCalls
          /\ calls' = calls + 1
          /\ cmp' = pg_interval_cmp(iv, s2)
          /\ last' = [op |-> "interval_cmp", arg |-> IvArg(s2), ok |-> TRUE]
          /\ UNCHANGED <<ts, iv, typmod>>
    BY <1>3 DEF IntervalCmp
  <2>2. s2 \in Interval /\ iv \in Interval
    BY InputTypes DEF IOTypeOK, TypeOK
  <2>3. IvArg(s2) \in [iv : Interval, ts : Int64]
    BY <2>2, WidthAssumption DEF IvArg, NoArg, Int64
  <2>. QED  BY <2>1, <2>2, <2>3, CmpRange, BoundAssumption DEF IOTypeOK, TypeOK, Ops
<1>4. CASE UNCHANGED iovars
  BY <1>4 DEF iovars, IOTypeOK, TypeOK
<1>. QED  BY <1>1, <1>2, <1>3, <1>4 DEF IONext

(* The registers keep their C types in every state of the caller.          *)
THEOREM IOTypeCorrect == IOSpec => []IOTypeOK
BY InitIOTypeOK, NextIOTypeOK, PTL DEF IOSpec

-----------------------------------------------------------------------------
(* The typmod rounding.                                                    *)

(* A step recorded as a timestamp_in call is a TimestampIn step, and one   *)
(* recorded as an interval_cmp call is an IntervalCmp step.                *)
LEMMA CallKinds ==
  ASSUME IOTypeOK, [IONext]_iovars
  PROVE  /\ CallStep("timestamp_in") => TimestampIn
         /\ CallStep("interval_cmp") => IntervalCmp
<1>1. calls \in Nat
  BY BoundAssumption DEF IOTypeOK, TypeOK
<1>. QED  BY <1>1 DEF IONext, Next, IntervalPl, TimestampPlInterval,
               TimestampMiInterval, TimestampMi, Call, Done, vars, iovars,
               TimestampIn, InCall, IntervalCmp, CallStep

(* Every step satisfies TypmodRoundsNearestStep.                           *)
LEMMA RoundsNearestStep ==
  ASSUME IOTypeOK, [IONext]_iovars
  PROVE  TypmodRoundsNearestStep
<1>1. CASE TimestampIn
  <2>1. PICK dtype \in DTypes, tm \in TmInputs, tmod \in TypmodInputs :
          InCall(ParsedTimestamp(dtype, tm), tmod,
                 timestamp_in_common(ParsedTimestamp(dtype, tm), tmod))
    BY <1>1 DEF TimestampIn
  <2>. DEFINE parsed == ParsedTimestamp(dtype, tm)
              r == timestamp_in_common(parsed, tmod)
  <2>2. SUFFICES ASSUME r.ok, tmod \in 0 .. MAX_TIMESTAMP_PRECISION,
                        ~TIMESTAMP_NOT_FINITE(parsed.val)
                 PROVE  RoundsNearest(r.val, parsed.val, TimestampScales[tmod])
    BY <2>1 DEF TypmodRoundsNearestStep, InCall, TsArg, NoArg, r, parsed
  <2>3. parsed.ok
    BY <2>2 DEF r, timestamp_in_common, Err
  <2>4. parsed.val \in Int /\ IS_VALID_TIMESTAMP(parsed.val)
    BY <2>2, <2>3, ParsedResult DEF parsed, GoodTs, Int64
  <2>5. r = AdjustTimestampForTypmodError(parsed.val, tmod)
    BY <2>3 DEF r, timestamp_in_common
  <2>. QED  BY <2>2, <2>4, <2>5, AdjustNearest
<1>2. CASE ~TimestampIn
  <2>1. ~CallStep("timestamp_in")
    BY <1>2, CallKinds
  <2>. QED  BY <2>1 DEF TypmodRoundsNearestStep
<1>. QED  BY <1>1, <1>2

(* pg_timestamp_in rounds every finite timestamp it reads with a typmod    *)
(* below the full precision to the nearest multiple of the typmod's scale, *)
(* halves away from zero (AdjustTimestampForTypmodError, lines 366-376).   *)
THEOREM TypmodRounding == IOSpec => TypmodRoundsNearest
<1>1. IOTypeOK /\ [IONext]_iovars => [TypmodRoundsNearestStep]_iovars
  BY RoundsNearestStep
<1>. QED  BY <1>1, IOTypeCorrect, PTL DEF IOSpec, TypmodRoundsNearest

-----------------------------------------------------------------------------
(* The interval comparison.                                                *)

(* The whole days of an int64 time lie within Int64Half \div USECS_PER_DAY *)
(* of zero, and its day fraction within a day.                             *)
LEMMA DaySplit ==
  ASSUME NEW x \in Int64
  PROVE  /\ CDiv(x, USECS_PER_DAY) \in -(Int64Half \div USECS_PER_DAY) .. Int64Half \div USECS_PER_DAY
         /\ CMod(x, USECS_PER_DAY) \in -(USECS_PER_DAY - 1) .. USECS_PER_DAY - 1
         /\ CDiv(x, USECS_PER_DAY) * USECS_PER_DAY + CMod(x, USECS_PER_DAY) = x
<1>0. x \in -Int64Half .. Int64Half - 1 /\ Int64Half \in Nat /\ USECS_PER_DAY \in Nat \ {0}
  BY WidthAssumption DEF Int64
<1>1. CDiv(x, USECS_PER_DAY) * USECS_PER_DAY + CMod(x, USECS_PER_DAY) = x
  BY <1>0, CDivMod DEF CMod
<1>a. x \in Int
  BY <1>0
<1>b. /\ x >= 0 => /\ CMod(x, USECS_PER_DAY) \in 0 .. USECS_PER_DAY - 1
                   /\ CDiv(x, USECS_PER_DAY) \in 0 .. x \div USECS_PER_DAY
      /\ x < 0 => /\ CMod(x, USECS_PER_DAY) \in -(USECS_PER_DAY - 1) .. 0
                  /\ CDiv(x, USECS_PER_DAY) \in -((-x) \div USECS_PER_DAY) .. 0
  BY <1>0, <1>a, CDivMod
<1>2. CASE x >= 0
  <2>1. x \div USECS_PER_DAY <= Int64Half \div USECS_PER_DAY
    BY <1>0, <1>2, DivMono
  <2>2. /\ CMod(x, USECS_PER_DAY) \in 0 .. USECS_PER_DAY - 1
        /\ CDiv(x, USECS_PER_DAY) \in 0 .. x \div USECS_PER_DAY
    BY <1>2, <1>b
  <2>. QED  BY <1>0, <1>1, <2>1, <2>2
<1>3. CASE x < 0
  <2>1. (-x) \div USECS_PER_DAY <= Int64Half \div USECS_PER_DAY
    BY <1>0, <1>3, DivMono
  <2>2. /\ CMod(x, USECS_PER_DAY) \in -(USECS_PER_DAY - 1) .. 0
        /\ CDiv(x, USECS_PER_DAY) \in -((-x) \div USECS_PER_DAY) .. 0
    BY <1>3, <1>b
  <2>. QED  BY <1>0, <1>1, <2>1, <2>2
<1>. QED  BY <1>0, <1>2, <1>3

(* The int64 sums of interval_cmp_value do not wrap (the claim of the      *)
(* comment at line 736): the pair holds the exact day count.               *)
LEMMA CmpValue ==
  ASSUME NEW s \in Interval
  PROVE  /\ interval_cmp_value(s).days
              = CDiv(s.time, USECS_PER_DAY) + s.month * 30 + s.day
         /\ interval_cmp_value(s).dayfraction = CMod(s.time, USECS_PER_DAY)
<1>. DEFINE q == CDiv(s.time, USECS_PER_DAY)
            B == Int64Half \div USECS_PER_DAY
<1>1. q \in -B .. B /\ B \in Nat
  BY DaySplit, WidthAssumption DEF Interval, q, B
<1>2. s.month \in -IntHalf .. IntHalf - 1 /\ s.day \in -IntHalf .. IntHalf - 1
  BY DEF Interval, Int32
<1>3. 31 * IntHalf + B < Int64Half /\ IntHalf \in Nat
  BY RoomAssumption, WidthAssumption DEF B
<1>4. q + s.month * 30 \in -Int64Half .. Int64Half - 1
  BY <1>1, <1>2, <1>3, WidthAssumption
<1>5. q + s.month * 30 + s.day \in -Int64Half .. Int64Half - 1
  BY <1>1, <1>2, <1>3, WidthAssumption
<1>6. WrapInt64(q + s.month * 30) = q + s.month * 30
  BY <1>4, WrapId, WidthAssumption DEF WrapInt64
<1>7. WrapInt64(q + s.month * 30 + s.day) = q + s.month * 30 + s.day
  BY <1>5, WrapId, WidthAssumption DEF WrapInt64
<1>. QED  BY <1>6, <1>7 DEF interval_cmp_value, q

(* int128_compare of two pairs whose fractions lie within a day is the     *)
(* sign of their exact difference.                                         *)
LEMMA CompareSign ==
  ASSUME NEW x, NEW y, x.days \in Int, y.days \in Int,
         x.dayfraction \in -(USECS_PER_DAY - 1) .. USECS_PER_DAY - 1,
         y.dayfraction \in -(USECS_PER_DAY - 1) .. USECS_PER_DAY - 1
  PROVE  int128_compare(x, y)
           = Sign((x.days - y.days) * USECS_PER_DAY + x.dayfraction - y.dayfraction)
<1>0. USECS_PER_DAY \in Nat \ {0}
  BY WidthAssumption
<1>1. CASE x.days - y.days > 1
  <2>1. (x.days - y.days) * USECS_PER_DAY >= 2 * USECS_PER_DAY
    BY <1>0, <1>1
  <2>. QED  BY <1>0, <1>1, <2>1 DEF int128_compare, Sign
<1>2. CASE x.days - y.days < -1
  <2>1. (x.days - y.days) * USECS_PER_DAY <= -2 * USECS_PER_DAY
    BY <1>0, <1>2
  <2>. QED  BY <1>0, <1>2, <2>1 DEF int128_compare, Sign
<1>3. CASE x.days - y.days \in -1 .. 1
  BY <1>3 DEF int128_compare
<1>. QED  BY <1>1, <1>2, <1>3

(* The thresholded reference is the sign of D * USECS_PER_DAY + T when T   *)
(* is the difference of two int64 values.                                  *)
LEMMA LinearSign ==
  ASSUME NEW D \in Int, NEW T \in -(2 * Int64Half - 1) .. 2 * Int64Half - 1
  PROVE  (IF D > (2 * Int64Half) \div USECS_PER_DAY THEN 1
          ELSE IF D < -((2 * Int64Half) \div USECS_PER_DAY) THEN -1
          ELSE Sign(D * USECS_PER_DAY + T))
         = Sign(D * USECS_PER_DAY + T)
<1>. DEFINE thr == (2 * Int64Half) \div USECS_PER_DAY
<1>0. USECS_PER_DAY \in Nat \ {0} /\ 2 * Int64Half \in Nat
  BY WidthAssumption
<1>1. thr \in Nat /\ (thr + 1) * USECS_PER_DAY > 2 * Int64Half
  <2>0. PICK n \in Nat : n = 2 * Int64Half
    BY <1>0
  <2>1. 2 * Int64Half = USECS_PER_DAY * thr + ((2 * Int64Half) % USECS_PER_DAY)
        /\ (2 * Int64Half) % USECS_PER_DAY \in 0 .. USECS_PER_DAY - 1 /\ thr \in Nat
    <3>1. /\ n \div USECS_PER_DAY \in Nat
          /\ n % USECS_PER_DAY \in 0 .. USECS_PER_DAY - 1
          /\ n = USECS_PER_DAY * (n \div USECS_PER_DAY) + (n % USECS_PER_DAY)
      BY <1>0, DivModNat
    <3>. QED  BY <2>0, <3>1, Zenon DEF thr
  <2>2. (thr + 1) * USECS_PER_DAY = USECS_PER_DAY * thr + USECS_PER_DAY
    BY <2>1, <1>0
  <2>. QED  BY <1>0, <2>1, <2>2
<1>2. CASE D > thr
  <2>0. (D - (thr + 1)) * USECS_PER_DAY >= 0
    BY <1>0, <1>1, <1>2
  <2>1. D * USECS_PER_DAY >= (thr + 1) * USECS_PER_DAY
    BY <1>0, <1>1, <2>0
  <2>2. D * USECS_PER_DAY + T > 0
    BY <1>0, <1>1, <2>1, WidthAssumption
  <2>3. Sign(D * USECS_PER_DAY + T) = 1
    BY <1>0, <2>2 DEF Sign
  <2>. QED  BY <1>2, <2>3, Zenon DEF thr
<1>3. CASE D < -thr
  <2>0. (-(thr + 1) - D) * USECS_PER_DAY >= 0
    BY <1>0, <1>1, <1>3
  <2>1. D * USECS_PER_DAY <= -((thr + 1) * USECS_PER_DAY)
    BY <1>0, <1>1, <2>0
  <2>2. D * USECS_PER_DAY + T < 0
    BY <1>0, <1>1, <2>1, WidthAssumption
  <2>3. ~(D > thr)
    BY <1>1, <1>3
  <2>4. Sign(D * USECS_PER_DAY + T) = -1
    BY <1>0, <2>2 DEF Sign
  <2>. QED  BY <1>3, <2>3, <2>4, Zenon DEF thr
<1>4. CASE D \in -thr .. thr
  BY <1>1, <1>4 DEF thr
<1>. QED  BY <1>1, <1>2, <1>3, <1>4

(* pg_interval_cmp agrees with the exact comparison of the lengths.        *)
LEMMA CmpExact ==
  ASSUME NEW s1 \in Interval, NEW s2 \in Interval
  PROVE  pg_interval_cmp(s1, s2) = LinearCompare(s1, s2)
<1>. DEFINE U == USECS_PER_DAY
            v1 == interval_cmp_value(s1)
            v2 == interval_cmp_value(s2)
            q1 == CDiv(s1.time, U)
            q2 == CDiv(s2.time, U)
            f1 == CMod(s1.time, U)
            f2 == CMod(s2.time, U)
<1>0. /\ U \in Nat \ {0} /\ Int64Half \in Nat
      /\ s1.time \in Int64 /\ s2.time \in Int64
      /\ s1.month \in Int /\ s1.day \in Int /\ s2.month \in Int /\ s2.day \in Int
  BY WidthAssumption DEF Interval, Int32, U
<1>1. /\ v1.days = q1 + s1.month * 30 + s1.day /\ v1.dayfraction = f1
      /\ v2.days = q2 + s2.month * 30 + s2.day /\ v2.dayfraction = f2
  BY CmpValue DEF v1, v2, q1, q2, f1, f2, U
<1>2. /\ q1 \in Int /\ f1 \in -(U - 1) .. U - 1 /\ q1 * U + f1 = s1.time
      /\ q2 \in Int /\ f2 \in -(U - 1) .. U - 1 /\ q2 * U + f2 = s2.time
  BY <1>0, DaySplit DEF q1, q2, f1, f2, U
<1>3. pg_interval_cmp(s1, s2) = Sign((v1.days - v2.days) * U + v1.dayfraction - v2.dayfraction)
  BY <1>0, <1>1, <1>2, CompareSign DEF pg_interval_cmp, v1, v2, U
<1>4. PICK D \in Int : D = (s1.month * 30 + s1.day) - (s2.month * 30 + s2.day)
  BY <1>0
<1>5. PICK T \in -(2 * Int64Half - 1) .. 2 * Int64Half - 1 : T = s1.time - s2.time
  BY <1>0 DEF Int64
<1>6. (v1.days - v2.days) * U + v1.dayfraction - v2.dayfraction = D * U + T
  <2>1. (v1.days - v2.days) * U = D * U + q1 * U - q2 * U
    BY <1>0, <1>1, <1>2, <1>4
  <2>. QED  BY <1>0, <1>1, <1>2, <1>5, <2>1
<1>7. LinearCompare(s1, s2) = Sign(D * U + T)
  <2>1. (IF D > (2 * Int64Half) \div U THEN 1
         ELSE IF D < -((2 * Int64Half) \div U) THEN -1
         ELSE Sign(D * U + T))
        = Sign(D * U + T)
    BY LinearSign DEF U
  <2>. QED  BY <1>4, <1>5, <2>1 DEF LinearCompare, U
<1>. QED  BY <1>3, <1>6, <1>7

(* Every step satisfies IntervalCmpExactStep.                              *)
LEMMA CmpExactStep ==
  ASSUME IOTypeOK, [IONext]_iovars
  PROVE  IntervalCmpExactStep
<1> SUFFICES ASSUME CallStep("interval_cmp") PROVE cmp' = LinearCompare(iv, last'.arg.iv)
  BY DEF IntervalCmpExactStep
<1>1. IntervalCmp
  BY CallKinds
<1>2. PICK s2 \in IvInputs :
        /\ cmp' = pg_interval_cmp(iv, s2)
        /\ last' = [op |-> "interval_cmp", arg |-> IvArg(s2), ok |-> TRUE]
  BY <1>1 DEF IntervalCmp
<1>3. s2 \in Interval /\ iv \in Interval /\ last'.arg.iv = s2
  BY <1>2, InputTypes DEF IOTypeOK, TypeOK, IvArg, NoArg
<1>. QED  BY <1>2, <1>3, CmpExact

(* pg_interval_cmp orders any two intervals as their exact lengths, months *)
(* of 30 days, compare: the int64 day sum of interval_cmp_value never      *)
(* wraps (the claim of line 736) and the day fraction decides the ties.    *)
THEOREM IntervalCmpCorrect == IOSpec => IntervalCmpExact
<1>1. IOTypeOK /\ [IONext]_iovars => [IntervalCmpExactStep]_iovars
  BY CmpExactStep
<1>. QED  BY <1>1, IOTypeCorrect, PTL DEF IOSpec, IntervalCmpExact
=============================================================================
