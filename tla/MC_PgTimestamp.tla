--------------------------- MODULE MC_PgTimestamp ---------------------------
(***************************************************************************)
(* PgTimestamp at scaled widths: a C int of 24 bits, an int64 of 30 bits   *)
(* and 100 time units per day.  The end of the valid range, 16699-01-01,   *)
(* lies 911 units below the int64 maximum, as 294277-01-01 lies just below *)
(* it at full width, and the Julian days up to 18255-02 fit the C int.     *)
(***************************************************************************)
EXTENDS PgTimestamp

MC_IntHalf == 2^23
MC_Int64Half == 2^29
MC_USECS_PER_DAY == 100
MC_POSTGRES_EPOCH_JDATE == 2451545
MC_TIMESTAMP_END_JULIAN == 7820245
MC_JULIAN_MAXYEAR == 18255
MC_JULIAN_MAXMONTH == 2

(* 2000-01-01, 1999-12-31 at the last unit, 2000-01-31 noon, 2001-03-31,   *)
(* the first and the last valid timestamps, and the two sentinels.         *)
MC_TsInputs ==
  {0, -1, 30 * 100 + 50, 455 * 100, MIN_TIMESTAMP, END_TIMESTAMP - 1,
   DT_NOBEGIN, DT_NOEND}

Iv(m, d, t) == [month |-> m, day |-> d, time |-> t]

(* One month, day and unit each way, twelve and thirteen months back, a   *)
(* day as time, and the extreme values of every field.                     *)
MC_IvInputs ==
  {Iv(0, 0, 0), Iv(1, 0, 0), Iv(-1, 0, 0), Iv(-12, 0, 0), Iv(-13, 0, 0),
   Iv(0, 1, 0), Iv(0, -1, 0), Iv(0, 0, 100), Iv(0, 0, -1), Iv(1, 1, 1),
   Iv(2^23 - 1, 0, 0), Iv(-2^23, 0, 0), Iv(0, 2^23 - 1, 0), Iv(0, -2^23, 0),
   Iv(0, 0, 2^29 - 1), Iv(0, 0, -2^29)}

MC_MaxCalls == 3

=============================================================================
