--------------------------- MODULE MC_PgTimestampIO ---------------------------
(***************************************************************************)
(* PgTimestampIO at the scaled widths of MC_PgTimestamp.  A day is 100     *)
(* units, so the rounding scales are divisors of the day, as the powers of *)
(* ten of the microsecond divide the day at full width, and each offset is *)
(* half its scale; END_TIMESTAMP is then a multiple of every scale.        *)
(***************************************************************************)
EXTENDS PgTimestampIO, MC_PgTimestamp

MC_MAX_TIMESTAMP_PRECISION == 6
MC_TimestampScales ==
  [p \in 0..6 |-> <<100, 50, 20, 10, 4, 2, 1>>[p + 1]]

Tm(y, m, d, tod) == [year |-> y, mon |-> m, mday |-> d, tod |-> tod]

(* The last unit before END_TIMESTAMP, a half day after the epoch and just *)
(* before it (ties), a unit after MIN_TIMESTAMP, and the first day past    *)
(* the valid range.                                                        *)
MC_TmInputs ==
  {Tm(16698, 12, 31, 99), Tm(2000, 1, 1, 50), Tm(1999, 12, 31, 75),
   Tm(-4713, 11, 24, 1), Tm(16699, 1, 1, 0)}

(* No typmod, whole days, a middle precision, full precision, and one out  *)
(* of range.                                                               *)
MC_TypmodInputs == {-1, 0, 1, 4, 6, 7}

MC_IO_MaxCalls == 2

=============================================================================
