------------------------------ MODULE MC_PgHash -------------------------------
(* Thirty-bit words; int8 values at the ends of the int4 and int8 ranges   *)
(* and one past them; seeds zero and nonzero in each half; both zeros, two *)
(* NaN patterns and two ordinary floats.                                   *)
EXTENDS PgHash

MC_WordBits == 30
W8(h, l) == [hi |-> h, lo |-> l]
MC_Int8Inputs ==
  LET m == 2 ^ 30
      h == 2 ^ 29
  IN  {W8(0, 0), W8(0, 1), W8(-1, m - 1), W8(0, h - 1), W8(-1, h), W8(0, h),
       W8(-1, h - 1), W8(h - 1, m - 1), W8(-h, 0), W8(1, 0)}
MC_Int4Inputs == {0, 1, -1, 2 ^ 29 - 1, -(2 ^ 29)}
MC_SeedInputs == {W8(0, 0), W8(0, 1), W8(1, 0)}
F8(c, b) == [cls |-> c, bits |-> b]
MC_Float8Inputs ==
  {F8("zero", 0), F8("negzero", 1), F8("nan", 2), F8("nan", 3), F8("num", 4), F8("num", 5)}
MC_CanonicalNaN == F8("nan", 2)
MC_MaxHashes == 2
=============================================================================
