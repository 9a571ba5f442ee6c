---------------------------- MODULE MC_SupportFn ----------------------------
(* The support function for one type of each family, the base and box     *)
(* types its functions take, and four names: two intersects variants, the  *)
(* radius function dwithin, and a name in no array.                       *)
EXTENDS SupportFn

MC_TypeInputs ==
  {"tbool", "tint", "tgeompoint", "tnpoint", "geometry", "stbox", "float8"}
MC_NameInputs == {"intersectsperiod", "ever_eq", "disjoint", "dwithin", "unsupported"}
=============================================================================
