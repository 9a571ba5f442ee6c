------------------------------ MODULE SupportFn ------------------------------
(***************************************************************************)
(* The planner support function of the temporal types,                     *)
(* src/src/general/temporal_supportfn.c: temporal_supportfn_internal and   *)
(* the four entry points temporal_, tnumber_, tpoint_ and                  *)
(* tnpoint_supportfn that call it with their type family.                  *)
(*                                                                         *)
(* The planner calls the function synchronously: from an idle state it    *)
(* sends a request, and it takes the answer before the next request.  The *)
(* state is the request and the answer the function gave.  A request is a record of    *)
(* the inputs the code reads: the kind of request node, the shape of the  *)
(* clause (function call or binary operator), the name of the called      *)
(* function, the types of its arguments, which argument matches the index,*)
(* the access method of the index's operator family, and what the catalog *)
(* answers to the lookups the code makes (is the other side a pseudo      *)
(* constant, has the operator family a member for the types, is there an  *)
(* expandspatial function).  Types are names; talpha_type, tnumber_type    *)
(* and tgeo_type, which live outside src/, are the sets below.             *)
(***************************************************************************)
EXTENDS Integers, Sequences, SequencesExt

CONSTANTS
  TypeInputs,    \* type names the planner may pass as argument types
  NameInputs     \* names of functions that may carry the support function

Families == {"TEMPORALTYPE", "TNUMBERTYPE", "TPOINTTYPE", "TNPOINTTYPE"}

(* Type classes of MobilityDB (temporal_util.c, outside src/).             *)
TalphaTypes  == {"tbool", "ttext"}
TnumberTypes == {"tint", "tfloat"}
TgeoTypes    == {"tgeompoint", "tgeogpoint"}
FamilyTypes(f) ==
  CASE f = "TEMPORALTYPE" -> TalphaTypes
    [] f = "TNUMBERTYPE"  -> TnumberTypes
    [] f = "TPOINTTYPE"   -> TgeoTypes
    [] f = "TNPOINTTYPE"  -> {"tnpoint"}
TemporalTypes == UNION {FamilyTypes(f) : f \in Families}

(* PostgreSQL constants: stratnum.h and pg_am_d.h.                         *)
InvalidStrategy == 0
RTOverlapStrategyNumber == 3
AccessMethods == {"gist", "spgist", "btree"}

ASSUME InputAssumption ==
  /\ TypeInputs \cap TemporalTypes # {}
  /\ "float8" \in TypeInputs

-----------------------------------------------------------------------------
(* Static tables, lines 66-197.                                            *)

INTERSECTS_TIMESTAMP_IDX    == 0
INTERSECTS_TIMESTAMPSET_IDX == 1
INTERSECTS_PERIOD_IDX       == 2
INTERSECTS_PERIODSET_IDX    == 3
EVER_EQ_IDX                 == 4
ALWAYS_EQ_IDX               == 5
CONTAINS_IDX                == 6
DISJOINT_IDX                == 7
INTERSECTS_IDX              == 8
TOUCHES_IDX                 == 9
DWITHIN_IDX                 == 10

(* The strategy arrays.  A designated initializer sizes the array by its   *)
(* largest index and leaves the entries it skips zero (InvalidStrategy).   *)
TemporalStrategies == [i \in 0..INTERSECTS_PERIODSET_IDX |-> RTOverlapStrategyNumber]
TNumberStrategiesMutShort == [i \in 0..INTERSECTS_PERIODSET_IDX |-> RTOverlapStrategyNumber]
TNumberStrategies == [i \in 0..ALWAYS_EQ_IDX |-> RTOverlapStrategyNumber]
TPointStrategies == [i \in 0..DWITHIN_IDX |-> RTOverlapStrategyNumber]
TNPointStrategies ==
  [i \in 0..DWITHIN_IDX |->
     IF i \in {EVER_EQ_IDX, ALWAYS_EQ_IDX} THEN InvalidStrategy
     ELSE RTOverlapStrategyNumber]

IdxFn(name, index, nargs, expand) ==
  [fn_name |-> name, index |-> index, nargs |-> nargs, expand_arg |-> expand]

(* The zero-initialised idxfn of line 389.                                 *)
NullIdxFn == IdxFn("NULL", 0, 0, 0)

IntersectsTimeFns ==
  << IdxFn("intersectstimestamp", INTERSECTS_TIMESTAMP_IDX, 2, 0),
     IdxFn("intersectstimestampset", INTERSECTS_TIMESTAMPSET_IDX, 2, 0),
     IdxFn("intersectsperiod", INTERSECTS_PERIOD_IDX, 2, 0),
     IdxFn("intersectsperiodset", INTERSECTS_PERIODSET_IDX, 2, 0) >>
EverAlwaysFns ==
  << IdxFn("ever_eq", EVER_EQ_IDX, 2, 0), IdxFn("always_eq", ALWAYS_EQ_IDX, 2, 0) >>
(* Mutant: disjoint's entry copies dwithin's expand argument.              *)
SpatialRelFnsMutDisjointExpand ==
  << IdxFn("contains", CONTAINS_IDX, 2, 0), IdxFn("disjoint", DISJOINT_IDX, 2, 3),
     IdxFn("intersects", INTERSECTS_IDX, 2, 0), IdxFn("touches", TOUCHES_IDX, 2, 0),
     IdxFn("dwithin", DWITHIN_IDX, 3, 3) >>
SpatialRelFns ==
  << IdxFn("contains", CONTAINS_IDX, 2, 0), IdxFn("disjoint", DISJOINT_IDX, 2, 0),
     IdxFn("intersects", INTERSECTS_IDX, 2, 0), IdxFn("touches", TOUCHES_IDX, 2, 0),
     IdxFn("dwithin", DWITHIN_IDX, 3, 3) >>

TemporalIndexableFunctions == IntersectsTimeFns
TNumberIndexableFunctions  == IntersectsTimeFns \o EverAlwaysFns
TPointIndexableFunctions   == EverAlwaysFns \o IntersectsTimeFns \o SpatialRelFns
TNPointIndexableFunctions  == IntersectsTimeFns \o SpatialRelFns

-----------------------------------------------------------------------------
(* Helper functions, lines 198-298.                                        *)

(* An out-of-bounds read of a strategy array is undefined behaviour: the   *)
(* value read may be anything, here an invalid or a valid strategy.        *)
ReadStrategy(arr, i) ==
  IF i \in DOMAIN arr THEN {arr[i]} ELSE {InvalidStrategy, RTOverlapStrategyNumber}

(* Lines 199-210: the strategy array is chosen by the type of the          *)
(* argument that matches the index, not by the family of the caller.      *)
StrategyArray(type) ==
  CASE type \in TalphaTypes  -> TemporalStrategies
    [] type \in TnumberTypes -> TNumberStrategies
    [] type \in TgeoTypes    -> TPointStrategies
    [] type = "tnpoint"      -> TNPointStrategies
    [] OTHER                 -> << >>
temporal_get_strategy_by_type(type, index) ==
  IF type \in TemporalTypes THEN ReadStrategy(StrategyArray(type), index)
  ELSE {InvalidStrategy}

(* Lines 222-238: scan the array from its start for the function's name.  *)
func_needs_index(fname, idxfns) ==
  LET i == SelectInSeq(idxfns, LAMBDA e : e.fn_name = fname)
  IN  IF i = 0 THEN [found |-> FALSE, idxfn |-> NullIdxFn]
      ELSE [found |-> TRUE, idxfn |-> idxfns[i]]

(* The two lists of spatial types, lines 281-286 and 468-474.              *)
ExpandArgTypes == {"geometry", "geography", "stbox", "tgeompoint", "tgeogpoint", "tnpoint"}
SpatialRightTypes == {"geometry", "geography", "stbox", "tgeompoint", "tgeogpoint", "tnpoint"}

(* Lines 268-298: the expandspatial call on the non-indexed argument.  It  *)
(* raises an ERROR for a type outside its list and when the catalog has no *)
(* expandspatial function (LookupFuncName fails).                          *)
makeExpandExprMutNoTnpoint(argoid, found) ==
  IF argoid \notin ExpandArgTypes \ {"tnpoint"} THEN "unknown_type"
  ELSE IF ~found THEN "no_function" ELSE "expandspatial"
makeExpandExpr(argoid, found) ==
  IF argoid \notin ExpandArgTypes THEN "unknown_type"
  ELSE IF ~found THEN "no_function" ELSE "expandspatial"

-----------------------------------------------------------------------------
(* temporal_supportfn_internal, lines 315-553.                             *)

Null == [kind |-> "null"]
Error(why) == [kind |-> "error", why |-> why]

(* Lines 324-352: a selectivity request is answered by the estimator of    *)
(* the family, for the && operator of the two argument types.             *)
Selectivity(r) ==
  [kind |-> "sel", oper |-> <<"&&", r.args[1], r.args[2]>>,
   estimator |->
     IF r.fam \in {"TEMPORALTYPE", "TNUMBERTYPE"}
     THEN IF r.isjoin THEN "temporal_joinsel" ELSE "temporal_sel"
     ELSE IF r.isjoin THEN "tpoint_joinsel" ELSE "tpoint_sel"]

(* Lines 358-362: the clause is a function call or an operator with two   *)
(* arguments.                                                              *)
IsFuncOrBinop(r) == r.node = "func" \/ (r.node = "op" /\ Len(r.args) = 2)

(* Lines 392-399: the array of indexable functions of the family.          *)
FuncArr(fam) ==
  CASE fam = "TEMPORALTYPE" -> TemporalIndexableFunctions
    [] fam = "TNUMBERTYPE"  -> TNumberIndexableFunctions
    [] fam = "TPOINTTYPE"   -> TPointIndexableFunctions
    [] fam = "TNPOINTTYPE"  -> TNPointIndexableFunctions

Lookup(r) == func_needs_index(r.fname, FuncArr(r.fam))

(* Lines 438-447: the positions of leftarg, the argument matching the      *)
(* index, and of rightarg, the other one.                                  *)
ArgOrder(r) == IF r.indexarg = 0 THEN <<1, 2>> ELSE <<2, 1>>

(* Lines 465-477: the type of the right side of the index expression,      *)
(* "none" where the code returns NULL.                                     *)
ExprTypeMutNoElse(idxfn, rightoid) ==
  IF idxfn.expand_arg # 0 /\ rightoid \in SpatialRightTypes THEN "stbox" ELSE rightoid
ExprType(idxfn, rightoid) ==
  IF idxfn.expand_arg # 0 /\ rightoid \in SpatialRightTypes THEN "stbox" ELSE "none"

(* Line 494: the radius is list_nth(args, expand_arg - 1), counted from    *)
(* 0, which is argument expand_arg counted from 1.                         *)
RadiusArgMutNoMinus(idxfn) == idxfn.expand_arg + 1
RadiusArg(idxfn) == idxfn.expand_arg

(* The index condition leftarg OP right, where right is the other          *)
(* argument or, for an expand function, expand(other, radius); the code   *)
(* sets lossy before it returns it (line 546).                             *)
Cond(pos, strategy, exproid, radius, r) ==
  [kind |-> "cond", left |-> pos[1], right |-> pos[2], radius |-> radius,
   oper |-> <<r.args[pos[1]], exproid, strategy>>, lossy |-> TRUE]

(* Lines 479-548, once the strategy is known.  Each outcome is paired with *)
(* the strategy-array read the call made.                                  *)
AfterExprType(r, idxfn, pos, s, exproid, read) ==
  IF exproid = "none" THEN <<Null, read>>
  ELSE IF ~r.member THEN <<Error("no_operator"), read>>
  ELSE IF idxfn.expand_arg # 0
       THEN LET e == makeExpandExpr(r.args[pos[2]], r.expandfn)
            IN  IF e # "expandspatial" THEN <<Error(e), read>>
                ELSE IF ~r.pseudo THEN <<Null, read>>
                ELSE <<Cond(pos, s, exproid, RadiusArg(idxfn), r), read>>
  ELSE IF ~r.pseudo THEN <<Null, read>>
  ELSE <<Cond(pos, s, exproid, 0, r), read>>

(* Lines 453-463: the strategy of the left argument's type.                *)
AfterArgs(r, idxfn, pos) ==
  LET read == IF r.args[pos[1]] \in TemporalTypes
              THEN <<r.args[pos[1]], idxfn.index>> ELSE << >>
  IN  { IF s = InvalidStrategy THEN <<Null, read>>
        ELSE AfterExprType(r, idxfn, pos, s, ExprType(idxfn, r.args[pos[2]]), read)
      : s \in temporal_get_strategy_by_type(r.args[pos[1]], idxfn.index) }

(* Lines 355-432: the early returns before the arguments are picked.  An   *)
(* unsupported function only gets a WARNING (lines 400-408) and goes on    *)
(* with the zeroed idxfn.  The access method is the one opFamilyAmOid     *)
(* reads (lines 245-260); its cache-lookup ERROR cannot happen for the     *)
(* operator family of an index that exists.                                *)
IndexCondition(r, idxfn) ==
  IF ~IsFuncOrBinop(r) THEN {<<Null, << >>>>}
  ELSE IF r.am \notin {"gist", "spgist"} THEN {<<Null, << >>>>}
  ELSE IF r.indexarg > 1 THEN {<<Null, << >>>>}
  ELSE IF Len(r.args) < 2 \/ Len(r.args) < idxfn.expand_arg
       THEN {<<Error("nargs"), << >>>>}
  ELSE AfterArgs(r, idxfn, ArgOrder(r))

Warns(r) == IsFuncOrBinop(r) /\ ~Lookup(r).found

-----------------------------------------------------------------------------
(* The planner's requests.                                                 *)

VARIABLES
  req,      \* the last request
  result,   \* what the support function returned for it
  read,     \* the strategy-array entry it read, << >> if none
  warned    \* whether it raised the WARNING of lines 400-408

vars == <<req, result, read, warned>>

(* Argument lists: the temporal arguments of a function bound to a         *)
(* family's support function are of that family; the others are base or  *)
(* box types; a third argument is dwithin's float8 radius.                 *)
ArgLists(fam) ==
  LET one == {<<a>> : a \in TypeInputs}
      two == {<<a, b>> : a, b \in TypeInputs}
      Bound(l) ==
        /\ \E i \in DOMAIN l : l[i] \in FamilyTypes(fam)
        /\ \A i \in DOMAIN l : l[i] \in TemporalTypes => l[i] \in FamilyTypes(fam)
  IN  {l \in one \cup two \cup {t \o <<"float8">> : t \in two} : Bound(l)}

IndexRequests ==
  UNION { [kind : {"index"}, fam : {f}, node : {"func", "op", "other"},
           fname : NameInputs, args : ArgLists(f), indexarg : 0..2,
           am : AccessMethods, pseudo : BOOLEAN, member : BOOLEAN,
           expandfn : BOOLEAN] : f \in Families }

Init ==
  /\ req = [kind |-> "none"]
  /\ result = Null
  /\ read = << >>
  /\ warned = FALSE

Idle == req = [kind |-> "none"]

(* A SupportRequestSelectivity (lines 324-352), sent to the entry point    *)
(* of family f (lines 555-593).                                            *)
SupportRequestSelectivity ==
  /\ Idle
  /\ \E f \in Families, j \in BOOLEAN :
    \E a \in {l \in ArgLists(f) : Len(l) = 2} :
      /\ req' = [kind |-> "sel", fam |-> f, args |-> a, isjoin |-> j]
      /\ result' = Selectivity(req')
      /\ read' = << >>
      /\ warned' = FALSE

(* A SupportRequestIndexCondition (lines 355-550).                         *)
SupportRequestIndexCondition ==
  /\ Idle
  /\ \E r \in IndexRequests :
    \E o \in IndexCondition(r, Lookup(r).idxfn) :
      /\ req' = r
      /\ result' = o[1]
      /\ read' = o[2]
      /\ warned' = Warns(r)

(* Any other request node: the function returns NULL (line 552).           *)
OtherRequest ==
  /\ Idle
  /\ \E f \in Families :
    /\ req' = [kind |-> "other", fam |-> f]
    /\ result' = Null
    /\ read' = << >>
    /\ warned' = FALSE

(* The planner takes the answer and becomes idle again.                   *)
TakeAnswer ==
  /\ ~Idle
  /\ req' = [kind |-> "none"]
  /\ result' = Null
  /\ read' = << >>
  /\ warned' = FALSE

Next ==
  \/ TakeAnswer
  \/ SupportRequestSelectivity
  \/ SupportRequestIndexCondition
  \/ OtherRequest

Spec == Init /\ [][Next]_vars

-----------------------------------------------------------------------------
(* Properties.                                                             *)

Results ==
  {Null} \cup {Error(w) : w \in {"nargs", "no_operator", "unknown_type", "no_function"}}
  \cup [kind : {"sel"}, oper : {"&&"} \X TypeInputs \X TypeInputs,
        estimator : {"temporal_joinsel", "temporal_sel", "tpoint_joinsel", "tpoint_sel"}]
  \cup [kind : {"cond"}, left : 1..2, right : 1..2, radius : {0, 3},
        oper : TypeInputs \X (TypeInputs \cup {"stbox"}) \X {RTOverlapStrategyNumber},
        lossy : BOOLEAN]

(* Every variable keeps its type.                                          *)
TypeOK ==
  /\ req \in {[kind |-> "none"]} \cup IndexRequests
       \cup {[kind |-> "other", fam |-> f] : f \in Families}
       \cup UNION {[kind : {"sel"}, fam : {f}, args : ArgLists(f), isjoin : BOOLEAN]
                   : f \in Families}
  /\ result \in Results
  /\ read \in {<< >>} \cup (TemporalTypes \X (0..DWITHIN_IDX))
  /\ warned \in BOOLEAN

(* A function that is not in its family's array only gets a WARNING at     *)
(* lines 400-408 and the code goes on with the zeroed idxfn, whose index   *)
(* is that of intersectstimestamp.  Such a call must still never be        *)
(* turned into an index condition.                                         *)
UnsupportedNeverIndexed == warned => result.kind # "cond"

(* The functions of the tables whose truth implies that the bounding      *)
(* boxes of their two arguments overlap: the intersects<Time> functions,   *)
(* ever and always equality and the ever spatial relationships except     *)
(* disjoint, which holds of arguments far apart; dwithin implies it once   *)
(* one side is expanded by the radius.                                     *)
OverlapImplied ==
  {"intersectstimestamp", "intersectstimestampset", "intersectsperiod",
   "intersectsperiodset", "ever_eq", "always_eq", "contains", "intersects",
   "touches", "dwithin"}

(* The index condition is lossy (lines 541-546): the planner keeps only    *)
(* the rows the index returns for it and applies the function to those,   *)
(* so every row for which the function is true must satisfy it.  The      *)
(* condition is leftarg OP right with the arguments swapped when the index *)
(* matches the second one (lines 436-448, "only works for symmetric        *)
(* operators"): it is implied by the call only if OP is the symmetric      *)
(* overlap && and the function's truth implies the overlap.                *)
IndexCondNecessary ==
  result.kind = "cond" =>
    /\ result.oper[3] = RTOverlapStrategyNumber
    /\ req.fname \in OverlapImplied

(* The strategy lookup of lines 199-210 indexes the array of the left      *)
(* argument's type with the index of the caller family's function; the     *)
(* index must lie inside that array, or the read is out of bounds.         *)
StrategyInBounds == read # << >> => read[2] \in DOMAIN StrategyArray(read[1])

(* makeExpandExpr's ERROR for a type it has no expand function for (line   *)
(* 289) is never raised: the caller (lines 468-474) only expands types of  *)
(* the same list.                                                          *)
ExpandTypeKnown == result # Error("unknown_type")

(* The comment of lines 516-520: for the intersects variants (a supported  *)
(* function without a radius) the code returns the index condition        *)
(* leftarg && rightarg when the index is GiST or SP-GiST, the other side   *)
(* is a pseudo constant and the operator family has the operator.          *)
IntersectsIndexed ==
  (/\ req.kind = "index" /\ req.node = "func"
   /\ Lookup(req).found /\ Lookup(req).idxfn.expand_arg = 0
   /\ Len(req.args) >= 2
   /\ req.am \in {"gist", "spgist"} /\ req.indexarg <= 1
   /\ req.args[req.indexarg + 1] \in TemporalTypes
   /\ req.member /\ req.pseudo)
  => result.kind = "cond"

=============================================================================
