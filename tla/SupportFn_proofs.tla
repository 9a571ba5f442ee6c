--------------------------- MODULE SupportFn_proofs ---------------------------
(***************************************************************************)
(* Proofs about the planner support function for every set of type and    *)
(* function names: the four safety properties of its answer hold in every *)
(* state.  The argument rests on the static tables (every entry's         *)
(* strategy index lies inside the strategy arrays of its family's types)  *)
(* and on the control flow of temporal_supportfn_internal, one lemma per  *)
(* stage of it.                                                            *)
(***************************************************************************)
EXTENDS SupportFn, SequenceTheorems, TLAPS

(* An argument list of a function bound to family f: one to three        *)
(* arguments, and every temporal one is of the family.                     *)
LEMMA ArgListFacts ==
  ASSUME NEW f \in Families, NEW l \in ArgLists(f)
  PROVE  /\ Len(l) \in 1..3
         /\ DOMAIN l = 1..Len(l)
         /\ \A i \in DOMAIN l : l[i] \in TypeInputs
         /\ \A i \in DOMAIN l : l[i] \in TemporalTypes => l[i] \in FamilyTypes(f)
<1>0. "float8" \in TypeInputs
  BY InputAssumption
<1>1. \A i \in DOMAIN l : l[i] \in TemporalTypes => l[i] \in FamilyTypes(f)
  BY DEF ArgLists
<1>2. l \in {<<a>> : a \in TypeInputs} \cup {<<a, b>> : a, b \in TypeInputs}
        \cup {t \o <<"float8">> : t \in {<<a, b>> : a, b \in TypeInputs}}
  BY DEF ArgLists
<1>3. ASSUME NEW a, NEW b
      PROVE  <<a, b>> \o <<"float8">> = <<a, b, "float8">>
  <2>1. <<a, b>> \in Seq({a, b, "float8"}) /\ <<"float8">> \in Seq({a, b, "float8"})
    OBVIOUS
  <2>2. /\ <<a, b>> \o <<"float8">> \in Seq({a, b, "float8"})
        /\ Len(<<a, b>> \o <<"float8">>) = 3
        /\ \A i \in 1..3 : (<<a, b>> \o <<"float8">>)[i] = <<a, b, "float8">>[i]
    BY <2>1, ConcatProperties
  <2>3. <<a, b, "float8">> \in Seq({a, b, "float8"}) /\ Len(<<a, b, "float8">>) = 3
    OBVIOUS
  <2>. QED  BY <2>2, <2>3, SeqEqual
<1>4. CASE l \in {<<a>> : a \in TypeInputs}
  <2>1. PICK a \in TypeInputs : l = <<a>>
    BY <1>4
  <2>. QED  BY <1>1, <2>1
<1>5. CASE l \in {<<a, b>> : a, b \in TypeInputs}
  <2>1. PICK a, b \in TypeInputs : l = <<a, b>>
    BY <1>5
  <2>. QED  BY <1>1, <2>1
<1>6. CASE l \in {t \o <<"float8">> : t \in {<<a, b>> : a, b \in TypeInputs}}
  <2>1. PICK t \in {<<a, b>> : a, b \in TypeInputs} : l = t \o <<"float8">>
    BY <1>6
  <2>2. PICK a, b \in TypeInputs : t = <<a, b>>
    OBVIOUS
  <2>3. l = <<a, b, "float8">>
    BY <2>1, <2>2, <1>3
  <2>. QED  BY <1>0, <1>1, <2>3
<1>. QED  BY <1>2, <1>4, <1>5, <1>6

(* The fields of an index request.                                         *)
LEMMA IndexRequestFacts ==
  ASSUME NEW r \in IndexRequests
  PROVE  /\ r.fam \in Families
         /\ r.args \in ArgLists(r.fam)
         /\ r.indexarg \in 0..2
         /\ r.expandfn \in BOOLEAN
BY DEF IndexRequests
(* What an entry of a family's table of indexable functions holds (lines  *)
(* 66-197): its strategy index lies inside the strategy array of every    *)
(* temporal type of the family, and only dwithin has a radius argument,    *)
(* the third.                                                              *)
EntryOK(e, f) ==
  /\ \A t \in FamilyTypes(f) : e.index \in DOMAIN StrategyArray(t)
  /\ e.expand_arg \in {0, 3}
  /\ e.expand_arg # 0 => e.fn_name = "dwithin"
  /\ e.index \in 0..DWITHIN_IDX

LEMMA TableFacts ==
  ASSUME NEW f \in Families
  PROVE  /\ Len(FuncArr(f)) \in 1..11
         /\ \A j \in 1..Len(FuncArr(f)) : EntryOK(FuncArr(f)[j], f)
         /\ EntryOK(NullIdxFn, f)
<1> USE DEF EntryOK, FuncArr, FamilyTypes, StrategyArray, IdxFn, NullIdxFn,
      TemporalStrategies, TNumberStrategies, TPointStrategies, TNPointStrategies,
      TalphaTypes, TnumberTypes, TgeoTypes,
      IntersectsTimeFns, EverAlwaysFns, SpatialRelFns, InvalidStrategy, RTOverlapStrategyNumber,
      INTERSECTS_TIMESTAMP_IDX, INTERSECTS_TIMESTAMPSET_IDX, INTERSECTS_PERIOD_IDX,
      INTERSECTS_PERIODSET_IDX, EVER_EQ_IDX, ALWAYS_EQ_IDX, CONTAINS_IDX, DISJOINT_IDX,
      INTERSECTS_IDX, TOUCHES_IDX, DWITHIN_IDX
<1>1. CASE f = "TEMPORALTYPE"
  BY <1>1 DEF TemporalIndexableFunctions
<1>2. CASE f = "TNUMBERTYPE"
  BY <1>2 DEF TNumberIndexableFunctions
<1>3. CASE f = "TPOINTTYPE"
  BY <1>3 DEF TPointIndexableFunctions
<1>4. CASE f = "TNPOINTTYPE"
  BY <1>4 DEF TNPointIndexableFunctions
<1>. QED  BY <1>1, <1>2, <1>3, <1>4 DEF Families

(* A nonempty set of positions of a table of at most eleven entries has a  *)
(* least element, the one SelectInSeq returns: the scan of lines 222-238   *)
(* stops at the first match.                                               *)
LEMMA FirstMatch ==
  ASSUME NEW S \in SUBSET (1..11), S # {}
  PROVE  Min(S) \in S /\ \A y \in S : Min(S) <= y
<1> DEFINE m == IF 1 \in S THEN 1 ELSE IF 2 \in S THEN 2 ELSE IF 3 \in S THEN 3
        ELSE IF 4 \in S THEN 4 ELSE IF 5 \in S THEN 5 ELSE IF 6 \in S THEN 6
        ELSE IF 7 \in S THEN 7 ELSE IF 8 \in S THEN 8 ELSE IF 9 \in S THEN 9
        ELSE IF 10 \in S THEN 10 ELSE 11
<1>0. S \subseteq 1..11 /\ \E x \in S : TRUE
  OBVIOUS
<1>1. m \in S
  BY <1>0
<1>2. ASSUME NEW y \in S PROVE m <= y
  BY <1>0
<1>. QED  BY <1>1, <1>2 DEF Min

(* func_needs_index (lines 222-238) finds a function of the family's table *)
(* or none, and then answers the zeroed idxfn.                             *)
LEMMA LookupEntry ==
  ASSUME NEW f \in Families, NEW fname, NEW l, l = func_needs_index(fname, FuncArr(f))
  PROVE  /\ ~l.found => l.idxfn = NullIdxFn
         /\ l.found => l.idxfn.fn_name = fname
         /\ EntryOK(l.idxfn, f)
<1> DEFINE seq == FuncArr(f)
           I == {i \in 1..Len(seq) : seq[i].fn_name = fname}
<1>1. Len(seq) \in 1..11 /\ \A j \in 1..Len(seq) : EntryOK(seq[j], f)
      /\ EntryOK(NullIdxFn, f)
  BY TableFacts
<1>0. EntryOK(NullIdxFn, f)
  BY TableFacts
<1>2. SelectInSeq(seq, LAMBDA e : e.fn_name = fname) = IF I # {} THEN Min(I) ELSE 0
  BY DEF SelectInSeq
<1>3. CASE I = {}
  <2>1. l = [found |-> FALSE, idxfn |-> NullIdxFn]
    BY <1>2, <1>3 DEF func_needs_index
  <2>2. l.idxfn = NullIdxFn /\ ~l.found
    BY <2>1
  <2>3. EntryOK(NullIdxFn, f)
    BY <1>0, Zenon
  <2>. QED  BY <2>2, <2>3
<1>4. CASE I # {}
  <2>0. I \in SUBSET (1..11)
    BY <1>1 DEF I
  <2>1. Min(I) \in I
    BY <1>4, <2>0, FirstMatch
  <2>2. Min(I) \in 1..Len(seq) /\ Min(I) # 0 /\ seq[Min(I)].fn_name = fname
    BY <2>1 DEF I
  <2>3. l = [found |-> TRUE, idxfn |-> seq[Min(I)]]
    BY <1>2, <1>4, <2>2 DEF func_needs_index
  <2>. QED  BY <1>1, <2>2, <2>3
<1>. QED  BY <1>3, <1>4

(* The outcomes of lines 479-548: every branch returns the strategy read   *)
(* it was given; without an expression type it is NULL, and an ERROR of    *)
(* makeExpandExpr only comes for a function with a radius argument.       *)
LEMMA AfterExprTypeCases ==
  ASSUME NEW r, NEW idxfn, NEW pos, NEW s, NEW x, NEW rd,
         NEW o, o = AfterExprType(r, idxfn, pos, s, x, rd)
  PROVE  /\ o[2] = rd
         /\ x = "none" => o[1] = Null
         /\ \/ o[1] = Null
            \/ o[1] = Error("no_operator")
            \/ idxfn.expand_arg # 0 /\ makeExpandExpr(r.args[pos[2]], r.expandfn) # "expandspatial"
                /\ o[1] = Error(makeExpandExpr(r.args[pos[2]], r.expandfn))
            \/ \E rad \in {0, idxfn.expand_arg} : o[1] = Cond(pos, s, x, rad, r)
BY DEF AfterExprType, RadiusArg

(* The expression type is known only for a function with a radius and a   *)
(* spatial right side (lines 465-477), the types makeExpandExpr expands.  *)
LEMMA ExprTypeKnown ==
  ASSUME NEW idxfn, NEW t, ExprType(idxfn, t) # "none"
  PROVE  /\ ExprType(idxfn, t) = "stbox"
         /\ idxfn.expand_arg # 0
         /\ makeExpandExpr(t, TRUE) # "unknown_type"
         /\ makeExpandExpr(t, FALSE) # "unknown_type"
BY DEF ExprType, makeExpandExpr, SpatialRightTypes, ExpandArgTypes

(* A strategy read from an array, in bounds or not, is InvalidStrategy or  *)
(* RTOverlapStrategyNumber: the arrays hold nothing else.                  *)
LEMMA StrategyValues ==
  ASSUME NEW t, NEW i
  PROVE  temporal_get_strategy_by_type(t, i) \subseteq {InvalidStrategy, RTOverlapStrategyNumber}
BY DEF temporal_get_strategy_by_type, ReadStrategy, StrategyArray, TemporalStrategies,
       TNumberStrategies, TPointStrategies, TNPointStrategies

-----------------------------------------------------------------------------
(* The four safety properties of the support function's answer.  Each     *)
(* holds of the answer to a request whatever came before, so together they *)
(* are inductive: every step sets req, result, read and warned at once.    *)
SafetyInv ==
  UnsupportedNeverIndexed /\ IndexCondNecessary /\ StrategyInBounds /\ ExpandTypeKnown

(* The answer to an index-condition request (lines 355-550) satisfies the *)
(* four properties.                                                        *)
LEMMA IndexConditionSafe ==
  ASSUME NEW r \in IndexRequests, NEW o \in IndexCondition(r, Lookup(r).idxfn),
         req' = r, result' = o[1], read' = o[2], warned' = Warns(r)
  PROVE  SafetyInv'
<1> DEFINE idxfn == Lookup(r).idxfn
           pos == ArgOrder(r)
<1>1. /\ r.fam \in Families /\ r.args \in ArgLists(r.fam)
      /\ r.indexarg \in 0..2 /\ r.expandfn \in BOOLEAN
  BY IndexRequestFacts
<1>2. /\ Len(r.args) \in 1..3
      /\ DOMAIN r.args = 1..Len(r.args)
      /\ \A i \in DOMAIN r.args :
           r.args[i] \in TemporalTypes => r.args[i] \in FamilyTypes(r.fam)
  BY <1>1, ArgListFacts
<1>3. /\ ~Lookup(r).found => idxfn = NullIdxFn
      /\ Lookup(r).found => idxfn.fn_name = r.fname
      /\ EntryOK(idxfn, r.fam)
  BY <1>1, LookupEntry DEF Lookup
<1>4. \/ o = <<Null, << >>>>
      \/ o = <<Error("nargs"), << >>>>
      \/ /\ IsFuncOrBinop(r) /\ r.indexarg \in 0..1
         /\ Len(r.args) >= 2
         /\ o \in AfterArgs(r, idxfn, pos)
  BY <1>1 DEF IndexCondition
<1>5. CASE o = <<Null, << >>>> \/ o = <<Error("nargs"), << >>>>
  BY <1>5 DEF SafetyInv, UnsupportedNeverIndexed, IndexCondNecessary, StrategyInBounds,
            ExpandTypeKnown, Null, Error
<1>6. CASE /\ IsFuncOrBinop(r) /\ r.indexarg \in 0..1
           /\ Len(r.args) >= 2
           /\ o \in AfterArgs(r, idxfn, pos)
  <2> DEFINE rd == IF r.args[pos[1]] \in TemporalTypes
                   THEN <<r.args[pos[1]], idxfn.index>> ELSE << >>
             x == ExprType(idxfn, r.args[pos[2]])
  <2>1. pos = <<r.indexarg + 1, 2 - r.indexarg>>
    BY <1>6 DEF ArgOrder
  <2>2. pos[1] \in DOMAIN r.args /\ pos[2] \in DOMAIN r.args
    BY <1>2, <1>6, <2>1
  <2>3. PICK s \in temporal_get_strategy_by_type(r.args[pos[1]], idxfn.index) :
          o = IF s = InvalidStrategy THEN <<Null, rd>>
              ELSE AfterExprType(r, idxfn, pos, s, x, rd)
    BY <1>6, Zenon DEF AfterArgs
  <2>4. rd # << >> => rd[2] \in DOMAIN StrategyArray(rd[1])
    BY <1>2, <1>3, <2>2 DEF EntryOK
  <2>5. Warns(r) => x = "none"
    <3>1. Warns(r) => idxfn.expand_arg = 0
      BY <1>3 DEF Warns, NullIdxFn, IdxFn
    <3>. QED  BY <3>1, ExprTypeKnown
  <2>6. CASE s = InvalidStrategy
    BY <2>3, <2>4, <2>6 DEF SafetyInv, UnsupportedNeverIndexed, IndexCondNecessary,
         StrategyInBounds, ExpandTypeKnown, Null, Error
  <2>7. CASE s # InvalidStrategy
    <3>1. o = AfterExprType(r, idxfn, pos, s, x, rd)
      BY <2>3, <2>7
    <3>2. /\ o[2] = rd
          /\ x = "none" => o[1] = Null
          /\ \/ o[1] = Null
             \/ o[1] = Error("no_operator")
             \/ idxfn.expand_arg # 0 /\ makeExpandExpr(r.args[pos[2]], r.expandfn) # "expandspatial"
                /\ o[1] = Error(makeExpandExpr(r.args[pos[2]], r.expandfn))
             \/ \E rad \in {0, idxfn.expand_arg} : o[1] = Cond(pos, s, x, rad, r)
      BY <3>1, AfterExprTypeCases
    <3>3. StrategyInBounds'
      BY <2>4, <3>2 DEF StrategyInBounds
    <3>4. CASE o[1] = Null \/ o[1] = Error("no_operator")
      BY <3>3, <3>4 DEF SafetyInv, UnsupportedNeverIndexed, IndexCondNecessary,
           ExpandTypeKnown, Null, Error
    <3>5. CASE idxfn.expand_arg # 0 /\ makeExpandExpr(r.args[pos[2]], r.expandfn) # "expandspatial"
                /\ o[1] = Error(makeExpandExpr(r.args[pos[2]], r.expandfn))
      <4>1. x # "none"
        BY <3>2, <3>5 DEF Null, Error
      <4>2. makeExpandExpr(r.args[pos[2]], r.expandfn) # "unknown_type"
        BY <4>1, <1>1, ExprTypeKnown
      <4>. QED  BY <3>3, <3>5, <4>2 DEF SafetyInv, UnsupportedNeverIndexed,
                  IndexCondNecessary, ExpandTypeKnown, Error
    <3>6. CASE \E rad \in {0, idxfn.expand_arg} : o[1] = Cond(pos, s, x, rad, r)
      <4>1. PICK rad \in {0, idxfn.expand_arg} : o[1] = Cond(pos, s, x, rad, r)
        BY <3>6
      <4>2. x # "none"
        BY <3>2, <4>1 DEF Null, Cond
      <4>3. ~Warns(r)
        BY <2>5, <4>2
      <4>4. idxfn.fn_name = "dwithin" /\ r.fname = "dwithin"
        <5>1. idxfn.expand_arg # 0
          BY <4>2, ExprTypeKnown
        <5>2. Lookup(r).found
          BY <5>1, <1>3 DEF NullIdxFn, IdxFn
        <5>. QED  BY <5>1, <5>2, <1>3 DEF EntryOK
      <4>5. s = RTOverlapStrategyNumber
        BY <2>3, <2>7, StrategyValues DEF InvalidStrategy, RTOverlapStrategyNumber
      <4>6. o[1].kind = "cond" /\ o[1].oper[3] = s
        BY <4>1 DEF Cond
      <4>7. o[1] # Error("unknown_type")
        BY <4>6 DEF Error
      <4>. QED  BY <3>3, <4>3, <4>4, <4>5, <4>6, <4>7 DEF SafetyInv, UnsupportedNeverIndexed,
                  IndexCondNecessary, OverlapImplied, ExpandTypeKnown
    <3>. QED  BY <3>2, <3>4, <3>5, <3>6
  <2>. QED  BY <2>6, <2>7
<1>. QED  BY <1>4, <1>5, <1>6

(* The answer to an index-condition request, and the read it made, have    *)
(* their types.                                                            *)
LEMMA IndexConditionTyped ==
  ASSUME NEW r \in IndexRequests, NEW o \in IndexCondition(r, Lookup(r).idxfn)
  PROVE  /\ o[1] \in Results
         /\ o[2] \in {<< >>} \cup (TemporalTypes \X (0..DWITHIN_IDX))
<1> DEFINE idxfn == Lookup(r).idxfn
           pos == ArgOrder(r)
<1>1. /\ r.fam \in Families /\ r.args \in ArgLists(r.fam)
      /\ r.indexarg \in 0..2 /\ r.expandfn \in BOOLEAN
  BY IndexRequestFacts
<1>2. /\ Len(r.args) \in 1..3
      /\ DOMAIN r.args = 1..Len(r.args)
      /\ \A i \in DOMAIN r.args : r.args[i] \in TypeInputs
  BY <1>1, ArgListFacts
<1>3. EntryOK(idxfn, r.fam)
  BY <1>1, LookupEntry DEF Lookup
<1>4. \/ o = <<Null, << >>>>
      \/ o = <<Error("nargs"), << >>>>
      \/ /\ r.indexarg \in 0..1 /\ Len(r.args) >= 2
         /\ o \in AfterArgs(r, idxfn, pos)
  BY <1>1 DEF IndexCondition
<1>5. CASE o = <<Null, << >>>> \/ o = <<Error("nargs"), << >>>>
  BY <1>5 DEF Results
<1>6. CASE /\ r.indexarg \in 0..1 /\ Len(r.args) >= 2
           /\ o \in AfterArgs(r, idxfn, pos)
  <2> DEFINE rd == IF r.args[pos[1]] \in TemporalTypes
                   THEN <<r.args[pos[1]], idxfn.index>> ELSE << >>
             x == ExprType(idxfn, r.args[pos[2]])
  <2>1. pos = <<r.indexarg + 1, 2 - r.indexarg>>
    BY <1>6 DEF ArgOrder
  <2>2. pos[1] \in DOMAIN r.args /\ pos[2] \in DOMAIN r.args
    BY <1>2, <1>6, <2>1
  <2>9. r.args[pos[1]] \in TypeInputs /\ r.args[pos[2]] \in TypeInputs
    BY <1>2, <2>2
  <2>3. PICK s \in temporal_get_strategy_by_type(r.args[pos[1]], idxfn.index) :
          o = IF s = InvalidStrategy THEN <<Null, rd>>
              ELSE AfterExprType(r, idxfn, pos, s, x, rd)
    BY <1>6, Zenon DEF AfterArgs
  <2>4. rd \in {<< >>} \cup (TemporalTypes \X (0..DWITHIN_IDX))
    BY <1>3 DEF EntryOK
  <2>5. CASE s = InvalidStrategy
    BY <2>3, <2>4, <2>5 DEF Results
  <2>6. CASE s # InvalidStrategy
    <3>1. s = RTOverlapStrategyNumber
      BY <2>6, StrategyValues
    <3>2. /\ o[2] = rd
          /\ x = "none" => o[1] = Null
          /\ \/ o[1] = Null
             \/ o[1] = Error("no_operator")
             \/ idxfn.expand_arg # 0 /\ makeExpandExpr(r.args[pos[2]], r.expandfn) # "expandspatial"
                /\ o[1] = Error(makeExpandExpr(r.args[pos[2]], r.expandfn))
             \/ \E rad \in {0, idxfn.expand_arg} : o[1] = Cond(pos, s, x, rad, r)
      BY <2>3, <2>6, AfterExprTypeCases
    <3>3. makeExpandExpr(r.args[pos[2]], r.expandfn) # "expandspatial"
          => makeExpandExpr(r.args[pos[2]], r.expandfn) \in {"unknown_type", "no_function"}
      BY DEF makeExpandExpr
    <3>4. CASE \E rad \in {0, idxfn.expand_arg} : o[1] = Cond(pos, s, x, rad, r)
      <4>1. PICK rad \in {0, idxfn.expand_arg} : o[1] = Cond(pos, s, x, rad, r)
        BY <3>4
      <4>2. x # "none"
        BY <3>2, <4>1 DEF Cond, Null
      <4>3. x = "stbox"
        BY <4>2, ExprTypeKnown
      <4>4. rad \in {0, 3}
        BY <1>3, <4>1 DEF EntryOK
      <4>. QED  BY <1>6, <2>1, <2>4, <2>9, <3>1, <3>2, <4>1, <4>3, <4>4 DEF Results, Cond
    <3>. QED  BY <2>4, <3>2, <3>3, <3>4 DEF Results
  <2>. QED  BY <2>5, <2>6
<1>. QED  BY <1>4, <1>5, <1>6

(* The properties hold initially, when nothing has been asked yet.         *)
LEMMA InitSafe == Init => SafetyInv
BY DEF Init, SafetyInv, UnsupportedNeverIndexed, IndexCondNecessary, StrategyInBounds,
       ExpandTypeKnown, Null, Error

(* Every step keeps them: taking an answer clears it, a selectivity or     *)
(* another request has no index condition and reads no strategy, and an   *)
(* index-condition request is IndexConditionSafe.                          *)
LEMMA NextSafe == SafetyInv /\ [Next]_vars => SafetyInv'
<1> SUFFICES ASSUME SafetyInv, [Next]_vars PROVE SafetyInv'
  OBVIOUS
<1> USE DEF SafetyInv, UnsupportedNeverIndexed, IndexCondNecessary, StrategyInBounds,
          ExpandTypeKnown, Null, Error
<1>1. CASE TakeAnswer
  BY <1>1 DEF TakeAnswer
<1>2. CASE SupportRequestSelectivity
  BY <1>2 DEF SupportRequestSelectivity, Selectivity
<1>3. CASE SupportRequestIndexCondition
  <2>1. PICK r \in IndexRequests :
          \E o \in IndexCondition(r, Lookup(r).idxfn) :
            /\ req' = r /\ result' = o[1] /\ read' = o[2] /\ warned' = Warns(r)
    BY <1>3 DEF SupportRequestIndexCondition
  <2>2. PICK o \in IndexCondition(r, Lookup(r).idxfn) :
            /\ req' = r /\ result' = o[1] /\ read' = o[2] /\ warned' = Warns(r)
    BY <2>1
  <2>. QED  BY <2>2, IndexConditionSafe
<1>4. CASE OtherRequest
  BY <1>4 DEF OtherRequest
<1>5. CASE UNCHANGED vars
  BY <1>5 DEF vars
<1>. QED  BY <1>1, <1>2, <1>3, <1>4, <1>5 DEF Next

(* The four properties hold in every state of every behaviour, for every  *)
(* set of type and function names the planner may pass.                   *)
THEOREM SafetyInvariant == Spec => []SafetyInv
BY InitSafe, NextSafe, PTL DEF Spec

(* A call of a function that is not in its family's table gets only the   *)
(* WARNING of lines 400-408 and never an index condition, although the   *)
(* code goes on with the zeroed idxfn.                                     *)
THEOREM UnsupportedNeverIndexedHolds == Spec => []UnsupportedNeverIndexed
BY SafetyInvariant, PTL DEF SafetyInv

(* Every index condition puts the indexed argument on the left, the other *)
(* on the right, and is lossy (lines 438-447 and 546).                     *)
THEOREM IndexCondNecessaryHolds == Spec => []IndexCondNecessary
BY SafetyInvariant, PTL DEF SafetyInv

(* No strategy array is read out of bounds (lines 199-210): the tables of *)
(* indexable functions and the strategy arrays agree for every family.    *)
THEOREM StrategyInBoundsHolds == Spec => []StrategyInBounds
BY SafetyInvariant, PTL DEF SafetyInv

(* makeExpandExpr never raises its ERROR for an unknown type (line 289).   *)
THEOREM ExpandTypeKnownHolds == Spec => []ExpandTypeKnown
BY SafetyInvariant, PTL DEF SafetyInv

(* The type invariant holds initially and is kept by every step.            *)
LEMMA InitTypeOK == Init => TypeOK
BY DEF Init, TypeOK, Results, Null

LEMMA NextTypeOK == TypeOK /\ [Next]_vars => TypeOK'
<1> SUFFICES ASSUME TypeOK, [Next]_vars PROVE TypeOK'
  OBVIOUS
<1>1. CASE TakeAnswer
  BY <1>1 DEF TakeAnswer, TypeOK, Results, Null
<1>2. CASE SupportRequestSelectivity
  <2>1. PICK f \in Families, j \in BOOLEAN :
          \E a \in {l \in ArgLists(f) : Len(l) = 2} :
            /\ req' = [kind |-> "sel", fam |-> f, args |-> a, isjoin |-> j]
            /\ result' = Selectivity(req')
            /\ read' = << >>
            /\ warned' = FALSE
    BY <1>2 DEF SupportRequestSelectivity
  <2>2. PICK a \in {l \in ArgLists(f) : Len(l) = 2} :
            /\ req' = [kind |-> "sel", fam |-> f, args |-> a, isjoin |-> j]
            /\ result' = Selectivity(req')
            /\ read' = << >>
            /\ warned' = FALSE
    BY <2>1
  <2>3. a[1] \in TypeInputs /\ a[2] \in TypeInputs
    BY ArgListFacts
  <2>4. req' \in UNION {[kind : {"sel"}, fam : {g}, args : ArgLists(g), isjoin : BOOLEAN]
                        : g \in Families}
    BY <2>2
  <2>5. result' \in Results
    BY <2>2, <2>3 DEF Selectivity, Results
  <2>. QED  BY <2>2, <2>4, <2>5 DEF TypeOK
<1>3. CASE SupportRequestIndexCondition
  <2>1. PICK r \in IndexRequests :
          \E o \in IndexCondition(r, Lookup(r).idxfn) :
            /\ req' = r /\ result' = o[1] /\ read' = o[2] /\ warned' = Warns(r)
    BY <1>3 DEF SupportRequestIndexCondition
  <2>2. PICK o \in IndexCondition(r, Lookup(r).idxfn) :
            /\ req' = r /\ result' = o[1] /\ read' = o[2] /\ warned' = Warns(r)
    BY <2>1
  <2>. QED  BY <2>2, IndexConditionTyped DEF TypeOK, Warns
<1>4. CASE OtherRequest
  BY <1>4 DEF OtherRequest, TypeOK, Results, Null
<1>5. CASE UNCHANGED vars
  BY <1>5 DEF vars, TypeOK
<1>. QED  BY <1>1, <1>2, <1>3, <1>4, <1>5 DEF Next

(* The support function answers every request with a value of its result *)
(* type, and every strategy it reads is the entry of a temporal type's     *)
(* array at an index of the tables.                                        *)
THEOREM TypeCorrect == Spec => []TypeOK
BY InitTypeOK, NextTypeOK, PTL DEF Spec
=============================================================================
