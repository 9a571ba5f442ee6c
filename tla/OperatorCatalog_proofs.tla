------------------------ MODULE OperatorCatalog_proofs ------------------------
EXTENDS OperatorCatalog, SequenceTheorems, TLAPS

LEMMA ClauseTable ==
  /\ \A rel \in Relations : OperatorClauses[rel][2] # None =>
        /\ rel \in DOMAIN Converse
        /\ OperatorClauses[rel][2] = OperatorClauses[Converse[rel]][1]
  /\ \A rel \in DOMAIN Converse : OperatorClauses[rel][2] # None /\ Converse[rel] \in Relations
  /\ \A r1, r2 \in Relations : OperatorClauses[r1][1] = OperatorClauses[r2][1] => r1 = r2
BY DEF Relations, OperatorClauses, TimeOperatorClauses, SpaceOperatorClauses, TimeRels,
       SpaceRels, Converse, None
-----------------------------------------------------------------------------
(* The statements of the script.                                           *)

Kinds == UNION {SymbolKinds[t] : t \in SqlTypes}
TimeTypes == {"timestamptz", "timestampset", "period", "periodset"}
PointTypes == {"tgeompoint", "tgeogpoint"}

(* The kinds of a function's C symbol fit its argument types, and a time   *)
(* type against a temporal point uses the temporal kind.                   *)
SymbolOK(l, r, lk, rk) ==
  /\ lk \in SymbolKinds[l]
  /\ rk \in SymbolKinds[r]
  /\ l \in PointTypes /\ r \in TimeTypes => lk = "temporal"

GoodFns ==
  {s \in [stmt : {"function"}, name : Relations, args : SqlTypes \X SqlTypes,
          symbol : Relations \X Kinds \X Kinds] :
     s.symbol[1] = s.name /\ SymbolOK(s.args[1], s.args[2], s.symbol[2], s.symbol[3])}
GoodOps == {OpStmt(rel, l, r) : rel \in Relations, l, r \in SqlTypes}
GoodStmts == GoodFns \cup GoodOps

LEMMA BlockGood ==
  ASSUME NEW rels \in Seq(Relations), NEW l \in SqlTypes, NEW r \in SqlTypes,
         NEW lk, NEW rk, SymbolOK(l, r, lk, rk)
  PROVE  Block(rels, l, r, lk, rk) \in Seq(GoodStmts)
<1>1. lk \in Kinds /\ rk \in Kinds
  BY DEF SymbolOK, Kinds
<1>2. \A i \in 1..Len(rels) : FnStmt(rels[i], l, r, lk, rk) \in GoodFns
  BY <1>1 DEF FnStmt, GoodFns
<1>3. \A i \in 1..Len(rels) : OpStmt(rels[i], l, r) \in GoodOps
  BY DEF GoodOps
<1>4. [i \in 1..Len(rels) |-> FnStmt(rels[i], l, r, lk, rk)] \in Seq(GoodStmts)
  BY <1>2 DEF GoodStmts
<1>5. [i \in 1..Len(rels) |-> OpStmt(rels[i], l, r)] \in Seq(GoodStmts)
  BY <1>3 DEF GoodStmts
<1>. QED  BY <1>4, <1>5, ConcatProperties DEF Block

LEMMA RelSeqs ==
  /\ TimeRels \in Seq(Relations)
  /\ SpaceRels \in Seq(Relations)
  /\ SpaceRels \o TimeRels \in Seq(Relations)
<1>1. TimeRels \in Seq(Relations) /\ SpaceRels \in Seq(Relations)
  BY DEF TimeRels, SpaceRels, Relations
<1>. QED  BY <1>1, ConcatProperties

(* Every statement of the script is a function bound to the C symbol of   *)
(* its argument kinds, or an operator written as its relation's block      *)
(* writes it.                                                              *)
LEMMA ScriptGood == Script \in Seq(GoodStmts)
<1> USE DEF SymbolOK, SymbolKinds, SqlTypes, PointTypes, TimeTypes
<1>1. ASSUME NEW t \in {"timestamptz", "timestampset", "period", "periodset"},
             NEW k, k \in SymbolKinds[t]
      PROVE  TimeLeft(t, k) \in Seq(GoodStmts)
  BY <1>1, RelSeqs, BlockGood, ConcatProperties DEF TimeLeft
<1>2. ASSUME NEW p \in PointTypes PROVE PointTime(p) \in Seq(GoodStmts)
  <2>1. /\ Block(TimeRels, p, "timestamptz", "temporal", "timestamp") \in Seq(GoodStmts)
        /\ Block(TimeRels, p, "timestampset", "temporal", "timestampset") \in Seq(GoodStmts)
        /\ Block(TimeRels, p, "period", "temporal", "period") \in Seq(GoodStmts)
        /\ Block(TimeRels, p, "periodset", "temporal", "periodset") \in Seq(GoodStmts)
    BY RelSeqs, BlockGood
  <2>. QED  BY <2>1, ConcatProperties DEF PointTime
<1>3. /\ TimestamptzOps \in Seq(GoodStmts) /\ TimestampsetOps \in Seq(GoodStmts)
      /\ PeriodOps \in Seq(GoodStmts) /\ PeriodsetOps \in Seq(GoodStmts)
  BY <1>1 DEF TimestamptzOps, TimestampsetOps, PeriodOps, PeriodsetOps
<1>4. /\ GeometryOps \in Seq(GoodStmts) /\ StboxTgeompointOps \in Seq(GoodStmts)
      /\ StboxTgeogpointOps \in Seq(GoodStmts) /\ TgeompointGeometryOps \in Seq(GoodStmts)
      /\ TgeompointStboxOps \in Seq(GoodStmts) /\ TgeompointOps \in Seq(GoodStmts)
  BY RelSeqs, BlockGood DEF GeometryOps, StboxTgeompointOps, StboxTgeogpointOps,
     TgeompointGeometryOps, TgeompointStboxOps, TgeompointOps
<1>5. /\ TgeompointTimeOps \in Seq(GoodStmts) /\ TgeogpointTimeOps \in Seq(GoodStmts)
  BY <1>2 DEF TgeompointTimeOps, TgeogpointTimeOps
<1>6. TgeogpointBoxOps \in Seq(GoodStmts)
  <2>1. /\ Block(TimeRels, "tgeogpoint", "stbox", "tpoint", "stbox") \in Seq(GoodStmts)
        /\ Block(TimeRels, "tgeogpoint", "tgeogpoint", "tpoint", "tpoint") \in Seq(GoodStmts)
    BY RelSeqs, BlockGood
  <2>. QED  BY <2>1, ConcatProperties DEF TgeogpointBoxOps
<1>. QED  BY <1>3, <1>4, <1>5, <1>6, ConcatProperties DEF Script

-----------------------------------------------------------------------------
(* The operator catalog.                                                   *)

(* The commutator key the clause of relation rel gives the operator k.     *)
ComOf(rel, k) ==
  IF OperatorClauses[rel][2] = None THEN NoLink
  ELSE OpKey(OperatorClauses[rel][2], k[3], k[2])

(* A row of the catalog: a shell has no procedure and links to the        *)
(* operator whose COMMUTATOR made it; a defined operator carries the name *)
(* and the commutator link of its relation's clauses.                      *)
RowOK(o, k) ==
  /\ k \in OpKeys
  /\ o[k].shell \in BOOLEAN
  /\ o[k].shell => o[k].proc = None /\ o[k].com \in OpKeys
  /\ ~o[k].shell =>
       /\ o[k].proc \in Relations
       /\ k[1] = OperatorClauses[o[k].proc][1]
       /\ o[k].com = ComOf(o[k].proc, k)
OprInv == \A k \in DOMAIN opr : RowOK(opr, k)

LEMMA ComOfType ==
  ASSUME NEW rel \in Relations, NEW k \in OpKeys
  PROVE  ComOf(rel, k) \in OpKeys \cup {NoLink}
<1>1. OperatorClauses[rel][2] # None => OperatorClauses[rel][2] \in OpNames
  BY ClauseTable DEF OpNames
<1>. QED  BY <1>1 DEF ComOf, OpKeys, OpKey, NoLink

(* Setting a well-formed row keeps the catalog well formed.              *)
LEMMA PutRow ==
  ASSUME NEW o, NEW k, NEW v, \A x \in DOMAIN o : RowOK(o, x),
         RowOK(CatalogPut(o, k, v), k)
  PROVE  \A x \in DOMAIN CatalogPut(o, k, v) : RowOK(CatalogPut(o, k, v), x)
<1> SUFFICES ASSUME NEW x \in DOMAIN CatalogPut(o, k, v), x # k
             PROVE  RowOK(CatalogPut(o, k, v), x)
  OBVIOUS
<1>1. x \in DOMAIN o /\ CatalogPut(o, k, v)[x] = o[x]
  BY DEF CatalogPut
<1>. QED  BY <1>1 DEF RowOK

(* CREATE OPERATOR of a statement of the script keeps every row well      *)
(* formed: the new row carries its clauses, a forward COMMUTATOR makes a   *)
(* shell linked back, and an existing commutator is never unlinked, since *)
(* every operator a clause names has a commutator clause of its own.      *)
LEMMA CreateOperatorRows ==
  ASSUME OprInv, NEW s \in GoodOps, NEW o,
         o = LinkCommutator(CatalogPut(opr, OpKey(s.name, s.left, s.right),
                                       [proc |-> s.proc, com |-> ComKey(s), shell |-> FALSE]),
                            OpKey(s.name, s.left, s.right), ComKey(s))
  PROVE  \A x \in DOMAIN o : RowOK(o, x)
<1>1. PICK rel \in Relations, l \in SqlTypes, r \in SqlTypes : s = OpStmt(rel, l, r)
  BY DEF GoodOps
<1> DEFINE k == OpKey(s.name, s.left, s.right)
           c == ComKey(s)
           o1 == CatalogPut(opr, k, [proc |-> s.proc, com |-> c, shell |-> FALSE])
<1>2. /\ s.name = OperatorClauses[rel][1] /\ s.proc = rel
      /\ s.left = l /\ s.right = r /\ s.com = OperatorClauses[rel][2]
  BY <1>1 DEF OpStmt
<1>3. k \in OpKeys /\ k = <<OperatorClauses[rel][1], l, r>>
  BY <1>2 DEF OpKeys, OpNames, OpKey
<1>4. c = ComOf(rel, k)
  BY <1>2, <1>3 DEF ComKey, ComOf, OpKey
<1>5. c \in OpKeys \cup {NoLink}
  BY <1>3, <1>4, ComOfType
<1>6. \A x \in DOMAIN o1 : RowOK(o1, x)
  <2>1. o1[k] = [proc |-> rel, com |-> c, shell |-> FALSE]
    BY <1>2 DEF CatalogPut
  <2>2. RowOK(o1, k)
    <3>1. o1[k].shell = FALSE /\ o1[k].proc = rel /\ o1[k].com = c
      BY <2>1
    <3>2. k[1] = OperatorClauses[rel][1]
      BY <1>3
    <3>. QED  BY <1>1, <1>3, <1>4, <3>1, <3>2 DEF RowOK
  <2>. QED  BY <2>2, PutRow DEF OprInv
<1>7. CASE c = NoLink
  BY <1>6, <1>7 DEF LinkCommutator
<1>8. CASE c # NoLink /\ c \notin DOMAIN o1
  <2>1. o = CatalogPut(o1, c, [proc |-> None, com |-> k, shell |-> TRUE])
    BY <1>8 DEF LinkCommutator
  <2>2. c \in OpKeys
    BY <1>5, <1>8
  <2>3. RowOK(o, c)
    <3>1. o[c] = [proc |-> None, com |-> k, shell |-> TRUE]
      BY <2>1 DEF CatalogPut
    <3>2. o[c].shell = TRUE /\ o[c].proc = None /\ o[c].com = k
      BY <3>1
    <3>. QED  BY <1>3, <2>2, <3>2 DEF RowOK
  <2>. QED  BY <1>6, <2>1, <2>3, PutRow
<1>9. CASE c # NoLink /\ c \in DOMAIN o1
  <2>1. RowOK(o1, c)
    BY <1>6, <1>9
  <2>2. o1[c].com # NoLink
    <3>1. CASE o1[c].shell
      BY <2>1, <3>1 DEF RowOK, OpKeys, NoLink
    <3>2. CASE ~o1[c].shell
      <4>1. /\ OperatorClauses[rel][2] # None
            /\ c = OpKey(OperatorClauses[rel][2], r, l)
        BY <1>3, <1>4, <1>9 DEF ComOf
      <4>2. /\ rel \in DOMAIN Converse
            /\ OperatorClauses[rel][2] = OperatorClauses[Converse[rel]][1]
            /\ OperatorClauses[Converse[rel]][2] # None
            /\ Converse[rel] \in Relations
        <5>1. rel \in DOMAIN Converse
              /\ OperatorClauses[rel][2] = OperatorClauses[Converse[rel]][1]
          BY <4>1, ClauseTable
        <5>2. OperatorClauses[Converse[rel]][2] # None /\ Converse[rel] \in Relations
          BY <5>1 DEF Relations, OperatorClauses, TimeOperatorClauses, SpaceOperatorClauses,
                      TimeRels, SpaceRels, Converse, None
        <5>. QED  BY <5>1, <5>2
      <4>3. o1[c].proc \in Relations /\ c[1] = OperatorClauses[o1[c].proc][1]
            /\ o1[c].com = ComOf(o1[c].proc, c)
        BY <2>1, <3>2 DEF RowOK
      <4>4. o1[c].proc = Converse[rel]
        BY <4>1, <4>2, <4>3, ClauseTable DEF OpKey
      <4>5. o1[c].com = OpKey(OperatorClauses[Converse[rel]][2], c[3], c[2])
        BY <4>2, <4>3, <4>4 DEF ComOf
      <4>6. o1[c].com = <<OperatorClauses[Converse[rel]][2], c[3], c[2]>>
        BY <4>5 DEF OpKey
      <4>7. \A a, b, d : <<a, b, d>> # << >>
        OBVIOUS
      <4>. QED  BY <4>6, <4>7 DEF NoLink
    <3>. QED  BY <3>1, <3>2
  <2>3. o = o1
    BY <1>9, <2>2 DEF LinkCommutator
  <2>. QED  BY <1>6, <2>3
<1>. QED  BY <1>7, <1>8, <1>9

(* The rows of a catalog are records of the three fields pg_operator keeps *)
(* here: the procedure, the commutator link and the shell flag.            *)
Rows == [proc : Relations \cup {None}, com : OpKeys \cup {NoLink}, shell : BOOLEAN]
RowsIn(o) == \A k \in DOMAIN o : o[k] \in Rows

(* The clauses of an operator statement of the script.                     *)
LEMMA OpStmtFacts ==
  ASSUME NEW s \in GoodOps
  PROVE  /\ OpKey(s.name, s.left, s.right) \in OpKeys
         /\ ComKey(s) \in OpKeys \cup {NoLink}
<1>1. PICK rel \in Relations, l \in SqlTypes, r \in SqlTypes : s = OpStmt(rel, l, r)
  BY DEF GoodOps
<1>2. /\ s.name = OperatorClauses[rel][1] /\ s.left = l /\ s.right = r
      /\ s.com = OperatorClauses[rel][2]
  BY <1>1 DEF OpStmt
<1>3. OpKey(s.name, s.left, s.right) \in OpKeys
  BY <1>2 DEF OpKeys, OpNames, OpKey
<1>4. ComKey(s) = ComOf(rel, OpKey(s.name, s.left, s.right))
  BY <1>2 DEF ComKey, ComOf, OpKey
<1>. QED  BY <1>3, <1>4, ComOfType

(* CREATE OPERATOR leaves every row a record of the three fields.          *)
LEMMA CreateOperatorTyped ==
  ASSUME RowsIn(opr), NEW s \in GoodOps, NEW o,
         o = LinkCommutator(CatalogPut(opr, OpKey(s.name, s.left, s.right),
                                       [proc |-> s.proc, com |-> ComKey(s), shell |-> FALSE]),
                            OpKey(s.name, s.left, s.right), ComKey(s))
  PROVE  RowsIn(o)
<1> DEFINE k == OpKey(s.name, s.left, s.right)
           c == ComKey(s)
           o1 == CatalogPut(opr, k, [proc |-> s.proc, com |-> c, shell |-> FALSE])
<1>1. k \in OpKeys /\ c \in OpKeys \cup {NoLink} /\ s.proc \in Relations
  BY OpStmtFacts DEF GoodOps, OpStmt
<1>2. RowsIn(o1)
  <2>1. [proc |-> s.proc, com |-> c, shell |-> FALSE] \in Rows
    BY <1>1 DEF Rows
  <2>. QED  BY <2>1 DEF RowsIn, CatalogPut
<1>3. CASE c = NoLink
  BY <1>2, <1>3 DEF LinkCommutator
<1>4. CASE c # NoLink /\ c \notin DOMAIN o1
  <2>1. [proc |-> None, com |-> k, shell |-> TRUE] \in Rows
    BY <1>1 DEF Rows
  <2>2. o = CatalogPut(o1, c, [proc |-> None, com |-> k, shell |-> TRUE])
    BY <1>4 DEF LinkCommutator
  <2>. QED  BY <1>2, <2>1, <2>2 DEF RowsIn, CatalogPut
<1>5. CASE c # NoLink /\ c \in DOMAIN o1 /\ o1[c].com = NoLink
  <2>1. o = [o1 EXCEPT ![c].com = k]
    BY <1>5 DEF LinkCommutator
  <2>2. [o1[c] EXCEPT !.com = k] \in Rows
    BY <1>1, <1>2, <1>5 DEF RowsIn, Rows
  <2>. QED  BY <1>2, <2>1, <2>2 DEF RowsIn
<1>6. CASE c # NoLink /\ c \in DOMAIN o1 /\ o1[c].com # NoLink
  BY <1>2, <1>6 DEF LinkCommutator
<1>. QED  BY <1>3, <1>4, <1>5, <1>6

(* Well-formed rows give the type of the catalog.                          *)
LEMMA RowsTyped ==
  ASSUME NEW o, \A k \in DOMAIN o : RowOK(o, k), RowsIn(o)
  PROVE  /\ DOMAIN o \subseteq OpKeys
         /\ \A k \in DOMAIN o :
              /\ o[k].proc \in Relations \cup {None}
              /\ o[k].com \in OpKeys \cup {NoLink}
              /\ o[k].shell \in BOOLEAN
BY DEF RowOK, RowsIn, Rows

-----------------------------------------------------------------------------
(* The inductive invariant: the types, and every row well formed and a     *)
(* record.  The row invariant is what CREATE OPERATOR needs of the rows    *)
(* earlier statements made: a commutator it finds always has a link.       *)
IInv == TypeOK /\ OprInv /\ RowsIn(opr)

LEMMA InitIInv == Init => IInv
<1> SUFFICES ASSUME Init PROVE IInv
  OBVIOUS
<1>1. Len(Script) \in Nat
  BY ScriptGood
<1>2. DOMAIN opr = {}
  BY DEF Init
<1>. QED  BY <1>1, <1>2 DEF Init, IInv, TypeOK, OprInv, RowsIn

(* The next statement of the script is one of the script's statements.     *)
LEMMA StatementGood ==
  ASSUME TypeOK, pc <= Len(Script)
  PROVE  /\ Script[pc].stmt = "function" => Script[pc] \in GoodFns
         /\ Script[pc].stmt = "operator" => Script[pc] \in GoodOps
<1>1. Script[pc] \in GoodStmts
  BY ScriptGood, ElementOfSeq DEF TypeOK
<1>2. \A s \in GoodOps : s.stmt = "operator"
  BY DEF GoodOps, OpStmt
<1>3. \A s \in GoodFns : s.stmt = "function"
  BY DEF GoodFns
<1>. QED  BY <1>1, <1>2, <1>3 DEF GoodStmts

LEMMA NextIInv == IInv /\ [Next]_vars => IInv'
<1> SUFFICES ASSUME IInv, [Next]_vars PROVE IInv'
  OBVIOUS
<1>0. Len(Script) \in Nat
  BY ScriptGood
<1>1. CASE ExecuteStatement
  <2>1. pc \in 1..Len(Script) /\ pc' \in 1..Len(Script) + 1
    BY <1>0, <1>1 DEF ExecuteStatement, IInv, TypeOK
  <2>2. CASE Script[pc].stmt = "function" /\ CreateFunction(Script[pc]) /\ UNCHANGED opr
    <3>1. Script[pc] \in GoodFns
      BY <1>1, <2>2, StatementGood DEF IInv, ExecuteStatement
    <3>2. <<Script[pc].name, Script[pc].args>> \in Relations \X (SqlTypes \X SqlTypes)
      BY <3>1 DEF GoodFns
    <3>3. fns' \subseteq Relations \X (SqlTypes \X SqlTypes) /\ status' \in {"running", "done", "failed"}
      BY <2>2, <3>2 DEF CreateFunction, IInv, TypeOK
    <3>. QED  BY <2>1, <2>2, <3>3 DEF IInv, TypeOK, OprInv, RowsIn
  <2>3. CASE Script[pc].stmt = "operator" /\ CreateOperator(Script[pc]) /\ UNCHANGED fns
    <3> DEFINE s == Script[pc]
               k == OpKey(s.name, s.left, s.right)
    <3>1. s \in GoodOps
      BY <1>1, <2>3, StatementGood DEF IInv, ExecuteStatement
    <3>2. CASE \/ <<s.proc, <<s.left, s.right>>>> \notin fns
               \/ k \in DOMAIN opr /\ ~opr[k].shell
      <4>1. status' = "failed" /\ UNCHANGED opr
        BY <2>3, <3>2 DEF CreateOperator
      <4>. QED  BY <2>1, <2>3, <4>1 DEF IInv, TypeOK, OprInv, RowsIn
    <3>3. CASE ~(\/ <<s.proc, <<s.left, s.right>>>> \notin fns
                 \/ k \in DOMAIN opr /\ ~opr[k].shell)
      <4>1. /\ opr' = LinkCommutator(CatalogPut(opr, k, [proc |-> s.proc, com |-> ComKey(s),
                                                         shell |-> FALSE]), k, ComKey(s))
            /\ UNCHANGED status
        BY <2>3, <3>3 DEF CreateOperator
      <4>2. OprInv'
        BY <3>1, <4>1, CreateOperatorRows DEF IInv, OprInv
      <4>3. RowsIn(opr')
        BY <3>1, <4>1, CreateOperatorTyped DEF IInv
      <4>4. /\ DOMAIN opr' \subseteq OpKeys
            /\ \A x \in DOMAIN opr' :
                 /\ opr'[x].proc \in Relations \cup {None}
                 /\ opr'[x].com \in OpKeys \cup {NoLink}
                 /\ opr'[x].shell \in BOOLEAN
        BY <4>2, <4>3, RowsTyped DEF OprInv
      <4>. QED  BY <2>1, <2>3, <4>1, <4>2, <4>3, <4>4 DEF IInv, TypeOK
    <3>. QED  BY <3>2, <3>3
  <2>. QED  BY <1>1, <2>2, <2>3 DEF ExecuteStatement
<1>2. CASE Commit
  BY <1>2 DEF Commit, IInv, TypeOK, OprInv, RowsIn
<1>3. CASE Finished
  BY <1>3 DEF Finished, vars, IInv, TypeOK, OprInv, RowsIn
<1>4. CASE UNCHANGED vars
  BY <1>4 DEF vars, IInv, TypeOK, OprInv, RowsIn
<1>. QED  BY <1>1, <1>2, <1>3, <1>4 DEF Next

(* Running the installation script keeps the catalog typed and every row   *)
(* well formed, whatever order the relations' statements come in.          *)
THEOREM CatalogInvariant == Spec => []IInv
BY InitIInv, NextIInv, PTL DEF Spec

(* The catalog pg_call.c's script builds holds functions and operators over *)
(* the SQL types the C code knows only, and the statement counter stays     *)
(* within the script.                                                       *)
THEOREM TypeCorrect == Spec => []TypeOK
BY CatalogInvariant, PTL DEF IInv

(* Every COMMUTATOR link between two defined operators joins the operators *)
(* of converse relations (<<# and #>>, << and >>, ...): the planner's      *)
(* argument swap never answers another question.                            *)
LEMMA CommutatorConverseStep == IInv => CommutatorConverse
<1> SUFFICES ASSUME IInv, NEW k \in DOMAIN opr, ~opr[k].shell, opr[k].com # NoLink,
                    opr[k].com \in DOMAIN opr, ~opr[opr[k].com].shell
             PROVE  /\ opr[k].proc \in DOMAIN Converse
                    /\ opr[opr[k].com].proc = Converse[opr[k].proc]
  BY DEF CommutatorConverse
<1> DEFINE p == opr[k].proc
           c == opr[k].com
<1>1. p \in Relations /\ c = ComOf(p, k)
  BY DEF IInv, OprInv, RowOK
<1>2. OperatorClauses[p][2] # None /\ c[1] = OperatorClauses[p][2]
  BY <1>1 DEF ComOf, OpKey
<1>3. p \in DOMAIN Converse /\ OperatorClauses[p][2] = OperatorClauses[Converse[p]][1]
  BY <1>1, <1>2, ClauseTable
<1>4. Converse[p] \in Relations
  BY <1>3 DEF Relations, OperatorClauses, TimeOperatorClauses, SpaceOperatorClauses,
              TimeRels, SpaceRels, Converse, None
<1>5. opr[c].proc \in Relations /\ c[1] = OperatorClauses[opr[c].proc][1]
  BY DEF IInv, OprInv, RowOK
<1>. QED  BY <1>2, <1>3, <1>4, <1>5, ClauseTable

THEOREM CommutatorConverseHolds == Spec => []CommutatorConverse
BY CatalogInvariant, CommutatorConverseStep, PTL

(* Every CREATE FUNCTION the script has run binds temporal_<rel> to the C  *)
(* symbol of its own relation and of its argument types' kinds, the        *)
(* temporal kind for a point against a time type.                           *)
LEMMA SymbolsMatchStep == TypeOK => SymbolsMatch
<1> SUFFICES ASSUME TypeOK, NEW i \in 1..pc - 1, Script[i].stmt = "function"
             PROVE  /\ Script[i].symbol[1] = Script[i].name
                    /\ Script[i].symbol[2] \in SymbolKinds[Script[i].args[1]]
                    /\ Script[i].symbol[3] \in SymbolKinds[Script[i].args[2]]
                    /\ Script[i].args[1] \in {"tgeompoint", "tgeogpoint"}
                       /\ Script[i].args[2] \in {"timestamptz", "timestampset", "period", "periodset"}
                       => Script[i].symbol[2] = "temporal"
  BY DEF SymbolsMatch
<1>1. Script[i] \in GoodStmts
  BY ScriptGood, ElementOfSeq DEF TypeOK
<1>2. Script[i] \in GoodFns
  BY <1>1 DEF GoodStmts, GoodOps, OpStmt
<1>. QED  BY <1>2 DEF GoodFns, SymbolOK, PointTypes, TimeTypes

THEOREM SymbolsMatchHolds == Spec => []SymbolsMatch
BY TypeCorrect, SymbolsMatchStep, PTL
====
