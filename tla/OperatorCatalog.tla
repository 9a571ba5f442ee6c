--------------------------- MODULE OperatorCatalog ---------------------------
(***************************************************************************)
(* The SQL script of the relative position operators of the temporal      *)
(* points (tpoint_posops.sql, embedded at src/meos/src/general/pg_call.c   *)
(* lines 937-2512), run statement by statement as PostgreSQL runs it.     *)
(*                                                                         *)
(* The script is data: a sequence of CREATE FUNCTION and CREATE OPERATOR   *)
(* statements, built here from the blocks the file repeats.  A function    *)
(* temporal_<rel>(l, r) is bound to the C symbol <rel>_<kind l>_<kind r>;  *)
(* the model keeps the symbol as the triple of its parts.  An operator has *)
(* a name, argument types, a procedure and an optional COMMUTATOR.         *)
(*                                                                         *)
(* What PostgreSQL does with a statement is the environment of the script  *)
(* (pg_proc.c, pg_operator.c; not in src/):                                *)
(*  - CREATE FUNCTION fails if the signature exists;                       *)
(*  - CREATE OPERATOR fails if its procedure does not exist for its        *)
(*    argument types, or if the operator exists and is not a shell;        *)
(*  - a COMMUTATOR naming an operator that does not exist yet creates a    *)
(*    shell operator (name and swapped types only), which a later CREATE   *)
(*    OPERATOR fills in, overwriting the shell's commutator link with its  *)
(*    own clause;                                                          *)
(*  - the commutator's own link is set to the new operator if it had none.*)
(* An error aborts the script (the extension script is one transaction).  *)
(***************************************************************************)
EXTENDS Integers, Sequences

None == "none"

(* The relations of the C functions and the C symbol's kind of each SQL    *)
(* type (the C code is outside src/; these are the names the symbols use). *)
SqlTypes == {"timestamptz", "timestampset", "period", "periodset",
             "geometry", "stbox", "tgeompoint", "tgeogpoint"}
SymbolKinds ==
  [timestamptz |-> {"timestamp"}, timestampset |-> {"timestampset"},
   period |-> {"period"}, periodset |-> {"periodset"}, geometry |-> {"geom"},
   stbox |-> {"stbox"}, tgeompoint |-> {"tpoint", "temporal"},
   tgeogpoint |-> {"tpoint", "temporal"}]

-----------------------------------------------------------------------------
(* The script.                                                             *)

(* The relations of a time block, in the order of its statements (lines    *)
(* 976-991), and of a spatial block (lines 1327-1374).                     *)
TimeRels == <<"before", "overbefore", "after", "overafter">>
SpaceRels == <<"left", "overleft", "right", "overright", "below", "overbelow",
               "above", "overabove", "front", "overfront", "back", "overback">>

(* The NAME and COMMUTATOR clauses of the operator of each relation, as    *)
(* every block writes them: a time block (lines 993-1014) and a spatial    *)
(* block (lines 1376-1441).                                                *)
TimeOperatorClausesMutNoAfterCom ==
  [before |-> <<"<<#", "#>>">>, overbefore |-> <<"&<#", None>>,
   after |-> <<"#>>", None>>, overafter |-> <<"#&>", None>>]
TimeOperatorClauses ==
  [before |-> <<"<<#", "#>>">>, overbefore |-> <<"&<#", None>>,
   after |-> <<"#>>", "<<#">>, overafter |-> <<"#&>", None>>]
SpaceOperatorClausesMutBelowCom ==
  [left |-> <<"<<", ">>">>, overleft |-> <<"&<", None>>,
   right |-> <<">>", "<<">>, overright |-> <<"&>", None>>,
   below |-> <<"<<|", "|&>">>, overbelow |-> <<"&<|", None>>,
   above |-> <<"|>>", "<<|">>, overabove |-> <<"|&>", None>>,
   front |-> <<"<</", "/>>">>, overfront |-> <<"&</", None>>,
   back |-> <<"/>>", "<</">>, overback |-> <<"/&>", None>>]
SpaceOperatorClauses ==
  [left |-> <<"<<", ">>">>, overleft |-> <<"&<", None>>,
   right |-> <<">>", "<<">>, overright |-> <<"&>", None>>,
   below |-> <<"<<|", "|>>">>, overbelow |-> <<"&<|", None>>,
   above |-> <<"|>>", "<<|">>, overabove |-> <<"|&>", None>>,
   front |-> <<"<</", "/>>">>, overfront |-> <<"&</", None>>,
   back |-> <<"/>>", "<</">>, overback |-> <<"/&>", None>>]
OperatorClauses ==
  [r \in DOMAIN TimeOperatorClauses \cup DOMAIN SpaceOperatorClauses |->
     IF r \in DOMAIN TimeOperatorClauses THEN TimeOperatorClauses[r]
     ELSE SpaceOperatorClauses[r]]

(* One CREATE FUNCTION temporal_<rel>(l, r) ... AS 'MODULE_PATHNAME',      *)
(* '<rel>_<lk>_<rk>' (lines 976-979), and one CREATE OPERATOR (lines       *)
(* 993-998).                                                               *)
FnStmt(rel, l, r, lk, rk) ==
  [stmt |-> "function", name |-> rel, args |-> <<l, r>>, symbol |-> <<rel, lk, rk>>]
OpStmt(rel, l, r) ==
  [stmt |-> "operator", name |-> OperatorClauses[rel][1], left |-> l, right |-> r,
   proc |-> rel, com |-> OperatorClauses[rel][2]]

(* A block declares the functions of its relations for one pair of types, *)
(* then their operators (lines 976-1014).                                  *)
BlockMutOpsFirst(rels, l, r, lk, rk) ==
  [i \in 1..Len(rels) |-> OpStmt(rels[i], l, r)]
  \o [i \in 1..Len(rels) |-> FnStmt(rels[i], l, r, lk, rk)]
Block(rels, l, r, lk, rk) ==
  [i \in 1..Len(rels) |-> FnStmt(rels[i], l, r, lk, rk)]
  \o [i \in 1..Len(rels) |-> OpStmt(rels[i], l, r)]

(* A time type against both temporal points (lines 976-1057), and a        *)
(* temporal point against the four time types (lines 1648-1815).          *)
TimeLeft(t, k) ==
  Block(TimeRels, t, "tgeompoint", k, "temporal")
  \o Block(TimeRels, t, "tgeogpoint", k, "temporal")
PointTime(p) ==
  Block(TimeRels, p, "timestamptz", "temporal", "timestamp")
  \o Block(TimeRels, p, "timestampset", "temporal", "timestampset")
  \o Block(TimeRels, p, "period", "temporal", "period")
  \o Block(TimeRels, p, "periodset", "temporal", "periodset")

(* The sections of the file, in its order.                                 *)
TimestamptzOpsMutType == TimeLeft("timestamp", "timestamp")
TimestamptzOps == TimeLeft("timestamptz", "timestamp")
TimestampsetOpsMutKind == TimeLeft("timestampset", "timestamp")
TimestampsetOps == TimeLeft("timestampset", "timestampset")
PeriodOps == TimeLeft("period", "period")
PeriodsetOps == TimeLeft("periodset", "periodset")
GeometryOps == Block(SpaceRels, "geometry", "tgeompoint", "geom", "tpoint")
StboxTgeompointOps ==
  Block(SpaceRels \o TimeRels, "stbox", "tgeompoint", "stbox", "tpoint")
StboxTgeogpointOps == Block(TimeRels, "stbox", "tgeogpoint", "stbox", "tpoint")
TgeompointTimeOps == PointTime("tgeompoint")
TgeompointGeometryOps == Block(SpaceRels, "tgeompoint", "geometry", "tpoint", "geom")
TgeompointStboxOps ==
  Block(SpaceRels \o TimeRels, "tgeompoint", "stbox", "tpoint", "stbox")
TgeompointOps ==
  Block(SpaceRels \o TimeRels, "tgeompoint", "tgeompoint", "tpoint", "tpoint")
TgeogpointTimeOps == PointTime("tgeogpoint")
TgeogpointBoxOps ==
  Block(TimeRels, "tgeogpoint", "stbox", "tpoint", "stbox")
  \o Block(TimeRels, "tgeogpoint", "tgeogpoint", "tpoint", "tpoint")

Script ==
  TimestamptzOps \o TimestampsetOps \o PeriodOps \o PeriodsetOps
  \o GeometryOps \o StboxTgeompointOps \o StboxTgeogpointOps
  \o TgeompointTimeOps \o TgeompointGeometryOps \o TgeompointStboxOps
  \o TgeompointOps \o TgeogpointTimeOps \o TgeogpointBoxOps

-----------------------------------------------------------------------------
(* Running the script.  fns holds the declared functions as <<name, arg    *)
(* types>>; opr maps an operator <<name, left, right>> to its procedure,  *)
(* its commutator (an operator key or NoLink) and whether it is a shell;    *)
(* pc is the next statement.                                              *)
VARIABLES fns, opr, pc, status
vars == <<fns, opr, pc, status>>

OpKey(name, l, r) == <<name, l, r>>
NoLink == << >>
ComKey(s) == IF s.com = None THEN NoLink ELSE OpKey(s.com, s.right, s.left)

(* The catalog o with the row of key k set to v, inserted if it is new.    *)
CatalogPut(o, k, v) == [x \in DOMAIN o \cup {k} |-> IF x = k THEN v ELSE o[x]]

Init ==
  /\ fns = {}
  /\ opr = << >>
  /\ pc = 1
  /\ status = "running"

(* CREATE FUNCTION: an existing signature is an error.                    *)
CreateFunction(s) ==
  IF <<s.name, s.args>> \in fns
  THEN status' = "failed" /\ UNCHANGED fns
  ELSE fns' = fns \cup {<<s.name, s.args>>} /\ UNCHANGED status

(* The commutator after CREATE OPERATOR k: a missing one becomes a shell  *)
(* linked back to k; an existing one without a link is linked to k.       *)
LinkCommutator(o, k, c) ==
  IF c = NoLink THEN o
  ELSE IF c \notin DOMAIN o
       THEN CatalogPut(o, c, [proc |-> None, com |-> k, shell |-> TRUE])
       ELSE IF o[c].com = NoLink THEN [o EXCEPT ![c].com = k] ELSE o

(* CREATE OPERATOR: the procedure must exist for the argument types, and  *)
(* the operator must not exist unless as a shell, which it fills in.      *)
CreateOperator(s) ==
  LET k == OpKey(s.name, s.left, s.right) IN
  IF \/ <<s.proc, <<s.left, s.right>>>> \notin fns
     \/ k \in DOMAIN opr /\ ~opr[k].shell
  THEN status' = "failed" /\ UNCHANGED opr
  ELSE /\ opr' = LinkCommutator(CatalogPut(opr, k, [proc |-> s.proc, com |-> ComKey(s),
                                                   shell |-> FALSE]), k, ComKey(s))
       /\ UNCHANGED status

(* The next statement of the script.                                      *)
ExecuteStatement ==
  /\ status = "running"
  /\ pc <= Len(Script)
  /\ pc' = pc + 1
  /\ \/ Script[pc].stmt = "function" /\ CreateFunction(Script[pc]) /\ UNCHANGED opr
     \/ Script[pc].stmt = "operator" /\ CreateOperator(Script[pc]) /\ UNCHANGED fns

(* The end of the script commits it.                                      *)
Commit ==
  /\ status = "running"
  /\ pc > Len(Script)
  /\ status' = "done"
  /\ UNCHANGED <<fns, opr, pc>>

(* After the commit or an error the installation is over.                 *)
Finished ==
  /\ status # "running"
  /\ UNCHANGED vars

Next == ExecuteStatement \/ Commit \/ Finished

Spec == Init /\ [][Next]_vars

-----------------------------------------------------------------------------
(* Properties.                                                             *)

Relations == {TimeRels[i] : i \in DOMAIN TimeRels} \cup {SpaceRels[i] : i \in DOMAIN SpaceRels}
OpNames == {OperatorClauses[r][1] : r \in Relations}
OpKeys == OpNames \X SqlTypes \X SqlTypes

(* Every statement names a known type, and the catalog holds functions    *)
(* and operators over those types only (the type names of pg_call.c).     *)
TypeOK ==
  /\ fns \subseteq Relations \X (SqlTypes \X SqlTypes)
  /\ DOMAIN opr \subseteq OpKeys
  /\ \A k \in DOMAIN opr :
       /\ opr[k].proc \in Relations \cup {None}
       /\ opr[k].com \in OpKeys \cup {NoLink}
       /\ opr[k].shell \in BOOLEAN
  /\ pc \in 1..Len(Script) + 1
  /\ status \in {"running", "done", "failed"}

(* The installation script never fails: each function is declared once    *)
(* and before the operator that uses it, and no operator is created twice *)
(* except by filling the shell a forward COMMUTATOR made.                 *)
ScriptSucceeds == status # "failed"

(* Once the script has run, no shell operator is left, and every          *)
(* COMMUTATOR link is answered by a link back, on the swapped types: the  *)
(* planner may then swap the arguments of any of these operators.         *)
InstalledCatalogSound ==
  status = "done" =>
    \A k \in DOMAIN opr :
      /\ ~opr[k].shell
      /\ opr[k].com # NoLink =>
           /\ opr[k].com \in DOMAIN opr
           /\ opr[opr[k].com].com = k
           /\ opr[k].com[2] = k[3] /\ opr[k].com[3] = k[2]

(* A commutator computes the converse relation: a <<# b iff b #>> a,      *)
(* a << b iff b >> a, and so on; a wrong COMMUTATOR clause makes the      *)
(* planner answer a different question.                                   *)
Converse ==
  [before |-> "after", after |-> "before", left |-> "right", right |-> "left",
   below |-> "above", above |-> "below", front |-> "back", back |-> "front"]
CommutatorConverse ==
  \A k \in DOMAIN opr :
    /\ ~opr[k].shell
    /\ opr[k].com # NoLink
    /\ opr[k].com \in DOMAIN opr
    /\ ~opr[opr[k].com].shell
    => /\ opr[k].proc \in DOMAIN Converse
       /\ opr[opr[k].com].proc = Converse[opr[k].proc]

(* Each function is bound to the C symbol of its relation and of the      *)
(* kinds of its argument types (<rel>_<kind>_<kind>): a wrong kind binds  *)
(* the SQL function to the C code of other argument types.                *)
SymbolsMatch ==
  \A i \in 1..pc - 1 :
    Script[i].stmt = "function" =>
      /\ Script[i].symbol[1] = Script[i].name
      /\ Script[i].symbol[2] \in SymbolKinds[Script[i].args[1]]
      /\ Script[i].symbol[3] \in SymbolKinds[Script[i].args[2]]
      /\ Script[i].args[1] \in {"tgeompoint", "tgeogpoint"}
         /\ Script[i].args[2] \in {"timestamptz", "timestampset", "period", "periodset"}
         => Script[i].symbol[2] = "temporal"

=============================================================================
