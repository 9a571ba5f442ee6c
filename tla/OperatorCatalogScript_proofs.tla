------------------- MODULE OperatorCatalogScript_proofs --------------------
(***************************************************************************)
(* The installation of tpoint_posops.sql (pg_call.c lines 937-2512) never  *)
(* fails and leaves a sound catalog.  Both results depend on the order of  *)
(* the script's statements, so they rest on four facts about the script,  *)
(* proved here block by block through its concatenations:                 *)
(*  - no two CREATE FUNCTION statements declare the same signature;       *)
(*  - no two CREATE OPERATOR statements create the same operator;         *)
(*  - every operator's procedure is declared by an earlier statement;     *)
(*  - every COMMUTATOR an operator names is an operator of the script.    *)
(* The run invariant then relates the catalog to the statements run so    *)
(* far.                                                                    *)
(***************************************************************************)
EXTENDS OperatorCatalog_proofs

(* The signature a CREATE FUNCTION declares, the one a CREATE OPERATOR     *)
(* needs for its procedure, and the operator it creates.                   *)
Sig(s) == <<s.name, s.args>>
ProcSig(s) == <<s.proc, <<s.left, s.right>>>>
Key(s) == OpKey(s.name, s.left, s.right)

(* The positions of the functions and the operators of a run of statements *)
(* s, what they declare, and the argument type pairs they are over.        *)
FnPosOf(s) == {i \in 1..Len(s) : s[i].stmt = "function"}
OpPosOf(s) == {i \in 1..Len(s) : s[i].stmt = "operator"}
KeysOf(s) == {Key(s[i]) : i \in OpPosOf(s)}
PairsOf(s) == {s[i].args : i \in FnPosOf(s)} \cup {<<s[i].left, s[i].right>> : i \in OpPosOf(s)}

(* The order facts of a run of statements: signatures and operators are    *)
(* created once, and every operator's procedure is declared before it.     *)
SigsUnique(s) == \A i, j \in FnPosOf(s) : Sig(s[i]) = Sig(s[j]) => i = j
KeysUnique(s) == \A i, j \in OpPosOf(s) : Key(s[i]) = Key(s[j]) => i = j
ProcsDeclared(s) ==
  \A j \in OpPosOf(s) : \E i \in FnPosOf(s) : i < j /\ Sig(s[i]) = ProcSig(s[j])
WellOrdered(s) == SigsUnique(s) /\ KeysUnique(s) /\ ProcsDeclared(s)

(* Every COMMUTATOR named in s is one of the operators K.                   *)
ComsIn(s, K) == \A j \in OpPosOf(s) : ComKey(s[j]) # NoLink => ComKey(s[j]) \in K

(* Equal triples have equal first components.                              *)
LEMMA TripleFirst ==
  ASSUME NEW a, NEW b, NEW c, NEW d, NEW e, NEW f, <<a, b, c>> = <<d, e, f>>
  PROVE  a = d
<1>1. <<a, b, c>>[1] = a /\ <<d, e, f>>[1] = d
  OBVIOUS
<1>. QED  BY <1>1

-----------------------------------------------------------------------------
(* Positions in a concatenation.                                           *)

LEMMA ConcatAt ==
  ASSUME NEW s \in Seq(GoodStmts), NEW t \in Seq(GoodStmts)
  PROVE  /\ s \o t \in Seq(GoodStmts)
         /\ Len(s \o t) = Len(s) + Len(t)
         /\ \A i \in 1..Len(s) : (s \o t)[i] = s[i]
         /\ \A i \in 1..Len(t) : (s \o t)[Len(s) + i] = t[i]
         /\ \A i \in 1..(Len(s) + Len(t)) : i <= Len(s) \/ i - Len(s) \in 1..Len(t)
<1>1. Len(s) \in Nat /\ Len(t) \in Nat
  OBVIOUS
<1>. QED  BY <1>1, ConcatProperties

LEMMA ConcatPos ==
  ASSUME NEW s \in Seq(GoodStmts), NEW t \in Seq(GoodStmts)
  PROVE  /\ FnPosOf(s \o t) = FnPosOf(s) \cup {Len(s) + i : i \in FnPosOf(t)}
         /\ OpPosOf(s \o t) = OpPosOf(s) \cup {Len(s) + i : i \in OpPosOf(t)}
<1>1. Len(s) \in Nat /\ Len(t) \in Nat
  OBVIOUS
<1>2. \A i \in 1..(Len(s) + Len(t)) :
        \/ i \in 1..Len(s) /\ (s \o t)[i] = s[i]
        \/ \E j \in 1..Len(t) : i = Len(s) + j /\ (s \o t)[i] = t[j]
  BY <1>1, ConcatAt
<1>3. \A i \in 1..Len(s) : i \in 1..Len(s \o t) /\ (s \o t)[i] = s[i]
  BY <1>1, ConcatAt
<1>4. \A j \in 1..Len(t) : Len(s) + j \in 1..Len(s \o t) /\ (s \o t)[Len(s) + j] = t[j]
  BY <1>1, ConcatAt
<1>5. Len(s \o t) = Len(s) + Len(t)
  BY ConcatAt
<1>6. ASSUME NEW kind
      PROVE  {i \in 1..Len(s \o t) : (s \o t)[i].stmt = kind}
             = {i \in 1..Len(s) : s[i].stmt = kind}
               \cup {Len(s) + j : j \in {j \in 1..Len(t) : t[j].stmt = kind}}
  <2>1. ASSUME NEW i \in 1..Len(s \o t), (s \o t)[i].stmt = kind
        PROVE  \/ i \in {m \in 1..Len(s) : s[m].stmt = kind}
               \/ i \in {Len(s) + j : j \in {j \in 1..Len(t) : t[j].stmt = kind}}
    BY <1>2, <1>5, <2>1
  <2>2. ASSUME NEW i \in 1..Len(s), s[i].stmt = kind
        PROVE  i \in 1..Len(s \o t) /\ (s \o t)[i].stmt = kind
    BY <1>3, <2>2
  <2>3. ASSUME NEW j \in 1..Len(t), t[j].stmt = kind
        PROVE  Len(s) + j \in 1..Len(s \o t) /\ (s \o t)[Len(s) + j].stmt = kind
    BY <1>4, <2>3
  <2>. QED  BY <2>1, <2>2, <2>3
<1>. QED  BY <1>6 DEF FnPosOf, OpPosOf

(* Two runs of statements over disjoint type pairs keep, concatenated, the *)
(* order facts of each: a signature or operator of one cannot repeat one    *)
(* of the other, and every procedure of the second run is still declared    *)
(* before its operator.                                                      *)
LEMMA ConcatSeg ==
  ASSUME NEW s \in Seq(GoodStmts), NEW t \in Seq(GoodStmts),
         WellOrdered(s), WellOrdered(t), PairsOf(s) \cap PairsOf(t) = {}
  PROVE  /\ WellOrdered(s \o t)
         /\ PairsOf(s \o t) = PairsOf(s) \cup PairsOf(t)
         /\ KeysOf(s \o t) = KeysOf(s) \cup KeysOf(t)
<1> DEFINE u == s \o t
           n == Len(s)
<1>0. n \in Nat /\ Len(t) \in Nat
  OBVIOUS
<1>1. /\ FnPosOf(u) = FnPosOf(s) \cup {n + i : i \in FnPosOf(t)}
      /\ OpPosOf(u) = OpPosOf(s) \cup {n + i : i \in OpPosOf(t)}
  BY ConcatPos
<1>2. /\ \A i \in FnPosOf(s) \cup OpPosOf(s) : u[i] = s[i]
      /\ \A i \in FnPosOf(t) \cup OpPosOf(t) : u[n + i] = t[i]
  BY ConcatAt DEF FnPosOf, OpPosOf
<1>3. /\ \A i \in FnPosOf(s) : s[i].args \in PairsOf(s)
      /\ \A i \in FnPosOf(t) : t[i].args \in PairsOf(t)
      /\ \A i \in OpPosOf(s) : <<s[i].left, s[i].right>> \in PairsOf(s)
      /\ \A i \in OpPosOf(t) : <<t[i].left, t[i].right>> \in PairsOf(t)
  BY DEF PairsOf
<1>4. /\ \A i \in FnPosOf(s), j \in FnPosOf(t) : Sig(s[i]) # Sig(t[j])
      /\ \A i \in OpPosOf(s), j \in OpPosOf(t) : Key(s[i]) # Key(t[j])
  BY <1>3 DEF Sig, Key, OpKey
<1>5. SigsUnique(u)
  <2> SUFFICES ASSUME NEW i \in FnPosOf(u), NEW j \in FnPosOf(u), Sig(u[i]) = Sig(u[j])
               PROVE  i = j
    BY DEF SigsUnique
  <2>1. CASE i \in FnPosOf(s) /\ j \in FnPosOf(s)
    BY <1>2, <2>1 DEF WellOrdered, SigsUnique
  <2>2. CASE i \in FnPosOf(s) /\ j \notin FnPosOf(s)
    <3>1. PICK j1 \in FnPosOf(t) : j = n + j1
      BY <1>1, <2>2
    <3>. QED  BY <1>2, <1>4, <2>2, <3>1
  <2>3. CASE i \notin FnPosOf(s) /\ j \in FnPosOf(s)
    <3>1. PICK i1 \in FnPosOf(t) : i = n + i1
      BY <1>1, <2>3
    <3>. QED  BY <1>2, <1>4, <2>3, <3>1
  <2>4. CASE i \notin FnPosOf(s) /\ j \notin FnPosOf(s)
    <3>1. PICK i1 \in FnPosOf(t) : i = n + i1
      BY <1>1, <2>4
    <3>2. PICK j1 \in FnPosOf(t) : j = n + j1
      BY <1>1, <2>4
    <3>3. Sig(t[i1]) = Sig(t[j1])
      BY <1>2, <3>1, <3>2
    <3>. QED  BY <1>0, <3>1, <3>2, <3>3 DEF WellOrdered, SigsUnique, FnPosOf
  <2>. QED  BY <2>1, <2>2, <2>3, <2>4
<1>6. KeysUnique(u)
  <2> SUFFICES ASSUME NEW i \in OpPosOf(u), NEW j \in OpPosOf(u), Key(u[i]) = Key(u[j])
               PROVE  i = j
    BY DEF KeysUnique
  <2>1. CASE i \in OpPosOf(s) /\ j \in OpPosOf(s)
    BY <1>2, <2>1 DEF WellOrdered, KeysUnique
  <2>2. CASE i \in OpPosOf(s) /\ j \notin OpPosOf(s)
    <3>1. PICK j1 \in OpPosOf(t) : j = n + j1
      BY <1>1, <2>2
    <3>. QED  BY <1>2, <1>4, <2>2, <3>1
  <2>3. CASE i \notin OpPosOf(s) /\ j \in OpPosOf(s)
    <3>1. PICK i1 \in OpPosOf(t) : i = n + i1
      BY <1>1, <2>3
    <3>. QED  BY <1>2, <1>4, <2>3, <3>1
  <2>4. CASE i \notin OpPosOf(s) /\ j \notin OpPosOf(s)
    <3>1. PICK i1 \in OpPosOf(t) : i = n + i1
      BY <1>1, <2>4
    <3>2. PICK j1 \in OpPosOf(t) : j = n + j1
      BY <1>1, <2>4
    <3>3. Key(t[i1]) = Key(t[j1])
      BY <1>2, <3>1, <3>2
    <3>. QED  BY <1>0, <3>1, <3>2, <3>3 DEF WellOrdered, KeysUnique, OpPosOf
  <2>. QED  BY <2>1, <2>2, <2>3, <2>4
<1>7. ProcsDeclared(u)
  <2> SUFFICES ASSUME NEW j \in OpPosOf(u)
               PROVE  \E i \in FnPosOf(u) : i < j /\ Sig(u[i]) = ProcSig(u[j])
    BY DEF ProcsDeclared
  <2>1. CASE j \in OpPosOf(s)
    <3>1. PICK i \in FnPosOf(s) : i < j /\ Sig(s[i]) = ProcSig(s[j])
      BY <2>1 DEF WellOrdered, ProcsDeclared
    <3>. QED  BY <1>1, <1>2, <2>1, <3>1
  <2>2. CASE j \notin OpPosOf(s)
    <3>1. PICK j1 \in OpPosOf(t) : j = n + j1
      BY <1>1, <2>2
    <3>2. PICK i1 \in FnPosOf(t) : i1 < j1 /\ Sig(t[i1]) = ProcSig(t[j1])
      BY <3>1 DEF WellOrdered, ProcsDeclared
    <3>3. n + i1 \in FnPosOf(u) /\ n + i1 < j
      BY <1>0, <1>1, <3>1, <3>2 DEF FnPosOf, OpPosOf
    <3>. QED  BY <1>2, <3>1, <3>2, <3>3
  <2>. QED  BY <2>1, <2>2
<1>8. PairsOf(u) = PairsOf(s) \cup PairsOf(t)
  <2>1. {u[i].args : i \in FnPosOf(u)}
        = {s[i].args : i \in FnPosOf(s)} \cup {t[i].args : i \in FnPosOf(t)}
    <3>1. \A i \in FnPosOf(u) : \/ i \in FnPosOf(s) /\ u[i] = s[i]
                                \/ \E j \in FnPosOf(t) : u[i] = t[j]
      BY <1>1, <1>2
    <3>2. \A j \in FnPosOf(t) : n + j \in FnPosOf(u) /\ u[n + j] = t[j]
      BY <1>1, <1>2
    <3>3. \A i \in FnPosOf(s) : i \in FnPosOf(u) /\ u[i] = s[i]
      BY <1>1, <1>2
    <3>4. ASSUME NEW i \in FnPosOf(u)
          PROVE  u[i].args \in {s[k].args : k \in FnPosOf(s)} \cup {t[k].args : k \in FnPosOf(t)}
      BY <3>1
    <3>5. ASSUME NEW x \in {s[k].args : k \in FnPosOf(s)} \cup {t[k].args : k \in FnPosOf(t)}
          PROVE  \E i \in FnPosOf(u) : x = u[i].args
      BY <3>2, <3>3
    <3>. QED  BY <3>4, <3>5
  <2>2. {<<u[i].left, u[i].right>> : i \in OpPosOf(u)}
        = {<<s[i].left, s[i].right>> : i \in OpPosOf(s)}
          \cup {<<t[i].left, t[i].right>> : i \in OpPosOf(t)}
    <3>1. \A i \in OpPosOf(u) : \/ i \in OpPosOf(s) /\ u[i] = s[i]
                                \/ \E j \in OpPosOf(t) : u[i] = t[j]
      BY <1>1, <1>2
    <3>2. \A j \in OpPosOf(t) : n + j \in OpPosOf(u) /\ u[n + j] = t[j]
      BY <1>1, <1>2
    <3>3. \A i \in OpPosOf(s) : i \in OpPosOf(u) /\ u[i] = s[i]
      BY <1>1, <1>2
    <3>. QED  BY <3>1, <3>2, <3>3
  <2>. QED  BY <2>1, <2>2 DEF PairsOf
<1>9. KeysOf(u) = KeysOf(s) \cup KeysOf(t)
  <2>1. \A i \in OpPosOf(u) : \/ i \in OpPosOf(s) /\ u[i] = s[i]
                              \/ \E j \in OpPosOf(t) : u[i] = t[j]
    BY <1>1, <1>2
  <2>2. \A j \in OpPosOf(t) : n + j \in OpPosOf(u) /\ u[n + j] = t[j]
    BY <1>1, <1>2
  <2>3. \A i \in OpPosOf(s) : i \in OpPosOf(u) /\ u[i] = s[i]
    BY <1>1, <1>2
  <2>. QED  BY <2>1, <2>2, <2>3 DEF KeysOf
<1>. QED  BY <1>5, <1>6, <1>7, <1>8, <1>9 DEF WellOrdered

(* Concatenation keeps every COMMUTATOR among the operators K.              *)
LEMMA ConcatComs ==
  ASSUME NEW s \in Seq(GoodStmts), NEW t \in Seq(GoodStmts), NEW K,
         ComsIn(s, K), ComsIn(t, K)
  PROVE  ComsIn(s \o t, K)
<1>1. OpPosOf(s \o t) = OpPosOf(s) \cup {Len(s) + i : i \in OpPosOf(t)}
  BY ConcatPos
<1>2. /\ \A i \in OpPosOf(s) : (s \o t)[i] = s[i]
      /\ \A i \in OpPosOf(t) : (s \o t)[Len(s) + i] = t[i]
  BY ConcatAt DEF OpPosOf
<1>. QED  BY <1>1, <1>2 DEF ComsIn

-----------------------------------------------------------------------------
(* A block (lines 976-1014): the functions of its relations, then their    *)
(* operators, all over one pair of argument types.                         *)

RelSet(rels) == {rels[i] : i \in 1..Len(rels)}
BlockKeys(rels, l, r) == {<<OperatorClauses[rel][1], l, r>> : rel \in RelSet(rels)}

(* Where a block holds its functions and its operators.                     *)
LEMMA BlockPos ==
  ASSUME NEW rels \in Seq(Relations), NEW l \in SqlTypes, NEW r \in SqlTypes,
         NEW lk, NEW rk, SymbolOK(l, r, lk, rk)
  PROVE  /\ Block(rels, l, r, lk, rk) \in Seq(GoodStmts)
         /\ FnPosOf(Block(rels, l, r, lk, rk)) = 1..Len(rels)
         /\ OpPosOf(Block(rels, l, r, lk, rk)) = {Len(rels) + i : i \in 1..Len(rels)}
         /\ \A i \in 1..Len(rels) :
              /\ Block(rels, l, r, lk, rk)[i] = FnStmt(rels[i], l, r, lk, rk)
              /\ Block(rels, l, r, lk, rk)[Len(rels) + i] = OpStmt(rels[i], l, r)
<1> DEFINE n == Len(rels)
           F == [i \in 1..n |-> FnStmt(rels[i], l, r, lk, rk)]
           O == [i \in 1..n |-> OpStmt(rels[i], l, r)]
<1>0. n \in Nat /\ F \o O = Block(rels, l, r, lk, rk)
  BY DEF Block
<1>1. F \in Seq(GoodStmts) /\ O \in Seq(GoodStmts)
  <2>1. lk \in Kinds /\ rk \in Kinds
    BY DEF SymbolOK, Kinds
  <2>2. \A i \in 1..n : FnStmt(rels[i], l, r, lk, rk) \in GoodFns
    BY <2>1 DEF FnStmt, GoodFns
  <2>3. \A i \in 1..n : OpStmt(rels[i], l, r) \in GoodOps
    BY DEF GoodOps
  <2>. QED  BY <2>2, <2>3 DEF GoodStmts
<1>2. Len(F) = n /\ Len(O) = n
  OBVIOUS
<1>3. /\ FnPosOf(F) = 1..n /\ OpPosOf(F) = {}
      /\ FnPosOf(O) = {} /\ OpPosOf(O) = 1..n
  BY DEF FnPosOf, OpPosOf, FnStmt, OpStmt
<1>4. /\ FnPosOf(F \o O) = 1..n
      /\ OpPosOf(F \o O) = {n + i : i \in 1..n}
  <2>1. /\ FnPosOf(F \o O) = FnPosOf(F) \cup {Len(F) + i : i \in FnPosOf(O)}
        /\ OpPosOf(F \o O) = OpPosOf(F) \cup {Len(F) + i : i \in OpPosOf(O)}
    BY <1>1, ConcatPos
  <2>. QED  BY <1>2, <1>3, <2>1
<1>5. \A i \in 1..n : (F \o O)[i] = FnStmt(rels[i], l, r, lk, rk)
                      /\ (F \o O)[n + i] = OpStmt(rels[i], l, r)
  BY <1>1, <1>2, ConcatAt
<1>. QED  BY <1>0, <1>1, <1>4, <1>5, ConcatAt

LEMMA BlockSeg ==
  ASSUME NEW rels \in Seq(Relations), NEW l \in SqlTypes, NEW r \in SqlTypes,
         NEW lk, NEW rk, SymbolOK(l, r, lk, rk),
         \A i, j \in 1..Len(rels) : rels[i] = rels[j] => i = j
  PROVE  /\ Block(rels, l, r, lk, rk) \in Seq(GoodStmts)
         /\ WellOrdered(Block(rels, l, r, lk, rk))
         /\ PairsOf(Block(rels, l, r, lk, rk)) \subseteq {<<l, r>>}
         /\ KeysOf(Block(rels, l, r, lk, rk)) = BlockKeys(rels, l, r)
<1> DEFINE n == Len(rels)
           b == Block(rels, l, r, lk, rk)
<1>0. n \in Nat
  OBVIOUS
<1>4. /\ b \in Seq(GoodStmts)
      /\ FnPosOf(b) = 1..n
      /\ OpPosOf(b) = {n + i : i \in 1..n}
  BY BlockPos
<1>5. /\ \A i \in 1..n : b[i] = FnStmt(rels[i], l, r, lk, rk)
      /\ \A i \in 1..n : b[n + i] = OpStmt(rels[i], l, r)
  BY BlockPos
<1>6. ASSUME NEW i \in 1..n
      PROVE  /\ Sig(b[i]) = <<rels[i], <<l, r>>>>
             /\ b[i].args = <<l, r>>
             /\ Key(b[n + i]) = <<OperatorClauses[rels[i]][1], l, r>>
             /\ ProcSig(b[n + i]) = <<rels[i], <<l, r>>>>
             /\ <<b[n + i].left, b[n + i].right>> = <<l, r>>
  <2>1. b[i] = FnStmt(rels[i], l, r, lk, rk) /\ b[n + i] = OpStmt(rels[i], l, r)
    BY <1>5
  <2>2. b[i].name = rels[i] /\ b[i].args = <<l, r>>
    BY <2>1 DEF FnStmt
  <2>3. /\ b[n + i].name = OperatorClauses[rels[i]][1] /\ b[n + i].proc = rels[i]
        /\ b[n + i].left = l /\ b[n + i].right = r
    BY <2>1 DEF OpStmt
  <2>. QED  BY <2>2, <2>3 DEF Sig, Key, ProcSig, OpKey
<1>7. SigsUnique(b)
  BY <1>4, <1>6 DEF SigsUnique
<1>8. KeysUnique(b)
  <2> SUFFICES ASSUME NEW i \in 1..n, NEW j \in 1..n, Key(b[n + i]) = Key(b[n + j])
               PROVE  n + i = n + j
    BY <1>4 DEF KeysUnique
  <2>0. /\ Key(b[n + i]) = <<OperatorClauses[rels[i]][1], l, r>>
        /\ Key(b[n + j]) = <<OperatorClauses[rels[j]][1], l, r>>
    BY <1>6
  <2>a. <<OperatorClauses[rels[i]][1], l, r>> = <<OperatorClauses[rels[j]][1], l, r>>
    BY <2>0
  <2>1. OperatorClauses[rels[i]][1] = OperatorClauses[rels[j]][1]
    BY <2>a, TripleFirst
  <2>2. rels[i] \in Relations /\ rels[j] \in Relations
    OBVIOUS
  <2>3. rels[i] = rels[j]
    BY <2>1, <2>2, ClauseTable
  <2>. QED  BY <2>3
<1>9. ProcsDeclared(b)
  <2> SUFFICES ASSUME NEW j \in 1..n
               PROVE  \E i \in FnPosOf(b) : i < n + j /\ Sig(b[i]) = ProcSig(b[n + j])
    BY <1>4 DEF ProcsDeclared
  <2>1. j \in FnPosOf(b) /\ j < n + j
    BY <1>0, <1>4
  <2>2. Sig(b[j]) = ProcSig(b[n + j])
    BY <1>6
  <2>. QED  BY <2>1, <2>2
<1>10. PairsOf(b) \subseteq {<<l, r>>}
  <2>1. \A i \in FnPosOf(b) : b[i].args = <<l, r>>
    BY <1>4, <1>6
  <2>2. \A k \in OpPosOf(b) : <<b[k].left, b[k].right>> = <<l, r>>
    BY <1>4, <1>6
  <2>. QED  BY <2>1, <2>2 DEF PairsOf
<1>11. KeysOf(b) = BlockKeys(rels, l, r)
  <2>1. \A k \in OpPosOf(b) : \E i \in 1..n : Key(b[k]) = <<OperatorClauses[rels[i]][1], l, r>>
    BY <1>4, <1>6
  <2>2. \A i \in 1..n : n + i \in OpPosOf(b) /\ Key(b[n + i]) = <<OperatorClauses[rels[i]][1], l, r>>
    BY <1>4, <1>6
  <2>3. ASSUME NEW x \in KeysOf(b) PROVE x \in BlockKeys(rels, l, r)
    BY <2>1 DEF KeysOf, BlockKeys, RelSet
  <2>4. ASSUME NEW x \in BlockKeys(rels, l, r) PROVE x \in KeysOf(b)
    <3>1. PICK i \in 1..n : x = <<OperatorClauses[rels[i]][1], l, r>>
      BY DEF BlockKeys, RelSet
    <3>. QED  BY <2>2, <3>1 DEF KeysOf
  <2>. QED  BY <2>3, <2>4
<1>. QED  BY <1>4, <1>7, <1>8, <1>9, <1>10, <1>11 DEF WellOrdered

(* The COMMUTATORs of a block are among the operators K when K holds, for  *)
(* each relation with a COMMUTATOR clause, its operator on swapped types.  *)
LEMMA BlockComs ==
  ASSUME NEW rels \in Seq(Relations), NEW l \in SqlTypes, NEW r \in SqlTypes,
         NEW lk, NEW rk, SymbolOK(l, r, lk, rk), NEW K,
         \A rel \in RelSet(rels) :
           OperatorClauses[rel][2] # None => <<OperatorClauses[rel][2], r, l>> \in K
  PROVE  ComsIn(Block(rels, l, r, lk, rk), K)
<1> DEFINE n == Len(rels)
           b == Block(rels, l, r, lk, rk)
<1>1. OpPosOf(b) = {n + i : i \in 1..n}
  BY BlockPos
<1>0. \A x \in 1..n : b[n + x] = OpStmt(rels[x], l, r)
  <2>1. \A x \in 1..Len(rels) :
          Block(rels, l, r, lk, rk)[Len(rels) + x] = OpStmt(rels[x], l, r)
    BY BlockPos
  <2>. QED  BY <2>1
<1>2. ASSUME NEW i \in 1..n
      PROVE  /\ rels[i] \in RelSet(rels)
             /\ ComKey(b[n + i]) = IF OperatorClauses[rels[i]][2] = None THEN NoLink
                                  ELSE <<OperatorClauses[rels[i]][2], r, l>>
  <2>1. b[n + i] = OpStmt(rels[i], l, r)
    BY <1>0
  <2>2. b[n + i].com = OperatorClauses[rels[i]][2] /\ b[n + i].left = l /\ b[n + i].right = r
    BY <2>1 DEF OpStmt
  <2>. QED  BY <2>2 DEF RelSet, ComKey, OpKey
<1>3. \A k \in OpPosOf(b) : \E i \in 1..n : k = n + i
  BY <1>1
<1>. QED  BY <1>2, <1>3 DEF ComsIn

-----------------------------------------------------------------------------
(* The sections of the script.                                             *)

(* A run of statements over the type pairs P with the order facts.         *)
Seg(s, P) == s \in Seq(GoodStmts) /\ WellOrdered(s) /\ PairsOf(s) \subseteq P

LEMMA SegConcat ==
  ASSUME NEW s, NEW t, NEW P, NEW Q, Seg(s, P), Seg(t, Q), P \cap Q = {}
  PROVE  /\ Seg(s \o t, P \cup Q)
         /\ KeysOf(s \o t) = KeysOf(s) \cup KeysOf(t)
<1>1. PairsOf(s) \cap PairsOf(t) = {}
  BY DEF Seg
<1>2. s \o t \in Seq(GoodStmts)
  BY ConcatAt DEF Seg
<1>. QED  BY <1>1, <1>2, ConcatSeg DEF Seg

ST == SpaceRels \o TimeRels

(* The relation lists of the blocks: each lists a relation once, and each  *)
(* holds the converse of every relation of it with a COMMUTATOR clause.    *)
LEMMA RelLists ==
  /\ TimeRels \in Seq(Relations) /\ SpaceRels \in Seq(Relations) /\ ST \in Seq(Relations)
  /\ \A i, j \in 1..Len(TimeRels) : TimeRels[i] = TimeRels[j] => i = j
  /\ \A i, j \in 1..Len(SpaceRels) : SpaceRels[i] = SpaceRels[j] => i = j
  /\ \A i, j \in 1..Len(ST) : ST[i] = ST[j] => i = j
  /\ \A rel \in RelSet(TimeRels) :
       OperatorClauses[rel][2] # None => Converse[rel] \in RelSet(TimeRels)
  /\ \A rel \in RelSet(ST) :
       OperatorClauses[rel][2] # None => Converse[rel] \in RelSet(ST)
  /\ \A rel \in RelSet(SpaceRels) :
       OperatorClauses[rel][2] # None => Converse[rel] \in RelSet(SpaceRels)
<1>1. TimeRels \in Seq(Relations) /\ SpaceRels \in Seq(Relations) /\ ST \in Seq(Relations)
  BY RelSeqs DEF ST
<1>2. /\ Len(ST) = 16
      /\ \A i \in 1..12 : ST[i] = SpaceRels[i]
      /\ \A i \in 1..4 : ST[12 + i] = TimeRels[i]
  <2>1. Len(SpaceRels) = 12 /\ Len(TimeRels) = 4
    BY DEF SpaceRels, TimeRels
  <2>2. TimeRels \in Seq(Relations) /\ SpaceRels \in Seq(Relations)
    BY RelSeqs
  <2>3. /\ Len(ST) = Len(SpaceRels) + Len(TimeRels)
        /\ \A i \in 1..(Len(SpaceRels) + Len(TimeRels)) :
             ST[i] = IF i <= Len(SpaceRels) THEN SpaceRels[i] ELSE TimeRels[i - Len(SpaceRels)]
    BY <2>2, ConcatProperties DEF ST
  <2>. QED  BY <2>1, <2>3
<1>3. /\ \A i, j \in 1..Len(TimeRels) : TimeRels[i] = TimeRels[j] => i = j
      /\ \A i, j \in 1..Len(SpaceRels) : SpaceRels[i] = SpaceRels[j] => i = j
  BY DEF TimeRels, SpaceRels
<1>4. \A i, j \in 1..Len(ST) : ST[i] = ST[j] => i = j
  BY <1>2 DEF TimeRels, SpaceRels
<1>5. /\ RelSet(TimeRels) = {"before", "overbefore", "after", "overafter"}
      /\ RelSet(SpaceRels) = {"left", "overleft", "right", "overright", "below", "overbelow",
                              "above", "overabove", "front", "overfront", "back", "overback"}
  BY DEF RelSet, TimeRels, SpaceRels
<1>6. RelSet(ST) = RelSet(SpaceRels) \cup RelSet(TimeRels)
  <2>1. \A i \in 1..16 : ST[i] \in RelSet(SpaceRels) \cup RelSet(TimeRels)
    BY <1>2, <1>5 DEF TimeRels, SpaceRels
  <2>2. \A x \in RelSet(SpaceRels) \cup RelSet(TimeRels) : \E i \in 1..16 : ST[i] = x
    BY <1>2, <1>5 DEF TimeRels, SpaceRels
  <2>3. RelSet(ST) \subseteq RelSet(SpaceRels) \cup RelSet(TimeRels)
    BY <1>2, <2>1 DEF RelSet
  <2>4. RelSet(SpaceRels) \cup RelSet(TimeRels) \subseteq RelSet(ST)
    BY <1>2, <2>2 DEF RelSet
  <2>. QED  BY <2>3, <2>4
<1>7. /\ \A rel \in RelSet(TimeRels) :
           OperatorClauses[rel][2] # None => Converse[rel] \in RelSet(TimeRels)
      /\ \A rel \in RelSet(SpaceRels) :
           OperatorClauses[rel][2] # None => Converse[rel] \in RelSet(SpaceRels)
  BY <1>5 DEF OperatorClauses, TimeOperatorClauses, SpaceOperatorClauses, Converse, None
<1>. QED  BY <1>1, <1>3, <1>4, <1>6, <1>7

(* A block over the relations of a list that names each relation once.     *)
LEMMA BlockIsSeg ==
  ASSUME NEW rels \in {TimeRels, SpaceRels, ST}, NEW l \in SqlTypes, NEW r \in SqlTypes,
         NEW lk, NEW rk, SymbolOK(l, r, lk, rk)
  PROVE  /\ Seg(Block(rels, l, r, lk, rk), {<<l, r>>})
         /\ KeysOf(Block(rels, l, r, lk, rk)) = BlockKeys(rels, l, r)
<1>1. rels \in Seq(Relations) /\ \A i, j \in 1..Len(rels) : rels[i] = rels[j] => i = j
  BY RelLists
<1>. QED  BY <1>1, BlockSeg DEF Seg

(* A time type against both temporal points (lines 976-1057).             *)
TLPairs(t) == {<<t, "tgeompoint">>, <<t, "tgeogpoint">>}
TLKeys(t) == BlockKeys(TimeRels, t, "tgeompoint") \cup BlockKeys(TimeRels, t, "tgeogpoint")

LEMMA TimeLeftSeg ==
  ASSUME NEW t \in TimeTypes, NEW k \in SymbolKinds[t]
  PROVE  Seg(TimeLeft(t, k), TLPairs(t)) /\ KeysOf(TimeLeft(t, k)) = TLKeys(t)
<1> DEFINE B1 == Block(TimeRels, t, "tgeompoint", k, "temporal")
           B2 == Block(TimeRels, t, "tgeogpoint", k, "temporal")
<1>1. /\ t \in SqlTypes /\ "tgeompoint" \in SqlTypes /\ "tgeogpoint" \in SqlTypes
      /\ SymbolOK(t, "tgeompoint", k, "temporal")
      /\ SymbolOK(t, "tgeogpoint", k, "temporal")
  BY DEF TimeTypes, SqlTypes, SymbolOK, SymbolKinds, PointTypes
<1>2. Seg(B1, {<<t, "tgeompoint">>}) /\ KeysOf(B1) = BlockKeys(TimeRels, t, "tgeompoint")
  BY <1>1, BlockIsSeg
<1>3. Seg(B2, {<<t, "tgeogpoint">>}) /\ KeysOf(B2) = BlockKeys(TimeRels, t, "tgeogpoint")
  BY <1>1, BlockIsSeg
<1>4. /\ {<<t, "tgeompoint">>} \cap {<<t, "tgeogpoint">>} = {}
      /\ {<<t, "tgeompoint">>} \cup {<<t, "tgeogpoint">>} = {<<t, "tgeompoint">>, <<t, "tgeogpoint">>}
  OBVIOUS
<1>5. Seg(B1 \o B2, {<<t, "tgeompoint">>} \cup {<<t, "tgeogpoint">>})
      /\ KeysOf(B1 \o B2) = KeysOf(B1) \cup KeysOf(B2)
  BY <1>2, <1>3, <1>4, SegConcat, ZenonT(60)
<1>. QED  BY <1>2, <1>3, <1>4, <1>5 DEF TimeLeft, TLPairs, TLKeys

(* A temporal point against the four time types (lines 1648-1815).        *)
PTPairs(p) == {<<p, "timestamptz">>, <<p, "timestampset">>, <<p, "period">>, <<p, "periodset">>}
PTKeys(p) ==
  BlockKeys(TimeRels, p, "timestamptz") \cup BlockKeys(TimeRels, p, "timestampset")
  \cup BlockKeys(TimeRels, p, "period") \cup BlockKeys(TimeRels, p, "periodset")

LEMMA PointTimeSeg ==
  ASSUME NEW p \in PointTypes
  PROVE  Seg(PointTime(p), PTPairs(p)) /\ KeysOf(PointTime(p)) = PTKeys(p)
<1> DEFINE B1 == Block(TimeRels, p, "timestamptz", "temporal", "timestamp")
           B2 == Block(TimeRels, p, "timestampset", "temporal", "timestampset")
           B3 == Block(TimeRels, p, "period", "temporal", "period")
           B4 == Block(TimeRels, p, "periodset", "temporal", "periodset")
           P1 == {<<p, "timestamptz">>}
           P2 == {<<p, "timestampset">>}
           P3 == {<<p, "period">>}
           P4 == {<<p, "periodset">>}
<1>1. /\ p \in SqlTypes /\ "timestamptz" \in SqlTypes /\ "timestampset" \in SqlTypes
      /\ "period" \in SqlTypes /\ "periodset" \in SqlTypes
      /\ SymbolOK(p, "timestamptz", "temporal", "timestamp")
      /\ SymbolOK(p, "timestampset", "temporal", "timestampset")
      /\ SymbolOK(p, "period", "temporal", "period")
      /\ SymbolOK(p, "periodset", "temporal", "periodset")
  BY DEF PointTypes, SqlTypes, SymbolOK, SymbolKinds, TimeTypes
<1>2. Seg(B1, P1) /\ KeysOf(B1) = BlockKeys(TimeRels, p, "timestamptz")
  BY <1>1, BlockIsSeg
<1>3. Seg(B2, P2) /\ KeysOf(B2) = BlockKeys(TimeRels, p, "timestampset")
  BY <1>1, BlockIsSeg
<1>4. Seg(B3, P3) /\ KeysOf(B3) = BlockKeys(TimeRels, p, "period")
  BY <1>1, BlockIsSeg
<1>5. Seg(B4, P4) /\ KeysOf(B4) = BlockKeys(TimeRels, p, "periodset")
  BY <1>1, BlockIsSeg
<1>6. /\ P1 \cap P2 = {} /\ (P1 \cup P2) \cap P3 = {} /\ (P1 \cup P2 \cup P3) \cap P4 = {}
      /\ P1 \cup P2 \cup P3 \cup P4 = {<<p, "timestamptz">>, <<p, "timestampset">>,
                                       <<p, "period">>, <<p, "periodset">>}
  OBVIOUS
<1>7. Seg(B1 \o B2, P1 \cup P2) /\ KeysOf(B1 \o B2) = KeysOf(B1) \cup KeysOf(B2)
  BY <1>2, <1>3, <1>6, SegConcat, ZenonT(60)
<1>8. Seg(B1 \o B2 \o B3, P1 \cup P2 \cup P3)
      /\ KeysOf(B1 \o B2 \o B3) = KeysOf(B1 \o B2) \cup KeysOf(B3)
  BY <1>4, <1>6, <1>7, SegConcat, ZenonT(60)
<1>9. Seg(B1 \o B2 \o B3 \o B4, P1 \cup P2 \cup P3 \cup P4)
      /\ KeysOf(B1 \o B2 \o B3 \o B4) = KeysOf(B1 \o B2 \o B3) \cup KeysOf(B4)
  BY <1>5, <1>6, <1>8, SegConcat, ZenonT(60)
<1>. QED  BY <1>2, <1>3, <1>4, <1>5, <1>6, <1>7, <1>8, <1>9 DEF PointTime, PTPairs, PTKeys

(* A block's COMMUTATORs are among K when K holds the operators of the     *)
(* block over the same relations on the swapped types: a relation's        *)
(* COMMUTATOR clause names the operator of its converse.                   *)
LEMMA MirrorComs ==
  ASSUME NEW rels \in {TimeRels, SpaceRels, ST}, NEW l \in SqlTypes, NEW r \in SqlTypes,
         NEW lk, NEW rk, SymbolOK(l, r, lk, rk), NEW K, BlockKeys(rels, r, l) \subseteq K
  PROVE  ComsIn(Block(rels, l, r, lk, rk), K)
<1>1. rels \in Seq(Relations)
  BY RelLists
<1>2. ASSUME NEW rel \in RelSet(rels), OperatorClauses[rel][2] # None
      PROVE  <<OperatorClauses[rel][2], r, l>> \in K
  <2>1. rel \in Relations
    BY <1>1 DEF RelSet
  <2>2. Converse[rel] \in RelSet(rels)
    BY <1>2, RelLists
  <2>3. OperatorClauses[rel][2] = OperatorClauses[Converse[rel]][1]
    BY <1>2, <2>1, ClauseTable
  <2>4. <<OperatorClauses[Converse[rel]][1], r, l>> \in BlockKeys(rels, r, l)
    BY <2>2 DEF BlockKeys
  <2>. QED  BY <2>3, <2>4
<1>. QED  BY <1>1, <1>2, BlockComs

(* Each section of the script is a run of statements over its own type    *)
(* pairs, and holds the operators of its blocks.                           *)
LEMMA SectionSegs ==
  /\ Seg(TimestamptzOps, TLPairs("timestamptz")) /\ KeysOf(TimestamptzOps) = TLKeys("timestamptz")
  /\ Seg(TimestampsetOps, TLPairs("timestampset")) /\ KeysOf(TimestampsetOps) = TLKeys("timestampset")
  /\ Seg(PeriodOps, TLPairs("period")) /\ KeysOf(PeriodOps) = TLKeys("period")
  /\ Seg(PeriodsetOps, TLPairs("periodset")) /\ KeysOf(PeriodsetOps) = TLKeys("periodset")
  /\ Seg(GeometryOps, {<<"geometry", "tgeompoint">>})
  /\ KeysOf(GeometryOps) = BlockKeys(SpaceRels, "geometry", "tgeompoint")
  /\ Seg(StboxTgeompointOps, {<<"stbox", "tgeompoint">>})
  /\ KeysOf(StboxTgeompointOps) = BlockKeys(ST, "stbox", "tgeompoint")
  /\ Seg(StboxTgeogpointOps, {<<"stbox", "tgeogpoint">>})
  /\ KeysOf(StboxTgeogpointOps) = BlockKeys(TimeRels, "stbox", "tgeogpoint")
  /\ Seg(TgeompointTimeOps, PTPairs("tgeompoint"))
  /\ KeysOf(TgeompointTimeOps) = PTKeys("tgeompoint")
  /\ Seg(TgeompointGeometryOps, {<<"tgeompoint", "geometry">>})
  /\ KeysOf(TgeompointGeometryOps) = BlockKeys(SpaceRels, "tgeompoint", "geometry")
  /\ Seg(TgeompointStboxOps, {<<"tgeompoint", "stbox">>})
  /\ KeysOf(TgeompointStboxOps) = BlockKeys(ST, "tgeompoint", "stbox")
  /\ Seg(TgeompointOps, {<<"tgeompoint", "tgeompoint">>})
  /\ KeysOf(TgeompointOps) = BlockKeys(ST, "tgeompoint", "tgeompoint")
  /\ Seg(TgeogpointTimeOps, PTPairs("tgeogpoint"))
  /\ KeysOf(TgeogpointTimeOps) = PTKeys("tgeogpoint")
  /\ Seg(TgeogpointBoxOps, {<<"tgeogpoint", "stbox">>, <<"tgeogpoint", "tgeogpoint">>})
  /\ KeysOf(TgeogpointBoxOps) = BlockKeys(TimeRels, "tgeogpoint", "stbox")
                                \cup BlockKeys(TimeRels, "tgeogpoint", "tgeogpoint")
<1>1. /\ "timestamptz" \in TimeTypes /\ "timestamp" \in SymbolKinds["timestamptz"]
      /\ "timestampset" \in TimeTypes /\ "timestampset" \in SymbolKinds["timestampset"]
      /\ "period" \in TimeTypes /\ "period" \in SymbolKinds["period"]
      /\ "periodset" \in TimeTypes /\ "periodset" \in SymbolKinds["periodset"]
      /\ "tgeompoint" \in PointTypes /\ "tgeogpoint" \in PointTypes
  BY DEF TimeTypes, SymbolKinds, PointTypes
<1>2. /\ Seg(TimestamptzOps, TLPairs("timestamptz"))
      /\ KeysOf(TimestamptzOps) = TLKeys("timestamptz")
  BY <1>1, TimeLeftSeg DEF TimestamptzOps
<1>3. /\ Seg(TimestampsetOps, TLPairs("timestampset"))
      /\ KeysOf(TimestampsetOps) = TLKeys("timestampset")
  BY <1>1, TimeLeftSeg DEF TimestampsetOps
<1>4. Seg(PeriodOps, TLPairs("period")) /\ KeysOf(PeriodOps) = TLKeys("period")
  BY <1>1, TimeLeftSeg DEF PeriodOps
<1>5. Seg(PeriodsetOps, TLPairs("periodset")) /\ KeysOf(PeriodsetOps) = TLKeys("periodset")
  BY <1>1, TimeLeftSeg DEF PeriodsetOps
<1>6. /\ Seg(TgeompointTimeOps, PTPairs("tgeompoint"))
      /\ KeysOf(TgeompointTimeOps) = PTKeys("tgeompoint")
      /\ Seg(TgeogpointTimeOps, PTPairs("tgeogpoint"))
      /\ KeysOf(TgeogpointTimeOps) = PTKeys("tgeogpoint")
  BY <1>1, PointTimeSeg DEF TgeompointTimeOps, TgeogpointTimeOps
<1>7. /\ "geometry" \in SqlTypes /\ "stbox" \in SqlTypes
      /\ "tgeompoint" \in SqlTypes /\ "tgeogpoint" \in SqlTypes
      /\ SymbolOK("geometry", "tgeompoint", "geom", "tpoint")
      /\ SymbolOK("stbox", "tgeompoint", "stbox", "tpoint")
      /\ SymbolOK("stbox", "tgeogpoint", "stbox", "tpoint")
      /\ SymbolOK("tgeompoint", "geometry", "tpoint", "geom")
      /\ SymbolOK("tgeompoint", "stbox", "tpoint", "stbox")
      /\ SymbolOK("tgeompoint", "tgeompoint", "tpoint", "tpoint")
      /\ SymbolOK("tgeogpoint", "stbox", "tpoint", "stbox")
      /\ SymbolOK("tgeogpoint", "tgeogpoint", "tpoint", "tpoint")
  BY DEF SqlTypes, SymbolOK, SymbolKinds, PointTypes, TimeTypes
<1>8. /\ Seg(GeometryOps, {<<"geometry", "tgeompoint">>})
      /\ KeysOf(GeometryOps) = BlockKeys(SpaceRels, "geometry", "tgeompoint")
      /\ Seg(TgeompointGeometryOps, {<<"tgeompoint", "geometry">>})
      /\ KeysOf(TgeompointGeometryOps) = BlockKeys(SpaceRels, "tgeompoint", "geometry")
  BY <1>7, BlockIsSeg DEF GeometryOps, TgeompointGeometryOps
<1>9. /\ Seg(StboxTgeompointOps, {<<"stbox", "tgeompoint">>})
      /\ KeysOf(StboxTgeompointOps) = BlockKeys(ST, "stbox", "tgeompoint")
      /\ Seg(TgeompointStboxOps, {<<"tgeompoint", "stbox">>})
      /\ KeysOf(TgeompointStboxOps) = BlockKeys(ST, "tgeompoint", "stbox")
      /\ Seg(TgeompointOps, {<<"tgeompoint", "tgeompoint">>})
      /\ KeysOf(TgeompointOps) = BlockKeys(ST, "tgeompoint", "tgeompoint")
  BY <1>7, BlockIsSeg DEF StboxTgeompointOps, TgeompointStboxOps, TgeompointOps, ST
<1>10. /\ Seg(StboxTgeogpointOps, {<<"stbox", "tgeogpoint">>})
       /\ KeysOf(StboxTgeogpointOps) = BlockKeys(TimeRels, "stbox", "tgeogpoint")
  BY <1>7, BlockIsSeg DEF StboxTgeogpointOps
<1>11. /\ Seg(TgeogpointBoxOps, {<<"tgeogpoint", "stbox">>, <<"tgeogpoint", "tgeogpoint">>})
       /\ KeysOf(TgeogpointBoxOps) = BlockKeys(TimeRels, "tgeogpoint", "stbox")
                                     \cup BlockKeys(TimeRels, "tgeogpoint", "tgeogpoint")
  <2>1. Seg(Block(TimeRels, "tgeogpoint", "stbox", "tpoint", "stbox"), {<<"tgeogpoint", "stbox">>})
        /\ KeysOf(Block(TimeRels, "tgeogpoint", "stbox", "tpoint", "stbox"))
           = BlockKeys(TimeRels, "tgeogpoint", "stbox")
    BY <1>7, BlockIsSeg
  <2>2. Seg(Block(TimeRels, "tgeogpoint", "tgeogpoint", "tpoint", "tpoint"),
            {<<"tgeogpoint", "tgeogpoint">>})
        /\ KeysOf(Block(TimeRels, "tgeogpoint", "tgeogpoint", "tpoint", "tpoint"))
           = BlockKeys(TimeRels, "tgeogpoint", "tgeogpoint")
    BY <1>7, BlockIsSeg
  <2>3. {<<"tgeogpoint", "stbox">>} \cap {<<"tgeogpoint", "tgeogpoint">>} = {}
    OBVIOUS
  <2>4. Seg(Block(TimeRels, "tgeogpoint", "stbox", "tpoint", "stbox")
            \o Block(TimeRels, "tgeogpoint", "tgeogpoint", "tpoint", "tpoint"),
            {<<"tgeogpoint", "stbox">>} \cup {<<"tgeogpoint", "tgeogpoint">>})
        /\ KeysOf(Block(TimeRels, "tgeogpoint", "stbox", "tpoint", "stbox")
                  \o Block(TimeRels, "tgeogpoint", "tgeogpoint", "tpoint", "tpoint"))
           = KeysOf(Block(TimeRels, "tgeogpoint", "stbox", "tpoint", "stbox"))
             \cup KeysOf(Block(TimeRels, "tgeogpoint", "tgeogpoint", "tpoint", "tpoint"))
    BY <2>1, <2>2, <2>3, SegConcat, ZenonT(60)
  <2>5. {<<"tgeogpoint", "stbox">>} \cup {<<"tgeogpoint", "tgeogpoint">>}
        = {<<"tgeogpoint", "stbox">>, <<"tgeogpoint", "tgeogpoint">>}
    OBVIOUS
  <2>. QED  BY <2>1, <2>2, <2>4, <2>5 DEF TgeogpointBoxOps
<1>. QED  BY <1>2, <1>3, <1>4, <1>5, <1>6, <1>8, <1>9, <1>10, <1>11

(* The whole script: no signature is declared twice, no operator defined  *)
(* twice, each procedure declared before its operator; its operators are *)
(* those of its sections.                                                  *)
LEMMA ScriptOrder ==
  /\ Script \in Seq(GoodStmts)
  /\ WellOrdered(Script)
  /\ KeysOf(Script) = KeysOf(TimestamptzOps)
       \cup KeysOf(TimestampsetOps)
       \cup KeysOf(PeriodOps)
       \cup KeysOf(PeriodsetOps)
       \cup KeysOf(GeometryOps)
       \cup KeysOf(StboxTgeompointOps)
       \cup KeysOf(StboxTgeogpointOps)
       \cup KeysOf(TgeompointTimeOps)
       \cup KeysOf(TgeompointGeometryOps)
       \cup KeysOf(TgeompointStboxOps)
       \cup KeysOf(TgeompointOps)
       \cup KeysOf(TgeogpointTimeOps)
       \cup KeysOf(TgeogpointBoxOps)
<1>0. Seg(TimestamptzOps, TLPairs("timestamptz"))
      /\ Seg(TimestampsetOps, TLPairs("timestampset"))
      /\ Seg(PeriodOps, TLPairs("period"))
      /\ Seg(PeriodsetOps, TLPairs("periodset"))
      /\ Seg(GeometryOps, {<<"geometry", "tgeompoint">>})
      /\ Seg(StboxTgeompointOps, {<<"stbox", "tgeompoint">>})
      /\ Seg(StboxTgeogpointOps, {<<"stbox", "tgeogpoint">>})
      /\ Seg(TgeompointTimeOps, PTPairs("tgeompoint"))
      /\ Seg(TgeompointGeometryOps, {<<"tgeompoint", "geometry">>})
      /\ Seg(TgeompointStboxOps, {<<"tgeompoint", "stbox">>})
      /\ Seg(TgeompointOps, {<<"tgeompoint", "tgeompoint">>})
      /\ Seg(TgeogpointTimeOps, PTPairs("tgeogpoint"))
      /\ Seg(TgeogpointBoxOps, {<<"tgeogpoint", "stbox">>, <<"tgeogpoint", "tgeogpoint">>})
  BY SectionSegs
<1> DEFINE C1 == TimestamptzOps
           P1 == TLPairs("timestamptz")
           C2 == C1 \o TimestampsetOps
           P2 == P1 \cup TLPairs("timestampset")
           C3 == C2 \o PeriodOps
           P3 == P2 \cup TLPairs("period")
           C4 == C3 \o PeriodsetOps
           P4 == P3 \cup TLPairs("periodset")
           C5 == C4 \o GeometryOps
           P5 == P4 \cup {<<"geometry", "tgeompoint">>}
           C6 == C5 \o StboxTgeompointOps
           P6 == P5 \cup {<<"stbox", "tgeompoint">>}
           C7 == C6 \o StboxTgeogpointOps
           P7 == P6 \cup {<<"stbox", "tgeogpoint">>}
           C8 == C7 \o TgeompointTimeOps
           P8 == P7 \cup PTPairs("tgeompoint")
           C9 == C8 \o TgeompointGeometryOps
           P9 == P8 \cup {<<"tgeompoint", "geometry">>}
           C10 == C9 \o TgeompointStboxOps
           P10 == P9 \cup {<<"tgeompoint", "stbox">>}
           C11 == C10 \o TgeompointOps
           P11 == P10 \cup {<<"tgeompoint", "tgeompoint">>}
           C12 == C11 \o TgeogpointTimeOps
           P12 == P11 \cup PTPairs("tgeogpoint")
           C13 == C12 \o TgeogpointBoxOps
           P13 == P12 \cup {<<"tgeogpoint", "stbox">>, <<"tgeogpoint", "tgeogpoint">>}
<1> HIDE DEF C2, P2, C3, P3, C4, P4, C5, P5, C6, P6, C7, P7, C8, P8, C9, P9, C10, P10, C11, P11, C12, P12, C13, P13
<1>2. Seg(C2, P2) /\ KeysOf(C2) = KeysOf(C1) \cup KeysOf(TimestampsetOps)
  <2>1. P1 \cap TLPairs("timestampset") = {}
    BY DEF TLPairs, PTPairs
  <2>. QED  BY <1>0, <2>1, SegConcat, Zenon DEF C2, P2
<1>3. Seg(C3, P3) /\ KeysOf(C3) = KeysOf(C2) \cup KeysOf(PeriodOps)
  <2>1. P2 \cap TLPairs("period") = {}
    BY DEF TLPairs, PTPairs, P2
  <2>. QED  BY <1>0, <1>2, <2>1, SegConcat, Zenon DEF C3, P3
<1>4. Seg(C4, P4) /\ KeysOf(C4) = KeysOf(C3) \cup KeysOf(PeriodsetOps)
  <2>1. P3 \cap TLPairs("periodset") = {}
    BY DEF TLPairs, PTPairs, P2, P3
  <2>. QED  BY <1>0, <1>3, <2>1, SegConcat, Zenon DEF C4, P4
<1>5. Seg(C5, P5) /\ KeysOf(C5) = KeysOf(C4) \cup KeysOf(GeometryOps)
  <2>1. P4 \cap {<<"geometry", "tgeompoint">>} = {}
    BY DEF TLPairs, PTPairs, P2, P3, P4
  <2>. QED  BY <1>0, <1>4, <2>1, SegConcat, Zenon DEF C5, P5
<1>6. Seg(C6, P6) /\ KeysOf(C6) = KeysOf(C5) \cup KeysOf(StboxTgeompointOps)
  <2>1. P5 \cap {<<"stbox", "tgeompoint">>} = {}
    BY DEF TLPairs, PTPairs, P2, P3, P4, P5
  <2>. QED  BY <1>0, <1>5, <2>1, SegConcat, Zenon DEF C6, P6
<1>7. Seg(C7, P7) /\ KeysOf(C7) = KeysOf(C6) \cup KeysOf(StboxTgeogpointOps)
  <2>1. P6 \cap {<<"stbox", "tgeogpoint">>} = {}
    BY DEF TLPairs, PTPairs, P2, P3, P4, P5, P6
  <2>. QED  BY <1>0, <1>6, <2>1, SegConcat, Zenon DEF C7, P7
<1>8. Seg(C8, P8) /\ KeysOf(C8) = KeysOf(C7) \cup KeysOf(TgeompointTimeOps)
  <2>1. P7 \cap PTPairs("tgeompoint") = {}
    BY DEF TLPairs, PTPairs, P2, P3, P4, P5, P6, P7
  <2>. QED  BY <1>0, <1>7, <2>1, SegConcat, Zenon DEF C8, P8
<1>9. Seg(C9, P9) /\ KeysOf(C9) = KeysOf(C8) \cup KeysOf(TgeompointGeometryOps)
  <2>1. P8 \cap {<<"tgeompoint", "geometry">>} = {}
    BY DEF TLPairs, PTPairs, P2, P3, P4, P5, P6, P7, P8
  <2>. QED  BY <1>0, <1>8, <2>1, SegConcat, Zenon DEF C9, P9
<1>10. Seg(C10, P10) /\ KeysOf(C10) = KeysOf(C9) \cup KeysOf(TgeompointStboxOps)
  <2>1. P9 \cap {<<"tgeompoint", "stbox">>} = {}
    BY DEF TLPairs, PTPairs, P2, P3, P4, P5, P6, P7, P8, P9
  <2>. QED  BY <1>0, <1>9, <2>1, SegConcat, Zenon DEF C10, P10
<1>11. Seg(C11, P11) /\ KeysOf(C11) = KeysOf(C10) \cup KeysOf(TgeompointOps)
  <2>1. P10 \cap {<<"tgeompoint", "tgeompoint">>} = {}
    BY DEF TLPairs, PTPairs, P2, P3, P4, P5, P6, P7, P8, P9, P10
  <2>. QED  BY <1>0, <1>10, <2>1, SegConcat, Zenon DEF C11, P11
<1>12. Seg(C12, P12) /\ KeysOf(C12) = KeysOf(C11) \cup KeysOf(TgeogpointTimeOps)
  <2>1. P11 \cap PTPairs("tgeogpoint") = {}
    BY DEF TLPairs, PTPairs, P2, P3, P4, P5, P6, P7, P8, P9, P10, P11
  <2>. QED  BY <1>0, <1>11, <2>1, SegConcat, Zenon DEF C12, P12
<1>13. Seg(C13, P13) /\ KeysOf(C13) = KeysOf(C12) \cup KeysOf(TgeogpointBoxOps)
  <2>1. P12 \cap {<<"tgeogpoint", "stbox">>, <<"tgeogpoint", "tgeogpoint">>} = {}
    BY DEF TLPairs, PTPairs, P2, P3, P4, P5, P6, P7, P8, P9, P10, P11, P12
  <2>. QED  BY <1>0, <1>12, <2>1, SegConcat, Zenon DEF C13, P13
<1>14. Script = C13
  BY DEF Script, C2, C3, C4, C5, C6, C7, C8, C9, C10, C11, C12, C13
<1>. QED  BY <1>13, <1>14, <1>2, <1>3, <1>4, <1>5, <1>6, <1>7, <1>8, <1>9, <1>10, <1>11, <1>12 DEF Seg

(* A time type's section links its operators to those of the temporal     *)
(* points' sections on the swapped types, and back.                        *)
LEMMA TimeLeftComs ==
  ASSUME NEW t \in TimeTypes, NEW k \in SymbolKinds[t], NEW K,
         BlockKeys(TimeRels, "tgeompoint", t) \subseteq K,
         BlockKeys(TimeRels, "tgeogpoint", t) \subseteq K
  PROVE  ComsIn(TimeLeft(t, k), K)
<1>1. /\ t \in SqlTypes /\ "tgeompoint" \in SqlTypes /\ "tgeogpoint" \in SqlTypes
      /\ SymbolOK(t, "tgeompoint", k, "temporal")
      /\ SymbolOK(t, "tgeogpoint", k, "temporal")
  BY DEF TimeTypes, SqlTypes, SymbolOK, SymbolKinds, PointTypes
<1>2. /\ ComsIn(Block(TimeRels, t, "tgeompoint", k, "temporal"), K)
      /\ ComsIn(Block(TimeRels, t, "tgeogpoint", k, "temporal"), K)
  BY <1>1, MirrorComs
<1>3. /\ Block(TimeRels, t, "tgeompoint", k, "temporal") \in Seq(GoodStmts)
      /\ Block(TimeRels, t, "tgeogpoint", k, "temporal") \in Seq(GoodStmts)
  BY <1>1, RelSeqs, BlockGood
<1>. QED  BY <1>2, <1>3, ConcatComs DEF TimeLeft

LEMMA PointTimeComs ==
  ASSUME NEW p \in PointTypes, NEW K, \A t \in TimeTypes : BlockKeys(TimeRels, t, p) \subseteq K
  PROVE  ComsIn(PointTime(p), K)
<1> DEFINE B1 == Block(TimeRels, p, "timestamptz", "temporal", "timestamp")
           B2 == Block(TimeRels, p, "timestampset", "temporal", "timestampset")
           B3 == Block(TimeRels, p, "period", "temporal", "period")
           B4 == Block(TimeRels, p, "periodset", "temporal", "periodset")
<1>1. /\ p \in SqlTypes /\ "timestamptz" \in SqlTypes /\ "timestampset" \in SqlTypes
      /\ "period" \in SqlTypes /\ "periodset" \in SqlTypes
      /\ SymbolOK(p, "timestamptz", "temporal", "timestamp")
      /\ SymbolOK(p, "timestampset", "temporal", "timestampset")
      /\ SymbolOK(p, "period", "temporal", "period")
      /\ SymbolOK(p, "periodset", "temporal", "periodset")
      /\ BlockKeys(TimeRels, "timestamptz", p) \subseteq K
      /\ BlockKeys(TimeRels, "timestampset", p) \subseteq K
      /\ BlockKeys(TimeRels, "period", p) \subseteq K
      /\ BlockKeys(TimeRels, "periodset", p) \subseteq K
  BY DEF PointTypes, SqlTypes, SymbolOK, SymbolKinds, TimeTypes
<1>2. /\ ComsIn(Block(TimeRels, p, "timestamptz", "temporal", "timestamp"), K)
      /\ ComsIn(Block(TimeRels, p, "timestampset", "temporal", "timestampset"), K)
      /\ ComsIn(Block(TimeRels, p, "period", "temporal", "period"), K)
      /\ ComsIn(Block(TimeRels, p, "periodset", "temporal", "periodset"), K)
  BY <1>1, MirrorComs
<1>3. /\ Block(TimeRels, p, "timestamptz", "temporal", "timestamp") \in Seq(GoodStmts)
      /\ Block(TimeRels, p, "timestampset", "temporal", "timestampset") \in Seq(GoodStmts)
      /\ Block(TimeRels, p, "period", "temporal", "period") \in Seq(GoodStmts)
      /\ Block(TimeRels, p, "periodset", "temporal", "periodset") \in Seq(GoodStmts)
  BY <1>1, RelSeqs, BlockGood
<1>4. B1 \o B2 \in Seq(GoodStmts) /\ ComsIn(B1 \o B2, K)
  BY <1>2, <1>3, ConcatComs, ConcatProperties
<1>5. B1 \o B2 \o B3 \in Seq(GoodStmts) /\ ComsIn(B1 \o B2 \o B3, K)
  BY <1>2, <1>3, <1>4, ConcatComs, ConcatProperties
<1>6. ComsIn(B1 \o B2 \o B3 \o B4, K)
  BY <1>2, <1>3, <1>5, ConcatComs
<1>. QED  BY <1>6 DEF PointTime

(* Every COMMUTATOR a statement of the script names is an operator the    *)
(* script creates: each block's mirror block on the swapped types is in   *)
(* the script, over the same relations.                                    *)
LEMMA ScriptComs == ComsIn(Script, KeysOf(Script))
<1> DEFINE K == KeysOf(Script)
<1>1. /\ \A p \in PointTypes, t \in TimeTypes : BlockKeys(TimeRels, t, p) \subseteq K
      /\ \A p \in PointTypes, t \in TimeTypes : BlockKeys(TimeRels, p, t) \subseteq K
      /\ BlockKeys(SpaceRels, "geometry", "tgeompoint") \subseteq K
      /\ BlockKeys(SpaceRels, "tgeompoint", "geometry") \subseteq K
      /\ BlockKeys(ST, "stbox", "tgeompoint") \subseteq K
      /\ BlockKeys(ST, "tgeompoint", "stbox") \subseteq K
      /\ BlockKeys(ST, "tgeompoint", "tgeompoint") \subseteq K
      /\ BlockKeys(TimeRels, "stbox", "tgeogpoint") \subseteq K
      /\ BlockKeys(TimeRels, "tgeogpoint", "stbox") \subseteq K
      /\ BlockKeys(TimeRels, "tgeogpoint", "tgeogpoint") \subseteq K
  BY ScriptOrder, SectionSegs DEF TLKeys, PTKeys, PointTypes, TimeTypes
<1>2. /\ "timestamptz" \in TimeTypes /\ "timestamp" \in SymbolKinds["timestamptz"]
      /\ "timestampset" \in TimeTypes /\ "timestampset" \in SymbolKinds["timestampset"]
      /\ "period" \in TimeTypes /\ "period" \in SymbolKinds["period"]
      /\ "periodset" \in TimeTypes /\ "periodset" \in SymbolKinds["periodset"]
      /\ "tgeompoint" \in PointTypes /\ "tgeogpoint" \in PointTypes
  BY DEF TimeTypes, SymbolKinds, PointTypes
<1>3. /\ ComsIn(TimestamptzOps, K) /\ ComsIn(TimestampsetOps, K)
      /\ ComsIn(PeriodOps, K) /\ ComsIn(PeriodsetOps, K)
  BY <1>1, <1>2, TimeLeftComs DEF TimestamptzOps, TimestampsetOps, PeriodOps, PeriodsetOps
<1>4. ComsIn(TgeompointTimeOps, K) /\ ComsIn(TgeogpointTimeOps, K)
  BY <1>1, <1>2, PointTimeComs DEF TgeompointTimeOps, TgeogpointTimeOps
<1>5. /\ "geometry" \in SqlTypes /\ "stbox" \in SqlTypes
      /\ "tgeompoint" \in SqlTypes /\ "tgeogpoint" \in SqlTypes
      /\ SymbolOK("geometry", "tgeompoint", "geom", "tpoint")
      /\ SymbolOK("stbox", "tgeompoint", "stbox", "tpoint")
      /\ SymbolOK("stbox", "tgeogpoint", "stbox", "tpoint")
      /\ SymbolOK("tgeompoint", "geometry", "tpoint", "geom")
      /\ SymbolOK("tgeompoint", "stbox", "tpoint", "stbox")
      /\ SymbolOK("tgeompoint", "tgeompoint", "tpoint", "tpoint")
      /\ SymbolOK("tgeogpoint", "stbox", "tpoint", "stbox")
      /\ SymbolOK("tgeogpoint", "tgeogpoint", "tpoint", "tpoint")
  BY DEF SqlTypes, SymbolOK, SymbolKinds, PointTypes, TimeTypes
<1>6. /\ ComsIn(GeometryOps, K) /\ ComsIn(TgeompointGeometryOps, K)
      /\ ComsIn(StboxTgeogpointOps, K)
  BY <1>1, <1>5, MirrorComs DEF GeometryOps, TgeompointGeometryOps, StboxTgeogpointOps
<1>7. /\ ComsIn(StboxTgeompointOps, K) /\ ComsIn(TgeompointStboxOps, K)
      /\ ComsIn(TgeompointOps, K)
  BY <1>1, <1>5, MirrorComs DEF StboxTgeompointOps, TgeompointStboxOps, TgeompointOps, ST
<1>8. ComsIn(TgeogpointBoxOps, K)
  <2>1. /\ ComsIn(Block(TimeRels, "tgeogpoint", "stbox", "tpoint", "stbox"), K)
        /\ ComsIn(Block(TimeRels, "tgeogpoint", "tgeogpoint", "tpoint", "tpoint"), K)
    BY <1>1, <1>5, MirrorComs
  <2>2. /\ Block(TimeRels, "tgeogpoint", "stbox", "tpoint", "stbox") \in Seq(GoodStmts)
        /\ Block(TimeRels, "tgeogpoint", "tgeogpoint", "tpoint", "tpoint") \in Seq(GoodStmts)
    BY <1>5, RelSeqs, BlockGood
  <2>. QED  BY <2>1, <2>2, ConcatComs DEF TgeogpointBoxOps
<1>9. TimestamptzOps \in Seq(GoodStmts)
      /\ TimestampsetOps \in Seq(GoodStmts)
      /\ PeriodOps \in Seq(GoodStmts)
      /\ PeriodsetOps \in Seq(GoodStmts)
      /\ GeometryOps \in Seq(GoodStmts)
      /\ StboxTgeompointOps \in Seq(GoodStmts)
      /\ StboxTgeogpointOps \in Seq(GoodStmts)
      /\ TgeompointTimeOps \in Seq(GoodStmts)
      /\ TgeompointGeometryOps \in Seq(GoodStmts)
      /\ TgeompointStboxOps \in Seq(GoodStmts)
      /\ TgeompointOps \in Seq(GoodStmts)
      /\ TgeogpointTimeOps \in Seq(GoodStmts)
      /\ TgeogpointBoxOps \in Seq(GoodStmts)
  BY SectionSegs DEF Seg
<1> DEFINE C1 == TimestamptzOps
           C2 == C1 \o TimestampsetOps
           C3 == C2 \o PeriodOps
           C4 == C3 \o PeriodsetOps
           C5 == C4 \o GeometryOps
           C6 == C5 \o StboxTgeompointOps
           C7 == C6 \o StboxTgeogpointOps
           C8 == C7 \o TgeompointTimeOps
           C9 == C8 \o TgeompointGeometryOps
           C10 == C9 \o TgeompointStboxOps
           C11 == C10 \o TgeompointOps
           C12 == C11 \o TgeogpointTimeOps
           C13 == C12 \o TgeogpointBoxOps
<1> HIDE DEF C2, C3, C4, C5, C6, C7, C8, C9, C10, C11, C12, C13
<1>10. C2 \in Seq(GoodStmts) /\ ComsIn(C2, K)
  BY <1>3, <1>4, <1>6, <1>7, <1>8, <1>9, ConcatComs, ConcatProperties DEF C2
<1>11. C3 \in Seq(GoodStmts) /\ ComsIn(C3, K)
  BY <1>10, <1>3, <1>4, <1>6, <1>7, <1>8, <1>9, ConcatComs, ConcatProperties DEF C3
<1>12. C4 \in Seq(GoodStmts) /\ ComsIn(C4, K)
  BY <1>11, <1>3, <1>4, <1>6, <1>7, <1>8, <1>9, ConcatComs, ConcatProperties DEF C4
<1>13. C5 \in Seq(GoodStmts) /\ ComsIn(C5, K)
  BY <1>12, <1>3, <1>4, <1>6, <1>7, <1>8, <1>9, ConcatComs, ConcatProperties DEF C5
<1>14. C6 \in Seq(GoodStmts) /\ ComsIn(C6, K)
  BY <1>13, <1>3, <1>4, <1>6, <1>7, <1>8, <1>9, ConcatComs, ConcatProperties DEF C6
<1>15. C7 \in Seq(GoodStmts) /\ ComsIn(C7, K)
  BY <1>14, <1>3, <1>4, <1>6, <1>7, <1>8, <1>9, ConcatComs, ConcatProperties DEF C7
<1>16. C8 \in Seq(GoodStmts) /\ ComsIn(C8, K)
  BY <1>15, <1>3, <1>4, <1>6, <1>7, <1>8, <1>9, ConcatComs, ConcatProperties DEF C8
<1>17. C9 \in Seq(GoodStmts) /\ ComsIn(C9, K)
  BY <1>16, <1>3, <1>4, <1>6, <1>7, <1>8, <1>9, ConcatComs, ConcatProperties DEF C9
<1>18. C10 \in Seq(GoodStmts) /\ ComsIn(C10, K)
  BY <1>17, <1>3, <1>4, <1>6, <1>7, <1>8, <1>9, ConcatComs, ConcatProperties DEF C10
<1>19. C11 \in Seq(GoodStmts) /\ ComsIn(C11, K)
  BY <1>18, <1>3, <1>4, <1>6, <1>7, <1>8, <1>9, ConcatComs, ConcatProperties DEF C11
<1>20. C12 \in Seq(GoodStmts) /\ ComsIn(C12, K)
  BY <1>19, <1>3, <1>4, <1>6, <1>7, <1>8, <1>9, ConcatComs, ConcatProperties DEF C12
<1>21. C13 \in Seq(GoodStmts) /\ ComsIn(C13, K)
  BY <1>20, <1>3, <1>4, <1>6, <1>7, <1>8, <1>9, ConcatComs, ConcatProperties DEF C13
<1>. QED  BY <1>21 DEF Script, C2, C3, C4, C5, C6, C7, C8, C9, C10, C11, C12, C13
-----------------------------------------------------------------------------
(* Running the script.                                                     *)

(* The functions and the operators the statements before pc created, and *)
(* the operators they defined.                                             *)
FnDone == {i \in FnPosOf(Script) : i < pc}
OpDone == {i \in OpPosOf(Script) : i < pc}
KeysDone == {Key(Script[i]) : i \in OpDone}

(* The run invariant: the script has not failed; fns holds exactly the    *)
(* signatures of the functions created so far; an operator is defined     *)
(* exactly when its statement has run, and a shell otherwise, made by a   *)
(* COMMUTATOR of the script; every commutator link leads into the catalog.*)
RunInv ==
  /\ IInv
  /\ status \in {"running", "done"}
  /\ status = "done" => pc = Len(Script) + 1
  /\ fns = {Sig(Script[i]) : i \in FnDone}
  /\ KeysDone \subseteq DOMAIN opr
  /\ \A x \in DOMAIN opr : ~opr[x].shell <=> x \in KeysDone
  /\ \A x \in DOMAIN opr : opr[x].shell => x \in KeysOf(Script)
  /\ \A x \in DOMAIN opr : opr[x].com # NoLink => opr[x].com \in DOMAIN opr

(* The catalog after CREATE OPERATOR k with procedure p and commutator c.   *)
PutLinked(o, k, p, c) ==
  LinkCommutator(CatalogPut(o, k, [proc |-> p, com |-> c, shell |-> FALSE]), k, c)

(* What the script's order facts give the run.                             *)
LEMMA ScriptFacts ==
  /\ Script \in Seq(GoodStmts) /\ Len(Script) \in Nat
  /\ SigsUnique(Script) /\ KeysUnique(Script) /\ ProcsDeclared(Script)
  /\ ComsIn(Script, KeysOf(Script))
BY ScriptOrder, ScriptComs DEF WellOrdered

LEMMA InitRunInv == Init => RunInv
<1> SUFFICES ASSUME Init PROVE RunInv
  OBVIOUS
<1>1. IInv
  BY InitIInv
<1>2. FnDone = {} /\ OpDone = {}
  BY DEF Init, FnDone, OpDone, FnPosOf, OpPosOf
<1>3. DOMAIN opr = {}
  BY DEF Init
<1>. QED  BY <1>1, <1>2, <1>3 DEF RunInv, KeysDone, Init

(* CREATE FUNCTION of the statement at pc succeeds: no earlier function    *)
(* has its signature.                                                      *)
LEMMA FunctionStep ==
  ASSUME RunInv, IInv', status = "running", pc <= Len(Script), pc' = pc + 1,
         Script[pc].stmt = "function", CreateFunction(Script[pc]), UNCHANGED opr
  PROVE  RunInv'
<1> DEFINE s == Script[pc]
<1>1. /\ pc \in 1..Len(Script)
      /\ pc \in FnPosOf(Script) /\ pc \notin OpPosOf(Script)
  BY DEF RunInv, IInv, TypeOK, FnPosOf, OpPosOf
<1>2. Sig(s) \notin fns
  <2> SUFFICES ASSUME Sig(s) \in fns PROVE FALSE
    OBVIOUS
  <2>1. PICK i \in FnDone : Sig(Script[i]) = Sig(s)
    BY DEF RunInv
  <2>2. i = pc
    BY <1>1, <2>1, ScriptFacts DEF FnDone, SigsUnique
  <2>. QED  BY <2>1, <2>2, ScriptFacts DEF FnDone, FnPosOf
<1>3. fns' = fns \cup {Sig(s)} /\ status' = status
  BY <1>2 DEF CreateFunction, Sig
<1>4. FnDone' = FnDone \cup {pc} /\ OpDone' = OpDone
  BY <1>1, ScriptFacts DEF FnDone, OpDone, FnPosOf, OpPosOf
<1>5. KeysDone' = KeysDone
  BY <1>4 DEF KeysDone
<1>6. fns' = {Sig(Script[i]) : i \in FnDone'}
  BY <1>3, <1>4 DEF RunInv
<1>. QED  BY <1>3, <1>5, <1>6 DEF RunInv

(* CREATE OPERATOR of the statement at pc succeeds: its procedure was      *)
(* declared earlier and no earlier statement defined it.  It defines its   *)
(* operator, and a forward COMMUTATOR is a shell the script defines later. *)
LEMMA OperatorStep ==
  ASSUME RunInv, IInv', status = "running", pc <= Len(Script), pc' = pc + 1,
         Script[pc].stmt = "operator", CreateOperator(Script[pc]), UNCHANGED fns
  PROVE  RunInv'
<1> DEFINE s == Script[pc]
           k == Key(s)
           c == ComKey(s)
<1>1. /\ pc \in 1..Len(Script)
      /\ pc \in OpPosOf(Script) /\ pc \notin FnPosOf(Script)
  BY DEF RunInv, IInv, TypeOK, FnPosOf, OpPosOf
<1>2. <<s.proc, <<s.left, s.right>>>> \in fns
  <2>1. PICK i \in FnPosOf(Script) : i < pc /\ Sig(Script[i]) = ProcSig(s)
    BY <1>1, ScriptFacts DEF ProcsDeclared
  <2>2. i \in FnDone
    BY <2>1 DEF FnDone
  <2>. QED  BY <2>1, <2>2 DEF RunInv, ProcSig
<1>3. ~(k \in DOMAIN opr /\ ~opr[k].shell)
  <2> SUFFICES ASSUME k \in DOMAIN opr, ~opr[k].shell PROVE FALSE
    OBVIOUS
  <2>1. PICK i \in OpDone : Key(Script[i]) = k
    BY DEF RunInv, KeysDone
  <2>2. i = pc
    BY <1>1, <2>1, ScriptFacts DEF OpDone, KeysUnique
  <2>. QED  BY <2>1, <2>2, ScriptFacts DEF OpDone, OpPosOf
<1>4. opr' = PutLinked(opr, k, s.proc, c) /\ status' = status
  BY <1>2, <1>3 DEF CreateOperator, PutLinked, Key
<1>5. /\ c = NoLink => DOMAIN opr' = DOMAIN opr \cup {k}
      /\ c # NoLink => DOMAIN opr' = DOMAIN opr \cup {k, c}
      /\ opr'[k] = [proc |-> s.proc, com |-> c, shell |-> FALSE]
      /\ \A x \in DOMAIN opr \ {k} :
           opr'[x].shell = opr[x].shell /\ opr'[x].com \in {opr[x].com, k}
      /\ c # NoLink /\ c \notin DOMAIN opr \cup {k} =>
           opr'[c] = [proc |-> None, com |-> k, shell |-> TRUE]
  <2> DEFINE v == [proc |-> s.proc, com |-> c, shell |-> FALSE]
             o1 == CatalogPut(opr, k, v)
  <2>0. RowsIn(opr)
    BY DEF RunInv, IInv
  <2>1. /\ DOMAIN o1 = DOMAIN opr \cup {k}
        /\ o1[k] = v
        /\ \A x \in DOMAIN opr \ {k} : o1[x] = opr[x]
    BY DEF CatalogPut
  <2>2. CASE c = NoLink
    <3>1. opr' = o1
      BY <1>4, <2>2 DEF PutLinked, LinkCommutator
    <3>2. /\ c = NoLink => DOMAIN opr' = DOMAIN opr \cup {k}
          /\ c # NoLink => DOMAIN opr' = DOMAIN opr \cup {k, c}
      BY <2>1, <2>2, <3>1
    <3>3. opr'[k] = v
      BY <2>1, <2>2, <3>1
    <3>4. \A x \in DOMAIN opr \ {k} : opr'[x].shell = opr[x].shell /\ opr'[x].com \in {opr[x].com, k}
      BY <2>1, <2>2, <3>1
    <3>. QED  BY <2>2, <3>2, <3>3, <3>4
  <2>3. CASE c # NoLink /\ c \notin DOMAIN o1
    <3>1. opr' = CatalogPut(o1, c, [proc |-> None, com |-> k, shell |-> TRUE])
      BY <1>4, <2>3 DEF PutLinked, LinkCommutator
    <3>2. c # k
      BY <2>1, <2>3
    <3>3. /\ DOMAIN opr' = DOMAIN o1 \cup {c}
          /\ opr'[k] = o1[k]
          /\ \A x \in DOMAIN opr \ {k} : opr'[x] = o1[x]
          /\ opr'[c] = [proc |-> None, com |-> k, shell |-> TRUE]
      BY <2>1, <2>3, <3>1, <3>2 DEF CatalogPut
    <3>4. /\ c = NoLink => DOMAIN opr' = DOMAIN opr \cup {k}
          /\ c # NoLink => DOMAIN opr' = DOMAIN opr \cup {k, c}
      BY <2>1, <2>3, <3>3
    <3>5. opr'[k] = v
      BY <2>1, <3>3
    <3>6. \A x \in DOMAIN opr \ {k} : opr'[x].shell = opr[x].shell /\ opr'[x].com \in {opr[x].com, k}
      BY <2>1, <3>3
    <3>7. opr'[c] = [proc |-> None, com |-> k, shell |-> TRUE]
      BY <3>3
    <3>. QED  BY <3>4, <3>5, <3>6, <3>7
  <2>4. CASE c # NoLink /\ c \in DOMAIN o1 /\ o1[c].com = NoLink
    <3>1. opr' = [o1 EXCEPT ![c].com = k]
      BY <1>4, <2>4 DEF PutLinked, LinkCommutator
    <3>2. c # k /\ c \in DOMAIN opr
      BY <2>1, <2>4
    <3>3. opr[c] \in Rows
      BY <2>0, <3>2 DEF RowsIn
    <3>4. opr'[c] = [opr[c] EXCEPT !.com = k]
      BY <2>1, <3>1, <3>2
    <3>5. opr'[c].shell = opr[c].shell /\ opr'[c].com = k
      BY <3>3, <3>4 DEF Rows
    <3>6. /\ c = NoLink => DOMAIN opr' = DOMAIN opr \cup {k}
          /\ c # NoLink => DOMAIN opr' = DOMAIN opr \cup {k, c}
      BY <2>1, <2>4, <3>1
    <3>7. opr'[k] = v
      BY <2>1, <3>1, <3>2
    <3>8. \A x \in DOMAIN opr \ {k, c} : opr'[x] = opr[x]
      BY <2>1, <3>1
    <3>9. \A x \in DOMAIN opr \ {k} : opr'[x].shell = opr[x].shell /\ opr'[x].com \in {opr[x].com, k}
      BY <3>5, <3>8
    <3>. QED  BY <2>4, <3>2, <3>6, <3>7, <3>9
  <2>5. CASE c # NoLink /\ c \in DOMAIN o1 /\ o1[c].com # NoLink
    <3>1. opr' = o1
      BY <1>4, <2>5 DEF PutLinked, LinkCommutator
    <3>2. /\ c = NoLink => DOMAIN opr' = DOMAIN opr \cup {k}
          /\ c # NoLink => DOMAIN opr' = DOMAIN opr \cup {k, c}
      BY <2>1, <2>5, <3>1
    <3>3. opr'[k] = v
      BY <2>1, <3>1
    <3>4. \A x \in DOMAIN opr \ {k} : opr'[x].shell = opr[x].shell /\ opr'[x].com \in {opr[x].com, k}
      BY <2>1, <3>1
    <3>. QED  BY <2>1, <2>5, <3>2, <3>3, <3>4
  <2>. QED  BY <2>2, <2>3, <2>4, <2>5
<1>6. FnDone' = FnDone /\ OpDone' = OpDone \cup {pc}
  BY <1>1, ScriptFacts DEF FnDone, OpDone, FnPosOf, OpPosOf
<1>7. KeysDone' = KeysDone \cup {k}
  BY <1>6 DEF KeysDone
<1>8. c # NoLink => c \in KeysOf(Script)
  BY <1>1, ScriptFacts DEF ComsIn
<1>9. KeysDone \subseteq DOMAIN opr
  BY DEF RunInv
<1>10. ASSUME NEW x \in DOMAIN opr'
       PROVE  /\ ~opr'[x].shell <=> x \in KeysDone'
              /\ opr'[x].shell => x \in KeysOf(Script)
              /\ opr'[x].com # NoLink => opr'[x].com \in DOMAIN opr'
  <2>1. CASE x = k
    BY <1>5, <1>7, <2>1
  <2>2. CASE x \in DOMAIN opr /\ x # k
    <3>1. /\ ~opr[x].shell <=> x \in KeysDone
          /\ opr[x].shell => x \in KeysOf(Script)
          /\ opr[x].com # NoLink => opr[x].com \in DOMAIN opr
      BY <2>2 DEF RunInv
    <3>. QED  BY <1>5, <1>7, <2>2, <3>1
  <2>3. CASE x \notin DOMAIN opr /\ x # k
    <3>1. x = c /\ c # NoLink
      BY <1>5, <2>3
    <3>2. opr'[x].shell = TRUE /\ opr'[x].com = k /\ x \notin KeysDone'
      BY <1>5, <1>7, <1>9, <2>3, <3>1
    <3>. QED  BY <1>5, <1>8, <3>1, <3>2
  <2>. QED  BY <2>1, <2>2, <2>3
<1>11. KeysDone' \subseteq DOMAIN opr'
  BY <1>5, <1>7, <1>9
<1>. QED  BY <1>4, <1>6, <1>10, <1>11 DEF RunInv

LEMMA NextRunInv == RunInv /\ [Next]_vars => RunInv'
<1> SUFFICES ASSUME RunInv, [Next]_vars PROVE RunInv'
  OBVIOUS
<1>1. IInv'
  BY NextIInv DEF RunInv
<1>2. CASE ExecuteStatement
  <2>1. status = "running" /\ pc <= Len(Script) /\ pc' = pc + 1
    BY <1>2 DEF ExecuteStatement
  <2>2. CASE Script[pc].stmt = "function" /\ CreateFunction(Script[pc]) /\ UNCHANGED opr
    BY <1>1, <2>1, <2>2, FunctionStep
  <2>3. CASE Script[pc].stmt = "operator" /\ CreateOperator(Script[pc]) /\ UNCHANGED fns
    BY <1>1, <2>1, <2>3, OperatorStep
  <2>. QED  BY <1>2, <2>2, <2>3 DEF ExecuteStatement
<1>3. CASE Commit
  <2>1. pc = Len(Script) + 1
    BY <1>3, ScriptFacts DEF Commit, RunInv, IInv, TypeOK
  <2>2. FnDone' = FnDone /\ OpDone' = OpDone /\ KeysDone' = KeysDone
    BY <1>3 DEF Commit, FnDone, OpDone, KeysDone
  <2>. QED  BY <1>1, <1>3, <2>1, <2>2 DEF Commit, RunInv
<1>4. CASE UNCHANGED vars
  <2>1. FnDone' = FnDone /\ OpDone' = OpDone /\ KeysDone' = KeysDone
    BY <1>4 DEF vars, FnDone, OpDone, KeysDone
  <2>. QED  BY <1>1, <1>4, <2>1 DEF vars, RunInv
<1>. QED  BY <1>2, <1>3, <1>4 DEF Next, Finished

(* The installation script never fails (ExecuteStatement never takes the   *)
(* error branch of CREATE FUNCTION or CREATE OPERATOR in pg_call.c's        *)
(* tpoint_posops.sql), for the script as the file writes it.               *)
THEOREM ScriptSucceedsHolds == Spec => []ScriptSucceeds
<1>1. RunInv => ScriptSucceeds
  BY DEF RunInv, ScriptSucceeds
<1>. QED  BY <1>1, InitRunInv, NextRunInv, PTL DEF Spec

(* The relation of a commutator's commutator: its name clause is the name  *)
(* of the operator the COMMUTATOR clause came from.                        *)
LEMMA ConverseClauses ==
  \A rel \in DOMAIN Converse :
    /\ OperatorClauses[Converse[rel]][2] = OperatorClauses[rel][1]
    /\ OperatorClauses[rel][1] # None
BY DEF Converse, OperatorClauses, TimeOperatorClauses, SpaceOperatorClauses, None

LEMMA InstalledCatalogSoundStep == RunInv => InstalledCatalogSound
<1> SUFFICES ASSUME RunInv, status = "done", NEW k \in DOMAIN opr
             PROVE  /\ ~opr[k].shell
                    /\ opr[k].com # NoLink =>
                         /\ opr[k].com \in DOMAIN opr
                         /\ opr[opr[k].com].com = k
                         /\ opr[k].com[2] = k[3] /\ opr[k].com[3] = k[2]
  BY DEF InstalledCatalogSound
<1>1. KeysDone = KeysOf(Script)
  <2>1. pc = Len(Script) + 1
    BY DEF RunInv
  <2>2. OpDone = OpPosOf(Script)
    BY <2>1, ScriptFacts DEF OpDone, OpPosOf
  <2>. QED  BY <2>2 DEF KeysDone, KeysOf
<1>2. \A x \in DOMAIN opr : ~opr[x].shell
  BY <1>1 DEF RunInv
<1>3. ASSUME opr[k].com # NoLink
      PROVE  /\ opr[k].com \in DOMAIN opr
             /\ opr[opr[k].com].com = k
             /\ opr[k].com[2] = k[3] /\ opr[k].com[3] = k[2]
  <2> DEFINE p == opr[k].proc
             c == opr[k].com
  <2>1. c \in DOMAIN opr
    BY <1>3 DEF RunInv
  <2>2. /\ k \in OpKeys /\ p \in Relations
        /\ k[1] = OperatorClauses[p][1] /\ c = ComOf(p, k)
    BY <1>2 DEF RunInv, IInv, OprInv, RowOK
  <2>3. p \in DOMAIN Converse /\ opr[c].proc = Converse[p]
    BY <1>2, <1>3, <2>1, CommutatorConverseStep DEF RunInv, CommutatorConverse
  <2>4. opr[c].com = ComOf(opr[c].proc, c)
    BY <1>2, <2>1 DEF RunInv, IInv, OprInv, RowOK
  <2>5. OperatorClauses[p][2] # None /\ c = <<OperatorClauses[p][2], k[3], k[2]>>
    BY <1>3, <2>2 DEF ComOf, OpKey
  <2>6. OperatorClauses[Converse[p]][2] = OperatorClauses[p][1]
        /\ OperatorClauses[p][1] # None
    BY <2>3, ConverseClauses
  <2>7. opr[c].com = <<OperatorClauses[p][1], k[2], k[3]>>
    BY <2>3, <2>4, <2>5, <2>6 DEF ComOf, OpKey
  <2>8. k = <<k[1], k[2], k[3]>>
    BY <2>2 DEF OpKeys
  <2>. QED  BY <2>1, <2>2, <2>5, <2>7, <2>8
<1>. QED  BY <1>2, <1>3

(* Once the script has committed, the catalog holds no shell operator and  *)
(* every COMMUTATOR link that pg_call.c's CREATE OPERATOR statements made  *)
(* is answered by a link back on the swapped argument types.               *)
THEOREM InstalledCatalogSoundHolds == Spec => []InstalledCatalogSound
BY InitRunInv, NextRunInv, InstalledCatalogSoundStep, PTL DEF Spec
====
