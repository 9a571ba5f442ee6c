# Verification of the MEOS timestamp code, its SQL operator script and the planner support function

This directory holds TLA+ models of the code in `src/`, the TLC configurations
that model-check them, and TLAPS proofs. Line numbers refer to
`src/meos/src/general/pg_call.c` ("PC") unless
`src/src/general/temporal_supportfn.c` ("SF") is named.

## 1. The system and its parts

`PROJECT.json` lists each part under "components".

| part | where | state it keeps | operations | status, module |
|---|---|---|---|---|
| timestamp and interval arithmetic | PC 541-715 | none: pure functions on `Timestamp` (int64 time units since 2000-01-01, with the sentinels `DT_NOBEGIN`/`DT_NOEND`) and `Interval` (int32 month, int32 day, int64 time) | `pg_interval_pl`, `pg_timestamp_pl_interval`, `pg_timestamp_mi_interval`, `pg_interval_justify_hours`, `pg_timestamp_mi` | modelled: `PgTimestamp` |
| interval comparison | PC 729-764 | none | `interval_cmp_value`, `pg_interval_cmp` (int128) | modelled: `PgTimestampIO` |
| timestamp input and typmod rounding | PC 328-470 | none | `timestamp_in_common`, `AdjustTimestampForTypmodError` | partly: `PgTimestampIO` (the parse is abstracted; date input and all output formatting are not modelled) |
| SQL operator script | PC 937-2512 | the catalog the script builds | 148 `CREATE FUNCTION` and 148 `CREATE OPERATOR` statements with `COMMUTATOR` clauses | modelled: `OperatorCatalog` |
| planner support function | SF 66-593 | the planner's request | `SupportRequestSelectivity`, `SupportRequestIndexCondition` with every early return, the `&&` / `expand` rewrite | modelled: `SupportFn` |
| float trigonometry | PC 87-200 | errno | `pg_dsin`, `pg_dcos`, `pg_datan`, `pg_datan2` | not modelled: IEEE floating point |
| hash functions | PC 765-935 | none | `hash_bytes_uint32`, `hash_bytes_uint32_extended`, `pg_hashint8`, `pg_hashint8extended`, `pg_hashfloat8`, `pg_hashtext` | partly: `PgHash`, TLC only (`pg_hashtext` is one `hash_any` call outside `src/`; `pg_hashfloat8extended` is under `#if 0`) |
| documentation, build | `src/doc/temporal_types.xml`, `src/meos/CMakeLists.txt` | none | none | not modelled: no behaviour |
| temporal value model | the specification (no code in `src/`) | normalised sequences | normalisation, validity | not modelled (planned, spec_modelled) |

How the parts interact:
- `pg_timestamp_mi_interval` negates each field of its interval and calls `pg_timestamp_pl_interval`.
- `pg_timestamp_mi` builds a time-only interval and calls `pg_interval_justify_hours`.
- `timestamp_in_common` calls `tm2timestamp` and then `AdjustTimestampForTypmodError`. Its result is the timestamp the arithmetic works on, so `PgTimestampIO` extends `PgTimestamp`: one caller runs the input, the comparison and the arithmetic in any order.
- The arithmetic calls PostgreSQL's calendar routines `timestamp2tm`, `tm2timestamp`, `date2j` and `j2date`. These live outside `src/`, so the model defines them in its calendar section, as datetime.c writes them. They are not in the map. `j2date` works in `unsigned int`: the model converts the Julian day with `UInt` (modulo `2 * IntHalf`) and wraps its two sums the same way, so a negative Julian day is converted as the build converts it.
- The SQL script binds the C functions to SQL operators and their commutators. The planner support function, attached to the temporal functions, turns their calls into index conditions on the `&&` operator of the same types.

What is hard here:
- The integers have fixed widths. C `int` sums can wrap, and so can int64 sums and negations.
- The valid timestamps cover more than half of the int64 range.
- C division truncates toward zero. This matters for negative month counts and negative times, and for rounding negative timestamps.
- An `elog(ERROR)` in the middle of a computation aborts it.
- The operator script is order-dependent: a `COMMUTATOR` that names an operator not yet created makes a shell, which a later statement must fill in.
- The support function has many early returns, and the indexable-function tables and strategy arrays are indexed by constants that must agree.

`PROJECT.json` lists the hazards, each at the line where it bites, with the properties that cover it.

## 2. `PgTimestamp`: the arithmetic

**State.** A caller holds one timestamp `ts` and one interval `iv`. It counts its `calls` and records in `last` the operation, the argument and whether the call returned. Each action is one call of a C function:

| action | C function | effect |
|---|---|---|
| `IntervalPl` | `pg_interval_pl(iv, s2)`, s2 from `IvInputs` | `iv` := result |
| `TimestampPlInterval` | `pg_timestamp_pl_interval(ts, iv)` | `ts` := result |
| `TimestampMiInterval` | `pg_timestamp_mi_interval(ts, iv)` | `ts` := result |
| `TimestampMi` | `pg_timestamp_mi(ts, t2)`, t2 from `TsInputs` | `iv` := result |
| `Done` | the caller stops after `MaxCalls` calls | stutter |

An `elog(ERROR)` is a result with `ok = FALSE`, and it leaves the registers as they were.

**Machine integers.**
- `Wrap(x, half)` is the two's-complement wrap of a sum or negation, the behaviour of the build for C's undefined signed overflow.
- `WrapInt` is the wrap of a C `int`, `WrapInt64` the wrap of an int64.
- `CDiv` and `CMod` are C's truncating `/` and `%`.

**Each function** is translated from its lines:
- `pg_interval_pl`: each field is summed with its wrap and tested with `FieldOverflows`, which is the `SAMESIGN` check.
- `pg_timestamp_pl_interval` runs three steps in order, each taking the result of the one before:
  - `MonthStep` (lines 598-618: the `tm_mon` sum in a C int, the year normalisation with truncating division, the end-of-month clamp, `tm2timestamp`);
  - `DayStep` (lines 628-636: the Julian day sum in a C int, `j2date` of that day whatever its sign, `tm2timestamp`);
  - `TimeStep` (lines 639-642: the int64 time sum and the `IS_VALID_TIMESTAMP` check).
- `pg_interval_justify_hours`: the `TMODULO`, the day sum in a C int, and the two borrow branches.

**Scaled widths.** The widths and the calendar constants are scaled so that TLC can enumerate them. The relations the code depends on are kept (`MC_PgTimestamp.tla`):
- A C int is `-2^23..2^23-1`, an int64 is `-2^29..2^29-1`, and a day is 100 time units.
- The epoch is Julian day 2451545, as in PostgreSQL.
- The end of the valid range is Julian day 7820245. This puts `END_TIMESTAMP` just below the int64 maximum, as in PostgreSQL.
- Julian days of valid dates fit a C int, and so do the whole days of any int64 time (`WidthAssumption`).

As at full width:
- a time wrap can land inside the valid range;
- a month wrap leads to an error;
- a difference of valid timestamps can overflow.

One behaviour does not scale down. At 32 bits, `j2date` of a Julian day between about -88194 and -32045 wraps to a valid date 88194 days later. A backward day step from an early date then returns a valid timestamp instead of failing. With a 24-bit C int the same wrap lands on a year before -4713, which `tm2timestamp` rejects. The calendar property checked by TLC (`MonthStepsExact`) is therefore restricted to month steps. The day wrap is proved at full width instead (`DayStepWrapsForward`, section 7).

**Inputs.** The inputs are the values that reach the boundaries:
- Timestamps: 0, -1, a few ordinary values, `MIN_TIMESTAMP`, `END_TIMESTAMP-1` and both sentinels.
- Intervals: zero, ±1 in each field, -12 and -13 months, and INT_MAX/INT_MIN (scaled) in each field, the int64 ones included.

`MaxCalls = 3` lets an interval built by `pg_timestamp_mi` or `pg_interval_pl` be added back to a timestamp.

## 3. `PgTimestampIO`: timestamp input and interval comparison

`PgTimestampIO` extends `PgTimestamp` with two more calls of the same caller and two registers: `typmod`, the typmod of the last input, and `cmp`, the result of the last comparison.

| action | C function | effect |
|---|---|---|
| `TimestampIn` | `timestamp_in_common` (lines 418-470) for a parse outcome, a broken-down date and a typmod | `ts` := the rounded timestamp; `last.arg.ts` records the parsed one |
| `IntervalCmp` | `pg_interval_cmp(iv, s2)` (lines 729-764) | `cmp` := -1, 0 or 1 |
| the actions of `PgTimestamp` | as above | `typmod`, `cmp` unchanged |

**The parse is abstracted.** `ParseDateTime` and `DecodeDateTime` are outside `src/`. The model takes their outcome from `DTypes` (a date, `epoch`, `infinity`, `-infinity` or a syntax error) and a broken-down date from `TmInputs`. The `switch` of lines 418-458 follows: `tm2timestamp` for a date, `SetEpochTimestamp`, the two sentinels, an error. Then `AdjustTimestampForTypmodError` (lines 328-376) applies:
- the early return for a sentinel, for typmod -1 and for the full precision;
- the range error for any other typmod outside `0..MAX_TIMESTAMP_PRECISION`;
- the rounding with `TimestampScales` and `TimestampOffsets` (the tables of lines 342-350), with the positive and the negative branch of line 366, in int64 with its wrap.

**The comparison.** `interval_cmp_value` sums the whole days of the time, the months times 30 and the days in int64, with the wrap of each sum. It then builds the int128 `days * USECS_PER_DAY + dayfraction`. TLC's integers are 32 bits, so the model keeps the int128 as its pair (days, dayfraction). `int128_compare` compares pairs exactly: days two apart decide alone, because a fraction is less than a day.

**Scaling.** The precisions 0..6 have the scales 100, 50, 20, 10, 4, 2, 1 of a 100-unit day. This keeps the relations of the real table: the full precision has scale 1, and the other scales are at most a day, even and odd. The broken-down dates include the last instant before `END_TIMESTAMP`, an instant near the epoch, a negative one, the first valid day and one past the end. The typmods are -1, 0, 1, 4, 6 and 7, which reach every branch of the early returns. `MaxCalls = 2`.

## 4. `OperatorCatalog`: the SQL operator script

The script of PC 937-2512 is data. The model builds it from the blocks the file repeats, and an external comparison showed statement for statement that this `Script` is the file's text:
- `TimeLeft`: the four time relations of a time type against both temporal point types;
- `Block`: a run of relations between two types;
- `PointTime`: a temporal point against each time type.

Each `CREATE FUNCTION` binds `temporal_<rel>(l, r)` to the C symbol `<rel>_<kind l>_<kind r>`. Each `CREATE OPERATOR` has a name, argument types, a procedure and an optional `COMMUTATOR`.

**State:**
- `fns`: the created function signatures;
- `opr`: the operators with their procedure, commutator link and shell flag;
- `pc`: the next statement;
- `status`: running, done or failed.

**What PostgreSQL does with a statement** is the environment of the script. It is outside `src/`, so it is marked spec_modelled in the map:
- `CreateFunction`: the statement fails on an existing signature.
- `CreateOperator`: the statement fails if the procedure is missing, or if the operator exists and is not a shell.
- `LinkCommutator`: a missing commutator becomes a shell, and an unlinked one is linked back.
- `ExecuteStatement`, then `Commit`: the script is one transaction, so an error aborts it.

A row is written through `CatalogPut(o, k, v)`, a function over `DOMAIN o \cup {k}`, rather than with TLC's `:>` and `@@`. Those operators have no definition the proof system can expand, and the two forms denote the same catalog.

**Properties:**
- `ScriptSucceeds`: the script runs to its end.
- `InstalledCatalogSound`: at the end no shell is left, and every commutator link is mutual on swapped types.
- `CommutatorConverse`: an operator's commutator names the converse relation.
- `SymbolsMatch`: every function is bound to the C symbol of its argument kinds; a time type against a temporal point uses the `temporal` kind.

## 5. `SupportFn`: the planner support function

**State.**
- `req`: the planner's request.
- `result`: what `temporal_supportfn_internal` returned for it.
- `read`: the strategy-array entry it read.
- `warned`: whether it raised the WARNING for an unsupported function.

**Actions.**
- `SupportRequestSelectivity` (SF 324-352): the estimator of the family for the `&&` operator of the two argument types.
- `SupportRequestIndexCondition` (SF 355-550). It has every early return:
  - the clause is not a function or a binary operator;
  - the access method is neither GiST nor SP-GiST;
  - the index argument is not one of the first two;
  - too few arguments.

  It looks up the function in the family's table (`func_needs_index`), and an unsupported function only warns. It picks the left and right arguments, reads the strategy of the left type (`temporal_get_strategy_by_type`), and computes the expression type. For an expand function it builds `expand(other, radius)` (`makeExpandExpr`). Only with a pseudo-constant right side does it return the lossy condition `leftarg && right`.
- `OtherRequest`: any other request returns NULL.
- `TakeAnswer`: the planner takes the answer and becomes idle again.

**Data.** The tables (`TemporalIndexableFunctions` and the others, the strategy arrays) are translated entry for entry. The requests range over four families, three access methods, argument lists of one to three temporal, base and box types, and every index-argument position.

**Properties:**
- `UnsupportedNeverIndexed`: a function that warns never gets a condition.
- `IndexCondNecessary`: the condition is lossy (SF 541-546), so it must hold of every row the function accepts. It is built with the arguments swapped when the index is on the second argument ("only works for symmetric operators", SF 436-448). That is right only for the symmetric overlap strategy and for a function whose truth implies the overlap of its arguments (`OverlapImplied`: every indexable function except `disjoint`). The request inputs include `disjoint`, which the point families list with the overlap strategy (SF 177).
- `StrategyInBounds`: every strategy read is inside its array.
- `ExpandTypeKnown`: the expand type is always known.

## 5a. `PgHash`: the hash functions

The functions are pure. The module translates:
- lookup3's `rot`, `mix` and `final` (PC 772-793), one operator per line of the macros (`MixLine`, `FinalLine`);
- `hash_bytes_uint32` (PC 803-816);
- `hash_bytes_uint32_extended` (PC 824-842), with the seed guard of PC 829 (`SeedIn`);
- `pg_hashint8` and `pg_hashint8extended` (PC 851-879), with the sign-dependent complement of the high half (`Lohalf`);
- `pg_hashfloat8` (PC 886-903): zero of either sign hashes to 0, and a NaN is replaced by the canonical NaN.

**Data.**
- A uint32 is a word of `WordBits` bits. TLC's integers are 32-bit signed, so the MC module uses 30-bit words. Every rotation of the code (the largest is 25) is still a rotation, and every mixing line is kept.
- An int64 or uint64 is the pair of its halves, which is how the code takes it apart.
- A float8 is a bit-pattern class (`zero`, `negzero`, `nan`, `num`) with an identifier. `hash_any` of its bytes is the same lookup3 hash of the identifier.
- `hashint4` and `hash_any` are PostgreSQL's. They are modelled as hashfn.h defines them.

**State.** A caller (a hash join, or the de-duplication of a set) hashes up to `MaxHashes` values of the types int8, int4, int8 with a seed, and float8, and records each value with its hash. The actions are `HashInt8`, `HashInt4`, `HashInt8Extended` and `HashFloat8`.

**Properties:**
- `CrossTypeHashAlike`: an int8 equal to an int4 has the hash `hashint4` gives it. This is what a cross-type hash join needs, according to the comment of PC 853-860.
- `FloatHashAlike`: -0.0 and 0.0, and any two NaNs, hash alike.
- `ExtendedAgreesAtSeedZero`: with seed 0, the low half of the extended hash is the 32-bit hash.

## 6. Runs

| run | cfg | expect | what it shows |
|---|---|---|---|
| `timestamp_arith` | `MC_PgTimestamp.cfg` | pass | `IntervalPlChecked`, `MonthStepsExact`, `TimestampMiJustified` on three calls of the arithmetic |
| `pl_interval_time_overflow` | `MC_PgTimestamp_PlIntervalExact.cfg` | violation | `PlIntervalExact`: adding a time near INT64_MIN to `MIN_TIMESTAMP` wraps to a valid future timestamp (line 639) |
| `timestamp_mi_overflow` | `MC_PgTimestamp_TimestampMiExact.cfg` | violation | `TimestampMiExact`: `MIN_TIMESTAMP - (END_TIMESTAMP-1)` overflows to a positive interval (line 711) |
| `timestamp_io` | `MC_PgTimestampIO.cfg` | pass | `IOTypeOK`; `TypmodRoundsNearest`: rounding to the nearest multiple, halves away from zero, negative timestamps included; `IntervalCmpExact`: the comparison agrees with the exact 30-day-month order on extreme intervals |
| `typmod_rounds_past_end` | `MC_PgTimestampIO_TsValid.cfg` | violation | `TsValid`: the last unit before `END_TIMESTAMP` read with typmod 0 rounds to `END_TIMESTAMP` (line 368) |
| `operator_catalog` | `MC_OperatorCatalog.cfg` | pass | `TypeOK`, `ScriptSucceeds`, `InstalledCatalogSound`, `CommutatorConverse`, `SymbolsMatch` over the whole script |
| `supportfn` | `MC_SupportFn.cfg` | pass | `TypeOK`, `UnsupportedNeverIndexed`, `IndexCondNecessary`, `StrategyInBounds`, `ExpandTypeKnown` over every request |
| `supportfn_intersects_unreachable` | `MC_SupportFn_IntersectsIndexed.cfg` | violation | `IntersectsIndexed`: a supported function without an expand argument never gets the `g1 && g2` condition its comment promises (SF 477) |
| `hashes` | `MC_PgHash.cfg` | pass | `CrossTypeHashAlike`, `FloatHashAlike`, `ExtendedAgreesAtSeedZero` on ten int8 values (the int4, int8 and word boundaries), five int4 values, three seeds and six float patterns |

Every property of a passing run has a mutant in `PROJECT.json`: a plausible bug in the mapped code that the property catches. Examples:
- the `SAMESIGN` conjunct dropped;
- the year borrow of a negative month total dropped;
- the full scale used as the rounding offset;
- the day fraction dropped from the int128 value;
- the commutator of `#>>` left out;
- the operators of a block created before their functions;
- the `else return NULL` of SF 477 replaced by the argument type;
- `disjoint`'s table entry given dwithin's expand argument;
- the complement of a negative high half dropped in `pg_hashint8`;
- the zero test of `pg_hashfloat8` dropped;
- the seed mixed in even when it is 0.

**The four findings** are the violation runs:
1. **PC 639**, `pg_timestamp_pl_interval`: int64 wrap of the time sum.
2. **PC 711**, `pg_timestamp_mi`: int64 wrap of the difference.
3. **PC 368**, `AdjustTimestampForTypmodError`: it has no range check after rounding, so `timestamp(0)` input of `294276-12-31 23:59:59.9` yields `END_TIMESTAMP`. That value is neither valid nor a sentinel. At full width it is the same value.
4. **SF 477**: the non-expand branch returns NULL, which makes the `g1 && g2` code of SF 516-539 unreachable.

**Bounds.** Each input set contains the boundary values of its branch: both ends of the valid range, the sentinels, INT_MIN/INT_MAX in each field, every typmod class, every family, access method and argument position. For the arithmetic, `MaxCalls` is large enough that a result of one call is the argument of the next. The catalog run executes the whole script: there are no bounds there.

**Fairness.** No liveness property is claimed, and no fairness is assumed:
- The C functions are straight-line code.
- The script runs to its end or fails in a bounded number of steps.
- The support function answers each request in one step.

`Done`, `Finished` and `TakeAnswer` keep the final states from being deadlocks.

## 7. Proofs

Five modules hold the proofs. All of them check with `tlapm` to the last leaf.

**`PgTimestamp_proofs.tla`** proves, for every value of the constants satisfying `WidthAssumption`, `CalendarAssumption`, `BoundAssumption` and `InputAssumption`:
- `IntervalPlCheckedHolds == Spec => IntervalPlChecked`. `SumChecked` shows that the `SAMESIGN` test on a wrapped sum of two integers of a width holds exactly when the exact sum leaves the width. `IntervalPlExact` applies it to the three fields.
- `TimestampMiJustifiedHolds == Spec => TimestampMiJustified`. `JustifyJustified` shows that `pg_interval_justify_hours` keeps less than a day of time of the sign of the day, whatever day the wrap of the day sum gives.
- `DayStepWrapsForward`. With the constants of a 64-bit build (`FullWidth`), `pg_timestamp_pl_interval(MIN_TIMESTAMP, -50000 days)` returns `MIN_TIMESTAMP + 38193 days`, while the calendar (`RefPlInterval`) leaves the valid range. The steps evaluate `timestamp2tm`, `date2j` and the unsigned `j2date` (`J2DateWraps`) on those values.

Both temporal theorems need the type of the registers. That comes from the inductive invariant `IInv == TypeOK /\ TsValid` (theorems `TypeCorrect` and `TsAlwaysValid`). `TsValid` alone is not inductive: the next step needs `ts \in Int64`. `TypeOK` alone is not inductive either, because the int64 type of a returned timestamp comes from its validity. The lemmas are:
- the wrap and truncating-division ranges (`WrapRange`, `CDivMod`, `DivMono`);
- the calendar's result types;
- `AddMonthsResult`: the month lands in 1..12;
- `PlIntervalResult`: the final check guards every finite result;
- `JustifyType`: the whole days of an int64 time fit a C int;
- `CallPreserves`: one lemma for the four call actions.

Each temporal theorem combines its step lemma (`IntervalPlStepHolds`, `TimestampMiStepHolds`) with the invariant by PTL.

**`PgTimestampIO_proofs.tla`** adds the assumptions:
- `TypmodAssumption`: a scale table with scale 1 at the full precision and no scale above a day.
- `RoomAssumption`: a day of int64 room beyond both ends of the valid range, and room for 31 int32 day counts beside the days of an int64 time. PostgreSQL's constants satisfy both.

It proves:
- `IOTypeCorrect == IOSpec => []IOTypeOK`. Here `TsValid` is false (finding 3), so the invariant is the type alone. `NextKeepsType` shows that the arithmetic keeps int64 timestamps without their validity, and `ParsedResult` and `AdjustType` show that input returns an int64.
- `TypmodRounding == IOSpec => TypmodRoundsNearest`. The chain of lemmas:
  - `RoundNat`: `(u + s\div 2) \div s * s` is the nearest multiple of `s`, halves up.
  - `RoundExpr`: both branches of line 366 compute it, and the offset sum does not wrap (`ValidRoom`, `WrapId`).
  - `AdjustNearest`: `AdjustTimestampForTypmodError` of a valid timestamp is that value.
  - `CallKinds`: only a `TimestampIn` step records a `timestamp_in` call.
- `IntervalCmpCorrect == IOSpec => IntervalCmpExact`. The chain of lemmas:
  - `DaySplit`: the whole days of an int64 time are within `Int64Half \div USECS_PER_DAY` of zero.
  - `CmpValue`: with `RoomAssumption`, neither int64 sum of `interval_cmp_value` wraps. This is the claim of the comment at line 736, proved for every width.
  - `CompareSign`: `int128_compare` is the sign of the exact difference.
  - `LinearSign`: the thresholded reference `LinearCompare` is that sign too.
  - Together: `CmpExact`, `pg_interval_cmp = LinearCompare`.

Each temporal theorem combines its step lemma with `IOTypeCorrect` by PTL.

**`SupportFn_proofs.tla`** proves, for every family, table and request the constants allow:
- `TypeCorrect == Spec => []TypeOK`;
- `SafetyInvariant == Spec => []SafetyInv`, where `SafetyInv` is the conjunction of `UnsupportedNeverIndexed`, `IndexCondNecessary`, `StrategyInBounds` and `ExpandTypeKnown`;
- `UnsupportedNeverIndexedHolds`, `IndexCondNecessaryHolds`, `StrategyInBoundsHolds` and `ExpandTypeKnownHolds`, each of the form `Spec => []P`.

Every answer of the support function depends only on the request it answers, so `SafetyInv` is inductive as it stands: it needs no strengthening. The work is in the lemmas about the tables:
- `ArgListFacts`: what an argument list holds.
- `TableFacts`: every entry of every family's `FuncArr` has a strategy index inside each strategy array of the family's types, an expand argument of 0 or 3 (3 only for `dwithin`), and an index at most `DWITHIN_IDX`. The zeroed entry `NullIdxFn` has the same properties.
- `FirstMatch`: the least element of a nonempty subset of 1..11, with an explicit witness, because the library's least-number theorem takes an operator parameter.
- `LookupEntry`: the entry `func_needs_index` returns is one of these, named as the function, and the zeroed one when the function is missing.
- `AfterExprTypeCases`: the four outcomes of the code after the expand type is chosen.
- `IndexConditionSafe`: the step that builds an index condition establishes all four properties. For `IndexCondNecessary`: a condition needs a known expression type, hence an expand argument, hence a found entry, hence `dwithin`. The strategy is one the arrays hold and not `InvalidStrategy`, hence the overlap strategy (`StrategyValues`).

**`OperatorCatalog_proofs.tla`** proves the following for the script itself, which is a constant:
- `CatalogInvariant == Spec => []IInv`;
- `TypeCorrect == Spec => []TypeOK`;
- `CommutatorConverseHolds == Spec => []CommutatorConverse`;
- `SymbolsMatchHolds == Spec => []SymbolsMatch`.

`ScriptGood` shows that the script is a sequence of well-formed statements. Each function is bound to the symbol of its relation and kinds (`SymbolOK`), and each operator is its relation's `OpStmt`. The proof goes block by block through the concatenations, so there is no per-statement enumeration. `SymbolsMatch` follows from `ScriptGood` and `pc <= Len(Script) + 1`.

`CommutatorConverse` is not inductive. It speaks only of pairs of defined operators, while CREATE OPERATOR reads shells and links.

The inductive invariant is therefore `IInv == TypeOK /\ OprInv /\ RowsIn(opr)`:
- `OprInv`: every row is well formed (`RowOK`).
  - A shell has no procedure and links to an operator key.
  - A defined operator's key carries its relation's name, and its link is `ComOf(proc, key)`: the swapped-type key of its relation's COMMUTATOR clause, or none.
- `RowsIn(opr)`: every row is a record of the three fields.

`CreateOperatorRows` is the step that needs `OprInv`. An existing commutator that CREATE OPERATOR finds always has a link already, so the back-link update of `LinkCommutator` never touches a defined row. The reason is that every operator a COMMUTATOR clause names has a COMMUTATOR clause of its own (`ClauseTable`). `CommutatorConverse` then follows from `OprInv`, because the operator names of the clause table are injective.

**`OperatorCatalogScript_proofs.tla`** proves the two properties that depend on the order of the script's statements:
- `ScriptSucceedsHolds == Spec => []ScriptSucceeds`: no CREATE FUNCTION or CREATE OPERATOR of the script fails;
- `InstalledCatalogSoundHolds == Spec => []InstalledCatalogSound`: after the commit there is no shell, and every COMMUTATOR link is answered by a link back on the swapped types.

Neither property is inductive. `ScriptSucceeds` says nothing about why the next statement succeeds, and `InstalledCatalogSound` speaks only of the final state. The inductive invariant `RunInv` (checked first by TLC as an invariant of `Spec`, 298 distinct states) relates the catalog to the position `pc` in the script:
- `IInv` of `OperatorCatalog_proofs`, and the status is running or done, with `pc = Len(Script) + 1` once done;
- `fns` is exactly the set of signatures of the functions before `pc` (`FnDone`);
- an operator row is defined exactly when its key is one of the operators before `pc` (`KeysDone`), and is a shell otherwise;
- every shell has the key of some operator of the script (`KeysOf(Script)`);
- every commutator link leads to a row of the catalog.

The proof of its step needs three facts about the whole script, which `ScriptFacts` collects:
- `SigsUnique`: no signature is declared twice;
- `KeysUnique` and `ProcsDeclared`: no operator is defined twice, and each procedure is declared before its operator;
- `ComsIn(Script, KeysOf(Script))`: every COMMUTATOR names an operator the script defines.

They are proved without enumerating the 296 statements. A segment (`Seg(s, P)`) is a run of well-formed statements whose argument-type pairs lie in `P` and that is well ordered on its own. `BlockIsSeg` shows that every block is a segment. `SegConcat` shows that two segments over disjoint pairs concatenate to a segment. `ScriptOrder` chains the 13 sections.

For the commutators:
- `BlockComs` shows that a block whose relation list is closed under `Converse` names only its own keys or those of its mirror block.
- `MirrorComs` and `ScriptComs` close the whole script.

The step lemmas:
- `FunctionStep`: CREATE FUNCTION finds no existing signature.
- `OperatorStep`: CREATE OPERATOR finds its procedure. Its key is new or a shell, and a new shell it makes has a key of the script.

`InstalledCatalogSoundStep` shows `RunInv => InstalledCatalogSound`:
- At the commit `KeysDone = KeysOf(Script)`, so no shell is left.
- The link back is `ComOf(Converse[p], c)` by `CommutatorConverseStep`. That is the original key because the converse relation's COMMUTATOR clause is the original operator's name (`ConverseClauses`).

**What stays with TLC:**
- `MonthStepsExact`. Its proof would need facts about `date2j`/`j2date` over all dates, which is induction over data.
- All of `PgHash`. It uses Bitwise, which is recursive and out of the provers' reach, and its properties are about concrete hash values.
- The four violations.

No liveness is claimed, so nothing needs `ENABLED` or fairness in a proof.

## 8. Not modelled, and next steps

Not modelled:
- The float trigonometry (IEEE arithmetic).
- Date input and the output functions `pg_date_out` and `timestamp_out_common`. These are text formatting through routines outside `src/`.
- `pg_hashtext` (a call of `hash_any`, which is outside `src/`) and `pg_hashfloat8extended` (under `#if 0`).
- The temporal value model, which has no code in `src/`.

Next steps:
1. A spec_modelled temporal sequence normalisation, with a refinement to an abstract set-of-instants specification.
