---------------------------- MODULE ColumnValues ----------------------------
(***************************************************************************)
(* Literals, column types and comparisons: the lexer's integer literals    *)
(* (lex.l, BigintLit), Value::cast_to, init_raw and parse_datetime         *)
(* (common.h), compare_value and eval_compare (executor_abstract.h), and   *)
(* set_min and set_max (executor_index_scan.h).                            *)
(*                                                                         *)
(* A value is a type and a payload.  Numbers are their own payload, with   *)
(* the ranges of INT and BIGINT and the precisions of float and double as  *)
(* parameters; a FLOAT is an integer that a float can hold.  A string is   *)
(* its length (the strings are runs of one letter: memcmp orders them      *)
(* by length) and, when it has the shape of a datetime, the six numbers    *)
(* read off it.  The payload of a DATETIME is those six numbers; the int64 *)
(* encoding gives every field its own decimal digits, so its order is the  *)
(* lexicographic one.                                                      *)
(***************************************************************************)
EXTENDS Integers, Sequences

CONSTANTS
    IntMin, IntMax,     \* the range of INT
    BigMin, BigMax,     \* the range of BIGINT
    FloatBits,          \* the significant bits of a float (24) ...
    DoubleBits          \* ... and of a double (53)

ASSUME RangeAssumption ==
    /\ {IntMin, IntMax, BigMin, BigMax} \subseteq Int
    /\ BigMin < IntMin /\ IntMin <= 0 /\ 0 < IntMax /\ IntMax < BigMax
    /\ {FloatBits, DoubleBits} \subseteq Nat \ {0} /\ FloatBits < DoubleBits
    /\ IntMax < 2^DoubleBits /\ -IntMin <= 2^DoubleBits     \* every INT is a double

Types == {"INT", "BIGINT", "FLOAT", "STRING", "DATETIME"}
CompOps == {"=", "<>", "<", ">", "<=", ">="}

\* A literal that no column type accepts: TRUE and FALSE, and an integer that overflows int64.
BadLiteral == [type |-> "none", val |-> 0]

IntegerLit(n) ==
    IF n \in IntMin..IntMax THEN [type |-> "INT", val |-> n]
    ELSE IF n \in BigMin..BigMax THEN [type |-> "BIGINT", val |-> n]
    ELSE BadLiteral

Magnitude(n) == IF n < 0 THEN -n ELSE n

\* The nearest number with that many significant bits; of two the one with the even mantissa.
RoundTo(n, bits) ==
    LET size == Magnitude(n)
        shift == CHOOSE k \in 0..size : size < 2^(bits + k) /\ \A j \in 0..(k - 1) : size >= 2^(bits + j)
        unit == 2^shift
        down == size \div unit
        rest == 2 * (size % unit)
        rounded == unit * (IF rest > unit \/ (rest = unit /\ down % 2 = 1) THEN down + 1 ELSE down)
    IN IF n < 0 THEN -rounded ELSE rounded

ToFloat(n) == RoundTo(n, FloatBits)
ToDouble(n) == RoundTo(n, DoubleBits)

FloatLit(n) == [type |-> "FLOAT", val |-> ToFloat(ToDouble(n))]      \* atof, then a float
StringLit(n) == [type |-> "STRING", val |-> [len |-> n, date |-> <<>>]]
DateLit(fields) == [type |-> "STRING", val |-> [len |-> 19, date |-> fields]]

MonthDays == <<31, 28, 31, 30, 31, 30, 31, 31, 30, 31, 30, 31>>

Leap(year) == (year % 4 = 0 /\ year % 100 # 0) \/ year % 400 = 0

ParseDatetime(date) ==
    /\ Len(date) = 6
    /\ date[1] \in 1000..9999
    /\ date[2] \in 1..12
    /\ date[3] \in 1..(IF date[2] = 2 /\ Leap(date[1]) THEN 29 ELSE MonthDays[date[2]])
    /\ date[4] \in 0..23 /\ date[5] \in 0..59 /\ date[6] \in 0..59

\* Mutant: cast_to narrows a BIGINT to INT without looking at its range.
CastableUnranged(v, target) ==
    \/ v.type = target
    \/ {v.type, target} \subseteq {"INT", "BIGINT"} \/ (v.type \in {"INT", "BIGINT"} /\ target = "FLOAT")
    \/ v.type = "STRING" /\ target = "DATETIME" /\ ParseDatetime(v.val.date)
Castable(v, target) ==
    \/ v.type = target
    \/ <<v.type, target>> \in {<<"INT", "BIGINT">>, <<"INT", "FLOAT">>, <<"BIGINT", "FLOAT">>}
    \/ v.type = "BIGINT" /\ target = "INT" /\ v.val \in IntMin..IntMax
    \/ v.type = "STRING" /\ target = "DATETIME" /\ ParseDatetime(v.val.date)

CastTo(v, target) ==
    [type |-> target,
     val |-> CASE v.type = "STRING" /\ target = "DATETIME" -> v.val.date
               [] v.type \in {"INT", "BIGINT"} /\ target = "FLOAT" -> ToFloat(v.val)
               [] OTHER -> v.val]

\* init_raw: the bytes of the value fit the column.
FitsRaw(v, len) == v.type = "STRING" => v.val.len <= len

\* The casts and init_raw that a literal meets on its way into column col.
Storable(v, col) == Castable(v, col.type) /\ FitsRaw(CastTo(v, col.type), col.len)

\* The position of the first difference of two sequences of numbers of equal length, or 0.
FirstDifference(a, b) ==
    IF a = b THEN 0
    ELSE CHOOSE i \in DOMAIN a : a[i] # b[i] /\ \A j \in 1..(i - 1) : a[j] = b[j]

Sign(n) == IF n < 0 THEN -1 ELSE IF n > 0 THEN 1 ELSE 0

CompareValue(a, b, type) ==
    CASE type = "STRING" -> Sign(a.len - b.len)
      [] type = "DATETIME" ->
            LET i == FirstDifference(a, b) IN IF i = 0 THEN 0 ELSE Sign(a[i] - b[i])
      [] OTHER -> Sign(a - b)

EvalCompare(cmp, op) ==
    CASE op = "=" -> cmp = 0
      [] op = "<>" -> cmp # 0
      [] op = "<" -> cmp < 0
      [] op = ">" -> cmp > 0
      [] op = "<=" -> cmp <= 0
      [] op = ">=" -> cmp >= 0

SwapOp(op) ==
    CASE op = "<" -> ">" [] op = ">" -> "<" [] op = "<=" -> ">=" [] op = ">=" -> "<="
      [] OTHER -> op

MinOf(type) ==
    CASE type = "STRING" -> [len |-> 0, date |-> <<>>]
      [] type = "DATETIME" -> <<0, 0, 0, 0, 0, 0>>
      [] type = "INT" -> IntMin
      [] OTHER -> BigMin

MaxOf(type) ==
    CASE type = "STRING" -> [len |-> 255, date |-> <<>>]
      [] type = "DATETIME" -> <<9999, 99, 99, 99, 99, 99>>
      [] type = "INT" -> IntMax
      [] OTHER -> BigMax

\* The bytes memset to 0, as a value of the type.
ZeroOf(type) ==
    CASE type = "STRING" -> [len |-> 0, date |-> <<>>]
      [] type = "DATETIME" -> <<0, 0, 0, 0, 0, 0>>
      [] OTHER -> 0

\* ix_compare: lexicographic over the columns of a key, sequences of values of the given types.
RECURSIVE CompareKeys(_, _, _)
CompareKeys(a, b, types) ==
    IF types = <<>> THEN 0
    ELSE LET c == CompareValue(Head(a), Head(b), Head(types))
         IN IF c # 0 THEN c ELSE CompareKeys(Tail(a), Tail(b), Tail(types))

=============================================================================
