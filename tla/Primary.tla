------------------------------ MODULE Primary ------------------------------
(***************************************************************************)
(* The primary types (src/catk/semantics/utils.hpp), the operators, and    *)
(* what the numbers of a two's complement type are.  A bit pattern of w    *)
(* bits is a number of 0 .. 2^w - 1.                                       *)
(***************************************************************************)
EXTENDS Integers

(* enum PrimaryType; the order decides what operands are converted to. *)
CATK_BOOL == 0
CATK_UBOOL == 1
CATK_INT8 == 2
CATK_UINT8 == 3
CATK_INT16 == 4
CATK_UINT16 == 5
CATK_INT32 == 6
CATK_UINT32 == 7
CATK_INT64 == 8
CATK_UINT64 == 9
CATK_FLOAT32 == 10
CATK_FLOAT64 == 11
PrimaryType == CATK_BOOL .. CATK_FLOAT64

is_int(t) == t < CATK_FLOAT32
is_float(t) == t \in {CATK_FLOAT32, CATK_FLOAT64}
Width(t) == IF t \in {CATK_BOOL, CATK_UBOOL} THEN 1
            ELSE IF t = CATK_FLOAT32 THEN 32 ELSE IF t = CATK_FLOAT64 THEN 64
            ELSE 4 * 2^(t \div 2)

(* bop_cast: both operands become the greater type. *)
bop_cast(t0, t1) == IF t0 > t1 THEN t0 ELSE t1

Exact == {"ADD", "SUB", "MUL"}
Quotients == {"DIV", "MOD"}
Bits == {"AND", "OR", "XOR"}
Orders == {"LT", "GT", "LE", "GE"}
Equalities == {"EQ", "NE"}
BinOp == Exact \cup Quotients \cup Bits \cup Orders \cup Equalities

(* Type inference's result of a binary operator. *)
ResultType(op, t0, t1) == IF op \in Orders \cup Equalities THEN CATK_BOOL ELSE bop_cast(t0, t1)
(* A literal: its sign, its digits and the type its tag names. *)
LiteralOK(lit) ==
  /\ DOMAIN lit = {"hex", "negative", "number", "digits", "tag"}
  /\ lit.hex \in BOOLEAN /\ lit.negative \in BOOLEAN
  /\ lit.number \in Nat /\ lit.digits \in Nat \ {0}
  /\ lit.tag \in CATK_INT8 .. CATK_FLOAT64

-----------------------------------------------------------------------------
Pattern(n, w) == n % 2^w
Signed(n, w) == IF n >= 2^(w - 1) THEN n - 2^w ELSE n

Magnitude(n) == IF n < 0 THEN -n ELSE n
Quotient(a, b) ==  \* rounds to zero
  IF (a < 0) = (b < 0) THEN Magnitude(a) \div Magnitude(b) ELSE -(Magnitude(a) \div Magnitude(b))

(* The bits of two patterns, one by one. *)
Bit(n, i) == (n \div 2^i) % 2
BitOf(op, x, y) ==
  CASE op = "AND" -> x * y
    [] op = "OR" -> x + y - x * y
    [] op = "XOR" -> (x + y) % 2
Bitwise2(op, a, b, w) ==
  LET low[i \in 0 .. w] ==
        IF i = 0 THEN 0 ELSE low[i - 1] + 2^(i - 1) * BitOf(op, Bit(a, i - 1), Bit(b, i - 1))
  IN  low[w]

Truth(b) == IF b THEN 1 ELSE 0
Compare(op, a, b) ==
  CASE op = "LT" -> a < b
    [] op = "GT" -> a > b
    [] op = "LE" -> a <= b
    [] op = "GE" -> a >= b
    [] op = "EQ" -> a = b
    [] op = "NE" -> a # b

(* The result of op for two numbers of one type of w bits, as a pattern.    *)
Compute(op, a, b, w) ==
  CASE op = "ADD" -> Pattern(a + b, w)
    [] op = "SUB" -> Pattern(a - b, w)
    [] op = "MUL" -> Pattern(a * b, w)
    [] op = "DIV" -> Pattern(Quotient(a, b), w)
    [] op = "MOD" -> Pattern(a - b * Quotient(a, b), w)
    [] op \in Bits -> Bitwise2(op, Pattern(a, w), Pattern(b, w), w)
    [] op \in Orders \cup Equalities -> Truth(Compare(op, a, b))
=============================================================================
