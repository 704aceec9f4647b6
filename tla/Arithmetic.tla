----------------------------- MODULE Arithmetic -----------------------------
(***************************************************************************)
(* What a program's expressions are worth, without LLVM: integers that are *)
(* in the range of their type.  Values says how the code generator reaches *)
(* the same numbers, and implements this module.                           *)
(*                                                                         *)
(* The code generator takes every integer for a signed one.  Therefore the *)
(* number is left open where an unsigned one that is no signed one of its  *)
(* width is divided, ordered, or converted to more bits.                   *)
(***************************************************************************)
EXTENDS Primary, Sequences

CONSTANT Literals

VARIABLES operands,  \* the values of the finished operands, the last one last
          did,       \* the operator, or what else was done last
          literal,   \* the literal, if it was one
          stopped    \* no code was generated for it

avars == <<operands, did, literal, stopped>>

Unsigned(t) == is_int(t) /\ t % 2 = 1
Range(t) == IF Unsigned(t) THEN 0 .. 2^Width(t) - 1 ELSE -2^(Width(t) - 1) .. 2^(Width(t) - 1) - 1
InRange(n, t) == IF Unsigned(t) THEN Pattern(n, Width(t)) ELSE Signed(Pattern(n, Width(t)), Width(t))

(* A value; `depth' is how many pointers lie around the type, and `place'   *)
(* says that it was read from a symbol.  The number of a pointer, of a      *)
(* float and of what LLVM leaves undefined is not known.                    *)
Number(t, n) == [type |-> t, depth |-> 0, place |-> FALSE, known |-> TRUE, number |-> n]
Unknown(t) == [Number(t, 0) EXCEPT !.known = FALSE]
Whole(v) == v.depth = 0 /\ is_int(v.type)
Fraction(v) == v.depth = 0 /\ is_float(v.type)

Written(lit) == IF lit.negative THEN -lit.number ELSE lit.number

(* A number that is the same when it is taken for a signed one. *)
Half(t) == 2^(Width(t) - 1)
LooksSigned(n, t) == Unsigned(t) => n < Half(t)

Converted(v, t) == InRange(v.number, t)

Settled(op, v, w) ==
  LET t == bop_cast(v.type, w.type)
      m == Converted(v, t)
      n == Converted(w, t)
  IN  /\ \A x \in {v, w} : Width(x.type) = Width(t) \/ LooksSigned(x.number, x.type)
      /\ op \in Quotients => LooksSigned(m, t) /\ LooksSigned(n, t)
      /\ op \in Orders => LooksSigned(m, t) = LooksSigned(n, t)

(* Division by zero, and of the least number by -1. *)
Undefined(op, v, w) ==
  LET t == bop_cast(v.type, w.type)
      m == Converted(v, t)
      n == Converted(w, t)
  IN  op \in Quotients /\ (n = 0 \/ (m = -Half(t) /\ n = -1))

Last == operands[Len(operands)]
Before == operands[Len(operands) - 1]
Under(n) == SubSeq(operands, 1, Len(operands) - n)
-----------------------------------------------------------------------------
NoLiteral == [tag |-> CATK_BOOL]

Init == operands = << >> /\ did = "none" /\ literal = NoLiteral /\ stopped = FALSE

(* An action does `what' with the last n operands, or nothing comes of it. *)
Does(what, n) ==
  /\ ~stopped /\ Len(operands) >= n
  /\ did' = what /\ literal' = NoLiteral
Push(rest, v) == operands' = Append(rest, v) /\ stopped' = FALSE
PushSome(rest, t) ==
  /\ Len(operands') = Len(rest) + 1
  /\ LET n == operands'[Len(operands')].number IN n \in Range(t) /\ Push(rest, Number(t, n))
Stops == stopped' = TRUE /\ UNCHANGED operands

(* The literals that have the number that is written: decimal, in the range *)
(* of a signed type, and of more than eight bits.                           *)
Plain(lit) == ~lit.hex /\ ~Unsigned(lit.tag) /\ Width(lit.tag) > 8 /\ Written(lit) \in Range(lit.tag)

(* A literal of eight bits is another number or none, one of an unsigned    *)
(* type is of another type or none, and there is none for any other.        *)
Literal ==
  /\ ~stopped /\ did' = "literal"
  /\ \E lit \in Literals :
       /\ literal' = lit
       /\ IF is_float(lit.tag) THEN Push(operands, Unknown(lit.tag))
          ELSE IF Plain(lit) THEN Push(operands, Number(lit.tag, Written(lit)))
          ELSE \/ Stops
               \/ Width(lit.tag) = 8 /\ ~Unsigned(lit.tag) /\ PushSome(operands, lit.tag)
               \/ Unsigned(lit.tag) /\ PushSome(operands, CATK_UINT8)

(* Of two whole numbers, or of two fractions but for their bits. *)
Binary(op) ==
  /\ Does(op, 2)
  /\ LET t == bop_cast(Before.type, Last.type)
         r == ResultType(op, Before.type, Last.type)
         result == InRange(Compute(op, Converted(Before, t), Converted(Last, t), Width(t)), r)
     IN  IF Whole(Before) /\ Whole(Last)
         THEN IF ~Before.known \/ ~Last.known THEN Push(Under(2), Unknown(r))
              ELSE IF ~Settled(op, Before, Last) THEN PushSome(Under(2), r) \/ Push(Under(2), Unknown(r))
              ELSE IF Undefined(op, Before, Last) THEN Push(Under(2), Unknown(r))
              ELSE Push(Under(2), Number(r, result))
         ELSE IF Fraction(Before) /\ Fraction(Last) /\ op \notin Bits
         THEN Push(Under(2), Unknown(r))
         ELSE Stops

Plus == Does("plus", 1) /\ UNCHANGED <<operands, stopped>>

(* `~' *)
Invert ==
  /\ Does("invert", 1)
  /\ IF ~Whole(Last) THEN Stops
     ELSE Push(Under(1), IF Last.known THEN Number(Last.type, InRange(-1 - Last.number, Last.type))
                         ELSE Unknown(Last.type))

(* A symbol with the value, and a call that returns it. *)
Name == Does("symbol", 1) /\ Push(Under(1), [Last EXCEPT !.place = TRUE])
Return == Does("call", 1) /\ Push(Under(1), [Last EXCEPT !.place = FALSE])

AddressOf ==
  /\ Does("address", 1)
  /\ IF ~Last.place THEN Stops
     ELSE Push(Under(1), [Unknown(Last.type) EXCEPT !.depth = Last.depth + 1])

(* There is code for none of these. *)
Unary == (\E what \in {"minus", "not", "dereference", "capture"} : Does(what, 1)) /\ Stops
If == Does("if", 2) /\ Stops

Next ==
  \/ Literal \/ \E op \in BinOp : Binary(op)
  \/ Plus \/ Invert \/ Name \/ Return \/ AddressOf \/ Unary \/ If
Spec == Init /\ [][Next]_avars
=============================================================================
