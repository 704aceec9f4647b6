------------------------------- MODULE Values -------------------------------
(***************************************************************************)
(* The LLVM values that src/catk/behavior/gen_llvm/value.cpp makes of      *)
(* expressions, with the semantic type that type inference gives them, the *)
(* LLVM type and the bits they have when the code runs.  An expression is  *)
(* translated after its operands, so that the finished operands form a     *)
(* stack.  Instructions are given by what LLVM says of them; one whose     *)
(* operands have not the types it needs makes no valid module (misfit).    *)
(***************************************************************************)
EXTENDS Primary, Sequences

CONSTANTS Literals,
          MaxSteps,     \* bound: expressions translated
          MaxOperands   \* bound: operands that wait for their operator

ASSUME LiteralsAssumption == \A lit \in Literals : LiteralOK(lit)
ASSUME BoundsAssumption == MaxSteps \in Nat /\ MaxOperands \in Nat

VARIABLES operands, outcome,
          at,     \* the operator or kind of expression translated last
          written, \* the literal, if it was one
          steps

vars == <<operands, outcome, at, written, steps>>
-----------------------------------------------------------------------------
(* catk::Type: a primary type and the pointers around it. *)
OfPrimary(t) == [prim |-> t, depth |-> 0]
getType(sty) == [sty EXCEPT !.depth = @ + 1]
is_primary(sty) == sty.depth = 0

(* `is_int(t) && (t & 1 == 0)': == binds before &, and no integer is        *)
(* unsigned.                                                                *)
is_unsigned_int(t) == is_int(t) /\ Bitwise2("AND", t, Truth(1 = 0), 4) # 0

is_signed_int(t) == is_int(t) /\ ~is_unsigned_int(t)

(* An LLVM type, and translate_type. *)
LLVMType(kind, width, depth) == [kind |-> kind, width |-> width, depth |-> depth]
I1 == LLVMType("int", 1, 0)
getPointerTo(ty) == [ty EXCEPT !.depth = @ + 1]
isIntegerTy(ty) == ty.kind = "int" /\ ty.depth = 0
translate_type(sty) == LLVMType(IF is_float(sty.prim) THEN "float" ELSE "int", Width(sty.prim), sty.depth)

(* Bits that are not known: of a float, of an address, of poison. *)
NoBits == -1
Value(sty, lty, bits) == [sty |-> sty, lty |-> lty, bits |-> bits, load |-> FALSE]
-----------------------------------------------------------------------------
(* IntLiteral::interpret and FPLiteral::interpret.  lexical_cast reads one  *)
(* character as an (u)int8_t, and knows no `0x'.                            *)
Written(lit) == IF lit.negative THEN -lit.number ELSE lit.number
BadCast(lit) ==
  /\ is_int(lit.tag)
  /\ \/ lit.hex
     \/ Width(lit.tag) = 8 /\ (lit.negative \/ lit.digits # 1)
     \/ Width(lit.tag) # 8 /\ Written(lit) \notin -2^(Width(lit.tag) - 1) .. 2^(Width(lit.tag) - 1) - 1

(* A wrong reading, which takes eight bits for a number. *)
InterpretNumbers(lit) ==
  IF is_float(lit.tag) THEN NoBits ELSE Pattern(Written(lit), Width(lit.tag))

Interpret(lit) ==
  IF is_float(lit.tag) THEN NoBits
  ELSE IF Width(lit.tag) = 8 THEN 48 + lit.number
  ELSE Pattern(Written(lit), Width(lit.tag))

(* IntTag has `ui8', interpret compares with "u8". *)
TagKnown(lit) == is_float(lit.tag) \/ lit.tag % 2 = 0

(* Constant::get_type, and the constant in ValueTransVis. *)
ConstantOf(t, bits) == Value(OfPrimary(t), translate_type(OfPrimary(t)), bits)

Under(n) == SubSeq(operands, 1, Len(operands) - n)
Last == operands[Len(operands)]
Before == operands[Len(operands) - 1]
NoLiteral == [tag |-> CATK_BOOL]

Proceed(what) ==
  /\ outcome = "running" /\ steps < MaxSteps
  /\ at' = what /\ steps' = steps + 1 /\ written' = NoLiteral
Ends(how) == outcome' = how /\ UNCHANGED operands
Gives(n, v) == operands' = Append(Under(n), v) /\ UNCHANGED outcome

Literal ==
  /\ outcome = "running" /\ steps < MaxSteps /\ Len(operands) < MaxOperands
  /\ at' = "literal" /\ steps' = steps + 1
  /\ \E lit \in Literals :
       /\ written' = lit
       /\ IF ~TagKnown(lit)
          \* assert(0), or without assertions what value_ was
          THEN Ends("refused") \/ Gives(0, ConstantOf(CATK_UINT8, 0))
          ELSE IF BadCast(lit) THEN Ends("refused")
          ELSE Gives(0, ConstantOf(lit.tag, Interpret(lit)))
-----------------------------------------------------------------------------
(* CreateSExt and its like: to other bits, by the sign or with zeros. *)
Resized(v, ty, signed) ==
  [lty |-> ty,
   bits |-> IF v.bits = NoBits \/ ~isIntegerTy(v.lty) THEN NoBits
            ELSE Pattern(IF signed THEN Signed(v.bits, v.lty.width) ELSE v.bits, ty.width)]
Kept(v) == [lty |-> v.lty, bits |-> v.bits]

tl_match_ret_type(v, r) ==
  IF v.lty = translate_type(r) THEN Kept(v)
  ELSE Resized(v, translate_type(r), is_signed_int(r.prim))

(* A wrong legalizer, which extends nothing. *)
LegalizeNothing(v, r) == Kept(v)

tl_match_ret_bits(v, r) ==
  IF v.lty.width < translate_type(r).width THEN Resized(v, translate_type(r), is_signed_int(v.sty.prim))
  ELSE Kept(v)

(* A wrong legalizer, which fills up with zeros. *)
tl_cast_unsigned(v, t) == Resized(v, translate_type(OfPrimary(t)), FALSE)

tl_by_bop_pri_cast(v, t) == Resized(v, translate_type(OfPrimary(t)), is_signed_int(v.sty.prim))

resolve_flag(sty) ==
  IF ~is_primary(sty) THEN "NP"
  ELSE IF is_float(sty.prim) THEN "FP"
  ELSE IF is_signed_int(sty.prim) THEN "SI" ELSE "UI"

(* The rows of BOP_HANDLE: which operands an operator has code for. *)
Handled(op, f0, f1) ==
  \/ f0 = "FP" /\ f1 = "FP" /\ op \notin Bits
  \/ {f0, f1} \subseteq {"SI", "UI"} /\ op \in Exact \cup Bits \cup Equalities
  \/ f0 = f1 /\ f0 \in {"SI", "UI"} /\ op \in Quotients \cup Orders

(* type inference, as_primary: the operator has a type. *)
Typed(op, s0, s1) == op \in Orders \cup Equalities \/ (is_primary(s0) /\ is_primary(s1))

(* The legalized operand v of an operator whose operands become t. *)
Legalized(op, v, t) ==
  CASE op \in Exact \cup Quotients -> tl_match_ret_type(v, OfPrimary(t))
    [] op \in Bits -> tl_match_ret_bits(v, OfPrimary(t))
    [] op \in Orders \cup Equalities -> tl_by_bop_pri_cast(v, t)

(* What the instruction computes; SDiv, ICmpSLT, ... read signed numbers.   *)
(* Division by zero or out of range is undefined.                           *)
ResultBits(op, signed, x, y) ==
  LET w == x.lty.width
      a == IF signed THEN Signed(x.bits, w) ELSE x.bits
      b == IF signed THEN Signed(y.bits, w) ELSE y.bits
  IN  IF NoBits \in {x.bits, y.bits} THEN NoBits
      ELSE IF op \in Quotients /\ (b = 0 \/ (b = -1 /\ a = -2^(w - 1))) THEN NoBits
      ELSE Compute(op, a, b, w)

Binary(op) ==
  /\ Len(operands) >= 2 /\ Proceed(op)
  /\ LET f0 == resolve_flag(Before.sty)
         f1 == resolve_flag(Last.sty)
         t == bop_cast(Before.sty.prim, Last.sty.prim)
         x == Legalized(op, Before, t)
         y == Legalized(op, Last, t)
         r == OfPrimary(ResultType(op, Before.sty.prim, Last.sty.prim))
     IN  IF ~Typed(op, Before.sty, Last.sty) \/ ~Handled(op, f0, f1) THEN Ends("refused")
         ELSE IF x.lty # y.lty THEN Ends("misfit")
         ELSE Gives(2, Value(r, IF op \in Orders \cup Equalities THEN I1 ELSE x.lty,
                             ResultBits(op, f0 # "UI", x, y)))
-----------------------------------------------------------------------------
(* UOP_ADD leaves its operand; there is no code for UOP_SUB, and none for   *)
(* UOP_NOT, whose zero has no bits.                                         *)
Plus == operands # << >> /\ Proceed("plus") /\ UNCHANGED <<operands, outcome>>
Minus == operands # << >> /\ Proceed("minus") /\ Ends("refused")
Not ==
  /\ operands # << >> /\ Proceed("not")
  /\ Ends(IF isIntegerTy(Last.lty) THEN "undefined" ELSE "refused")

(* UOP_INV: CreateNot *)
Invert ==
  /\ operands # << >> /\ Proceed("invert")
  /\ IF isIntegerTy(Last.lty)
     THEN Gives(1, Value(Last.sty, Last.lty,
                         IF Last.bits = NoBits THEN NoBits ELSE 2^Last.lty.width - 1 - Last.bits))
     ELSE Ends("refused")

(* CreateLoad(ty, ptr) and CreateStore(v, ptr) need a pointer to that type. *)
LoadFits(ty, ptr) == ptr = getPointerTo(ty)
StoreFits(ty, ptr) == ptr = getPointerTo(ty)

(* UOP_DEREF loads the operand's type, not the one it points to. *)
Dereference ==
  /\ operands # << >> /\ Proceed("dereference")
  /\ IF is_primary(Last.sty) THEN Ends("refused")
     ELSE IF ~LoadFits(Last.lty, Last.lty) THEN Ends("misfit")
     ELSE Gives(1, Value([Last.sty EXCEPT !.depth = @ - 1], Last.lty, NoBits))

(* UOP_ADDROF casts the operand to a LoadInst, unchecked in most builds. *)
AddressOf ==
  /\ operands # << >> /\ Proceed("address")
  /\ IF Last.load THEN Gives(1, Value(getType(Last.sty), getPointerTo(Last.lty), NoBits))
     ELSE Ends("undefined")

(* A wrong symbol, whose value is not loaded from its storage. *)
SymbolNotLoaded ==
  /\ operands # << >> /\ Proceed("symbol")
  /\ Gives(1, [Last EXCEPT !.lty = getPointerTo(@), !.load = TRUE])

(* A symbol with the operand as its right hand side: stored to an alloca of *)
(* its type, and loaded.                                                    *)
Symbol ==
  /\ operands # << >> /\ Proceed("symbol")
  /\ Gives(1, [Last EXCEPT !.load = TRUE])

(* A call of `fn(p) { ret +p; }': the parameter and the result have the     *)
(* LLVM types of their semantic types.  (translate_context_call)            *)
Call ==
  /\ operands # << >> /\ Proceed("call")
  /\ IF translate_type(Last.sty) # Last.lty THEN Ends("misfit")
     ELSE Gives(1, [Last EXCEPT !.load = FALSE])

(* A symbol with the operand as its right hand side, captured: the value is *)
(* stored to a member that is a pointer to it.  (translate_context_def)     *)
Capture ==
  /\ operands # << >> /\ Proceed("capture")
  /\ LET member == getPointerTo(translate_type(Last.sty)) IN
       IF ~StoreFits(Last.lty, getPointerTo(member)) THEN Ends("misfit")
       ELSE Gives(1, [Last EXCEPT !.load = TRUE])

(* An if with two finished clauses; its condition is no concern here.  What *)
(* is loaded from its place is a pointer, PRes->getType().                  *)
If ==
  /\ Len(operands) >= 2 /\ Proceed("if")
  /\ LET PRes == getPointerTo(translate_type(Last.sty)) IN
       IF Before.sty # Last.sty THEN Ends("refused")
       ELSE IF ~StoreFits(Before.lty, PRes) \/ ~StoreFits(Last.lty, PRes) \/ ~LoadFits(PRes, PRes)
       THEN Ends("misfit")
       ELSE Gives(2, Value(Last.sty, PRes, NoBits))
-----------------------------------------------------------------------------
Init ==
  /\ operands = << >> /\ outcome = "running"
  /\ at = "none" /\ written = NoLiteral /\ steps = 0

Next ==
  \/ Literal \/ \E op \in BinOp : Binary(op)
  \/ Plus \/ Minus \/ Not \/ Invert \/ Dereference \/ AddressOf
  \/ Symbol \/ Call \/ Capture \/ If

Spec == Init /\ [][Next]_vars
-----------------------------------------------------------------------------
TypeOK ==
  /\ operands \in Seq([sty: [prim: PrimaryType, depth: Nat], lty: [kind: {"int", "float"}, width: Nat, depth: Nat],
                       bits: Int, load: BOOLEAN])
  /\ Len(operands) <= MaxOperands /\ steps \in 0 .. MaxSteps
  /\ \A i \in DOMAIN operands :
       LET v == operands[i] IN
       v.bits # NoBits => isIntegerTy(v.lty) /\ v.bits \in 0 .. 2^v.lty.width - 1
  /\ outcome \in {"running", "refused", "undefined", "misfit"}

(* The LLVM type of every value is the one its semantic type translates to: *)
(* what a store, a parameter, a return and the next operator rely on.       *)
TypesTranslated == \A i \in DOMAIN operands : operands[i].lty = translate_type(operands[i].sty)

(* Whatever is made of literals, operators, symbols, calls and addresses    *)
(* fits; only an if, `*' and a captured symbol make code that does not.     *)
OnlyPointersMisfit == outcome = "misfit" => at \in {"if", "dereference", "capture"}

(* Constant::dump; eight bits are put out as a character. *)
Dumped(v) ==
  LET n == IF Width(v.sty.prim) = 8 THEN v.bits - 48 ELSE Signed(v.bits, Width(v.sty.prim)) IN
  [hex |-> FALSE, negative |-> n < 0, number |-> Magnitude(n),
   digits |-> IF Width(v.sty.prim) = 8 THEN 1 ELSE written.digits, tag |-> v.sty.prim]

(* The text of a constant is read as the same constant again, also where it *)
(* was not the number that is written.  (Constant::dump, interpret)         *)
ConstantsReadBack ==
  at = "literal" /\ outcome = "running" /\ TagKnown(written) /\ is_int(written.tag) =>
    LET again == Dumped(Last) IN ~BadCast(again) /\ Interpret(again) = Last.bits

(* The numbers are those of Arithmetic. *)
NumberOf(v) ==
  [type |-> v.sty.prim, depth |-> v.sty.depth, place |-> v.load, known |-> v.bits # NoBits,
   number |-> IF v.bits = NoBits THEN 0
              ELSE IF v.sty.prim % 2 = 1 THEN v.bits ELSE Signed(v.bits, Width(v.sty.prim))]
Numbers == INSTANCE Arithmetic WITH
  operands <- [i \in DOMAIN operands |-> NumberOf(operands[i])],
  did <- at, literal <- written, stopped <- outcome # "running"
ImplementsArithmetic == Numbers!Spec
=============================================================================
