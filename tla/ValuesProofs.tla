---------------------------- MODULE ValuesProofs ----------------------------
(***************************************************************************)
(* The LLVM types of the values that Values makes, proved for every set of *)
(* literals and every bound.                                               *)
(*                                                                         *)
(* What is proved of a value is what its types say of each other; its bits *)
(* play no part, so that nothing here needs the bitwise operators.         *)
(***************************************************************************)
EXTENDS Values, SequenceTheorems, FiniteSetTheorems, FunctionTheorems, TLAPS

SemanticType == [prim: PrimaryType, depth: Nat]

(* A value whose LLVM type is the one its semantic type translates to. *)
Fits(v) == v.sty \in SemanticType /\ v.lty = translate_type(v.sty)

Made == {operands[i] : i \in DOMAIN operands}

(* The operands are a sequence, of whatever values, and all of them fit. *)
VInv == /\ operands \in Seq(Made)
        /\ \A v \in Made : Fits(v)
        /\ OnlyPointersMisfit
-----------------------------------------------------------------------------
LEMMA IntegerWidths ==
  \A x \in 0 .. 9 : Width(x) = IF x < 2 THEN 1 ELSE IF x < 4 THEN 8 ELSE IF x < 6 THEN 16
                               ELSE IF x < 8 THEN 32 ELSE 64
<1> USE DEF CATK_BOOL, CATK_UBOOL, CATK_FLOAT32, CATK_FLOAT64
<1>1. /\ Width(0) = 1 /\ Width(1) = 1 /\ Width(2) = 8 /\ Width(3) = 8
      /\ Width(4) = 16 /\ Width(5) = 16 /\ Width(6) = 32 /\ Width(7) = 32
      /\ Width(8) = 64 /\ Width(9) = 64
  BY DEF Width
<1> QED  BY <1>1

(* The integer types in the order of PrimaryType are in the order of their  *)
(* widths: what operands of one kind are converted to is wide enough.       *)
LEMMA WidthsRise ==
  ASSUME NEW t \in PrimaryType, NEW u \in PrimaryType, t <= u, is_int(u)
  PROVE  Width(t) \in Nat /\ Width(u) \in Nat /\ Width(t) <= Width(u)
<1>1. t \in 0 .. 9 /\ u \in 0 .. 9
  BY DEF is_int, PrimaryType, CATK_BOOL, CATK_FLOAT32, CATK_FLOAT64
<1> QED  BY <1>1, IntegerWidths

LEMMA BoolIsOneBit == translate_type(OfPrimary(CATK_BOOL)) = I1
BY DEF translate_type, OfPrimary, I1, LLVMType, Width, is_float, CATK_BOOL, CATK_UBOOL,
       CATK_FLOAT32, CATK_FLOAT64

(* Operators change the pointers of a type alike on both sides. *)
LEMMA PointersTranslate ==
  ASSUME NEW sty \in SemanticType
  PROVE  /\ getType(sty) \in SemanticType
         /\ translate_type(getType(sty)) = getPointerTo(translate_type(sty))
BY DEF SemanticType, getType, getPointerTo, translate_type, LLVMType

(* No type is the pointer to itself. *)
LEMMA PointersDiffer ==
  ASSUME NEW sty \in SemanticType
  PROVE  translate_type(sty) # getPointerTo(translate_type(sty))
<1> DEFINE ty == translate_type(sty)
<1>1. ty.depth = sty.depth /\ sty.depth \in Nat
  BY DEF SemanticType, translate_type, LLVMType
<1>2. getPointerTo(ty).depth = ty.depth + 1
  BY DEF getPointerTo, translate_type, LLVMType
<1> HIDE DEF ty
<1>3. getPointerTo(ty).depth # ty.depth  BY <1>1, <1>2
<1>4. ty # getPointerTo(ty)  BY <1>3
<1> QED  BY <1>4 DEF ty

(* Legalizing makes an operand one of the common type: by conversion, or    *)
(* because it is as wide and of the same kind already.                      *)
LEMMA LegalizedFits ==
  ASSUME NEW op \in BinOp, NEW v, Fits(v), is_primary(v.sty),
         NEW t \in PrimaryType, v.sty.prim <= t,
         op \in Bits => is_int(t)
  PROVE  Legalized(op, v, t).lty = translate_type(OfPrimary(t))
<1> DEFINE ty == translate_type(OfPrimary(t))
<1>1. v.lty = translate_type(OfPrimary(v.sty.prim)) /\ v.sty.prim \in PrimaryType
  BY DEF Fits, SemanticType, is_primary, OfPrimary, translate_type, LLVMType
<1>2. \A signed : Resized(v, ty, signed).lty = ty  BY DEF Resized
<1>3. Kept(v).lty = v.lty  BY DEF Kept
<1> HIDE DEF ty
<1>4. CASE op \in Exact \cup Quotients
  <2>1. Legalized(op, v, t) = tl_match_ret_type(v, OfPrimary(t))
    BY <1>4 DEF Legalized, Exact, Quotients, Bits, Orders, Equalities
  <2> QED  BY <2>1, <1>2, <1>3 DEF tl_match_ret_type, ty
<1>5. CASE op \in Bits
  <2>1. Legalized(op, v, t) = tl_match_ret_bits(v, OfPrimary(t))
    BY <1>5 DEF Legalized, Exact, Quotients, Bits, Orders, Equalities
  <2>2. Width(v.sty.prim) \in Nat /\ Width(t) \in Nat /\ Width(v.sty.prim) <= Width(t)
    BY <1>1, <1>5, WidthsRise
  <2>3. /\ v.lty.width = Width(v.sty.prim) /\ ty.width = Width(t)
        /\ v.lty.width = ty.width => v.lty = ty
    <3>1. is_int(t) /\ is_int(v.sty.prim)
      BY <1>1, <1>5 DEF is_int, PrimaryType, CATK_BOOL, CATK_FLOAT32, CATK_FLOAT64
    <3>2. ~is_float(t) /\ ~is_float(v.sty.prim)
      BY <3>1, <1>1 DEF is_int, is_float, PrimaryType, CATK_BOOL, CATK_FLOAT32, CATK_FLOAT64
    <3> QED  BY <3>2, <1>1 DEF ty, translate_type, OfPrimary, LLVMType
  <2> QED  BY <2>1, <2>2, <2>3, <1>2, <1>3 DEF tl_match_ret_bits, ty
<1>6. CASE op \in Orders \cup Equalities
  <2>1. Legalized(op, v, t) = tl_by_bop_pri_cast(v, t)
    BY <1>6 DEF Legalized, Exact, Quotients, Bits, Orders, Equalities
  <2> QED  BY <2>1, <1>2 DEF tl_by_bop_pri_cast, ty
<1> QED  BY <1>4, <1>5, <1>6 DEF BinOp
-----------------------------------------------------------------------------
(* A step that ends the translation, or leaves the operands. *)
LEMMA KeptStep ==
  ASSUME VInv, UNCHANGED operands, outcome' = "misfit" => at' \in {"if", "dereference", "capture"}
  PROVE  VInv'
BY DEF VInv, Made, OnlyPointersMisfit

(* The operands that stay below a new value. *)
LEMMA UnderFacts ==
  ASSUME VInv, NEW n \in 0 .. Len(operands)
  PROVE  /\ Under(n) \in Seq(Made)
         /\ \A i \in DOMAIN Under(n) : Under(n)[i] \in Made
<1>1. operands \in Seq(Made) /\ Len(operands) \in Nat  BY LenProperties DEF VInv
<1> DEFINE m == Len(operands) - n
<1>2. m \in 0 .. Len(operands)  BY <1>1
<1>3. Under(n) = SubSeq(operands, 1, m)  BY DEF Under
<1> HIDE DEF m
<1>4. \A i \in 1 .. m : operands[i] \in Made
  <2> TAKE i \in 1 .. m
  <2>1. i \in 1 .. Len(operands)  BY <1>1, <1>2
  <2> QED  BY <1>1, <2>1, ElementOfSeq
<1>5. Under(n) \in Seq(Made)  BY <1>2, <1>3, <1>4, <1>1, SubSeqProperties
<1>6. DOMAIN Under(n) = 1 .. Len(Under(n))  BY <1>5, LenProperties
<1> QED  BY <1>5, <1>6, ElementOfSeq

(* A step that puts a value in the place of the last n operands. *)
LEMMA GivesStep ==
  ASSUME VInv, outcome # "misfit", NEW n \in 0 .. Len(operands), NEW v, Fits(v), Gives(n, v)
  PROVE  VInv'
<1> DEFINE S == Made \cup {v}
           u == Under(n)
<1>1. u \in Seq(Made)  BY UnderFacts
<1>2. u \in Seq(S) /\ v \in S /\ Len(u) \in Nat
  <2>1. \A i \in 1 .. Len(u) : u[i] \in S  BY <1>1, ElementOfSeq
  <2>2. Len(u) \in Nat /\ DOMAIN u = 1 .. Len(u) /\ u = [i \in 1 .. Len(u) |-> u[i]]
    BY <1>1, LenProperties
  <2> QED  BY <2>1, <2>2, SeqDef
<1>3. operands' = Append(u, v) /\ UNCHANGED outcome  BY DEF Gives
<1> HIDE DEF S, u
<1>4. operands' \in Seq(S)  BY <1>2, <1>3, AppendProperties
<1>5. DOMAIN operands' = 1 .. Len(operands') /\ Len(operands') \in Nat
  BY <1>4, LenProperties
<1>6. \A i \in DOMAIN operands' : operands'[i] \in S  BY <1>4, <1>5, ElementOfSeq
<1>7. operands' \in Seq(Made')
  <2>1. \A i \in 1 .. Len(operands') : operands'[i] \in Made'  BY <1>5 DEF Made
  <2>2. operands' = [i \in 1 .. Len(operands') |-> operands'[i]]  BY <1>4, LenProperties
  <2> QED  BY <2>1, <2>2, <1>5, SeqDef
<1>8. \A w \in Made' : Fits(w)
  BY <1>6 DEF Made, VInv, S
<1>9. OnlyPointersMisfit'  BY <1>3 DEF OnlyPointersMisfit
<1> QED  BY <1>7, <1>8, <1>9 DEF VInv

(* The last operand, and the one before it. *)
LEMMA LastFits ==
  ASSUME VInv, operands # << >>
  PROVE  1 \in 0 .. Len(operands) /\ Fits(Last)
<1>1. operands \in Seq(Made)  BY DEF VInv
<1>2. Len(operands) \in Nat \ {0}  BY <1>1, EmptySeq, LenProperties
<1>3. Len(operands) \in 1 .. Len(operands)  BY <1>2
<1>4. Last \in Made  BY <1>1, <1>3, ElementOfSeq DEF Last
<1> QED  BY <1>2, <1>4 DEF VInv

LEMMA BothFit ==
  ASSUME VInv, Len(operands) >= 2
  PROVE  2 \in 0 .. Len(operands) /\ Fits(Last) /\ Fits(Before)
<1>1. operands \in Seq(Made) /\ Len(operands) \in Nat  BY LenProperties DEF VInv
<1>2. Len(operands) \in 1 .. Len(operands) /\ Len(operands) - 1 \in 1 .. Len(operands)
  BY <1>1
<1>3. Last \in Made /\ Before \in Made  BY <1>1, <1>2, ElementOfSeq DEF Last, Before
<1> QED  BY <1>1, <1>3 DEF VInv
-----------------------------------------------------------------------------
LEMMA ValueFits ==
  ASSUME NEW sty \in SemanticType, NEW bits
  PROVE  Fits(Value(sty, translate_type(sty), bits))
BY DEF Fits, Value

LEMMA LiteralStep ==
  ASSUME VInv, Literal
  PROVE  VInv'
<1>1. operands \in Seq(Made) /\ Len(operands) \in Nat  BY LenProperties DEF VInv
<1>2. 0 \in 0 .. Len(operands) /\ outcome = "running"  BY <1>1 DEF Literal
<1>3. PICK lit \in Literals :
        \/ Ends("refused") \/ Gives(0, ConstantOf(CATK_UINT8, 0))
        \/ Gives(0, ConstantOf(lit.tag, Interpret(lit)))
  BY DEF Literal
<1>4. lit.tag \in PrimaryType /\ CATK_UINT8 \in PrimaryType
  BY LiteralsAssumption DEF LiteralOK, PrimaryType, CATK_BOOL, CATK_INT8, CATK_UINT8, CATK_FLOAT64
<1>5. \A t \in PrimaryType : OfPrimary(t) \in SemanticType  BY DEF OfPrimary, SemanticType
<1>6. \A t \in PrimaryType : Fits(ConstantOf(t, 0)) /\ Fits(ConstantOf(t, Interpret(lit)))
  BY <1>5, ValueFits DEF ConstantOf
<1>7. CASE Ends("refused")  BY <1>7, KeptStep DEF Ends
<1>8. CASE Gives(0, ConstantOf(CATK_UINT8, 0))  BY <1>2, <1>4, <1>6, <1>8, GivesStep
<1>9. CASE Gives(0, ConstantOf(lit.tag, Interpret(lit)))  BY <1>2, <1>4, <1>6, <1>9, GivesStep
<1> QED  BY <1>3, <1>7, <1>8, <1>9

LEMMA BinaryStep ==
  ASSUME VInv, NEW op \in BinOp, Binary(op)
  PROVE  VInv'
<1> DEFINE f0 == resolve_flag(Before.sty)
           f1 == resolve_flag(Last.sty)
           t == bop_cast(Before.sty.prim, Last.sty.prim)
           x == Legalized(op, Before, t)
           y == Legalized(op, Last, t)
           r == OfPrimary(ResultType(op, Before.sty.prim, Last.sty.prim))
           lty == IF op \in Orders \cup Equalities THEN I1 ELSE x.lty
           v == Value(r, lty, ResultBits(op, f0 # "UI", x, y))
<1>1. /\ Len(operands) >= 2 /\ outcome = "running"
      /\ IF ~Typed(op, Before.sty, Last.sty) \/ ~Handled(op, f0, f1) THEN Ends("refused")
         ELSE IF x.lty # y.lty THEN Ends("misfit")
         ELSE Gives(2, v)
  BY DEF Binary, Proceed
<1>2. 2 \in 0 .. Len(operands) /\ Fits(Before) /\ Fits(Last)  BY <1>1, BothFit
<1>3. CASE ~Handled(op, f0, f1) \/ ~Typed(op, Before.sty, Last.sty)
  BY <1>1, <1>3, KeptStep DEF Ends
<1>4. CASE Handled(op, f0, f1) /\ Typed(op, Before.sty, Last.sty)
  <2>1. is_primary(Before.sty) /\ is_primary(Last.sty)
    <3>1. {f0, f1} \subseteq {"FP", "SI", "UI"}  BY <1>4 DEF Handled
    <3> QED  BY <3>1 DEF resolve_flag
  <2>2. /\ Before.sty.prim \in PrimaryType /\ Last.sty.prim \in PrimaryType
        /\ t \in PrimaryType /\ Before.sty.prim <= t /\ Last.sty.prim <= t
    <3>1. Before.sty.prim \in PrimaryType /\ Last.sty.prim \in PrimaryType
      BY <1>2 DEF Fits, SemanticType
    <3>2. \A a, b \in PrimaryType :
            bop_cast(a, b) \in PrimaryType /\ a <= bop_cast(a, b) /\ b <= bop_cast(a, b)
      BY DEF bop_cast, PrimaryType, CATK_BOOL, CATK_FLOAT64
    <3> QED  BY <3>1, <3>2
  <2>3. op \in Bits => is_int(t)
    <3>1. op \in Bits => {f0, f1} \subseteq {"SI", "UI"}
      BY <1>4 DEF Handled, Quotients, Orders, Bits
    <3>2. op \in Bits => ~is_float(Before.sty.prim) /\ ~is_float(Last.sty.prim)
      BY <3>1, <2>1 DEF resolve_flag
    <3> QED
      BY <3>2, <2>2 DEF is_float, is_int, bop_cast, PrimaryType, CATK_BOOL, CATK_FLOAT32, CATK_FLOAT64
  <2> HIDE DEF t
  <2>4. x.lty = translate_type(OfPrimary(t)) /\ y.lty = translate_type(OfPrimary(t))
    BY <1>2, <2>1, <2>2, <2>3, LegalizedFits
  <2>5. Gives(2, v)  BY <1>1, <1>4, <2>4
  <2>6. r \in SemanticType /\ lty = translate_type(r)
    <3>1. CASE op \in Orders \cup Equalities
      <4>1. r = OfPrimary(CATK_BOOL)  BY <3>1 DEF ResultType
      <4> QED  BY <4>1, <3>1, BoolIsOneBit
               DEF OfPrimary, SemanticType, PrimaryType, CATK_BOOL, CATK_FLOAT64
    <3>2. CASE op \notin Orders \cup Equalities
      <4>1. r = OfPrimary(t)  BY <3>2 DEF ResultType, t
      <4> QED  BY <4>1, <3>2, <2>2, <2>4 DEF OfPrimary, SemanticType
    <3> QED  BY <3>1, <3>2
  <2>7. Fits(v)  BY <2>6, ValueFits
  <2> HIDE DEF v
  <2> QED  BY <1>1, <1>2, <2>5, <2>7, GivesStep
<1> QED  BY <1>3, <1>4

LEMMA UnaryStep ==
  ASSUME VInv, Plus \/ Minus \/ Not \/ Invert \/ AddressOf
  PROVE  VInv'
<1>1. operands # << >> /\ outcome = "running"  BY DEF Plus, Minus, Not, Invert, AddressOf, Proceed
<1>2. 1 \in 0 .. Len(operands) /\ Last.sty \in SemanticType /\ Last.lty = translate_type(Last.sty)
  BY <1>1, LastFits DEF Fits
<1>3. CASE Plus \/ Minus \/ Not  BY <1>1, <1>3, KeptStep DEF Plus, Minus, Not, Ends
<1>4. CASE Invert
  <2>1. Ends("refused") \/ \E bits : Gives(1, Value(Last.sty, Last.lty, bits))
    BY <1>4 DEF Invert
  <2>2. \A bits : Fits(Value(Last.sty, Last.lty, bits))  BY <1>2, ValueFits
  <2>3. CASE Ends("refused")  BY <2>3, KeptStep DEF Ends
  <2>4. ASSUME NEW bits, Gives(1, Value(Last.sty, Last.lty, bits))
        PROVE  VInv'
    BY <1>1, <1>2, <2>2, <2>4, GivesStep
  <2> QED  BY <2>1, <2>3, <2>4
<1>5. CASE AddressOf
  <2> DEFINE v == Value(getType(Last.sty), getPointerTo(Last.lty), NoBits)
  <2>1. Ends("undefined") \/ Gives(1, v)  BY <1>5 DEF AddressOf
  <2>2. Fits(v)  BY <1>2, PointersTranslate, ValueFits
  <2> HIDE DEF v
  <2>3. CASE Ends("undefined")  BY <2>3, KeptStep DEF Ends
  <2>4. CASE Gives(1, v)  BY <1>1, <1>2, <2>2, <2>4, GivesStep
  <2> QED  BY <2>1, <2>3, <2>4
<1> QED  BY <1>3, <1>4, <1>5

(* `*' loads from what is not a pointer to what it loads. *)
LEMMA DereferenceStep ==
  ASSUME VInv, Dereference
  PROVE  VInv'
<1>1. operands # << >> /\ outcome = "running" /\ at' = "dereference"
  BY DEF Dereference, Proceed
<1>2. ~LoadFits(Last.lty, Last.lty)  BY <1>1, LastFits, PointersDiffer DEF Fits, LoadFits
<1>3. Ends("refused") \/ Ends("misfit")  BY <1>2 DEF Dereference
<1> QED  BY <1>1, <1>3, KeptStep DEF Ends

(* A symbol, and a call. *)
LEMMA PlaceStep ==
  ASSUME VInv, Symbol \/ Call
  PROVE  VInv'
<1>1. operands # << >> /\ outcome = "running"  BY DEF Symbol, Call, Proceed
<1>2. 1 \in 0 .. Len(operands) /\ Fits(Last)  BY <1>1, LastFits
<1>3. PICK load \in BOOLEAN : Gives(1, [Last EXCEPT !.load = load])
  BY <1>2 DEF Symbol, Call, Fits
<1> DEFINE v == [Last EXCEPT !.load = load]
<1>4. v.sty = Last.sty /\ v.lty = Last.lty  OBVIOUS
<1>5. Fits(v)  BY <1>2, <1>4 DEF Fits
<1> HIDE DEF v
<1> QED  BY <1>1, <1>2, <1>3, <1>5, GivesStep DEF v

(* The value of a captured symbol is stored to a pointer to a pointer to it. *)
LEMMA CaptureStep ==
  ASSUME VInv, Capture
  PROVE  VInv'
<1>1. operands # << >> /\ at' = "capture"  BY DEF Capture, Proceed
<1>2. ~StoreFits(Last.lty, getPointerTo(getPointerTo(translate_type(Last.sty))))
  <2>1. Last.sty \in SemanticType /\ Last.lty = translate_type(Last.sty)
    BY <1>1, LastFits DEF Fits
  <2>2. /\ getType(Last.sty) \in SemanticType
        /\ translate_type(getType(Last.sty)) = getPointerTo(Last.lty)
    BY <2>1, PointersTranslate
  <2>3. getPointerTo(Last.lty) # getPointerTo(getPointerTo(Last.lty))
    BY <2>2, PointersDiffer
  <2> QED  BY <2>1, <2>3 DEF StoreFits
<1>3. Ends("misfit")  BY <1>2 DEF Capture
<1> QED  BY <1>1, <1>3, KeptStep DEF Ends

(* An if's value is loaded from a place of the place's own type. *)
LEMMA IfStep ==
  ASSUME VInv, If
  PROVE  VInv'
<1>1. Len(operands) >= 2 /\ at' = "if"  BY DEF If, Proceed
<1> DEFINE PRes == getPointerTo(translate_type(Last.sty))
<1>2. ~LoadFits(PRes, PRes)
  <2>1. Last.sty \in SemanticType  BY <1>1, BothFit DEF Fits
  <2>2. getType(Last.sty) \in SemanticType /\ PRes = translate_type(getType(Last.sty))
    BY <2>1, PointersTranslate
  <2> QED  BY <2>2, PointersDiffer DEF LoadFits
<1>3. Ends("misfit") \/ Ends("refused")  BY <1>2 DEF If
<1> QED  BY <1>1, <1>3, KeptStep DEF Ends
-----------------------------------------------------------------------------
LEMMA Initially == Init => VInv
<1> SUFFICES ASSUME Init PROVE VInv  OBVIOUS
<1>1. operands = << >>  BY DEF Init
<1>2. Made = {}  BY <1>1 DEF Made
<1>3. operands \in Seq(Made)  BY <1>1, <1>2
<1> QED  BY <1>2, <1>3 DEF Init, VInv, OnlyPointersMisfit

LEMMA Inductive == VInv /\ [Next]_vars => VInv'
<1> SUFFICES ASSUME VInv, [Next]_vars PROVE VInv'  OBVIOUS
<1>1. CASE UNCHANGED vars  BY <1>1 DEF vars, VInv, Made, OnlyPointersMisfit
<1>2. CASE Literal  BY <1>2, LiteralStep
<1>3. ASSUME NEW op \in BinOp, Binary(op) PROVE VInv'  BY <1>3, BinaryStep
<1>4. CASE Plus \/ Minus \/ Not \/ Invert \/ AddressOf  BY <1>4, UnaryStep
<1>5. CASE Dereference  BY <1>5, DereferenceStep
<1>6. CASE Symbol \/ Call  BY <1>6, PlaceStep
<1>7. CASE Capture  BY <1>7, CaptureStep
<1>8. CASE If  BY <1>8, IfStep
<1> QED  BY <1>1, <1>2, <1>3, <1>4, <1>5, <1>6, <1>7, <1>8 DEF Next

LEMMA InvariantHolds == Spec => []VInv
BY Initially, Inductive, PTL DEF Spec

(* The LLVM type of every value is what translate_type makes of the type    *)
(* that type inference gives the expression, whatever operators, symbols,   *)
(* calls and addresses it is made of: the legalizers of BOP_HANDLE lead     *)
(* both operands to one type, and the result is of the inferred one.        *)
THEOREM TypesAgree == Spec => []TypesTranslated
<1>1. VInv => TypesTranslated  BY DEF VInv, Made, Fits, TypesTranslated
<1> QED  BY <1>1, InvariantHolds, PTL

(* No instruction gets operands of types it cannot have, but for the load   *)
(* of an if, of `*' and the store of a captured symbol (value.cpp,          *)
(* functional_expr.cpp); for those there is no operand that would fit.      *)
THEOREM MisfitsArePointers == Spec => []OnlyPointersMisfit
<1>1. VInv => OnlyPointersMisfit  BY DEF VInv
<1> QED  BY <1>1, InvariantHolds, PTL
-----------------------------------------------------------------------------
(* The literal that was translated last is the last operand. *)
LiteralKept ==
  at = "literal" /\ outcome = "running" /\ TagKnown(written) =>
    /\ LiteralOK(written) /\ ~BadCast(written)
    /\ Last.sty.prim = written.tag /\ Last.bits = Interpret(written)

LEMMA LiteralLast == VInv /\ LiteralKept /\ [Next]_vars => LiteralKept'
<1> SUFFICES ASSUME VInv, LiteralKept, [Next]_vars PROVE LiteralKept'  OBVIOUS
<1>1. CASE UNCHANGED vars
  BY <1>1 DEF vars, LiteralKept, Last, LiteralOK, TagKnown, BadCast, Interpret
<1>2. CASE Literal
  <2>1. PICK lit \in Literals :
          /\ written' = lit
          /\ TagKnown(lit) =>
               \/ outcome' = "refused"
               \/ ~BadCast(lit) /\ Gives(0, ConstantOf(lit.tag, Interpret(lit)))
    BY <1>2 DEF Literal, Ends
  <2> DEFINE v == ConstantOf(lit.tag, Interpret(lit))
  <2>2. LiteralOK(lit)  BY LiteralsAssumption
  <2>3. ASSUME Gives(0, v)
        PROVE  Last' = v
    <3> HIDE DEF v
    <3>1. operands \in Seq(Made) /\ Len(operands) \in Nat  BY LenProperties DEF VInv
    <3>2. 0 \in 0 .. Len(operands)  BY <3>1
    <3>3. Under(0) \in Seq(Made)  BY <3>2, UnderFacts
    <3>4. Under(0) \in Seq(Made \cup {v})
      <4>1. Made \subseteq Made \cup {v}  OBVIOUS
      <4>2. Len(Under(0)) \in Nat /\ \A i \in 1 .. Len(Under(0)) : Under(0)[i] \in Made \cup {v}
        BY <3>3, LenProperties, ElementOfSeq
      <4>3. Under(0) = [i \in 1 .. Len(Under(0)) |-> Under(0)[i]]  BY <3>3, LenProperties
      <4> QED  BY <4>2, <4>3, SeqDef
    <3>5. operands' = Append(Under(0), v)  BY <2>3 DEF Gives
    <3>6. operands'[Len(operands')] = v  BY <3>4, <3>5, AppendProperties
    <3> QED  BY <3>6 DEF Last
  <2>4. v.sty.prim = lit.tag /\ v.bits = Interpret(lit)
    BY DEF ConstantOf, Value, OfPrimary
  <2> HIDE DEF v
  <2>5. TagKnown(lit) /\ outcome' = "running" => ~BadCast(lit) /\ Last' = v  BY <2>1, <2>3 DEF v
  <2>6. CASE TagKnown(lit) /\ outcome' = "running"
    <3>1. ~BadCast(lit) /\ Last' = v /\ written' = lit  BY <2>1, <2>5, <2>6
    <3> QED  BY <3>1, <2>2, <2>4 DEF LiteralKept, LiteralOK, TagKnown, BadCast, Interpret, Written
  <2> QED  BY <2>1, <2>6 DEF LiteralKept, TagKnown
<1>3. CASE at' # "literal"  BY <1>3 DEF LiteralKept
<1>4. \A op \in BinOp : op # "literal"
  BY DEF BinOp, Exact, Quotients, Bits, Orders, Equalities
<1> QED
  BY <1>1, <1>2, <1>3, <1>4
  DEF Next, Binary, Plus, Minus, Not, Invert, Dereference, AddressOf, Symbol, Call, Capture,
      If, Proceed

(* Powers of two double, counted as the subsets of 1 .. n. *)
LEMMA PowersOfTwo ==
  ASSUME NEW n \in Nat
  PROVE  2^n \in Nat \ {0} /\ 2^(n + 1) = 2 * 2^n
<1> DEFINE S == 1 .. n
           T == 1 .. n + 1
           In == {X \in SUBSET T : n + 1 \in X}
           Out == SUBSET S
           grow == [X \in Out |-> X \cup {n + 1}]
<1>1. IsFiniteSet(S) /\ Cardinality(S) = n /\ IsFiniteSet(T) /\ Cardinality(T) = n + 1
  BY FS_Interval
<1>2. /\ IsFiniteSet(Out) /\ Cardinality(Out) = 2^n
      /\ IsFiniteSet(SUBSET T) /\ Cardinality(SUBSET T) = 2^(n + 1)
  BY <1>1, FS_SUBSET
<1>3. SUBSET T = In \cup Out /\ In \cap Out = {} /\ n + 1 \notin S /\ T = S \cup {n + 1}
  OBVIOUS
<1>4. grow \in Bijection(Out, In)
  <2>1. \A X \in Out : X \cup {n + 1} \in In  BY <1>3
  <2>2. \A X, Y \in Out : X \cup {n + 1} = Y \cup {n + 1} => X = Y
    <3> TAKE X, Y \in Out
    <3>1. n + 1 \notin X /\ n + 1 \notin Y  BY <1>3
    <3> QED  BY <3>1
  <2>3. \A Z \in In : \E X \in Out : Z = X \cup {n + 1}
    <3> TAKE Z \in In
    <3>1. Z \ {n + 1} \in Out  BY <1>3
    <3>2. Z = (Z \ {n + 1}) \cup {n + 1}  OBVIOUS
    <3> QED  BY <3>1, <3>2
  <2>4. \A X \in Out : grow[X] = X \cup {n + 1}  OBVIOUS
  <2>5. grow \in [Out -> In]  BY <2>1
  <2> HIDE DEF In, Out, grow
  <2> QED  BY <2>2, <2>3, <2>4, <2>5 DEF Bijection, Injection, Surjection, IsInjective
<1>5. IsFiniteSet(In) /\ Cardinality(In) = Cardinality(Out)
  <2>1. ExistsBijection(Out, In)  BY <1>4 DEF ExistsBijection
  <2> HIDE DEF In, Out
  <2> QED  BY <2>1, <1>2, FS_Bijection, FS_CardinalityType
<1>6. Cardinality(SUBSET T) = Cardinality(In) + Cardinality(Out)
  <2> HIDE DEF In, Out
  <2>1. Cardinality(In \cup Out) = Cardinality(In) + Cardinality(Out) - Cardinality(In \cap Out)
    BY <1>2, <1>5, FS_Union
  <2>2. Cardinality(In \cap Out) = 0
    <3>1. In \cap Out = {}  BY <1>3
    <3> QED  BY <3>1, FS_EmptySet
  <2>3. Cardinality(In) \in Nat /\ Cardinality(Out) \in Nat  BY <1>2, <1>5, FS_CardinalityType
  <2>4. Cardinality(SUBSET T) = Cardinality(In \cup Out)  BY <1>3
  <2> QED  BY <2>1, <2>2, <2>3, <2>4
<1>7. Cardinality(Out) \in Nat /\ Cardinality(Out) # 0
  <2>1. {} \in Out  OBVIOUS
  <2> HIDE DEF Out
  <2> QED  BY <1>2, <2>1, FS_CardinalityType, FS_EmptySet
<1> HIDE DEF Out
<1> QED  BY <1>2, <1>5, <1>6, <1>7

(* A number that w bits can hold is what its two's complement pattern is. *)
LEMMA PatternsAreSigned ==
  ASSUME NEW w \in Nat \ {0}, NEW n \in -2^(w - 1) .. 2^(w - 1) - 1
  PROVE  n \in Int /\ Signed(Pattern(n, w), w) = n
<1>1. w - 1 \in Nat /\ w - 1 + 1 = w  OBVIOUS
<1>2. PICK h \in Nat \ {0} : h = 2^(w - 1)  BY <1>1, PowersOfTwo
<1>3. 2^(w - 1 + 1) = 2 * h  BY <1>1, <1>2, PowersOfTwo
<1>4. 2^w = 2 * h  BY <1>1, <1>3
<1>5. n \in -h .. h - 1  BY <1>2
<1>6. \A k \in Nat \ {0} : \A m \in -k .. k - 1 : m % (2 * k) = IF m >= 0 THEN m ELSE m + 2 * k
  OBVIOUS
<1>7. Pattern(n, w) = IF n >= 0 THEN n ELSE n + 2 * h  BY <1>4, <1>5, <1>6 DEF Pattern
<1> QED  BY <1>2, <1>4, <1>5, <1>7 DEF Signed

(* What is dumped of a literal is read as that literal again. *)
LEMMA DumpedIsRead == LiteralKept => ConstantsReadBack
<1> SUFFICES ASSUME LiteralKept, at = "literal", outcome = "running", TagKnown(written),
                    is_int(written.tag)
             PROVE  ~BadCast(Dumped(Last)) /\ Interpret(Dumped(Last)) = Last.bits
  BY DEF ConstantsReadBack
<1> DEFINE t == written.tag
           again == Dumped(Last)
<1>1. LiteralOK(written) /\ ~BadCast(written) /\ Last.sty.prim = t /\ Last.bits = Interpret(written)
  BY DEF LiteralKept
<1>2. written.number \in Nat /\ written.negative \in BOOLEAN /\ ~is_float(t)
      /\ t \in CATK_INT8 .. CATK_FLOAT64
  BY <1>1 DEF LiteralOK, is_int, is_float, CATK_FLOAT32, CATK_FLOAT64, CATK_INT8
<1>3. again.tag = t /\ ~again.hex  BY <1>1 DEF Dumped
<1>4. CASE Width(t) = 8
  <2>1. Last.bits = 48 + written.number  BY <1>1, <1>2, <1>4 DEF Interpret
  <2>2. PICK n : n = Last.bits - 48  OBVIOUS
  <2>3. n = written.number /\ n \in Nat  BY <1>2, <2>1, <2>2
  <2>4. again.number = Magnitude(n) /\ (again.negative <=> n < 0) /\ again.digits = 1
    BY <1>1, <1>4, <2>2 DEF Dumped
  <2>5. again.number = n /\ ~again.negative  BY <2>3, <2>4 DEF Magnitude
  <2> HIDE DEF again
  <2>6. ~BadCast(again)  BY <1>3, <1>4, <2>4, <2>5 DEF BadCast
  <2>7. Interpret(again) = 48 + n  BY <1>2, <1>3, <1>4, <2>5 DEF Interpret
  <2> QED  BY <2>1, <2>3, <2>6, <2>7 DEF again
<1>5. CASE Width(t) # 8
  <2> DEFINE w == Width(t)
             n == Written(written)
  <2>1. w \in Nat \ {0}
    <3>1. \A x \in 0 .. 9 : Width(x) \in Nat \ {0}  BY IntegerWidths
    <3>2. t \in 0 .. 9  BY <1>2 DEF is_int, CATK_INT8, CATK_FLOAT32, CATK_FLOAT64
    <3> QED  BY <3>1, <3>2
  <2>2. n \in -2^(w - 1) .. 2^(w - 1) - 1  BY <1>1, <1>5 DEF BadCast
  <2>3. Last.bits = Pattern(n, w)  BY <1>1, <1>2, <1>5 DEF Interpret
  <2>4. n \in Int /\ Signed(Last.bits, w) = n  BY <2>1, <2>2, <2>3, PatternsAreSigned
  <2>5. again.number = Magnitude(n) /\ (again.negative <=> n < 0)
    BY <1>1, <1>5, <2>4 DEF Dumped
  <2>6. Written(again) = n
    <3> HIDE DEF n, again
    <3> QED  BY <2>4, <2>5 DEF Written, Magnitude
  <2> HIDE DEF again, n
  <2>7. ~BadCast(again)  BY <1>3, <1>5, <2>2, <2>6 DEF BadCast
  <2>8. Interpret(again) = Pattern(n, w)  BY <1>2, <1>3, <1>5, <2>6 DEF Interpret
  <2> QED  BY <2>3, <2>7, <2>8 DEF again
<1> QED  BY <1>4, <1>5

(* The text that Constant::dump writes of a constant is interpreted as the  *)
(* same constant again, for every integer type and every literal that is    *)
(* accepted, whatever its number was.                                       *)
THEOREM DumpedConstantsReadBack == Spec => []ConstantsReadBack
<1>1. Init => LiteralKept  BY DEF Init, LiteralKept
<1> QED  BY <1>1, DumpedIsRead, LiteralLast, InvariantHolds, PTL DEF Spec
=============================================================================
