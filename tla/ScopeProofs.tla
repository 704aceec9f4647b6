---------------------------- MODULE ScopeProofs ----------------------------
(***************************************************************************)
(* Proofs about Scope for every set of names and every bound.              *)
(*                                                                         *)
(* The inductive invariant ranks the symbols: a symbol is `sealed' when    *)
(* its from_ast is done, and whatever an expression reaches was sealed     *)
(* before the expression was finished.                                     *)
(***************************************************************************)
EXTENDS Scope, SequenceTheorems, WellFoundedInduction, TLAPS

Sealed == {s \in SymbolIds : symbols[s].seal > 0}

(* Every activation works on a context of the arena, has reached only       *)
(* complete symbols, and the symbol it is defining is not complete yet.     *)
FramesSealed ==
  \A i \in 1 .. Len(stack) :
    /\ stack[i].ctx \in ContextIds
    /\ stack[i].uses \cup stack[i].inner \subseteq Sealed
    /\ stack[i].pc = "rhs" => stack[i].sym \in SymbolIds \ Sealed
    /\ i < Len(stack) => stack[i].pc \in {"rhs", "ret"}

(* No symbol is being defined by two activations. *)
DefinedOnce ==
  \A i, j \in 1 .. Len(stack) :
    i # j /\ stack[i].pc = "rhs" /\ stack[j].pc = "rhs" => stack[i].sym # stack[j].sym

TablesSealed ==
  \A c \in ContextIds :
    /\ contexts[c].captures \cup contexts[c].params \cup contexts[c].locals
         \cup contexts[c].uses \cup contexts[c].inner \subseteq Sealed
    /\ \A n \in Names : contexts[c].accessible[n] > NullSym => contexts[c].accessible[n] \in Sealed

(* A symbol reaches only symbols that became complete before it did. *)
Ranked ==
  \A s \in SymbolIds :
    /\ symbols[s].seal <= clock
    /\ \A u \in Reached(s) : u \in Sealed /\ symbols[u].seal < symbols[s].seal

(* The module's own context has no capture list. *)
RootCapturesNothing == stack # <<>> => stack[1].pc # "captures"

IInv == /\ TypeOK /\ GuardDiscipline /\ RootCapturesNothing
        /\ FramesSealed /\ DefinedOnce /\ TablesSealed /\ Ranked
-----------------------------------------------------------------------------
(* The innermost activation and the ones below it. *)
LEMMA StackTop ==
  ASSUME TypeOK, stack # <<>>
  PROVE  /\ Len(stack) \in Nat \ {0}
         /\ Top \in Frame
         /\ \A f \in Frame : /\ WithTop(f) \in Seq(Frame)
                             /\ Len(WithTop(f)) = Len(stack)
                             /\ \A i \in 1 .. Len(stack) :
                                  WithTop(f)[i] = IF i = Len(stack) THEN f ELSE stack[i]
<1>1. stack \in Seq(Frame)  BY DEF TypeOK
<1>2. Len(stack) \in Nat \ {0}  BY <1>1, EmptySeq
<1>3. Len(stack) \in 1 .. Len(stack)  BY <1>2
<1>4. Top \in Frame  BY <1>1, <1>3, ElementOfSeq DEF Top
<1>5. ASSUME NEW f \in Frame
      PROVE  /\ WithTop(f) \in Seq(Frame)
             /\ Len(WithTop(f)) = Len(stack)
             /\ \A i \in 1 .. Len(stack) :
                  WithTop(f)[i] = IF i = Len(stack) THEN f ELSE stack[i]
  BY <1>1, <1>3, ExceptSeq DEF WithTop
<1> QED  BY <1>2, <1>4, <1>5

LEMMA StackRest ==
  ASSUME TypeOK, stack # <<>>
  PROVE  /\ Rest \in Seq(Frame)
         /\ Len(Rest) = Len(stack) - 1
         /\ \A i \in 1 .. Len(stack) - 1 : Rest[i] = stack[i]
<1>1. stack \in Seq(Frame) /\ Len(stack) \in Nat \ {0}  BY StackTop DEF TypeOK
<1>2. \A i \in 1 .. Len(stack) - 1 : stack[i] \in Frame
  <2> TAKE i \in 1 .. Len(stack) - 1
  <2> i \in 1 .. Len(stack)  BY <1>1
  <2> QED  BY <1>1, ElementOfSeq
<1> DEFINE n == Len(stack) - 1
<1>3. n \in Nat /\ \A i \in 1 .. n : stack[i] \in Frame  BY <1>1, <1>2
<1>4. Rest = SubSeq(stack, 1, n)  BY DEF Rest
<1> HIDE DEF n
<1>5. /\ SubSeq(stack, 1, n) \in Seq(Frame)
      /\ Len(SubSeq(stack, 1, n)) = IF 1 <= n THEN n - 1 + 1 ELSE 0
      /\ \A i \in 1 .. n - 1 + 1 : SubSeq(stack, 1, n)[i] = stack[1 + i - 1]
  BY <1>3, SubSeqProperties
<1>6. /\ Rest \in Seq(Frame) /\ Len(Rest) = n
      /\ \A i \in 1 .. n : Rest[i] = stack[i]
  BY <1>3, <1>4, <1>5
<1> QED  BY <1>6 DEF n

(* A step that only changes what the C++ stack is doing. *)
LEMMA ModeStep ==
  ASSUME IInv, mode' \in Mode, UNCHANGED <<contexts, symbols, current, stack, clock>>
  PROVE  IInv'
BY DEF IInv, TypeOK, GuardDiscipline, RootCapturesNothing, FramesSealed, DefinedOnce,
       TablesSealed, Ranked, Sealed, SymbolIds, ContextIds, Reached, Top

(* A step that only changes the innermost activation. *)
LEMMA TopStep ==
  ASSUME IInv, stack # <<>>, NEW f \in Frame,
         f.ctx = Top.ctx, f.last = Top.last, f.uses \cup f.inner \subseteq Sealed,
         f.pc = "rhs" => Top.pc = "rhs" /\ f.sym = Top.sym, f.pc # "captures",
         stack' = WithTop(f), UNCHANGED <<contexts, symbols, current, mode, clock>>
  PROVE  IInv'
<1> USE StackTop DEF IInv
<1>1. TypeOK'  BY DEF TypeOK
<1>2. Len(stack') = Len(stack) /\ stack' # <<>>  BY EmptySeq
<1>3. \A i \in 1 .. Len(stack) : stack'[i] = IF i = Len(stack) THEN f ELSE stack[i]
  OBVIOUS
<1>4. GuardDiscipline'
  <2>1. stack'[Len(stack')] = f  BY <1>2, <1>3
  <2>2. current' = stack'[Len(stack')].ctx  BY <2>1 DEF GuardDiscipline
  <2>3. ASSUME NEW i \in 1 .. Len(stack)
        PROVE  /\ stack'[i].last = stack[i].last
               /\ stack'[i].ctx = stack[i].ctx
    BY <1>3 DEF Top
  <2>4. ASSUME NEW i \in 1 .. Len(stack)
        PROVE  stack'[i].last = IF i = 1 THEN 0 ELSE stack'[i - 1].ctx
    <3>1. CASE i = 1  BY <3>1, <2>3 DEF GuardDiscipline
    <3>2. CASE i # 1
      <4>1. i - 1 \in 1 .. Len(stack)  BY <3>2
      <4> QED  BY <4>1, <3>2, <2>3 DEF GuardDiscipline
    <3> QED  BY <3>1, <3>2
  <2> QED  BY <1>2, <2>2, <2>4 DEF GuardDiscipline, Top
<1>5. FramesSealed'
  BY <1>2, <1>3 DEF FramesSealed, Sealed, SymbolIds, ContextIds, Top
<1>6. DefinedOnce'  BY <1>2, <1>3 DEF DefinedOnce, Top
<1>7. TablesSealed' /\ Ranked'
  BY DEF TablesSealed, Ranked, Sealed, SymbolIds, ContextIds, Reached
<1>8. RootCapturesNothing'  BY <1>2, <1>3 DEF RootCapturesNothing
<1> QED  BY <1>1, <1>4, <1>5, <1>6, <1>7, <1>8

(* What is appended to a sequence is its last element. *)
LEMMA Appended ==
  ASSUME NEW S, NEW seq \in Seq(S), NEW e \in S
  PROVE  /\ Append(seq, e) \in Seq(S)
         /\ Len(seq) \in Nat
         /\ Len(Append(seq, e)) = Len(seq) + 1
         /\ \A i \in 1 .. Len(seq) : Append(seq, e)[i] = seq[i]
         /\ Append(seq, e)[Len(seq) + 1] = e
BY AppendProperties, LenProperties

(* A context is entered: from nothing, or from within an expression. *)
LEMMA EnterStep ==
  ASSUME IInv, NEW immediate \in BOOLEAN, NEW pc \in {"captures", "stmts"},
         stack # <<>> => Top.pc \in {"rhs", "ret"}, stack = <<>> => pc = "stmts",
         Enter(immediate, pc)
  PROVE  IInv'
<1> DEFINE c == NewContext(immediate, current)
           id == Len(contexts) + 1
           f == [ctx |-> id, last |-> current, pc |-> pc, sym |-> NullSym,
                 uses |-> {}, inner |-> {}]
<1>1. /\ contexts' = Append(contexts, c) /\ stack' = Append(stack, f) /\ current' = id
      /\ UNCHANGED <<symbols, mode, clock>>
  BY DEF Enter
<1>2. contexts \in Seq(Context) /\ stack \in Seq(Frame) /\ current \in 0 .. Len(contexts)
  BY DEF IInv, TypeOK
<1>3. Len(contexts) \in Nat /\ Len(stack) \in Nat  BY <1>2, LenProperties
<1>4. c \in Context  BY <1>2, <1>3 DEF Context, NewContext, Absent
<1>5. f \in Frame  BY <1>2, <1>3 DEF Frame, NullSym
<1>6. /\ contexts' \in Seq(Context) /\ Len(contexts') = id /\ contexts'[id] = c
      /\ \A d \in ContextIds : contexts'[d] = contexts[d]
  BY <1>1, <1>2, <1>4, Appended DEF ContextIds
<1>7. /\ stack' \in Seq(Frame) /\ Len(stack') = Len(stack) + 1 /\ stack'[Len(stack) + 1] = f
      /\ \A i \in 1 .. Len(stack) : stack'[i] = stack[i]
  BY <1>1, <1>2, <1>5, Appended
<1>8. \A i \in 1 .. Len(stack') : i \in 1 .. Len(stack) \/ i = Len(stack) + 1
  BY <1>3, <1>7
<1>9. \A d \in ContextIds' : d \in ContextIds \/ d = id
  BY <1>3, <1>6 DEF ContextIds
<1>10. stack' # <<>>  BY <1>3, <1>7, EmptySeq
<1>a. Top' = f  BY <1>7 DEF Top
<1>b. stack = <<>> <=> Len(stack) = 0  BY <1>2, EmptySeq
<1>c. f.ctx = id /\ f.last = current /\ f.pc = pc /\ f.uses = {} /\ f.inner = {}  OBVIOUS
<1> HIDE DEF f
<1>11. TypeOK'
  BY <1>1, <1>3, <1>6, <1>7 DEF IInv, TypeOK
<1>12. GuardDiscipline'
  <2>1. ASSUME NEW i \in 1 .. Len(stack')
        PROVE  stack'[i].last = IF i = 1 THEN 0 ELSE stack'[i - 1].ctx
    <3>1. CASE i \in 1 .. Len(stack)
      <4>1. i # 1 => i - 1 \in 1 .. Len(stack)  BY <1>3, <3>1
      <4> QED  BY <3>1, <4>1, <1>7 DEF IInv, GuardDiscipline
    <3>2. CASE i = Len(stack) + 1
      <4>1. CASE stack = <<>>  BY <4>1, <3>2, <1>b, <1>7, <1>c DEF IInv, GuardDiscipline
      <4>2. CASE stack # <<>>
        <5>1. i # 1 /\ i - 1 = Len(stack) /\ i - 1 \in 1 .. Len(stack)
          BY <4>2, <3>2, <1>b, <1>3
        <5> QED  BY <5>1, <4>2, <3>2, <1>7, <1>c DEF IInv, GuardDiscipline, Top
      <4> QED  BY <4>1, <4>2
    <3> QED  BY <3>1, <3>2, <1>8
  <2> QED  BY <2>1, <1>1, <1>10, <1>a, <1>c DEF GuardDiscipline
<1>13. FramesSealed'
  <2>1. Sealed' = Sealed /\ SymbolIds' = SymbolIds  BY <1>1 DEF Sealed, SymbolIds
  <2>2. ContextIds \subseteq ContextIds' /\ id \in ContextIds'
    BY <1>3, <1>6 DEF ContextIds
  <2>3. ASSUME NEW i \in 1 .. Len(stack)
        PROVE  /\ stack[i].ctx \in ContextIds
               /\ stack[i].uses \cup stack[i].inner \subseteq Sealed
               /\ stack[i].pc = "rhs" => stack[i].sym \in SymbolIds \ Sealed
               /\ stack[i].pc \in {"rhs", "ret"}
    <3>1. i = Len(stack) => stack[i].pc \in {"rhs", "ret"}
      BY <1>b DEF Top
    <3> QED  BY <3>1, <1>3 DEF IInv, FramesSealed
  <2> QED  BY <2>1, <2>2, <2>3, <1>7, <1>8, <1>c DEF FramesSealed
<1>14. DefinedOnce'
  BY <1>7, <1>8, <1>c DEF IInv, DefinedOnce
<1>15. TablesSealed'
  <2>1. \A n \in Names : c.accessible[n] = Absent
    BY DEF NewContext
  <2>2. c.captures = {} /\ c.params = {} /\ c.locals = {} /\ c.uses = {} /\ c.inner = {}
    BY DEF NewContext
  <2> HIDE DEF c
  <2>3. Sealed' = Sealed  BY <1>1 DEF Sealed, SymbolIds
  <2> QED  BY <2>1, <2>2, <2>3, <1>6, <1>9 DEF IInv, TablesSealed, NullSym, Absent
<1>16. Ranked'
  BY <1>1 DEF IInv, Ranked, Sealed, SymbolIds, Reached
<1>17. RootCapturesNothing'
  <2>1. CASE stack = <<>>  BY <2>1, <1>b, <1>7, <1>c DEF RootCapturesNothing
  <2>2. CASE stack # <<>>
    <3>1. 1 \in 1 .. Len(stack)  BY <2>2, <1>b, <1>3
    <3> QED  BY <3>1, <2>2, <1>7 DEF IInv, RootCapturesNothing
  <2> QED  BY <2>1, <2>2
<1> QED  BY <1>11, <1>12, <1>13, <1>14, <1>15, <1>16, <1>17 DEF IInv

(* The context of the innermost activation is in the arena. *)
LEMMA TopContext ==
  ASSUME IInv, stack # <<>>
  PROVE  /\ Top.ctx \in ContextIds
         /\ current = Top.ctx
         /\ Here \in Context
         /\ Top.last \in Nat
         /\ \A ctx \in Context :
              LET cs == WithHere(ctx) IN
              /\ cs \in Seq(Context)
              /\ Len(cs) = Len(contexts)
              /\ \A d \in ContextIds : cs[d] = IF d = Top.ctx THEN ctx ELSE contexts[d]
<1>1. Len(stack) \in 1 .. Len(stack) /\ Top \in Frame  BY StackTop DEF IInv
<1>2. Top.ctx \in ContextIds  BY <1>1 DEF IInv, FramesSealed, Top
<1>3. current = Top.ctx  BY DEF IInv, GuardDiscipline
<1>4. contexts \in Seq(Context)  BY DEF IInv, TypeOK
<1>5. contexts[Top.ctx] \in Context  BY <1>2, <1>4, ElementOfSeq DEF ContextIds
<1>6. ASSUME NEW ctx \in Context
      PROVE  LET cs == WithHere(ctx) IN
             /\ cs \in Seq(Context)
             /\ Len(cs) = Len(contexts)
             /\ \A d \in ContextIds : cs[d] = IF d = Top.ctx THEN ctx ELSE contexts[d]
  BY <1>2, <1>4, ExceptSeq DEF ContextIds, WithHere
<1> QED  BY <1>1, <1>2, <1>3, <1>5, <1>6 DEF Frame, Here

(* A symbol is appended; `done' says whether it is complete already. *)
LEMMA NewSymbolFacts ==
  ASSUME IInv, NEW s \in Symbol, symbols' = Append(symbols, s),
         s.uses \cup s.inner \subseteq Sealed, s.seal \in {0, clock + 1},
         s.seal = 0 => s.uses \cup s.inner = {}, clock' = IF s.seal = 0 THEN clock ELSE s.seal
  PROVE  /\ symbols' \in Seq(Symbol) /\ clock' \in Nat
         /\ Len(symbols) + 1 \in SymbolIds' /\ Len(symbols) + 1 \notin SymbolIds
         /\ symbols'[Len(symbols) + 1] = s
         /\ SymbolIds \subseteq SymbolIds'
         /\ \A t \in SymbolIds : symbols'[t] = symbols[t]
         /\ Sealed' = IF s.seal = 0 THEN Sealed ELSE Sealed \cup {Len(symbols) + 1}
         /\ Ranked'
<1> DEFINE new == Len(symbols) + 1
<1>1. symbols \in Seq(Symbol) /\ clock \in Nat  BY DEF IInv, TypeOK
<1>2. /\ symbols' \in Seq(Symbol) /\ Len(symbols') = new /\ symbols'[new] = s
      /\ \A t \in SymbolIds : symbols'[t] = symbols[t]
      /\ Len(symbols) \in Nat
  BY <1>1, Appended DEF SymbolIds
<1>3. SymbolIds' = SymbolIds \cup {new} /\ new \notin SymbolIds  BY <1>2 DEF SymbolIds
<1>4. clock' \in Nat /\ clock <= clock' /\ s.seal <= clock'  BY <1>1
<1>5. Sealed' = IF s.seal = 0 THEN Sealed ELSE Sealed \cup {new}
  <2>1. \A t \in SymbolIds : t \in Sealed' <=> t \in Sealed
    BY <1>2, <1>3 DEF Sealed
  <2>2. new \in Sealed' <=> s.seal # 0
    BY <1>1, <1>2, <1>3 DEF Sealed
  <2>3. Sealed' \subseteq SymbolIds \cup {new} /\ Sealed \subseteq SymbolIds
    BY <1>3 DEF Sealed
  <2>4. CASE s.seal = 0
    <3>1. Sealed \subseteq Sealed'  BY <2>1, <2>3
    <3>2. Sealed' \subseteq Sealed  BY <2>1, <2>2, <2>3, <2>4
    <3>3. Sealed' = Sealed  BY <3>1, <3>2
    <3> QED  BY <3>3, <2>4
  <2>5. CASE s.seal # 0
    <3>1. new \in Sealed'  BY <2>2, <2>5
    <3>2. Sealed \subseteq Sealed'  BY <2>1, <2>3
    <3>3. \A t \in Sealed' : t \in Sealed \/ t = new  BY <2>1, <2>3
    <3>4. Sealed' = Sealed \cup {new}  BY <3>1, <3>2, <3>3
    <3> QED  BY <3>4, <2>5
  <2> QED  BY <2>4, <2>5
<1>6. ASSUME NEW t \in SymbolIds'
      PROVE  /\ symbols'[t].seal <= clock'
             /\ \A u \in Reached(t)' : u \in Sealed' /\ symbols'[u].seal < symbols'[t].seal
  <2>1. CASE t \in SymbolIds
    <3>1. symbols[t] \in Symbol  BY <2>1, <1>1, ElementOfSeq DEF SymbolIds
    <3>2. /\ symbols[t].seal <= clock
          /\ \A u \in Reached(t) : u \in Sealed /\ symbols[u].seal < symbols[t].seal
      BY <2>1 DEF IInv, Ranked
    <3>3. symbols[t].seal \in Nat  BY <3>1 DEF Symbol
    <3>4. Reached(t)' = Reached(t) /\ symbols'[t].seal = symbols[t].seal
      BY <2>1, <1>2 DEF Reached
    <3>5. \A u \in Sealed : symbols'[u] = symbols[u] /\ u \in Sealed'
      BY <1>2, <1>5 DEF Sealed
    <3>6. symbols'[t].seal <= clock'  BY <3>2, <3>3, <3>4, <1>1, <1>4
    <3> QED  BY <3>2, <3>4, <3>5, <3>6
  <2>2. CASE t = new
    <3>1. Reached(t)' = s.uses \cup s.inner  BY <2>2, <1>2 DEF Reached
    <3>2. \A u \in Sealed : /\ symbols'[u] = symbols[u] /\ u \in Sealed'
                            /\ symbols[u].seal <= clock /\ symbols[u].seal \in Nat
      <4> TAKE u \in Sealed
      <4>1. u \in SymbolIds  BY DEF Sealed
      <4>2. symbols[u] \in Symbol  BY <4>1, <1>1, ElementOfSeq DEF SymbolIds
      <4> QED  BY <4>1, <4>2, <1>2, <1>5 DEF IInv, Ranked, Symbol
    <3>3. symbols'[t] = s /\ s.seal <= clock'  BY <2>2, <1>2, <1>4
    <3>4. CASE s.seal = 0  BY <3>1, <3>3, <3>4
    <3>5. CASE s.seal = clock + 1
      <4>1. ASSUME NEW u \in Sealed
            PROVE  u \in Sealed' /\ symbols'[u].seal < clock + 1
        <5>1. symbols'[u].seal = symbols[u].seal  BY <3>2
        <5>2. symbols[u].seal <= clock /\ symbols[u].seal \in Nat /\ u \in Sealed'  BY <3>2
        <5> QED  BY <5>1, <5>2, <1>1
      <4> QED  BY <4>1, <3>1, <3>3, <3>5
    <3> QED  BY <3>4, <3>5
  <2> QED  BY <2>1, <2>2, <1>3
<1>7. Ranked'  BY <1>6 DEF Ranked
<1> QED  BY <1>1, <1>2, <1>3, <1>4, <1>5, <1>7

(* A capture or a parameter is declared in the innermost context. *)
LEMMA DeclareStep ==
  ASSUME IInv, Running({"captures", "params"}), NEW n \in Names,
         NEW kind \in {"capture", "param"}, NEW uses \in SUBSET Sealed,
         Declare(n, kind, uses), NEW ctx \in Context,
         ctx.captures \cup ctx.params \cup ctx.locals \cup ctx.uses \cup ctx.inner
           \subseteq Sealed \cup {Len(symbols) + 1},
         \A m \in Names : ctx.accessible[m] > NullSym =>
                            ctx.accessible[m] \in Sealed \cup {Len(symbols) + 1},
         contexts' = WithHere(ctx),
         UNCHANGED <<current, stack, mode>>
  PROVE  IInv'
<1> DEFINE s == NewSymbol(n, kind, uses, Top.ctx, clock + 1)
<1>1. stack # <<>> /\ clock \in Nat  BY DEF Running, IInv, TypeOK
<1>2. Top.ctx \in ContextIds  BY <1>1, TopContext
<1>3. Sealed \subseteq Nat  BY DEF Sealed, SymbolIds
<1>4. s \in Symbol  BY <1>1, <1>2, <1>3 DEF NewSymbol, Symbol, ContextIds
<1>5. s.uses \cup s.inner \subseteq Sealed /\ s.seal = clock + 1 /\ s.seal # 0
  BY <1>1 DEF NewSymbol
<1>6. symbols' = Append(symbols, s) /\ clock' = clock + 1  BY DEF Declare
<1> HIDE DEF s
<1>7. /\ symbols' \in Seq(Symbol) /\ clock' \in Nat /\ Ranked'
      /\ Sealed' = Sealed \cup {Len(symbols) + 1} /\ SymbolIds \subseteq SymbolIds'
      /\ \A t \in SymbolIds : symbols'[t] = symbols[t]
      /\ Len(symbols) + 1 \notin SymbolIds
  BY <1>1, <1>4, <1>5, <1>6, NewSymbolFacts
<1>8. /\ contexts' \in Seq(Context) /\ Len(contexts') = Len(contexts)
      /\ \A d \in ContextIds : contexts'[d] = IF d = Top.ctx THEN ctx ELSE contexts[d]
  BY <1>1, TopContext
<1>9. ContextIds' = ContextIds  BY <1>8 DEF ContextIds
<1>10. TypeOK'  BY <1>7, <1>8 DEF IInv, TypeOK
<1>11. GuardDiscipline' /\ DefinedOnce' /\ RootCapturesNothing'
  BY DEF IInv, GuardDiscipline, DefinedOnce, RootCapturesNothing, Top
<1>12. FramesSealed'
  BY <1>7, <1>9 DEF IInv, FramesSealed
<1>13. TablesSealed'
  BY <1>7, <1>8, <1>9 DEF IInv, TablesSealed
<1> QED  BY <1>7, <1>10, <1>11, <1>12, <1>13 DEF IInv

LEMMA CaptureStep ==
  ASSUME IInv, NEW n \in Names, Capture(n)
  PROVE  IInv'
<1> DEFINE new == Len(symbols) + 1
           ctx == [Here EXCEPT !.accessible[n] = new, !.captures = @ \cup {new}]
<1>1. stack # <<>>  BY DEF Capture, Running
<1>2. Top.ctx \in ContextIds /\ Here \in Context  BY <1>1, TopContext
<1>3. new \in Nat  BY LenProperties DEF IInv, TypeOK
<1>4. ctx \in Context
  <2>1. [Here.accessible EXCEPT ![n] = new] \in [Names -> Int]  BY <1>2, <1>3 DEF Context
  <2>2. Here.captures \cup {new} \in SUBSET Nat  BY <1>2, <1>3 DEF Context
  <2> QED  BY <1>2, <2>1, <2>2 DEF Context
<1>5. /\ ctx.captures = Here.captures \cup {new} /\ ctx.params = Here.params
      /\ ctx.locals = Here.locals /\ ctx.uses = Here.uses /\ ctx.inner = Here.inner
      /\ \A m \in Names : ctx.accessible[m] = IF m = n THEN new ELSE Here.accessible[m]
  BY <1>2 DEF Context
<1>6. contexts' = WithHere(ctx)  BY DEF Capture
<1>7. CaptureSource(n) \in Sealed
  <2>1. Len(stack) \in Nat \ {0}  BY <1>1, StackTop DEF IInv
  <2>2. Top.pc = "captures"  BY DEF Capture, Running
  <2>3. Len(stack) # 1  BY <2>1, <2>2, <1>1 DEF IInv, RootCapturesNothing, Top
  <2>4. Len(stack) \in 1 .. Len(stack) /\ Len(stack) - 1 \in 1 .. Len(stack)  BY <2>1, <2>3
  <2>5. Top.last = stack[Len(stack) - 1].ctx  BY <2>3, <2>4 DEF IInv, GuardDiscipline, Top
  <2>6. Top.last \in ContextIds  BY <2>4, <2>5 DEF IInv, FramesSealed
  <2> QED  BY <2>6 DEF Capture, CaptureSource, IInv, TablesSealed
<1>8. /\ Here.captures \cup Here.params \cup Here.locals \cup Here.uses \cup Here.inner
           \subseteq Sealed
      /\ \A m \in Names : Here.accessible[m] > NullSym => Here.accessible[m] \in Sealed
  BY <1>2 DEF IInv, TablesSealed, Here
<1>9. /\ Running({"captures", "params"}) /\ UNCHANGED <<current, stack, mode>>
      /\ Declare(n, "capture", {CaptureSource(n)})
  BY DEF Capture, Running
<1>10. {CaptureSource(n)} \in SUBSET Sealed  BY <1>7
<1> HIDE DEF ctx
<1> QED  BY <1>4, <1>5, <1>6, <1>8, <1>9, <1>10, DeclareStep

LEMMA ParamStep ==
  ASSUME IInv, NEW n \in Names, Param(n)
  PROVE  IInv'
<1> DEFINE new == Len(symbols) + 1
           ctx == [Here EXCEPT !.accessible[n] = new, !.params = @ \cup {new}]
<1>1. stack # <<>>  BY DEF Param, Running
<1>2. Top.ctx \in ContextIds /\ Here \in Context  BY <1>1, TopContext
<1>3. new \in Nat  BY LenProperties DEF IInv, TypeOK
<1>4. ctx \in Context
  <2>1. [Here.accessible EXCEPT ![n] = new] \in [Names -> Int]  BY <1>2, <1>3 DEF Context
  <2>2. Here.params \cup {new} \in SUBSET Nat  BY <1>2, <1>3 DEF Context
  <2> QED  BY <1>2, <2>1, <2>2 DEF Context
<1>5. /\ ctx.params = Here.params \cup {new} /\ ctx.captures = Here.captures
      /\ ctx.locals = Here.locals /\ ctx.uses = Here.uses /\ ctx.inner = Here.inner
      /\ \A m \in Names : ctx.accessible[m] = IF m = n THEN new ELSE Here.accessible[m]
  BY <1>2 DEF Context
<1>6. contexts' = WithHere(ctx)  BY DEF Param
<1>7. /\ Here.captures \cup Here.params \cup Here.locals \cup Here.uses \cup Here.inner
           \subseteq Sealed
      /\ \A m \in Names : Here.accessible[m] > NullSym => Here.accessible[m] \in Sealed
  BY <1>2 DEF IInv, TablesSealed, Here
<1>8. /\ Running({"captures", "params"}) /\ UNCHANGED <<current, stack, mode>>
      /\ Declare(n, "param", {})
  BY DEF Param, Running
<1> HIDE DEF ctx
<1> QED  BY <1>4, <1>5, <1>6, <1>7, <1>8, DeclareStep

(* Symbol::from_ast starts on the right hand side of an assignment. *)
LEMMA AssignStep ==
  ASSUME IInv, NEW n \in Names, Assign(n)
  PROVE  IInv'
<1> DEFINE new == Len(symbols) + 1
           ctx == [Here EXCEPT !.accessible[n] = NullSym]
           s == NewSymbol(n, "local", {}, Top.ctx, 0)
           f == [Top EXCEPT !.pc = "rhs", !.sym = new]
<1>1. /\ stack # <<>> /\ Top.pc = "stmts" /\ UNCHANGED <<current, mode, clock>>
      /\ contexts' = WithHere(ctx) /\ symbols' = Append(symbols, s) /\ stack' = WithTop(f)
  BY DEF Assign, Assignable, Running
<1>2. Top.ctx \in ContextIds /\ Here \in Context /\ Top \in Frame
  BY <1>1, TopContext, StackTop DEF IInv
<1>3. new \in Nat  BY LenProperties DEF IInv, TypeOK
<1>4. ctx \in Context
  <2>1. [Here.accessible EXCEPT ![n] = NullSym] \in [Names -> Int]
    BY <1>2 DEF Context, NullSym
  <2> QED  BY <1>2, <2>1 DEF Context
<1>5. /\ ctx.captures = Here.captures /\ ctx.params = Here.params
      /\ ctx.locals = Here.locals /\ ctx.uses = Here.uses /\ ctx.inner = Here.inner
      /\ \A m \in Names : ctx.accessible[m] = IF m = n THEN NullSym ELSE Here.accessible[m]
  BY <1>2 DEF Context
<1>6. s \in Symbol /\ s.uses \cup s.inner = {} /\ s.seal = 0
  BY <1>2 DEF NewSymbol, Symbol, ContextIds
<1>7. /\ f \in Frame /\ f.ctx = Top.ctx /\ f.last = Top.last /\ f.pc = "rhs" /\ f.sym = new
      /\ f.uses = Top.uses /\ f.inner = Top.inner
  BY <1>2, <1>3 DEF Frame
<1> HIDE DEF ctx, s, f
<1>8. /\ symbols' \in Seq(Symbol) /\ Ranked' /\ Sealed' = Sealed
      /\ SymbolIds \subseteq SymbolIds' /\ new \in SymbolIds' /\ new \notin SymbolIds
  BY <1>1, <1>6, NewSymbolFacts
<1>9. /\ contexts' \in Seq(Context) /\ Len(contexts') = Len(contexts)
      /\ \A d \in ContextIds : contexts'[d] = IF d = Top.ctx THEN ctx ELSE contexts[d]
  BY <1>1, <1>4, TopContext
<1>10. ContextIds' = ContextIds  BY <1>9 DEF ContextIds
<1>11. /\ stack' \in Seq(Frame) /\ Len(stack') = Len(stack) /\ Len(stack) \in Nat \ {0}
       /\ \A i \in 1 .. Len(stack) : stack'[i] = IF i = Len(stack) THEN f ELSE stack[i]
  BY <1>1, <1>7, StackTop DEF IInv
<1>12. TypeOK'  BY <1>1, <1>8, <1>9, <1>11 DEF IInv, TypeOK
<1>13. GuardDiscipline'
  <2>1. stack' # <<>> /\ Top' = f  BY <1>11, EmptySeq DEF Top
  <2>2. \A i \in 1 .. Len(stack) :
          stack'[i].last = stack[i].last /\ stack'[i].ctx = stack[i].ctx
    BY <1>7, <1>11 DEF Top
  <2>3. ASSUME NEW i \in 1 .. Len(stack)
        PROVE  stack'[i].last = IF i = 1 THEN 0 ELSE stack'[i - 1].ctx
    <3>1. i # 1 => i - 1 \in 1 .. Len(stack)  BY <1>11
    <3> QED  BY <3>1, <2>2 DEF IInv, GuardDiscipline
  <2> QED  BY <2>1, <2>3, <1>1, <1>7, <1>11 DEF IInv, GuardDiscipline
<1>14. FramesSealed'
  <2>1. ASSUME NEW i \in 1 .. Len(stack), i # Len(stack)
        PROVE  /\ stack'[i].ctx \in ContextIds
               /\ stack'[i].uses \cup stack'[i].inner \subseteq Sealed
               /\ stack'[i].pc = "rhs" => stack'[i].sym \in SymbolIds' \ Sealed
               /\ stack'[i].pc \in {"rhs", "ret"}
    BY <2>1, <1>8, <1>11 DEF IInv, FramesSealed
  <2>2. /\ f.ctx \in ContextIds /\ f.uses \cup f.inner \subseteq Sealed
        /\ f.sym \in SymbolIds' \ Sealed
    <3>1. Len(stack) \in 1 .. Len(stack)  BY <1>11
    <3>2. Top.uses \cup Top.inner \subseteq Sealed  BY <3>1 DEF IInv, FramesSealed, Top
    <3>3. Sealed \subseteq SymbolIds  BY DEF Sealed
    <3> QED  BY <3>2, <3>3, <1>2, <1>7, <1>8
  <2> QED  BY <2>1, <2>2, <1>8, <1>10, <1>11 DEF FramesSealed
<1>15. DefinedOnce'
  BY <1>7, <1>8, <1>11 DEF IInv, DefinedOnce, FramesSealed
<1>16. TablesSealed'
  <2>1. ASSUME NEW d \in ContextIds
        PROVE  /\ contexts'[d].captures \cup contexts'[d].params \cup contexts'[d].locals
                    \cup contexts'[d].uses \cup contexts'[d].inner \subseteq Sealed
               /\ \A m \in Names : contexts'[d].accessible[m] > NullSym =>
                                     contexts'[d].accessible[m] \in Sealed
    <3>1. CASE d # Top.ctx  BY <3>1, <1>9 DEF IInv, TablesSealed
    <3>2. CASE d = Top.ctx
      <4>1. /\ Here.captures \cup Here.params \cup Here.locals \cup Here.uses \cup Here.inner
                 \subseteq Sealed
            /\ \A m \in Names : Here.accessible[m] > NullSym => Here.accessible[m] \in Sealed
        BY <1>2 DEF IInv, TablesSealed, Here
      <4> QED  BY <4>1, <3>2, <1>5, <1>9 DEF NullSym
    <3> QED  BY <3>1, <3>2
  <2> QED  BY <2>1, <1>8, <1>10 DEF TablesSealed
<1>17. RootCapturesNothing'
  <2>1. 1 \in 1 .. Len(stack)  BY <1>11
  <2> QED  BY <2>1, <1>1, <1>7, <1>11 DEF IInv, RootCapturesNothing
<1> QED  BY <1>8, <1>12, <1>13, <1>14, <1>15, <1>16, <1>17 DEF IInv

(* Symbol::from_ast is done and the symbol is published. *)
LEMMA AssignDoneStep ==
  ASSUME IInv, AssignDone
  PROVE  IInv'
<1> DEFINE id == Top.sym
           old == symbols[id]
           ctx == [Here EXCEPT !.accessible[symbols[Top.sym].name] = Top.sym,
                               !.locals = @ \cup {Top.sym}]
           s == [old EXCEPT !.uses = Top.uses, !.inner = Top.inner, !.seal = clock + 1]
           f == [Top EXCEPT !.pc = "stmts", !.sym = NullSym, !.uses = {}, !.inner = {}]
<1>1. /\ stack # <<>> /\ Top.pc = "rhs" /\ UNCHANGED <<current, mode>> /\ clock' = clock + 1
      /\ contexts' = WithHere(ctx) /\ symbols' = [symbols EXCEPT ![id] = s]
      /\ stack' = WithTop(f)
  BY DEF AssignDone, Running
<1>2. /\ Top.ctx \in ContextIds /\ Here \in Context /\ Top \in Frame
      /\ Len(stack) \in 1 .. Len(stack)
  BY <1>1, TopContext, StackTop DEF IInv
<1>3. id \in SymbolIds \ Sealed /\ Top.uses \cup Top.inner \subseteq Sealed
  BY <1>1, <1>2 DEF IInv, FramesSealed, Top
<1>4. symbols \in Seq(Symbol) /\ clock \in Nat  BY DEF IInv, TypeOK
<1>5. /\ \A t \in SymbolIds : /\ symbols[t] \in Symbol /\ symbols[t].seal \in Nat
                              /\ symbols[t].name \in Names
      /\ SymbolIds \subseteq Nat
  <2>1. \A t \in SymbolIds : symbols[t] \in Symbol  BY <1>4, ElementOfSeq DEF SymbolIds
  <2>2. \A x \in Symbol : x.seal \in Nat /\ x.name \in Names  BY DEF Symbol
  <2>3. SymbolIds \subseteq Nat  BY DEF SymbolIds
  <2> QED  BY <2>1, <2>2, <2>3
<1>6. s \in Symbol /\ s.uses = Top.uses /\ s.inner = Top.inner /\ s.seal = clock + 1
  <2>1. old \in Symbol  BY <1>3, <1>5
  <2>2. Top.uses \in SUBSET Nat /\ Top.inner \in SUBSET Nat /\ clock + 1 \in Nat
    BY <1>2, <1>4 DEF Frame
  <2> HIDE DEF old
  <2> QED  BY <2>1, <2>2 DEF Symbol
<1>7. ctx \in Context
  <2>1. [Here.accessible EXCEPT ![symbols[Top.sym].name] = Top.sym] \in [Names -> Int]
    <3>1. Top.sym \in SymbolIds /\ Top.sym \in Int  BY <1>2, <1>3 DEF Frame
    <3>2. symbols[Top.sym].name \in Names  BY <3>1, <1>5
    <3>3. Here.accessible \in [Names -> Int]  BY <1>2 DEF Context
    <3> QED  BY <3>1, <3>2, <3>3
  <2>2. Here.locals \cup {Top.sym} \in SUBSET Nat  BY <1>2, <1>3, <1>5 DEF Context
  <2> QED  BY <1>2, <2>1, <2>2 DEF Context
<1>8. /\ ctx.captures = Here.captures /\ ctx.params = Here.params
      /\ ctx.locals = Here.locals \cup {id} /\ ctx.uses = Here.uses
      /\ ctx.inner = Here.inner
      /\ \A m \in Names : ctx.accessible[m] = id \/ ctx.accessible[m] = Here.accessible[m]
  BY <1>2 DEF Context
<1>9. /\ f \in Frame /\ f.ctx = Top.ctx /\ f.last = Top.last /\ f.pc = "stmts"
      /\ f.uses = {} /\ f.inner = {}
  BY <1>2 DEF Frame, NullSym
<1> HIDE DEF ctx, s, f
<1>10. /\ symbols' \in Seq(Symbol) /\ Len(symbols') = Len(symbols)
       /\ \A t \in SymbolIds : symbols'[t] = IF t = id THEN s ELSE symbols[t]
  BY <1>1, <1>3, <1>4, <1>6, ExceptSeq DEF SymbolIds
<1>11. SymbolIds' = SymbolIds  BY <1>10 DEF SymbolIds
<1>12. Sealed' = Sealed \cup {id}
  <2>1. \A t \in SymbolIds : t \in Sealed' <=> t \in Sealed \/ t = id
    BY <1>4, <1>6, <1>10, <1>11 DEF Sealed
  <2>2. Sealed \subseteq SymbolIds /\ Sealed' \subseteq SymbolIds  BY <1>11 DEF Sealed
  <2>3. Sealed \cup {id} \subseteq Sealed'  BY <2>1, <2>2, <1>3
  <2>4. Sealed' \subseteq Sealed \cup {id}  BY <2>1, <2>2
  <2> QED  BY <2>3, <2>4
<1>13. /\ contexts' \in Seq(Context) /\ Len(contexts') = Len(contexts)
       /\ \A d \in ContextIds : contexts'[d] = IF d = Top.ctx THEN ctx ELSE contexts[d]
  BY <1>1, <1>7, TopContext
<1>14. ContextIds' = ContextIds  BY <1>13 DEF ContextIds
<1>15. /\ stack' \in Seq(Frame) /\ Len(stack') = Len(stack) /\ Len(stack) \in Nat \ {0}
       /\ \A i \in 1 .. Len(stack) : stack'[i] = IF i = Len(stack) THEN f ELSE stack[i]
  BY <1>1, <1>9, StackTop DEF IInv
<1>16. TypeOK'  BY <1>1, <1>4, <1>10, <1>13, <1>15 DEF IInv, TypeOK
<1>17. GuardDiscipline'
  <2>1. stack' # <<>> /\ Top' = f  BY <1>15, EmptySeq DEF Top
  <2>2. \A i \in 1 .. Len(stack) :
          stack'[i].last = stack[i].last /\ stack'[i].ctx = stack[i].ctx
    BY <1>9, <1>15 DEF Top
  <2>3. ASSUME NEW i \in 1 .. Len(stack)
        PROVE  stack'[i].last = IF i = 1 THEN 0 ELSE stack'[i - 1].ctx
    <3>1. i # 1 => i - 1 \in 1 .. Len(stack)  BY <1>15
    <3> QED  BY <3>1, <2>2 DEF IInv, GuardDiscipline
  <2> QED  BY <2>1, <2>3, <1>1, <1>9, <1>15 DEF IInv, GuardDiscipline
<1>18. FramesSealed'
  <2>1. ASSUME NEW i \in 1 .. Len(stack), i # Len(stack)
        PROVE  /\ stack'[i].ctx \in ContextIds
               /\ stack'[i].uses \cup stack'[i].inner \subseteq Sealed
               /\ stack'[i].pc = "rhs" => stack'[i].sym \in SymbolIds \ Sealed
               /\ stack'[i].pc = "rhs" => stack'[i].sym # id
               /\ stack'[i].pc \in {"rhs", "ret"}
    <3>1. stack'[i] = stack[i]  BY <2>1, <1>15
    <3>2. stack[i].pc = "rhs" => stack[i].sym # id
      BY <2>1, <1>1, <1>2 DEF IInv, DefinedOnce, Top
    <3> QED  BY <2>1, <3>1, <3>2 DEF IInv, FramesSealed
  <2> QED  BY <2>1, <1>2, <1>9, <1>11, <1>12, <1>14, <1>15 DEF FramesSealed
<1>19. DefinedOnce'
  BY <1>9, <1>15 DEF IInv, DefinedOnce
<1>20. TablesSealed'
  <2>1. ASSUME NEW d \in ContextIds
        PROVE  /\ contexts'[d].captures \cup contexts'[d].params \cup contexts'[d].locals
                    \cup contexts'[d].uses \cup contexts'[d].inner \subseteq Sealed'
               /\ \A m \in Names : contexts'[d].accessible[m] > NullSym =>
                                     contexts'[d].accessible[m] \in Sealed'
    <3>1. CASE d # Top.ctx  BY <3>1, <1>12, <1>13 DEF IInv, TablesSealed
    <3>2. CASE d = Top.ctx
      <4>1. /\ Here.captures \cup Here.params \cup Here.locals \cup Here.uses \cup Here.inner
                 \subseteq Sealed
            /\ \A m \in Names : Here.accessible[m] > NullSym => Here.accessible[m] \in Sealed
        BY <1>2 DEF IInv, TablesSealed, Here
      <4> QED  BY <4>1, <3>2, <1>8, <1>12, <1>13
    <3> QED  BY <3>1, <3>2
  <2> QED  BY <2>1, <1>14 DEF TablesSealed
<1>21. RootCapturesNothing'
  <2>1. 1 \in 1 .. Len(stack)  BY <1>15
  <2> QED  BY <2>1, <1>1, <1>9, <1>15 DEF IInv, RootCapturesNothing
<1>22. Ranked'
  <2>1. ASSUME NEW t \in SymbolIds
        PROVE  /\ symbols'[t].seal <= clock'
               /\ \A u \in Reached(t)' : u \in Sealed' /\ symbols'[u].seal < symbols'[t].seal
    <3>1. \A u \in Sealed : /\ u \in Sealed' /\ symbols'[u].seal = symbols[u].seal
                            /\ symbols[u].seal \in Nat /\ symbols[u].seal <= clock
      BY <1>3, <1>5, <1>10, <1>12 DEF IInv, Ranked, Sealed
    <3>2. CASE t = id
      <4>1. symbols'[t] = s  BY <3>2, <1>3, <1>10
      <4>2. Reached(t)' \subseteq Sealed  BY <4>1, <1>3, <1>6 DEF Reached
      <4>3. \A u \in Sealed : symbols'[u].seal < clock + 1  BY <3>1, <1>4
      <4> QED  BY <4>1, <4>2, <4>3, <3>1, <1>1, <1>4, <1>6
    <3>3. CASE t # id
      <4>1. symbols'[t] = symbols[t] /\ Reached(t)' = Reached(t)
        BY <3>3, <1>10 DEF Reached
      <4>2. /\ symbols[t].seal <= clock /\ symbols[t].seal \in Nat
            /\ \A u \in Reached(t) : u \in Sealed /\ symbols[u].seal < symbols[t].seal
        BY <1>5 DEF IInv, Ranked
      <4>3. symbols'[t].seal <= clock'  BY <4>1, <4>2, <1>1, <1>4
      <4> QED  BY <4>1, <4>2, <4>3, <3>1
    <3> QED  BY <3>2, <3>3
  <2> QED  BY <2>1, <1>11 DEF Ranked
<1> QED  BY <1>16, <1>17, <1>18, <1>19, <1>20, <1>21, <1>22 DEF IInv

(* An activation ends: what is known of the stack below it stays true. *)
LEMMA PopStep ==
  ASSUME IInv, stack # <<>>, stack' \in Seq(Frame), Len(stack') = Len(stack) - 1,
         \A i \in 1 .. Len(stack) - 1 :
           /\ stack'[i].ctx = stack[i].ctx /\ stack'[i].last = stack[i].last
           /\ stack'[i].pc = stack[i].pc /\ stack'[i].sym = stack[i].sym
           /\ stack'[i].uses \cup stack'[i].inner \subseteq Sealed,
         current' = Last, Len(contexts') = Len(contexts), UNCHANGED symbols
  PROVE  /\ GuardDiscipline' /\ FramesSealed' /\ DefinedOnce' /\ RootCapturesNothing'
         /\ current' \in 0 .. Len(contexts)
<1>1. Len(stack) \in Nat \ {0}  BY StackTop DEF IInv
<1>2. \A i \in 1 .. Len(stack') : i \in 1 .. Len(stack) - 1 /\ i \in 1 .. Len(stack) /\ i < Len(stack)
  BY <1>1
<1>3. Sealed' = Sealed /\ SymbolIds' = SymbolIds /\ ContextIds' = ContextIds
  BY DEF Sealed, SymbolIds, ContextIds
<1>4. CASE Len(stack) = 1
  <2>1. stack' = <<>>  BY <1>4, EmptySeq
  <2>2. current' = 0  BY <1>1, <1>4 DEF IInv, GuardDiscipline, Last, Top
  <2>3. Len(stack') = 0  BY <1>4
  <2>4. Len(contexts) \in Nat  BY LenProperties DEF IInv, TypeOK
  <2>5. ASSUME NEW i \in 1 .. Len(stack') PROVE FALSE
    <3>1. i \in 1 .. 0  BY <2>3, Zenon
    <3> QED  BY <3>1
  <2> QED
    BY <2>1, <2>2, <2>4, <2>5 DEF GuardDiscipline, FramesSealed, DefinedOnce, RootCapturesNothing
<1>5. CASE Len(stack) # 1
  <2>1. /\ Len(stack) - 1 \in 1 .. Len(stack') /\ Len(stack) \in 1 .. Len(stack)
        /\ Len(stack) - 1 \in 1 .. Len(stack) /\ 1 \in 1 .. Len(stack) - 1
    BY <1>1, <1>5
  <2>2. stack' # <<>>  BY <1>1, <1>5, EmptySeq
  <2>3. Top.last = stack[Len(stack) - 1].ctx
    BY <2>1, <1>5 DEF IInv, GuardDiscipline, Top
  <2>4. current' = Top'.ctx  BY <2>1, <2>3, <1>2 DEF Last, Top
  <2>5. ASSUME NEW i \in 1 .. Len(stack')
        PROVE  stack'[i].last = IF i = 1 THEN 0 ELSE stack'[i - 1].ctx
    <3>1. i # 1 => i - 1 \in 1 .. Len(stack) - 1  BY <1>1
    <3> QED  BY <3>1, <1>2 DEF IInv, GuardDiscipline
  <2>6. GuardDiscipline'  BY <2>2, <2>4, <2>5 DEF GuardDiscipline
  <2>7. current' \in 0 .. Len(contexts)
    <3>1. Top.last \in ContextIds  BY <2>1, <2>3 DEF IInv, FramesSealed
    <3> QED  BY <3>1, LenProperties DEF Last, ContextIds, IInv, TypeOK
  <2>8. FramesSealed'
    BY <1>2, <1>3 DEF IInv, FramesSealed
  <2>9. DefinedOnce'  BY <1>2 DEF IInv, DefinedOnce
  <2>10. RootCapturesNothing'
    BY <2>1, <1>1 DEF IInv, RootCapturesNothing
  <2> QED  BY <2>6, <2>7, <2>8, <2>9, <2>10
<1> QED  BY <1>4, <1>5

LEMMA ReturnStep ==
  ASSUME IInv, Return
  PROVE  IInv'
<1> DEFINE ctx == [Here EXCEPT !.returned = TRUE, !.uses = Top.uses, !.inner = Top.inner]
           k == Len(stack) - 1
           more == ReachedThrough(Top.ctx, Top)
<1>1. /\ stack # <<>> /\ UNCHANGED <<symbols, mode, clock>> /\ contexts' = WithHere(ctx)
      /\ current' = Last
  BY DEF Return, Running
<1>2. /\ Top.ctx \in ContextIds /\ Here \in Context /\ Top \in Frame
      /\ Len(stack) \in Nat \ {0} /\ Len(stack) \in 1 .. Len(stack)
  BY <1>1, TopContext, StackTop DEF IInv
<1>3. Sealed' = Sealed /\ Sealed \subseteq Nat  BY <1>1 DEF Sealed, SymbolIds
<1>4. Top.uses \cup Top.inner \subseteq Sealed  BY <1>2 DEF IInv, FramesSealed, Top
<1>5. ctx \in Context
  <2>1. Top.uses \in SUBSET Nat /\ Top.inner \in SUBSET Nat  BY <1>2 DEF Frame
  <2> QED  BY <1>2, <2>1 DEF Context
<1>6. /\ ctx.captures = Here.captures /\ ctx.params = Here.params /\ ctx.locals = Here.locals
      /\ ctx.uses = Top.uses /\ ctx.inner = Top.inner /\ ctx.accessible = Here.accessible
  BY <1>2 DEF Context
<1> HIDE DEF ctx
<1>7. /\ contexts' \in Seq(Context) /\ Len(contexts') = Len(contexts)
      /\ \A d \in ContextIds : contexts'[d] = IF d = Top.ctx THEN ctx ELSE contexts[d]
  BY <1>1, <1>5, TopContext
<1>8. ContextIds' = ContextIds  BY <1>7 DEF ContextIds
<1>9. /\ Here.captures \cup Here.params \cup Here.locals \cup Here.uses \cup Here.inner
           \subseteq Sealed
      /\ \A m \in Names : Here.accessible[m] > NullSym => Here.accessible[m] \in Sealed
  BY <1>2 DEF IInv, TablesSealed, Here
<1>10. TablesSealed'
  <2>1. ASSUME NEW d \in ContextIds
        PROVE  /\ contexts'[d].captures \cup contexts'[d].params \cup contexts'[d].locals
                    \cup contexts'[d].uses \cup contexts'[d].inner \subseteq Sealed
               /\ \A m \in Names : contexts'[d].accessible[m] > NullSym =>
                                     contexts'[d].accessible[m] \in Sealed
    <3>1. CASE d # Top.ctx  BY <3>1, <1>7 DEF IInv, TablesSealed
    <3>2. CASE d = Top.ctx  BY <3>2, <1>4, <1>6, <1>7, <1>9
    <3> QED  BY <3>1, <3>2
  <2> QED  BY <2>1, <1>3, <1>8 DEF TablesSealed
<1>11. Ranked'  BY <1>1 DEF IInv, Ranked, Sealed, SymbolIds, Reached
<1>12. /\ stack' \in Seq(Frame) /\ Len(stack') = Len(stack) - 1
       /\ \A i \in 1 .. Len(stack) - 1 :
            /\ stack'[i].ctx = stack[i].ctx /\ stack'[i].last = stack[i].last
            /\ stack'[i].pc = stack[i].pc /\ stack'[i].sym = stack[i].sym
            /\ stack'[i].uses \cup stack'[i].inner \subseteq Sealed
  <2>1. CASE Len(stack) = 1
    <3>1. stack' = <<>>  BY <2>1 DEF Return
    <3> QED  BY <3>1, <2>1, EmptySeq
  <2>2. CASE Len(stack) # 1
    <3> DEFINE g == Reaching(Rest[k], more)
    <3>1. stack' = [Rest EXCEPT ![k] = g]  BY <2>2 DEF Return
    <3>2. /\ Rest \in Seq(Frame) /\ Len(Rest) = k /\ k \in 1 .. k
          /\ \A i \in 1 .. k : Rest[i] = stack[i]
      BY <1>1, <1>2, <2>2, StackRest DEF IInv
    <3>3. Rest[k] \in Frame  BY <3>2, ElementOfSeq
    <3>4. more \subseteq Sealed /\ more \subseteq Nat
      BY <1>3, <1>4, <1>9 DEF ReachedThrough, Here
    <3>5. /\ g \in Frame /\ g.ctx = Rest[k].ctx /\ g.last = Rest[k].last /\ g.pc = Rest[k].pc
          /\ g.sym = Rest[k].sym /\ g.uses = Rest[k].uses /\ g.inner = Rest[k].inner \cup more
      <4>1. Rest[k].inner \cup more \in SUBSET Nat  BY <3>3, <3>4 DEF Frame
      <4> HIDE DEF more, k
      <4> QED  BY <3>3, <4>1 DEF Frame, Reaching
    <3> HIDE DEF g
    <3>6. /\ stack' \in Seq(Frame) /\ Len(stack') = k
          /\ \A i \in 1 .. k : stack'[i] = IF i = k THEN g ELSE Rest[i]
      BY <3>1, <3>2, <3>5, ExceptSeq
    <3>7. \A i \in 1 .. k : i \in 1 .. Len(stack) /\ stack[i].uses \cup stack[i].inner \subseteq Sealed
      BY <1>2 DEF IInv, FramesSealed
    <3> QED  BY <3>2, <3>4, <3>5, <3>6, <3>7
  <2> QED  BY <2>1, <2>2
<1>13. /\ GuardDiscipline' /\ FramesSealed' /\ DefinedOnce' /\ RootCapturesNothing'
       /\ current' \in 0 .. Len(contexts)
  BY <1>1, <1>7, <1>12, PopStep
<1>14. TypeOK'  BY <1>1, <1>7, <1>12, <1>13 DEF IInv, TypeOK
<1> QED  BY <1>10, <1>11, <1>13, <1>14 DEF IInv

LEMMA UnwindStep ==
  ASSUME IInv, Unwind
  PROVE  IInv'
<1>1. CASE stack = <<>>
  <2>1. mode' \in Mode /\ UNCHANGED <<contexts, symbols, current, stack, clock>>
    BY <1>1 DEF Unwind, Mode
  <2> QED  BY <2>1, ModeStep
<1>2. CASE stack # <<>>
  <2>1. stack' = Rest /\ current' = Last /\ UNCHANGED <<contexts, symbols, mode, clock>>
    BY <1>2 DEF Unwind
  <2>2. /\ stack' \in Seq(Frame) /\ Len(stack') = Len(stack) - 1
        /\ \A i \in 1 .. Len(stack) - 1 : stack'[i] = stack[i]
    BY <1>2, <2>1, StackRest DEF IInv
  <2>3. \A i \in 1 .. Len(stack) - 1 : stack[i].uses \cup stack[i].inner \subseteq Sealed
    BY <1>2, StackTop DEF IInv, FramesSealed
  <2>4. /\ GuardDiscipline' /\ FramesSealed' /\ DefinedOnce' /\ RootCapturesNothing'
        /\ current' \in 0 .. Len(contexts)
    BY <1>2, <2>1, <2>2, <2>3, PopStep
  <2>5. TypeOK'  BY <2>1, <2>2, <2>4 DEF IInv, TypeOK
  <2>6. TablesSealed' /\ Ranked'
    BY <2>1 DEF IInv, TablesSealed, Ranked, Sealed, SymbolIds, ContextIds, Reached
  <2> QED  BY <2>4, <2>5, <2>6 DEF IInv
<1> QED  BY <1>1, <1>2
-----------------------------------------------------------------------------
LEMMA Initially == Init => IInv
<1> SUFFICES ASSUME Init PROVE IInv  OBVIOUS
<1>1. Len(contexts) = 0 /\ Len(symbols) = 0 /\ Len(stack) = 0  BY EmptySeq DEF Init
<1>2. TypeOK  BY <1>1, EmptySeq DEF Init, TypeOK, Mode
<1>3. ContextIds = {} /\ SymbolIds = {} /\ 1 .. Len(stack) = {}
  BY <1>1 DEF ContextIds, SymbolIds
<1> QED  BY <1>2, <1>3 DEF Init, IInv, GuardDiscipline, RootCapturesNothing, FramesSealed,
            DefinedOnce, TablesSealed, Ranked

(* The innermost activation goes on in the same expression, or elsewhere. *)
LEMMA GotoStep ==
  ASSUME IInv, stack # <<>>, NEW pc \in {"params", "stmts", "ret"}, Goto(pc),
         UNCHANGED <<contexts, symbols, current, mode, clock>>
  PROVE  IInv'
<1> DEFINE f == [Top EXCEPT !.pc = pc]
<1>1. Top \in Frame /\ Len(stack) \in 1 .. Len(stack)  BY StackTop DEF IInv
<1>2. /\ f \in Frame /\ f.ctx = Top.ctx /\ f.last = Top.last /\ f.pc = pc
      /\ f.uses = Top.uses /\ f.inner = Top.inner
  BY <1>1 DEF Frame
<1>3. f.uses \cup f.inner \subseteq Sealed  BY <1>1, <1>2 DEF IInv, FramesSealed, Top
<1>4. stack' = WithTop(f)  BY DEF Goto
<1> HIDE DEF f
<1> QED  BY <1>2, <1>3, <1>4, TopStep

LEMMA IdentifierStep ==
  ASSUME IInv, NEW n \in Names, Identifier(n)
  PROVE  IInv'
<1> DEFINE f == [Top EXCEPT !.uses = @ \cup {Lookup(n)}]
<1>1. stack # <<>> /\ stack' = WithTop(f) /\ UNCHANGED <<contexts, symbols, current, mode, clock>>
  BY DEF Identifier, InExpression, Running
<1>2. Top \in Frame /\ Len(stack) \in 1 .. Len(stack) /\ Top.ctx \in ContextIds /\ current = Top.ctx
  BY <1>1, StackTop, TopContext DEF IInv
<1>3. Lookup(n) \in Sealed
  BY <1>2 DEF Identifier, Lookup, IInv, TablesSealed
<1>4. Lookup(n) \in Nat  BY <1>3 DEF Sealed, SymbolIds
<1>5. /\ f \in Frame /\ f.ctx = Top.ctx /\ f.last = Top.last /\ f.pc = Top.pc /\ f.sym = Top.sym
      /\ f.uses = Top.uses \cup {Lookup(n)} /\ f.inner = Top.inner
  <2>1. Top.uses \cup {Lookup(n)} \in SUBSET Nat  BY <1>2, <1>4 DEF Frame
  <2> QED  BY <1>2, <2>1 DEF Frame
<1>6. f.uses \cup f.inner \subseteq Sealed  BY <1>2, <1>3, <1>5 DEF IInv, FramesSealed, Top
<1>7. Top.pc # "captures"  BY DEF Identifier, InExpression, Running
<1> HIDE DEF f
<1> QED  BY <1>1, <1>5, <1>6, <1>7, TopStep

LEMMA Inductive == IInv /\ [Next]_vars => IInv'
<1> SUFFICES ASSUME IInv, [Next]_vars PROVE IInv'  OBVIOUS
<1> USE DEF Mode
<1>1. CASE UNCHANGED vars
  BY <1>1, ModeStep DEF vars, IInv, TypeOK
<1>2. CASE ModuleFromAst  BY <1>2, EnterStep DEF ModuleFromAst
<1>3. CASE BlockFromAst  BY <1>3, EnterStep DEF BlockFromAst, InExpression, Running
<1>4. CASE LambdaFromAst  BY <1>4, EnterStep DEF LambdaFromAst, InExpression, Running
<1>5. ASSUME NEW n \in Names, Capture(n) PROVE IInv'  BY <1>5, CaptureStep
<1>6. ASSUME NEW n \in Names, CaptureMissing(n) \/ CaptureNull(n) PROVE IInv'
  BY <1>6, ModeStep DEF CaptureMissing, CaptureNull, Throw
<1>7. CASE CapturesDone
  <2>1. CASE Here.immediate  BY <1>7, <2>1, GotoStep DEF CapturesDone, Running
  <2>2. CASE ~Here.immediate  BY <1>7, <2>2, GotoStep DEF CapturesDone, Running
  <2> QED  BY <2>1, <2>2
<1>8. ASSUME NEW n \in Names, Param(n) PROVE IInv'  BY <1>8, ParamStep
<1>9. CASE ParamDefault \/ AssignMany \/ Unsupported
  BY <1>9, ModeStep DEF ParamDefault, AssignMany, Unsupported, Throw
<1>10. CASE ParamsDone  BY <1>10, GotoStep DEF ParamsDone, Running
<1>11. CASE ParamListMissing  BY <1>11, ModeStep DEF ParamListMissing
<1>12. ASSUME NEW n \in Names, Assign(n) PROVE IInv'  BY <1>12, AssignStep
<1>13. ASSUME NEW n \in Names, AssignAgain(n) PROVE IInv'  BY <1>13, <1>1 DEF AssignAgain
<1>14. CASE AssignDone  BY <1>14, AssignDoneStep
<1>15. ASSUME NEW n \in Names, Identifier(n) PROVE IInv'  BY <1>15, IdentifierStep
<1>16. ASSUME NEW n \in Names, IdentifierUndefined(n) PROVE IInv'
  BY <1>16, ModeStep DEF IdentifierUndefined, Throw
<1>17. CASE StartReturn  BY <1>17, GotoStep DEF StartReturn, Running
<1>18. CASE Return  BY <1>18, ReturnStep
<1>19. CASE Unwind  BY <1>19, UnwindStep
<1>20. CASE Halt  BY <1>20, <1>1 DEF Halt
<1> QED
  BY <1>1, <1>2, <1>3, <1>4, <1>5, <1>6, <1>7, <1>8, <1>9, <1>10, <1>11, <1>12, <1>13, <1>14,
     <1>15, <1>16, <1>17, <1>18, <1>19, <1>20 DEF Next

LEMMA Invariant == Spec => []IInv
BY Initially, Inductive, PTL DEF Spec

(* What is ranked has no cycles: the symbol of least rank in a set reaches  *)
(* nothing in it.                                                           *)
LEMMA RankedIsWellFounded == IInv => DependenciesWellFounded
<1> SUFFICES ASSUME IInv, NEW S \in SUBSET SymbolIds, S # {}
             PROVE  \E s \in S : Reached(s) \cap S = {}
  BY DEF DependenciesWellFounded
<1> DEFINE R == {symbols[s].seal : s \in S}
<1>1. \A s \in SymbolIds : symbols[s].seal \in Nat
  <2>1. symbols \in Seq(Symbol)  BY DEF IInv, TypeOK
  <2>2. \A s \in SymbolIds : symbols[s] \in Symbol  BY <2>1, ElementOfSeq DEF SymbolIds
  <2> QED  BY <2>2 DEF Symbol
<1>2. R \subseteq Nat /\ R # {}  BY <1>1
<1> HIDE DEF R
<1>3. PICK x \in R : \A y \in R : ~ (<<y, x>> \in OpToRel(<, Nat))
  BY <1>2, NatLessThanWellFounded, WFMin
<1>4. \A y \in R : ~ (y < x)  BY <1>2, <1>3 DEF OpToRel
<1>5. PICK s \in S : symbols[s].seal = x  BY DEF R
<1>6. \A u \in Reached(s) : symbols[u].seal < x  BY <1>5 DEF IInv, Ranked
<1>7. \A u \in S : symbols[u].seal \in R  BY DEF R
<1> QED  BY <1>4, <1>5, <1>6, <1>7

(* Every variable keeps its type, whatever is analysed. *)
THEOREM TypeCorrect == Spec => []TypeOK
<1>1. IInv => TypeOK  BY DEF IInv
<1> QED  BY <1>1, Invariant, PTL

(* current_context_ follows the activations of Context::from_ast, through   *)
(* returns and through exceptions.                                          *)
THEOREM GuardsRestoreTheContext == Spec => []GuardDiscipline
<1>1. IInv => GuardDiscipline  BY DEF IInv
<1> QED  BY <1>1, Invariant, PTL

(* Whatever program is analysed, no symbol depends on itself, directly or   *)
(* through others.                                                          *)
THEOREM NoCyclicDependencies == Spec => []DependenciesWellFounded
BY RankedIsWellFounded, Invariant, PTL
=============================================================================
