-------------------------- MODULE ScopeNamesProofs --------------------------
(***************************************************************************)
(* What names mean in Scope, proved for every set of names and every bound. *)
(*                                                                         *)
(* ScopeProofs ranks the symbols; here they get their places.  The         *)
(* invariant ties every live activation to its context: the symbols it has *)
(* reached are that context's, and an entry of the context is a null       *)
(* pointer just while the activation is analysing that entry's right hand  *)
(* side.  No two activations share a context, so that a step changes the   *)
(* table of one only.                                                      *)
(***************************************************************************)
EXTENDS ScopeProofs

(* Activation f and its context c. *)
FrameNamed(f, c) ==
  /\ c.outer = f.last /\ ~c.returned
  /\ \A u \in f.uses : symbols[u].owner = f.ctx
  /\ f.pc \in {"captures", "params"} => c.locals = {}
  /\ f.pc = "rhs" => symbols[f.sym].owner = f.ctx /\ symbols[f.sym].kind = "local"
  /\ \A n \in Names : c.accessible[n] = NullSym <=> f.pc = "rhs" /\ symbols[f.sym].name = n

FramesNamed == \A i \in 1 .. Len(stack) : FrameNamed(stack[i], contexts[stack[i].ctx])

OneActivationEach ==
  \A i, j \in 1 .. Len(stack) : i # j => stack[i].ctx # stack[j].ctx

(* What the head of a context declares: its captures and its parameters. *)
Header(ctx) == ctx.captures \cup ctx.params

(* No local takes a name of the head.  The first conjunct is what makes it  *)
(* inductive: a name of the head always means something, so that it can     *)
(* never be assigned to.                                                    *)
HeaderNamed(ctx) ==
  /\ \A d \in Header(ctx) : ctx.accessible[symbols[d].name] > NullSym
  /\ \A s \in ctx.locals, d \in Header(ctx) : symbols[d].name # symbols[s].name

(* NamesUnambiguous, for one context. *)
TableNamed(c, ctx) ==
  /\ HeaderNamed(ctx)
  /\ \A s \in ctx.locals : ctx.accessible[symbols[s].name] = s
  /\ \A n \in Names : ctx.accessible[n] > NullSym =>
       /\ ctx.accessible[n] \in ctx.captures \cup ctx.params \cup ctx.locals
       /\ symbols[ctx.accessible[n]].name = n
       /\ symbols[ctx.accessible[n]].owner = c

(* LexicalVisibility, for one symbol and for one context. *)
SymbolVisible(s) ==
  \A u \in symbols[s].uses :
    IF symbols[s].kind = "capture"
    THEN /\ symbols[u].owner = contexts[symbols[s].owner].outer
         /\ symbols[u].name = symbols[s].name
    ELSE symbols[u].owner = symbols[s].owner
ContextVisible(c, ctx) == \A u \in ctx.uses : symbols[u].owner = c

ReturnedNotNull(ctx) == ctx.returned => \A n \in Names : ctx.accessible[n] # NullSym

(* A symbol belongs to a context of the arena. *)
Placed(s) == symbols[s].owner \in ContextIds

ContextsNamed ==
  \A c \in ContextIds :
    /\ TableNamed(c, contexts[c]) /\ ContextVisible(c, contexts[c])
    /\ ReturnedNotNull(contexts[c])

SymbolsNamed == \A s \in SymbolIds : SymbolVisible(s) /\ Placed(s)

NullInside == mode = "null_deref" => Len(stack) > 1 /\ stack[Len(stack) - 1].pc = "rhs"

NInv == IInv /\ FramesNamed /\ OneActivationEach /\ ContextsNamed /\ SymbolsNamed
-----------------------------------------------------------------------------
(* What a step leaves of the symbols. *)
SymbolsKept ==
  /\ SymbolIds \subseteq SymbolIds'
  /\ \A t \in SymbolIds : /\ symbols'[t].name = symbols[t].name
                          /\ symbols'[t].owner = symbols[t].owner
                          /\ symbols'[t].kind = symbols[t].kind

(* Contexts keep their place, and their outer context. *)
ContextsKept ==
  /\ ContextIds \subseteq ContextIds'
  /\ \A d \in ContextIds : contexts'[d].outer = contexts[d].outer

(* What the ranking invariant says of the symbols that frames and tables    *)
(* mention: they exist.                                                     *)
LEMMA Known ==
  ASSUME IInv
  PROVE  /\ \A i \in 1 .. Len(stack) :
              /\ stack[i].ctx \in ContextIds /\ stack[i].uses \subseteq SymbolIds
              /\ stack[i].pc = "rhs" => stack[i].sym \in SymbolIds
         /\ \A c \in ContextIds :
              /\ contexts[c].locals \cup contexts[c].uses \subseteq SymbolIds
              /\ Header(contexts[c]) \subseteq SymbolIds
              /\ \A n \in Names : contexts[c].accessible[n] > NullSym =>
                                    contexts[c].accessible[n] \in SymbolIds
         /\ \A s \in SymbolIds : symbols[s].uses \subseteq SymbolIds
<1>1. Sealed \subseteq SymbolIds  BY DEF Sealed
<1>2. \A i \in 1 .. Len(stack) :
        /\ stack[i].ctx \in ContextIds /\ stack[i].uses \subseteq SymbolIds
        /\ stack[i].pc = "rhs" => stack[i].sym \in SymbolIds
  BY <1>1 DEF IInv, FramesSealed
<1>3. \A c \in ContextIds :
        /\ contexts[c].locals \cup contexts[c].uses \subseteq SymbolIds
        /\ Header(contexts[c]) \subseteq SymbolIds
        /\ \A n \in Names : contexts[c].accessible[n] > NullSym =>
                              contexts[c].accessible[n] \in SymbolIds
  BY <1>1 DEF IInv, TablesSealed, Header
<1>4. \A s \in SymbolIds : symbols[s].uses \subseteq SymbolIds
  BY <1>1 DEF IInv, Ranked, Reached
<1> QED  BY <1>2, <1>3, <1>4

LEMMA SymbolFacts ==
  ASSUME TypeOK
  PROVE  /\ symbols \in Seq(Symbol) /\ Len(symbols) \in Nat /\ Len(symbols) + 1 \in Nat
         /\ \A t \in SymbolIds : symbols[t] \in Symbol /\ symbols[t].name \in Names /\ t > NullSym
<1>1. symbols \in Seq(Symbol) /\ Len(symbols) \in Nat  BY LenProperties DEF TypeOK
<1>2. \A t \in SymbolIds : symbols[t] \in Symbol  BY <1>1, ElementOfSeq DEF SymbolIds
<1>3. \A x \in Symbol : x.name \in Names  BY DEF Symbol
<1>4. \A t \in SymbolIds : t > NullSym  BY <1>1 DEF SymbolIds, NullSym
<1> QED  BY <1>1, <1>2, <1>3, <1>4

(* A symbol that a step does not touch stays as it is. *)
LEMMA SymbolUntouched ==
  ASSUME NInv, SymbolsKept, ContextsKept, NEW t \in SymbolIds, symbols'[t].uses = symbols[t].uses
  PROVE  SymbolVisible(t)' /\ Placed(t)'
<1>1. SymbolVisible(t) /\ Placed(t)  BY DEF NInv, SymbolsNamed
<1>2. symbols[t].uses \subseteq SymbolIds  BY Known DEF NInv
<1>3. Placed(t)'  BY <1>1 DEF Placed, SymbolsKept, ContextsKept
<1>4. SymbolVisible(t)'  BY <1>1, <1>2 DEF SymbolVisible, Placed, SymbolsKept, ContextsKept
<1> QED  BY <1>3, <1>4
-----------------------------------------------------------------------------
(* A step that only changes what the C++ stack is doing. *)
LEMMA ModeNamed ==
  ASSUME NInv, IInv', UNCHANGED <<contexts, symbols, current, stack>>
  PROVE  NInv'
BY DEF NInv, FramesNamed, FrameNamed, OneActivationEach, ContextsNamed, TableNamed,
       HeaderNamed, ContextVisible, ReturnedNotNull, SymbolsNamed, SymbolVisible, Placed,
       SymbolIds, ContextIds

(* A step that only changes the innermost activation. *)
LEMMA TopNamed ==
  ASSUME NInv, IInv', stack # <<>>, NEW f \in Frame, f.ctx = Top.ctx,
         FrameNamed(f, Here), stack' = WithTop(f), UNCHANGED <<contexts, symbols>>
  PROVE  NInv'
<1>1. /\ Len(stack) \in Nat \ {0} /\ Len(stack') = Len(stack)
      /\ \A i \in 1 .. Len(stack) : stack'[i] = IF i = Len(stack) THEN f ELSE stack[i]
  BY StackTop DEF NInv, IInv
<1>2. FramesNamed'
  <2> SUFFICES ASSUME NEW i \in 1 .. Len(stack)
               PROVE  FrameNamed(stack[i], contexts[stack[i].ctx])'
    BY <1>1 DEF FramesNamed
  <2>1. CASE i = Len(stack)
    <3>1. stack'[i] = f /\ contexts'[stack'[i].ctx] = Here  BY <1>1, <2>1 DEF Here
    <3> QED  BY <3>1 DEF FrameNamed
  <2>2. CASE i # Len(stack)
    <3>1. stack'[i] = stack[i]  BY <1>1, <2>2
    <3>2. FrameNamed(stack[i], contexts[stack[i].ctx])  BY DEF NInv, FramesNamed
    <3> QED  BY <3>1, <3>2 DEF FrameNamed
  <2> QED  BY <2>1, <2>2
<1>3. OneActivationEach'  BY <1>1 DEF NInv, OneActivationEach, Top
<1>4. ContextsNamed' /\ SymbolsNamed'
  BY DEF NInv, ContextsNamed, TableNamed, HeaderNamed, ContextVisible, ReturnedNotNull,
         SymbolsNamed, SymbolVisible, Placed, SymbolIds, ContextIds
<1> QED  BY <1>2, <1>3, <1>4 DEF NInv

(* A context is entered. *)
LEMMA EnterNamed ==
  ASSUME NInv, IInv', NEW immediate \in BOOLEAN, NEW pc \in {"captures", "stmts"},
         Enter(immediate, pc)
  PROVE  NInv'
<1> DEFINE c == NewContext(immediate, current)
           id == Len(contexts) + 1
           f == [ctx |-> id, last |-> current, pc |-> pc, sym |-> NullSym,
                 uses |-> {}, inner |-> {}]
<1>1. /\ contexts' = Append(contexts, c) /\ stack' = Append(stack, f)
      /\ UNCHANGED symbols
  BY DEF Enter
<1>2. contexts \in Seq(Context) /\ stack \in Seq(Frame) /\ current \in 0 .. Len(contexts)
  BY DEF NInv, IInv, TypeOK
<1>3. Len(contexts) \in Nat /\ Len(stack) \in Nat  BY <1>2, LenProperties
<1>4. c \in Context /\ f \in Frame
  BY <1>2, <1>3 DEF Context, NewContext, Absent, Frame, NullSym
<1>5. /\ Len(contexts') = id /\ contexts'[id] = c
      /\ \A d \in ContextIds : contexts'[d] = contexts[d]
  BY <1>1, <1>2, <1>4, Appended DEF ContextIds
<1>6. /\ Len(stack') = Len(stack) + 1 /\ stack'[Len(stack) + 1] = f
      /\ \A i \in 1 .. Len(stack) : stack'[i] = stack[i]
  BY <1>1, <1>2, <1>4, Appended
<1>7. ContextIds' = ContextIds \cup {id} /\ id \notin ContextIds
  BY <1>3, <1>5 DEF ContextIds
<1>8. 1 .. Len(stack') = 1 .. Len(stack) \cup {Len(stack) + 1}  BY <1>3, <1>6
<1>9. /\ c.outer = current /\ ~c.returned /\ c.locals = {} /\ c.captures = {} /\ c.params = {}
      /\ c.uses = {} /\ \A n \in Names : c.accessible[n] = Absent
  BY DEF NewContext
<1>10. f.ctx = id /\ f.last = current /\ f.pc = pc /\ f.uses = {}  OBVIOUS
<1> HIDE DEF c, f
<1>11. SymbolsKept /\ ContextsKept
  BY <1>1, <1>5, <1>7 DEF SymbolsKept, ContextsKept, SymbolIds
<1>12. FramesNamed'
  <2>1. ASSUME NEW i \in 1 .. Len(stack)
        PROVE  FrameNamed(stack[i], contexts[stack[i].ctx])'
    <3>1. stack'[i] = stack[i] /\ contexts'[stack[i].ctx] = contexts[stack[i].ctx]
      BY <1>5, <1>6, Known DEF NInv
    <3>2. FrameNamed(stack[i], contexts[stack[i].ctx])  BY DEF NInv, FramesNamed
    <3> QED  BY <3>1, <3>2, <1>1 DEF FrameNamed
  <2>2. ASSUME NEW i, i = Len(stack) + 1
        PROVE  FrameNamed(stack[i], contexts[stack[i].ctx])'
    <3>1. stack'[i] = f /\ contexts'[stack'[i].ctx] = c  BY <2>2, <1>5, <1>6, <1>10
    <3> QED  BY <3>1, <1>9, <1>10 DEF FrameNamed, Absent, NullSym
  <2> QED  BY <2>1, <2>2, <1>3, <1>6, <1>8 DEF FramesNamed
<1>13. OneActivationEach'
  <2>1. \A i \in 1 .. Len(stack) : stack[i].ctx # id  BY <1>7, Known DEF NInv
  <2> QED  BY <2>1, <1>6, <1>8, <1>10 DEF NInv, OneActivationEach
<1>14. ContextsNamed'
  <2>1. ASSUME NEW d \in ContextIds
        PROVE  /\ TableNamed(d, contexts[d])' /\ ContextVisible(d, contexts[d])'
               /\ ReturnedNotNull(contexts[d])'
    <3>1. contexts'[d] = contexts[d]  BY <1>5
    <3> QED
      BY <3>1, <1>1
      DEF NInv, ContextsNamed, TableNamed, HeaderNamed, ContextVisible, ReturnedNotNull
  <2>2. ASSUME NEW d, d = id
        PROVE  /\ TableNamed(d, contexts[d])' /\ ContextVisible(d, contexts[d])'
               /\ ReturnedNotNull(contexts[d])'
    <3>1. contexts'[d] = c  BY <2>2, <1>5
    <3> QED
      BY <3>1, <1>9
      DEF TableNamed, HeaderNamed, Header, ContextVisible, ReturnedNotNull, Absent, NullSym
  <2> QED  BY <2>1, <2>2, <1>7 DEF ContextsNamed
<1>15. SymbolsNamed'
  BY <1>1, <1>11, SymbolUntouched DEF SymbolsNamed, SymbolIds
<1> QED  BY <1>12, <1>13, <1>14, <1>15 DEF NInv

(* A step that changes the innermost activation and its context k only: the *)
(* other activations have other contexts.                                   *)
LEMMA HereNamed ==
  ASSUME NInv, IInv', stack # <<>>, SymbolsKept, NEW k, k = Top.ctx, NEW ctx, NEW f,
         Len(contexts') = Len(contexts),
         \A d \in ContextIds : contexts'[d] = IF d = k THEN ctx ELSE contexts[d],
         Len(stack') = Len(stack),
         \A i \in 1 .. Len(stack) : stack'[i] = IF i = Len(stack) THEN f ELSE stack[i],
         f.ctx = k, ctx.outer = Here.outer,
         FrameNamed(f, ctx)', TableNamed(k, ctx)', ContextVisible(k, ctx)', ~ctx.returned,
         \A t \in SymbolIds' : \/ t \in SymbolIds /\ symbols'[t].uses = symbols[t].uses
                               \/ SymbolVisible(t)' /\ Placed(t)'
  PROVE  NInv'
<1>1. Len(stack) \in Nat \ {0} /\ k \in ContextIds /\ ContextIds' = ContextIds
  BY StackTop, TopContext DEF NInv, IInv, ContextIds
<1>2. ContextsKept  BY <1>1 DEF ContextsKept, Here
<1>3. FramesNamed'
  <2> SUFFICES ASSUME NEW i \in 1 .. Len(stack)
               PROVE  FrameNamed(stack[i], contexts[stack[i].ctx])'
    BY <1>1 DEF FramesNamed
  <2>1. CASE i = Len(stack)
    <3>1. stack'[i] = f /\ contexts'[stack'[i].ctx] = ctx  BY <1>1, <2>1
    <3> QED  BY <3>1 DEF FrameNamed
  <2>2. CASE i # Len(stack)
    <3>1. stack[i].ctx # k  BY <1>1, <2>2 DEF NInv, OneActivationEach, Top
    <3>2. stack'[i] = stack[i] /\ contexts'[stack'[i].ctx] = contexts[stack[i].ctx]
      BY <3>1, <2>2, Known DEF NInv
    <3>3. FrameNamed(stack[i], contexts[stack[i].ctx])  BY DEF NInv, FramesNamed
    <3>4. /\ stack[i].uses \subseteq SymbolIds
          /\ stack[i].pc = "rhs" => stack[i].sym \in SymbolIds
      BY Known DEF NInv
    <3> QED  BY <3>2, <3>3, <3>4 DEF FrameNamed, SymbolsKept
  <2> QED  BY <2>1, <2>2
<1>4. OneActivationEach'  BY <1>1 DEF NInv, OneActivationEach, Top
<1>5. ContextsNamed'
  <2> SUFFICES ASSUME NEW d \in ContextIds
               PROVE  /\ TableNamed(d, contexts[d])' /\ ContextVisible(d, contexts[d])'
                      /\ ReturnedNotNull(contexts[d])'
    BY <1>1 DEF ContextsNamed
  <2>1. CASE d = k
    <3>1. contexts'[d] = ctx  BY <2>1
    <3> QED  BY <2>1, <3>1 DEF TableNamed, HeaderNamed, ContextVisible, ReturnedNotNull
  <2>2. CASE d # k
    <3>1. contexts'[d] = contexts[d]  BY <2>2
    <3>2. TableNamed(d, contexts[d]) /\ ContextVisible(d, contexts[d])
          /\ ReturnedNotNull(contexts[d])
      BY DEF NInv, ContextsNamed
    <3>3. /\ contexts[d].locals \cup contexts[d].uses \subseteq SymbolIds
          /\ Header(contexts[d]) \subseteq SymbolIds
          /\ \A n \in Names : contexts[d].accessible[n] > NullSym =>
                                contexts[d].accessible[n] \in SymbolIds
      BY Known DEF NInv
    <3>7. HeaderNamed(contexts[d])'
      <4>1. HeaderNamed(contexts[d])  BY <3>2 DEF TableNamed
      <4>2. \A t \in SymbolIds : symbols'[t].name = symbols[t].name  BY DEF SymbolsKept
      <4> QED  BY <4>1, <4>2, <3>1, <3>3 DEF HeaderNamed, Header
    <3>4. TableNamed(d, contexts[d])'  BY <3>1, <3>2, <3>3, <3>7 DEF TableNamed, SymbolsKept
    <3>5. ContextVisible(d, contexts[d])'  BY <3>1, <3>2, <3>3 DEF ContextVisible, SymbolsKept
    <3>6. ReturnedNotNull(contexts[d])'  BY <3>1, <3>2 DEF ReturnedNotNull
    <3> QED  BY <3>4, <3>5, <3>6
  <2> QED  BY <2>1, <2>2
<1>6. SymbolsNamed'  BY <1>2, SymbolUntouched DEF SymbolsNamed
<1> QED  BY <1>3, <1>4, <1>5, <1>6 DEF NInv

(* The context of the innermost activation before the step. *)
LEMMA HereIsNamed ==
  ASSUME NInv, stack # <<>>
  PROVE  /\ Len(stack) \in 1 .. Len(stack) /\ Top \in Frame
         /\ Top.ctx \in ContextIds /\ Here \in Context
         /\ FrameNamed(Top, Here) /\ TableNamed(Top.ctx, Here) /\ ContextVisible(Top.ctx, Here)
         /\ Here.locals \cup Here.uses \cup Top.uses \subseteq SymbolIds
         /\ Header(Here) \subseteq SymbolIds
         /\ Top.pc = "rhs" => Top.sym \in SymbolIds
         /\ \A n \in Names : Here.accessible[n] > NullSym => Here.accessible[n] \in SymbolIds
<1>1. /\ Len(stack) \in 1 .. Len(stack) /\ Top \in Frame
      /\ Top.ctx \in ContextIds /\ Here \in Context
  BY StackTop, TopContext DEF NInv, IInv
<1>2. FrameNamed(Top, Here)  BY <1>1 DEF NInv, FramesNamed, Top, Here
<1>3. TableNamed(Top.ctx, Here) /\ ContextVisible(Top.ctx, Here)
  BY <1>1 DEF NInv, ContextsNamed, Here
<1>4. Top.uses \subseteq SymbolIds /\ (Top.pc = "rhs" => Top.sym \in SymbolIds)
  BY <1>1, Known DEF NInv, Top
<1>5. /\ Here.locals \cup Here.uses \subseteq SymbolIds
      /\ Header(Here) \subseteq SymbolIds
      /\ \A n \in Names : Here.accessible[n] > NullSym => Here.accessible[n] \in SymbolIds
  BY <1>1, Known DEF NInv, Here
<1> QED  BY <1>1, <1>2, <1>3, <1>4, <1>5

(* A capture or a parameter is declared in the innermost context.  Nothing  *)
(* is null there yet, and there are no locals that it could hide.           *)
LEMMA DeclareNamed ==
  ASSUME NInv, IInv', Running({"captures", "params"}), NEW n \in Names,
         NEW kind \in {"capture", "param"}, NEW uses \in SUBSET SymbolIds,
         Declare(n, kind, uses), NEW ctx \in Context,
         ctx.outer = Here.outer, ctx.returned = Here.returned, ctx.locals = Here.locals,
         ctx.uses = Here.uses,
         ctx.captures \cup ctx.params = Here.captures \cup Here.params \cup {Len(symbols) + 1},
         \A m \in Names : ctx.accessible[m] = IF m = n THEN Len(symbols) + 1
                                              ELSE Here.accessible[m],
         \A u \in uses : /\ kind = "capture" /\ symbols[u].owner = Here.outer
                         /\ symbols[u].name = n,
         contexts' = WithHere(ctx), UNCHANGED stack
  PROVE  NInv'
<1> DEFINE new == Len(symbols) + 1
           s == NewSymbol(n, kind, uses, Top.ctx, clock + 1)
<1>1. stack # <<>> /\ Top.pc \in {"captures", "params"}  BY DEF Running
<1>2. /\ Len(stack) \in 1 .. Len(stack) /\ Top.ctx \in ContextIds /\ Here \in Context
      /\ FrameNamed(Top, Here) /\ TableNamed(Top.ctx, Here) /\ ContextVisible(Top.ctx, Here)
      /\ Here.locals \cup Here.uses \cup Top.uses \subseteq SymbolIds
      /\ Header(Here) \subseteq SymbolIds
      /\ \A m \in Names : Here.accessible[m] > NullSym => Here.accessible[m] \in SymbolIds
  BY <1>1, HereIsNamed
<1>3. symbols \in Seq(Symbol) /\ Len(symbols) \in Nat /\ clock \in Nat
  BY LenProperties DEF NInv, IInv, TypeOK
<1>4. s \in Symbol
  <2>1. uses \in SUBSET Nat  BY DEF SymbolIds
  <2> QED  BY <1>2, <1>3, <2>1 DEF NewSymbol, Symbol, ContextIds
<1>5. /\ s.name = n /\ s.kind = kind /\ s.owner = Top.ctx /\ s.uses = uses
  BY DEF NewSymbol
<1>6. symbols' = Append(symbols, s)  BY DEF Declare
<1> HIDE DEF s
<1>7. /\ SymbolIds' = SymbolIds \cup {new} /\ new \notin SymbolIds
      /\ symbols'[new] = s /\ \A t \in SymbolIds : symbols'[t] = symbols[t]
  BY <1>3, <1>4, <1>6, Appended DEF SymbolIds
<1>8. SymbolsKept  BY <1>7 DEF SymbolsKept
<1>9. /\ Len(contexts') = Len(contexts)
      /\ \A d \in ContextIds : contexts'[d] = IF d = Top.ctx THEN ctx ELSE contexts[d]
  BY <1>1, TopContext DEF NInv
<1>10. PICK f : f = Top  OBVIOUS
<1>11. PICK k : k = Top.ctx  OBVIOUS
<1>12. FrameNamed(f, ctx)'
  <2>1. f.pc # "rhs" /\ Here.locals = {}  BY <1>1, <1>2, <1>10 DEF FrameNamed
  <2>2. \A m \in Names : ctx.accessible[m] # NullSym
    BY <1>1, <1>2, <1>3 DEF FrameNamed, NullSym
  <2> QED  BY <2>1, <2>2, <1>2, <1>7, <1>10 DEF FrameNamed
<1>13. TableNamed(k, ctx)'
  <2>1. ctx.locals = {}  BY <1>1, <1>2 DEF FrameNamed
  <2>2. ASSUME NEW m \in Names, ctx.accessible[m] > NullSym
        PROVE  /\ ctx.accessible[m] \in ctx.captures \cup ctx.params \cup ctx.locals
               /\ symbols'[ctx.accessible[m]].name = m
               /\ symbols'[ctx.accessible[m]].owner = k
    <3>1. CASE m = n  BY <3>1, <1>5, <1>7, <1>11
    <3>2. CASE m # n
      <4>1. ctx.accessible[m] = Here.accessible[m]  BY <3>2
      <4> QED  BY <4>1, <2>1, <2>2, <1>2, <1>7, <1>11 DEF TableNamed
    <3> QED  BY <3>1, <3>2
  <2>3. HeaderNamed(ctx)'
    <3>1. ASSUME NEW d \in Header(ctx)
          PROVE  ctx.accessible[symbols'[d].name] > NullSym
      <4>1. CASE d = new  BY <4>1, <1>3, <1>5, <1>7 DEF NullSym
      <4>2. CASE d # new
        <5>1. d \in Header(Here) /\ d \in SymbolIds  BY <4>2, <1>2 DEF Header
        <5>2. Here.accessible[symbols[d].name] > NullSym
          BY <5>1, <1>2 DEF TableNamed, HeaderNamed
        <5>3. symbols'[d].name \in Names /\ symbols'[d] = symbols[d]
          BY <5>1, <1>7, SymbolFacts DEF NInv, IInv
        <5> QED  BY <5>2, <5>3, <1>3 DEF NullSym
      <4> QED  BY <4>1, <4>2
    <3> QED  BY <3>1, <2>1 DEF HeaderNamed, Header
  <2> QED  BY <2>1, <2>2, <2>3 DEF TableNamed
<1>14. ContextVisible(k, ctx)'  BY <1>2, <1>7, <1>11 DEF ContextVisible
<1>15. ~ctx.returned  BY <1>2 DEF FrameNamed
<1>16. ASSUME NEW t, t = new
       PROVE  SymbolVisible(t)' /\ Placed(t)'
  <2>1. symbols'[t] = s /\ contexts'[s.owner].outer = Here.outer
    BY <1>2, <1>5, <1>7, <1>9, <1>16
  <2>2. \A u \in uses : symbols'[u] = symbols[u]  BY <1>7
  <2> QED
    BY <2>1, <2>2, <1>2, <1>5, <1>9 DEF SymbolVisible, Placed, ContextIds
<1>17. \A t \in SymbolIds' : \/ t \in SymbolIds /\ symbols'[t].uses = symbols[t].uses
                             \/ SymbolVisible(t)' /\ Placed(t)'
  BY <1>7, <1>16
<1>18. /\ Len(stack') = Len(stack)
       /\ \A i \in 1 .. Len(stack) : stack'[i] = IF i = Len(stack) THEN f ELSE stack[i]
  BY <1>10 DEF Top
<1> QED
  BY <1>1, <1>8, <1>9, <1>10, <1>11, <1>12, <1>13, <1>14, <1>15, <1>17, <1>18, HereNamed

(* What a capture names: an entry of the context around, with its name. *)
LEMMA CaptureSourceNamed ==
  ASSUME NInv, Running({"captures"}), NEW n \in Names
  PROVE  /\ Len(stack) > 1 /\ Len(stack) - 1 \in 1 .. Len(stack)
         /\ Top.last = stack[Len(stack) - 1].ctx
         /\ Here.outer = Top.last /\ Top.last \in ContextIds
         /\ CaptureSource(n) > NullSym =>
              /\ CaptureSource(n) \in SymbolIds
              /\ symbols[CaptureSource(n)].owner = Top.last
              /\ symbols[CaptureSource(n)].name = n
<1>1. stack # <<>> /\ Top.pc = "captures"  BY DEF Running
<1>2. Len(stack) \in Nat \ {0}  BY <1>1, StackTop DEF NInv, IInv
<1>3. Len(stack) # 1  BY <1>1, <1>2 DEF NInv, IInv, RootCapturesNothing, Top
<1>4. /\ Len(stack) > 1 /\ Len(stack) \in 1 .. Len(stack)
      /\ Len(stack) - 1 \in 1 .. Len(stack)
  <2>1. \A k \in Nat \ {0} : k # 1 => k > 1 /\ k \in 1 .. k /\ k - 1 \in 1 .. k  OBVIOUS
  <2> QED  BY <2>1, <1>2, <1>3
<1>5. Top.last = stack[Len(stack) - 1].ctx
  BY <1>3, <1>4 DEF NInv, IInv, GuardDiscipline, Top
<1>6. Top.last \in ContextIds  BY <1>4, <1>5, Known DEF NInv
<1>7. Here.outer = Top.last  BY <1>1, HereIsNamed DEF FrameNamed
<1>8. TableNamed(Top.last, contexts[Top.last])  BY <1>6 DEF NInv, ContextsNamed
<1>9. CaptureSource(n) > NullSym => CaptureSource(n) \in SymbolIds
  BY <1>6, Known DEF NInv, CaptureSource
<1> QED  BY <1>4, <1>5, <1>6, <1>7, <1>8, <1>9 DEF TableNamed, CaptureSource

LEMMA CaptureNamed ==
  ASSUME NInv, IInv', NEW n \in Names, Capture(n)
  PROVE  NInv'
<1> DEFINE new == Len(symbols) + 1
           ctx == [Here EXCEPT !.accessible[n] = new, !.captures = @ \cup {new}]
<1>1. Running({"captures"}) /\ stack # <<>> /\ CaptureSource(n) > NullSym
  BY DEF Capture, Running
<1>2. Here \in Context  BY <1>1, HereIsNamed
<1>3. new \in Nat  BY LenProperties DEF NInv, IInv, TypeOK
<1>4. ctx \in Context
  <2>1. [Here.accessible EXCEPT ![n] = new] \in [Names -> Int]  BY <1>2, <1>3 DEF Context
  <2>2. Here.captures \cup {new} \in SUBSET Nat  BY <1>2, <1>3 DEF Context
  <2> QED  BY <1>2, <2>1, <2>2 DEF Context
<1>5. /\ ctx.outer = Here.outer /\ ctx.returned = Here.returned /\ ctx.locals = Here.locals
      /\ ctx.uses = Here.uses
      /\ ctx.captures \cup ctx.params = Here.captures \cup Here.params \cup {new}
      /\ \A m \in Names : ctx.accessible[m] = IF m = n THEN new ELSE Here.accessible[m]
  BY <1>2 DEF Context
<1>6. /\ contexts' = WithHere(ctx) /\ UNCHANGED stack
      /\ Declare(n, "capture", {CaptureSource(n)}) /\ Running({"captures", "params"})
  BY DEF Capture, Running
<1>7. \A u \in {CaptureSource(n)} : /\ u \in SymbolIds /\ symbols[u].owner = Here.outer
                                    /\ symbols[u].name = n
  BY <1>1, CaptureSourceNamed
<1> HIDE DEF ctx
<1>8. {CaptureSource(n)} \in SUBSET SymbolIds  BY <1>7
<1> QED  BY <1>4, <1>5, <1>6, <1>7, <1>8, DeclareNamed

LEMMA ParamNamed ==
  ASSUME NInv, IInv', NEW n \in Names, Param(n)
  PROVE  NInv'
<1> DEFINE new == Len(symbols) + 1
           ctx == [Here EXCEPT !.accessible[n] = new, !.params = @ \cup {new}]
<1>1. stack # <<>>  BY DEF Param, Running
<1>2. Here \in Context  BY <1>1, HereIsNamed
<1>3. new \in Nat  BY LenProperties DEF NInv, IInv, TypeOK
<1>4. ctx \in Context
  <2>1. [Here.accessible EXCEPT ![n] = new] \in [Names -> Int]  BY <1>2, <1>3 DEF Context
  <2>2. Here.params \cup {new} \in SUBSET Nat  BY <1>2, <1>3 DEF Context
  <2> QED  BY <1>2, <2>1, <2>2 DEF Context
<1>5. /\ ctx.outer = Here.outer /\ ctx.returned = Here.returned /\ ctx.locals = Here.locals
      /\ ctx.uses = Here.uses
      /\ ctx.captures \cup ctx.params = Here.captures \cup Here.params \cup {new}
      /\ \A m \in Names : ctx.accessible[m] = IF m = n THEN new ELSE Here.accessible[m]
  BY <1>2 DEF Context
<1>6. /\ contexts' = WithHere(ctx) /\ UNCHANGED stack
      /\ Declare(n, "param", {}) /\ Running({"captures", "params"})
  BY DEF Param, Running
<1> HIDE DEF ctx
<1> QED  BY <1>4, <1>5, <1>6, DeclareNamed

(* Symbol::from_ast starts on an assignment: the entry becomes null. *)
LEMMA AssignNamed ==
  ASSUME NInv, IInv', NEW n \in Names, Assign(n)
  PROVE  NInv'
<1> DEFINE new == Len(symbols) + 1
           ctx == [Here EXCEPT !.accessible[n] = NullSym]
           s == NewSymbol(n, "local", {}, Top.ctx, 0)
           f == [Top EXCEPT !.pc = "rhs", !.sym = new]
<1>1. /\ stack # <<>> /\ Top.pc = "stmts" /\ ~(Here.accessible[n] > NullSym)
      /\ contexts' = WithHere(ctx) /\ symbols' = Append(symbols, s) /\ stack' = WithTop(f)
  <2>1. stack # <<>> /\ Top.pc = "stmts" /\ Here.accessible[n] <= NullSym
    BY DEF Assign, Assignable, Running
  <2>2. Here.accessible[n] \in Int  BY <2>1, HereIsNamed DEF Context
  <2> QED  BY <2>1, <2>2 DEF Assign, NullSym
<1>2. /\ Len(stack) \in 1 .. Len(stack) /\ Top \in Frame
      /\ Top.ctx \in ContextIds /\ Here \in Context
      /\ FrameNamed(Top, Here) /\ TableNamed(Top.ctx, Here) /\ ContextVisible(Top.ctx, Here)
      /\ Here.locals \cup Here.uses \cup Top.uses \subseteq SymbolIds
      /\ Header(Here) \subseteq SymbolIds
      /\ \A m \in Names : Here.accessible[m] > NullSym => Here.accessible[m] \in SymbolIds
  BY <1>1, HereIsNamed
<1>3. /\ symbols \in Seq(Symbol) /\ Len(symbols) \in Nat /\ new \in Nat
      /\ \A t \in SymbolIds : symbols[t].name \in Names /\ t > NullSym
  BY SymbolFacts DEF NInv, IInv
<1>4. ctx \in Context
  <2>1. [Here.accessible EXCEPT ![n] = NullSym] \in [Names -> Int]
    BY <1>2 DEF Context, NullSym
  <2> QED  BY <1>2, <2>1 DEF Context
<1>5. /\ ctx.outer = Here.outer /\ ctx.returned = Here.returned /\ ctx.locals = Here.locals
      /\ ctx.uses = Here.uses /\ ctx.captures = Here.captures /\ ctx.params = Here.params
      /\ \A m \in Names : ctx.accessible[m] = IF m = n THEN NullSym ELSE Here.accessible[m]
  BY <1>2 DEF Context
<1>6. s \in Symbol  BY <1>2 DEF NewSymbol, Symbol, ContextIds
<1>7. s.name = n /\ s.kind = "local" /\ s.owner = Top.ctx /\ s.uses = {}
  BY DEF NewSymbol
<1>8. /\ f \in Frame /\ f.ctx = Top.ctx /\ f.last = Top.last /\ f.pc = "rhs" /\ f.sym = new
      /\ f.uses = Top.uses
  BY <1>2, <1>3 DEF Frame
<1> HIDE DEF ctx, s
<1>9. /\ SymbolIds' = SymbolIds \cup {new} /\ new \notin SymbolIds
      /\ symbols'[new] = s /\ \A t \in SymbolIds : symbols'[t] = symbols[t]
  BY <1>1, <1>3, <1>6, Appended DEF SymbolIds
<1>10. SymbolsKept  BY <1>9 DEF SymbolsKept
<1>11. /\ Len(contexts') = Len(contexts)
       /\ \A d \in ContextIds : contexts'[d] = IF d = Top.ctx THEN ctx ELSE contexts[d]
  BY <1>1, <1>4, TopContext DEF NInv
<1>12. PICK g : g = f  OBVIOUS
<1> HIDE DEF f
<1>13. PICK k : k = Top.ctx  OBVIOUS
<1>14. PICK c : c = ctx  OBVIOUS
<1>15. /\ Len(stack') = Len(stack)
       /\ \A i \in 1 .. Len(stack) : stack'[i] = IF i = Len(stack) THEN g ELSE stack[i]
  BY <1>1, <1>8, <1>12, StackTop DEF NInv, IInv
<1>16. FrameNamed(g, c)'
  <2>1. \A m \in Names : Here.accessible[m] # NullSym  BY <1>1, <1>2 DEF FrameNamed
  <2>2. \A m \in Names : c.accessible[m] = NullSym <=> m = n  BY <2>1, <1>5, <1>14
  <2>3. symbols'[g.sym] = s  BY <1>8, <1>9, <1>12
  <2> QED
    BY <2>2, <2>3, <1>2, <1>5, <1>7, <1>8, <1>9, <1>12, <1>14 DEF FrameNamed
<1>17. TableNamed(k, c)'
  <2>1. \A t \in c.locals : c.accessible[symbols'[t].name] = t
    <3> TAKE t \in c.locals
    <3>1. t \in Here.locals /\ t \in SymbolIds  BY <1>2, <1>5, <1>14
    <3>2. Here.accessible[symbols[t].name] = t  BY <3>1, <1>2 DEF TableNamed
    <3>3. t > NullSym /\ symbols[t].name \in Names  BY <3>1, <1>3
    <3>4. symbols[t].name # n  BY <3>2, <3>3, <1>1
    <3> QED  BY <3>1, <3>2, <3>3, <3>4, <1>5, <1>9, <1>14
  <2>2. ASSUME NEW m \in Names, c.accessible[m] > NullSym
        PROVE  /\ c.accessible[m] \in c.captures \cup c.params \cup c.locals
               /\ symbols'[c.accessible[m]].name = m
               /\ symbols'[c.accessible[m]].owner = k
    <3>1. m # n  BY <2>2, <1>5, <1>14 DEF NullSym
    <3>2. c.accessible[m] = Here.accessible[m]  BY <3>1, <1>5, <1>14
    <3> QED  BY <3>2, <2>2, <1>2, <1>5, <1>9, <1>13, <1>14 DEF TableNamed
  <2>3. HeaderNamed(c)'
    <3>1. Header(c) = Header(Here) /\ c.locals = Here.locals  BY <1>5, <1>14 DEF Header
    <3>2. \A t \in SymbolIds : symbols'[t].name = symbols[t].name  BY <1>9
    <3>3. HeaderNamed(Here)  BY <1>2 DEF TableNamed
    <3>4. ASSUME NEW d \in Header(c)
          PROVE  c.accessible[symbols'[d].name] > NullSym
      <4>1. d \in SymbolIds /\ Here.accessible[symbols[d].name] > NullSym
        BY <3>1, <3>3, <1>2 DEF HeaderNamed
      <4>2. symbols[d].name \in Names /\ symbols[d].name # n  BY <4>1, <1>1, <1>3
      <4> QED  BY <4>1, <4>2, <3>2, <1>5, <1>14
    <3>5. \A t \in c.locals, d \in Header(c) : symbols'[d].name # symbols'[t].name
      BY <3>1, <3>2, <3>3, <1>2 DEF HeaderNamed
    <3> QED  BY <3>4, <3>5 DEF HeaderNamed, Header
  <2> QED  BY <2>1, <2>2, <2>3 DEF TableNamed
<1>18. ContextVisible(k, c)'  BY <1>2, <1>5, <1>9, <1>13, <1>14 DEF ContextVisible
<1>19. ~c.returned /\ c.outer = Here.outer /\ g.ctx = k
  BY <1>2, <1>5, <1>8, <1>12, <1>13, <1>14 DEF FrameNamed
<1>20. ASSUME NEW t, t = new
       PROVE  SymbolVisible(t)' /\ Placed(t)'
  <2>1. symbols'[t] = s  BY <1>9, <1>20
  <2> QED  BY <2>1, <1>2, <1>7, <1>11 DEF SymbolVisible, Placed, ContextIds
<1>21. \A t \in SymbolIds' : \/ t \in SymbolIds /\ symbols'[t].uses = symbols[t].uses
                             \/ SymbolVisible(t)' /\ Placed(t)'
  BY <1>9, <1>20
<1>22. \A d \in ContextIds : contexts'[d] = IF d = k THEN c ELSE contexts[d]
  BY <1>11, <1>13, <1>14
<1> QED
  BY <1>1, <1>10, <1>11, <1>13, <1>15, <1>16, <1>17, <1>18, <1>19, <1>21, <1>22, HereNamed

(* The symbol is published in the entry that was null for its sake. *)
LEMMA AssignDoneNamed ==
  ASSUME NInv, IInv', AssignDone
  PROVE  NInv'
<1> DEFINE id == Top.sym
           old == symbols[id]
           name == symbols[Top.sym].name
           ctx == [Here EXCEPT !.accessible[symbols[Top.sym].name] = Top.sym,
                               !.locals = @ \cup {Top.sym}]
           s == [old EXCEPT !.uses = Top.uses, !.inner = Top.inner, !.seal = clock + 1]
           f == [Top EXCEPT !.pc = "stmts", !.sym = NullSym, !.uses = {}, !.inner = {}]
<1>1. /\ stack # <<>> /\ Top.pc = "rhs" /\ contexts' = WithHere(ctx)
      /\ symbols' = [symbols EXCEPT ![id] = s] /\ stack' = WithTop(f)
  BY DEF AssignDone, Running
<1>2. /\ Len(stack) \in 1 .. Len(stack) /\ Top \in Frame
      /\ Top.ctx \in ContextIds /\ Here \in Context
      /\ FrameNamed(Top, Here) /\ TableNamed(Top.ctx, Here) /\ ContextVisible(Top.ctx, Here)
      /\ Here.locals \cup Here.uses \cup Top.uses \subseteq SymbolIds
      /\ Header(Here) \subseteq SymbolIds
      /\ id \in SymbolIds
      /\ \A m \in Names : Here.accessible[m] > NullSym => Here.accessible[m] \in SymbolIds
  BY <1>1, HereIsNamed
<1>3. symbols \in Seq(Symbol) /\ Len(symbols) \in Nat /\ clock \in Nat
  BY LenProperties DEF NInv, IInv, TypeOK
<1>4. \A t \in SymbolIds : symbols[t] \in Symbol /\ symbols[t].name \in Names /\ t > NullSym
  BY SymbolFacts DEF NInv, IInv
<1>5. /\ s \in Symbol /\ s.uses = Top.uses /\ s.name = name /\ s.owner = old.owner
      /\ s.kind = old.kind
  <2>1. old \in Symbol  BY <1>2, <1>4
  <2>2. Top.uses \in SUBSET Nat /\ Top.inner \in SUBSET Nat /\ clock + 1 \in Nat
    BY <1>2, <1>3 DEF Frame
  <2>3. name = old.name  OBVIOUS
  <2> HIDE DEF old, name
  <2> QED  BY <2>1, <2>2, <2>3 DEF Symbol
<1>6. ctx \in Context
  <2>1. [Here.accessible EXCEPT ![symbols[Top.sym].name] = Top.sym] \in [Names -> Int]
    <3>1. Top.sym \in Int /\ symbols[Top.sym].name \in Names  BY <1>2, <1>4 DEF Frame
    <3> QED  BY <3>1, <1>2 DEF Context
  <2>2. Here.locals \cup {Top.sym} \in SUBSET Nat  BY <1>2 DEF Context, Frame
  <2> QED  BY <1>2, <2>1, <2>2 DEF Context
<1>7. /\ ctx.outer = Here.outer /\ ctx.returned = Here.returned
      /\ ctx.locals = Here.locals \cup {id} /\ ctx.uses = Here.uses
      /\ ctx.captures = Here.captures /\ ctx.params = Here.params
      /\ \A m \in Names : ctx.accessible[m] = IF m = name THEN id ELSE Here.accessible[m]
  BY <1>2 DEF Context
<1>8. /\ f \in Frame /\ f.ctx = Top.ctx /\ f.last = Top.last /\ f.pc = "stmts"
      /\ f.uses = {}
  BY <1>2 DEF Frame, NullSym
<1> HIDE DEF ctx, s
<1>9. /\ Len(symbols') = Len(symbols)
      /\ \A t \in SymbolIds : symbols'[t] = IF t = id THEN s ELSE symbols[t]
  BY <1>1, <1>2, <1>3, <1>5, ExceptSeq DEF SymbolIds
<1>10. SymbolsKept /\ SymbolIds' = SymbolIds
  BY <1>5, <1>9 DEF SymbolsKept, SymbolIds
<1>11. /\ Len(contexts') = Len(contexts)
       /\ \A d \in ContextIds : contexts'[d] = IF d = Top.ctx THEN ctx ELSE contexts[d]
  BY <1>1, <1>6, TopContext DEF NInv
<1>12. PICK g : g = f  OBVIOUS
<1> HIDE DEF f
<1>13. PICK k : k = Top.ctx  OBVIOUS
<1>14. PICK c : c = ctx  OBVIOUS
<1>15. /\ Len(stack') = Len(stack)
       /\ \A i \in 1 .. Len(stack) : stack'[i] = IF i = Len(stack) THEN g ELSE stack[i]
  BY <1>1, <1>8, <1>12, StackTop DEF NInv, IInv
<1>16. /\ name \in Names /\ id > NullSym /\ old.owner = Top.ctx /\ old.kind = "local"
       /\ \A m \in Names : Here.accessible[m] = NullSym <=> m = name
  BY <1>1, <1>2, <1>4 DEF FrameNamed
<1>17. FrameNamed(g, c)'
  <2>1. \A m \in Names : c.accessible[m] # NullSym
    BY <1>7, <1>14, <1>16, <1>2, <1>4 DEF NullSym
  <2> QED  BY <2>1, <1>2, <1>7, <1>8, <1>12, <1>14 DEF FrameNamed
<1>18. TableNamed(k, c)'
  <2>1. \A t \in c.locals : c.accessible[symbols'[t].name] = t
    <3> TAKE t \in c.locals
    <3>1. CASE t = id  BY <3>1, <1>2, <1>5, <1>7, <1>9, <1>14, <1>16
    <3>2. CASE t # id
      <4>1. t \in Here.locals /\ t \in SymbolIds  BY <3>2, <1>2, <1>7, <1>14
      <4>2. Here.accessible[symbols[t].name] = t  BY <4>1, <1>2 DEF TableNamed
      <4>3. t > NullSym /\ symbols[t].name \in Names  BY <4>1, <1>4
      <4>4. symbols[t].name # name  BY <4>2, <4>3, <1>16 DEF NullSym
      <4> QED  BY <4>1, <4>2, <4>3, <4>4, <3>2, <1>7, <1>9, <1>14
    <3> QED  BY <3>1, <3>2
  <2>2. ASSUME NEW m \in Names, c.accessible[m] > NullSym
        PROVE  /\ c.accessible[m] \in c.captures \cup c.params \cup c.locals
               /\ symbols'[c.accessible[m]].name = m
               /\ symbols'[c.accessible[m]].owner = k
    <3>1. CASE m = name
      <4>1. c.accessible[m] = id /\ id \in c.locals  BY <3>1, <1>7, <1>14
      <4>2. symbols'[id] = s  BY <1>2, <1>9
      <4> QED  BY <4>1, <4>2, <3>1, <1>5, <1>13, <1>16
    <3>2. CASE m # name
      <4>1. c.accessible[m] = Here.accessible[m]  BY <3>2, <1>7, <1>14
      <4>2. /\ Here.accessible[m] \in Here.captures \cup Here.params \cup Here.locals
            /\ symbols[Here.accessible[m]].name = m
            /\ symbols[Here.accessible[m]].owner = Top.ctx
            /\ Here.accessible[m] \in SymbolIds
        BY <4>1, <2>2, <1>2 DEF TableNamed
      <4> QED  BY <4>1, <4>2, <1>7, <1>10, <1>13, <1>14 DEF SymbolsKept
    <3> QED  BY <3>1, <3>2
  <2>3. HeaderNamed(c)'
    <3>1. Header(c) = Header(Here) /\ c.locals = Here.locals \cup {id}
      BY <1>7, <1>14 DEF Header
    <3>2. \A t \in SymbolIds : symbols'[t].name = symbols[t].name  BY <1>10 DEF SymbolsKept
    <3>3. HeaderNamed(Here)  BY <1>2 DEF TableNamed
    <3>4. \A d \in Header(c) : /\ d \in SymbolIds /\ symbols[d].name \in Names
                               /\ Here.accessible[symbols[d].name] > NullSym
      BY <3>1, <3>3, <1>2, <1>4 DEF HeaderNamed
    <3>5. \A d \in Header(c) : symbols[d].name # name
      BY <3>4, <1>16 DEF NullSym
    <3>6. ASSUME NEW d \in Header(c)
          PROVE  c.accessible[symbols'[d].name] > NullSym
      BY <3>2, <3>4, <3>5, <1>7, <1>14
    <3>7. ASSUME NEW t \in c.locals, NEW d \in Header(c)
          PROVE  symbols'[d].name # symbols'[t].name
      <4>1. CASE t = id  BY <4>1, <3>2, <3>4, <3>5, <1>2
      <4>2. CASE t # id
        <5>1. t \in Here.locals  BY <4>2, <3>1
        <5> QED  BY <5>1, <3>1, <3>2, <3>3, <3>4, <1>2 DEF HeaderNamed
      <4> QED  BY <4>1, <4>2
    <3> QED  BY <3>6, <3>7 DEF HeaderNamed, Header
  <2> QED  BY <2>1, <2>2, <2>3 DEF TableNamed
<1>19. ContextVisible(k, c)'
  BY <1>2, <1>7, <1>10, <1>13, <1>14 DEF ContextVisible, SymbolsKept
<1>20. ~c.returned /\ c.outer = Here.outer /\ g.ctx = k
  BY <1>2, <1>7, <1>8, <1>12, <1>13, <1>14 DEF FrameNamed
<1>21. ASSUME NEW t, t = id
       PROVE  SymbolVisible(t)' /\ Placed(t)'
  <2>1. symbols'[t] = s  BY <1>2, <1>9, <1>21
  <2>2. \A u \in Top.uses : symbols[u].owner = Top.ctx /\ symbols'[u].owner = symbols[u].owner
    BY <1>2, <1>10 DEF FrameNamed, SymbolsKept
  <2>3. ContextIds' = ContextIds  BY <1>11 DEF ContextIds
  <2> QED  BY <2>1, <2>2, <2>3, <1>2, <1>5, <1>16 DEF SymbolVisible, Placed
<1>22. \A t \in SymbolIds' : \/ t \in SymbolIds /\ symbols'[t].uses = symbols[t].uses
                             \/ SymbolVisible(t)' /\ Placed(t)'
  BY <1>9, <1>10, <1>21
<1>23. \A d \in ContextIds : contexts'[d] = IF d = k THEN c ELSE contexts[d]
  BY <1>11, <1>13, <1>14
<1> QED
  BY <1>1, <1>10, <1>11, <1>13, <1>15, <1>17, <1>18, <1>19, <1>20, <1>22, <1>23, HereNamed

(* An activation of context k ends; those below keep all but what they have *)
(* reached through other contexts.                                          *)
LEMMA PopNamed ==
  ASSUME NInv, IInv', stack # <<>>, UNCHANGED symbols, NEW k, k = Top.ctx,
         Len(contexts') = Len(contexts), contexts'[k].outer = contexts[k].outer,
         \A d \in ContextIds : d # k => contexts'[d] = contexts[d],
         TableNamed(k, contexts[k])', ContextVisible(k, contexts[k])',
         ReturnedNotNull(contexts[k])',
         Len(stack') = Len(stack) - 1,
         \A i \in 1 .. Len(stack) - 1 :
           /\ stack'[i].ctx = stack[i].ctx /\ stack'[i].last = stack[i].last
           /\ stack'[i].pc = stack[i].pc /\ stack'[i].sym = stack[i].sym
           /\ stack'[i].uses = stack[i].uses
  PROVE  NInv'
<1>1. Len(stack) \in Nat \ {0}  BY StackTop DEF NInv, IInv
<1>2. ContextIds' = ContextIds /\ SymbolsKept /\ ContextsKept
  BY DEF ContextIds, SymbolsKept, SymbolIds, ContextsKept
<1>3. \A i \in 1 .. Len(stack') :
        i \in 1 .. Len(stack) - 1 /\ i \in 1 .. Len(stack) /\ i # Len(stack)
  BY <1>1
<1>4. \A i \in 1 .. Len(stack') : stack[i].ctx # k
  <2>1. Len(stack) \in 1 .. Len(stack)  BY <1>1
  <2> QED  BY <2>1, <1>3 DEF NInv, OneActivationEach, Top
<1>5. FramesNamed'
  <2> SUFFICES ASSUME NEW i \in 1 .. Len(stack')
               PROVE  FrameNamed(stack[i], contexts[stack[i].ctx])'
    BY DEF FramesNamed
  <2>1. stack[i].ctx \in ContextIds  BY <1>3, Known DEF NInv
  <2>2. contexts'[stack[i].ctx] = contexts[stack[i].ctx]  BY <2>1, <1>4
  <2>3. FrameNamed(stack[i], contexts[stack[i].ctx])  BY <1>3 DEF NInv, FramesNamed
  <2>4. /\ stack'[i].ctx = stack[i].ctx /\ stack'[i].last = stack[i].last
        /\ stack'[i].pc = stack[i].pc /\ stack'[i].sym = stack[i].sym
        /\ stack'[i].uses = stack[i].uses
    BY <1>3
  <2> QED  BY <2>2, <2>3, <2>4 DEF FrameNamed
<1>6. OneActivationEach'  BY <1>3 DEF NInv, OneActivationEach
<1>7. ContextsNamed'
  <2>1. ASSUME NEW d \in ContextIds, d # k
        PROVE  /\ TableNamed(d, contexts[d])' /\ ContextVisible(d, contexts[d])'
               /\ ReturnedNotNull(contexts[d])'
    <3>1. contexts'[d] = contexts[d]  BY <2>1
    <3> QED
      BY <3>1 DEF NInv, ContextsNamed, TableNamed, HeaderNamed, ContextVisible, ReturnedNotNull
  <2> QED  BY <2>1, <1>2 DEF ContextsNamed
<1>8. SymbolsNamed'
  <2>1. SymbolIds' = SymbolIds  BY DEF SymbolIds
  <2> QED  BY <2>1, <1>2, SymbolUntouched DEF SymbolsNamed
<1> QED  BY <1>5, <1>6, <1>7, <1>8 DEF NInv

LEMMA ReturnNamed ==
  ASSUME NInv, IInv', Return
  PROVE  NInv'
<1> DEFINE ctx == [Here EXCEPT !.returned = TRUE, !.uses = Top.uses, !.inner = Top.inner]
           m == Len(stack) - 1
           more == ReachedThrough(Top.ctx, Top)
<1>1. stack # <<>> /\ Top.pc = "ret" /\ UNCHANGED symbols /\ contexts' = WithHere(ctx)
  BY DEF Return, Running
<1>2. /\ Len(stack) \in 1 .. Len(stack) /\ Top \in Frame
      /\ Top.ctx \in ContextIds /\ Here \in Context
      /\ FrameNamed(Top, Here) /\ TableNamed(Top.ctx, Here)
  BY <1>1, HereIsNamed
<1>3. ctx \in Context
  <2>1. Top.uses \in SUBSET Nat /\ Top.inner \in SUBSET Nat  BY <1>2 DEF Frame
  <2> QED  BY <1>2, <2>1 DEF Context
<1>4. /\ ctx.outer = Here.outer /\ ctx.captures = Here.captures /\ ctx.params = Here.params
      /\ ctx.locals = Here.locals /\ ctx.uses = Top.uses /\ ctx.accessible = Here.accessible
  BY <1>2 DEF Context
<1> HIDE DEF ctx
<1>5. PICK k : k = Top.ctx  OBVIOUS
<1>6. /\ Len(contexts') = Len(contexts) /\ contexts'[k] = ctx /\ contexts[k] = Here
      /\ \A d \in ContextIds : d # k => contexts'[d] = contexts[d]
  BY <1>1, <1>2, <1>3, <1>5, TopContext DEF NInv, Here
<1>7. TableNamed(k, contexts[k])'
  <2>1. HeaderNamed(contexts[k])'  BY <1>1, <1>2, <1>4, <1>6 DEF TableNamed, HeaderNamed, Header
  <2> QED  BY <2>1, <1>1, <1>2, <1>4, <1>5, <1>6 DEF TableNamed
<1>8. ContextVisible(k, contexts[k])'
  BY <1>1, <1>2, <1>4, <1>5, <1>6 DEF ContextVisible, FrameNamed
<1>9. ReturnedNotNull(contexts[k])'
  BY <1>1, <1>2, <1>4, <1>6 DEF ReturnedNotNull, FrameNamed
<1>10. /\ Len(stack') = Len(stack) - 1
       /\ \A i \in 1 .. Len(stack) - 1 :
            /\ stack'[i].ctx = stack[i].ctx /\ stack'[i].last = stack[i].last
            /\ stack'[i].pc = stack[i].pc /\ stack'[i].sym = stack[i].sym
            /\ stack'[i].uses = stack[i].uses
  <2>1. CASE Len(stack) = 1
    <3>1. stack' = <<>>  BY <2>1 DEF Return
    <3> QED  BY <3>1, <2>1, EmptySeq
  <2>2. CASE Len(stack) # 1
    <3> DEFINE g == Reaching(Rest[m], more)
    <3>1. stack' = [Rest EXCEPT ![m] = g]  BY <2>2 DEF Return
    <3>2. Len(stack) \in Nat \ {0}  BY <1>1, StackTop DEF NInv, IInv
    <3>3. /\ Rest \in Seq(Frame) /\ Len(Rest) = m /\ m \in 1 .. m
          /\ \A i \in 1 .. m : Rest[i] = stack[i]
      BY <1>1, <3>2, <2>2, StackRest DEF NInv, IInv
    <3>4. Rest[m] \in Frame  BY <3>3, ElementOfSeq
    <3>5. /\ g.ctx = Rest[m].ctx /\ g.last = Rest[m].last /\ g.pc = Rest[m].pc
          /\ g.sym = Rest[m].sym /\ g.uses = Rest[m].uses
      <4> HIDE DEF more, m
      <4> QED  BY <3>4 DEF Frame, Reaching
    <3>6. more \in SUBSET Nat
      <4>1. Here.captures \in SUBSET Nat /\ Top.uses \in SUBSET Nat /\ Top.inner \in SUBSET Nat
        BY <1>2 DEF Context, Frame
      <4> QED  BY <4>1 DEF ReachedThrough, Here
    <3>7. g \in Frame
      <4> HIDE DEF more, m
      <4>1. Rest[m].inner \cup more \in SUBSET Nat  BY <3>4, <3>6 DEF Frame
      <4> QED  BY <3>4, <4>1 DEF Frame, Reaching
    <3> HIDE DEF g
    <3>8. /\ Len(stack') = m /\ \A i \in 1 .. m : stack'[i] = IF i = m THEN g ELSE Rest[i]
      BY <3>1, <3>3, <3>7, ExceptSeq
    <3> QED  BY <3>3, <3>5, <3>8
  <2> QED  BY <2>1, <2>2
<1> QED  BY <1>1, <1>4, <1>5, <1>6, <1>7, <1>8, <1>9, <1>10, PopNamed

LEMMA UnwindNamed ==
  ASSUME NInv, IInv', Unwind
  PROVE  NInv'
<1>1. CASE stack = <<>>
  <2>1. UNCHANGED <<contexts, symbols, current, stack>>  BY <1>1 DEF Unwind
  <2> QED  BY <2>1, ModeNamed
<1>2. CASE stack # <<>>
  <2>1. stack' = Rest /\ UNCHANGED <<contexts, symbols>>  BY <1>2 DEF Unwind
  <2>2. /\ Len(stack') = Len(stack) - 1
        /\ \A i \in 1 .. Len(stack) - 1 : stack'[i] = stack[i]
    BY <1>2, <2>1, StackRest DEF NInv, IInv
  <2>3. PICK k : k = Top.ctx  OBVIOUS
  <2>4. k \in ContextIds  BY <1>2, <2>3, HereIsNamed
  <2>5. /\ TableNamed(k, contexts[k])' /\ ContextVisible(k, contexts[k])'
        /\ ReturnedNotNull(contexts[k])'
    BY <2>1, <2>4
    DEF NInv, ContextsNamed, TableNamed, HeaderNamed, ContextVisible, ReturnedNotNull
  <2> QED  BY <1>2, <2>1, <2>2, <2>3, <2>5, PopNamed
<1> QED  BY <1>1, <1>2

LEMMA GotoNamed ==
  ASSUME NInv, IInv', stack # <<>>, NEW pc \in {"params", "stmts", "ret"}, Goto(pc),
         Top.pc # "rhs", pc = "params" => Top.pc = "captures",
         UNCHANGED <<contexts, symbols>>
  PROVE  NInv'
<1> DEFINE f == [Top EXCEPT !.pc = pc]
<1>1. Top \in Frame /\ FrameNamed(Top, Here)  BY HereIsNamed
<1>2. /\ f \in Frame /\ f.ctx = Top.ctx /\ f.last = Top.last /\ f.pc = pc
      /\ f.uses = Top.uses
  BY <1>1 DEF Frame
<1>3. stack' = WithTop(f)  BY DEF Goto
<1> HIDE DEF f
<1>4. FrameNamed(f, Here)  BY <1>1, <1>2 DEF FrameNamed
<1> QED  BY <1>2, <1>3, <1>4, TopNamed

(* What an identifier means belongs to the context it is written in. *)
LEMMA IdentifierNamed ==
  ASSUME NInv, IInv', NEW n \in Names, Identifier(n)
  PROVE  NInv'
<1> DEFINE f == [Top EXCEPT !.uses = @ \cup {Lookup(n)}]
<1>1. /\ stack # <<>> /\ stack' = WithTop(f) /\ UNCHANGED <<contexts, symbols>>
      /\ Lookup(n) > NullSym
  BY DEF Identifier, InExpression, Running
<1>2. /\ Top \in Frame /\ FrameNamed(Top, Here) /\ TableNamed(Top.ctx, Here)
      /\ \A m \in Names : Here.accessible[m] > NullSym => Here.accessible[m] \in SymbolIds
  BY <1>1, HereIsNamed
<1>3. Lookup(n) = Here.accessible[n]  BY <1>1, TopContext DEF NInv, Lookup, Here
<1>4. symbols[Lookup(n)].owner = Top.ctx /\ Lookup(n) \in Nat
  BY <1>1, <1>2, <1>3 DEF TableNamed, SymbolIds
<1>5. /\ f \in Frame /\ f.ctx = Top.ctx /\ f.last = Top.last /\ f.pc = Top.pc /\ f.sym = Top.sym
      /\ f.uses = Top.uses \cup {Lookup(n)}
  <2>1. Top.uses \cup {Lookup(n)} \in SUBSET Nat  BY <1>2, <1>4 DEF Frame
  <2> QED  BY <1>2, <2>1 DEF Frame
<1> HIDE DEF f
<1>6. FrameNamed(f, Here)  BY <1>2, <1>4, <1>5 DEF FrameNamed
<1> QED  BY <1>1, <1>5, <1>6, TopNamed
-----------------------------------------------------------------------------
LEMMA InitiallyNamed == Init => NInv
<1> SUFFICES ASSUME Init PROVE NInv  OBVIOUS
<1>1. Len(contexts) = 0 /\ Len(symbols) = 0 /\ Len(stack) = 0  BY EmptySeq DEF Init
<1>2. ContextIds = {} /\ SymbolIds = {} /\ 1 .. Len(stack) = {}
  BY <1>1 DEF ContextIds, SymbolIds
<1> QED  BY <1>2, Initially DEF NInv, FramesNamed, OneActivationEach, ContextsNamed, SymbolsNamed

LEMMA InductiveNamed == NInv /\ [Next]_vars => NInv'
<1> SUFFICES ASSUME NInv, [Next]_vars PROVE NInv'  OBVIOUS
<1>0. IInv'  BY Inductive DEF NInv
<1>1. CASE UNCHANGED vars  BY <1>0, <1>1, ModeNamed DEF vars
<1>2. CASE ModuleFromAst  BY <1>0, <1>2, EnterNamed DEF ModuleFromAst
<1>3. CASE BlockFromAst \/ LambdaFromAst
  BY <1>0, <1>3, EnterNamed DEF BlockFromAst, LambdaFromAst
<1>4. ASSUME NEW n \in Names, Capture(n) PROVE NInv'  BY <1>0, <1>4, CaptureNamed
<1>5. ASSUME NEW n \in Names, CaptureMissing(n) \/ CaptureNull(n) PROVE NInv'
  BY <1>0, <1>5, ModeNamed DEF CaptureMissing, CaptureNull, Throw
<1>6. CASE CapturesDone
  <2>1. CASE Here.immediate  BY <1>0, <1>6, <2>1, GotoNamed DEF CapturesDone, Running
  <2>2. CASE ~Here.immediate  BY <1>0, <1>6, <2>2, GotoNamed DEF CapturesDone, Running
  <2> QED  BY <2>1, <2>2
<1>7. ASSUME NEW n \in Names, Param(n) PROVE NInv'  BY <1>0, <1>7, ParamNamed
<1>8. CASE ParamDefault \/ ParamListMissing \/ AssignMany \/ Unsupported
  BY <1>0, <1>8, ModeNamed DEF ParamDefault, ParamListMissing, AssignMany, Unsupported, Throw
<1>9. CASE ParamsDone  BY <1>0, <1>9, GotoNamed DEF ParamsDone, Running
<1>10. ASSUME NEW n \in Names, Assign(n) PROVE NInv'  BY <1>0, <1>10, AssignNamed
<1>11. ASSUME NEW n \in Names, AssignAgain(n) PROVE NInv'  BY <1>11, <1>1 DEF AssignAgain
<1>12. CASE AssignDone  BY <1>0, <1>12, AssignDoneNamed
<1>13. ASSUME NEW n \in Names, Identifier(n) PROVE NInv'  BY <1>0, <1>13, IdentifierNamed
<1>14. ASSUME NEW n \in Names, IdentifierUndefined(n) PROVE NInv'
  BY <1>0, <1>14, ModeNamed DEF IdentifierUndefined, Throw
<1>15. CASE StartReturn  BY <1>0, <1>15, GotoNamed DEF StartReturn, Running
<1>16. CASE Return  BY <1>0, <1>16, ReturnNamed
<1>17. CASE Unwind  BY <1>0, <1>17, UnwindNamed
<1>18. CASE Halt  BY <1>18, <1>1 DEF Halt
<1> QED
  BY <1>1, <1>2, <1>3, <1>4, <1>5, <1>6, <1>7, <1>8, <1>9, <1>10, <1>11, <1>12, <1>13, <1>14,
     <1>15, <1>16, <1>17, <1>18 DEF Next

LEMMA NamesInvariant == Spec => []NInv
BY InitiallyNamed, InductiveNamed, PTL DEF Spec
-----------------------------------------------------------------------------
(* Identifiers mean symbols of the context they are written in, and only a  *)
(* capture reaches the one around it, by its own name: get_symbol looks in  *)
(* no other table, and Context::from_ast copies a capture from guard.last.  *)
THEOREM NamesAreLexical == Spec => []LexicalVisibility
<1>1. NInv => LexicalVisibility
  BY DEF NInv, SymbolsNamed, ContextsNamed, SymbolVisible, ContextVisible, LexicalVisibility
<1> QED  BY <1>1, NamesInvariant, PTL

(* A name of a context means one declaration of that name in that context,  *)
(* every local is what its name means, and no local has the name of a       *)
(* capture or a parameter: accessible_ and the three lists that             *)
(* Context::from_ast fills agree.                                           *)
THEOREM NamesHaveOneMeaning == Spec => []NamesUnambiguous
<1>1. NInv => NamesUnambiguous
  BY DEF NInv, ContextsNamed, TableNamed, HeaderNamed, Header, NamesUnambiguous
<1> QED  BY <1>1, NamesInvariant, PTL

(* A context that Context::from_ast returned has no null entry, and neither *)
(* its symbols nor what they reach are under construction, also when other  *)
(* analyses failed before it or go on around it.                            *)
THEOREM ReturnedIsComplete == Spec => []ReturnedContextsComplete
<1>1. ASSUME NInv
      PROVE  ReturnedContextsComplete
  <2> SUFFICES ASSUME NEW c \in ContextIds, contexts[c].returned
               PROVE  /\ \A n \in Names : contexts[c].accessible[n] # NullSym
                      /\ \A s \in contexts[c].captures \cup contexts[c].locals
                                    \cup contexts[c].uses \cup contexts[c].inner :
                           symbols[s].seal > 0 /\ \A u \in Reached(s) : symbols[u].seal > 0
    BY DEF ReturnedContextsComplete
  <2>1. \A n \in Names : contexts[c].accessible[n] # NullSym
    BY <1>1 DEF NInv, ContextsNamed, ReturnedNotNull
  <2>2. contexts[c].captures \cup contexts[c].locals \cup contexts[c].uses
          \cup contexts[c].inner \subseteq Sealed
    BY <1>1 DEF NInv, IInv, TablesSealed
  <2>3. \A s \in Sealed : symbols[s].seal > 0 /\ \A u \in Reached(s) : symbols[u].seal > 0
    BY <1>1 DEF NInv, IInv, Ranked, Sealed
  <2> QED  BY <2>1, <2>2, <2>3
<1> QED  BY <1>1, NamesInvariant, PTL

(* A null pointer is followed only when a capture list inside a right hand  *)
(* side names the symbol of that right hand side.                           *)
LEMMA InductiveNull == NInv /\ NullInside /\ [Next]_vars => NullInside'
<1> SUFFICES ASSUME NInv, NullInside, [Next]_vars PROVE NullInside'  OBVIOUS
<1>1. CASE UNCHANGED <<stack, mode>>  BY <1>1 DEF NullInside
<1>2. ASSUME NEW n \in Names, CaptureNull(n) PROVE NullInside'
  <2>1. Running({"captures"}) /\ UNCHANGED stack /\ CaptureSource(n) = NullSym
    BY <1>2 DEF CaptureNull
  <2>2. /\ Len(stack) > 1 /\ Len(stack) - 1 \in 1 .. Len(stack)
        /\ Top.last = stack[Len(stack) - 1].ctx
    BY <2>1, CaptureSourceNamed
  <2>3. FrameNamed(stack[Len(stack) - 1], contexts[Top.last])
    BY <2>2 DEF NInv, FramesNamed
  <2>4. stack[Len(stack) - 1].pc = "rhs"  BY <2>1, <2>3 DEF FrameNamed, CaptureSource
  <2> QED  BY <2>1, <2>2, <2>4 DEF NullInside
<1>3. CASE mode' # "null_deref"  BY <1>3 DEF NullInside
<1> QED
  BY <1>1, <1>2, <1>3
  DEF Next, ModuleFromAst, BlockFromAst, LambdaFromAst, Enter, InExpression, Running, Capture,
      CaptureMissing, CapturesDone, Param, ParamDefault, ParamsDone, ParamListMissing, Assign,
      Assignable, AssignAgain, AssignMany, AssignDone, Identifier, IdentifierUndefined,
      Unsupported, StartReturn, Return, Unwind, Halt, Throw, vars

(* The entry that `auto*& sym = accessible_[name]' creates is null while    *)
(* Symbol::from_ast works on the right hand side and at no other time, so   *)
(* csym->get_name() is called on null only from inside that right hand side. *)
THEOREM NullIsInside == Spec => []NullWhileAnalysed
<1>1. Init => NullInside  BY DEF Init, NullInside
<1>2. NInv /\ NullInside => NullWhileAnalysed
  BY DEF NInv, FramesNamed, FrameNamed, NullInside, NullWhileAnalysed
<1> QED  BY <1>1, <1>2, InductiveNull, NamesInvariant, PTL DEF Spec
-----------------------------------------------------------------------------
(* A step that changes the innermost context only, and none of the entries  *)
(* that mean a symbol there, once the context has reached its statements.   *)
LEMMA HereSettled ==
  ASSUME NInv, stack # <<>>, NEW ctx, contexts' = WithHere(ctx),
         Top.pc \notin {"captures", "params"} =>
           \A n \in Names : Here.accessible[n] > NullSym =>
                             ctx.accessible[n] = Here.accessible[n],
         NEW i \in 1 .. Len(stack), stack[i].pc \notin {"captures", "params"},
         NEW n \in Names, contexts[stack[i].ctx].accessible[n] > NullSym
  PROVE  contexts'[stack[i].ctx].accessible[n] = contexts[stack[i].ctx].accessible[n]
<1>1. Len(stack) \in 1 .. Len(stack) /\ stack[i].ctx \in ContextIds /\ Top.ctx \in ContextIds
  BY Known, HereIsNamed DEF NInv
<1>2. \A d \in ContextIds : contexts'[d] = IF d = Top.ctx THEN ctx ELSE contexts[d]
  <2>1. contexts \in Seq(Context)  BY DEF NInv, IInv, TypeOK
  <2>2. DOMAIN contexts = ContextIds  BY <2>1, LenProperties DEF ContextIds
  <2> QED  BY <2>2 DEF WithHere
<1>3. stack[i].ctx = Top.ctx => i = Len(stack)
  BY <1>1 DEF NInv, OneActivationEach, Top
<1> QED  BY <1>1, <1>2, <1>3 DEF Top, Here

(* Once Context::from_ast has come to a context's statements, an entry of   *)
(* its accessible_ that is a symbol is never replaced: `if (sym) continue;' *)
(* drops a second assignment, an assignment under way fills a null entry,   *)
(* and every other live activation has a table of its own.                  *)
THEOREM NamesAreAssignedOnce == Spec => SingleAssignment
<1>1. ASSUME NInv, [Next]_vars
      PROVE  [\A i \in 1 .. Len(stack) : stack[i].pc \notin {"captures", "params"} =>
                \A n \in Names :
                  LET c == stack[i].ctx IN
                  contexts[c].accessible[n] > NullSym =>
                    contexts'[c].accessible[n] = contexts[c].accessible[n]]_vars
  <2> SUFFICES ASSUME NEW i \in 1 .. Len(stack), stack[i].pc \notin {"captures", "params"},
                      NEW n \in Names, contexts[stack[i].ctx].accessible[n] > NullSym
               PROVE  contexts'[stack[i].ctx].accessible[n]
                        = contexts[stack[i].ctx].accessible[n]
    OBVIOUS
  <2>1. CASE UNCHANGED contexts  BY <2>1
  <2>2. ASSUME NEW immediate, NEW pc, Enter(immediate, pc)
        PROVE  contexts'[stack[i].ctx].accessible[n] = contexts[stack[i].ctx].accessible[n]
    <3>1. contexts \in Seq(Context) /\ stack[i].ctx \in ContextIds
      BY <1>1, Known DEF NInv, IInv, TypeOK
    <3> DEFINE new == NewContext(immediate, current)
    <3>2. contexts' = Append(contexts, new)  BY <2>2 DEF Enter
    <3> HIDE DEF new
    <3>3. contexts'[stack[i].ctx] = contexts[stack[i].ctx]
      BY <3>1, <3>2 DEF ContextIds
    <3> QED  BY <3>3
  <2>3. ASSUME NEW m \in Names, Capture(m) \/ Param(m)
        PROVE  contexts'[stack[i].ctx].accessible[n] = contexts[stack[i].ctx].accessible[n]
    <3>1. stack # <<>> /\ Top.pc \in {"captures", "params"}
      BY <2>3 DEF Capture, Param, Running
    <3>2. PICK ctx : contexts' = WithHere(ctx)  BY <2>3 DEF Capture, Param
    <3> QED  BY <1>1, <3>1, <3>2, HereSettled
  <2>4. ASSUME NEW m \in Names, Assign(m)
        PROVE  contexts'[stack[i].ctx].accessible[n] = contexts[stack[i].ctx].accessible[n]
    <3> DEFINE ctx == [Here EXCEPT !.accessible[m] = NullSym]
    <3>1. /\ stack # <<>> /\ Here.accessible[m] <= NullSym /\ contexts' = WithHere(ctx)
      BY <2>4 DEF Assign, Assignable, Running
    <3>2. Here \in Context  BY <1>1, <3>1, HereIsNamed
    <3>3. \A x \in Names : x # m => ctx.accessible[x] = Here.accessible[x]
      BY <3>2 DEF Context
    <3>4. ~(Here.accessible[m] > NullSym)  BY <3>1, <3>2 DEF Context, NullSym
    <3> HIDE DEF ctx
    <3> QED  BY <1>1, <3>1, <3>3, <3>4, HereSettled
  <2>5. CASE AssignDone
    <3> DEFINE name == symbols[Top.sym].name
               ctx == [Here EXCEPT !.accessible[name] = Top.sym, !.locals = @ \cup {Top.sym}]
    <3>1. stack # <<>> /\ Top.pc = "rhs" /\ contexts' = WithHere(ctx)
      BY <2>5 DEF AssignDone, Running
    <3>2. Here \in Context /\ FrameNamed(Top, Here)  BY <1>1, <3>1, HereIsNamed
    <3>3. \A x \in Names : x # name => ctx.accessible[x] = Here.accessible[x]
      BY <3>2 DEF Context
    <3>4. name \in Names => ~(Here.accessible[name] > NullSym)
      BY <3>1, <3>2 DEF FrameNamed, NullSym
    <3> HIDE DEF ctx
    <3> QED  BY <1>1, <3>1, <3>3, <3>4, HereSettled
  <2>6. CASE Return
    <3> DEFINE ctx == [Here EXCEPT !.returned = TRUE, !.uses = Top.uses, !.inner = Top.inner]
    <3>1. stack # <<>> /\ contexts' = WithHere(ctx)  BY <2>6 DEF Return, Running
    <3>2. Here \in Context  BY <1>1, <3>1, HereIsNamed
    <3>3. ctx.accessible = Here.accessible  BY <3>2 DEF Context
    <3> HIDE DEF ctx
    <3> QED  BY <1>1, <3>1, <3>3, HereSettled
  <2> QED
    BY <1>1, <2>1, <2>2, <2>3, <2>4, <2>5, <2>6
    DEF Next, ModuleFromAst, BlockFromAst, LambdaFromAst, CaptureMissing, CaptureNull,
        CapturesDone, ParamDefault, ParamsDone, ParamListMissing, AssignAgain, AssignMany,
        Identifier, IdentifierUndefined, Unsupported, StartReturn, Unwind, Halt, Throw, vars
<1> QED  BY <1>1, NamesInvariant, PTL DEF Spec, SingleAssignment
=============================================================================
