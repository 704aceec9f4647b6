------------------------------- MODULE Scope -------------------------------
(***************************************************************************)
(* Semantic analysis of catk (src/catk/semantics): how a parse tree turns  *)
(* into contexts and symbols, and which symbol each identifier means.      *)
(*                                                                         *)
(* Context::from_ast is a recursive function: a context's statements are   *)
(* analysed in order, and the right hand side of a statement may hold      *)
(* further contexts.  The recursion is an explicit stack of activations    *)
(* here, and the tree is not a constant: every step may be whatever the    *)
(* grammar allows next, so the behaviours are the analyses of all          *)
(* programs within the bounds, one after the other in one process.         *)
(*                                                                         *)
(* Symbols and contexts live in the arena DB, which never frees: an id is  *)
(* a position in `symbols' or `contexts'.                                  *)
(***************************************************************************)
EXTENDS Integers, Sequences, FiniteSets

CONSTANTS Names,        \* the identifiers a program may use
          MaxContexts,  \* bound: contexts allocated in a behaviour
          MaxSymbols    \* bound: symbols allocated in a behaviour

ASSUME BoundsAssumption == MaxContexts \in Nat /\ MaxSymbols \in Nat

VARIABLES contexts,  \* every Context allocated so far
          symbols,   \* every Symbol allocated so far
          current,   \* current_context_ (utils.cpp), 0 is nullptr
          stack,     \* the activations of Context::from_ast, innermost last
          mode,      \* what the C++ stack is doing
          clock      \* history: how many symbols are complete

vars == <<contexts, symbols, current, stack, mode, clock>>
-----------------------------------------------------------------------------
(* An entry of accessible_ is missing, or nullptr, or a symbol's id. *)
Absent  == -1
NullSym == 0

(* A context.  `outer' is history: the guard's `last', kept after it is gone. *)
Context == [accessible: [Names -> Int], captures: SUBSET Nat, params: SUBSET Nat,
            locals: SUBSET Nat, immediate: BOOLEAN, outer: Nat,
            returned: BOOLEAN, uses: SUBSET Nat, inner: SUBSET Nat]

(* A symbol.  The expression rhs_ is abstracted to the symbols it reaches:  *)
(* `uses' are those its identifiers and callees resolved to, `inner' those  *)
(* reached through a context that is part of it.  `owner' and `seal' are    *)
(* history: the context it was made for, and its rank in the order in which *)
(* symbols became complete (0 while it is under construction).              *)
Symbol == [name: Names, kind: {"capture", "param", "local"}, uses: SUBSET Nat,
           inner: SUBSET Nat, owner: Nat, seal: Nat]

(* An activation: where it is, the guard's `last', the symbol whose right   *)
(* hand side is being analysed, and what that expression reached so far.    *)
Frame == [ctx: Nat, last: Nat, pc: {"captures", "params", "stmts", "rhs", "ret"},
          sym: Nat, uses: SUBSET Nat, inner: SUBSET Nat]

Mode == {"run", "throw", "null_deref", "abort"}

NewContext(immediate, outer) ==
  [accessible |-> [n \in Names |-> Absent], captures |-> {}, params |-> {},
   locals |-> {}, immediate |-> immediate, outer |-> outer,
   returned |-> FALSE, uses |-> {}, inner |-> {}]

NewSymbol(n, kind, uses, owner, seal) ==
  [name |-> n, kind |-> kind, uses |-> uses, inner |-> {}, owner |-> owner, seal |-> seal]

Top == stack[Len(stack)]
Rest == SubSeq(stack, 1, Len(stack) - 1)
Running(pcs) == mode = "run" /\ stack # <<>> /\ Top.pc \in pcs
InExpression == Running({"rhs", "ret"})
WithTop(f) == [stack EXCEPT ![Len(stack)] = f]
Here == contexts[Top.ctx]
WithHere(ctx) == [contexts EXCEPT ![Top.ctx] = ctx]
Goto(pc) == stack' = WithTop([Top EXCEPT !.pc = pc])

Init == /\ contexts = <<>>
        /\ symbols = <<>>
        /\ current = 0
        /\ stack = <<>>
        /\ mode = "run"
        /\ clock = 0
-----------------------------------------------------------------------------
(* rt_assert and unordered_map::at throw. *)
Throw == mode' = "throw" /\ UNCHANGED <<contexts, symbols, current, stack, clock>>

(* The constructor of ContextSwitchGuard makes the new context current. *)
Enter(immediate, pc) ==
  /\ Len(contexts) < MaxContexts
  /\ contexts' = Append(contexts, NewContext(immediate, current))
  /\ stack' = Append(stack, [ctx |-> Len(contexts) + 1, last |-> current, pc |-> pc,
                             sym |-> NullSym, uses |-> {}, inner |-> {}])
  /\ current' = Len(contexts) + 1
  /\ UNCHANGED <<symbols, mode, clock>>

(* A wrong destructor of the guard, one that leaves its context current. *)
LastForgotten == current

(* What the destructor of ContextSwitchGuard makes current again, when its  *)
(* activation returns and when an exception leaves it.                      *)
Last == Top.last

(* Module::from_ast: the root context, with neither captures nor parameters. *)
ModuleFromAst == mode = "run" /\ stack = <<>> /\ Enter(FALSE, "stmts")

(* Expr::from_ast on a RetContext and on a LambdaLiteral. *)
BlockFromAst == InExpression /\ Enter(TRUE, "captures")
LambdaFromAst == InExpression /\ Enter(FALSE, "captures")
-----------------------------------------------------------------------------
(* guard.last->accessible_.at(name) *)
CaptureSource(n) == contexts[Top.last].accessible[n]

(* A symbol that is complete when it is allocated, and its entry. *)
Declare(n, kind, uses) ==
  /\ Len(symbols) < MaxSymbols
  /\ symbols' = Append(symbols, NewSymbol(n, kind, uses, Top.ctx, clock + 1))
  /\ clock' = clock + 1

Capture(n) ==
  /\ Running({"captures"})
  /\ CaptureSource(n) > NullSym
  /\ Declare(n, "capture", {CaptureSource(n)})
  /\ contexts' = WithHere([Here EXCEPT !.accessible[n] = Len(symbols) + 1,
                                        !.captures = @ \cup {Len(symbols) + 1}])
  /\ UNCHANGED <<current, stack, mode>>

CaptureMissing(n) ==
  Running({"captures"}) /\ CaptureSource(n) = Absent /\ Throw

(* The entry is there but its right hand side is still being analysed:      *)
(* csym is nullptr and csym->get_name() is called on it.                    *)
CaptureNull(n) ==
  /\ Running({"captures"})
  /\ CaptureSource(n) = NullSym
  /\ mode' = "null_deref"
  /\ UNCHANGED <<contexts, symbols, current, stack, clock>>

CapturesDone ==
  /\ Running({"captures"})
  /\ Goto(IF Here.immediate THEN "stmts" ELSE "params")
  /\ UNCHANGED <<contexts, symbols, current, mode, clock>>

(* A parameter overwrites an entry of its name, a capture's or a parameter's. *)
Param(n) ==
  /\ Running({"params"})
  /\ Declare(n, "param", {})
  /\ contexts' = WithHere([Here EXCEPT !.accessible[n] = Len(symbols) + 1,
                                        !.params = @ \cup {Len(symbols) + 1}])
  /\ UNCHANGED <<current, stack, mode>>

ParamDefault == Running({"params"}) /\ Throw

ParamsDone ==
  /\ Running({"params"})
  /\ Here.params # {}
  /\ Goto("stmts")
  /\ UNCHANGED <<contexts, symbols, current, mode, clock>>

(* Without a parameter list LambdaLiteral::params returns the children of   *)
(* the body.  A build with assertions stops in Param::has_default_expr, one *)
(* without goes on to an rt_assert.                                         *)
ParamListMissing ==
  /\ Running({"params"})
  /\ Here.params = {}
  /\ mode' \in {"abort", "throw"}
  /\ UNCHANGED <<contexts, symbols, current, stack, clock>>
-----------------------------------------------------------------------------
(* The wrong test that lets an assignment replace an earlier one. *)
AssignableAlways(n) == Running({"stmts"})

(* The wrong test that looks for the name among the locals only, so that a  *)
(* local may take the name of a capture or a parameter.                     *)
AssignableOverHeader(n) == Running({"stmts"}) /\ Here.accessible[n] \notin Here.locals

(* `auto*& sym = accessible_[name]; if (sym) continue;' *)
Assignable(n) == Running({"stmts"}) /\ Here.accessible[n] <= NullSym

(* A wrong assignment: the symbol is published before its right hand side   *)
(* has been analysed.                                                       *)
AssignPublishes(n) ==
  /\ Assignable(n)
  /\ Len(symbols) < MaxSymbols
  /\ contexts' = WithHere([Here EXCEPT !.accessible[n] = Len(symbols) + 1])
  /\ symbols' = Append(symbols, NewSymbol(n, "local", {}, Top.ctx, 0))
  /\ stack' = WithTop([Top EXCEPT !.pc = "rhs", !.sym = Len(symbols) + 1])
  /\ UNCHANGED <<current, mode, clock>>

(* accessible_[name] creates the entry as nullptr; Symbol::from_ast then     *)
(* allocates the symbol and analyses the right hand side.                   *)
Assign(n) ==
  /\ Assignable(n)
  /\ Len(symbols) < MaxSymbols
  /\ contexts' = WithHere([Here EXCEPT !.accessible[n] = NullSym])
  /\ symbols' = Append(symbols, NewSymbol(n, "local", {}, Top.ctx, 0))
  /\ stack' = WithTop([Top EXCEPT !.pc = "rhs", !.sym = Len(symbols) + 1])
  /\ UNCHANGED <<current, mode, clock>>

(* A further assignment to a name is dropped, its right hand side unread. *)
AssignAgain(n) ==
  Running({"stmts"}) /\ Here.accessible[n] > NullSym /\ UNCHANGED vars

(* More than one name on the left hand side. *)
AssignMany == Running({"stmts"}) /\ Throw

(* `sym = Symbol::from_ast(stmt); locals_.push_back(sym);' *)
AssignDone ==
  /\ Running({"rhs"})
  /\ symbols' = [symbols EXCEPT ![Top.sym] =
                   [@ EXCEPT !.uses = Top.uses, !.inner = Top.inner, !.seal = clock + 1]]
  /\ contexts' = WithHere([Here EXCEPT !.accessible[symbols[Top.sym].name] = Top.sym,
                                        !.locals = @ \cup {Top.sym}])
  /\ stack' = WithTop([Top EXCEPT !.pc = "stmts", !.sym = NullSym,
                                  !.uses = {}, !.inner = {}])
  /\ clock' = clock + 1
  /\ UNCHANGED <<current, mode>>
-----------------------------------------------------------------------------
(* A wrong lookup, which falls back on the context around the current one. *)
LookupOutwards(n) ==
  LET here == contexts[current].accessible[n]
      around == contexts[current].outer
  IN  IF here > NullSym \/ around = 0 THEN here ELSE contexts[around].accessible[n]

(* get_current_context()->get_symbol(name) *)
Lookup(n) == contexts[current].accessible[n]

(* A wrong reference, whose result nobody tests. *)
IdentifierUnchecked(n) ==
  /\ InExpression
  /\ stack' = WithTop([Top EXCEPT !.uses = @ \cup {Lookup(n)}])
  /\ UNCHANGED <<contexts, symbols, current, mode, clock>>

(* An operand or a callee that is an identifier. *)
Identifier(n) ==
  /\ InExpression
  /\ Lookup(n) > NullSym
  /\ stack' = WithTop([Top EXCEPT !.uses = @ \cup {Lookup(n)}])
  /\ UNCHANGED <<contexts, symbols, current, mode, clock>>

(* A wrong reaction: the statement is given up and the analysis goes on. *)
IdentifierSkipped(n) ==
  /\ InExpression /\ Lookup(n) <= NullSym
  /\ Goto(IF Top.pc = "rhs" THEN "stmts" ELSE "ret")
  /\ UNCHANGED <<contexts, symbols, current, mode, clock>>

(* Absent and nullptr are the same error, `identifier not defined'. *)
IdentifierUndefined(n) == InExpression /\ Lookup(n) <= NullSym /\ Throw

(* String and array literals. *)
Unsupported == InExpression /\ Throw

StartReturn ==
  /\ Running({"stmts"})
  /\ Goto("ret")
  /\ UNCHANGED <<contexts, symbols, current, mode, clock>>

(* What an expression reaches through the context c that is part of it. *)
ReachedThrough(c, f) == contexts[c].captures \cup f.uses \cup f.inner
Reaching(f, reached) == [f EXCEPT !.inner = @ \cup reached]

(* ret_expr_ is set, the guard is destroyed, and the expression around the  *)
(* context, if there is one, goes on.                                       *)
Return ==
  /\ Running({"ret"})
  /\ contexts' = WithHere([Here EXCEPT !.returned = TRUE, !.uses = Top.uses,
                                        !.inner = Top.inner])
  /\ current' = Last
  /\ stack' = IF Len(stack) = 1 THEN <<>>
              ELSE [Rest EXCEPT ![Len(stack) - 1] = Reaching(@, ReachedThrough(Top.ctx, Top))]
  /\ UNCHANGED <<symbols, mode, clock>>

(* An exception leaves one activation; the caller of Module::from_ast gets  *)
(* it when there is none left.                                              *)
Unwind ==
  /\ mode = "throw"
  /\ IF stack = <<>>
     THEN mode' = "run" /\ UNCHANGED <<stack, current>>
     ELSE stack' = Rest /\ current' = Last /\ UNCHANGED mode
  /\ UNCHANGED <<contexts, symbols, clock>>

(* The process ended, or no module is left to analyse. *)
Halt ==
  /\ \/ mode \in {"null_deref", "abort"}
     \/ mode = "run" /\ stack = <<>> /\ Len(contexts) = MaxContexts
  /\ UNCHANGED vars

Next ==
  \/ ModuleFromAst \/ BlockFromAst \/ LambdaFromAst
  \/ \E n \in Names : Capture(n) \/ CaptureMissing(n) \/ CaptureNull(n)
  \/ CapturesDone
  \/ \E n \in Names : Param(n)
  \/ ParamDefault \/ ParamsDone \/ ParamListMissing
  \/ \E n \in Names : Assign(n) \/ AssignAgain(n)
  \/ AssignMany \/ AssignDone
  \/ \E n \in Names : Identifier(n) \/ IdentifierUndefined(n)
  \/ Unsupported \/ StartReturn \/ Return \/ Unwind \/ Halt

Spec == Init /\ [][Next]_vars
-----------------------------------------------------------------------------
TypeOK ==
  /\ contexts \in Seq(Context)
  /\ symbols \in Seq(Symbol)
  /\ stack \in Seq(Frame)
  /\ current \in 0 .. Len(contexts)
  /\ mode \in Mode
  /\ clock \in Nat

ContextIds == 1 .. Len(contexts)
SymbolIds == 1 .. Len(symbols)
Reached(s) == symbols[s].uses \cup symbols[s].inner

(* The global current_context_ always is the context of the innermost live  *)
(* activation, and every guard holds the context of the activation below    *)
(* it; this holds while an exception unwinds the stack too, so that a       *)
(* module analysed after a failed one starts from nullptr again.            *)
(* (context.cpp, ContextSwitchGuard)                                        *)
GuardDiscipline ==
  /\ current = IF stack = <<>> THEN 0 ELSE Top.ctx
  /\ \A i \in 1 .. Len(stack) :
       stack[i].last = IF i = 1 THEN 0 ELSE stack[i - 1].ctx

(* The symbols form a graph without cycles: in every set of them one has no *)
(* dependency in the set.  dump_deps, get_type and the code generator       *)
(* recurse along dependencies() and rhs() with no check of their own.       *)
DependenciesWellFounded ==
  \A S \in SUBSET SymbolIds :
    S # {} => \E s \in S : Reached(s) \cap S = {}

(* Identifiers see the context they are written in and nothing around it:   *)
(* what a local or a returned expression names belongs to the same context, *)
(* and the only way outwards is a capture, which is one level and keeps the *)
(* name (the file_addmul test).                                             *)
LexicalVisibility ==
  /\ \A s \in SymbolIds : \A u \in symbols[s].uses :
       IF symbols[s].kind = "capture"
       THEN /\ symbols[u].owner = contexts[symbols[s].owner].outer
            /\ symbols[u].name = symbols[s].name
       ELSE symbols[u].owner = symbols[s].owner
  /\ \A c \in ContextIds : \A u \in contexts[c].uses : symbols[u].owner = c

(* A context that from_ast returned can be dumped, cloned and typed: no     *)
(* entry of accessible_ is nullptr, and its symbols, and all they reach,    *)
(* are complete.  Contexts abandoned by a throw need not be.                *)
ReturnedContextsComplete ==
  \A c \in ContextIds : contexts[c].returned =>
    /\ \A n \in Names : contexts[c].accessible[n] # NullSym
    /\ \A s \in contexts[c].captures \cup contexts[c].locals \cup contexts[c].uses
                 \cup contexts[c].inner :
         symbols[s].seal > 0 /\ \A u \in Reached(s) : symbols[u].seal > 0

(* Each local of a context is what its name resolves to there, so that no   *)
(* two locals have one name; no local has the name of a capture or of a     *)
(* parameter of its context; and what a name resolves to is a declaration   *)
(* of that name in that context.  Context::from_ast tests the whole table   *)
(* before it assigns (context.cpp 70 to 73), and deep_clone, which rebuilds *)
(* the table from the three lists, relies on it.                            *)
NamesUnambiguous ==
  \A c \in ContextIds :
    LET ctx == contexts[c] IN
    /\ \A s \in ctx.locals :
         /\ ctx.accessible[symbols[s].name] = s
         /\ \A d \in ctx.captures \cup ctx.params : symbols[d].name # symbols[s].name
    /\ \A n \in Names : ctx.accessible[n] > NullSym =>
         /\ ctx.accessible[n] \in ctx.captures \cup ctx.params \cup ctx.locals
         /\ symbols[ctx.accessible[n]].name = n
         /\ symbols[ctx.accessible[n]].owner = c

(* Once a context has reached its statements, a name that means a symbol    *)
(* means that symbol for good: assigning again changes nothing.             *)
SingleAssignment ==
  [][\A i \in 1 .. Len(stack) : stack[i].pc \notin {"captures", "params"} =>
       \A n \in Names :
         LET c == stack[i].ctx IN
         contexts[c].accessible[n] > NullSym =>
           contexts'[c].accessible[n] = contexts[c].accessible[n]]_vars

(* An entry of a live context is nullptr just while the right hand side of  *)
(* its name is analysed; so a null pointer is followed only by a capture    *)
(* list inside that right hand side.  (context.cpp 51 and 76)               *)
NullWhileAnalysed ==
  /\ \A i \in 1 .. Len(stack), n \in Names :
       contexts[stack[i].ctx].accessible[n] = NullSym <=>
         stack[i].pc = "rhs" /\ symbols[stack[i].sym].name = n
  /\ mode = "null_deref" => Len(stack) > 1 /\ stack[Len(stack) - 1].pc = "rhs"
=============================================================================
