------------------------------ MODULE TypeMemo ------------------------------
(***************************************************************************)
(* Type inference of catk (src/catk/type.cpp).  get_type is recursive and  *)
(* remembers its answers in expr_type; while an expression is being typed  *)
(* its entry is the type `undecided', which is what a recursive function   *)
(* meets when it comes back to itself.  A call is typed through an         *)
(* instance of the function, a deep clone made for the operands' types.    *)
(*                                                                         *)
(* The C++ stack is explicit.  A behaviour is a process that has analysed  *)
(* one program and then asks for types in any order, as the code generator *)
(* and the tests do.                                                       *)
(***************************************************************************)
EXTENDS Integers, Sequences, FiniteSets

CONSTANT Programs  \* the programs that semantic analysis may have produced

(* An expression of a program is a number.  `kids' are what get_type asks   *)
(* for in order: operands and then, for a call, the callee; a right hand    *)
(* side, a returned expression, the return statement of a context.  A       *)
(* lambda is a context that is not immediate: `id' is the line it begins    *)
(* at, `params' its parameters, `body' all that its deep clone copies.      *)
Node == [op: {"const", "param", "symbol", "ret", "block", "lambda",
              "bin", "compare", "unary", "addrof", "deref", "if", "call"},
         kids: Seq(Nat), prim: Nat, params: Seq(Nat), body: SUBSET Nat, id: Nat]

(* No loop among the expressions (Scope!DependenciesWellFounded): kids have *)
(* smaller numbers.  `captures' are the symbols of the capture lists, which *)
(* a deep clone shares with its source, `top' what the module consists of.  *)
(* No body returns or renames a capture: the clone would copy what is       *)
(* behind it, too, and may fail in that (Clone!ThrowsBehindCaptures).       *)
ProgramOK(p) ==
  /\ p.node \in Seq(Node)
  /\ p.captures \cup p.top \subseteq 1 .. Len(p.node)
  /\ \A n \in 1 .. Len(p.node) :
       LET nd == p.node[n] IN
       /\ \A i \in 1 .. Len(nd.kids) : nd.kids[i] \in 1 .. n - 1
       /\ nd.body \subseteq 1 .. n - 1
       /\ \A i \in 1 .. Len(nd.params) :
            nd.params[i] \in nd.body /\ p.node[nd.params[i]].op = "param"
       /\ \A b \in nd.body : p.node[b].op \in {"symbol", "ret"} =>
                               p.node[b].kids[1] \notin p.captures
       /\ nd.op \in {"symbol", "ret", "block", "lambda", "unary", "addrof", "deref"}
            => Len(nd.kids) = 1
       /\ nd.op \in {"bin", "compare"} => Len(nd.kids) = 2
       /\ nd.op = "if" => Len(nd.kids) = 3
       /\ nd.op = "call" => Len(nd.kids) > 0
       /\ nd.op = "lambda" => nd.id > 0
       /\ nd.op \in {"const", "param"} => nd.kids = <<>>

ASSUME ProgramsAssumption == \A p \in Programs : ProgramOK(p)

VARIABLES program,
          memo,       \* expr_type: a function on the objects with an entry
          interned,   \* the lambda types of type::Context::internal_, by id
          instances,  \* the keys of def_to_inst
          stack,      \* the activations of get_type, innermost last
          poisoned    \* history: what was being typed when an error was thrown

vars == <<program, memo, interned, instances, stack, poisoned>>
-----------------------------------------------------------------------------
(* Types.  `arg' is the number of a primary type (enum PrimaryType) or the   *)
(* id of a lambda, `depth' counts the pointers around it.                   *)
Type == [base: {"undecided", "primary", "lazy"}, arg: Nat, depth: Nat]

Undecided == [base |-> "undecided", arg |-> 0, depth |-> 0]
Prim(n) == [base |-> "primary", arg |-> n, depth |-> 0]
Lazy(id) == [base |-> "lazy", arg |-> id, depth |-> 0]
Bool == Prim(0)
IsPrimary(t) == t.base = "primary" /\ t.depth = 0
IsLazy(t) == t.base = "lazy" /\ t.depth = 0
Pointer(t) == [t EXCEPT !.depth = @ + 1]
Pointee(t) == [t EXCEPT !.depth = @ - 1]

(* What def_to_inst is indexed by (serialize_type_id).  Lines begin at 1,   *)
(* so that Original is no key.                                              *)
Key == [id: Nat, tys: Seq(Type)]
Original == [id |-> 0, tys |-> << >>]

(* An object of the semantic graph: expression n of the program as it was   *)
(* analysed (Original), or the copy of it made for an instance.             *)
Object == [at: Key, n: Nat]
Obj(at, n) == [at |-> at, n |-> n]
Src(e) == program.node[e.n]

(* An instance is the clone of a lambda with set_immediate(true). *)
Instance(key) == Obj(key, interned[key.id])
IsInstance(e) == e.at # Original /\ e.n = interned[e.at.id]

(* The number of a parameter's copy that is in no table, see Copy. *)
Stray == 0
Op(e) == IF IsInstance(e) THEN "block" ELSE IF e.n = Stray THEN "param" ELSE Src(e).op

(* What a clone returns, or gives another name, is cloned and not looked up *)
(* (RetExpr::deep_clone, Symbol::deep_clone).                               *)
Clones(e) == e.at # Original /\ Src(e).op \in {"symbol", "ret"}

(* Named operands are looked up in the symbol table of the clone, which     *)
(* holds copies of parameters and locals and the captures of the source.    *)
(* A further copy of a local means what the local's copy in the table does  *)
(* and is not told apart from it.  A further copy of a parameter is a new   *)
(* symbol with no right hand side, which nobody gives a type: the Stray.    *)
Copy(e, n) == Obj(IF n \in program.captures THEN Original ELSE e.at,
                  IF Clones(e) /\ program.node[n].op = "param" THEN Stray ELSE n)
Kids(e) == IF Op(e) \in {"lambda", "param"} THEN << >>
           ELSE [i \in 1 .. Len(Src(e).kids) |-> Copy(e, Src(e).kids[i])]

Remember(m, e, t) == [x \in DOMAIN m \cup {e} |-> IF x = e THEN t ELSE m[x]]
Forget(m, e) == [x \in DOMAIN m \ {e} |-> m[x]]
-----------------------------------------------------------------------------
(* The type of an expression from the types of what it asked for. *)

(* serialize_type_id of a context: its line. *)
LambdaId(e) == Src(e).id

(* bop_cast: the later one in the enumeration. *)
BopCast(s, t) == IF s.arg > t.arg THEN s ELSE t

IfElse(t, u) == IF t = Undecided THEN u ELSE t

UnaryOp(op, t) ==
  CASE t = Undecided \/ op = "unary" -> t
    [] t # Undecided /\ op = "addrof" -> Pointer(t)
    [] t # Undecided /\ op = "deref" -> Pointee(t)

TypeOf(e, tys) ==
  CASE Op(e) = "const" -> Prim(Src(e).prim)
    [] Op(e) = "param" -> Undecided
    [] Op(e) = "lambda" -> Lazy(LambdaId(e))
    [] Op(e) \in {"symbol", "ret", "block", "call"} -> tys[Len(tys)]
    [] Op(e) \in {"bin", "compare"} ->
         IF Undecided \in {tys[1], tys[2]} THEN Undecided
         ELSE IF Op(e) = "bin" THEN BopCast(tys[1], tys[2]) ELSE Bool
    [] Op(e) = "if" -> IfElse(tys[2], tys[3])
    [] Op(e) \in {"unary", "addrof", "deref"} -> UnaryOp(Op(e), tys[1])

(* A wrong check, which lets anything be dereferenced. *)
IllTypedNoDeref(e, tys) ==
  \/ /\ Op(e) = "bin" /\ Undecided \notin {tys[1], tys[2]}
     /\ ~ (IsPrimary(tys[1]) /\ IsPrimary(tys[2]))
  \/ Op(e) = "if" /\ tys[2] # tys[3] /\ Undecided \notin {tys[2], tys[3]}

(* RuleViolation, and std::get on a type that is not primary. *)
IllTyped(e, tys) ==
  \/ /\ Op(e) = "bin" /\ Undecided \notin {tys[1], tys[2]}
     /\ ~ (IsPrimary(tys[1]) /\ IsPrimary(tys[2]))
  \/ Op(e) = "if" /\ tys[2] # tys[3] /\ Undecided \notin {tys[2], tys[3]}
  \/ Op(e) = "deref" /\ tys[1] # Undecided /\ tys[1].depth = 0
-----------------------------------------------------------------------------
Init ==
  /\ program \in Programs
  /\ memo = << >>
  /\ interned = << >>
  /\ instances = {}
  /\ stack = << >>
  /\ poisoned = {}

Top == stack[Len(stack)]
Rest == SubSeq(stack, 1, Len(stack) - 1)
Busy == stack # << >>

(* A wrong beginning, which leaves no trace of the expression being typed. *)
BeginUnmarked(e) ==
  /\ stack' = Append(stack, [expr |-> e, tys |-> << >>])
  /\ UNCHANGED <<program, memo, interned, instances, poisoned>>

(* The entry is made, `undecided', before the expression is visited. *)
Begin(e) ==
  /\ memo' = Remember(memo, e, Undecided)
  /\ stack' = Append(stack, [expr |-> e, tys |-> << >>])
  /\ UNCHANGED <<program, interned, instances, poisoned>>

(* A wrong answer, which makes the caller ask again for an undecided type. *)
AnswerDecided(frames, t) ==
  IF frames = << >> \/ t = Undecided THEN frames
  ELSE [frames EXCEPT ![Len(frames)].tys = Append(@, t)]

(* The answer t is given to the innermost of `frames', if there is one. *)
Answer(frames, t) ==
  IF frames = << >> THEN << >> ELSE [frames EXCEPT ![Len(frames)].tys = Append(@, t)]

(* What get_type may be asked about: the module and what it was asked for.  *)
Objects == {Obj(Original, n) : n \in program.top} \cup
           UNION {{Obj(k, n) : n \in program.node[interned[k.id]].body
                                        \cup {interned[k.id]}} : k \in instances}

(* A wrong question, which does not look the expression up. *)
QueryAgain(e) == ~Busy /\ Begin(e)

(* get_type from outside: the entry is there, or the expression is visited. *)
Known(e) == ~Busy /\ e \in DOMAIN memo /\ UNCHANGED vars
Query(e) == ~Busy /\ e \notin DOMAIN memo /\ Begin(e)
-----------------------------------------------------------------------------
(* An activation f has asked for Len(f.tys) types so far. *)
Arity(f) == Len(Kids(f.expr))
CalleeKnown(f) == Op(f.expr) = "call" /\ Len(f.tys) = Arity(f)
Callee(f) == f.tys[Arity(f)]
OperandTypes(f) == SubSeq(f.tys, 1, Arity(f) - 1)

(* The key of def_to_inst: the lambda and the types of the operands. *)
CallKey(f) == [id |-> Callee(f).arg, tys |-> OperandTypes(f)]
Resolved(f) == CalleeKnown(f) /\ IsLazy(Callee(f))

(* What an activation asks for next: its kids, and for a call the instance. *)
Wants(f) == IF Len(f.tys) < Arity(f) THEN {Kids(f.expr)[Len(f.tys) + 1]}
            ELSE IF Resolved(f) /\ CallKey(f) \in instances THEN {Instance(CallKey(f))}
            ELSE {}

(* The entry exists, be it `undecided': the answer is at hand. *)
Hit ==
  /\ Busy
  /\ \E e \in Wants(Top) : e \in DOMAIN memo /\ stack' = Answer(stack, memo[e])
  /\ UNCHANGED <<program, memo, interned, instances, poisoned>>

Visit == Busy /\ \E e \in Wants(Top) : e \notin DOMAIN memo /\ Begin(e)

Params(id) == program.node[interned[id]].params

(* A wrong clone, whose parameters all have the type of the first operand. *)
ParamTypeFirst(key, n) == key.tys[1]

ParamTypeOf(key, n) == key.tys[CHOOSE i \in DOMAIN key.tys : Params(key.id)[i] = n]

(* get_typed_context for a key it has not met: the parameters of the clone  *)
(* get their types, `undecided' ones too.                                   *)
Instantiate ==
  /\ Busy /\ Resolved(Top)
  /\ LET key == CallKey(Top)
         params == Params(key.id)
     IN  /\ key \notin instances
         /\ Len(params) = Len(key.tys)
         /\ instances' = instances \cup {key}
         /\ memo' = [x \in DOMAIN memo \cup {Obj(key, params[i]) : i \in DOMAIN params} |->
                       IF x \in DOMAIN memo THEN memo[x] ELSE ParamTypeOf(key, x.n)]
  /\ UNCHANGED <<program, interned, stack, poisoned>>

(* Everything an activation asks for has been answered. *)
Ready(f) == Len(f.tys) = IF Op(f.expr) = "call" THEN Arity(f) + 1 ELSE Arity(f)

(* A wrong table, in which a lambda takes the place of an earlier one. *)
InternLast(e) ==
  IF Op(e) = "lambda" THEN Remember(interned, LambdaId(e), e.n) ELSE interned

(* type::Context::getType keeps the first lambda of an id. *)
Intern(e) ==
  IF Op(e) = "lambda" /\ LambdaId(e) \notin DOMAIN interned
  THEN Remember(interned, LambdaId(e), e.n) ELSE interned

(* A wrong ending, which keeps the entry of an undecided expression. *)
SettleKeeps(e, t) == Remember(memo, e, t)

(* `undecided' is an answer, but not one to remember. *)
Settle(e, t) == IF t = Undecided THEN Forget(memo, e) ELSE Remember(memo, e, t)

Conclude ==
  /\ Busy /\ Ready(Top) /\ ~IllTyped(Top.expr, Top.tys)
  /\ LET t == TypeOf(Top.expr, Top.tys) IN
       /\ memo' = Settle(Top.expr, t)
       /\ stack' = Answer(Rest, t)
  /\ interned' = Intern(Top.expr)
  /\ UNCHANGED <<program, instances, poisoned>>

(* An exception ends every activation; none of them clears its entry. *)
Throw ==
  /\ poisoned' = poisoned \cup {stack[i].expr : i \in 1 .. Len(stack)}
  /\ stack' = << >>
  /\ UNCHANGED <<program, memo, interned, instances>>

RuleViolation == Busy /\ Ready(Top) /\ IllTyped(Top.expr, Top.tys) /\ Throw

(* get_lazy_context() on a type that is not a lambda's. *)
NotAFunction == Busy /\ CalleeKnown(Top) /\ ~IsLazy(Callee(Top)) /\ Throw

WrongArity ==
  /\ Busy /\ Resolved(Top) /\ CallKey(Top) \notin instances
  /\ Len(Params(CallKey(Top).id)) # Len(CallKey(Top).tys)
  /\ Throw

Step == \/ Hit \/ Visit \/ Instantiate \/ Conclude
        \/ RuleViolation \/ NotAFunction \/ WrongArity

Next == Step \/ \E e \in Objects : Known(e) \/ Query(e)

Spec == Init /\ [][Next]_vars
FairSpec == Spec /\ WF_vars(Step)
-----------------------------------------------------------------------------
TypeOK ==
  /\ program \in Programs
  /\ DOMAIN memo \subseteq Object
  /\ \A e \in DOMAIN memo : memo[e] \in Type
  /\ \A id \in DOMAIN interned :
       interned[id] \in 1 .. Len(program.node) /\ program.node[interned[id]].op = "lambda"
  /\ instances \subseteq Key
  /\ stack \in Seq([expr: Object, tys: Seq(Type)])
  /\ poisoned \subseteq Object

Stacked == {stack[i].expr : i \in 1 .. Len(stack)}

(* An entry `undecided' is one of three things: an expression that is being *)
(* typed right now, one whose typing was cut off by an error, or a          *)
(* parameter that was given no type; everything else an entry says is a     *)
(* type.  In particular a recursive function leaves nothing behind.         *)
(* (type.cpp, get_type)                                                     *)
UndecidedIsTemporary ==
  \A e \in DOMAIN memo :
    memo[e] = Undecided =>
      \/ e \in Stacked \cup poisoned
      \/ /\ e.at \in instances
         /\ \E i \in DOMAIN e.at.tys :
              e.at.tys[i] = Undecided /\ e.n = Params(e.at.id)[i]

(* No expression is being typed twice at a time, however functions call     *)
(* each other: the recursion of get_type is as deep as there are objects.   *)
NoReentry ==
  \A i, j \in 1 .. Len(stack) : stack[i].expr = stack[j].expr => i = j

(* A type once remembered never changes and is never forgotten, whatever is *)
(* asked or fails later: the code generator may ask again.                  *)
TypesAreFinal ==
  [][\A e \in DOMAIN memo : memo[e] # Undecided =>
       e \in DOMAIN memo' /\ memo'[e] = memo[e]]_vars

TypeIn(e) == IF e \in DOMAIN memo THEN memo[e] ELSE Undecided

(* The remembered types fit together: each follows by the rule of its       *)
(* operator from the remembered types of its operands, and the type of a    *)
(* call is the type of an instance of what is called.                       *)
TypesFit ==
  \A e \in DOMAIN memo : memo[e] # Undecided /\ Op(e) # "param" =>
    LET tys == [i \in DOMAIN Kids(e) |-> TypeIn(Kids(e)[i])] IN
    IF Op(e) = "call"
    THEN \E k \in instances : k.id = tys[Len(tys)].arg /\ TypeIn(Instance(k)) = memo[e]
    ELSE IF Op(e) = "if" THEN memo[e] \in {tys[2], tys[3]}
    ELSE ~IllTyped(e, tys) /\ memo[e] = TypeOf(e, tys)

(* The lambdas on a line that have been typed. *)
TypedOn(line) ==
  {d \in DOMAIN memo : Op(d) = "lambda" /\ memo[d] # Undecided /\ Src(d).id = line}

(* The type of a lambda is the line it begins at, and the line stands for   *)
(* the lambda on it that was typed first: a lambda that is typed when none  *)
(* of its line has been is the one that the type leads to from then on, and *)
(* no lambda typed later, of the same line or of a second module's line of  *)
(* that number, takes its place.  (type.cpp 17 and 18, context.cpp 18)      *)
LineStandsForItsFirst ==
  [][\A e \in DOMAIN memo' : Op(e)' = "lambda" /\ memo'[e] # Undecided =>
       /\ memo'[e] = Lazy(Src(e).id)
       /\ interned'[Src(e).id] =
            IF TypedOn(Src(e).id) = {} THEN e.n ELSE interned[Src(e).id]]_vars

(* The clauses of an if have one type, or the program is rejected (type.cpp, *)
(* `if-else clause type mismatch').                                         *)
IfClausesAgree ==
  \A e \in DOMAIN memo : Op(e) = "if" /\ memo[e] # Undecided =>
    \A i, j \in {2, 3} :
      Undecided \notin {TypeIn(Kids(e)[i]), TypeIn(Kids(e)[j])} =>
        TypeIn(Kids(e)[i]) = TypeIn(Kids(e)[j])

(* Every question gets an answer or an error. *)
QueriesEnd == Busy ~> ~Busy
=============================================================================
