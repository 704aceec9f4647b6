------------------------------ MODULE CodeGen ------------------------------
(***************************************************************************)
(* The code generator of catk (src/catk/behavior/gen_llvm).  A Driver       *)
(* walks the semantic graph with translate_value and appends instructions  *)
(* at the insertion point of its IRBuilder.  Symbols get a storage when    *)
(* they are first used, and the body of a function is generated in the     *)
(* middle of the function that calls it first.                             *)
(*                                                                         *)
(* The C++ stack is explicit.  Of the generated code the model keeps the   *)
(* blocks, their terminators and dominators, and which storage is loaded   *)
(* where; the arithmetic and the types of values are left out.             *)
(***************************************************************************)
EXTENDS Integers, Sequences, FiniteSets

CONSTANT Programs  \* the typed programs the generator is given

(* An expression is a number.  `kids' are translated in order: the operands *)
(* of a call and then its callee, the right hand side of a symbol that has  *)
(* one, the symbols a lambda captures.  `inst' is the instance that         *)
(* get_typed_context finds for a call (TypeMemo!CallKey), which is called   *)
(* by the `name' of its callee: a symbol's, or `init' for the module.       *)
Node == [op: {"const", "string", "symbol", "plus", "minus", "not", "inv", "addrof", "deref",
              "bin", "if", "block", "lambda", "call"},
         kids: Seq(Nat), inst: Nat, name: STRING]

(* What the generator asks of the instance of a context.  `captures' are    *)
(* the symbols of its capture list, which its instances share.              *)
Instance == [type: Nat, ret: Nat, params: SUBSET Nat, captures: SUBSET Nat, locals: SUBSET Nat]

(* The last expression is the module's: the call of its instance, `init'.   *)
ProgramOK(p) ==
  /\ p.node \in Seq(Node) /\ p.inst \in Seq(Instance) /\ p.node # << >>
  /\ p.node[Len(p.node)].op = "call"
  /\ \A n \in 1 .. Len(p.node) :
       LET nd == p.node[n] IN
       /\ \A i \in 1 .. Len(nd.kids) : nd.kids[i] \in 1 .. n - 1
       /\ nd.op = "if" => Len(nd.kids) = 3
       /\ nd.op = "call" => Len(nd.kids) > 0 /\ nd.inst \in 1 .. Len(p.inst)
       /\ nd.op = "symbol" => Len(nd.kids) <= 1
       /\ nd.op \in {"plus", "minus", "not", "inv", "addrof", "deref"} => Len(nd.kids) = 1
  /\ \A c \in 1 .. Len(p.inst) :
       /\ p.inst[c].ret \in 1 .. Len(p.node)
       /\ \A s \in p.inst[c].params \cup p.inst[c].captures \cup p.inst[c].locals :
            s \in 1 .. Len(p.node) /\ p.node[s].op = "symbol"

ASSUME ProgramsAssumption == \A p \in Programs : ProgramOK(p)

(* All that translating an expression may lead to in the same function. *)
Visited(p) ==
  LET v[n \in 1 .. Len(p.node)] ==
        {n} \cup UNION {v[p.node[n].kids[i]] : i \in 1 .. Len(p.node[n].kids)}
  IN  v

(* The parameters of an instance are made by the deep_clone that makes it.  *)
(* No other instance has them: what two of them share is captured, and what *)
(* a capture leads to is no copy (Clone!InstancesAreSeparate).              *)
ParametersOwned(p) ==
  \A c \in 1 .. Len(p.inst) : \A s \in p.inst[c].params :
    /\ p.node[s].kids = << >> /\ s \notin Visited(p)[Len(p.node)]
    /\ \A d \in 1 .. Len(p.inst) \ {c} :
         s \notin p.inst[d].params \cup p.inst[d].captures \cup Visited(p)[p.inst[d].ret]

ASSUME ParametersAssumption == \A p \in Programs : ParametersOwned(p)

VARIABLES program,
          stack,      \* the activations of translate_value, innermost last
          currFunc,   \* curr_func_, by name
          block,      \* the builder's insertion point
          blocks,     \* the basic blocks, in the order they are made
          storage,    \* symbol_storage_: the block of a symbol's alloca, or Null
          made,       \* typed_ctx_func_: the function of an instance, by name
          structs,    \* slazy_ctx_struct_: a lambda's members
          loads,      \* history: which storage was loaded where
          outcome

vars == <<program, stack, currFunc, block, blocks, storage, made, structs, loads, outcome>>
-----------------------------------------------------------------------------
(* What translate_value returns: a load instruction, another instruction or *)
(* constant, the address of a storage, or nullptr.                          *)
Value == {"load", "computed", "address", "null"}
Null == 0
Construct == "catk_mod_construct"

(* `doms' are the blocks every path to this one passes, `ends' is how many  *)
(* terminators it has.                                                      *)
Block(fn, doms) == [fn |-> fn, doms |-> doms, ends |-> 0]

(* `next' are the blocks an if has still to fill, `site' is where a call    *)
(* was being generated when it began to generate the function it calls.     *)
NoSite == [fn |-> Construct, block |-> Null]
Activation(n) == [n |-> n, vals |-> << >>, next |-> << >>, site |-> NoSite]

Init ==
  /\ program \in Programs
  /\ stack = <<Activation(Len(program.node))>>
  /\ currFunc = Construct /\ block = 1
  /\ blocks = <<Block(Construct, {1})>>
  /\ storage = << >> /\ made = << >> /\ structs = << >>
  /\ loads = {} /\ outcome = "running"

Top == stack[Len(stack)]
Rest == SubSeq(stack, 1, Len(stack) - 1)
Op(f) == program.node[f.n].op
Kids(f) == program.node[f.n].kids
Index(f) == program.node[f.n].inst
Inst(f) == program.inst[Index(f)]
CalleeName(f) == program.node[Kids(f)[Len(Kids(f))]].name
Answered(f, k) == Len(f.vals) = k
Complete(f) == Answered(f, Len(Kids(f)))
At(op) == outcome = "running" /\ Op(Top) = op
Stored(n) == n \in DOMAIN storage /\ storage[n] # Null

Assign(g, s, b) == [x \in DOMAIN g \cup {s} |-> IF x = s THEN b ELSE g[x]]
Update(f) == Append(Rest, f)
Ended(b) == [blocks EXCEPT ![b].ends = @ + 1]

(* rt_assert: the generator is left and the Driver destroyed.  After a null *)
(* value is used, or an llvm::cast to what a value is not, nothing is sure. *)
Stop(how) == stack' = << >> /\ outcome' = how
Reject == Stop("rejected")
Undefined == Stop("undefined")

(* The value v is returned to the caller, or the module is complete.  Only  *)
(* `+' and the end of a function take nullptr for a value.                  *)
TakesNull(f) == Op(f) = "plus" \/ (Op(f) = "call" /\ Complete(f))
Return(v) ==
  IF Rest = << >> THEN Stop("done")
  ELSE LET caller == Rest[Len(Rest)] IN
       IF v = "null" /\ ~TakesNull(caller) THEN Undefined
       ELSE /\ stack' = [Rest EXCEPT ![Len(Rest)].vals = Append(@, v)]
            /\ UNCHANGED outcome
Emitted == <<currFunc, block, blocks, storage, made, structs, loads>>
-----------------------------------------------------------------------------
(* The next operand is visited; a symbol has got its entry, a null pointer. *)
Visit ==
  /\ outcome = "running" /\ Len(Top.vals) < Len(Kids(Top))
  /\ Op(Top) = "symbol" => ~Stored(Top.n)
  /\ Op(Top) = "lambda" => Top.n \notin DOMAIN structs
  /\ Op(Top) = "if" => Len(Top.next) = (3 - Len(Top.vals)) % 3
  /\ stack' = Append(stack, Activation(Kids(Top)[Len(Top.vals) + 1]))
  /\ storage' = IF Op(Top) = "symbol" THEN Assign(storage, Top.n, Null) ELSE storage
  /\ UNCHANGED <<program, currFunc, block, blocks, made, structs, loads, outcome>>

Constant == At("const") /\ Return("computed") /\ UNCHANGED <<program, Emitted>>

(* A symbol's storage is loaded, at the insertion point. *)
LoadFrom(b) == loads' = loads \cup {[sym |-> Top.n, from |-> b, at |-> block]}

LoadSymbol ==
  /\ At("symbol") /\ Stored(Top.n)
  /\ LoadFrom(storage[Top.n]) /\ Return("load")
  /\ UNCHANGED <<program, currFunc, block, blocks, storage, made, structs>>

(* The first use of a symbol allocates its storage, where the right hand    *)
(* side has just been generated.                                            *)
StoreSymbol ==
  /\ At("symbol") /\ ~Stored(Top.n) /\ Answered(Top, 1)
  /\ storage' = Assign(storage, Top.n, block)
  /\ LoadFrom(block) /\ Return("load")
  /\ UNCHANGED <<program, currFunc, block, blocks, made, structs>>

(* A parameter without a storage: virt_visit of nullptr throws bad_typeid. *)
Unbound ==
  /\ At("symbol") /\ ~Stored(Top.n) /\ Kids(Top) = << >>
  /\ Reject /\ UNCHANGED <<program, Emitted>>

Operator ==
  /\ \E op \in {"bin", "inv", "plus", "deref"} : At(op)
  /\ Complete(Top)
  /\ Return(CASE Op(Top) = "deref" -> "load"
              [] Op(Top) = "plus" -> Top.vals[1]
              [] Op(Top) \in {"bin", "inv"} -> "computed")
  /\ UNCHANGED <<program, Emitted>>

(* `!' compares with a number of no bits: getIntN has its arguments swapped. *)
Not == At("not") /\ Complete(Top) /\ Undefined /\ UNCHANGED <<program, Emitted>>

(* Strings, and the operators there is no case for. *)
NotImplemented ==
  /\ \E op \in {"string", "minus"} : At(op)
  /\ Complete(Top) /\ Reject
  /\ UNCHANGED <<program, Emitted>>

AddressOf ==
  /\ At("addrof") /\ Complete(Top)
  /\ IF Top.vals[1] = "load" THEN Return("address") ELSE Undefined
  /\ UNCHANGED <<program, Emitted>>

(* translate_context_def has no value for an immediate context. *)
ImmediateContext == At("block") /\ Return("null") /\ UNCHANGED <<program, Emitted>>

(* A lambda's value is a struct that holds what the captured symbols' loads *)
(* returned; asked for again, it is the struct's address.                   *)
Lambda ==
  /\ At("lambda") /\ (Complete(Top) \/ Top.n \in DOMAIN structs)
  /\ IF Top.n \in DOMAIN structs
     THEN Return("address") /\ UNCHANGED structs
     ELSE Return("load") /\ structs' = Assign(structs, Top.n, Top.vals)
  /\ UNCHANGED <<program, currFunc, block, blocks, storage, made, loads>>
-----------------------------------------------------------------------------
(* A wrong if, which makes no block to go on in. *)
BranchWithoutEnd ==
  /\ At("if") /\ Answered(Top, 1) /\ Top.next = << >>
  /\ LET new(i) == Len(blocks) + i
         arm(i) == Block(currFunc, blocks[block].doms \cup {new(i)})
     IN  /\ blocks' = Ended(block) \o <<arm(1), arm(2)>>
         /\ block' = new(1)
         /\ stack' = Update([Top EXCEPT !.next = <<new(2), new(3)>>])
  /\ UNCHANGED <<program, currFunc, storage, made, structs, loads, outcome>>

(* An if: the condition, then three new blocks of the current function. *)
Branch ==
  /\ At("if") /\ Answered(Top, 1) /\ Top.next = << >>
  /\ LET new(i) == Len(blocks) + i
         arm(i) == Block(currFunc, blocks[block].doms \cup {new(i)})
     IN  /\ blocks' = Ended(block) \o <<arm(1), arm(2), arm(3)>>
         /\ block' = new(1)
         /\ stack' = Update([Top EXCEPT !.next = <<new(2), new(3)>>])
  /\ UNCHANGED <<program, currFunc, storage, made, structs, loads, outcome>>

(* A wrong else, before which no branch leaves the then block. *)
ElseFallsThrough ==
  /\ At("if") /\ Answered(Top, 2) /\ Len(Top.next) = 2
  /\ blocks' = blocks /\ block' = Top.next[1]
  /\ stack' = Update([Top EXCEPT !.next = Tail(@)])
  /\ UNCHANGED <<program, currFunc, storage, made, structs, loads, outcome>>

Else ==
  /\ At("if") /\ Answered(Top, 2) /\ Len(Top.next) = 2
  /\ blocks' = Ended(block) /\ block' = Top.next[1]
  /\ stack' = Update([Top EXCEPT !.next = Tail(@)])
  /\ UNCHANGED <<program, currFunc, storage, made, structs, loads, outcome>>

EndIf ==
  /\ At("if") /\ Answered(Top, 3)
  /\ blocks' = Ended(block) /\ block' = Top.next[1]
  /\ Return("load")
  /\ UNCHANGED <<program, currFunc, storage, made, structs, loads>>
-----------------------------------------------------------------------------
(* translate_context_call *)
Named(fn) == {b \in 1 .. Len(blocks) : blocks[b].fn = fn}
Entry(fn) == CHOOSE b \in Named(fn) : \A c \in Named(fn) : b <= c

(* A wrong test, which has no function of a name that is taken. *)
ClashOfNames(f) == \E c \in DOMAIN made : made[c] = CalleeName(f)

(* getOrInsertFunction gives back a function that has the name already; if  *)
(* its type is another one, it is no llvm::Function that comes back.        *)
Clash(f) ==
  \/ CalleeName(f) = Construct
  \/ \E c \in DOMAIN made : made[c] = CalleeName(f) /\ program.inst[c].type # Inst(f).type

(* A wrong beginning, which stores the arguments before it moves the        *)
(* insertion point to the new function.                                     *)
GenerateAtSite ==
  /\ At("call") /\ Complete(Top) /\ Index(Top) \notin DOMAIN made /\ ~Clash(Top)
  /\ LET inst == Inst(Top)
         name == CalleeName(Top)
         new == Len(blocks) + 1
         first == IF Named(name) = {} THEN new ELSE Entry(name)
     IN  /\ made' = Assign(made, Index(Top), name)
         /\ blocks' = Append(blocks, Block(name, {new}))
         /\ currFunc' = name /\ block' = first
         /\ storage' = [s \in DOMAIN storage \cup inst.captures \cup inst.params |->
                          IF s \in inst.captures \cup inst.params THEN block ELSE storage[s]]
         /\ stack' = Append(Update([Top EXCEPT !.site = [fn |-> currFunc, block |-> block]]),
                            Activation(inst.ret))
  /\ UNCHANGED <<program, structs, loads, outcome>>

Generate ==
  /\ At("call") /\ Complete(Top) /\ Index(Top) \notin DOMAIN made /\ ~Clash(Top)
  /\ LET inst == Inst(Top)
         name == CalleeName(Top)
         new == Len(blocks) + 1
         first == IF Named(name) = {} THEN new ELSE Entry(name)
     IN  /\ made' = Assign(made, Index(Top), name)
         /\ blocks' = Append(blocks, Block(name, {new}))
         /\ currFunc' = name /\ block' = first
         /\ storage' = [s \in DOMAIN storage \cup inst.captures \cup inst.params |->
                          IF s \in inst.captures \cup inst.params THEN first ELSE storage[s]]
         /\ stack' = Append(Update([Top EXCEPT !.site = [fn |-> currFunc, block |-> block]]),
                            Activation(inst.ret))
  /\ UNCHANGED <<program, structs, loads, outcome>>

NameClash ==
  /\ At("call") /\ Complete(Top) /\ Index(Top) \notin DOMAIN made /\ Clash(Top)
  /\ Undefined /\ UNCHANGED <<program, Emitted>>

(* Two wrong endings: one leaves the new function the current one, one      *)
(* erases every storage.                                                    *)
EndFunctionStays ==
  /\ At("call") /\ Answered(Top, Len(Kids(Top)) + 1)
  /\ LET inst == Inst(Top)
         gone == inst.captures \cup inst.params \cup inst.locals
     IN  storage' = [s \in DOMAIN storage \ gone |-> storage[s]]
  /\ blocks' = Ended(block) /\ block' = Top.site.block
  /\ stack' = Update([Top EXCEPT !.vals = SubSeq(@, 1, Len(@) - 1), !.site = NoSite])
  /\ UNCHANGED <<program, currFunc, made, structs, loads, outcome>>

EndFunctionClears ==
  /\ At("call") /\ Answered(Top, Len(Kids(Top)) + 1)
  /\ storage' = << >>
  /\ blocks' = Ended(block)
  /\ block' = Top.site.block /\ currFunc' = Top.site.fn
  /\ stack' = Update([Top EXCEPT !.vals = SubSeq(@, 1, Len(@) - 1), !.site = NoSite])
  /\ UNCHANGED <<program, made, structs, loads, outcome>>

(* The function is complete: its symbols lose their storages, and the       *)
(* generator goes back to where the call is.                                *)
EndFunction ==
  /\ At("call") /\ Answered(Top, Len(Kids(Top)) + 1)
  /\ LET inst == Inst(Top)
         gone == inst.captures \cup inst.params \cup inst.locals
     IN  storage' = [s \in DOMAIN storage \ gone |-> storage[s]]
  /\ blocks' = Ended(block)
  /\ block' = Top.site.block /\ currFunc' = Top.site.fn
  /\ stack' = Update([Top EXCEPT !.vals = SubSeq(@, 1, Len(@) - 1),
                                  !.site = NoSite])
  /\ UNCHANGED <<program, made, structs, loads, outcome>>

(* CreateCall; after the call of init the module's constructor returns. *)
Call ==
  /\ At("call") /\ Complete(Top) /\ Index(Top) \in DOMAIN made
  /\ blocks' = IF Len(stack) = 1 THEN Ended(block) ELSE blocks
  /\ Return("computed")
  /\ UNCHANGED <<program, currFunc, block, storage, made, structs, loads>>

(* The unit has been handed over, or there will be none. *)
Finished == outcome # "running" /\ UNCHANGED vars

Next == \/ Visit \/ Constant \/ LoadSymbol \/ StoreSymbol \/ Unbound
        \/ Operator \/ Not \/ NotImplemented \/ AddressOf \/ ImmediateContext \/ Lambda
        \/ Branch \/ Else \/ EndIf
        \/ Generate \/ NameClash \/ EndFunction \/ Call
        \/ Finished

Spec == Init /\ [][Next]_vars
-----------------------------------------------------------------------------
Functions == {Construct} \cup {program.node[n].name : n \in 1 .. Len(program.node)}

Frames == [n: 1 .. Len(program.node), vals: Seq(Value),
           next: Seq(1 .. Len(blocks)), site: [fn: Functions, block: 0 .. Len(blocks)]]
Blocks == [fn: Functions, doms: SUBSET (1 .. Len(blocks)), ends: Nat]

TypeOK ==
  /\ stack \in Seq(Frames)
  /\ currFunc \in Functions /\ block \in 1 .. Len(blocks)
  /\ blocks \in Seq(Blocks)
  /\ \A s \in DOMAIN storage : s \in 1 .. Len(program.node) /\ storage[s] \in 0 .. Len(blocks)
  /\ \A c \in DOMAIN made : c \in 1 .. Len(program.inst) /\ made[c] \in Functions
  /\ \A n \in DOMAIN structs : structs[n] \in Seq(Value)
  /\ \A l \in loads : l.sym \in 1 .. Len(program.node) /\ {l.from, l.at} \subseteq 1 .. Len(blocks)
  /\ outcome \in {"running", "done", "rejected", "undefined"}

Generating(f) == f.site.block # Null

(* The insertion point is in the current function, also where a function    *)
(* generated in between has been left again: no branch of an if goes to a   *)
(* block of another function.  (context.cpp 75-77, 109-110; value.cpp 205)  *)
BuilderInFunction ==
  outcome = "running" =>
    /\ blocks[block].fn = currFunc
    /\ \A i \in 1 .. Len(stack) :
         Generating(stack[i]) => blocks[stack[i].site.block].fn = stack[i].site.fn

(* Who has still to end block b: the builder, a call, or an if. *)
Owners(b) ==
  (IF b = block THEN {0} ELSE {}) \cup
  {i \in 1 .. Len(stack) : stack[i].site.block = b \/ \E j \in DOMAIN stack[i].next : stack[i].next[j] = b}

(* The instances whose bodies the function fn has. *)
Bodies(fn) == {c \in DOMAIN made : made[c] = fn}

(* A block that is not the first of a function has one body's code in it,   *)
(* the first one the beginning of every body the function has: a second     *)
(* instance of its name and type is generated behind the end of the first,  *)
(* into the same entry block, and the `catk_begin' that create_function     *)
(* makes for it stays empty.  (driver.cpp 5 to 8, context.cpp 75 to 77)     *)
Terminators(b) ==
  LET fn == blocks[b].fn IN
  IF fn = Construct \/ blocks[b].doms # {b} THEN 1
  ELSE IF \E a \in Named(fn) : a < b THEN 0 ELSE Cardinality(Bodies(fn))

(* Every block is ended as often as code is generated into it to an end:    *)
(* one terminator for a block of an if, one for each body for the entry of  *)
(* a function, none for a block nobody goes to.  That is one, as LLVM wants *)
(* it, but for the functions that instances have in common.  Nothing is     *)
(* appended to a block behind its last terminator, and each terminator that *)
(* is missing is waited for in a place of the stack of its own.             *)
TerminatorsCounted ==
  outcome \in {"running", "done"} =>
    \A b \in 1 .. Len(blocks) :
      blocks[b].ends + (IF outcome = "done" THEN 0 ELSE Cardinality(Owners(b))) = Terminators(b)

(* A symbol is loaded only where its storage has been stored to before, on  *)
(* every path (test: the operand of the load has a store).                  *)
StoresReachLoads == \A l \in loads : l.from \in blocks[l.at].doms

Params == UNION {program.inst[c].params : c \in 1 .. Len(program.inst)}

(* The arguments of a call reach every use of the parameters, through all   *)
(* branches and all functions generated in between.                         *)
ArgumentsReachLoads ==
  \A l \in loads : l.sym \in Params => l.from \in blocks[l.at].doms

(* translate_value keeps a reference into symbol_storage_ while it          *)
(* translates the right hand side: nobody erases or fills that entry.       *)
EntriesHeld ==
  \A i \in 1 .. Len(stack) - 1 :
    Op(stack[i]) = "symbol" => stack[i].n \in DOMAIN storage /\ storage[stack[i].n] = Null

(* The struct of a lambda is made once, so that its value is never taken    *)
(* for its address.                                                         *)
StructsMadeOnce == outcome = "running" /\ Op(Top) = "lambda" => Top.n \notin DOMAIN structs

(* Two instances called by one name whose functions have different types, or *)
(* an instance called by the name of the module's constructor.              *)
NamesCollide ==
  LET called == {n \in 1 .. Len(program.node) : program.node[n].op = "call"}
      name(n) == CalleeName([n |-> n])
      type(n) == program.inst[program.node[n].inst].type
  IN  \E n, m \in called :
        name(n) = Construct \/ (name(n) = name(m) /\ type(n) # type(m))

(* The generator follows a null pointer or a wrong cast only where the      *)
(* program takes a block for a value, uses `!', takes the address of an     *)
(* expression, or has two instances of one function: names are all that     *)
(* tells functions apart.  (context.cpp 7, driver.cpp 6)                    *)
UndefinedExplained ==
  outcome = "undefined" =>
    \/ \E n \in 1 .. Len(program.node) : program.node[n].op \in {"block", "not", "addrof"}
    \/ NamesCollide
=============================================================================
