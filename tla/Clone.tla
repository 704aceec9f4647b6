------------------------------- MODULE Clone -------------------------------
(***************************************************************************)
(* How an instance of a function is made: Context::deep_clone and the      *)
(* deep_clone of all it consists of (src/catk/semantics), as called by     *)
(* get_typed_context (src/catk/type.cpp).  Parameters and locals are       *)
(* copied, captures are shared, and the operands and callees of a copy are *)
(* found again by their names, in a table that is filled on the way.       *)
(*                                                                         *)
(* The C++ stack is explicit.  Objects are never freed: an object is a     *)
(* position in `heap', and copies are appended.                            *)
(***************************************************************************)
EXTENDS Integers, Sequences, FiniteSets

CONSTANTS Names, Programs,
          MaxInstances  \* bound: instances made of a program's function

(* An expression.  A constant has no kids; those of an `apply' (a           *)
(* FunctionalExpr) are its operands, and `callee' is the symbol it calls,   *)
(* or None; a symbol's and a return's is the right hand side, a context's   *)
(* its return.  History: `in' is the context whose statements the object is *)
(* part of (Scope!owner), `of' what it was copied from.                     *)
None == 0
Expr == [op: {"const", "symbol", "apply", "ret", "context"}, name: Names \cup {""},
         kids: Seq(Nat), callee: Nat, params: Seq(Nat), captures: Seq(Nat),
         locals: Seq(Nat), immediate: BOOLEAN, in: Nat, of: Nat]

Elements(s) == {s[i] : i \in 1 .. Len(s)}
CalleeOf(e) == IF e.callee = None THEN << >> ELSE <<e.callee>>

(* The program as it was analysed, and the function that is instantiated.   *)
(* No loops (Scope!DependenciesWellFounded), and an expression names        *)
(* symbols of its own context only (Scope!LexicalVisibility).               *)
ProgramOK(p) ==
  /\ p.node \in Seq(Expr)
  /\ p.fn \in 1 .. Len(p.node) /\ p.node[p.fn].op = "context" /\ ~p.node[p.fn].immediate
  /\ \A n \in 1 .. Len(p.node) :
       LET e == p.node[n]
           symbols == Elements(e.params \o e.captures \o e.locals \o CalleeOf(e))
       IN
       /\ e.of = n
       /\ symbols \cup Elements(e.kids) \subseteq 1 .. n - 1
       /\ \A s \in symbols : p.node[s].op = "symbol"
       /\ e.callee # None => e.op = "apply"
       /\ e.op = "const" => e.kids = << >>
       /\ e.op = "symbol" => e.name \in Names /\ Len(e.kids) <= 1
       /\ e.op \in {"ret", "context"} => Len(e.kids) = 1
       /\ e.op = "context" => p.node[e.kids[1]].op = "ret"
       /\ e.op = "apply" =>
            \A k \in Elements(CalleeOf(e) \o e.kids) :
              p.node[k].op = "symbol" => p.node[k].in = e.in

ASSUME ProgramsAssumption == MaxInstances \in Nat /\ \A p \in Programs : ProgramOK(p)

VARIABLES program,
          heap,       \* all objects: the program's, and the copies
          accessible, \* accessible_ of each copied context: names to symbols
          stack,      \* the activations of deep_clone, innermost last
          instances,  \* the copies get_typed_context has made
          outcome

vars == <<program, heap, accessible, stack, instances, outcome>>
-----------------------------------------------------------------------------
Init ==
  /\ program \in Programs
  /\ heap = program.node
  /\ accessible = << >>
  /\ stack = << >> /\ instances = << >>
  /\ outcome = "running"

(* An activation copies `src' into `obj', looking names up in the table of  *)
(* the context copy `st'; `done' are the parts it has.                      *)
Activation(src, obj, st) ==
  [src |-> src, obj |-> obj, st |-> st, done |-> << >>, shared |-> FALSE]

Top == stack[Len(stack)]
Rest == SubSeq(stack, 1, Len(stack) - 1)
Update(f) == Append(Rest, f)
Source(f) == heap[f.src]
NewObj == Len(heap) + 1
Running == outcome = "running"
Busy == Running /\ stack # << >>

(* What deep_clone of an expression goes through, in order. *)
Parts(e) == IF e.op = "context" THEN e.params \o e.locals \o e.kids
            ELSE CalleeOf(e) \o e.kids
Wants(f) == Len(f.done) < Len(Parts(Source(f)))
Wanted(f) == Parts(Source(f))[Len(f.done) + 1]

(* A wrong test: only callees are looked up. *)
ByNameCallees(f) == Source(f).op = "apply" /\ Source(f).callee # None /\ f.done = << >>

(* Operands and callees with a name are not copied but looked up. *)
ByName(f) == Source(f).op = "apply" /\ heap[Wanted(f)].op = "symbol"

(* A wrong order: the locals are copied before the captures are entered. *)
CapturesLast(f) ==
  /\ Source(f).op = "context" /\ ~f.shared
  /\ Len(f.done) = Len(Source(f).params \o Source(f).locals)

(* The captures come after the parameters. *)
CapturesDue(f) ==
  /\ Source(f).op = "context" /\ ~f.shared
  /\ Len(f.done) = Len(Source(f).params)

NoNames == [n \in Names |-> None]
Blank(src, st) ==
  [heap[src] EXCEPT !.kids = << >>, !.callee = None, !.params = << >>,
                    !.captures = << >>, !.locals = << >>, !.in = st]

(* DB::alloc and the beginning of deep_clone; a context has a table of its  *)
(* own and leaves the caller's alone.                                       *)
Begin(below, src, st) ==
  LET own == IF heap[src].op = "context" THEN NewObj ELSE st IN
  /\ heap' = Append(heap, Blank(src, st))
  /\ stack' = Append(below, Activation(src, NewObj, own))
  /\ accessible' = IF heap[src].op = "context"
                   THEN [c \in DOMAIN accessible \cup {NewObj} |->
                           IF c = NewObj THEN NoNames ELSE accessible[c]]
                   ELSE accessible

(* get_typed_context for operand types it has not met. *)
Instantiate ==
  /\ Running /\ stack = << >> /\ Len(instances) < MaxInstances
  /\ Begin(<< >>, program.fn, None)
  /\ UNCHANGED <<program, instances, outcome>>

(* The next part is copied. *)
Descend ==
  /\ Busy /\ Wants(Top) /\ ~CapturesDue(Top) /\ ~ByName(Top)
  /\ Begin(stack, Wanted(Top), Top.st)
  /\ UNCHANGED <<program, instances, outcome>>

(* A wrong lookup, which falls back on the symbol itself. *)
LookupOrKeep(f) ==
  LET found == accessible[f.st][heap[Wanted(f)].name] IN IF found = None THEN Wanted(f) ELSE found

(* st.at(name) *)
Lookup(f) == accessible[f.st][heap[Wanted(f)].name]

Resolve ==
  /\ Busy /\ Wants(Top) /\ ByName(Top) /\ Lookup(Top) # None
  /\ stack' = Update([Top EXCEPT !.done = Append(@, Lookup(Top))])
  /\ UNCHANGED <<program, heap, accessible, instances, outcome>>

(* std::out_of_range, which nobody catches; what was copied stays. *)
Unresolved ==
  /\ Busy /\ Wants(Top) /\ ByName(Top) /\ Lookup(Top) = None
  /\ stack' = << >> /\ outcome' = "thrown"
  /\ UNCHANGED <<program, heap, accessible, instances>>

(* `ctx->accessible_[c->get_name()] = c', which replaces a parameter's. *)
Enter(table, names, objs) ==
  [n \in Names |->
     LET at == {i \in DOMAIN objs : names[i] = n} IN
     IF at = {} THEN table[n] ELSE objs[CHOOSE i \in at : \A j \in at : j <= i]]
NamesOf(objs) == [i \in DOMAIN objs |-> heap[objs[i]].name]

ShareCaptures ==
  /\ Busy /\ CapturesDue(Top)
  /\ LET captures == Source(Top).captures IN
       accessible' = [accessible EXCEPT ![Top.obj] = Enter(@, NamesOf(captures), captures)]
  /\ stack' = Update([Top EXCEPT !.shared = TRUE])
  /\ UNCHANGED <<program, heap, instances, outcome>>
-----------------------------------------------------------------------------
(* The finished copy, once it has all its parts. *)
Filled(f) ==
  LET e == Source(f)
      p == Len(e.params)
      l == Len(e.locals)
      c == Len(CalleeOf(e))
  IN  IF e.op = "context"
      THEN [heap[f.obj] EXCEPT !.params = SubSeq(f.done, 1, p),
                               !.captures = e.captures,
                               !.locals = SubSeq(f.done, p + 1, p + l),
                               !.kids = SubSeq(f.done, p + l + 1, p + l + 1),
                               !.immediate = e.immediate \/ Rest = << >>]
      ELSE [heap[f.obj] EXCEPT !.callee = IF c = 0 THEN None ELSE f.done[1],
                               !.kids = SubSeq(f.done, c + 1, Len(f.done))]

(* A parameter or local of the context f copies gets its entry. *)
Declare(f, obj) ==
  IF Source(f).op = "context" /\ Wanted(f) \notin Elements(Source(f).kids)
  THEN [accessible EXCEPT ![f.obj] = Enter(@, <<heap[obj].name>>, <<obj>>)]
  ELSE accessible

(* A wrong ending, which fills in the source's lists as well. *)
FinishFillsSource ==
  /\ Busy /\ ~Wants(Top) /\ ~CapturesDue(Top)
  /\ heap' = [heap EXCEPT ![Top.obj] = Filled(Top), ![Top.src] = Filled(Top)]
  /\ IF Rest = << >>
     THEN /\ stack' = << >> /\ instances' = Append(instances, Top.obj)
          /\ UNCHANGED accessible
     ELSE /\ stack' = [Rest EXCEPT ![Len(Rest)].done = Append(@, Top.obj)]
          /\ accessible' = Declare(Rest[Len(Rest)], Top.obj)
          /\ UNCHANGED instances
  /\ UNCHANGED <<program, outcome>>

(* deep_clone returns; get_typed_context makes its copy immediate. *)
Finish ==
  /\ Busy /\ ~Wants(Top) /\ ~CapturesDue(Top)
  /\ heap' = [heap EXCEPT ![Top.obj] = Filled(Top)]
  /\ IF Rest = << >>
     THEN /\ stack' = << >> /\ instances' = Append(instances, Top.obj)
          /\ UNCHANGED accessible
     ELSE /\ stack' = [Rest EXCEPT ![Len(Rest)].done = Append(@, Top.obj)]
          /\ accessible' = Declare(Rest[Len(Rest)], Top.obj)
          /\ UNCHANGED instances
  /\ UNCHANGED <<program, outcome>>

Step == Instantiate \/ Descend \/ Resolve \/ Unresolved \/ ShareCaptures \/ Finish
-----------------------------------------------------------------------------
Objects == 1 .. Len(heap)
Originals == 1 .. Len(program.node)
Copies == Objects \ Originals
Stacked == {stack[i].obj : i \in 1 .. Len(stack)}
Complete == Copies \ Stacked

(* Every symbol that a copy shares with what it was copied from. *)
Captures == UNION {Elements(program.node[n].captures) : n \in Originals}

CloneTypeOK ==
  /\ SubSeq(heap, 1, Len(program.node)) = program.node
  /\ \A o \in Copies : heap[o] \in Expr
  /\ \A c \in DOMAIN accessible : c \in Copies /\ accessible[c] \in [Names -> 0 .. Len(heap)]
  /\ stack \in Seq([src: Originals, obj: Copies, st: DOMAIN accessible,
                    done: Seq(Objects), shared: BOOLEAN])
  /\ instances \in Seq(Copies)
  /\ outcome \in {"running", "thrown"}

Links(o) == Elements(CalleeOf(heap[o]) \o heap[o].kids \o heap[o].params \o heap[o].locals)

(* The instances that were begun before object o was made. *)
Begun(o) == {r \in Copies : heap[r].in = None /\ r <= o}

(* An instance holds nothing of the function it was made of, nor of another *)
(* instance, except captures: a type remembered for an object of one        *)
(* instance is no other's.  (type.cpp 140-148, expr_type)                   *)
InstancesAreSeparate ==
  \A o \in Complete : \A k \in Links(o) :
    k \in Captures \/ (k \in Copies /\ Begun(k) = Begun(o))

(* All that deep_clone reaches from n of the source. *)
Tree[n \in Originals] ==
  LET e == program.node[n] IN
  {n} \cup UNION {Tree[k] : k \in {x \in Elements(Parts(e)) :
                                     e.op # "apply" \/ program.node[x].op # "symbol"}}
Body == Tree[program.fn]

(* A symbol that is all of a right hand side or of what is returned: it is  *)
(* not an operand, and Symbol::deep_clone makes one more copy of it.        *)
References ==
  {k \in Originals : \E n \in Body \ Captures :
     /\ program.node[n].op \in {"symbol", "ret"} /\ program.node[k].op = "symbol"
     /\ k \in Elements(program.node[n].kids)}

Plain == References = {}

(* A parameter with the name of a capture: from_ast enters the captures     *)
(* first, deep_clone the parameters.                                        *)
HiddenBy(s, k) ==
  {c \in Elements(heap[k].captures) : s \in Elements(heap[heap[k].of].params)
                                      /\ heap[c].name = heap[s].name}

(* What an operand or callee s of the source is in the copy k of its context. *)
Image(s, k) ==
  IF s \in Captures THEN {s}
  ELSE IF HiddenBy(s, k) # {} THEN HiddenBy(s, k)
  ELSE {o \in Copies :
          /\ heap[o].of = s /\ heap[o].in = k
          /\ heap[o].op = "symbol" => o \in Elements(heap[k].params \o heap[k].locals)}

(* An instance is the function over again.  It has one copy of each         *)
(* expression, which is what type inference takes it for (TypeMemo!Objects), *)
(* and in it every operand and callee is what it was: the copy of that very *)
(* parameter, local or expression in the same copy of the context, or that  *)
(* capture; but a parameter that has a capture's name has become the        *)
(* capture.  (context.cpp 172-182)                                          *)
MeaningKept ==
  Plain =>
    /\ outcome = "running"
    /\ stack = << >> =>
         \A n \in Originals :
           Cardinality({o \in Copies : heap[o].of = n}) =
             IF n \in Body THEN Len(instances) ELSE 0
    /\ \A o \in Complete :
         heap[o].op # "context" /\ heap[o].in \in Complete =>
           LET e == program.node[heap[o].of]
               now == CalleeOf(heap[o]) \o heap[o].kids
               was == CalleeOf(e) \o e.kids
           IN  /\ Len(now) = Len(was)
               /\ \A i \in DOMAIN was : now[i] \in Image(was[i], heap[o].in)

(* A name is missing only where a capture is returned or renamed instead of *)
(* used as an operand: its definition is copied to where it has not its     *)
(* names.  No other program makes st.at throw (functional_expr.cpp 117).    *)
ThrowsBehindCaptures == outcome = "thrown" => References \cap Captures # {}

(* What an instance calls by the name of its parameter is the parameter,    *)
(* to which the argument's type and value are given (functional_expr.cpp,   *)
(* `get from symbol table').                                                *)
ParametersReached ==
  \A i \in Elements(instances), o \in Complete :
    heap[o].in = i =>
      \A k \in Elements(CalleeOf(heap[o]) \o heap[o].kids), p \in Elements(heap[i].params) :
        heap[k].name = heap[p].name => k \in Elements(heap[i].params)
=============================================================================
