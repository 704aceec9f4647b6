-------------------------------- MODULE Dump --------------------------------
(***************************************************************************)
(* Context::dump (src/catk/semantics/context.cpp): the text of a context   *)
(* names its captures and parameters, then defines each symbol that the    *)
(* returned expression depends on, after what that one depends on.  Here   *)
(* the contexts of a program and of the instances Clone makes of its       *)
(* function are dumped, when all instances have been made.                 *)
(***************************************************************************)
EXTENDS Clone

(* Expr::dependencies; a symbol's and a return's is the right hand side. *)
Dependencies(e) ==
  IF e.op = "context" THEN e.captures ELSE e.kids \o CalleeOf(e)

(* k is the last in the list s to have its name. *)
LastNamed(p, k, s) ==
  \E i \in DOMAIN s : /\ s[i] = k
                      /\ \A j \in DOMAIN s : i < j => p.node[s[j]].name # p.node[k].name

(* What is in which context (Scope!owner): the definitions of a capture, in *)
(* the context around that of the capture; all other parts of a statement,  *)
(* in its own.  A symbol without right hand side is a parameter.  What is   *)
(* in a context is in one of its lists, the locals in the order of their    *)
(* definitions.  An assignment to a name that there is is skipped, so a     *)
(* local has its name to itself.  A name means the last parameter that has  *)
(* it, or, if none has, the last capture.                                   *)
WellScoped(p) ==
  \A n \in 1 .. Len(p.node) :
    LET e == p.node[n]
        within == IF e.op = "context" THEN n ELSE e.in
        capturing == {c \in 1 .. Len(p.node) : n \in Elements(p.node[c].captures)}
    IN
    /\ e.in \in {None} \cup 1 .. Len(p.node)
    /\ \A k \in Elements(e.params \o e.locals \o e.kids \o CalleeOf(e)) :
         capturing = {} => p.node[k].in = within
    /\ \A c \in capturing :
         /\ p.node[c].op = "context" /\ e.in = c /\ e.kids # << >>
         /\ \A k \in Elements(Dependencies(e)) : p.node[k].in = p.node[c].in
    /\ e.op = "symbol" /\ e.kids = << >> =>
         e.in # None /\ n \in Elements(p.node[e.in].params)
    /\ e.op = "symbol" /\ e.in # None =>
         LET c == p.node[e.in] IN n \in Elements(c.params \o c.captures \o c.locals)
    /\ e.op = "context" =>
         /\ \A k \in Elements(e.params) : p.node[k].kids = << >>
         /\ \A k \in Elements(e.locals), l \in Elements(e.params \o e.captures) :
              p.node[k].name # p.node[l].name
         /\ \A i, j \in DOMAIN e.locals : i < j =>
              e.locals[i] < e.locals[j] /\ p.node[e.locals[i]].name # p.node[e.locals[j]].name
    /\ e.op = "apply" /\ e.in # None =>
         \A k \in Elements(Parts(e)) : p.node[k].op = "symbol" =>
           LET c == p.node[e.in] IN
           /\ k \in Elements(c.params) => LastNamed(p, k, c.params)
           /\ k \in Elements(c.captures) =>
                /\ LastNamed(p, k, c.captures)
                /\ \A q \in Elements(c.params) : p.node[q].name # p.node[k].name

(* from_ast makes an expression for the place where it is written; only a   *)
(* symbol can be used in many places, and is declared in one.               *)
PlacedOnce(p) ==
  \A n, m \in 1 .. Len(p.node) :
    \A i \in DOMAIN Parts(p.node[n]), j \in DOMAIN Parts(p.node[m]) :
      LET k == Parts(p.node[n])[i] IN
      /\ k = Parts(p.node[m])[j]
      /\ p.node[k].op = "symbol" => p.node[n].op = "context" /\ p.node[m].op = "context"
      => n = m /\ i = j

ASSUME ScopesAssumption == \A p \in Programs : WellScoped(p) /\ PlacedOnce(p)

VARIABLES subject,  \* the context that is being dumped, or None
          walk,     \* the activations of dump_deps, innermost last
          dumped,   \* the set of that name
          lines,    \* the lines printed so far
          texts     \* history: the lines of the contexts already dumped

dumpVars == <<subject, walk, dumped, lines, texts>>
allVars == <<program, heap, accessible, stack, instances, outcome, subject, walk, dumped, lines, texts>>
-----------------------------------------------------------------------------
(* The names in the text of an expression: of an apply, its callee and what *)
(* its operands mention; of a context inside, its captures, since what      *)
(* stands between its braces is its own affair.                             *)
Says(e) ==
  IF e.op = "symbol" THEN {e.name}
  ELSE Elements(NamesOf(IF e.op = "context" THEN e.captures ELSE CalleeOf(e)))
Operands(e) == IF e.op \in {"symbol", "context"} THEN << >> ELSE e.kids
Mentions[o \in Objects] ==
  Says(heap[o]) \cup UNION {Mentions[k] : k \in Elements(Operands(heap[o]))}

(* A line `name = right hand side;', or the last one, `ret expression;'. *)
Line(o) == [sym |-> o, name |-> heap[o].name,
            uses |-> UNION {Mentions[k] : k \in Elements(heap[o].kids)}]

DumpInit ==
  /\ Init
  /\ subject = None /\ walk = << >> /\ dumped = {} /\ lines = << >> /\ texts = << >>

Cloned == stack = << >> /\ (outcome = "thrown" \/ Len(instances) = MaxInstances)
Contexts == {o \in Originals \cup Complete : heap[o].op = "context" /\ heap[o].kids # << >>}

Visit(e) == [expr |-> e, next |-> 1]
Walker == walk[Len(walk)]
Callers == SubSeq(walk, 1, Len(walk) - 1)
Deps == Dependencies(heap[Walker.expr])
Advanced == Append(Callers, [Walker EXCEPT !.next = @ + 1])

(* The captures and parameters are printed and count as dumped. *)
BeginDump ==
  /\ Cloned /\ subject = None
  /\ \E c \in Contexts \ DOMAIN texts :
       /\ \A d \in Contexts \ DOMAIN texts : c <= d
       /\ subject' = c
       /\ dumped' = Elements(heap[c].captures \o heap[c].params)
       /\ walk' = <<Visit(heap[c].kids[1])>>
  /\ lines' = << >>
  /\ UNCHANGED <<vars, texts>>

NothingToDump(d) == d \in dumped \/ Dependencies(heap[d]) = << >>

(* dump_deps(dep, ...) *)
Dependency ==
  /\ walk # << >> /\ Walker.next <= Len(Deps)
  /\ LET d == Deps[Walker.next] IN
       walk' = IF NothingToDump(d) THEN Advanced ELSE Append(Advanced, Visit(d))
  /\ UNCHANGED <<vars, subject, dumped, lines, texts>>

(* A wrong order: the symbol is printed before its last dependency. *)
PrintLineEarly ==
  /\ walk # << >> /\ Walker.next >= Len(Deps)
  /\ walk' = IF Walker.next > Len(Deps) \/ NothingToDump(Deps[Walker.next]) THEN Callers
             ELSE Append(Callers, Visit(Deps[Walker.next]))
  /\ IF heap[Walker.expr].op = "symbol"
     THEN lines' = Append(lines, Line(Walker.expr)) /\ dumped' = dumped \cup {Walker.expr}
     ELSE UNCHANGED <<lines, dumped>>
  /\ UNCHANGED <<vars, subject, texts>>

(* A symbol is printed when all it depends on has been. *)
PrintLine ==
  /\ walk # << >> /\ Walker.next > Len(Deps)
  /\ walk' = Callers
  /\ IF heap[Walker.expr].op = "symbol"
     THEN lines' = Append(lines, Line(Walker.expr)) /\ dumped' = dumped \cup {Walker.expr}
     ELSE UNCHANGED <<lines, dumped>>
  /\ UNCHANGED <<vars, subject, texts>>

(* `ret_expr_->dump(fmout)' and the closing brace. *)
EndDump ==
  /\ subject # None /\ walk = << >>
  /\ texts' = [c \in DOMAIN texts \cup {subject} |->
                 IF c = subject THEN Append(lines, Line(heap[subject].kids[1])) ELSE texts[c]]
  /\ subject' = None
  /\ UNCHANGED <<vars, walk, dumped, lines>>

DumpStep == BeginDump \/ Dependency \/ PrintLine \/ EndDump
Done == Cloned /\ Contexts \subseteq DOMAIN texts /\ UNCHANGED allVars

DumpNext == (Step /\ UNCHANGED dumpVars) \/ DumpStep \/ Done
DumpSpec == DumpInit /\ [][DumpNext]_allVars
-----------------------------------------------------------------------------
DumpTypeOK ==
  /\ CloneTypeOK
  /\ subject \in {None} \cup Contexts /\ dumped \subseteq Objects
  /\ walk \in Seq([expr: Objects, next: Nat \ {0}])
  /\ \A c \in DOMAIN texts : c \in Contexts
  /\ \A text \in {lines} \cup {texts[c] : c \in DOMAIN texts} : \A i \in DOMAIN text :
       text[i].sym \in Objects /\ text[i].uses \subseteq Names

(* The captures whose definitions were copied into the context c, because   *)
(* what it is a copy of returns or renames them.                            *)
CapturesCopied(c) == {o \in Copies : heap[o].in = c /\ heap[o].of \in Captures}

(* A text can be read from top to bottom: every name a line mentions is a   *)
(* capture, a parameter or the name of a line above it.  That is so of      *)
(* every context that was analysed, and of every copy but those that copied *)
(* a capture along with its definition, which names what is outside.  No    *)
(* symbol has two lines in any text, however many ways lead to it.          *)
(* (context.cpp 89-104)                                                     *)
NamedBeforeUse ==
  \A c \in DOMAIN texts :
    LET text == texts[c]
        given == Elements(NamesOf(heap[c].captures \o heap[c].params))
    IN  \A i \in DOMAIN text :
          /\ c \in Originals \/ CapturesCopied(c) = {} =>
               text[i].uses \subseteq given \cup {text[j].name : j \in 1 .. i - 1}
          /\ \A j \in 1 .. i - 1 : text[j].sym # text[i].sym

(* A context inside the function has captures, which lead an instance's     *)
(* dump to symbols of the function itself.                                  *)
Closed == \A n \in Body \ {program.fn} : program.node[n].captures = << >>

(* The text of an instance is the text of the function. *)
CopyPrintsTheSame ==
  Plain /\ Closed =>
    \A i \in Elements(instances) : {i, program.fn} \subseteq DOMAIN texts =>
      LET was == texts[program.fn]
          now == texts[i]
      IN  /\ Len(was) = Len(now)
          /\ \A j \in DOMAIN was : was[j].name = now[j].name /\ was[j].uses = now[j].uses
=============================================================================
