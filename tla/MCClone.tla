------------------------------ MODULE MCClone ------------------------------
(***************************************************************************)
(* Functions for Clone and Dump: with a capture, a parameter of another    *)
(* name or of the same, a local that is every kind of expression, and a    *)
(* return of every kind; inside it a block that captures and a lambda.     *)
(***************************************************************************)
EXTENDS Dump

E(op, in, kids) == [op |-> op, name |-> "", kids |-> kids, callee |-> None, params |-> << >>,
                    captures |-> << >>, locals |-> << >>, immediate |-> FALSE, in |-> in, of |-> 0]
Sym(name, in, kids) == [E("symbol", in, kids) EXCEPT !.name = name]
Call(f, in, kids) == [E("apply", in, kids) EXCEPT !.callee = f]
Ctx(in, params, captures, locals, ret) ==
  [E("context", in, <<ret>>) EXCEPT !.params = params, !.captures = captures, !.locals = locals]
Block(in, captures, ret) == [Ctx(in, << >>, captures, << >>, ret) EXCEPT !.immediate = TRUE]
Program(nodes, fn) == [node |-> [n \in DOMAIN nodes |-> [nodes[n] EXCEPT !.of = n]], fn |-> fn]

(* a = 1i32; b = a + a;                                                     *)
(* F = fn(par) [cap] { l = local; m = l + par; ret result; };  with among the *)
(* choices (par + par) + cap, [x] { ret x + x } and fn(q) { ret q + q }     *)
(* The name of the capture means the parameter, if that has it too.         *)
F == 26
Function(cap, par, captured, defined, returned) ==
 LET means == IF cap = par THEN 6 ELSE 5
     x == IF captured = 5 THEN means ELSE captured
     local == IF defined = 5 THEN means ELSE defined
     result == IF returned = 5 THEN means ELSE returned
 IN Program(
  <<E("const", 0, << >>), Sym("a", 0, <<1>>), E("apply", 0, <<2, 2>>), Sym("b", 0, <<3>>),
    Sym(cap, F, <<IF cap = "a" THEN 2 ELSE 4>>), Sym(par, F, << >>),            \* 5 cap 6 par
    E("const", F, << >>), E("apply", F, <<6, 6>>),
    E("apply", F, <<8, means>>), E("apply", F, <<6, means>>),
    Sym(IF x = 5 THEN cap ELSE par, 14, <<x>>), E("apply", 14, <<11, 11>>), E("ret", 14, <<12>>),
    Block(F, <<11>>, 13),                                                       \* 14 [x]{..}
    Sym("q", 18, << >>), E("apply", 18, <<15, 15>>), E("ret", 18, <<16>>),
    Ctx(F, <<15>>, << >>, << >>, 17),                                           \* 18 fn(q){..}
    Sym("l", F, <<local>>), Call(19, F, <<6>>), E("apply", F, <<19, 6>>),
    Sym("m", F, <<21>>), E("apply", F, <<22, 19>>), E("const", F, << >>),       \* 22 m
    E("ret", F, <<result>>), Ctx(0, <<6>>, <<5>>, <<19, 22>>, 25)>>,
  F)

(* fn(a) { m = a; b = fn(q) [m] { ret m; }; ret a; }; where b's instances     *)
(* define m with the a of the function around it.                           *)
Outer == Program(
  <<Sym("a", 9, << >>), Sym("m", 9, <<1>>), Sym("m", 6, <<2>>), Sym("q", 6, << >>),
    E("ret", 6, <<3>>), Ctx(9, <<4>>, <<3>>, << >>, 5), Sym("b", 9, <<6>>),
    E("ret", 9, <<1>>), Ctx(0, <<1>>, << >>, <<2, 7>>, 8)>>,
  6)

(* b = 1i32; fn(a, a) [b, b] { ret a + b; }; *)
Twice == Program(
  <<E("const", 0, << >>), Sym("b", 0, <<1>>), Sym("b", 9, <<2>>), Sym("b", 9, <<2>>),
    Sym("a", 9, << >>), Sym("a", 9, << >>), E("apply", 9, <<6, 4>>), E("ret", 9, <<7>>),
    Ctx(0, <<5, 6>>, <<3, 4>>, << >>, 8)>>,
  9)

MCPrograms == {Outer, Twice} \cup
              {Function(cap, par, x, local, result) :
                 cap \in {"a", "b"}, par \in {"a", "b", "q"}, x \in {5, 6},
                 local \in {5, 6, 7, 9, 10, 14, 18}, result \in {5, 6, 19, 20, 23, 24}}
MCNames == {"a", "b", "l", "m", "q"}

(* F = fn(a) [b] { l = 1i32; m = l + a; ret a; }; *)
Identity == {Function("b", "a", 5, 7, 6)}
=============================================================================
