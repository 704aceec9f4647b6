----------------------------- MODULE MCCodeGen -----------------------------
(***************************************************************************)
(* Programs for CodeGen: families of programs, one for every choice of the *)
(* operands, in which symbols are first used in every part of an if, a     *)
(* function calls itself and an instance of itself with another type while *)
(* it is being generated, and every operator and error occurs.             *)
(***************************************************************************)
EXTENDS CodeGen

N(op, kids) == [op |-> op, kids |-> kids, inst |-> 0, name |-> ""]
Param == N("symbol", << >>)
Sym(n) == N("symbol", <<n>>)
Called(name, node) == [node EXCEPT !.name = name]
CallOf(inst, kids) == [N("call", kids) EXCEPT !.inst = inst]
Fn(type, ret, params, captures, locals) ==
  [type |-> type, ret |-> ret, params |-> params,
   captures |-> captures, locals |-> locals]
InitFn(ret, locals) == Fn(0, ret, {}, {}, locals)
Program(nodes, insts) ==
  [node |-> nodes \o <<Called("init", N("lambda", << >>)), CallOf(1, <<Len(nodes) + 1>>)>>, inst |-> insts]

(* a = 1i32; b = a + a; c = if (x) y else z; ret if (c) v else w + u; *)
Straight(x, y, z, v, w, u) == Program(
  <<N("const", << >>), Sym(1), N("bin", <<2, 2>>), Sym(3),
    N("if", <<x, y, z>>), Sym(5), N("bin", <<w, u>>), N("if", <<6, v, 7>>)>>,
  <<InitFn(8, {2, 4, 6})>>)

(* k = 1i32;                                                                *)
(* f = fn(pf, p) [k] { l = p + k; m = pf(pf, 1i64);                         *)
(*                     ret (if (x) y else z) + u; };                        *)
(* s = f(f, k) + f(f, 1i64); ret s;                                         *)
(* The instance for i64 calls itself.  Its nodes begin at 15, those of the  *)
(* instance for i32 at 7.                                                   *)
Body(at, x, y, z, u) ==
  <<Called("pf", Param), Param, N("bin", <<at + 1, 4>>), Sym(at + 2),
    CallOf(3, <<at, 1, at>>), Sym(at + 4),
    N("if", <<at + x, at + y, at + z>>), N("bin", <<at + 6, at + u>>)>>
Instances(x, y, z, u) == Program(
  <<N("const", << >>), Sym(1), Sym(1), Sym(3), N("lambda", <<3>>), Called("f", Sym(5))>>
  \o Body(7, x, y, z, u) \o Body(15, x, y, z, u)
  \o <<CallOf(2, <<6, 2, 6>>), CallOf(3, <<6, 1, 6>>), N("bin", <<23, 24>>), Sym(25)>>,
  <<InitFn(26, {2, 6}),
    Fn(1, 14, {7, 8}, {4}, {10, 12}), Fn(2, 22, {15, 16}, {4}, {18, 20})>>)

(* c = 1i32; f = fn(p) [c] { g = fn(b) [c] { ret b + c; }; ret g(p); };     *)
(* called with one type or with two, from an if.  What lambdas capture is   *)
(* the symbol of the module as it was analysed, not its instance's.         *)
Closure(inst, name) == Program(
  <<N("const", << >>), Sym(1), Sym(2), Sym(3), N("lambda", <<2>>), Called("f", Sym(5)),
    Param, N("lambda", <<3>>), Called("g", Sym(8)), Param, N("bin", <<10, 4>>), CallOf(3, <<7, 9>>),
    Param, N("lambda", <<3>>), Called(name, Sym(14)), Param, N("bin", <<16, 4>>), CallOf(5, <<13, 15>>),
    CallOf(2, <<1, 6>>), CallOf(inst, <<1, 6>>), N("if", <<1, 19, 20>>)>>,
  <<InitFn(21, {6}), Fn(1, 12, {7}, {3}, {9}), Fn(2, 11, {10}, {4}, {}),
    Fn(1, 18, {13}, {3}, {15}), Fn(3, 17, {16}, {4}, {})>>)

(* f = fn(p) { ret +p; }; ret f(1i32) + f(1i64);  Or, with one LLVM type,   *)
(* f(1i8) + f(1ui8): without assertions the literal is a uint8_t.           *)
Overload(type) == Program(
  <<N("const", << >>), N("lambda", << >>), Called("f", Sym(2)), Param, Param,
    N("plus", <<4>>), N("plus", <<5>>), CallOf(2, <<1, 3>>), CallOf(3, <<1, 3>>), N("bin", <<8, 9>>)>>,
  <<InitFn(10, {3}), Fn(1, 6, {4}, {}, {}), Fn(type, 7, {5}, {}, {})>>)

(* f = fn(f, p) { ret f(f, 1ui8); }; ret f(f, 1i8);                         *)
(* The second instance is generated in the middle of the first one's body.  *)
Within == Program(
  <<N("const", << >>), N("lambda", << >>), Called("f", Sym(2)),
    Called("f", Param), Param, CallOf(3, <<4, 1, 4>>), Called("f", Param), Param, CallOf(3, <<7, 1, 7>>),
    CallOf(2, <<3, 1, 3>>)>>,
  <<InitFn(10, {3}), Fn(1, 6, {4, 5}, {}, {}), Fn(1, 9, {7, 8}, {}, {})>>)

(* fn(p) { g = fn(b) [p] { ret b + p; }; ret g(p); }: the captured symbol   *)
(* is the original parameter, which has no right hand side                  *)
CapturedParam == Program(
  <<N("const", << >>), Param, N("lambda", <<2>>), Called("g", Sym(3)), Param, CallOf(3, <<5, 4>>),
    N("lambda", << >>), Called("f", Sym(7)), CallOf(2, <<1, 8>>), Param, Sym(2), N("bin", <<10, 11>>)>>,
  <<InitFn(9, {8}), Fn(1, 6, {5}, {}, {4}), Fn(2, 12, {10}, {11}, {})>>)

(* a = 1i32; ret u(v(x)) for all operators and kinds of operands, and the   *)
(* return of a constant, a symbol (a further copy of it) or a block          *)
Unary(u, v, x) == Program(
  <<N("const", << >>), Sym(1), N("block", << >>), N("string", << >>), N("lambda", << >>),
    N("if", <<2, 1, 2>>), N(v, <<x>>), N(u, <<7>>), N("bin", <<8, 2>>)>>,
  <<InitFn(9, {2})>>)
Result(x) == Program(
  <<N("const", << >>), Sym(1), N("block", << >>), N("plus", <<3>>)>>, <<InitFn(x, {2} \ {x})>>)

Operators == {"plus", "minus", "not", "inv", "addrof", "deref"}
Straights == {Straight(x, y, z, v, w, u) : x, y, z \in {1, 2, 4}, v, w, u \in {2, 4, 6}}
Recursive == {Instances(x, y, z, u) : x, y, z, u \in {1, 3, 5}}
Others == {Closure(2, "g"), Closure(4, "g"), Closure(4, "h"), CapturedParam,
           Overload(1), Overload(2), Within}
          \cup {Unary(u, v, x) : u, v \in Operators, x \in 1 .. 6}
          \cup {Result(x) : x \in 1 .. 4}

MCPrograms == Straights \cup Recursive \cup Others
FirstUse == {Straight(2, 4, 1, 2, 4, 4)}
CapturesErased == {Instances(5, 1, 1, 3)}  \* ret (if (m) p else p) + l
=============================================================================
