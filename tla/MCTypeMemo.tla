----------------------------- MODULE MCTypeMemo -----------------------------
(***************************************************************************)
(* Programs for TypeMemo: recursion through a parameter, as in fib.car,    *)
(* nested and mutual recursion, blocks and captures inside functions,      *)
(* functions of functions, pointers, and the errors type inference knows.  *)
(***************************************************************************)
EXTENDS TypeReference

I32 == 6  \* CATK_INT32
I64 == 8  \* CATK_INT64

N(op, kids) == [op |-> op, kids |-> kids, prim |-> 0, params |-> << >>, body |-> {}, id |-> 0]
Const(p) == [N("const", << >>) EXCEPT !.prim = p]
Param == N("param", << >>)
Sym(n) == N("symbol", <<n>>)
Ret(n) == N("ret", <<n>>)
If(c, t, e) == N("if", <<c, t, e>>)
Call(f, opnds) == N("call", Append(opnds, f))
Fn(line, params, body, ret) ==
  [N("lambda", <<ret>>) EXCEPT !.id = line, !.params = params, !.body = body]
Program(nodes, captures, top) == [node |-> nodes, captures |-> captures, top |-> top]

(* f = fn(pf, i) { ret if (i < 2i32) i else pf(pf, i - 1i32) + i; };       *)
(* y = f(f, x);  the recursive case first or last, and with 1i32 for i      *)
Loop(prim, base, swapped) == Program(
  <<Param, Param, Const(I32), N("compare", <<2, 3>>),       \* 1 pf 2 i 3 2i32 4
    Const(I32), N("bin", <<2, 5>>), Call(1, <<1, 6>>),      \* 5 1i32  6 i-1  7 pf(pf,i-1)
    N("bin", <<7, 2>>), Const(I32),                         \* 8 7+i   9 1i32
    IF swapped THEN If(4, 8, base) ELSE If(4, base, 8),     \* 10 if
    Ret(10), Fn(1, <<1, 2>>, 1 .. 11, 11), Sym(12),         \* 12 lambda 13 f
    Const(prim), Sym(14), Call(13, <<13, 15>>), Sym(16)>>,  \* 15 x 16 f(f,x) 17 y
  {}, 12 .. 17)
Index == 2
One == 9

(* ack = fn(pf, i) { ret if (i) 1i32 else pf(pf, pf(pf, i)); }; *)
Ackermann == Program(
  <<Param, Param, Const(I32), Call(1, <<1, 2>>), Call(1, <<1, 4>>), If(2, 3, 5), Ret(6),
    Fn(1, <<1, 2>>, 1 .. 7, 7), Sym(8), Const(I64), Call(9, <<9, 10>>), Sym(11)>>,
  {}, 9 .. 12)

(* even = fn(e, o, i) { ret if (i) i else o(e, o, i); }; odd the other way *)
Mutual == Program(
  <<Param, Param, Param, Call(2, <<1, 2, 3>>), If(3, 3, 4), Ret(5), Fn(1, <<1, 2, 3>>, 1 .. 6, 6),
    Param, Param, Param, Call(8, <<8, 9, 10>>), If(10, 10, 11), Ret(12),
    Fn(2, <<8, 9, 10>>, 8 .. 13, 13),
    Sym(7), Sym(14), Const(I64), Call(15, <<15, 16, 17>>), Sym(18)>>,
  {}, 15 .. 19)

(* c = 1i32; f = fn(a) [c] { b = { ret a + a; };  ret b + c; };            *)
(* f(1i64) and f(1i32)                                                      *)
Closure == Program(
  <<Const(I32), Sym(1), Sym(2), Param,                             \* 2 c 3 capture c 4 a
    N("bin", <<4, 4>>), N("unary", <<5>>), Sym(6), N("bin", <<7, 3>>), Ret(8),
    Fn(2, <<4>>, 4 .. 9, 9), Sym(10),
    Const(I64), Call(11, <<12>>), Call(11, <<2>>), N("compare", <<13, 14>>), Sym(15)>>,
  {3}, {2, 11, 12, 13, 14, 15, 16})

(* f = fn(a) { g = fn(b) [a] { ret a + b; };  ret if (a) g(a) else a + a; } *)
(* and a block that captures: the captures of a copy are the original's.    *)
Nested == Program(
  <<Param, Sym(1), Param, N("bin", <<2, 3>>), Ret(4),              \* 1 a 2 capture 3 b
    Fn(2, <<3>>, 3 .. 5, 5), Sym(6), Call(7, <<1>>),
    Sym(1), N("unary", <<9>>), Ret(10), N("block", <<11>>),        \* 9 capture of the block
    N("bin", <<1, 1>>), If(1, 8, 13), If(1, 12, 14), Ret(15),
    Fn(1, <<1>>, (1 .. 16) \ {2, 9}, 16), Sym(17), Const(I64), Call(18, <<19>>)>>,
  {2, 9}, {18, 19, 20})

(* apply = fn(h, a) { ret *h(&a); };  id = fn(p) { ret +p; }; *)
Pointers == Program(
  <<Param, Param, N("addrof", <<2>>), Call(1, <<3>>), N("deref", <<4>>), Ret(5),
    Fn(1, <<1, 2>>, 1 .. 6, 6), Param, N("unary", <<8>>), Ret(9), Fn(2, <<8>>, 8 .. 10, 10),
    Sym(7), Sym(11), Const(I32), Call(12, <<13, 14>>), N("addrof", <<15>>)>>,
  {}, 12 .. 16)

(* f = fn(a) { ret a; }; g = fn(a) { b = a; ret b + a; };                   *)
(* k = fn(a) { h = fn(c) { ret c + c; };  ret h; };  f(1i32), g(1i32), k(1i32)(1i64) *)
Renamed == Program(
  <<Param, Ret(1), Fn(1, <<1>>, 1 .. 2, 2),
    Param, Sym(4), N("bin", <<5, 4>>), Ret(6), Fn(2, <<4>>, 4 .. 7, 7),
    Param, Param, N("bin", <<10, 10>>), Ret(11), Fn(4, <<10>>, 10 .. 12, 12), Sym(13),
    Ret(14), Fn(3, <<9>>, 9 .. 15, 15),
    Sym(3), Sym(8), Sym(16), Const(I32), Const(I64),
    Call(17, <<20>>), Call(18, <<20>>), Call(19, <<20>>), Sym(24), Call(25, <<21>>)>>,
  {}, 17 .. 26)

(* One of each error, in a module with a function; and an if whose clause    *)
(* is the one that cannot be typed.                                         *)
Errors == Program(
  <<Param, N("bin", <<1, 1>>), Ret(2), Fn(1, <<1>>, 1 .. 3, 3), Sym(4),
    Const(I32), Sym(6), Const(I64), Sym(8), If(7, 7, 9), Sym(10), Call(5, <<11>>),
    N("deref", <<7>>), Call(7, <<7>>), Call(5, <<7, 9>>), N("bin", <<5, 7>>),
    Call(5, <<5>>), Call(5, <<7>>), If(7, 11, 9)>>,
  {}, 5 .. 19)

WellTyped == {Loop(I64, Index, FALSE), Loop(I32, One, TRUE), Ackermann, Mutual, Closure,
              Nested, Pointers, Renamed}
(* The recursive case of this one has the type of i, the other one's. *)
Mismatch == {Loop(I64, One, FALSE)}

(* c = fn(a) { ret a + 1i32; }; d = fn(a) { ret a + 1i64; }; on one line,   *)
(* or on the same lines of two modules                                      *)
OneLine == {Program(
  <<Param, Const(I32), N("bin", <<1, 2>>), Ret(3), Fn(1, <<1>>, 1 .. 4, 4),
    Param, Const(I64), N("bin", <<6, 7>>), Ret(8), Fn(1, <<6>>, 6 .. 9, 9),
    Sym(5), Sym(10), Const(I32), Call(11, <<13>>), Call(12, <<13>>)>>,
  {}, 11 .. 15)}

MCPrograms == WellTyped \cup {Errors} \cup OneLine
=============================================================================
