------------------------------ MODULE MCSyntax ------------------------------
(***************************************************************************)
(* Samples for Syntax: every pair of operators, every kind of expression   *)
(* as an operand of every other, names that begin like a keyword, and all  *)
(* texts that come of them by losing a piece.                              *)
(***************************************************************************)
EXTENDS SyntaxReference

Name(text)     == Exp("name", text, << >>, << >>)
Const(text)    == Exp("const", text, << >>, << >>)
Bin(op, l, r)  == Exp("BinExpr", op, << >>, <<l, r>>)
Un(op, x)      == Exp("UnaryExpr", op, << >>, <<x>>)
If(c, t, f)    == Exp("IfExpr", <<"if">>, << >>, <<c, t, f>>)
FCall(f, opnds) == Exp("FCallExpr", f, << >>, opnds)
Bound(f, labels, opnds) == Exp("FCallExpr", f, labels, opnds)
Asn(name, x)   == Exp("assign", name, << >>, <<x>>)
Ret(x)         == Exp("ret", << >>, << >>, <<x>>)
Block(caps, stmts, x) == Exp("block", << >>, caps, Append(stmts, Ret(x)))
Fn(params, body) == Exp("fn", << >>, params, <<body>>)

a == Name(<<"a">>)
b == Name(<<"b">>)
one == Const(<<"1", "i32">>)

Names  == {<<"a">>, <<"a", "b">>, <<"_">>, <<"_", "a">>, <<"if", "a">>, <<"if">>, <<"fn", "a">>,
           <<"fn">>, <<"ret">>, <<"ret", "a">>, <<"else">>, <<"u", "i32">>, <<"f32">>, <<"a", "1">>}
Consts == {Const(t) : t \in {<<"1", "i32">>, <<"-", "1", "i32">>, <<"1", "1", "f32">>,
            <<"1", ".", "1", "f32">>, <<"-", ".", "1", "f32">>, <<"0x", "1", "f32", "i32">>,
            <<"1", "u", "i32">>}}
BinOps == {<<p>> : p \in {"+", "-", "*", "/", "%", "&", "|", "^", "<", ">"}}
          \cup {<<"=", "=">>, <<"!", "=">>, <<"<", "=">>, <<">", "=">>}
UnOps  == {<<p>> : p \in {"+", "-", "~", "*", "!", "&"}}
SomeOps == {<<"-">>, <<"&">>, <<"=", "=">>, <<"<", "=">>}

Atoms == {Name(n) : n \in Names} \cup Consts
Small ==
  {Bin(op, a, one) : op \in BinOps} \cup {Un(op, one) : op \in UnOps}
  \cup {If(a, b, one), FCall(<<"a">>, << >>), FCall(<<"a">>, <<a, one>>), FCall(<<"if", "a">>, <<b>>),
        Block(<< >>, << >>, a), Block(<<<<"a">>, <<"b">>>>, <<Asn(<<"c">>, one)>>, a),
        Fn(<<<<"a">>>>, Block(<< >>, << >>, a)),
        Fn(<<<<"if", "a">>, <<"b">>>>, Block(<<<<"c">>>>, <<Asn(<<"_">>, b)>>, b))}

(* Each of xs as a part of each kind of expression. *)
Around(xs) ==
  {Bin(op, x, b) : x \in xs, op \in SomeOps} \cup {Bin(op, b, x) : x \in xs, op \in SomeOps}
  \cup {Un(op, x) : x \in xs, op \in UnOps}
  \cup {If(x, a, b) : x \in xs} \cup {If(a, x, b) : x \in xs} \cup {If(a, b, x) : x \in xs}
  \cup {FCall(<<"a">>, <<x>>) : x \in xs} \cup {FCall(<<"b">>, <<x, a>>) : x \in xs}
  \cup {Block(<<<<"a">>>>, <<Asn(<<"b">>, x)>>, b) : x \in xs}
  \cup {Fn(<<<<"a">>>>, Block(<< >>, << >>, x)) : x \in xs}

Programs ==
  {Block(<< >>, << >>, x) : x \in Around(Atoms \cup Small)}
  \cup {Block(<< >>, <<Asn(n, m)>>, m) : n \in Names, m \in Atoms}
  \cup {Block(<< >>, <<Asn(<<"a">>, x), Asn(<<"b">>, a)>>, x) : x \in Small}

Layouts == {<< >>, <<" ">>}

(* f = fn(a, b) ...; c = f(b = .., a = ..); *)
Call(labels) == Block(<< >>,
  <<Asn(<<"f32">>, Fn(<<<<"a">>, <<"b">>>>, Block(<< >>, << >>, a))),
    Asn(<<"c">>, Bound(<<"f32">>, labels, <<one, b>>))>>, a)

MCSamples == {Sample(p, sp) : p \in Programs, sp \in Layouts}
             \cup UNION {Damaged(Block(<< >>, << >>, x), sp) : x \in Small, sp \in Layouts}
MCCalls   == {Sample(Call(l), << >>) : l \in {<<<<"a">>, <<"b">>>>, <<<<"b">>, <<"a">>>>}}
=============================================================================
