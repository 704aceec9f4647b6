------------------------------- MODULE Syntax -------------------------------
(***************************************************************************)
(* The syntax of catk (src/catk/syntax/expr.hpp): the grammar, a parsing   *)
(* expression grammar that works on characters, and the reading of a parse *)
(* tree by the from_ast functions of src/catk/semantics.  What a name      *)
(* means is left to Scope: a name is read as itself here.                  *)
(*                                                                         *)
(* Every rule of the grammar is a definition with the rule's name.         *)
(***************************************************************************)
EXTENDS Pegtl, FiniteSets

CONSTANT Samples   \* texts, each with the program it was written for

VARIABLES sample,   \* the input
          phase,    \* how far it is, or how it ended
          ast,      \* the parse tree
          meaning   \* the expressions made of it

vars == <<sample, phase, ast, meaning>>
-----------------------------------------------------------------------------
(* The characters that matter. *)
Letter == {"a", "b", "c", "_", "if", "else", "ret", "fn", "u", "i32", "f32"}
Digit  == {"1"}
XDigit == {"1", "a", "b", "c", "f32"}
Punctuation == {" ", "(", ")", "[", "]", "{", "}", ",", ";", "=", ".",
                "+", "-", "~", "*", "!", "&", "/", "%", "|", "^", "<", ">"}
Space  == One({" "})
IdentifierOther == One(Letter \cup Digit \cup {"0x"})

SpacePad(r) == Pad(r, Space)
Comma       == Pad(One({","}), Space)
Spaces      == Star(Space)

Identifier  == Seq_(<<One(Letter), Star(IdentifierOther)>>)
IgnoredLval == One({"_"})

IntTag        == Seq_(<<Opt(One({"u"})), One({"i32"})>>)
DecIntLiteral == Seq_(<<Opt(One({"-"})), Plus(One(Digit))>>)
HexIntLiteral == IfMust(One({"0x"}), <<Plus(One(XDigit))>>)
IntLiteral    == Sor(<<Seq_(<<Rule("DecIntLiteral"), Rule("IntTag")>>),
                       Seq_(<<Rule("HexIntLiteral"), Rule("IntTag")>>)>>)

FPTag       == One({"f32"})
FPLiteralV0 == Seq_(<<Opt(One({"-"})), Plus(One(Digit))>>)
FPLiteralV1 == Seq_(<<Opt(One({"-"})), Star(One(Digit)), One({"."}), Plus(One(Digit))>>)
FPLiteral   == Sor(<<Seq_(<<Rule("FPLiteralV0"), Rule("FPTag")>>),
                     Seq_(<<Rule("FPLiteralV1"), Rule("FPTag")>>)>>)

(* Everything up to the next quote; escapes are left out. *)
Char          == One(Letter \cup Digit \cup Punctuation \cup {"0x"})
StringLiteral == Seq_(<<One({"\""}), Star(Char), Must(One({"\""}))>>)

IfExpr == IfMust(Rule("IfOp"),
  <<SpacePad(One({"("})), Rule("Expr"), SpacePad(One({")"})), Rule("Expr"),
    SpacePad(One({"else"})), Rule("Expr")>>)

ArrayLiteral == Seq_(<<One({"["}), Opt(List(Rule("Expr"), Comma)), One({"]"})>>)

Param == Seq_(<<Rule("Identifier"), Opt(Seq_(<<SpacePad(One({"="})), Rule("Expr")>>))>>)
ParamList == List(Rule("Param"), Comma)

CaptureList == Seq_(<<One({"["}), Spaces,
                      Opt(Seq_(<<List(Rule("CaptureItem"), Comma), Spaces>>)), One({"]"})>>)

Literal == Sor(<<Rule("StringLiteral"), Rule("LambdaLiteral"), Rule("ArrayLiteral"),
                 Rule("FPLiteral"), Rule("IntLiteral")>>)

FCallParamBind == Seq_(<<Rule("Identifier"), SpacePad(One({"="})), Rule("Expr")>>)
FCallParamBindList == List(Rule("FCallParamBind"), Comma)
FCallPosParamList  == List(Rule("Expr"), Comma)
FCallExpr == Seq_(<<Rule("Identifier"), SpacePad(One({"("})),
                    Opt(Sor(<<FCallParamBindList, FCallPosParamList>>)),
                    SpacePad(One({")"}))>>)

UnaryOp   == One({"+", "-", "~", "*", "!", "&"})
UnaryExpr == Seq_(<<Rule("UnaryOp"), Rule("Expr")>>)

AssignLeftHand == List(Sor(<<Rule("IgnoredLval"), Rule("Identifier")>>), Comma)
AssignStmt == Seq_(<<Rule("AssignLeftHand"), SpacePad(One({"="})), Rule("Expr"),
                     Spaces, One({";"})>>)
StmtList   == List(Rule("AssignStmt"), Spaces)
RetStmt    == Seq_(<<Rule("RetOp"), Spaces, Rule("Expr"), Spaces, One({";"})>>)

ContextStmts == Seq_(<<Spaces, Opt(StmtList), Spaces, Rule("RetStmt"), Spaces>>)
RetContext   == Seq_(<<Opt(Rule("CaptureList")), Spaces, One({"{"}),
                       Rule("ContextStmts"), One({"}"})>>)

LambdaLiteral == IfMust(Seq_(<<One({"fn"}), NotAt(IdentifierOther)>>),
  <<Spaces, SpacePad(One({"("})), Opt(Rule("ParamList")), SpacePad(One({")"})),
    Spaces, Rule("RetContext")>>)

(* Mutants: an identifier is tried before a call, an operator before a literal. *)
TermNameFirst == Sor(<<Rule("IfExpr"),
                       Seq_(<<One({"("}), SpacePad(Rule("Expr")), One({")"})>>),
                       Rule("RetContext"), Literal, Rule("UnaryExpr"), Rule("Identifier"),
                       Rule("FCallExpr")>>)
TermOperatorFirst == Sor(<<Rule("IfExpr"),
                           Seq_(<<One({"("}), SpacePad(Rule("Expr")), One({")"})>>),
                           Rule("RetContext"), Rule("UnaryExpr"), Literal, Rule("FCallExpr"),
                           Rule("Identifier")>>)

Term == Sor(<<Rule("IfExpr"),
              Seq_(<<One({"("}), SpacePad(Rule("Expr")), One({")"})>>),
              Rule("RetContext"), Literal, Rule("UnaryExpr"), Rule("FCallExpr"),
              Rule("Identifier")>>)

BinOp == Sor(<<One({"+", "-", "*", "/", "%", "&", "|", "^", "<", ">"}),
               Str(<<"=", "=">>), Str(<<"<", "=">>), Str(<<">", "=">>), Str(<<"!", "=">>)>>)
BinExpr == Seq_(<<Term, SpacePad(Rule("BinOp")), Rule("Expr")>>)

Expr == Sor(<<Rule("BinExpr"), Term>>)
File == Seq_(<<Rule("ContextStmts"), Eof>>)

Grammar ==
  [Identifier |-> Identifier, CaptureItem |-> Identifier, IgnoredLval |-> IgnoredLval,
   DecIntLiteral |-> DecIntLiteral, HexIntLiteral |-> HexIntLiteral,
   IntTag |-> IntTag, IntLiteral |-> IntLiteral, FPTag |-> FPTag,
   FPLiteralV0 |-> FPLiteralV0, FPLiteralV1 |-> FPLiteralV1, FPLiteral |-> FPLiteral,
   StringLiteral |-> StringLiteral, IfOp |-> One({"if"}), RetOp |-> One({"ret"}),
   IfExpr |-> IfExpr, ArrayLiteral |-> ArrayLiteral, Param |-> Param,
   ParamList |-> ParamList, CaptureList |-> CaptureList,
   FCallParamBind |-> FCallParamBind, FCallExpr |-> FCallExpr, UnaryOp |-> UnaryOp,
   UnaryExpr |-> UnaryExpr, AssignLeftHand |-> AssignLeftHand,
   AssignStmt |-> AssignStmt, RetStmt |-> RetStmt, ContextStmts |-> ContextStmts,
   RetContext |-> RetContext, LambdaLiteral |-> LambdaLiteral, BinOp |-> BinOp,
   BinExpr |-> BinExpr, Expr |-> Expr, File |-> File]

(* The rules that become nodes. *)
ASTSelector == DOMAIN Grammar \ {"Expr", "File"}
-----------------------------------------------------------------------------
(* An expression of src/catk/semantics, as far as its text determines it:  *)
(* its kind, the text it keeps (a name, an operator, a literal), a         *)
(* lambda's parameters or a context's captures, and its parts.             *)
Exp(e, text, names, kids) == [e |-> e, text |-> text, names |-> names, kids |-> kids]

(* A failed assertion: assert, rt_assert or a conversion that throws. *)
Stop == Exp("stop", << >>, << >>, << >>)

Texts(nodes) == [i \in DOMAIN nodes |-> nodes[i].text]
Ids(nodes)   == [i \in DOMAIN nodes |-> nodes[i].kids[1].text]

(* The function and the operands of the four functional expressions. *)
FunctionOf(n) == IF n.rule = "BinExpr" THEN n.kids[2] ELSE n.kids[1]
(* Mutant: the operands of a call with several are counted from two. *)
OpndsFromTwo(n) ==
  IF n.rule = "BinExpr" THEN <<n.kids[1], n.kids[3]>>
  ELSE IF Len(n.kids) > 2 /\ n.rule = "FCallExpr" THEN SubSeq(n.kids, 3, Len(n.kids))
  ELSE Tail(n.kids)

Opnds(n) ==
  CASE n.rule = "BinExpr" -> <<n.kids[1], n.kids[3]>>
    [] n.rule = "FCallExpr" ->
         [i \in DOMAIN Tail(n.kids) |->
            LET opnd == n.kids[i + 1]
            IN  IF opnd.rule = "FCallParamBind" THEN opnd.kids[2] ELSE opnd]
    [] OTHER -> Tail(n.kids)
OpndLabels(n) == Ids(Tail(n.kids))
IsParamBindFCall(n) == n.kids[1].rule = "FCallParamBind"

(* The literals `interpret' knows: its tags have no `i' after the `u', and *)
(* boost::lexical_cast takes no hexadecimal digits.                        *)
Interpret(n) ==
  IF n.rule = "IntLiteral"
     /\ (n.kids[2].text = <<"u", "i32">> \/ n.kids[1].rule = "HexIntLiteral")
  THEN Stop ELSE Exp("const", n.text, << >>, << >>)

(* params(ast) are the children of the lambda's first child, which is its  *)
(* context when it has no parameters: no Param, and Symbol::from_ast fails. *)
Params(n) == n.kids[1].kids
ParamsAreRead(n) == \A i \in DOMAIN Params(n) : /\ Params(n)[i].rule = "Param"
                                                /\ Len(Params(n)[i].kids) = 1
CaptureNames(n) == IF n.kids[1].rule = "CaptureList" THEN Texts(n.kids[1].kids) ELSE << >>

RECURSIVE Read(_)
ReadAll(nodes) == [i \in DOMAIN nodes |-> Read(nodes[i])]

(* A call that is taken to bind its operands by name orders them by the    *)
(* callee's parameters.  The callee is Scope's to find, so the labels are  *)
(* kept here instead; a call without labels binds by position.             *)
Functional(n) ==
  Exp(n.rule, FunctionOf(n).text,
      IF n.rule = "FCallExpr" /\ IsParamBindFCall(n) THEN OpndLabels(n) ELSE << >>,
      ReadAll(Opnds(n)))

(* Expr::from_ast, Context::from_ast, Symbol::from_ast, RetExpr::from_ast *)
Read(n) ==
  CASE n.rule = "Identifier" -> Exp("name", n.text, << >>, << >>)
    [] n.rule \in {"IntLiteral", "FPLiteral"} -> Interpret(n)
    [] n.rule \in {"BinExpr", "UnaryExpr", "IfExpr", "FCallExpr"} -> Functional(n)
    [] n.rule = "LambdaLiteral" ->
         IF ParamsAreRead(n)
         THEN Exp("fn", << >>, Ids(Params(n)), <<Read(n.kids[Len(n.kids)])>>)
         ELSE Stop
    [] n.rule = "RetContext" ->
         Exp("block", << >>, CaptureNames(n), ReadAll(n.kids[Len(n.kids)].kids))
    [] n.rule = "AssignStmt" ->
         IF Len(n.kids[1].kids) = 1
         THEN Exp("assign", n.kids[1].kids[1].text, << >>, <<Read(n.kids[2])>>)
         ELSE Stop
    [] n.rule = "RetStmt" -> Exp("ret", << >>, << >>, <<Read(n.kids[2])>>)
    [] OTHER -> Stop

RECURSIVE Stops(_)
Stops(x) == x = Stop \/ \E i \in DOMAIN x.kids : Stops(x.kids[i])
-----------------------------------------------------------------------------
Init == /\ sample \in Samples
        /\ phase = "text"
        /\ ast = << >>
        /\ meaning = << >>

(* parse<must<File>>: the tree, or a parse_error. *)
Parse ==
  /\ phase = "text"
  /\ LET file == Match(Grammar, ASTSelector, sample.text, Rule("File"), 1)
     IN  IF file.st = "hit" THEN phase' = "parsed" /\ ast' = file.nodes[1]
                            ELSE phase' = "refused" /\ UNCHANGED ast
  /\ UNCHANGED <<sample, meaning>>

(* Module::from_ast: the root's context, which takes no captures. *)
Translate ==
  /\ phase = "parsed"
  /\ meaning' = Exp("block", << >>, << >>, ReadAll(ast.kids))
  /\ phase' = IF Stops(meaning') THEN "stopped" ELSE "read"
  /\ UNCHANGED <<sample, ast>>

Finished == phase \in {"refused", "stopped", "read"} /\ UNCHANGED vars

Next == Parse \/ Translate \/ Finished

Spec == Init /\ [][Next]_vars
=============================================================================
