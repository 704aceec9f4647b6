-------------------------- MODULE SyntaxReference --------------------------
(***************************************************************************)
(* What the syntax promises, independently of the order in which the       *)
(* grammar tries its alternatives: how a program is written                *)
(* (src/syntax.md), with as few parentheses as the right-recursive BinExpr *)
(* and the greedy unary and if expressions need, and which programs cannot *)
(* be written at all.                                                      *)
(***************************************************************************)
EXTENDS Syntax, SequencesExt

(* Lists are written with a comma and, as everything else, with or without *)
(* spaces.                                                                 *)
Sep(items, sp) ==
  IF items = << >> THEN << >>
  ELSE FlattenSeq(<<Head(items)>> \o [i \in DOMAIN Tail(items) |-> sp \o <<",">> \o sp \o items[i + 1]])

Paren(text) == <<"(">> \o text \o <<")">>

RECURSIVE Written(_, _)
WrittenAll(xs, sp) == [i \in DOMAIN xs |-> Written(xs[i], sp)]

(* A term: an expression that does not go on to the right. *)
AsTerm(x, sp) == IF x.e \in {"BinExpr", "UnaryExpr", "IfExpr"}
                 THEN Paren(sp \o Written(x, sp) \o sp) ELSE Written(x, sp)

(* The operand of an operator; a minus sign belongs to a number behind it. *)
AsOperand(op, x, sp) ==
  LET text == Written(x, sp)
  IN  IF op = <<"-">> /\ text[1] \in Digit \cup {"."} THEN Paren(text) ELSE text

Written(x, sp) ==
  CASE x.e \in {"name", "const"} -> x.text
    [] x.e = "BinExpr" ->
         AsTerm(x.kids[1], sp) \o sp \o x.text \o sp \o Written(x.kids[2], sp)
    [] x.e = "UnaryExpr" -> x.text \o AsOperand(x.text, x.kids[1], sp)
    [] x.e = "IfExpr" ->
         <<"if">> \o sp \o <<"(">> \o sp \o Written(x.kids[1], sp) \o sp \o <<")">> \o sp
         \o Written(x.kids[2], sp) \o <<" ", "else", " ">> \o Written(x.kids[3], sp)
    [] x.e = "FCallExpr" ->
         LET label(i) == IF x.names = << >> THEN << >> ELSE x.names[i] \o sp \o <<"=">> \o sp
             opnds == [i \in DOMAIN x.kids |-> label(i) \o Written(x.kids[i], sp)]
         IN  x.text \o sp \o Paren(sp \o Sep(opnds, sp) \o sp) \o sp
    [] x.e = "fn" ->
         <<"fn">> \o sp \o Paren(sp \o Sep(x.names, sp) \o sp) \o sp \o Written(x.kids[1], sp)
    [] x.e = "block" ->
         (IF x.names = << >> THEN << >> ELSE <<"[">> \o sp \o Sep(x.names, sp) \o sp \o <<"]">> \o sp)
         \o <<"{">> \o sp \o FlattenSeq(WrittenAll(x.kids, sp)) \o <<"}">>
    [] x.e = "assign" -> x.text \o sp \o <<"=">> \o sp \o Written(x.kids[1], sp) \o sp \o <<";">> \o sp
    [] x.e = "ret" -> <<"ret", " ">> \o Written(x.kids[1], sp) \o sp \o <<";">> \o sp
    [] x.e = "stop" -> x.text

(* A file is a context without its braces. *)
WrittenFile(x, sp) == sp \o FlattenSeq(WrittenAll(x.kids, sp))

(* A sample: a program in one of its two layouts, or a text it was damaged *)
(* to by losing a piece, of which no program is known.                     *)
Nothing == << >>
Sample(x, sp) == [text |-> WrittenFile(x, sp), program |-> x]
Damaged(x, sp) ==
  LET text == WrittenFile(x, sp)
  IN  {[text |-> RemoveAt(text, i), program |-> Nothing] : i \in DOMAIN text}

(* The text without its layout: spaces, and the brackets that a reader     *)
(* needs no more once the tree is known.                                   *)
Bare(text) == SelectSeq(text, LAMBDA p : p \notin {" ", "(", ")", "[", "]"})

(* The expressions in an expression, itself included. *)
RECURSIVE Parts(_)
Parts(x) == {x} \cup UNION {Parts(x.kids[i]) : i \in DOMAIN x.kids}

(* What this grammar has no way to say, because an earlier alternative     *)
(* takes a prefix of it: `<=' and `>=' begin with an operator, a name that *)
(* begins with `if' or is `fn' with a keyword, and on the left a name that *)
(* begins with `_' with the ignored value.                                 *)
Unsayable(x) ==
  \/ x.e = "BinExpr" /\ x.text \in {<<"<", "=">>, <<">", "=">>}
  \/ x.e \in {"name", "FCallExpr"} /\ (x.text[1] = "if" \/ x.text = <<"fn">>)
  \/ x.e = "assign" /\ x.text[1] = "_" /\ Len(x.text) > 1

(* What is said and not understood: unsigned and hexadecimal integers. *)
NotUnderstood(x) ==
  x.e = "const" /\ (x.text[1] = "0x" \/ <<"u", "i32">> = SubSeq(x.text, Len(x.text) - 1, Len(x.text)))
-----------------------------------------------------------------------------
(* Properties *)

(* What is read is what was written: no alternative of the grammar takes   *)
(* a text that another one was meant for, and no accessor picks the wrong  *)
(* child, in either layout.                                                *)
MeaningIsWhatWasWritten ==
  phase = "read" /\ sample.program # Nothing => meaning = sample.program

(* Nothing is skipped: whatever text is accepted, the names, operators and *)
(* literals read from it, written out, are those of the text, in its       *)
(* order.                                                                  *)
NothingSkipped ==
  phase = "read" => Bare(WrittenFile(meaning, << >>)) = Bare(sample.text)

(* A program is refused exactly when it says something the grammar hides   *)
(* behind an earlier alternative, and stopped exactly when it has a        *)
(* literal that no conversion knows.                                       *)
RefusedExactly ==
  sample.program # Nothing =>
    /\ phase = "refused" => \E x \in Parts(sample.program) : Unsayable(x)
    /\ phase \in {"parsed", "stopped", "read"} => ~ \E x \in Parts(sample.program) : Unsayable(x)
    /\ phase = "stopped" => \E x \in Parts(sample.program) : NotUnderstood(x)
    /\ phase = "read" => ~ \E x \in Parts(sample.program) : NotUnderstood(x)

(* A named argument reaches the parameter it names (syntax.md, param-bind; *)
(* FunctionalExprMaker orders the operands by the callee's parameters).    *)
Argument(call, params, p) ==
  IF call.names # << >> THEN call.kids[CHOOSE i \in DOMAIN call.names : call.names[i] = p]
  ELSE call.kids[CHOOSE i \in DOMAIN params : params[i] = p]
Callee(x, f) == (CHOOSE d \in Parts(x) : d.e = "assign" /\ d.text = f /\ d.kids[1].e = "fn").kids[1]
NamedArgumentsReachTheirParameters ==
  phase = "read" =>
    \A i \in DOMAIN sample.program.kids :
      LET call == sample.program.kids[i].kids[1]
          got  == meaning.kids[i].kids[1]
      IN  call.e = "FCallExpr" /\ call.names # << >> =>
            LET params == Callee(sample.program, call.text).names
            IN  \A k \in DOMAIN params : Argument(got, params, params[k]) = Argument(call, params, params[k])
=============================================================================
