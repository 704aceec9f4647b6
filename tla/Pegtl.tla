------------------------------- MODULE Pegtl -------------------------------
(***************************************************************************)
(* The part of the PEGTL library that src/catk/syntax/expr.hpp is written  *)
(* in: its combinators as data, and what matching a rule against a text    *)
(* does.  The library is not in the repository.                            *)
(*                                                                         *)
(* A text is a sequence of pieces.  A piece stands for the characters that *)
(* every rule takes or leaves together: a keyword, a tag, a punctuation    *)
(* mark, a letter.                                                         *)
(***************************************************************************)
EXTENDS Integers, Sequences

One(S)      == [op |-> "one", set |-> S]
Seq_(rs)    == [op |-> "seq", of |-> rs]
Sor(rs)     == [op |-> "sor", of |-> rs]
Star(r)     == [op |-> "star", of |-> r]
NotAt(r)    == [op |-> "not_at", of |-> r]
Must(r)     == [op |-> "must", of |-> r]
Rule(name)  == [op |-> "rule", name |-> name]
Eof         == [op |-> "eof"]

Str(pieces)   == Seq_([i \in DOMAIN pieces |-> One({pieces[i]})])
Opt(r)        == Sor(<<r, Seq_(<< >>)>>)
Plus(r)       == Seq_(<<r, Star(r)>>)
Pad(r, p)     == Seq_(<<Star(p), r, Star(p)>>)
List(r, s)    == Seq_(<<r, Star(Seq_(<<s, r>>))>>)
IfMust(r, rs) == Seq_(<<r, Must(Seq_(rs))>>)

(* What matching gives: the position after the match and the nodes made in *)
(* it, or a local failure, after which an alternative is tried, or a       *)
(* parse_error, after which none is.                                       *)
Hit(at, nodes) == [st |-> "hit", at |-> at, nodes |-> nodes]
Miss           == [st |-> "miss", at |-> 0, nodes |-> << >>]
Thrown         == [st |-> "thrown", at |-> 0, nodes |-> << >>]

(* Match a rule of a grammar against the text from position `at'.  A rule  *)
(* whose name is selected becomes a node over the nodes made in it; the    *)
(* nodes of any other rule go to the enclosing one.                        *)
RECURSIVE Match(_, _, _, _, _)
Match(rules, selected, text, rule, at) ==
  LET Sub(r, i) == Match(rules, selected, text, r, i)
      After(hit, r) ==
        LET rest == Sub(r, hit.at)
        IN  IF rest.st = "hit" THEN Hit(rest.at, hit.nodes \o rest.nodes) ELSE rest
  IN
  CASE rule.op = "one" ->
         IF at <= Len(text) /\ text[at] \in rule.set THEN Hit(at + 1, << >>) ELSE Miss
    [] rule.op = "eof" ->
         IF at > Len(text) THEN Hit(at, << >>) ELSE Miss
    [] rule.op = "seq" ->
         IF rule.of = << >> THEN Hit(at, << >>)
         ELSE LET first == Sub(Head(rule.of), at)
              IN  IF first.st = "hit" THEN After(first, Seq_(Tail(rule.of))) ELSE first
    [] rule.op = "sor" ->
         IF rule.of = << >> THEN Miss
         ELSE LET first == Sub(Head(rule.of), at)
              IN  IF first.st = "miss" THEN Sub(Sor(Tail(rule.of)), at) ELSE first
    [] rule.op = "star" ->
         LET first == Sub(rule.of, at)
         IN  CASE first.st = "hit"  -> After(first, rule)
               [] first.st = "miss" -> Hit(at, << >>)
               [] OTHER -> first
    [] rule.op = "not_at" ->
         LET first == Sub(rule.of, at)
         IN  CASE first.st = "hit"  -> Miss
               [] first.st = "miss" -> Hit(at, << >>)
               [] OTHER -> first
    [] rule.op = "must" ->
         LET first == Sub(rule.of, at)
         IN  IF first.st = "miss" THEN Thrown ELSE first
    [] rule.op = "rule" ->
         LET body == Sub(rules[rule.name], at)
         IN  IF body.st = "hit" /\ rule.name \in selected
             THEN Hit(body.at, <<[rule |-> rule.name, kids |-> body.nodes,
                                  text |-> SubSeq(text, at, body.at - 1)]>>)
             ELSE body
=============================================================================
