--------------------------- MODULE TypeReference ---------------------------
(***************************************************************************)
(* The type of an expression by definition, for comparison with TypeMemo:  *)
(* the same rules applied afresh, with no table of answers and no history. *)
(***************************************************************************)
EXTENDS TypeMemo

Failure == [base |-> "failure", arg |-> 0, depth |-> 0]

ParamType(e) ==
  LET i == {j \in DOMAIN e.at.tys : e.at # Original /\ Params(e.at.id)[j] = e.n}
  IN  IF i = {} THEN Undecided ELSE e.at.tys[CHOOSE j \in i : TRUE]

(* `live' are the expressions around e, whose types depend on e's. *)
RECURSIVE TypeByRules(_, _)
TypeByRules(e, live) ==
  LET tys == [i \in DOMAIN Kids(e) |-> TypeByRules(Kids(e)[i], live \cup {e})]
      frame == [expr |-> e, tys |-> tys]
  IN  CASE e \in live -> Undecided
        [] e \notin live /\ Op(e) = "param" -> ParamType(e)
        [] e \notin live /\ Op(e) # "param" ->
             IF \E i \in DOMAIN tys : tys[i] = Failure THEN Failure
             ELSE IF Op(e) = "call"
             THEN IF Resolved(frame) /\ Len(Params(CallKey(frame).id)) = Len(tys) - 1
                  THEN TypeByRules(Instance(CallKey(frame)), live \cup {e})
                  ELSE Failure
             ELSE IF IllTyped(e, tys) THEN Failure ELSE TypeOf(e, tys)

(* The table cannot be told from the answers: whatever was asked before and *)
(* in whatever order, and although types are remembered in the middle of a  *)
(* recursion, what get_type says of an expression is what the rules say.    *)
(* That goes for what is typed after a failure, too, when the marks of the  *)
(* activations that failed are taken for what they say, `undecided'.        *)
MemoIsTransparent ==
  ~Busy => \A e \in DOMAIN memo :
             memo[e] # Undecided => memo[e] = TypeByRules(e, poisoned)
=============================================================================
