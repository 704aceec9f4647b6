--------------------------- MODULE TypeMemoProofs ---------------------------
(***************************************************************************)
(* Proofs about TypeMemo for every set of programs.                        *)
(*                                                                         *)
(* The inductive invariant says that the activations of get_type are those *)
(* expressions whose entry is a mark, one activation for each mark, and    *)
(* that types and keys only name lambdas that have been interned (IInv).   *)
(*                                                                         *)
(* The remembered types fit together, since an activation has been told    *)
(* what is remembered: a type it was given is still the type of what it    *)
(* asked for when it concludes, although others have been typed since.     *)
(* Only `undecided' may have become a type (FInv).                         *)
(***************************************************************************)
EXTENDS TypeMemo, SequenceTheorems, TLAPS

Nodes == 1 .. Len(program.node)

(* Types whose lambda, if there is one, has been interned. *)
KnownTypes == {t \in Type : t.base = "lazy" => t.arg \in DOMAIN interned}

ValidObjects == {e \in Object : /\ e.n \in Nodes \cup {Stray}
                                /\ e.at = Original \/ e.at \in instances}

Frame(S, T) == [expr: S, tys: Seq(T)]
Activation == Frame(ValidObjects, KnownTypes)

InternedOK ==
  \A id \in DOMAIN interned :
    /\ id \in Nat \ {0} /\ interned[id] \in Nodes
    /\ program.node[interned[id]].op = "lambda"

InstancesOK ==
  \A k \in instances :
    /\ k \in Key /\ k.id \in DOMAIN interned /\ k.tys \in Seq(KnownTypes)
    /\ Len(Params(k.id)) = Len(k.tys)

MemoOK == /\ DOMAIN memo \subseteq Object
          /\ \A e \in DOMAIN memo : memo[e] \in KnownTypes

(* What is being typed is marked. *)
Marked ==
  \A i \in 1 .. Len(stack) :
    stack[i].expr \in DOMAIN memo /\ memo[stack[i].expr] = Undecided

IInv == /\ program \in Programs /\ poisoned \subseteq Object
        /\ InternedOK /\ InstancesOK /\ MemoOK
        /\ stack \in Seq(Activation)
        /\ Marked /\ NoReentry /\ UndecidedIsTemporary
-----------------------------------------------------------------------------
LEMMA SeqMonotone ==
  ASSUME NEW S, NEW T, S \subseteq T, NEW s \in Seq(S)
  PROVE  s \in Seq(T)
<1>1. /\ Len(s) \in Nat /\ s \in [1 .. Len(s) -> S]  BY LenProperties
<1>2. s \in [1 .. Len(s) -> T]  BY <1>1
<1> QED  BY <1>1, <1>2, SeqDef

(* What is appended to a sequence is its last element. *)
LEMMA Appended ==
  ASSUME NEW S, NEW seq \in Seq(S), NEW e \in S
  PROVE  /\ Append(seq, e) \in Seq(S)
         /\ Len(seq) \in Nat
         /\ Len(Append(seq, e)) = Len(seq) + 1
         /\ \A i \in 1 .. Len(seq) : Append(seq, e)[i] = seq[i]
         /\ Append(seq, e)[Len(seq) + 1] = e
BY AppendProperties, LenProperties

(* The expressions of a program. *)
LEMMA SourceFacts ==
  ASSUME program \in Programs, NEW n \in Nodes
  PROVE  LET nd == program.node[n] IN
         /\ nd \in Node
         /\ \A i \in 1 .. Len(nd.kids) : nd.kids[i] \in Nodes
         /\ \A i \in 1 .. Len(nd.params) : nd.params[i] \in Nodes
         /\ nd.body \subseteq Nodes
         /\ nd.op \in {"symbol", "ret", "block", "lambda", "unary", "addrof", "deref"}
              => Len(nd.kids) = 1
         /\ nd.op \in {"bin", "compare"} => Len(nd.kids) = 2
         /\ nd.op = "if" => Len(nd.kids) = 3
         /\ nd.op = "call" => Len(nd.kids) > 0
         /\ nd.op = "lambda" => nd.id > 0
<1>1. ProgramOK(program)  BY ProgramsAssumption
<1>2. program.node \in Seq(Node) /\ Len(program.node) \in Nat
  BY <1>1, LenProperties DEF ProgramOK
<1>3. program.node[n] \in Node  BY <1>2, ElementOfSeq DEF Nodes
<1>4. \A i \in 1 .. n - 1 : i \in Nodes  BY <1>2 DEF Nodes
<1> QED  BY <1>1, <1>3, <1>4 DEF ProgramOK, Nodes

LEMMA ObjectFacts ==
  ASSUME IInv, NEW e \in ValidObjects
  PROVE  /\ e.at \in Key /\ (Op(e) # "param" => e.n \in Nodes)
         /\ IsInstance(e) => Src(e).op = "lambda"
         /\ Op(e) \in {"const", "param", "symbol", "ret", "block", "lambda",
                       "bin", "compare", "unary", "addrof", "deref", "if", "call"}
         /\ Op(e) = "lambda" => Src(e).op = "lambda"
         /\ Kids(e) \in Seq(ValidObjects)
         /\ Op(e) \in {"symbol", "ret", "block", "unary", "addrof", "deref"} => Len(Kids(e)) = 1
         /\ Op(e) \in {"bin", "compare"} => Len(Kids(e)) = 2
         /\ Op(e) = "if" => Len(Kids(e)) = 3
         /\ Op(e) = "call" => Len(Kids(e)) > 0
<1>0. CASE e.n \notin Nodes
  <2>1. e.n = Stray /\ e.at \in Key  BY <1>0 DEF ValidObjects, Object
  <2>2. ~IsInstance(e)
    BY <1>0 DEF IInv, IsInstance, InternedOK, InstancesOK, ValidObjects
  <2>3. Op(e) = "param"  BY <2>1, <2>2 DEF Op
  <2>4. Kids(e) = << >>  BY <2>3 DEF Kids
  <2>5. << >> \in Seq(ValidObjects)  OBVIOUS
  <2> QED  BY <2>1, <2>2, <2>3, <2>4, <2>5
<1> SUFFICES ASSUME e.n \in Nodes
             PROVE  /\ e.at \in Key
                    /\ IsInstance(e) => Src(e).op = "lambda"
                    /\ Op(e) \in {"const", "param", "symbol", "ret", "block", "lambda",
                                  "bin", "compare", "unary", "addrof", "deref", "if", "call"}
                    /\ Op(e) = "lambda" => Src(e).op = "lambda"
                    /\ Kids(e) \in Seq(ValidObjects)
                    /\ Op(e) \in {"symbol", "ret", "block", "unary", "addrof", "deref"}
                         => Len(Kids(e)) = 1
                    /\ Op(e) \in {"bin", "compare"} => Len(Kids(e)) = 2
                    /\ Op(e) = "if" => Len(Kids(e)) = 3
                    /\ Op(e) = "call" => Len(Kids(e)) > 0
  BY <1>0
<1>1. e.n \in Nodes /\ e.at \in Key /\ e \in Object  BY DEF ValidObjects, Object
<1>2. IsInstance(e) => Src(e).op = "lambda"
  BY DEF IInv, IsInstance, Src, InternedOK, InstancesOK, ValidObjects
<1>3. Src(e) \in Node /\ Src(e).kids \in Seq(Nat)
  BY <1>1, SourceFacts DEF IInv, Src, Node
<1>4. Op(e) = IF IsInstance(e) THEN "block" ELSE Src(e).op
  <2>1. e.n # Stray  BY <1>1 DEF Nodes, Stray
  <2> QED  BY <2>1 DEF Op
<1>5. \A i \in 1 .. Len(Src(e).kids) : Copy(e, Src(e).kids[i]) \in ValidObjects
  <2> TAKE i \in 1 .. Len(Src(e).kids)
  <2>1. Src(e).kids[i] \in Nodes  BY <1>1, SourceFacts DEF IInv, Src
  <2>2. Original \in Key
    <3>1. << >> \in Seq(Type)  OBVIOUS
    <3> QED  BY <3>1 DEF Original, Key
  <2>3. Nodes \cup {Stray} \subseteq Nat  BY DEF Nodes, Stray
  <2> QED  BY <1>1, <2>1, <2>2, <2>3 DEF Copy, Obj, ValidObjects, Object
<1>6. Len(Src(e).kids) \in Nat  BY <1>3, LenProperties
<1>7. ASSUME Op(e) \notin {"lambda", "param"}
      PROVE  Kids(e) \in Seq(ValidObjects) /\ Len(Kids(e)) = Len(Src(e).kids)
  <2> DEFINE n == Len(Src(e).kids)
             k(i) == Copy(e, Src(e).kids[i])
  <2>1. Kids(e) = [i \in 1 .. n |-> k(i)]  BY <1>7 DEF Kids
  <2>2. \A i \in 1 .. n : k(i) \in ValidObjects  BY <1>5
  <2> HIDE DEF n, k
  <2>3. Kids(e) \in [1 .. n -> ValidObjects]  BY <2>1, <2>2
  <2>4. n \in Nat  BY <1>6 DEF n
  <2>5. Kids(e) \in Seq(ValidObjects)  BY <2>3, <2>4, SeqDef
  <2>6. Len(Kids(e)) = n  BY <2>3, <2>4, <2>5, LenProperties
  <2> QED  BY <2>5, <2>6 DEF n
<1>8. Op(e) \in {"lambda", "param"} => Kids(e) \in Seq(ValidObjects)
  BY DEF Kids
<1>10. Src(e).op \in {"const", "param", "symbol", "ret", "block", "lambda", "bin", "compare",
                      "unary", "addrof", "deref", "if", "call"}
  BY <1>3 DEF Node
<1>11. Op(e) \in {"symbol", "ret", "block", "unary", "addrof", "deref"} =>
         Src(e).op \in {"symbol", "ret", "block", "lambda", "unary", "addrof", "deref"}
  BY <1>2, <1>4
<1>12. /\ Op(e) = "lambda" => Src(e).op = "lambda"
       /\ Op(e) \in {"bin", "compare"} => Src(e).op = Op(e)
       /\ Op(e) = "if" => Src(e).op = "if"
       /\ Op(e) = "call" => Src(e).op = "call"
  BY <1>4
<1>13. /\ Src(e).op \in {"symbol", "ret", "block", "lambda", "unary", "addrof", "deref"}
            => Len(Src(e).kids) = 1
       /\ Src(e).op \in {"bin", "compare"} => Len(Src(e).kids) = 2
       /\ Src(e).op = "if" => Len(Src(e).kids) = 3
       /\ Src(e).op = "call" => Len(Src(e).kids) > 0
  BY <1>1, SourceFacts DEF IInv, Src
<1>14. Op(e) \in {"const", "param", "symbol", "ret", "block", "lambda",
                       "bin", "compare", "unary", "addrof", "deref", "if", "call"}
  BY <1>4, <1>10
<1> QED  BY <1>1, <1>2, <1>7, <1>8, <1>11, <1>12, <1>13, <1>14

(* The innermost activation and the ones below it. *)
LEMMA StackFacts ==
  ASSUME IInv, Busy
  PROVE  /\ Len(stack) \in Nat \ {0}
         /\ Top \in Activation /\ Top = stack[Len(stack)]
         /\ Rest \in Seq(Activation) /\ Len(Rest) = Len(stack) - 1
         /\ \A i \in 1 .. Len(stack) - 1 : Rest[i] = stack[i]
<1>1. stack \in Seq(Activation) /\ Len(stack) \in Nat \ {0}
  BY EmptySeq, LenProperties DEF IInv, Busy
<1>2. Top \in Activation  BY <1>1, ElementOfSeq DEF Top
<1> DEFINE n == Len(stack) - 1
<1>3. n \in Nat /\ \A i \in 1 .. n : stack[i] \in Activation
  BY <1>1, ElementOfSeq
<1>4. Rest = SubSeq(stack, 1, n)  BY DEF Rest
<1> HIDE DEF n
<1>5. /\ SubSeq(stack, 1, n) \in Seq(Activation)
      /\ Len(SubSeq(stack, 1, n)) = IF 1 <= n THEN n - 1 + 1 ELSE 0
      /\ \A i \in 1 .. n - 1 + 1 : SubSeq(stack, 1, n)[i] = stack[1 + i - 1]
  BY <1>3, SubSeqProperties
<1>6. /\ Rest \in Seq(Activation) /\ Len(Rest) = n
      /\ \A i \in 1 .. n : Rest[i] = stack[i]
  BY <1>3, <1>4, <1>5
<1> QED  BY <1>1, <1>2, <1>6 DEF n, Top

(* An answer reaches the innermost of the activations it is given to. *)
LEMMA AnswerFacts ==
  ASSUME NEW S, NEW T, NEW frames \in Seq(Frame(S, T)), NEW t \in T
  PROVE  /\ Answer(frames, t) \in Seq(Frame(S, T))
         /\ Len(Answer(frames, t)) = Len(frames)
         /\ \A i \in 1 .. Len(frames) : Answer(frames, t)[i].expr = frames[i].expr
<1> DEFINE F == Frame(S, T)
<1>1. CASE frames = << >>  BY <1>1 DEF Answer
<1>2. CASE frames # << >>
  <2> DEFINE n == Len(frames)
             f == [expr |-> frames[n].expr, tys |-> Append(frames[n].tys, t)]
  <2>1. frames \in Seq(F)  OBVIOUS
  <2>2. n \in Nat \ {0}  BY <1>2, <2>1, EmptySeq, LenProperties
  <2>3. n \in 1 .. Len(frames)  BY <2>2
  <2>4. frames[n] \in F  BY <2>1, <2>3, ElementOfSeq
  <2>5. Append(frames[n].tys, t) \in Seq(T)  BY <2>4, AppendProperties DEF Frame
  <2>6. f \in F /\ f.expr = frames[n].expr  BY <2>4, <2>5 DEF Frame
  <2>7. Answer(frames, t) = [frames EXCEPT ![n].tys = Append(@, t)]  BY <1>2 DEF Answer
  <2>8. Answer(frames, t) = [frames EXCEPT ![n] = f]  BY <2>4, <2>7 DEF Frame
  <2> HIDE DEF f, F
  <2>9. /\ [frames EXCEPT ![n] = f] \in Seq(F)
        /\ Len([frames EXCEPT ![n] = f]) = Len(frames)
        /\ \A i \in 1 .. Len(frames) :
             [frames EXCEPT ![n] = f][i] = IF i = n THEN f ELSE frames[i]
    BY <2>1, <2>3, <2>6, ExceptSeq
  <2> QED  BY <2>6, <2>8, <2>9 DEF F
<1> QED  BY <1>1, <1>2

(* The key of a call names an interned lambda. *)
LEMMA KeyFacts ==
  ASSUME IInv, NEW f \in Activation, Resolved(f)
  PROVE  /\ Callee(f) \in KnownTypes
         /\ CallKey(f) \in Key /\ CallKey(f).id \in DOMAIN interned
         /\ CallKey(f).id \in Nat \ {0}
         /\ CallKey(f).tys \in Seq(KnownTypes)
<1>1. f.expr \in ValidObjects /\ f.tys \in Seq(KnownTypes)  BY DEF Activation, Frame
<1>2. Arity(f) \in Nat \ {0} /\ Arity(f) = Len(f.tys)
  <2>1. Len(Kids(f.expr)) \in Nat  BY <1>1, ObjectFacts, LenProperties
  <2>2. Len(Kids(f.expr)) > 0  BY <1>1, ObjectFacts DEF Resolved, CalleeKnown
  <2> QED  BY <2>1, <2>2 DEF Resolved, CalleeKnown, Arity
<1>3. Callee(f) \in KnownTypes
  BY <1>1, <1>2, ElementOfSeq DEF Callee
<1>4. Callee(f).arg \in DOMAIN interned /\ Callee(f).arg \in Nat \ {0}
  BY <1>3 DEF KnownTypes, Resolved, IsLazy, IInv, InternedOK
<1>5. OperandTypes(f) \in Seq(KnownTypes)
  <2>1. \A i \in 1 .. Arity(f) - 1 : f.tys[i] \in KnownTypes
    BY <1>1, <1>2, ElementOfSeq
  <2> DEFINE n == Arity(f) - 1
  <2>2. n \in Nat /\ OperandTypes(f) = SubSeq(f.tys, 1, n)  BY <1>2 DEF OperandTypes
  <2>3. \A i \in 1 .. n : f.tys[i] \in KnownTypes  BY <2>1
  <2> HIDE DEF n
  <2> QED  BY <2>2, <2>3, SubSeqProperties
<1>6. KnownTypes \subseteq Type  BY DEF KnownTypes
<1>7. OperandTypes(f) \in Seq(Type)  BY <1>5, <1>6, SeqMonotone
<1> QED  BY <1>3, <1>4, <1>5, <1>7 DEF CallKey, Key

LEMMA WantedIsValid ==
  ASSUME IInv, NEW f \in Activation, NEW e \in Wants(f)
  PROVE  e \in ValidObjects
<1>1. f.expr \in ValidObjects /\ f.tys \in Seq(KnownTypes)  BY DEF Activation, Frame
<1>2. Kids(f.expr) \in Seq(ValidObjects)  BY <1>1, ObjectFacts
<1>3. Len(f.tys) \in Nat /\ Arity(f) = Len(Kids(f.expr)) /\ Arity(f) \in Nat
  BY <1>1, <1>2, LenProperties DEF Arity
<1>4. CASE Len(f.tys) < Arity(f)
  <2>1. e = Kids(f.expr)[Len(f.tys) + 1]  BY <1>4 DEF Wants
  <2>2. Len(f.tys) + 1 \in 1 .. Len(Kids(f.expr))  BY <1>3, <1>4
  <2> QED  BY <1>2, <2>1, <2>2, ElementOfSeq
<1>5. CASE ~ (Len(f.tys) < Arity(f))
  <2>1. Resolved(f) /\ CallKey(f) \in instances /\ e = Instance(CallKey(f))
    BY <1>5 DEF Wants
  <2>2. CallKey(f) \in Key /\ CallKey(f).id \in DOMAIN interned  BY <2>1, KeyFacts
  <2>3. interned[CallKey(f).id] \in Nodes  BY <2>2 DEF IInv, InternedOK
  <2>4. Nodes \subseteq Nat  BY DEF Nodes
  <2> QED  BY <2>1, <2>2, <2>3, <2>4 DEF Instance, Obj, ValidObjects, Object
<1> QED  BY <1>4, <1>5

(* What get_type may be asked about is an object. *)
LEMMA QueriedIsValid ==
  ASSUME IInv, NEW e \in Objects
  PROVE  e \in ValidObjects
<1>1. Nodes \subseteq Nat  BY DEF Nodes
<1>2. ProgramOK(program)  BY ProgramsAssumption DEF IInv
<1>3. Original \in Key
  <2>1. << >> \in Seq(Type)  OBVIOUS
  <2> QED  BY <2>1 DEF Original, Key
<1>4. ASSUME NEW n \in program.top, e = Obj(Original, n) PROVE e \in ValidObjects
  BY <1>1, <1>2, <1>3, <1>4 DEF ProgramOK, Nodes, Obj, ValidObjects, Object
<1>5. ASSUME NEW k \in instances,
             NEW n \in program.node[interned[k.id]].body \cup {interned[k.id]}, e = Obj(k, n)
      PROVE  e \in ValidObjects
  <2>1. k \in Key /\ interned[k.id] \in Nodes  BY DEF IInv, InstancesOK, InternedOK
  <2>2. n \in Nodes  BY <2>1, SourceFacts DEF IInv
  <2> QED  BY <1>1, <1>5, <2>1, <2>2 DEF Obj, ValidObjects, Object
<1> QED  BY <1>4, <1>5 DEF Objects
-----------------------------------------------------------------------------
(* The tables only grow, and what was known stays known. *)
Grows == /\ program' = program /\ instances \subseteq instances'
         /\ \A id \in DOMAIN interned : id \in DOMAIN interned' /\ interned'[id] = interned[id]

LEMMA Growth ==
  ASSUME Grows
  PROVE  /\ Nodes' = Nodes
         /\ ValidObjects \subseteq ValidObjects' /\ KnownTypes \subseteq KnownTypes'
         /\ Seq(KnownTypes) \subseteq Seq(KnownTypes') /\ Activation \subseteq Activation'
         /\ Seq(Activation) \subseteq Seq(Activation')
<1>1. Nodes' = Nodes /\ ValidObjects \subseteq ValidObjects'
  BY DEF Grows, Nodes, ValidObjects
<1>2. KnownTypes \subseteq KnownTypes'  BY DEF Grows, KnownTypes
<1>3. Seq(KnownTypes) \subseteq Seq(KnownTypes')  BY <1>2, SeqMonotone
<1>4. Activation \subseteq Activation'  BY <1>1, <1>3 DEF Activation, Frame
<1>5. Seq(Activation) \subseteq Seq(Activation')  BY <1>4, SeqMonotone
<1> QED  BY <1>1, <1>2, <1>3, <1>4, <1>5

(* An instance and its parameters outlive every growth of the tables. *)
LEMMA InstancesKept ==
  ASSUME IInv, Grows
  PROVE  \A k \in instances :
           /\ k \in instances' /\ k \in Key /\ k.id \in DOMAIN interned'
           /\ k.tys \in Seq(KnownTypes')
           /\ Params(k.id)' = Params(k.id) /\ Len(Params(k.id)') = Len(k.tys)
<1>1. Seq(KnownTypes) \subseteq Seq(KnownTypes')  BY Growth
<1> QED  BY <1>1 DEF IInv, InstancesOK, Grows, Params

(* The type that is concluded names an interned lambda. *)
LEMMA TypeOfKnown ==
  ASSUME IInv, NEW f \in Activation, Ready(f), ~IllTyped(f.expr, f.tys),
         program' = program, interned' = Intern(f.expr)
  PROVE  TypeOf(f.expr, f.tys) \in KnownTypes'
<1> DEFINE e == f.expr
           tys == f.tys
<1>1. e \in ValidObjects /\ tys \in Seq(KnownTypes) /\ Len(tys) \in Nat
  BY LenProperties DEF Activation, Frame
<1>2. KnownTypes \subseteq KnownTypes'
  BY DEF KnownTypes, Intern, Remember
<1>3. \A i \in 1 .. Len(tys) : tys[i] \in KnownTypes  BY <1>1, ElementOfSeq
<1>4. Arity(f) = Len(Kids(e)) /\ Arity(f) \in Nat
  BY <1>1, ObjectFacts, LenProperties DEF Arity
<1>5. CASE Op(e) = "const"
  <2>1. e.n \in Nodes  BY <1>1, <1>5, ObjectFacts
  <2>2. Src(e).prim \in Nat  BY <2>1, SourceFacts DEF IInv, Src, Node
  <2> QED  BY <1>5, <2>2 DEF TypeOf, Prim, KnownTypes, Type
<1>6. CASE Op(e) = "param"
  BY <1>6 DEF TypeOf, Undecided, KnownTypes, Type
<1>7. CASE Op(e) = "lambda"
  <2>1. LambdaId(e) \in Nat
    <3>1. e.n \in Nodes  BY <1>1, <1>7, ObjectFacts
    <3> QED  BY <3>1, SourceFacts DEF IInv, Src, LambdaId, Node
  <2>2. LambdaId(e) \in DOMAIN interned'  BY <1>7 DEF Intern, Remember
  <2> QED  BY <1>7, <2>1, <2>2 DEF TypeOf, Lazy, KnownTypes, Type
<1>8. CASE Op(e) \in {"symbol", "ret", "block", "call"}
  <2>1. Len(tys) > 0
    <3>1. CASE Op(e) = "call"  BY <1>1, <1>4, <3>1 DEF Ready
    <3>2. CASE Op(e) # "call"
      <4>1. Len(Kids(e)) = 1  BY <1>1, <1>8, <3>2, ObjectFacts
      <4> QED  BY <1>4, <3>2, <4>1 DEF Ready
    <3> QED  BY <3>1, <3>2
  <2>2. tys[Len(tys)] \in KnownTypes  BY <1>1, <1>3, <2>1
  <2>3. TypeOf(e, tys) = tys[Len(tys)]  BY <1>8 DEF TypeOf
  <2> QED  BY <1>2, <2>2, <2>3
<1>9. CASE Op(e) \in {"bin", "compare"}
  <2>1. Len(tys) = 2  BY <1>1, <1>4, <1>9, ObjectFacts DEF Ready
  <2>2. tys[1] \in KnownTypes /\ tys[2] \in KnownTypes  BY <1>3, <2>1
  <2>3. TypeOf(e, tys) \in {Undecided, tys[1], tys[2], Bool}
    BY <1>9 DEF TypeOf, BopCast
  <2>4. {Undecided, Bool} \subseteq KnownTypes'
    BY DEF Undecided, Bool, Prim, KnownTypes, Type
  <2> QED  BY <1>2, <2>2, <2>3, <2>4
<1>10. CASE Op(e) = "if"
  <2>1. Len(tys) = 3  BY <1>1, <1>4, <1>10, ObjectFacts DEF Ready
  <2>2. tys[2] \in KnownTypes /\ tys[3] \in KnownTypes  BY <1>3, <2>1
  <2>3. TypeOf(e, tys) = IfElse(tys[2], tys[3])  BY <1>10 DEF TypeOf
  <2> QED  BY <1>2, <2>2, <2>3 DEF IfElse
<1>11. CASE Op(e) \in {"unary", "addrof", "deref"}
  <2>1. Len(tys) = 1  BY <1>1, <1>4, <1>11, ObjectFacts DEF Ready
  <2>2. tys[1] \in KnownTypes  BY <1>3, <2>1
  <2>3. TypeOf(e, tys) = UnaryOp(Op(e), tys[1])  BY <1>11 DEF TypeOf
  <2>4. CASE tys[1] = Undecided \/ Op(e) = "unary"
    <3>1. UnaryOp(Op(e), tys[1]) = tys[1]  BY <1>11, <2>4 DEF UnaryOp
    <3> QED  BY <1>2, <2>2, <2>3, <3>1
  <2>5. CASE tys[1] # Undecided /\ Op(e) = "addrof"
    <3>1. UnaryOp(Op(e), tys[1]) = Pointer(tys[1])  BY <2>5 DEF UnaryOp
    <3>2. Pointer(tys[1]) \in KnownTypes  BY <2>2 DEF Pointer, KnownTypes, Type
    <3> QED  BY <1>2, <2>3, <3>1, <3>2
  <2>6. CASE tys[1] # Undecided /\ Op(e) = "deref"
    <3>1. UnaryOp(Op(e), tys[1]) = Pointee(tys[1])  BY <2>6 DEF UnaryOp
    <3>2. tys[1].depth # 0  BY <2>6 DEF IllTyped
    <3>3. Pointee(tys[1]) \in KnownTypes  BY <2>2, <3>2 DEF Pointee, KnownTypes, Type
    <3> QED  BY <1>2, <2>3, <3>1, <3>3
  <2> QED  BY <1>11, <2>4, <2>5, <2>6
<1>12. Op(e) \in {"const", "param", "symbol", "ret", "block", "lambda",
                  "bin", "compare", "unary", "addrof", "deref", "if", "call"}
  BY <1>1, ObjectFacts
<1> QED  BY <1>5, <1>6, <1>7, <1>8, <1>9, <1>10, <1>11, <1>12
-----------------------------------------------------------------------------
LEMMA Initially == Init => IInv
<1> SUFFICES ASSUME Init PROVE IInv  OBVIOUS
<1>1. Len(stack) = 0 /\ stack \in Seq(Activation)
  BY EmptySeq DEF Init
<1>2. DOMAIN memo = {} /\ DOMAIN interned = {}
  BY DEF Init
<1> QED
  BY <1>1, <1>2 DEF Init, IInv, InternedOK, InstancesOK, MemoOK, Marked, NoReentry,
                    UndecidedIsTemporary

(* A new activation, for an expression that has no entry. *)
LEMMA BeginStep ==
  ASSUME IInv, NEW e \in ValidObjects, e \notin DOMAIN memo, Begin(e)
  PROVE  IInv'
<1> DEFINE new == [expr |-> e, tys |-> << >>]
<1>1. Grows  BY DEF Begin, Grows
<1>2. /\ program' = program /\ interned' = interned /\ instances' = instances
      /\ poisoned' = poisoned
  BY DEF Begin
<1>3. new \in Activation
  <2>1. << >> \in Seq(KnownTypes)  OBVIOUS
  <2> QED  BY <2>1 DEF Activation, Frame
<1>4. stack \in Seq(Activation) /\ Len(stack) \in Nat
  BY LenProperties DEF IInv
<1>5. /\ stack' \in Seq(Activation) /\ Len(stack') = Len(stack) + 1
      /\ \A i \in 1 .. Len(stack) : stack'[i] = stack[i]
      /\ stack'[Len(stack) + 1] = new
  <2>1. stack' = Append(stack, new)  BY DEF Begin
  <2> HIDE DEF new
  <2> QED  BY <1>3, <1>4, <2>1, Appended
<1>6. /\ DOMAIN memo' = DOMAIN memo \cup {e} /\ memo'[e] = Undecided
      /\ \A x \in DOMAIN memo : memo'[x] = memo[x]
  BY DEF Begin, Remember
<1>7. InternedOK'  BY <1>2 DEF IInv, InternedOK, Nodes
<1>8. KnownTypes' = KnownTypes /\ Activation' = Activation
  BY <1>2 DEF KnownTypes, Activation, Frame, ValidObjects, Nodes
<1>9. InstancesOK'  BY <1>2, <1>8 DEF IInv, InstancesOK, Params
<1>10. MemoOK'
  <2>1. Undecided \in KnownTypes  BY DEF Undecided, KnownTypes, Type
  <2> QED  BY <1>6, <1>8, <2>1 DEF IInv, MemoOK, ValidObjects
<1>11. Marked'
  <2> SUFFICES ASSUME NEW i \in 1 .. Len(stack')
               PROVE  stack'[i].expr \in DOMAIN memo' /\ memo'[stack'[i].expr] = Undecided
    BY DEF Marked
  <2>1. CASE i \in 1 .. Len(stack)  BY <1>5, <1>6, <2>1 DEF IInv, Marked
  <2>2. CASE i = Len(stack) + 1  BY <1>5, <1>6, <2>2
  <2> QED  BY <1>4, <1>5, <2>1, <2>2
<1>12. NoReentry'
  <2> SUFFICES ASSUME NEW i \in 1 .. Len(stack'), NEW j \in 1 .. Len(stack'),
                      stack'[i].expr = stack'[j].expr
               PROVE  i = j
    BY DEF NoReentry
  <2>1. \A k \in 1 .. Len(stack) : stack'[k].expr # e  BY <1>5 DEF IInv, Marked
  <2>2. CASE i \in 1 .. Len(stack) /\ j \in 1 .. Len(stack)
    BY <1>5, <2>2 DEF IInv, NoReentry
  <2>3. CASE i = Len(stack) + 1 \/ j = Len(stack) + 1
    BY <1>4, <1>5, <2>1, <2>3
  <2> QED  BY <1>4, <1>5, <2>2, <2>3
<1>13. UndecidedIsTemporary'
  <2>1. \A i \in 1 .. Len(stack) : i \in 1 .. Len(stack') /\ stack'[i].expr = stack[i].expr
    BY <1>4, <1>5
  <2>2. Stacked \subseteq Stacked'  BY <2>1 DEF Stacked
  <2>3. e \in Stacked'  BY <1>4, <1>5 DEF Stacked
  <2> SUFFICES ASSUME NEW x \in DOMAIN memo', memo'[x] = Undecided
               PROVE  \/ x \in Stacked' \cup poisoned'
                      \/ /\ x.at \in instances'
                         /\ \E i \in DOMAIN x.at.tys :
                              x.at.tys[i] = Undecided /\ x.n = Params(x.at.id)'[i]
    BY DEF UndecidedIsTemporary
  <2>4. CASE x = e  BY <2>3, <2>4
  <2>5. CASE x # e
    <3>1. x \in DOMAIN memo /\ memo[x] = Undecided  BY <1>6, <2>5
    <3> QED  BY <1>2, <2>2, <3>1 DEF IInv, UndecidedIsTemporary, Params
  <2> QED  BY <2>4, <2>5
<1> QED
  BY <1>2, <1>5, <1>7, <1>8, <1>9, <1>10, <1>11, <1>12, <1>13 DEF IInv

(* An answer that is at hand changes no activation's expression. *)
LEMMA HitStep ==
  ASSUME IInv, Hit
  PROVE  IInv'
<1>1. PICK e \in Wants(Top) : e \in DOMAIN memo /\ stack' = Answer(stack, memo[e])
  BY DEF Hit
<1>2. /\ program' = program /\ memo' = memo /\ interned' = interned
      /\ instances' = instances /\ poisoned' = poisoned
  BY DEF Hit
<1>3. /\ stack' \in Seq(Activation) /\ Len(stack') = Len(stack)
      /\ \A i \in 1 .. Len(stack) : stack'[i].expr = stack[i].expr
  <2>1. memo[e] \in KnownTypes /\ stack \in Seq(Activation)
    BY <1>1 DEF IInv, MemoOK
  <2>2. stack \in Seq(Frame(ValidObjects, KnownTypes))  BY <2>1 DEF Activation
  <2>3. /\ Answer(stack, memo[e]) \in Seq(Frame(ValidObjects, KnownTypes))
        /\ Len(Answer(stack, memo[e])) = Len(stack)
        /\ \A i \in 1 .. Len(stack) : Answer(stack, memo[e])[i].expr = stack[i].expr
    BY <2>1, <2>2, AnswerFacts
  <2> QED  BY <1>1, <2>3 DEF Activation
<1>4. KnownTypes' = KnownTypes /\ Activation' = Activation
  BY <1>2 DEF KnownTypes, Activation, Frame, ValidObjects, Nodes
<1>5. InternedOK' /\ InstancesOK' /\ MemoOK'
  BY <1>2, <1>4 DEF IInv, InternedOK, InstancesOK, MemoOK, Params, Nodes
<1>6. Marked' /\ NoReentry'  BY <1>2, <1>3 DEF IInv, Marked, NoReentry
<1>7. UndecidedIsTemporary'
  <2>1. Stacked' = Stacked  BY <1>3 DEF Stacked
  <2> QED  BY <1>2, <2>1 DEF IInv, UndecidedIsTemporary, Params
<1> QED  BY <1>2, <1>3, <1>4, <1>5, <1>6, <1>7 DEF IInv

(* An exception leaves no activation, and remembers which ones it ended. *)
LEMMA ThrowStep ==
  ASSUME IInv, Throw
  PROVE  IInv'
<1>1. /\ program' = program /\ memo' = memo /\ interned' = interned
      /\ instances' = instances /\ stack' = << >>
      /\ poisoned' = poisoned \cup Stacked
  BY DEF Throw, Stacked
<1>2. KnownTypes' = KnownTypes
  BY <1>1 DEF KnownTypes
<1>3. Stacked \subseteq Object
  <2>1. \A i \in 1 .. Len(stack) : stack[i] \in Activation  BY ElementOfSeq DEF IInv
  <2> QED  BY <2>1 DEF Stacked, Activation, Frame, ValidObjects
<1>4. InternedOK' /\ InstancesOK' /\ MemoOK'
  BY <1>1, <1>2 DEF IInv, InternedOK, InstancesOK, MemoOK, Params, Nodes
<1>5. stack' \in Seq(Activation') /\ Len(stack') = 0  BY <1>1, EmptySeq
<1>6. Marked' /\ NoReentry'  BY <1>5 DEF Marked, NoReentry
<1>7. UndecidedIsTemporary'
  BY <1>1 DEF IInv, UndecidedIsTemporary, Params
<1> QED  BY <1>1, <1>3, <1>4, <1>5, <1>6, <1>7 DEF IInv

(* The parameters of a new instance get the types of its key. *)
LEMMA InstantiateStep ==
  ASSUME IInv, Instantiate
  PROVE  IInv'
<1> DEFINE key == CallKey(Top)
           params == Params(key.id)
           new == {Obj(key, params[i]) : i \in DOMAIN params}
<1>1. /\ Busy /\ Resolved(Top) /\ key \notin instances /\ Len(params) = Len(key.tys)
      /\ instances' = instances \cup {key}
      /\ program' = program /\ interned' = interned /\ stack' = stack /\ poisoned' = poisoned
  BY DEF Instantiate
<1>2. memo' = [x \in DOMAIN memo \cup new |->
                 IF x \in DOMAIN memo THEN memo[x] ELSE ParamTypeOf(key, x.n)]
  BY DEF Instantiate
<1>3. key \in Key /\ key.id \in DOMAIN interned /\ key.tys \in Seq(KnownTypes)
  BY <1>1, StackFacts, KeyFacts
<1>4. Grows  BY <1>1 DEF Grows
<1>5. KnownTypes' = KnownTypes  BY <1>1 DEF KnownTypes
<1>6. params \in Seq(Nat) /\ \A i \in 1 .. Len(params) : params[i] \in Nodes
  <2>1. interned[key.id] \in Nodes  BY <1>3 DEF IInv, InternedOK
  <2>2. program.node[interned[key.id]] \in Node  BY <2>1, SourceFacts DEF IInv
  <2> QED  BY <2>1, <2>2, SourceFacts DEF IInv, Params, Node
<1>7. DOMAIN params = 1 .. Len(key.tys) /\ DOMAIN key.tys = 1 .. Len(key.tys)
  BY <1>1, <1>3, <1>6, LenProperties
<1>8. ASSUME NEW x \in new
      PROVE  /\ x \in Object /\ x.at = key
             /\ \E j \in DOMAIN key.tys : x.n = params[j] /\ ParamTypeOf(key, x.n) = key.tys[j]
             /\ ParamTypeOf(key, x.n) \in KnownTypes
  <2>1. PICK i \in DOMAIN params : x = Obj(key, params[i])  BY <1>8
  <2>2. params[i] \in Nodes /\ i \in DOMAIN key.tys  BY <1>1, <1>6, <1>7, <2>1
  <2>3. x \in Object /\ x.at = key /\ x.n = params[i]
    BY <1>3, <2>1, <2>2 DEF Obj, Object, Nodes
  <2> DEFINE j == CHOOSE k \in DOMAIN key.tys : params[k] = x.n
  <2>4. j \in DOMAIN key.tys /\ params[j] = x.n  BY <2>2, <2>3
  <2>5. ParamTypeOf(key, x.n) = key.tys[j]  BY DEF ParamTypeOf
  <2> HIDE DEF j
  <2>6. key.tys[j] \in KnownTypes  BY <1>3, <1>7, <2>4, ElementOfSeq
  <2> QED  BY <2>3, <2>4, <2>5, <2>6
<1> HIDE DEF key, params, new
<1>9. /\ DOMAIN memo' = DOMAIN memo \cup new
      /\ \A x \in DOMAIN memo : memo'[x] = memo[x]
      /\ \A x \in new \ DOMAIN memo : memo'[x] = ParamTypeOf(key, x.n)
  BY <1>2
<1>10. InternedOK'  BY <1>1 DEF IInv, InternedOK, Nodes
<1>11. InstancesOK'
  <2> SUFFICES ASSUME NEW k \in instances'
               PROVE  /\ k \in Key /\ k.id \in DOMAIN interned' /\ k.tys \in Seq(KnownTypes')
                      /\ Len(Params(k.id)') = Len(k.tys)
    BY DEF InstancesOK
  <2>1. CASE k \in instances  BY <1>4, <2>1, InstancesKept
  <2>2. CASE k = key
    <3>1. Params(k.id)' = Params(k.id)  BY <1>1 DEF Params
    <3>2. Len(Params(k.id)) = Len(k.tys)  BY <1>1, <2>2 DEF params
    <3> QED  BY <1>1, <1>3, <1>5, <2>2, <3>1, <3>2
  <2> QED  BY <1>1, <2>1, <2>2
<1>12. MemoOK'  BY <1>5, <1>8, <1>9 DEF IInv, MemoOK
<1>13. stack' \in Seq(Activation')  BY <1>1, <1>4, Growth DEF IInv
<1>14. Marked' /\ NoReentry'  BY <1>1, <1>9 DEF IInv, Marked, NoReentry
<1>15. UndecidedIsTemporary'
  <2> SUFFICES ASSUME NEW x \in DOMAIN memo', memo'[x] = Undecided
               PROVE  \/ x \in Stacked' \cup poisoned'
                      \/ /\ x.at \in instances'
                         /\ \E i \in DOMAIN x.at.tys :
                              x.at.tys[i] = Undecided /\ x.n = Params(x.at.id)'[i]
    BY DEF UndecidedIsTemporary
  <2>1. Stacked' = Stacked  BY <1>1 DEF Stacked
  <2>2. CASE x \in DOMAIN memo
    <3>1. memo[x] = Undecided  BY <1>9, <2>2
    <3> QED  BY <1>1, <2>1, <2>2, <3>1 DEF IInv, UndecidedIsTemporary, Params
  <2>3. CASE x \in new \ DOMAIN memo
    <3>1. x.at = key /\ \E j \in DOMAIN key.tys : x.n = params[j] /\ Undecided = key.tys[j]
      BY <1>8, <1>9, <2>3
    <3>2. Params(x.at.id)' = Params(x.at.id)  BY <1>1 DEF Params
    <3>3. Params(x.at.id) = params  BY <3>1 DEF params
    <3> QED  BY <1>1, <3>1, <3>2, <3>3
  <2> QED  BY <1>9, <2>2, <2>3
<1> QED
  BY <1>1, <1>10, <1>11, <1>12, <1>13, <1>14, <1>15 DEF IInv

(* The innermost expression is settled and its type handed down. *)
LEMMA ConcludeStep ==
  ASSUME IInv, Conclude
  PROVE  IInv'
<1> DEFINE e == Top.expr
           t == TypeOf(Top.expr, Top.tys)
<1>1. /\ Busy /\ Ready(Top) /\ ~IllTyped(Top.expr, Top.tys)
      /\ memo' = Settle(e, t) /\ stack' = Answer(Rest, t) /\ interned' = Intern(e)
      /\ program' = program /\ instances' = instances /\ poisoned' = poisoned
  BY DEF Conclude
<1>2. /\ Len(stack) \in Nat \ {0} /\ Top \in Activation /\ Top = stack[Len(stack)]
      /\ Rest \in Seq(Activation) /\ Len(Rest) = Len(stack) - 1
      /\ \A i \in 1 .. Len(stack) - 1 : Rest[i] = stack[i]
  BY <1>1, StackFacts
<1>3. e \in ValidObjects  BY <1>2 DEF Activation, Frame
<1>4. t \in KnownTypes'  BY <1>1, <1>2, TypeOfKnown
<1>5. Grows  BY <1>1 DEF Grows, Intern, Remember
<1> HIDE DEF e, t
<1>6. /\ stack' \in Seq(Activation') /\ Len(stack') = Len(stack) - 1
      /\ \A i \in 1 .. Len(stack) - 1 : stack'[i].expr = stack[i].expr
  <2>1. Rest \in Seq(Activation')  BY <1>2, <1>5, Growth
  <2>2. Rest \in Seq(Frame(ValidObjects', KnownTypes'))  BY <2>1 DEF Activation, Frame
  <2>3. /\ Answer(Rest, t) \in Seq(Frame(ValidObjects', KnownTypes'))
        /\ Len(Answer(Rest, t)) = Len(Rest)
        /\ \A i \in 1 .. Len(Rest) : Answer(Rest, t)[i].expr = Rest[i].expr
    BY <1>4, <2>2, AnswerFacts
  <2> QED  BY <1>1, <1>2, <2>3 DEF Activation, Frame
<1>7. \A i \in 1 .. Len(stack) - 1 : stack[i].expr # e
  BY <1>2 DEF IInv, NoReentry, e
<1>8. /\ DOMAIN memo' \subseteq DOMAIN memo \cup {e}
      /\ \A x \in DOMAIN memo : x # e => x \in DOMAIN memo' /\ memo'[x] = memo[x]
      /\ e \in DOMAIN memo' => t # Undecided /\ memo'[e] = t
  <2>1. CASE t = Undecided  BY <1>1, <2>1 DEF Settle, Forget
  <2>2. CASE t # Undecided  BY <1>1, <2>2 DEF Settle, Remember
  <2> QED  BY <2>1, <2>2
<1>9. InternedOK'
  <2>1. CASE Op(e) = "lambda" /\ LambdaId(e) \notin DOMAIN interned
    <3>1. Src(e).op = "lambda" /\ e.n \in Nodes  BY <1>3, <2>1, ObjectFacts
    <3>2. LambdaId(e) \in Nat \ {0}
      <4>1. Src(e) \in Node  BY <3>1, SourceFacts DEF IInv, Src
      <4>2. Src(e).id > 0  BY <3>1, SourceFacts DEF IInv, Src
      <4> QED  BY <4>1, <4>2 DEF LambdaId, Node
    <3>3. interned' = Remember(interned, LambdaId(e), e.n)  BY <1>1, <2>1 DEF Intern
    <3> QED  BY <1>1, <3>1, <3>2, <3>3 DEF IInv, InternedOK, Remember, Nodes, Src
  <2>2. CASE ~ (Op(e) = "lambda" /\ LambdaId(e) \notin DOMAIN interned)
    <3>1. interned' = interned  BY <1>1, <2>2 DEF Intern
    <3> QED  BY <1>1, <3>1 DEF IInv, InternedOK, Nodes
  <2> QED  BY <2>1, <2>2
<1>10. InstancesOK'  BY <1>1, <1>5, InstancesKept DEF InstancesOK
<1>11. MemoOK'
  <2>1. KnownTypes \subseteq KnownTypes'  BY <1>5, Growth
  <2>2. e \in Object  BY <1>3 DEF ValidObjects
  <2> QED  BY <1>4, <1>8, <2>1, <2>2 DEF IInv, MemoOK
<1>12. Marked'  BY SMTT(30), <1>2, <1>6, <1>7, <1>8 DEF IInv, Marked
<1>13. NoReentry'  BY SMTT(30), <1>2, <1>6 DEF IInv, NoReentry
<1>14. UndecidedIsTemporary'
  <2> SUFFICES ASSUME NEW x \in DOMAIN memo', memo'[x] = Undecided
               PROVE  \/ x \in Stacked' \cup poisoned'
                      \/ /\ x.at \in instances'
                         /\ \E i \in DOMAIN x.at.tys :
                              x.at.tys[i] = Undecided /\ x.n = Params(x.at.id)'[i]
    BY DEF UndecidedIsTemporary
  <2>1. x \in DOMAIN memo /\ x # e /\ memo[x] = Undecided  BY <1>8
  <2>2. CASE x \in Stacked
    <3>1. PICK i \in 1 .. Len(stack) : x = stack[i].expr  BY <2>2 DEF Stacked
    <3>2. i \in 1 .. Len(stack) - 1  BY <1>2, <2>1, <3>1 DEF e
    <3> QED  BY <1>6, <3>1, <3>2 DEF Stacked
  <2>3. CASE x \in poisoned  BY <1>1, <2>3
  <2>4. CASE /\ x.at \in instances
             /\ \E i \in DOMAIN x.at.tys :
                  x.at.tys[i] = Undecided /\ x.n = Params(x.at.id)[i]
    BY <1>1, <1>5, <2>4, InstancesKept
  <2> QED  BY <2>1, <2>2, <2>3, <2>4 DEF IInv, UndecidedIsTemporary
<1> QED
  BY <1>1, <1>6, <1>9, <1>10, <1>11, <1>12, <1>13, <1>14 DEF IInv

LEMMA Inductive == IInv /\ [Next]_vars => IInv'
<1> SUFFICES ASSUME IInv, [Next]_vars PROVE IInv'  OBVIOUS
<1>1. CASE Hit  BY <1>1, HitStep
<1>2. CASE Visit
  <2>1. PICK e \in Wants(Top) : e \notin DOMAIN memo /\ Begin(e)  BY <1>2 DEF Visit
  <2>2. Top \in Activation  BY <1>2, StackFacts DEF Visit
  <2> QED  BY <2>1, <2>2, WantedIsValid, BeginStep
<1>3. CASE Instantiate  BY <1>3, InstantiateStep
<1>4. CASE Conclude  BY <1>4, ConcludeStep
<1>5. CASE RuleViolation \/ NotAFunction \/ WrongArity
  BY <1>5, ThrowStep DEF RuleViolation, NotAFunction, WrongArity
<1>6. CASE \E e \in Objects : Query(e)
  <2>1. PICK e \in Objects : Query(e)  BY <1>6
  <2> QED  BY <2>1, QueriedIsValid, BeginStep DEF Query
<1>7. CASE UNCHANGED vars
  <2>1. KnownTypes' = KnownTypes /\ Activation' = Activation
    BY <1>7 DEF vars, KnownTypes, Activation, ValidObjects, Nodes
  <2> QED
    BY <1>7, <2>1 DEF vars, IInv, InternedOK, InstancesOK, MemoOK, Marked, NoReentry,
                      UndecidedIsTemporary, Stacked, Params, Nodes
<1>8. CASE \E e \in Objects : Known(e)  BY <1>7, <1>8 DEF Known
<1> QED
  BY <1>1, <1>2, <1>3, <1>4, <1>5, <1>6, <1>7, <1>8 DEF Next, Step

LEMMA InvariantHolds == Spec => []IInv
<1> QED  BY Initially, Inductive, PTL DEF Spec
-----------------------------------------------------------------------------
(* get_type keeps its tables well typed, whatever the programs are          *)
(* (type.cpp 16-169).                                                       *)
THEOREM TypeCorrect == Spec => []TypeOK
<1>1. IInv => TypeOK
  <2> SUFFICES ASSUME IInv PROVE TypeOK  OBVIOUS
  <2>1. KnownTypes \subseteq Type  BY DEF KnownTypes
  <2>2. Seq(KnownTypes) \subseteq Seq(Type)  BY <2>1, SeqMonotone
  <2>3. Activation \subseteq [expr: Object, tys: Seq(Type)]
    BY <2>2 DEF Activation, Frame, ValidObjects
  <2>4. stack \in Seq([expr: Object, tys: Seq(Type)])  BY <2>3, SeqMonotone DEF IInv
  <2> QED  BY <2>1, <2>4 DEF IInv, TypeOK, MemoOK, InternedOK, InstancesOK, Nodes
<1> QED  BY <1>1, InvariantHolds, PTL

(* However functions call each other, no expression is being typed twice at *)
(* a time (type.cpp 153-169).                                               *)
THEOREM NoExpressionTwice == Spec => []NoReentry
<1>1. IInv => NoReentry  BY DEF IInv
<1> QED  BY <1>1, InvariantHolds, PTL

(* get_type leaves no mark behind, except those of a failed typing          *)
(* (type.cpp 157-168).                                                      *)
THEOREM MarksAreTemporary == Spec => []UndecidedIsTemporary
<1>1. IInv => UndecidedIsTemporary  BY DEF IInv
<1> QED  BY <1>1, InvariantHolds, PTL

(* An expression is visited only when it has no entry, and settled only     *)
(* when its entry is a mark.                                                *)
LEMMA TypesKept ==
  ASSUME IInv, [Next]_vars, NEW e \in DOMAIN memo, memo[e] # Undecided
  PROVE  e \in DOMAIN memo' /\ memo'[e] = memo[e]
<1>1. CASE memo' = memo  BY <1>1
<1>2. ASSUME NEW x, x \notin DOMAIN memo, Begin(x)
      PROVE  e \in DOMAIN memo' /\ memo'[e] = memo[e]
  BY <1>2 DEF Begin, Remember
<1>3. CASE Instantiate  BY <1>3 DEF Instantiate
<1>4. CASE Conclude
  <2>1. Top.expr \in DOMAIN memo /\ memo[Top.expr] = Undecided
    <3>1. Len(stack) \in 1 .. Len(stack) /\ Top = stack[Len(stack)]
      BY <1>4, StackFacts DEF Conclude
    <3> QED  BY <3>1 DEF IInv, Marked
  <2>2. memo' = Settle(Top.expr, TypeOf(Top.expr, Top.tys))  BY <1>4 DEF Conclude
  <2> QED  BY <2>1, <2>2 DEF Settle, Forget, Remember
<1> QED
  BY <1>1, <1>2, <1>3, <1>4
  DEF Next, Step, Hit, Visit, RuleViolation, NotAFunction, WrongArity, Throw, Known, Query,
      vars

(* A type once remembered is neither changed nor forgotten, whatever is     *)
(* asked or fails later (type.cpp 153-169).                                 *)
THEOREM TypesStayFinal == Spec => TypesAreFinal
<1>1. ASSUME IInv, [Next]_vars
      PROVE  [\A e \in DOMAIN memo : memo[e] # Undecided =>
                e \in DOMAIN memo' /\ memo'[e] = memo[e]]_vars
  BY <1>1, TypesKept
<1> QED  BY <1>1, InvariantHolds, PTL DEF Spec, TypesAreFinal

-----------------------------------------------------------------------------
(* What an activation asks for as its j-th question. *)
Question(f, j) == IF j <= Arity(f) THEN Kids(f.expr)[j] ELSE Instance(CallKey(f))

Remembered(e, t) == e \in DOMAIN memo /\ memo[e] = t

Told(f) ==
  /\ \/ Len(f.tys) <= Arity(f)
     \/ /\ Op(f.expr) = "call" /\ Len(f.tys) = Arity(f) + 1
        /\ CallKey(f) \in instances
  /\ \A j \in 1 .. Len(f.tys) :
       f.tys[j] # Undecided => Remembered(Question(f, j), f.tys[j])

(* An activation works for the one below it. *)
Asked == \A i \in 1 .. Len(stack) - 1 : stack[i + 1].expr \in Wants(stack[i])

(* The lambda that an id leads to has been typed. *)
FirstKept ==
  \A id \in DOMAIN interned :
    /\ program.node[interned[id]].id = id
    /\ \E first \in DOMAIN memo :
         first.n = interned[id] /\ Op(first) = "lambda" /\ memo[first] = Lazy(id)

FInv == /\ IInv /\ DOMAIN memo \subseteq ValidObjects
        /\ \A i \in 1 .. Len(stack) : Told(stack[i])
        /\ Asked /\ FirstKept /\ TypesFit
-----------------------------------------------------------------------------
(* What the tables say of an object does not change when they grow. *)
LEMMA ObjectStays ==
  ASSUME IInv, Grows, NEW e \in ValidObjects
  PROVE  /\ IsInstance(e)' <=> IsInstance(e)
         /\ Src(e)' = Src(e) /\ Op(e)' = Op(e) /\ Kids(e)' = Kids(e)
<1>1. program' = program  BY DEF Grows
<1>2. e.at # Original => interned'[e.at.id] = interned[e.at.id]
  BY DEF Grows, ValidObjects, IInv, InstancesOK
<1>3. IsInstance(e)' <=> IsInstance(e)  BY <1>2 DEF IsInstance
<1>4. Src(e)' = Src(e)  BY <1>1 DEF Src
<1>5. Op(e)' = Op(e)  BY <1>3, <1>4 DEF Op
<1>6. Kids(e)' = Kids(e)  BY <1>1, <1>4, <1>5 DEF Kids, Copy, Clones
<1> QED  BY <1>3, <1>4, <1>5, <1>6

LEMMA InstanceStays ==
  ASSUME IInv, Grows, NEW k, k \in instances \/ k.id \in DOMAIN interned
  PROVE  Instance(k)' = Instance(k)
BY DEF IInv, InstancesOK, Grows, Instance

LEMMA FrameFacts ==
  ASSUME IInv, NEW f \in Activation
  PROVE  /\ f.expr \in ValidObjects /\ f.tys \in Seq(KnownTypes) /\ Len(f.tys) \in Nat
         /\ \A j \in 1 .. Len(f.tys) : f.tys[j] \in KnownTypes
         /\ Kids(f.expr) \in Seq(ValidObjects)
         /\ Arity(f) = Len(Kids(f.expr)) /\ Arity(f) \in Nat
         /\ Op(f.expr) = "call" => Arity(f) > 0
<1>1. f.expr \in ValidObjects /\ f.tys \in Seq(KnownTypes)  BY DEF Activation, Frame
<1>2. Kids(f.expr) \in Seq(ValidObjects)  BY <1>1, ObjectFacts
<1>3. Op(f.expr) = "call" => Len(Kids(f.expr)) > 0  BY <1>1, ObjectFacts
<1> QED  BY <1>1, <1>2, <1>3, ElementOfSeq, LenProperties DEF Arity

(* Nor does what an activation asks for. *)
LEMMA QuestionsStay ==
  ASSUME IInv, Grows, NEW f \in Activation
  PROVE  /\ Arity(f)' = Arity(f) /\ CallKey(f)' = CallKey(f)
         /\ \A j : j <= Arity(f) \/ CallKey(f) \in instances => Question(f, j)' = Question(f, j)
         /\ Wants(f) \subseteq Wants(f)'
<1>1. /\ Op(f.expr)' = Op(f.expr) /\ Kids(f.expr)' = Kids(f.expr)
  BY FrameFacts, ObjectStays
<1>2. Arity(f)' = Arity(f)  BY <1>1 DEF Arity
<1>3. CallKey(f)' = CallKey(f)  BY <1>2 DEF CallKey, Callee, OperandTypes
<1>4. ASSUME NEW j, j <= Arity(f) \/ CallKey(f) \in instances
      PROVE  Question(f, j)' = Question(f, j)
  <2>1. CASE j <= Arity(f)  BY <1>1, <1>2, <2>1 DEF Question
  <2>2. CASE ~(j <= Arity(f))
    <3>1. PICK k : k = CallKey(f)  OBVIOUS
    <3>2. Instance(k)' = Instance(k)  BY <1>4, <2>2, <3>1, InstanceStays
    <3>3. Instance(CallKey(f))' = Instance(k)'  BY <1>3, <3>1 DEF Instance
    <3> QED  BY <1>2, <2>2, <3>1, <3>2, <3>3 DEF Question
  <2> QED  BY <2>1, <2>2
<1>5. ASSUME NEW e \in Wants(f) PROVE e \in Wants(f)'
  <2>1. CASE Len(f.tys) < Arity(f)
    <3>1. e = Kids(f.expr)[Len(f.tys) + 1]  BY <2>1 DEF Wants
    <3> QED  BY <1>1, <1>2, <2>1, <3>1 DEF Wants
  <2>2. CASE ~(Len(f.tys) < Arity(f))
    <3>1. Resolved(f) /\ CallKey(f) \in instances /\ e = Instance(CallKey(f))
      BY <2>2 DEF Wants
    <3>2. PICK k : k = CallKey(f)  OBVIOUS
    <3>3. Instance(k)' = Instance(k)  BY <3>1, <3>2, InstanceStays
    <3>4. Instance(CallKey(f))' = Instance(k)'  BY <1>3, <3>2 DEF Instance
    <3>5. Resolved(f)'  BY <1>1, <1>2, <3>1 DEF Resolved, CalleeKnown, Callee
    <3>6. CallKey(f)' \in instances'  BY <1>3, <3>1 DEF Grows
    <3> QED  BY <1>2, <2>2, <3>1, <3>2, <3>3, <3>4, <3>5, <3>6 DEF Wants
  <2> QED  BY <2>1, <2>2
<1> QED  BY <1>2, <1>3, <1>4, <1>5

(* What is remembered stays remembered. *)
Keeps == /\ Grows
         /\ \A e \in DOMAIN memo : memo[e] # Undecided => e \in DOMAIN memo' /\ memo'[e] = memo[e]

LEMMA ToldStays ==
  ASSUME IInv, Keeps, NEW f \in Activation, Told(f)
  PROVE  Told(f)'
<1>1. /\ Arity(f)' = Arity(f) /\ CallKey(f)' = CallKey(f)
      /\ \A j : j <= Arity(f) \/ CallKey(f) \in instances => Question(f, j)' = Question(f, j)
  BY QuestionsStay DEF Keeps
<1>2. Op(f.expr)' = Op(f.expr)  BY FrameFacts, ObjectStays DEF Keeps
<1>3. CallKey(f) \in instances => CallKey(f)' \in instances'  BY <1>1 DEF Keeps, Grows
<1>4. ASSUME NEW j \in 1 .. Len(f.tys), f.tys[j] # Undecided
      PROVE  Remembered(Question(f, j), f.tys[j])'
  <2>1. Remembered(Question(f, j), f.tys[j])  BY <1>4 DEF Told
  <2>2. j <= Arity(f) \/ CallKey(f) \in instances
    <3>1. Len(f.tys) \in Nat /\ Arity(f) \in Nat  BY FrameFacts
    <3> QED  BY <3>1 DEF Told
  <2>3. Question(f, j)' = Question(f, j)  BY <1>1, <2>2
  <2> QED  BY <1>4, <2>1, <2>3 DEF Remembered, Keeps
<1> QED  BY <1>1, <1>2, <1>3, <1>4 DEF Told

(* The operand types of a call are the same when one more type is known. *)
LEMMA SamePrefix ==
  ASSUME NEW S, NEW s \in Seq(S), NEW t \in S, NEW n \in Nat, n <= Len(s)
  PROVE  SubSeq(Append(s, t), 1, n) = SubSeq(s, 1, n)
<1>1. /\ Append(s, t) \in Seq(S) /\ Len(s) \in Nat
      /\ \A i \in 1 .. Len(s) : Append(s, t)[i] = s[i]
      /\ Len(Append(s, t)) = Len(s) + 1
  BY Appended
<1>2. \A i \in 1 .. n : i \in 1 .. Len(s)  BY <1>1
<1>3. \A i \in 1 .. n : s[i] \in S /\ Append(s, t)[i] = s[i]  BY <1>1, <1>2, ElementOfSeq
<1>4. \A i \in 1 .. n : Append(s, t)[i] \in S  BY <1>3
<1>5. PICK u : u = Append(s, t)  OBVIOUS
<1>6. /\ SubSeq(u, 1, n) \in Seq(S)
      /\ Len(SubSeq(u, 1, n)) = IF 1 <= n THEN n - 1 + 1 ELSE 0
      /\ \A i \in 1 .. n - 1 + 1 : SubSeq(u, 1, n)[i] = u[1 + i - 1]
  BY <1>4, <1>5, SubSeqProperties
<1>7. /\ SubSeq(s, 1, n) \in Seq(S)
      /\ Len(SubSeq(s, 1, n)) = IF 1 <= n THEN n - 1 + 1 ELSE 0
      /\ \A i \in 1 .. n - 1 + 1 : SubSeq(s, 1, n)[i] = s[1 + i - 1]
  BY <1>3, SubSeqProperties
<1>8. /\ Len(SubSeq(u, 1, n)) = n /\ Len(SubSeq(s, 1, n)) = n
      /\ \A i \in 1 .. n : SubSeq(u, 1, n)[i] = SubSeq(s, 1, n)[i]
  <2>1. n - 1 + 1 = n  OBVIOUS
  <2>2. \A i \in 1 .. n : 1 + i - 1 = i  OBVIOUS
  <2> QED  BY <1>3, <1>5, <1>6, <1>7, <2>1, <2>2
<1> QED  BY <1>5, <1>6, <1>7, <1>8, SeqEqual

(* An activation that is given the type of what it asked for has been told. *)
LEMMA ToldMore ==
  ASSUME IInv, Keeps, NEW f \in Activation, Told(f), NEW e \in Wants(f), NEW t \in KnownTypes',
         t # Undecided => e \in DOMAIN memo' /\ memo'[e] = t,
         NEW g, g = [expr |-> f.expr, tys |-> Append(f.tys, t)]
  PROVE  Told(g)'
<1>1. /\ f.expr \in ValidObjects /\ Len(f.tys) \in Nat /\ Arity(f) \in Nat
      /\ f.tys \in Seq(KnownTypes') /\ Arity(f) = Len(Kids(f.expr))
      /\ Op(f.expr) = "call" => Arity(f) > 0
  BY FrameFacts, Growth DEF Keeps
<1>2. PICK S : S = KnownTypes'  OBVIOUS
<1>3. /\ Len(g.tys) = Len(f.tys) + 1
      /\ \A j \in 1 .. Len(f.tys) : g.tys[j] = f.tys[j]
      /\ g.tys[Len(f.tys) + 1] = t
  BY <1>1, <1>2, Appended
<1>4. /\ Op(f.expr)' = Op(f.expr) /\ Kids(f.expr)' = Kids(f.expr) /\ g.expr = f.expr
  BY <1>1, ObjectStays DEF Keeps
<1>5. Arity(g)' = Arity(f) /\ Op(g.expr)' = Op(f.expr)  BY <1>1, <1>4 DEF Arity
<1>6. Told(f)'  BY ToldStays
<1>7. ASSUME NEW j \in 1 .. Len(g.tys), g.tys[j] # Undecided,
             j <= Len(f.tys) => Question(g, j)' = Question(f, j)',
             j = Len(f.tys) + 1 => Question(g, j)' = e
      PROVE  Remembered(Question(g, j), g.tys[j])'
  <2>1. CASE j \in 1 .. Len(f.tys)
    <3>1. g.tys[j] = f.tys[j] /\ Question(g, j)' = Question(f, j)'  BY <1>3, <1>7, <2>1
    <3>2. Remembered(Question(f, j), f.tys[j])'  BY <1>6, <1>7, <2>1, <3>1 DEF Told
    <3> QED  BY <3>1, <3>2 DEF Remembered
  <2>2. CASE j = Len(f.tys) + 1
    <3>1. g.tys[j] = t /\ Question(g, j)' = e  BY <1>3, <1>7, <2>2
    <3> QED  BY <1>7, <3>1 DEF Remembered
  <2>3. j \in 1 .. Len(f.tys) \/ j = Len(f.tys) + 1  BY <1>1, <1>3
  <2> QED  BY <2>1, <2>2, <2>3
<1>8. CASE Len(f.tys) < Arity(f)
  <2>1. e = Kids(f.expr)[Len(f.tys) + 1]  BY <1>8 DEF Wants
  <2>2. \A j \in 1 .. Len(g.tys) : j <= Arity(f)  BY <1>1, <1>3, <1>8
  <2>3. Arity(f)' = Arity(f)  BY <1>4 DEF Arity
  <2>4. \A j \in 1 .. Len(g.tys) : /\ Question(g, j)' = Kids(f.expr)[j]
                                   /\ Question(f, j)' = Kids(f.expr)[j]
    BY <1>4, <1>5, <2>2, <2>3 DEF Question
  <2>5. Len(g.tys) <= Arity(g)'  BY <1>1, <1>3, <1>5, <1>8
  <2> QED  BY <1>7, <2>1, <2>4, <2>5 DEF Told
<1>9. CASE ~(Len(f.tys) < Arity(f))
  <2>1. Resolved(f) /\ CallKey(f) \in instances /\ e = Instance(CallKey(f))
    BY <1>9 DEF Wants
  <2>2. Op(f.expr) = "call" /\ Len(f.tys) = Arity(f)  BY <2>1 DEF Resolved, CalleeKnown
  <2>3. /\ Arity(f)' = Arity(f) /\ CallKey(f)' = CallKey(f)
        /\ \A j : Question(f, j)' = Question(f, j)
    BY <2>1, QuestionsStay DEF Keeps
  <2>4. CallKey(g)' = CallKey(f)
    <3>1. PICK a : a = Arity(f)  OBVIOUS
    <3>2. a \in Nat /\ a > 0 /\ a = Len(f.tys)  BY <1>1, <2>2, <3>1
    <3>3. a \in 1 .. Len(f.tys) /\ a - 1 \in Nat /\ a - 1 <= Len(f.tys)  BY <3>2
    <3>4. g.tys[a] = f.tys[a]  BY <1>3, <3>3
    <3>5. g.tys = Append(f.tys, t)  OBVIOUS
    <3>6. SubSeq(g.tys, 1, a - 1) = SubSeq(f.tys, 1, a - 1)
      BY <1>1, <1>2, <3>3, <3>5, SamePrefix
    <3>7. Callee(g)' = f.tys[a] /\ OperandTypes(g)' = SubSeq(f.tys, 1, a - 1)
      BY <1>5, <3>1, <3>4, <3>6 DEF Callee, OperandTypes
    <3>8. Callee(f) = f.tys[a] /\ OperandTypes(f) = SubSeq(f.tys, 1, a - 1)
      BY <3>1 DEF Callee, OperandTypes
    <3> QED  BY <3>7, <3>8 DEF CallKey
  <2>5. \A j : Question(g, j)' = Question(f, j)'
    BY <1>4, <1>5, <2>3, <2>4 DEF Question, Instance
  <2>6. ASSUME NEW j, j = Len(f.tys) + 1 PROVE Question(f, j)' = e
    <3>1. ~(j <= Arity(f))  BY <1>1, <2>2, <2>6
    <3>2. Question(f, j) = Instance(CallKey(f))  BY <3>1 DEF Question
    <3> QED  BY <2>1, <2>3, <3>2
  <2>7. CallKey(g)' \in instances'  BY <2>1, <2>4 DEF Keeps, Grows
  <2>8. Len(g.tys) = Arity(g)' + 1 /\ Op(g.expr)' = "call"  BY <1>3, <1>5, <2>2
  <2> QED  BY <1>7, <2>5, <2>6, <2>7, <2>8 DEF Told
<1> QED  BY <1>8, <1>9
-----------------------------------------------------------------------------
(* What follows from the types s of the operands follows from the types u,  *)
(* which say the same where s says something.                               *)
LEMMA Follows ==
  ASSUME IInv, NEW e \in ValidObjects, NEW s, NEW u,
         Len(s) = Len(Kids(e)), Len(u) = Len(Kids(e)),
         \A i \in 1 .. Len(Kids(e)) : s[i] # Undecided => u[i] = s[i],
         Op(e) \notin {"param", "call"}, TypeOf(e, s) # Undecided, ~IllTyped(e, s)
  PROVE  IF Op(e) = "if" THEN TypeOf(e, s) \in {u[2], u[3]}
         ELSE ~IllTyped(e, u) /\ TypeOf(e, s) = TypeOf(e, u)
<1>1. CASE Op(e) \in {"const", "lambda"}  BY <1>1 DEF TypeOf, IllTyped
<1>2. CASE Op(e) \in {"symbol", "ret", "block"}
  <2>1. Len(Kids(e)) = 1  BY <1>2, ObjectFacts
  <2>2. TypeOf(e, s) = s[1] /\ TypeOf(e, u) = u[1]  BY <1>2, <2>1 DEF TypeOf
  <2>3. 1 \in 1 .. Len(Kids(e))  BY <2>1
  <2> QED  BY <1>2, <2>2, <2>3 DEF IllTyped
<1>3. CASE Op(e) \in {"bin", "compare"}
  <2>1. 1 \in 1 .. Len(Kids(e)) /\ 2 \in 1 .. Len(Kids(e))
    <3>1. Len(Kids(e)) = 2  BY <1>3, ObjectFacts
    <3> QED  BY <3>1
  <2>2. TypeOf(e, s) = IF Undecided \in {s[1], s[2]} THEN Undecided
                       ELSE IF Op(e) = "bin" THEN BopCast(s[1], s[2]) ELSE Bool
    BY <1>3 DEF TypeOf
  <2>3. s[1] # Undecided /\ s[2] # Undecided  BY <2>2
  <2>4. u[1] = s[1] /\ u[2] = s[2]  BY <2>1, <2>3
  <2>5. TypeOf(e, u) = TypeOf(e, s)  BY <1>3, <2>4 DEF TypeOf
  <2>6. IllTyped(e, u) <=> IllTyped(e, s)  BY <1>3, <2>4 DEF IllTyped
  <2> QED  BY <1>3, <2>5, <2>6
<1>4. CASE Op(e) = "if"
  <2>1. 2 \in 1 .. Len(Kids(e)) /\ 3 \in 1 .. Len(Kids(e))
    <3>1. Len(Kids(e)) = 3  BY <1>4, ObjectFacts
    <3> QED  BY <3>1
  <2>2. TypeOf(e, s) = IfElse(s[2], s[3])  BY <1>4 DEF TypeOf
  <2> QED  BY <1>4, <2>1, <2>2 DEF IfElse
<1>5. CASE Op(e) \in {"unary", "addrof", "deref"}
  <2>1. 1 \in 1 .. Len(Kids(e))
    <3>1. Len(Kids(e)) = 1  BY <1>5, ObjectFacts
    <3> QED  BY <3>1
  <2>2. TypeOf(e, s) = UnaryOp(Op(e), s[1]) /\ TypeOf(e, u) = UnaryOp(Op(e), u[1])
    BY <1>5 DEF TypeOf
  <2>3. s[1] # Undecided  BY <2>2 DEF UnaryOp
  <2>4. u[1] = s[1]  BY <2>1, <2>3
  <2>5. IllTyped(e, u) <=> IllTyped(e, s)  BY <1>5, <2>4 DEF IllTyped
  <2> QED  BY <1>5, <2>2, <2>4, <2>5
<1> QED  BY <1>1, <1>2, <1>3, <1>4, <1>5, ObjectFacts

(* The types of the operands as the table has them. *)
KidTypes(e) == [i \in DOMAIN Kids(e) |-> TypeIn(Kids(e)[i])]
Fits(e) ==
  IF Op(e) = "call"
  THEN \E k \in instances :
         k.id = KidTypes(e)[Len(KidTypes(e))].arg /\ TypeIn(Instance(k)) = memo[e]
  ELSE IF Op(e) = "if" THEN memo[e] \in {KidTypes(e)[2], KidTypes(e)[3]}
  ELSE ~IllTyped(e, KidTypes(e)) /\ memo[e] = TypeOf(e, KidTypes(e))

LEMMA FitsMeans ==
  TypesFit <=> \A e \in DOMAIN memo : memo[e] # Undecided /\ Op(e) # "param" => Fits(e)
BY DEF TypesFit, Fits, KidTypes

LEMMA LenOfFunction ==
  ASSUME NEW n \in Nat, NEW k, k = [i \in 1 .. n |-> k[i]]
  PROVE  Len(k) = n
<1>1. PICK T : T = {k[i] : i \in 1 .. n}  OBVIOUS
<1>2. k \in [1 .. n -> T]  BY <1>1
<1>3. k \in Seq(T)  BY <1>2, SeqDef
<1>4. DOMAIN k = 1 .. Len(k) /\ Len(k) \in Nat  BY <1>3, LenProperties
<1> QED  BY <1>2, <1>4

LEMMA KidTypesFacts ==
  ASSUME IInv, NEW e \in ValidObjects
  PROVE  /\ Len(KidTypes(e)) = Len(Kids(e)) /\ Len(Kids(e)) \in Nat
         /\ \A i \in 1 .. Len(Kids(e)) : KidTypes(e)[i] = TypeIn(Kids(e)[i])
<1>1. DOMAIN Kids(e) = 1 .. Len(Kids(e)) /\ Len(Kids(e)) \in Nat
  BY ObjectFacts, LenProperties
<1>2. PICK n, k : n = Len(Kids(e)) /\ k = KidTypes(e)  OBVIOUS
<1>3. k = [i \in 1 .. n |-> k[i]] /\ \A i \in 1 .. n : k[i] = TypeIn(Kids(e)[i])
  BY <1>1, <1>2 DEF KidTypes
<1> QED  BY <1>1, <1>2, <1>3, LenOfFunction

(* What has a type in the table keeps it. *)
LEMMA TypeInStays ==
  ASSUME Keeps, NEW e, TypeIn(e) # Undecided
  PROVE  TypeIn(e)' = TypeIn(e)
BY DEF Keeps, TypeIn

(* The types of the operands in the next state. *)
LEMMA KidTypesAfter ==
  ASSUME IInv, Grows, NEW e \in ValidObjects
  PROVE  /\ Len(KidTypes(e)') = Len(Kids(e))
         /\ \A i \in 1 .. Len(Kids(e)) : KidTypes(e)'[i] = TypeIn(Kids(e)[i])'
<1>1. DOMAIN Kids(e) = 1 .. Len(Kids(e)) /\ Len(Kids(e)) \in Nat
  BY ObjectFacts, LenProperties
<1>2. Kids(e)' = Kids(e)  BY ObjectStays
<1>3. PICK n, k, kids : n = Len(Kids(e)) /\ k = KidTypes(e)' /\ kids = Kids(e)  OBVIOUS
<1>4. k = [i \in 1 .. n |-> TypeIn(kids[i])']
  BY <1>1, <1>2, <1>3 DEF KidTypes, TypeIn
<1>5. k = [i \in 1 .. n |-> k[i]] /\ \A i \in 1 .. n : k[i] = TypeIn(kids[i])'  BY <1>4
<1>6. Len(k) = n  BY <1>1, <1>3, <1>5, LenOfFunction
<1>7. \A i \in 1 .. n : TypeIn(kids[i])' = TypeIn(Kids(e)[i])'  BY <1>2, <1>3 DEF TypeIn
<1> QED  BY <1>3, <1>5, <1>6, <1>7

(* The rules as they are applied do not change. *)
LEMMA RulesStay ==
  ASSUME IInv, Grows, NEW e \in ValidObjects, NEW s
  PROVE  TypeOf(e, s)' = TypeOf(e, s) /\ (IllTyped(e, s)' <=> IllTyped(e, s))
<1>1. Op(e)' = Op(e) /\ Src(e)' = Src(e)  BY ObjectStays
<1> QED  BY <1>1 DEF TypeOf, IllTyped, LambdaId

(* A type that fitted fits, whatever else is typed in between. *)
LEMMA FitStays ==
  ASSUME IInv, Keeps, NEW e \in ValidObjects, e \in DOMAIN memo, memo[e] # Undecided,
         Op(e) # "param", Fits(e)
  PROVE  Fits(e)'
<1>1. PICK n, s, u, t : n = Len(Kids(e)) /\ s = KidTypes(e) /\ u = KidTypes(e)' /\ t = memo[e]
  OBVIOUS
<1>2. /\ Len(s) = n /\ Len(u) = n
      /\ \A i \in 1 .. n : s[i] # Undecided => u[i] = s[i]
  <2>1. \A i \in 1 .. n : s[i] = TypeIn(Kids(e)[i]) /\ u[i] = TypeIn(Kids(e)[i])'
    BY <1>1, KidTypesFacts, KidTypesAfter DEF Keeps
  <2>2. Len(s) = n /\ Len(u) = n  BY <1>1, KidTypesFacts, KidTypesAfter DEF Keeps
  <2>3. ASSUME NEW i \in 1 .. n, s[i] # Undecided PROVE u[i] = s[i]
    <3>1. PICK x : x = Kids(e)[i]  OBVIOUS
    <3>2. TypeIn(x) = s[i]  BY <2>1, <3>1
    <3>3. TypeIn(x)' = s[i]  BY <2>3, <3>2, TypeInStays
    <3>4. Kids(e)' = Kids(e)  BY ObjectStays DEF Keeps
    <3>5. TypeIn(Kids(e)[i])' = TypeIn(x)'  BY <3>1, <3>4 DEF TypeIn
    <3> QED  BY <2>1, <3>3, <3>5
  <2> QED  BY <2>2, <2>3
<1>3. Grows /\ Op(e)' = Op(e) /\ memo'[e] = t  BY <1>1, ObjectStays DEF Keeps
<1>4. CASE Op(e) = "call"
  <2>1. PICK k \in instances : k.id = s[n].arg /\ TypeIn(Instance(k)) = t
    BY <1>1, <1>2, <1>4 DEF Fits
  <2>2. s[n] # Undecided
    <3>1. k.id \in Nat \ {0}  BY DEF IInv, InstancesOK, InternedOK
    <3> QED  BY <2>1, <3>1 DEF Undecided
  <2>3. n \in 1 .. n
    <3>1. n \in Nat /\ n > 0  BY <1>1, <1>4, ObjectFacts, LenProperties
    <3> QED  BY <3>1
  <2>4. u[n] = s[n]  BY <1>2, <2>2, <2>3
  <2>5. k \in instances'  BY <1>3 DEF Grows
  <2>6. PICK x : x = Instance(k)  OBVIOUS
  <2>7. TypeIn(x)' = t  BY <1>1, <2>1, <2>6, TypeInStays
  <2>8. Instance(k)' = x  BY <1>3, <2>6, InstanceStays
  <2>9. TypeIn(Instance(k))' = t  BY <2>7, <2>8 DEF TypeIn
  <2> QED  BY <1>1, <1>2, <1>3, <1>4, <2>1, <2>4, <2>5, <2>9 DEF Fits
<1>5. CASE Op(e) = "if"
  <2>1. t \in {s[2], s[3]}  BY <1>1, <1>5 DEF Fits
  <2>2. 2 \in 1 .. n /\ 3 \in 1 .. n
    <3>1. n = 3  BY <1>1, <1>5, ObjectFacts
    <3> QED  BY <3>1
  <2>3. t \in {u[2], u[3]}  BY <1>1, <1>2, <2>1, <2>2
  <2> QED  BY <1>1, <1>3, <1>5, <2>3 DEF Fits
<1>6. CASE Op(e) \notin {"call", "if"}
  <2>1. ~IllTyped(e, s) /\ t = TypeOf(e, s)  BY <1>1, <1>6 DEF Fits
  <2>2. ~IllTyped(e, u) /\ t = TypeOf(e, u)  BY <1>1, <1>2, <1>6, <2>1, Follows
  <2>3. ~IllTyped(e, u)' /\ t = TypeOf(e, u)'  BY <1>3, <2>2, RulesStay
  <2>4. (~IllTyped(e, KidTypes(e)))' /\ t = TypeOf(e, KidTypes(e))'
    BY <1>1, <2>3 DEF IllTyped, TypeOf
  <2> QED  BY <1>1, <1>3, <1>6, <2>4 DEF Fits
<1> QED  BY <1>4, <1>5, <1>6
-----------------------------------------------------------------------------
LEMMA StepKeeps == ASSUME IInv, [Next]_vars PROVE Keeps
<1>1. Grows
  <2>1. CASE Conclude
    <3>1. /\ program' = program /\ instances' = instances /\ interned' = Intern(Top.expr)
      BY <2>1 DEF Conclude
    <3> QED  BY <3>1 DEF Grows, Intern, Remember
  <2>2. CASE ~Conclude
    <3>1. program' = program /\ instances \subseteq instances' /\ interned' = interned
      BY <2>2 DEF Next, Step, Hit, Visit, Begin, Instantiate, RuleViolation, NotAFunction,
         WrongArity, Throw, Known, Query, vars
    <3> QED  BY <3>1 DEF Grows
  <2> QED  BY <2>1, <2>2
<1> QED  BY <1>1, TypesKept DEF Keeps

(* What is said of a frame of the next stack is said of its value. *)
LEMMA OfTheFrame ==
  ASSUME NEW i, NEW f, stack'[i] = f
  PROVE  (Told(stack[i])' <=> Told(f)') /\ Wants(stack[i])' = Wants(f)'
BY DEF Told, Wants, Question, Arity, CallKey, Callee, OperandTypes, Resolved, CalleeKnown

LEMMA StackedFrames ==
  ASSUME IInv
  PROVE  Len(stack) \in Nat /\ \A i \in 1 .. Len(stack) : stack[i] \in Activation
BY ElementOfSeq, LenProperties DEF IInv

(* An answer is the last of the types its activation was told. *)
LEMMA AnswerAt ==
  ASSUME NEW S, NEW T, NEW frames \in Seq(Frame(S, T)), frames # << >>, NEW t \in T,
         NEW m, m = Len(frames)
  PROVE  /\ m \in Nat \ {0} /\ Len(Answer(frames, t)) = m
         /\ Answer(frames, t)[m] =
              [expr |-> frames[m].expr, tys |-> Append(frames[m].tys, t)]
         /\ \A i \in 1 .. m - 1 : Answer(frames, t)[i] = frames[i]
<1> DEFINE F == Frame(S, T)
           f == [expr |-> frames[m].expr, tys |-> Append(frames[m].tys, t)]
<1>1. frames \in Seq(F)  OBVIOUS
<1>2. m \in Nat \ {0}  BY <1>1, EmptySeq, LenProperties
<1>3. m \in 1 .. Len(frames)  BY <1>2
<1>4. frames[m] \in F  BY <1>1, <1>3, ElementOfSeq
<1>5. Append(frames[m].tys, t) \in Seq(T)  BY <1>4, AppendProperties DEF Frame
<1>6. f \in F  BY <1>4, <1>5 DEF Frame
<1>7. Answer(frames, t) = [frames EXCEPT ![m].tys = Append(@, t)]  BY DEF Answer
<1>8. Answer(frames, t) = [frames EXCEPT ![m] = f]  BY <1>4, <1>7 DEF Frame
<1> HIDE DEF f, F
<1>9. /\ Len([frames EXCEPT ![m] = f]) = Len(frames)
      /\ \A i \in 1 .. Len(frames) :
           [frames EXCEPT ![m] = f][i] = IF i = m THEN f ELSE frames[i]
  BY <1>1, <1>3, <1>6, ExceptSeq
<1>10. \A i \in 1 .. m - 1 : i \in 1 .. Len(frames) /\ i # m  BY <1>2
<1> QED  BY <1>2, <1>3, <1>8, <1>9, <1>10 DEF f

(* The type t is given to activation m, which is the innermost one then. *)
LEMMA Answering ==
  ASSUME FInv, Keeps, NEW m \in 1 .. Len(stack), NEW e \in Wants(stack[m]),
         NEW t \in KnownTypes', t # Undecided => e \in DOMAIN memo' /\ memo'[e] = t,
         Len(stack') = m, \A i \in 1 .. m - 1 : stack'[i] = stack[i],
         stack'[m] = [expr |-> stack[m].expr, tys |-> Append(stack[m].tys, t)]
  PROVE  (\A i \in 1 .. Len(stack') : Told(stack[i])') /\ Asked'
<1>1. IInv /\ Len(stack) \in Nat /\ \A i \in 1 .. Len(stack) : stack[i] \in Activation
  BY StackedFrames DEF FInv
<1>2. \A i \in 1 .. Len(stack) : Told(stack[i])  BY DEF FInv
<1>3. m \in Nat /\ \A i \in 1 .. m - 1 : i \in 1 .. Len(stack) /\ i \in 1 .. Len(stack) - 1
  BY <1>1
<1>4. ASSUME NEW i \in 1 .. m PROVE Told(stack[i])'
  <2>1. CASE i = m
    <3>1. PICK f, g : f = stack[m] /\ g = [expr |-> f.expr, tys |-> Append(f.tys, t)]  OBVIOUS
    <3>2. f \in Activation /\ Told(f) /\ e \in Wants(f)  BY <1>1, <1>2, <3>1
    <3>3. Told(g)'  BY <1>1, <3>1, <3>2, ToldMore
    <3>4. stack'[i] = g  BY <2>1, <3>1
    <3> QED  BY <3>3, <3>4, OfTheFrame
  <2>2. CASE i # m
    <3>1. PICK f : f = stack[i]  OBVIOUS
    <3>2. i \in 1 .. m - 1  BY <1>3, <2>2
    <3>3. f \in Activation /\ Told(f) /\ stack'[i] = f  BY <1>1, <1>2, <1>3, <3>1, <3>2
    <3>4. Told(f)'  BY <1>1, <3>3, ToldStays
    <3> QED  BY <3>3, <3>4, OfTheFrame
  <2> QED  BY <2>1, <2>2
<1>5. ASSUME NEW i \in 1 .. m - 1 PROVE stack'[i + 1].expr \in Wants(stack[i])'
  <2>1. PICK f, x : f = stack[i] /\ x = stack[i + 1].expr  OBVIOUS
  <2>2. f \in Activation /\ x \in Wants(f) /\ stack'[i] = f
    BY <1>1, <1>3, <2>1 DEF FInv, Asked
  <2>3. x \in Wants(f)'  BY <1>1, <2>2, QuestionsStay DEF Keeps
  <2>4. stack'[i + 1].expr = x
    <3>1. CASE i + 1 = m  BY <2>1, <3>1
    <3>2. CASE i + 1 # m
      <4>1. i + 1 \in 1 .. m - 1  BY <1>3, <3>2
      <4> QED  BY <2>1, <4>1
    <3> QED  BY <3>1, <3>2
  <2> QED  BY <2>2, <2>3, <2>4, OfTheFrame
<1> QED  BY <1>4, <1>5 DEF Asked

(* Steps that leave the activations alone. *)
LEMMA StackStays ==
  ASSUME FInv, Keeps, stack' = stack
  PROVE  (\A i \in 1 .. Len(stack') : Told(stack[i])') /\ Asked'
<1>1. IInv /\ Len(stack) \in Nat /\ \A i \in 1 .. Len(stack) : stack[i] \in Activation
  BY StackedFrames DEF FInv
<1>2. ASSUME NEW i \in 1 .. Len(stack) PROVE Told(stack[i])'
  <2>1. PICK f : f = stack[i]  OBVIOUS
  <2>2. f \in Activation /\ Told(f) /\ stack'[i] = f  BY <1>1, <2>1 DEF FInv
  <2>3. Told(f)'  BY <1>1, <2>2, ToldStays
  <2> QED  BY <2>2, <2>3, OfTheFrame
<1>3. ASSUME NEW i \in 1 .. Len(stack) - 1 PROVE stack'[i + 1].expr \in Wants(stack[i])'
  <2>1. PICK f : f = stack[i]  OBVIOUS
  <2>2. i \in 1 .. Len(stack)  BY <1>1
  <2>3. f \in Activation /\ stack[i + 1].expr \in Wants(f) /\ stack'[i] = f
    BY <1>1, <2>1, <2>2 DEF FInv, Asked
  <2>4. Wants(f) \subseteq Wants(f)'  BY <1>1, <2>3, QuestionsStay DEF Keeps
  <2> QED  BY <2>3, <2>4, OfTheFrame
<1> QED  BY <1>2, <1>3 DEF Asked

(* An activation that has asked for nothing yet. *)
LEMMA Beginning ==
  ASSUME FInv, Keeps, NEW e \in ValidObjects, Busy => e \in Wants(Top),
         stack' = Append(stack, [expr |-> e, tys |-> << >>])
  PROVE  (\A i \in 1 .. Len(stack') : Told(stack[i])') /\ Asked'
<1>1. IInv /\ Len(stack) \in Nat /\ \A i \in 1 .. Len(stack) : stack[i] \in Activation
  BY StackedFrames DEF FInv
<1>2. PICK new : new = [expr |-> e, tys |-> << >>]  OBVIOUS
<1>3. new \in Activation
  <2>1. << >> \in Seq(KnownTypes)  OBVIOUS
  <2> QED  BY <1>2, <2>1 DEF Activation, Frame
<1>4. /\ Len(stack') = Len(stack) + 1 /\ \A i \in 1 .. Len(stack) : stack'[i] = stack[i]
      /\ stack'[Len(stack) + 1] = new
  BY <1>1, <1>2, <1>3, Appended DEF IInv
<1>5. ASSUME NEW i \in 1 .. Len(stack') PROVE Told(stack[i])'
  <2>1. CASE i \in 1 .. Len(stack)
    <3>1. PICK f : f = stack[i]  OBVIOUS
    <3>2. f \in Activation /\ Told(f) /\ stack'[i] = f  BY <1>1, <1>4, <2>1, <3>1 DEF FInv
    <3>3. Told(f)'  BY <1>1, <3>2, ToldStays
    <3> QED  BY <3>2, <3>3, OfTheFrame
  <2>2. CASE i = Len(stack) + 1
    <3>1. Len(new.tys) = 0  BY <1>2, EmptySeq
    <3>2. Arity(new) \in Nat  BY <1>1, <1>3, FrameFacts
    <3>3. Told(new)  BY <3>1, <3>2 DEF Told
    <3>4. Told(new)'  BY <1>1, <1>3, <3>3, ToldStays
    <3> QED  BY <1>4, <2>2, <3>4, OfTheFrame
  <2> QED  BY <1>1, <1>4, <2>1, <2>2
<1>6. ASSUME NEW i \in 1 .. Len(stack) PROVE stack'[i + 1].expr \in Wants(stack[i])'
  <2>1. PICK f : f = stack[i]  OBVIOUS
  <2>2. f \in Activation /\ stack'[i] = f  BY <1>1, <1>4, <2>1
  <2>3. Wants(f) \subseteq Wants(f)'  BY <1>1, <2>2, QuestionsStay DEF Keeps
  <2>4. stack'[i + 1].expr \in Wants(f)
    <3>1. CASE i = Len(stack)
      <4>1. Busy  BY <3>1, <1>1, EmptySeq DEF Busy
      <4>2. f = Top  BY <2>1, <3>1 DEF Top
      <4> QED  BY <1>2, <1>4, <3>1, <4>1, <4>2
    <3>2. CASE i # Len(stack)
      <4>1. i \in 1 .. Len(stack) - 1 /\ i + 1 \in 1 .. Len(stack)  BY <1>1, <3>2
      <4> QED  BY <1>4, <2>1, <4>1 DEF FInv, Asked
    <3> QED  BY <3>1, <3>2
  <2> QED  BY <2>2, <2>3, <2>4, OfTheFrame
<1>7. Len(stack') - 1 = Len(stack)  BY <1>1, <1>4
<1> QED  BY <1>5, <1>6, <1>7 DEF Asked
-----------------------------------------------------------------------------
(* The operands of an activation that concludes have the types it was given. *)
LEMMA ToldKids ==
  ASSUME IInv, Keeps, NEW f \in Activation, Told(f),
         NEW i \in 1 .. Arity(f), i <= Len(f.tys), f.tys[i] # Undecided
  PROVE  KidTypes(f.expr)'[i] = f.tys[i]
<1>1. f.expr \in ValidObjects /\ Arity(f) = Len(Kids(f.expr)) /\ Arity(f) \in Nat
      /\ Len(f.tys) \in Nat
  BY FrameFacts
<1>2. PICK x : x = Kids(f.expr)[i]  OBVIOUS
<1>3. Remembered(x, f.tys[i])
  <2>1. i \in 1 .. Len(f.tys)  BY <1>1
  <2>2. Remembered(Question(f, i), f.tys[i])  BY <2>1 DEF Told
  <2> QED  BY <1>2, <2>2 DEF Question
<1>4. TypeIn(x)' = f.tys[i]  BY <1>3 DEF Remembered, Keeps, TypeIn
<1>5. KidTypes(f.expr)'[i] = TypeIn(Kids(f.expr)[i])'
  BY <1>1, KidTypesAfter DEF Keeps
<1>6. Kids(f.expr)' = Kids(f.expr)  BY <1>1, ObjectStays DEF Keeps
<1> QED  BY <1>2, <1>4, <1>5, <1>6 DEF TypeIn

LEMMA FitConcluded ==
  ASSUME IInv, Keeps, NEW f \in Activation, Told(f), Ready(f), ~IllTyped(f.expr, f.tys),
         NEW t, t = TypeOf(f.expr, f.tys), t # Undecided, memo'[f.expr] = t
  PROVE  Fits(f.expr)'
<1>1. PICK e, s, u, n : e = f.expr /\ s = f.tys /\ u = KidTypes(e)' /\ n = Arity(f)
  OBVIOUS
<1>2. /\ e \in ValidObjects /\ n = Len(Kids(e)) /\ n \in Nat /\ Len(s) \in Nat
      /\ Op(e) = "call" => n > 0
  BY <1>1, FrameFacts
<1>3. Len(s) = IF Op(e) = "call" THEN n + 1 ELSE n  BY <1>1 DEF Ready
<1>4. \A i \in 1 .. n : s[i] # Undecided => u[i] = s[i]
  <2>1. \A i \in 1 .. n : i <= Len(s)  BY <1>2, <1>3
  <2> QED  BY <1>1, <2>1, ToldKids
<1>5. Len(u) = n  BY <1>1, <1>2, KidTypesAfter DEF Keeps
<1>6. Op(e)' = Op(e) /\ Grows  BY <1>2, ObjectStays DEF Keeps
<1>7. Op(e) # "param"  BY <1>1 DEF TypeOf
<1>8. CASE Op(e) = "call"
  <2>1. PICK k : k = CallKey(f)  OBVIOUS
  <2>2. k \in instances  BY <1>1, <1>2, <1>3, <1>8, <2>1 DEF Told
  <2>3. t = s[n + 1]  BY <1>1, <1>3, <1>8 DEF TypeOf
  <2>4. Remembered(Question(f, n + 1), t)
    <3>1. n + 1 \in 1 .. Len(s)  BY <1>2, <1>3, <1>8
    <3> QED  BY <1>1, <2>3, <3>1 DEF Told
  <2>5. PICK x : x = Instance(k)  OBVIOUS
  <2>6. Question(f, n + 1) = x
    <3>1. ~(n + 1 <= n)  BY <1>2
    <3> QED  BY <1>1, <2>1, <2>5, <3>1 DEF Question
  <2>7. TypeIn(x)' = t  BY <2>4, <2>6 DEF Remembered, Keeps, TypeIn
  <2>8. Instance(k)' = x  BY <1>6, <2>2, <2>5, InstanceStays
  <2>9. TypeIn(Instance(k))' = t  BY <2>7, <2>8 DEF TypeIn
  <2>10. k.id = s[n].arg  BY <1>1, <2>1 DEF CallKey, Callee
  <2>11. s[n] # Undecided
    <3>1. k.id \in Nat \ {0}  BY <2>2 DEF IInv, InstancesOK, InternedOK
    <3> QED  BY <2>10, <3>1 DEF Undecided
  <2>12. u[n] = s[n]  BY <1>2, <1>4, <1>8, <2>11
  <2>13. k \in instances'  BY <1>6, <2>2 DEF Grows
  <2> QED  BY <1>1, <1>5, <1>6, <1>8, <2>9, <2>10, <2>12, <2>13 DEF Fits
<1>9. CASE Op(e) # "call"
  <2>1. Len(s) = Len(Kids(e)) /\ Len(u) = Len(Kids(e))  BY <1>2, <1>3, <1>5, <1>9
  <2>2. IF Op(e) = "if" THEN t \in {u[2], u[3]} ELSE ~IllTyped(e, u) /\ t = TypeOf(e, u)
    BY <1>1, <1>2, <1>4, <1>7, <1>9, <2>1, Follows
  <2>3. CASE Op(e) = "if"  BY <1>1, <1>6, <2>2, <2>3 DEF Fits
  <2>4. CASE Op(e) # "if"
    <3>1. ~IllTyped(e, u)' /\ t = TypeOf(e, u)'  BY <1>2, <1>6, <2>2, <2>4, RulesStay
    <3>2. (~IllTyped(e, KidTypes(e)))' /\ t = TypeOf(e, KidTypes(e))'
      BY <1>1, <3>1 DEF IllTyped, TypeOf
    <3> QED  BY <1>1, <1>6, <1>9, <2>4, <3>2 DEF Fits
  <2> QED  BY <2>3, <2>4
<1> QED  BY <1>8, <1>9

(* Entries that are new are marks, types of parameters, or have been        *)
(* concluded.                                                               *)
LEMMA FitsAfter ==
  ASSUME FInv, Keeps,
         \A e \in DOMAIN memo' :
           \/ e \in DOMAIN memo /\ memo[e] # Undecided
           \/ memo'[e] = Undecided \/ Op(e)' = "param" \/ Fits(e)'
  PROVE  TypesFit'
<1>1. ASSUME NEW e \in DOMAIN memo', memo'[e] # Undecided, Op(e)' # "param" PROVE Fits(e)'
  <2>1. CASE e \in DOMAIN memo /\ memo[e] # Undecided
    <3>1. e \in ValidObjects /\ IInv  BY <2>1 DEF FInv
    <3>2. Op(e) # "param"  BY <1>1, <3>1, ObjectStays DEF Keeps
    <3>3. Fits(e)  BY <2>1, <3>2, FitsMeans DEF FInv
    <3> QED  BY <2>1, <3>1, <3>2, <3>3, FitStays
  <2>2. CASE ~(e \in DOMAIN memo /\ memo[e] # Undecided)  BY <1>1, <2>2
  <2> QED  BY <2>1, <2>2
<1> QED  BY <1>1 DEF TypesFit, Fits, KidTypes

LEMMA FirstStays ==
  ASSUME FInv, Keeps, NEW id \in DOMAIN interned
  PROVE  /\ program'.node[interned'[id]].id = id
         /\ \E first \in DOMAIN memo' :
              first.n = interned'[id] /\ Op(first)' = "lambda" /\ memo'[first] = Lazy(id)
<1>1. PICK first \in DOMAIN memo :
        first.n = interned[id] /\ Op(first) = "lambda" /\ memo[first] = Lazy(id)
  BY DEF FInv, FirstKept
<1>2. memo[first] # Undecided  BY <1>1 DEF Lazy, Undecided
<1>3. interned'[id] = interned[id] /\ program' = program  BY DEF Keeps, Grows
<1>4. Op(first)' = "lambda"
  <2>1. first \in ValidObjects /\ IInv /\ Grows  BY <1>1 DEF FInv, Keeps
  <2> QED  BY <1>1, <2>1, ObjectStays
<1> QED  BY <1>1, <1>2, <1>3, <1>4 DEF FInv, FirstKept, Keeps

LEMMA ConcludeFits == ASSUME FInv, Conclude PROVE FInv'
<1>1. IInv /\ IInv' /\ Keeps  BY Inductive, StepKeeps DEF FInv, Next, Step
<1>2. PICK f, e, t : f = Top /\ e = f.expr /\ t = TypeOf(e, f.tys)  OBVIOUS
<1>3. /\ Busy /\ Ready(f) /\ ~IllTyped(e, f.tys)
      /\ memo' = Settle(e, t) /\ stack' = Answer(Rest, t) /\ interned' = Intern(e)
      /\ program' = program /\ instances' = instances
  BY <1>2 DEF Conclude
<1>4. /\ Len(stack) \in Nat \ {0} /\ f \in Activation /\ f = stack[Len(stack)]
      /\ Rest \in Seq(Activation) /\ Len(Rest) = Len(stack) - 1
      /\ \A i \in 1 .. Len(stack) - 1 : Rest[i] = stack[i]
  BY <1>1, <1>2, <1>3, StackFacts
<1>5. Told(f) /\ e \in ValidObjects
  BY <1>1, <1>2, <1>4, FrameFacts DEF FInv
<1>6. t \in KnownTypes'  BY <1>1, <1>2, <1>3, <1>4, TypeOfKnown
<1>7. /\ DOMAIN memo' \subseteq DOMAIN memo \cup {e}
      /\ \A x \in DOMAIN memo : x # e => x \in DOMAIN memo' /\ memo'[x] = memo[x]
      /\ t # Undecided => e \in DOMAIN memo' /\ memo'[e] = t
      /\ e \in DOMAIN memo' => t # Undecided
  <2>1. CASE t = Undecided  BY <1>3, <2>1 DEF Settle, Forget
  <2>2. CASE t # Undecided  BY <1>3, <2>2 DEF Settle, Remember
  <2> QED  BY <2>1, <2>2
<1>8. DOMAIN memo' \subseteq ValidObjects'
  <2>1. ValidObjects \subseteq ValidObjects'  BY Growth, <1>1 DEF Keeps
  <2> QED  BY <1>5, <1>7, <2>1 DEF FInv
<1>9. TypesFit'
  <2>1. ASSUME e \in DOMAIN memo' PROVE Fits(e)'
    BY <1>1, <1>2, <1>3, <1>4, <1>5, <1>7, <2>1, FitConcluded
  <2>2. \A x \in DOMAIN memo' : x # e /\ memo'[x] # Undecided => memo[x] # Undecided
    BY <1>7
  <2>3. \A x \in DOMAIN memo' :
          \/ x \in DOMAIN memo /\ memo[x] # Undecided
          \/ memo'[x] = Undecided \/ Op(x)' = "param" \/ Fits(x)'
    BY <1>7, <2>1, <2>2
  <2> QED  BY <1>1, <2>3, FitsAfter
<1>10. FirstKept'
  <2> SUFFICES ASSUME NEW id \in DOMAIN interned'
               PROVE  /\ program'.node[interned'[id]].id = id
                      /\ \E first \in DOMAIN memo' :
                           /\ first.n = interned'[id] /\ Op(first)' = "lambda"
                           /\ memo'[first] = Lazy(id)
    BY DEF FirstKept, Lazy, Op, IsInstance, Src
  <2>1. CASE id \in DOMAIN interned  BY <1>1, <2>1, FirstStays
  <2>2. CASE id \notin DOMAIN interned
    <3>1. Op(e) = "lambda" /\ id = LambdaId(e) /\ interned'[id] = e.n
      BY <1>3, <2>2 DEF Intern, Remember
    <3>2. program'.node[e.n].id = id  BY <1>3, <3>1 DEF LambdaId, Src
    <3>3. t = Lazy(id)  BY <1>2, <3>1 DEF TypeOf
    <3>4. t # Undecided  BY <3>3 DEF Lazy, Undecided
    <3>5. Op(e)' = "lambda"  BY <1>1, <1>5, <3>1, ObjectStays DEF Keeps
    <3> QED  BY <1>7, <3>1, <3>2, <3>3, <3>4, <3>5
  <2> QED  BY <2>1, <2>2
<1>11. (\A i \in 1 .. Len(stack') : Told(stack[i])') /\ Asked'
  <2>1. CASE Rest = << >>
    <3>1. stack' = << >> /\ Len(stack') = 0  BY <1>3, <2>1 DEF Answer
    <3> QED  BY <3>1 DEF Asked
  <2>2. CASE Rest # << >>
    <3>1. PICK m : m = Len(stack) - 1  OBVIOUS
    <3>2. m \in Nat \ {0} /\ m \in 1 .. Len(stack) /\ m \in 1 .. m
          /\ m \in 1 .. Len(stack) - 1 /\ m + 1 = Len(stack)
      <4>1. Len(Rest) # 0 /\ Len(Rest) \in Nat  BY <1>4, <2>2, EmptySeq, LenProperties
      <4> QED  BY <1>4, <3>1, <4>1
    <3>3. PICK g : g = [expr |-> stack[m].expr, tys |-> Append(stack[m].tys, t)]  OBVIOUS
    <3>4. /\ Len(stack') = m /\ stack'[m] = g
          /\ \A i \in 1 .. m - 1 : stack'[i] = stack[i]
      <4>1. /\ Rest \in Seq(Frame(ValidObjects', KnownTypes')) /\ m = Len(Rest)
            /\ stack' = Answer(Rest, t) /\ Rest[m] = stack[m]
        <5>1. Rest \in Seq(Activation')  BY <1>1, <1>4, Growth DEF Keeps
        <5>2. Rest \in Seq(Frame(ValidObjects', KnownTypes'))  BY <5>1 DEF Activation, Frame
        <5> QED  BY <1>3, <1>4, <3>1, <3>2, <5>2
      <4>2. \A i \in 1 .. m - 1 : Rest[i] = stack[i]  BY <1>4, <3>1, <3>2
      <4>3. /\ Len(Answer(Rest, t)) = m
            /\ Answer(Rest, t)[m] = [expr |-> Rest[m].expr, tys |-> Append(Rest[m].tys, t)]
            /\ \A i \in 1 .. m - 1 : Answer(Rest, t)[i] = Rest[i]
        <5>1. PICK r, S, T : r = Rest /\ S = ValidObjects' /\ T = KnownTypes'  OBVIOUS
        <5>2. r \in Seq(Frame(S, T)) /\ r # << >> /\ t \in T /\ m = Len(r)
          BY <1>6, <2>2, <4>1, <5>1
        <5>3. /\ Len(Answer(r, t)) = m
              /\ Answer(r, t)[m] = [expr |-> r[m].expr, tys |-> Append(r[m].tys, t)]
              /\ \A i \in 1 .. m - 1 : Answer(r, t)[i] = r[i]
          BY <5>2, AnswerAt
        <5> QED  BY <5>1, <5>3
      <4> QED  BY <3>3, <4>1, <4>2, <4>3
    <3>5. e \in Wants(stack[m])
      BY <1>2, <1>4, <3>2 DEF FInv, Asked
    <3> QED  BY <1>1, <1>6, <1>7, <3>2, <3>3, <3>4, <3>5, Answering
  <2> QED  BY <2>1, <2>2
<1> QED  BY <1>1, <1>8, <1>9, <1>10, <1>11 DEF FInv

(* Steps that make no lambda known and no type final. *)
LEMMA TablesFit ==
  ASSUME FInv, [Next]_vars, interned' = interned, DOMAIN memo' \subseteq ValidObjects',
         \A e \in DOMAIN memo' :
           (e \in DOMAIN memo /\ memo'[e] = memo[e]) \/ memo'[e] = Undecided \/ Op(e)' = "param",
         (\A i \in 1 .. Len(stack') : Told(stack[i])') /\ Asked'
  PROVE  FInv'
<1>1. IInv /\ IInv' /\ Keeps  BY Inductive, StepKeeps DEF FInv
<1>2. TypesFit'
  <2>1. \A e \in DOMAIN memo' :
          \/ e \in DOMAIN memo /\ memo[e] # Undecided
          \/ memo'[e] = Undecided \/ Op(e)' = "param" \/ Fits(e)'
    OBVIOUS
  <2> QED  BY <1>1, <2>1, FitsAfter
<1>3. FirstKept'
  <2>1. \A id \in DOMAIN interned' :
          /\ program'.node[interned'[id]].id = id
          /\ \E first \in DOMAIN memo' :
               first.n = interned'[id] /\ Op(first)' = "lambda" /\ memo'[first] = Lazy(id)
    BY <1>1, FirstStays
  <2> QED  BY <2>1 DEF FirstKept, Lazy, Op, IsInstance, Src
<1> QED  BY <1>1, <1>2, <1>3 DEF FInv

LEMMA BeginFits ==
  ASSUME FInv, [Next]_vars, NEW e \in ValidObjects, e \notin DOMAIN memo, Begin(e),
         Busy => e \in Wants(Top)
  PROVE  FInv'
<1>1. Keeps  BY StepKeeps DEF FInv
<1>2. /\ interned' = interned /\ stack' = Append(stack, [expr |-> e, tys |-> << >>])
      /\ DOMAIN memo' = DOMAIN memo \cup {e} /\ memo'[e] = Undecided
      /\ \A x \in DOMAIN memo : memo'[x] = memo[x]
  BY DEF Begin, Remember
<1>3. DOMAIN memo' \subseteq ValidObjects'
  <2>1. ValidObjects \subseteq ValidObjects'  BY <1>1, Growth DEF Keeps
  <2> QED  BY <1>2, <2>1 DEF FInv
<1> QED  BY <1>1, <1>2, <1>3, Beginning, TablesFit

LEMMA HitFits == ASSUME FInv, Hit PROVE FInv'
<1>1. IInv /\ Keeps /\ [Next]_vars  BY StepKeeps DEF FInv, Next, Step
<1>2. PICK e \in Wants(Top) : e \in DOMAIN memo /\ stack' = Answer(stack, memo[e])  BY DEF Hit
<1>3. PICK m, t, g : /\ m = Len(stack) /\ t = memo[e]
                     /\ g = [expr |-> stack[m].expr, tys |-> Append(stack[m].tys, t)]
  OBVIOUS
<1>4. /\ Busy /\ memo' = memo /\ interned' = interned
  BY DEF Hit
<1>5. /\ m \in Nat \ {0} /\ m \in 1 .. Len(stack) /\ stack[m] \in Activation /\ Top = stack[m]
  BY <1>1, <1>3, <1>4, StackFacts
<1>6. t \in KnownTypes'
  <2>1. t \in KnownTypes  BY <1>1, <1>2, <1>3 DEF IInv, MemoOK
  <2> QED  BY <1>1, <2>1, Growth DEF Keeps
<1>7. Len(stack') = m /\ stack'[m] = g /\ \A i \in 1 .. m - 1 : stack'[i] = stack[i]
  <2>1. t \in KnownTypes  BY <1>1, <1>2, <1>3 DEF IInv, MemoOK
  <2>2. stack \in Seq(Frame(ValidObjects, KnownTypes)) /\ stack # << >>
    BY <1>1, <1>4 DEF Activation, IInv, Busy
  <2>3. /\ Len(Answer(stack, t)) = m
        /\ Answer(stack, t)[m] = [expr |-> stack[m].expr, tys |-> Append(stack[m].tys, t)]
        /\ \A i \in 1 .. m - 1 : Answer(stack, t)[i] = stack[i]
    <3>1. PICK r, S, T : r = stack /\ S = ValidObjects /\ T = KnownTypes  OBVIOUS
    <3>2. r \in Seq(Frame(S, T)) /\ r # << >> /\ t \in T /\ m = Len(r)
      BY <1>3, <2>1, <2>2, <3>1
    <3>3. /\ Len(Answer(r, t)) = m
          /\ Answer(r, t)[m] = [expr |-> r[m].expr, tys |-> Append(r[m].tys, t)]
          /\ \A i \in 1 .. m - 1 : Answer(r, t)[i] = r[i]
      BY SMTT(30), <3>2, AnswerAt
    <3> QED  BY <3>1, <3>3
  <2>4. stack' = Answer(stack, t)  BY <1>2, <1>3
  <2> QED  BY <1>3, <2>3, <2>4
<1>8. (\A i \in 1 .. Len(stack') : Told(stack[i])') /\ Asked'
  <2>1. e \in DOMAIN memo' /\ memo'[e] = t /\ e \in Wants(stack[m])  BY <1>2, <1>3, <1>4, <1>5
  <2> QED  BY <1>1, <1>3, <1>5, <1>6, <1>7, <2>1, Answering
<1>9. DOMAIN memo' \subseteq ValidObjects'
  BY <1>1, <1>4, Growth DEF FInv, Keeps
<1> QED  BY <1>1, <1>4, <1>8, <1>9, TablesFit

(* The parameters of an instance that is being made. *)
LEMMA ParamOp ==
  ASSUME FInv, Instantiate, NEW key, NEW params, key = CallKey(Top), params = Params(key.id),
         NEW i \in DOMAIN params, NEW x, x = Obj(key, params[i])
  PROVE  x \in ValidObjects' /\ Op(x)' = "param"
<1>1. IInv  BY DEF FInv
<1>2. key = CallKey(Top) /\ params = Params(key.id)  OBVIOUS
<1>3. Busy /\ Resolved(Top) /\ program' = program /\ interned' = interned
      /\ instances' = instances \cup {key}
  BY DEF Instantiate
<1>4. key \in Key /\ key.id \in DOMAIN interned /\ key # Original
  BY <1>1, <1>2, <1>3, StackFacts, KeyFacts DEF Original
<1>5. /\ interned[key.id] \in Nodes /\ program.node[interned[key.id]].op = "lambda"
  BY <1>1, <1>4 DEF IInv, InternedOK
<1>6. params[i] \in Nodes /\ program.node[params[i]].op = "param"
  <2>1. ProgramOK(program)  BY <1>1, ProgramsAssumption DEF IInv
  <2>2. params \in Seq(Nat)
    <3>1. program.node[interned[key.id]] \in Node  BY <1>1, <1>5, SourceFacts DEF IInv
    <3> QED  BY <1>2, <3>1 DEF Params, Node
  <2>3. i \in 1 .. Len(params)  BY <2>2, LenProperties
  <2>4. params[i] \in Nodes  BY <1>1, <1>2, <1>5, <2>3, SourceFacts DEF IInv, Params
  <2>5. PICK n : n = interned[key.id]  OBVIOUS
  <2>6. n \in 1 .. Len(program.node)  BY <1>5, <2>5 DEF Nodes
  <2>7. \A j \in 1 .. Len(program.node[n].params) :
          program.node[program.node[n].params[j]].op = "param"
    BY <2>1, <2>6 DEF ProgramOK
  <2>8. params = program.node[n].params  BY <1>2, <2>5 DEF Params
  <2> QED  BY <2>3, <2>4, <2>7, <2>8
<1>7. x.n = params[i] /\ x.at = key /\ x \in Object
  BY <1>4, <1>6 DEF Obj, Object, Nodes
<1>8. x \in ValidObjects'  BY <1>3, <1>6, <1>7 DEF ValidObjects, Nodes
<1>9. params[i] # interned[key.id]
  <2>1. program.node[params[i]].op = "param" /\ program.node[interned[key.id]].op = "lambda"
    BY <1>5, <1>6
  <2> QED  BY <2>1
<1>10. ~IsInstance(x)'  BY <1>3, <1>7, <1>9 DEF IsInstance
<1>11. Src(x)'.op = "param"  BY <1>3, <1>6, <1>7 DEF Src
<1> QED  BY <1>8, <1>10, <1>11 DEF Op

(* The only types that are not concluded are those of parameters. *)
LEMMA InstantiateFits == ASSUME FInv, Instantiate PROVE FInv'
<1>1. IInv /\ Keeps /\ [Next]_vars  BY StepKeeps DEF FInv, Next, Step
<1>2. PICK key, params : key = CallKey(Top) /\ params = Params(key.id)  OBVIOUS
<1>3. /\ Busy /\ Resolved(Top) /\ key \notin instances
      /\ program' = program /\ interned' = interned /\ stack' = stack
      /\ instances' = instances \cup {key}
      /\ memo' = [x \in DOMAIN memo \cup {Obj(key, params[i]) : i \in DOMAIN params} |->
                    IF x \in DOMAIN memo THEN memo[x] ELSE ParamTypeOf(key, x.n)]
  BY <1>2 DEF Instantiate
<1>7. ASSUME NEW i \in DOMAIN params, NEW x, x = Obj(key, params[i])
      PROVE  x \in ValidObjects' /\ Op(x)' = "param"
  BY <1>2, <1>7, ParamOp
<1>8. DOMAIN memo' \subseteq ValidObjects'
  <2>1. ValidObjects \subseteq ValidObjects'  BY <1>1, Growth DEF Keeps
  <2> QED  BY <1>3, <1>7, <2>1 DEF FInv
<1>9. \A e \in DOMAIN memo' :
        (e \in DOMAIN memo /\ memo'[e] = memo[e]) \/ memo'[e] = Undecided \/ Op(e)' = "param"
  BY <1>3, <1>7
<1> QED  BY <1>1, <1>3, <1>8, <1>9, StackStays, TablesFit

LEMMA ThrowFits == ASSUME FInv, [Next]_vars, Throw PROVE FInv'
<1>1. IInv /\ Keeps  BY StepKeeps DEF FInv
<1>2. memo' = memo /\ interned' = interned /\ stack' = << >> /\ Len(stack') = 0
  BY EmptySeq DEF Throw
<1>3. (\A i \in 1 .. Len(stack') : Told(stack[i])') /\ Asked'  BY <1>2 DEF Asked
<1>4. DOMAIN memo' \subseteq ValidObjects'  BY <1>1, <1>2, Growth DEF FInv, Keeps
<1> QED  BY <1>2, <1>3, <1>4, TablesFit

LEMMA InitFits == Init => FInv
<1> SUFFICES ASSUME Init PROVE FInv  OBVIOUS
<1>1. IInv  BY Initially
<1>2. DOMAIN memo = {} /\ DOMAIN interned = {} /\ Len(stack) = 0  BY EmptySeq DEF Init
<1> QED  BY <1>1, <1>2 DEF FInv, Asked, FirstKept, TypesFit

LEMMA NextFits == FInv /\ [Next]_vars => FInv'
<1> SUFFICES ASSUME FInv, [Next]_vars PROVE FInv'  OBVIOUS
<1>1. IInv /\ Keeps  BY StepKeeps DEF FInv
<1>2. CASE Visit
  <2>1. PICK e \in Wants(Top) : e \notin DOMAIN memo /\ Begin(e)  BY <1>2 DEF Visit
  <2>2. Top \in Activation  BY <1>1, <1>2, StackFacts DEF Visit
  <2>3. e \in ValidObjects  BY <1>1, <2>2, WantedIsValid
  <2> QED  BY <2>1, <2>3, BeginFits
<1>3. CASE \E e \in Objects : Query(e)
  <2>1. PICK e \in Objects : Query(e)  BY <1>3
  <2>2. e \in ValidObjects  BY <1>1, QueriedIsValid
  <2> QED  BY <2>1, <2>2, BeginFits DEF Query
<1>4. CASE RuleViolation \/ NotAFunction \/ WrongArity
  BY <1>4, ThrowFits DEF RuleViolation, NotAFunction, WrongArity
<1>5. CASE UNCHANGED vars
  <2>1. memo' = memo /\ interned' = interned /\ stack' = stack  BY <1>5 DEF vars
  <2>2. DOMAIN memo' \subseteq ValidObjects'  BY <1>1, <2>1, Growth DEF FInv, Keeps
  <2> QED  BY <1>1, <2>1, <2>2, StackStays, TablesFit
<1>6. CASE \E e \in Objects : Known(e)  BY <1>5, <1>6 DEF Known
<1> QED
  BY <1>2, <1>3, <1>4, <1>5, <1>6, HitFits, InstantiateFits, ConcludeFits DEF Next, Step

LEMMA FitHolds == Spec => []FInv
BY InitFits, NextFits, PTL DEF Spec
-----------------------------------------------------------------------------
(* Each remembered type follows by the rule of its operator from what is    *)
(* remembered of its operands, although they were typed in the middle of    *)
(* other recursions, and a call has the type of an instance of what it      *)
(* calls (type.cpp 16-169).                                                 *)
THEOREM RememberedTypesFit == Spec => []TypesFit
<1>1. FInv => TypesFit  BY DEF FInv
<1> QED  BY <1>1, FitHolds, PTL

(* A line stands for a lambda exactly when one of its line has a type.      *)
LEMMA FirstOfLine ==
  ASSUME FInv, NEW line
  PROVE  line \in DOMAIN interned <=>
           \E d \in DOMAIN memo :
             Op(d) = "lambda" /\ memo[d] # Undecided /\ Src(d).id = line
<1>1. ASSUME line \in DOMAIN interned
      PROVE  \E d \in DOMAIN memo :
               Op(d) = "lambda" /\ memo[d] # Undecided /\ Src(d).id = line
  <2>1. PICK d \in DOMAIN memo :
          d.n = interned[line] /\ Op(d) = "lambda" /\ memo[d] = Lazy(line)
    BY <1>1 DEF FInv, FirstKept
  <2>2. Src(d).id = line  BY <1>1, <2>1 DEF FInv, FirstKept, Src
  <2>3. memo[d] # Undecided  BY <2>1 DEF Lazy, Undecided
  <2> QED  BY <2>1, <2>2, <2>3
<1>2. ASSUME NEW d \in DOMAIN memo, Op(d) = "lambda", memo[d] # Undecided, Src(d).id = line
      PROVE  line \in DOMAIN interned
  <2>1. Fits(d)  BY <1>2, FitsMeans DEF FInv
  <2>2. memo[d] = Lazy(line)  BY <1>2, <2>1 DEF Fits, TypeOf, LambdaId
  <2>3. memo[d] \in KnownTypes  BY <1>2 DEF FInv, IInv, MemoOK
  <2> QED  BY <2>2, <2>3 DEF KnownTypes, Lazy
<1> QED  BY <1>1, <1>2

(* The lambda that a step gives a type to is the one its line stands for,   *)
(* if the line has stood for none.                                          *)
LEMMA NewLine ==
  ASSUME FInv, [Next]_vars, NEW e \in DOMAIN memo', Op(e)' = "lambda", memo'[e] # Undecided,
         Src(e).id \notin DOMAIN interned
  PROVE  interned'[Src(e).id] = e.n
<1>1. IInv /\ IInv' /\ FInv' /\ Keeps  BY Inductive, NextFits, StepKeeps DEF FInv
<1>2. e \notin DOMAIN memo \/ memo[e] = Undecided
  <2> SUFFICES ASSUME e \in DOMAIN memo, memo[e] # Undecided PROVE FALSE  OBVIOUS
  <2>1. Op(e) = "lambda"
    <3>1. e \in ValidObjects /\ Grows  BY <1>1 DEF FInv, Keeps
    <3> QED  BY <1>1, <3>1, ObjectStays
  <2> QED  BY <2>1, FirstOfLine
<1>3. CASE Conclude
  <2>1. PICK x, t : x = Top.expr /\ t = TypeOf(Top.expr, Top.tys)  OBVIOUS
  <2>2. memo' = Settle(x, t) /\ interned' = Intern(x)  BY <1>3, <2>1 DEF Conclude
  <2>3. e = x  BY <1>2, <2>2 DEF Settle, Forget, Remember
  <2>4. Op(x) = "lambda"
    <3>1. x \in ValidObjects /\ Grows
      BY <1>1, <1>3, <2>1, StackFacts DEF Conclude, Keeps, Activation, Frame
    <3> QED  BY <1>1, <2>3, <3>1, ObjectStays
  <2> QED  BY <2>2, <2>3, <2>4 DEF Intern, Remember, LambdaId
<1>4. CASE Instantiate
  <2>1. PICK key, params : key = CallKey(Top) /\ params = Params(key.id)  OBVIOUS
  <2>2. PICK i \in DOMAIN params : e = Obj(key, params[i])
    BY <1>2, <1>4, <2>1 DEF Instantiate
  <2>3. Op(e)' = "param"  BY <1>1, <1>4, <2>1, <2>2, ParamOp
  <2> QED  BY <2>3
<1>5. CASE memo' = memo  BY <1>2, <1>5
<1>6. ASSUME NEW x, Begin(x), x \notin DOMAIN memo PROVE FALSE
  BY <1>2, <1>6 DEF Begin, Remember
<1> QED
  BY <1>3, <1>4, <1>5, <1>6
  DEF Next, Step, Hit, Visit, RuleViolation, NotAFunction, WrongArity, Throw, Known, Query,
      vars

(* The type of a lambda is its line, and the line stands for the lambda on  *)
(* it that was typed first, whatever is typed later: the table keeps the    *)
(* first (type.cpp 16-19, context.cpp 11-26).                               *)
THEOREM LinesStandForTheirFirst == Spec => LineStandsForItsFirst
<1>1. ASSUME FInv, [Next]_vars
      PROVE  \A e \in DOMAIN memo' : Op(e)' = "lambda" /\ memo'[e] # Undecided =>
               /\ memo'[e] = Lazy(Src(e).id)
               /\ interned'[Src(e).id] =
                    IF TypedOn(Src(e).id) = {} THEN e.n ELSE interned[Src(e).id]
  <2>1. FInv' /\ Keeps  BY <1>1, NextFits, StepKeeps DEF FInv
  <2> SUFFICES ASSUME NEW e \in DOMAIN memo', Op(e)' = "lambda", memo'[e] # Undecided,
                      NEW line, line = Src(e).id
               PROVE  /\ memo'[e] = Lazy(line)
                      /\ interned'[line] = IF TypedOn(line) = {} THEN e.n ELSE interned[line]
    OBVIOUS
  <2>2. memo'[e] = Lazy(line)
    <3>1. Fits(e)'  BY <2>1, FitsMeans' DEF FInv, Fits, KidTypes, TypesFit
    <3>2. memo'[e] = Lazy(Src(e).id)'  BY <3>1 DEF Fits, TypeOf, LambdaId
    <3>3. Src(e)' = Src(e)  BY <2>1 DEF Keeps, Grows, Src
    <3> QED  BY <3>2, <3>3 DEF Lazy
  <2>3. TypedOn(line) = {} <=> line \notin DOMAIN interned
    BY <1>1, FirstOfLine DEF TypedOn
  <2>4. CASE line \in DOMAIN interned
    BY <2>1, <2>2, <2>3, <2>4 DEF Keeps, Grows
  <2>5. CASE line \notin DOMAIN interned
    <3>1. interned'[line] = e.n  BY <1>1, <2>5, NewLine
    <3> QED  BY <2>2, <2>3, <2>5, <3>1
  <2> QED  BY <2>4, <2>5
<1>2. ASSUME FInv, [Next]_vars
      PROVE  [\A e \in DOMAIN memo' : Op(e)' = "lambda" /\ memo'[e] # Undecided =>
                /\ memo'[e] = Lazy(Src(e).id)
                /\ interned'[Src(e).id] =
                     IF TypedOn(Src(e).id) = {} THEN e.n ELSE interned[Src(e).id]]_vars
  BY <1>1, <1>2
<1> QED  BY <1>2, FitHolds, PTL DEF Spec, LineStandsForItsFirst
=============================================================================
