--------------------------- MODULE CodeGenProofs ---------------------------
(***************************************************************************)
(* Proofs about CodeGen for every set of programs.                         *)
(*                                                                         *)
(* The invariant says where each activation of translate_value is with its *)
(* operands, and with the blocks and the function it has put off: what it  *)
(* finds again when the generator comes back to it.                        *)
(***************************************************************************)
EXTENDS CodeGen, SequenceTheorems, FiniteSetTheorems, WellFoundedInduction, TLAPS

Progress(f) == <<Len(f.vals), Len(f.next)>>

(* What an activation has may be seen from its values: an if its blocks, a  *)
(* call that generates a function one value more than it has operands.      *)
FrameOK(f) ==
  /\ IF Op(f) = "if"
     THEN Progress(f) \in {<<0, 0>>, <<1, 0>>, <<1, 2>>, <<2, 2>>, <<2, 1>>, <<3, 1>>}
     ELSE f.next = << >>
  /\ IF Generating(f)
     THEN Op(f) = "call" /\ Index(f) \in DOMAIN made
     ELSE Len(f.vals) <= Len(Kids(f))

(* An activation that waits for the value of another one, and the innermost. *)
WaitingOK(f) ==
  /\ IF Generating(f) THEN Complete(f) ELSE Len(f.vals) < Len(Kids(f))
  /\ Op(f) = "if" => Progress(f) \in {<<0, 0>>, <<1, 2>>, <<2, 1>>}
InnermostOK(f) == Generating(f) => Answered(f, Len(Kids(f)) + 1)

Control ==
  /\ outcome = "running" <=> stack # << >>
  /\ stack # << >> => stack[1].n = Len(program.node)
  /\ \A i \in 1 .. Len(stack) :
       /\ FrameOK(stack[i])
       /\ IF i = Len(stack) THEN InnermostOK(stack[i]) ELSE WaitingOK(stack[i])

IInv == program \in Programs /\ TypeOK /\ Control
-----------------------------------------------------------------------------
(* What programs are. *)
LEMMA NodeFacts ==
  ASSUME IInv, NEW n \in 1 .. Len(program.node)
  PROVE  LET nd == program.node[n] IN
         /\ nd.kids \in Seq(Nat) /\ Len(nd.kids) \in Nat
         /\ \A i \in 1 .. Len(nd.kids) : nd.kids[i] \in 1 .. Len(program.node)
         /\ nd.op \in {"const", "string", "symbol", "plus", "minus", "not", "inv", "addrof",
                       "deref", "bin", "if", "block", "lambda", "call"}
         /\ nd.op = "if" => Len(nd.kids) = 3
         /\ nd.op \in {"plus", "minus", "not", "inv", "addrof", "deref"} => Len(nd.kids) = 1
         /\ nd.op = "call" =>
              /\ Len(nd.kids) > 0 /\ nd.inst \in 1 .. Len(program.inst)
              /\ program.inst[nd.inst].ret \in 1 .. Len(program.node)
              /\ program.node[nd.kids[Len(nd.kids)]].name \in Functions
              /\ \A s \in program.inst[nd.inst].params \cup program.inst[nd.inst].captures :
                   s \in 1 .. Len(program.node)
<1> DEFINE nd == program.node[n]
<1>1. ProgramOK(program)  BY ProgramsAssumption DEF IInv
<1>2. program.node \in Seq(Node) /\ Len(program.node) \in Nat
  BY <1>1, LenProperties DEF ProgramOK
<1>3. nd \in Node  BY <1>2, ElementOfSeq
<1>4. nd.kids \in Seq(Nat) /\ Len(nd.kids) \in Nat
  BY <1>3, LenProperties DEF Node
<1>5. /\ \A i \in 1 .. Len(nd.kids) : nd.kids[i] \in 1 .. n - 1
      /\ nd.op = "if" => Len(nd.kids) = 3
      /\ nd.op = "call" => Len(nd.kids) > 0 /\ nd.inst \in 1 .. Len(program.inst)
      /\ nd.op \in {"plus", "minus", "not", "inv", "addrof", "deref"} => Len(nd.kids) = 1
  BY <1>1 DEF ProgramOK
<1>6. \A i \in 1 .. Len(nd.kids) : nd.kids[i] \in 1 .. Len(program.node)  BY <1>2, <1>5
<1>7. ASSUME nd.op = "call"
      PROVE  /\ program.inst[nd.inst].ret \in 1 .. Len(program.node)
             /\ program.node[nd.kids[Len(nd.kids)]].name \in Functions
             /\ \A s \in program.inst[nd.inst].params \cup program.inst[nd.inst].captures :
                  s \in 1 .. Len(program.node)
  <2>1. Len(nd.kids) \in 1 .. Len(nd.kids)  BY <1>4, <1>5, <1>7
  <2>2. nd.kids[Len(nd.kids)] \in 1 .. Len(program.node)  BY <1>6, <2>1
  <2>3. program.node[nd.kids[Len(nd.kids)]].name \in Functions  BY <2>2 DEF Functions
  <2> QED  BY <1>1, <1>5, <1>7, <2>3 DEF ProgramOK
<1>8. nd.op \in {"const", "string", "symbol", "plus", "minus", "not", "inv", "addrof",
                 "deref", "bin", "if", "block", "lambda", "call"}
  BY <1>3 DEF Node
<1> HIDE DEF nd
<1>9. /\ nd.kids \in Seq(Nat) /\ Len(nd.kids) \in Nat
      /\ \A i \in 1 .. Len(nd.kids) : nd.kids[i] \in 1 .. Len(program.node)
      /\ nd.op \in {"const", "string", "symbol", "plus", "minus", "not", "inv", "addrof",
                    "deref", "bin", "if", "block", "lambda", "call"}
      /\ nd.op = "if" => Len(nd.kids) = 3
      /\ nd.op \in {"plus", "minus", "not", "inv", "addrof", "deref"} => Len(nd.kids) = 1
      /\ nd.op = "call" =>
           /\ Len(nd.kids) > 0 /\ nd.inst \in 1 .. Len(program.inst)
           /\ program.inst[nd.inst].ret \in 1 .. Len(program.node)
           /\ program.node[nd.kids[Len(nd.kids)]].name \in Functions
           /\ \A s \in program.inst[nd.inst].params \cup program.inst[nd.inst].captures :
                s \in 1 .. Len(program.node)
  BY <1>4, <1>5, <1>6, <1>7, <1>8
<1> QED  BY <1>9 DEF nd

(* The stack, and what becomes of it: an element is put on it, the last one *)
(* is taken off or replaced.                                                *)
LEMMA StackFacts ==
  ASSUME NEW S, stack \in Seq(S), stack # << >>
  PROVE  /\ Len(stack) \in Nat \ {0} /\ Len(stack) \in 1 .. Len(stack) /\ Top \in S
         /\ \A i \in 1 .. Len(stack) : stack[i] \in S
         /\ Rest \in Seq(S) /\ Len(Rest) = Len(stack) - 1
         /\ \A i \in 1 .. Len(stack) - 1 : Rest[i] = stack[i]
         /\ Rest = << >> <=> Len(stack) = 1
<1>1. Len(stack) \in Nat \ {0}  BY EmptySeq, LenProperties
<1>2. Len(stack) \in 1 .. Len(stack)  BY <1>1
<1>3. \A i \in 1 .. Len(stack) : stack[i] \in S  BY ElementOfSeq
<1> DEFINE n == Len(stack) - 1
<1>4. n \in Nat /\ \A i \in 1 .. n : stack[i] \in S
  <2>1. \A i \in 1 .. n : i \in 1 .. Len(stack)  BY <1>1
  <2> QED  BY <1>1, <1>3, <2>1
<1>5. Rest = SubSeq(stack, 1, n)  BY DEF Rest
<1> HIDE DEF n
<1>6. Rest \in Seq(S) /\ Len(Rest) = n /\ \A i \in 1 .. n : Rest[i] = stack[i]
  <2>1. /\ SubSeq(stack, 1, n) \in Seq(S)
        /\ Len(SubSeq(stack, 1, n)) = IF 1 <= n THEN n - 1 + 1 ELSE 0
        /\ \A i \in 1 .. n - 1 + 1 : SubSeq(stack, 1, n)[i] = stack[1 + i - 1]
    BY <1>4, SubSeqProperties
  <2> QED  BY <2>1, <1>4, <1>5
<1>7. Rest = << >> <=> n = 0  BY <1>6, EmptySeq
<1> QED  BY <1>1, <1>2, <1>3, <1>6, <1>7 DEF Top, n

LEMMA Appended ==
  ASSUME NEW S, NEW seq \in Seq(S), NEW e \in S
  PROVE  /\ Append(seq, e) \in Seq(S)
         /\ Len(seq) \in Nat
         /\ Len(Append(seq, e)) = Len(seq) + 1
         /\ \A i \in 1 .. Len(seq) : Append(seq, e)[i] = seq[i]
         /\ Append(seq, e)[Len(seq) + 1] = e
         /\ Append(seq, e) # << >>
<1>1. /\ Append(seq, e) \in Seq(S)
      /\ Len(seq) \in Nat
      /\ Len(Append(seq, e)) = Len(seq) + 1
      /\ \A i \in 1 .. Len(seq) : Append(seq, e)[i] = seq[i]
      /\ Append(seq, e)[Len(seq) + 1] = e
  BY AppendProperties, LenProperties
<1> QED  BY <1>1, EmptySeq

LEMMA Updated ==
  ASSUME NEW S, stack \in Seq(S), stack # << >>, NEW g \in S
  PROVE  /\ Update(g) \in Seq(S) /\ Len(Update(g)) = Len(stack) /\ Update(g) # << >>
         /\ \A i \in 1 .. Len(stack) : Update(g)[i] = IF i = Len(stack) THEN g ELSE stack[i]
<1>1. /\ Rest \in Seq(S) /\ Len(Rest) = Len(stack) - 1 /\ Len(stack) \in Nat \ {0}
      /\ \A i \in 1 .. Len(stack) - 1 : Rest[i] = stack[i]
  BY StackFacts
<1>2. /\ Update(g) \in Seq(S) /\ Len(Update(g)) = Len(Rest) + 1 /\ Update(g) # << >>
      /\ \A i \in 1 .. Len(Rest) : Update(g)[i] = Rest[i]
      /\ Update(g)[Len(Rest) + 1] = g
  BY <1>1, Appended DEF Update
<1>3. \A i \in 1 .. Len(stack) : i = Len(stack) \/ i \in 1 .. Len(stack) - 1  BY <1>1
<1> QED  BY <1>1, <1>2, <1>3
-----------------------------------------------------------------------------
(* The shapes of a step.  The generator is left, or frame m becomes g and   *)
(* those behind it are gone, or frame m becomes g and waits for k.          *)
Stopped == stack' = << >> /\ outcome' \in {"done", "rejected", "undefined"}

Survives(m, g) ==
  /\ outcome' = "running" /\ stack' \in Seq(Frames') /\ m \in 1 .. Len(stack)
  /\ \A i \in 1 .. m - 1 : stack'[i] = stack[i]
  /\ stack'[m] = g
Continues(m, g) == Survives(m, g) /\ Len(stack') = m
WaitsFor(m, g, k) == Survives(m, g) /\ Len(stack') = m + 1 /\ stack'[m + 1] = Activation(k)

(* Programs stay, and what is made stays made. *)
Grown ==
  /\ program' = program
  /\ Len(blocks') \in Nat /\ Len(blocks) <= Len(blocks')
  /\ DOMAIN made \subseteq DOMAIN made'

LEMMA SeqGrows == ASSUME NEW S, NEW T, S \subseteq T PROVE Seq(S) \subseteq Seq(T)
<1> SUFFICES ASSUME NEW s \in Seq(S) PROVE s \in Seq(T)  OBVIOUS
<1>1. \A i \in 1 .. Len(s) : s[i] \in T  BY ElementOfSeq
<1>2. Len(s) \in Nat /\ s = [i \in 1 .. Len(s) |-> s[i]]  BY LenProperties, SeqDef
<1> QED  BY <1>1, <1>2, SeqDef

LEMMA SetsGrow ==
  ASSUME IInv, Grown
  PROVE  /\ Functions' = Functions
         /\ Len(blocks) \in Nat /\ 1 .. Len(blocks) \subseteq 1 .. Len(blocks')
         /\ Frames \subseteq Frames' /\ Seq(Frames) \subseteq Seq(Frames')
         /\ Blocks \subseteq Blocks' /\ Seq(Blocks) \subseteq Seq(Blocks')
<1>1. Functions' = Functions  BY DEF Functions, Grown
<1>2. Len(blocks) \in Nat  BY LenProperties DEF IInv, TypeOK
<1>3. /\ 1 .. Len(blocks) \subseteq 1 .. Len(blocks')
      /\ 0 .. Len(blocks) \subseteq 0 .. Len(blocks')
  BY <1>2 DEF Grown
<1>4. Seq(1 .. Len(blocks)) \subseteq Seq(1 .. Len(blocks'))  BY <1>3, SeqGrows
<1>5. SUBSET (1 .. Len(blocks)) \subseteq SUBSET (1 .. Len(blocks'))  BY <1>3
<1>6. Frames \subseteq Frames'
  <2> SUFFICES ASSUME NEW f \in Frames PROVE f \in Frames'  OBVIOUS
  <2>1. /\ f = [n |-> f.n, vals |-> f.vals, next |-> f.next, site |-> f.site]
        /\ f.site = [fn |-> f.site.fn, block |-> f.site.block]
    BY DEF Frames
  <2>2. /\ f.n \in 1 .. Len(program'.node) /\ f.vals \in Seq(Value)
        /\ f.next \in Seq(1 .. Len(blocks'))
        /\ f.site.fn \in Functions' /\ f.site.block \in 0 .. Len(blocks')
    BY <1>1, <1>3, <1>4 DEF Frames, Grown
  <2>3. f.site \in [fn : Functions', block : 0 .. Len(blocks')]  BY <2>1, <2>2
  <2> QED  BY <2>1, <2>2, <2>3 DEF Frames, Value
<1>7. Blocks \subseteq Blocks'  BY <1>1, <1>5 DEF Blocks
<1> QED  BY <1>1, <1>2, <1>3, <1>6, <1>7, SeqGrows

(* What is said of a frame of the next stack is said of its value. *)
LEMMA OfTheFrame ==
  ASSUME NEW i, NEW f, stack'[i] = f
  PROVE  /\ FrameOK(stack[i])' <=> FrameOK(f)'
         /\ WaitingOK(stack[i])' <=> WaitingOK(f)'
         /\ InnermostOK(stack[i])' <=> InnermostOK(f)'
BY DEF FrameOK, WaitingOK, InnermostOK, Progress, Op, Kids, Index, Complete, Answered, Generating

(* A frame that is left alone stays as it is. *)
LEMMA FrameStays ==
  ASSUME Grown, NEW f
  PROVE  /\ FrameOK(f) => FrameOK(f)'
         /\ WaitingOK(f) <=> WaitingOK(f)'
         /\ InnermostOK(f) <=> InnermostOK(f)'
BY DEF Grown, FrameOK, WaitingOK, InnermostOK, Progress, Op, Kids, Index, Complete, Answered,
       Generating

LEMMA ControlContinues ==
  ASSUME IInv, Grown, NEW m, NEW g, Continues(m, g), g.n = stack[m].n,
         FrameOK(g)', InnermostOK(g)'
  PROVE  Control'
<1>1. stack # << >> /\ Len(stack) \in Nat /\ m \in 1 .. Len(stack)
  BY EmptySeq, LenProperties DEF Continues, Survives, IInv, TypeOK
<1>2. stack' # << >> /\ outcome' = "running"
  BY <1>1, EmptySeq DEF Continues, Survives
<1>3. stack'[1].n = Len(program'.node)
  <2>1. CASE m = 1  BY <2>1, <1>1 DEF Continues, Survives, IInv, Control, Grown
  <2>2. CASE m # 1
    <3>1. 1 \in 1 .. m - 1  BY <2>2, <1>1
    <3> QED  BY <3>1, <1>1 DEF Continues, Survives, IInv, Control, Grown
  <2> QED  BY <2>1, <2>2
<1>4. ASSUME NEW i \in 1 .. Len(stack')
      PROVE  /\ FrameOK(stack[i])'
             /\ IF i = Len(stack') THEN InnermostOK(stack[i])' ELSE WaitingOK(stack[i])'
  <2>1. CASE i = m
    <3>1. stack'[i] = g  BY <2>1 DEF Continues, Survives
    <3> QED  BY <3>1, <2>1, OfTheFrame DEF Continues
  <2>2. CASE i # m
    <3>1. i \in 1 .. m - 1 /\ i \in 1 .. Len(stack) /\ i # Len(stack) /\ i # Len(stack')
      BY <2>2, <1>1 DEF Continues
    <3>2. PICK f : f = stack[i]  OBVIOUS
    <3>3. stack'[i] = f  BY <3>1, <3>2 DEF Continues, Survives
    <3>4. FrameOK(f) /\ WaitingOK(f)  BY <3>1, <3>2 DEF IInv, Control
    <3>5. FrameOK(f)' /\ WaitingOK(f)'  BY <3>4, FrameStays
    <3> QED  BY <3>1, <3>3, <3>5, OfTheFrame
  <2> QED  BY <2>1, <2>2
<1> QED  BY <1>2, <1>3, <1>4 DEF Control

LEMMA ControlWaits ==
  ASSUME IInv, Grown, NEW m, NEW g, NEW k, WaitsFor(m, g, k), g.n = stack[m].n,
         k \in 1 .. Len(program.node), FrameOK(g)', WaitingOK(g)'
  PROVE  Control'
<1>1. stack # << >> /\ Len(stack) \in Nat /\ m \in 1 .. Len(stack)
  BY EmptySeq, LenProperties DEF WaitsFor, Survives, IInv, TypeOK
<1>2. stack' # << >> /\ outcome' = "running"
  BY <1>1, EmptySeq DEF WaitsFor, Survives
<1>3. stack'[1].n = Len(program'.node)
  <2>1. CASE m = 1  BY <2>1, <1>1 DEF WaitsFor, Survives, IInv, Control, Grown
  <2>2. CASE m # 1
    <3>1. 1 \in 1 .. m - 1  BY <2>2, <1>1
    <3> QED  BY <3>1, <1>1 DEF WaitsFor, Survives, IInv, Control, Grown
  <2> QED  BY <2>1, <2>2
<1>4. ASSUME NEW i \in 1 .. Len(stack')
      PROVE  /\ FrameOK(stack[i])'
             /\ IF i = Len(stack') THEN InnermostOK(stack[i])' ELSE WaitingOK(stack[i])'
  <2>1. CASE i = m
    <3>1. stack'[i] = g /\ i # Len(stack')  BY <2>1, <1>1 DEF WaitsFor, Survives
    <3> QED  BY <3>1, <2>1, OfTheFrame
  <2>2. CASE i = m + 1
    <3>1. PICK f : f = Activation(k)  OBVIOUS
    <3>2. f.n = k /\ f.vals = << >> /\ f.next = << >> /\ f.site.block = Null /\ stack'[i] = f
      BY <3>1, <2>2 DEF WaitsFor, Activation, NoSite
    <3>3. Len(Kids(f)) \in Nat
      BY <3>2, NodeFacts DEF Kids
    <3>4. FrameOK(f) /\ InnermostOK(f)
      <4>1. Len(f.vals) = 0 /\ Len(f.next) = 0 /\ ~Generating(f)
        BY <3>2, EmptySeq DEF Generating
      <4> QED  BY <4>1, <3>2, <3>3 DEF FrameOK, InnermostOK, Progress
    <3>5. FrameOK(f)' /\ InnermostOK(f)'  BY <3>4, FrameStays
    <3> QED  BY <3>2, <3>5, <2>2, OfTheFrame DEF WaitsFor
  <2>3. CASE i # m /\ i # m + 1
    <3>1. i \in 1 .. m - 1 /\ i \in 1 .. Len(stack) /\ i # Len(stack) /\ i # Len(stack')
      BY <2>3, <1>1 DEF WaitsFor
    <3>2. PICK f : f = stack[i]  OBVIOUS
    <3>3. stack'[i] = f  BY <3>1, <3>2 DEF WaitsFor, Survives
    <3>4. FrameOK(f) /\ WaitingOK(f)  BY <3>1, <3>2 DEF IInv, Control
    <3>5. FrameOK(f)' /\ WaitingOK(f)'  BY <3>4, FrameStays
    <3> QED  BY <3>1, <3>3, <3>5, OfTheFrame
  <2> QED  BY <2>1, <2>2, <2>3
<1> QED  BY <1>2, <1>3, <1>4 DEF Control

LEMMA ControlStops == ASSUME Stopped PROVE Control'
<1>1. stack' = << >> /\ Len(stack') = 0 /\ outcome' # "running"  BY EmptySeq DEF Stopped
<1> QED  BY <1>1 DEF Control
-----------------------------------------------------------------------------
(* What is known of an activation. *)
LEMMA FrameFacts ==
  ASSUME IInv, NEW i \in 1 .. Len(stack), NEW f, f = stack[i]
  PROVE  /\ f \in Frames /\ FrameOK(f)
         /\ f.n \in 1 .. Len(program.node) /\ f.vals \in Seq(Value) /\ Len(f.vals) \in Nat
         /\ f.next \in Seq(1 .. Len(blocks)) /\ Len(f.next) \in Nat
         /\ Len(Kids(f)) \in Nat /\ Op(f) = "if" => Len(Kids(f)) = 3
         /\ IF i = Len(stack) THEN InnermostOK(f) ELSE WaitingOK(f)
<1>0. stack \in Seq(Frames)  BY DEF IInv, TypeOK
<1>1. f \in Frames  BY <1>0, ElementOfSeq
<1>2. f.n \in 1 .. Len(program.node) /\ f.vals \in Seq(Value) /\ f.next \in Seq(1 .. Len(blocks))  BY <1>1 DEF Frames
<1>3. Len(Kids(f)) \in Nat /\ Op(f) = "if" => Len(Kids(f)) = 3
  BY <1>2, NodeFacts DEF Kids, Op
<1> QED  BY <1>1, <1>2, <1>3, LenProperties DEF IInv, Control

LEMMA Running ==
  ASSUME IInv, outcome = "running"
  PROVE  /\ stack # << >> /\ Len(stack) \in Nat \ {0} /\ Len(stack) \in 1 .. Len(stack)
         /\ stack \in Seq(Frames)
         /\ block \in 1 .. Len(blocks) /\ Len(blocks) \in Nat
BY StackFacts, LenProperties DEF IInv, Control, TypeOK

(* The caller with the value of the activation that returns. *)
Answering(v) == [stack[Len(stack) - 1] EXCEPT !.vals = Append(@, v)]

LEMMA Returning ==
  ASSUME IInv, outcome = "running", Grown, NEW v \in Value, Return(v)
  PROVE  /\ Stopped \/ (Len(stack) > 1 /\ Continues(Len(stack) - 1, Answering(v)))
         /\ Control' /\ stack' \in Seq(Frames')
<1>1. CASE stack' = << >> /\ outcome' \in {"done", "rejected", "undefined"}
  <2>1. Stopped  BY <1>1 DEF Stopped
  <2>2. stack' \in Seq(Frames')  BY <1>1, EmptySeq
  <2> QED  BY <2>1, <2>2, ControlStops
<1>2. CASE /\ Rest # << >> /\ outcome' = outcome
           /\ stack' = [Rest EXCEPT ![Len(Rest)].vals = Append(@, v)]
  <2> DEFINE m == Len(stack) - 1
  <2>0. PICK f, g : f = stack[m] /\ g = [f EXCEPT !.vals = Append(@, v)]  OBVIOUS
  <2>1. /\ stack # << >> /\ Rest \in Seq(Frames) /\ Len(Rest) = m
        /\ \A i \in 1 .. m : Rest[i] = stack[i]
        /\ Len(stack) \in Nat \ {0} /\ m # 0
    BY <1>2, Running, StackFacts
  <2>2. m \in 1 .. m /\ m \in 1 .. Len(stack) /\ m # Len(stack) /\ Len(stack) > 1 /\ m \in Nat
    BY <2>1
  <2>3. /\ f \in Frames /\ FrameOK(f) /\ WaitingOK(f)
        /\ f.vals \in Seq(Value) /\ Len(f.vals) \in Nat /\ Len(f.next) \in Nat
        /\ Len(Kids(f)) \in Nat /\ Op(f) = "if" => Len(Kids(f)) = 3
    BY <2>0, <2>2, FrameFacts
  <2>4. /\ Append(f.vals, v) \in Seq(Value)
        /\ Len(Append(f.vals, v)) = Len(f.vals) + 1
    BY <2>3, AppendProperties
  <2>5. /\ g \in Frames /\ g.n = f.n /\ g.next = f.next /\ g.site = f.site
        /\ g.vals = Append(f.vals, v)
    BY <2>0, <2>3, <2>4 DEF Frames
  <2>6. Rest[m] = f  BY <2>0, <2>1, <2>2
  <2>7. stack' = [Rest EXCEPT ![m] = g]
    BY <1>2, <2>0, <2>1, <2>6
  <2>8. [Rest EXCEPT ![m] = g] \in Seq(Frames) /\ Len([Rest EXCEPT ![m] = g]) = m
    BY <2>1, <2>2, <2>5, ExceptSeq
  <2>9. stack' \in Seq(Frames')
    BY <2>7, <2>8, SetsGrow
  <2>10. stack'[m] = g /\ \A i \in 1 .. m - 1 : stack'[i] = stack[i]
    <3>1. DOMAIN Rest = 1 .. m  BY <2>1, LenProperties
    <3>2. \A i \in 1 .. m - 1 : i \in 1 .. m /\ i # m  BY <2>2
    <3> QED  BY <3>1, <3>2, <2>1, <2>2, <2>7
  <2>11. Continues(m, g)
    BY <1>2, <2>2, <2>7, <2>8, <2>9, <2>10 DEF Continues, Survives
  <2>12. FrameOK(g) /\ InnermostOK(g)
    <3>1. Op(g) = Op(f) /\ Kids(g) = Kids(f) /\ Index(g) = Index(f)
          /\ (Generating(g) <=> Generating(f))
      BY <2>5 DEF Op, Kids, Index, Generating
    <3>2. Len(g.vals) = Len(f.vals) + 1 /\ g.next = f.next  BY <2>4, <2>5
    <3>3. CASE Op(f) = "if"
      <4>1. \/ Len(f.vals) = 0 /\ Len(f.next) = 0
            \/ Len(f.vals) = 1 /\ Len(f.next) = 2
            \/ Len(f.vals) = 2 /\ Len(f.next) = 1
        BY <2>3, <3>3 DEF WaitingOK, Progress
      <4>2. Progress(g) \in {<<1, 0>>, <<2, 2>>, <<3, 1>>}
        <5>1. Len(g.next) = Len(f.next)  BY <3>2
        <5>2. \/ Len(g.vals) = 1 /\ Len(g.next) = 0
              \/ Len(g.vals) = 2 /\ Len(g.next) = 2
              \/ Len(g.vals) = 3 /\ Len(g.next) = 1
          <6>1. CASE Len(f.vals) = 0 /\ Len(f.next) = 0  BY <3>2, <5>1, <6>1
          <6>2. CASE Len(f.vals) = 1 /\ Len(f.next) = 2  BY <3>2, <5>1, <6>2
          <6>3. CASE Len(f.vals) = 2 /\ Len(f.next) = 1  BY <3>2, <5>1, <6>3
          <6> QED  BY <4>1, <6>1, <6>2, <6>3
        <5> QED  BY <5>2 DEF Progress
      <4>3. ~Generating(f)  BY <2>3, <3>3 DEF FrameOK
      <4>4. Len(f.vals) < Len(Kids(f))  BY <4>3, <2>3 DEF WaitingOK
      <4>5. Len(f.vals) + 1 <= Len(Kids(f))  BY <4>4, <2>3
      <4> QED  BY <3>1, <3>2, <3>3, <4>2, <4>3, <4>5 DEF FrameOK, InnermostOK
    <3>4. CASE Op(f) # "if" /\ Generating(f)
      BY <3>1, <3>2, <3>4, <2>3 DEF FrameOK, InnermostOK, WaitingOK, Complete, Answered
    <3>5. CASE Op(f) # "if" /\ ~Generating(f)
      <4>4. Len(f.vals) < Len(Kids(f))  BY <3>5, <2>3 DEF WaitingOK
      <4>5. Len(f.vals) + 1 <= Len(Kids(f))  BY <4>4, <2>3
      <4>6. f.next = << >>  BY <3>5, <2>3 DEF FrameOK
      <4> QED  BY <3>1, <3>2, <3>5, <4>5, <4>6 DEF FrameOK, InnermostOK
    <3> QED  BY <3>3, <3>4, <3>5
  <2>13. FrameOK(g)' /\ InnermostOK(g)'
    BY <2>12, FrameStays
  <2>14. g.n = stack[m].n  BY <2>0, <2>5
  <2>15. Control'  BY <2>11, <2>13, <2>14, ControlContinues
  <2> QED  BY <2>0, <2>2, <2>9, <2>11, <2>15 DEF Answering
<1> QED  BY <1>1, <1>2 DEF Return, Stop, Undefined

(* The innermost activation. *)
LEMMA TopFacts ==
  ASSUME IInv, outcome = "running", NEW f, f = Top
  PROVE  /\ f \in Frames /\ FrameOK(f) /\ InnermostOK(f)
         /\ f.n \in 1 .. Len(program.node) /\ f.vals \in Seq(Value) /\ Len(f.vals) \in Nat
         /\ f.next \in Seq(1 .. Len(blocks)) /\ Len(f.next) \in Nat
         /\ Len(Kids(f)) \in Nat /\ Op(f) = "if" => Len(Kids(f)) = 3
<1>1. Len(stack) \in 1 .. Len(stack)  BY Running
<1> QED  BY <1>1, FrameFacts DEF Top

LEMMA Updating ==
  ASSUME IInv, outcome = "running", Grown, NEW g \in Frames',
         stack' = Update(g), outcome' = outcome
  PROVE  Continues(Len(stack), g)
<1>1. /\ stack \in Seq(Frames) /\ stack # << >>
      /\ Len(stack) \in Nat \ {0} /\ Len(stack) \in 1 .. Len(stack)
  BY Running
<1>2. PICK T : T = Frames'  OBVIOUS
<1>3. stack \in Seq(T) /\ g \in T  BY <1>1, <1>2, SetsGrow
<1>4. /\ Update(g) \in Seq(T) /\ Len(Update(g)) = Len(stack)
      /\ \A i \in 1 .. Len(stack) : Update(g)[i] = IF i = Len(stack) THEN g ELSE stack[i]
  BY <1>1, <1>3, Updated
<1>5. \A i \in 1 .. Len(stack) - 1 : i \in 1 .. Len(stack) /\ i # Len(stack)  BY <1>1
<1> QED  BY <1>1, <1>2, <1>4, <1>5 DEF Continues, Survives

LEMMA NewActivation ==
  ASSUME IInv, Grown, NEW k \in 1 .. Len(program.node)
  PROVE  Activation(k) \in Frames'
<1>1. /\ << >> \in Seq(Value) /\ << >> \in Seq(1 .. Len(blocks))
      /\ NoSite \in [fn : Functions, block : 0 .. Len(blocks)]
  <2>1. Construct \in Functions  BY DEF Functions
  <2>2. Null \in 0 .. Len(blocks)  BY LenProperties DEF IInv, TypeOK, Null
  <2> QED  BY <2>1, <2>2, EmptySeq DEF NoSite
<1>2. Activation(k) \in Frames  BY <1>1 DEF Activation, Frames
<1> QED  BY <1>2, SetsGrow

LEMMA Pushing ==
  ASSUME IInv, outcome = "running", Grown, NEW g \in Frames', NEW k \in 1 .. Len(program.node),
         stack' = Append(Update(g), Activation(k)), outcome' = outcome
  PROVE  WaitsFor(Len(stack), g, k)
<1>1. /\ stack \in Seq(Frames) /\ stack # << >>
      /\ Len(stack) \in Nat \ {0} /\ Len(stack) \in 1 .. Len(stack)
  BY Running
<1>2. PICK T : T = Frames'  OBVIOUS
<1>3. stack \in Seq(T) /\ g \in T /\ Activation(k) \in T  BY <1>1, <1>2, SetsGrow, NewActivation
<1>4. /\ Update(g) \in Seq(T) /\ Len(Update(g)) = Len(stack)
      /\ \A i \in 1 .. Len(stack) : Update(g)[i] = IF i = Len(stack) THEN g ELSE stack[i]
  BY <1>1, <1>3, Updated
<1>5. PICK u : u = Update(g)  OBVIOUS
<1>6. /\ Append(u, Activation(k)) \in Seq(T) /\ Len(Append(u, Activation(k))) = Len(u) + 1
      /\ \A i \in 1 .. Len(u) : Append(u, Activation(k))[i] = u[i]
      /\ Append(u, Activation(k))[Len(u) + 1] = Activation(k)
  BY <1>3, <1>4, <1>5, Appended
<1>7. \A i \in 1 .. Len(stack) - 1 : i \in 1 .. Len(stack) /\ i # Len(stack)  BY <1>1
<1> QED  BY <1>1, <1>2, <1>4, <1>5, <1>6, <1>7 DEF WaitsFor, Survives

LEMMA PushingOnly ==
  ASSUME IInv, outcome = "running", Grown, NEW k \in 1 .. Len(program.node),
         stack' = Append(stack, Activation(k)), outcome' = outcome
  PROVE  WaitsFor(Len(stack), Top, k)
<1>1. /\ stack \in Seq(Frames) /\ stack # << >>
      /\ Len(stack) \in Nat \ {0} /\ Len(stack) \in 1 .. Len(stack)
  BY Running
<1>2. PICK T : T = Frames'  OBVIOUS
<1>3. stack \in Seq(T) /\ Activation(k) \in T  BY <1>1, <1>2, SetsGrow, NewActivation
<1>4. /\ Append(stack, Activation(k)) \in Seq(T)
      /\ Len(Append(stack, Activation(k))) = Len(stack) + 1
      /\ \A i \in 1 .. Len(stack) : Append(stack, Activation(k))[i] = stack[i]
      /\ Append(stack, Activation(k))[Len(stack) + 1] = Activation(k)
  BY <1>3, Appended
<1>5. \A i \in 1 .. Len(stack) - 1 : i \in 1 .. Len(stack)  BY <1>1
<1> QED  BY <1>1, <1>2, <1>4, <1>5 DEF WaitsFor, Survives, Top
-----------------------------------------------------------------------------
(* The types of what is generated, which is all but the stack. *)
StorageOK == \A s \in DOMAIN storage : s \in 1 .. Len(program.node) /\ storage[s] \in 0 .. Len(blocks)
MadeOK == \A c \in DOMAIN made : c \in 1 .. Len(program.inst) /\ made[c] \in Functions
StructsOK == \A n \in DOMAIN structs : structs[n] \in Seq(Value)
LoadsOK == \A l \in loads : l.sym \in 1 .. Len(program.node) /\ {l.from, l.at} \subseteq 1 .. Len(blocks)
Tables ==
  /\ currFunc \in Functions /\ block \in 1 .. Len(blocks) /\ blocks \in Seq(Blocks)
  /\ StorageOK /\ MadeOK /\ StructsOK /\ LoadsOK

LEMMA TypeOKParts ==
  TypeOK <=> /\ stack \in Seq(Frames) /\ Tables
             /\ outcome \in {"running", "done", "rejected", "undefined"}
BY DEF TypeOK, Tables, StorageOK, MadeOK, StructsOK, LoadsOK

LEMMA InvariantHolds ==
  ASSUME IInv, Grown, stack' \in Seq(Frames'), Tables', Control',
         outcome' \in {"running", "done", "rejected", "undefined"}
  PROVE  IInv'
<1>1. program' \in Programs  BY DEF IInv, Grown
<1>2. TypeOK'  BY DEF TypeOK, Tables, StorageOK, MadeOK, StructsOK, LoadsOK
<1> QED  BY <1>1, <1>2 DEF IInv

(* A table that is left alone stays of its type. *)
LEMMA TablesStay ==
  ASSUME IInv, Grown
  PROVE  /\ currFunc' = currFunc => currFunc' \in Functions'
         /\ block' = block => block' \in 1 .. Len(blocks')
         /\ blocks' = blocks => blocks' \in Seq(Blocks')
         /\ storage' = storage => StorageOK'
         /\ made' = made => MadeOK'
         /\ structs' = structs => StructsOK'
         /\ loads' = loads => LoadsOK'
<1>1. /\ Functions' = Functions /\ program' = program
      /\ 1 .. Len(blocks) \subseteq 1 .. Len(blocks')
      /\ Seq(Blocks) \subseteq Seq(Blocks')
  BY SetsGrow DEF Grown
<1>2. 0 .. Len(blocks) \subseteq 0 .. Len(blocks')  BY SetsGrow DEF Grown
<1>3. Tables  BY TypeOKParts DEF IInv
<1>4. storage' = storage => StorageOK'
  BY <1>1, <1>2, <1>3 DEF Tables, StorageOK
<1>5. made' = made => MadeOK'
  BY <1>1, <1>3 DEF Tables, MadeOK
<1>6. structs' = structs => StructsOK'
  BY <1>3 DEF Tables, StructsOK, Value
<1>7. loads' = loads => LoadsOK'
  BY <1>1, <1>3 DEF Tables, LoadsOK
<1> QED  BY <1>1, <1>3, <1>4, <1>5, <1>6, <1>7 DEF Tables

LEMMA NothingEmitted ==
  ASSUME IInv, program' = program, UNCHANGED Emitted
  PROVE  Grown /\ Tables'
<1>1. Grown  BY LenProperties DEF Grown, Emitted, IInv, TypeOK
<1> QED  BY <1>1, TablesStay DEF Emitted, Tables

(* Block b is ended. *)
LEMMA EndedFacts ==
  ASSUME IInv
  PROVE  /\ Ended(block) \in Seq(Blocks) /\ Len(Ended(block)) = Len(blocks)
         /\ \A b \in 1 .. Len(blocks) :
              /\ Ended(block)[b].fn = blocks[b].fn
              /\ Ended(block)[b].doms = blocks[b].doms
              /\ Ended(block)[b].ends = IF b = block THEN blocks[b].ends + 1 ELSE blocks[b].ends
<1>1. blocks \in Seq(Blocks) /\ block \in 1 .. Len(blocks)  BY DEF IInv, TypeOK
<1>2. PICK e : e = [blocks[block] EXCEPT !.ends = @ + 1]  OBVIOUS
<1>3. blocks[block] \in Blocks  BY <1>1, ElementOfSeq
<1>4. /\ e \in Blocks /\ e.fn = blocks[block].fn /\ e.doms = blocks[block].doms
      /\ e.ends = blocks[block].ends + 1
  BY <1>2, <1>3 DEF Blocks
<1>5. Ended(block) = [blocks EXCEPT ![block] = e]  BY <1>2 DEF Ended
<1>6. [blocks EXCEPT ![block] = e] \in Seq(Blocks) /\ Len([blocks EXCEPT ![block] = e]) = Len(blocks)
  BY <1>1, <1>4, ExceptSeq
<1>7. DOMAIN blocks = 1 .. Len(blocks)  BY <1>1, LenProperties
<1>8. \A b \in 1 .. Len(blocks) : [blocks EXCEPT ![block] = e][b] = IF b = block THEN e ELSE blocks[b]
  BY <1>7
<1> QED  BY <1>4, <1>5, <1>6, <1>8

(* A new block. *)
LEMMA NewBlock ==
  ASSUME IInv, Grown, NEW fn \in Functions', NEW doms \in SUBSET (1 .. Len(blocks'))
  PROVE  Block(fn, doms) \in Blocks'
BY DEF Block, Blocks

(* A step that generates nothing and returns, or ends the generation. *)
LEMMA ReturnOnly ==
  ASSUME IInv, outcome = "running", program' = program, UNCHANGED Emitted, NEW v \in Value,
         Return(v)
  PROVE  IInv'
<1>1. Grown /\ Tables'  BY NothingEmitted
<1>2. Control' /\ stack' \in Seq(Frames')  BY <1>1, Returning
<1>3. outcome' \in {"running", "done", "rejected", "undefined"}
  BY DEF Return, Stop, Undefined
<1> QED  BY <1>1, <1>2, <1>3, InvariantHolds

LEMMA Returned ==
  ASSUME IInv, outcome = "running", Grown, Tables', NEW v \in Value, Return(v)
  PROVE  IInv'
<1>2. Control' /\ stack' \in Seq(Frames')  BY Returning
<1>3. outcome' \in {"running", "done", "rejected", "undefined"}
  BY DEF Return, Stop, Undefined
<1> QED  BY <1>2, <1>3, InvariantHolds

LEMMA StopOnly ==
  ASSUME IInv, program' = program, UNCHANGED Emitted, Reject \/ Undefined
  PROVE  IInv'
<1>1. Grown /\ Tables'  BY NothingEmitted
<1>2. Stopped /\ stack' = << >> /\ outcome' \in {"rejected", "undefined"}
  BY DEF Reject, Undefined, Stop, Stopped
<1>3. stack' \in Seq(Frames')  BY <1>2, EmptySeq
<1> QED  BY <1>1, <1>2, <1>3, ControlStops, InvariantHolds
-----------------------------------------------------------------------------
(* The invariant, step by step. *)
LEMMA VisitShape ==
  ASSUME IInv, Visit
  PROVE  \E k \in 1 .. Len(program.node) :
           /\ WaitsFor(Len(stack), Top, k) /\ WaitingOK(Top) /\ Grown
           /\ k = Kids(Top)[Len(Top.vals) + 1]
<1>1. outcome = "running" /\ Grown
  BY LenProperties DEF Visit, Grown, IInv, TypeOK
<1>2. PICK f : f = Top  OBVIOUS
<1>3. /\ f \in Frames /\ FrameOK(f) /\ InnermostOK(f) /\ f.n \in 1 .. Len(program.node)
      /\ Len(f.vals) \in Nat /\ Len(f.next) \in Nat /\ Len(Kids(f)) \in Nat
      /\ Op(f) = "if" => Len(Kids(f)) = 3
  BY <1>1, <1>2, TopFacts
<1>4. Len(f.vals) < Len(Kids(f))  BY <1>2 DEF Visit
<1>5. Len(f.vals) + 1 \in 1 .. Len(Kids(f))  BY <1>3, <1>4
<1>6. PICK k : k = Kids(f)[Len(f.vals) + 1]  OBVIOUS
<1>7. k \in 1 .. Len(program.node)  BY <1>3, <1>5, <1>6, NodeFacts DEF Kids
<1>8. stack' = Append(stack, Activation(k)) /\ outcome' = outcome
  BY <1>2, <1>6 DEF Visit
<1>9. WaitsFor(Len(stack), Top, k)  BY <1>1, <1>7, <1>8, PushingOnly
<1>10. ~Generating(f)
  BY <1>3, <1>4 DEF InnermostOK, Answered
<1>11. ASSUME Op(f) = "if"
       PROVE  Progress(f) \in {<<0, 0>>, <<1, 2>>, <<2, 1>>}
  <2>1. Len(f.next) = (3 - Len(f.vals)) % 3  BY <1>2, <1>11 DEF Visit
  <2>2. Len(f.vals) = 0 \/ Len(f.vals) = 1 \/ Len(f.vals) = 2
    <3>1. Len(f.vals) \in Nat /\ Len(f.vals) < 3  BY <1>3, <1>4, <1>11
    <3>2. \A n \in Nat : n < 3 => n = 0 \/ n = 1 \/ n = 2  OBVIOUS
    <3> QED  BY <3>1, <3>2
  <2>3. \/ Len(f.vals) = 0 /\ Len(f.next) = 0
        \/ Len(f.vals) = 1 /\ Len(f.next) = 2
        \/ Len(f.vals) = 2 /\ Len(f.next) = 1
    <3>1. (3 - 0) % 3 = 0 /\ (3 - 1) % 3 = 2 /\ (3 - 2) % 3 = 1
      <4>1. 3 - 0 = 3 /\ 3 - 1 = 2 /\ 3 - 2 = 1  OBVIOUS
      <4>2. 3 % 3 = 0 /\ 2 % 3 = 2 /\ 1 % 3 = 1  OBVIOUS
      <4> QED  BY <4>1, <4>2
    <3>2. CASE Len(f.vals) = 0  BY <2>1, <3>1, <3>2
    <3>3. CASE Len(f.vals) = 1  BY <2>1, <3>1, <3>3
    <3>4. CASE Len(f.vals) = 2  BY <2>1, <3>1, <3>4
    <3> QED  BY <2>2, <3>2, <3>3, <3>4
  <2> QED  BY <2>3 DEF Progress
<1>12. WaitingOK(f)  BY <1>4, <1>10, <1>11 DEF WaitingOK
<1> QED  BY <1>1, <1>2, <1>6, <1>7, <1>9, <1>12

LEMMA VisitStep == ASSUME IInv, Visit PROVE IInv'
<1>1. PICK k \in 1 .. Len(program.node) : WaitsFor(Len(stack), Top, k) /\ WaitingOK(Top) /\ Grown
  BY VisitShape
<1>2. outcome = "running"  BY DEF Visit
<1>3. PICK f, m : f = Top /\ m = Len(stack)  OBVIOUS
<1>4. FrameOK(f) /\ WaitingOK(f) /\ f.n = stack[m].n /\ f.n \in 1 .. Len(program.node)
  BY <1>1, <1>2, <1>3, TopFacts DEF Top
<1>5. FrameOK(f)' /\ WaitingOK(f)'  BY <1>1, <1>4, FrameStays
<1>6. Control'  BY <1>1, <1>3, <1>4, <1>5, ControlWaits
<1>7. StorageOK'
  <2>1. StorageOK /\ Len(blocks) \in Nat  BY <1>2, Running, TypeOKParts DEF IInv, Tables
  <2>2. CASE storage' = storage  BY <1>1, <2>2, TablesStay
  <2>3. CASE storage' = Assign(storage, f.n, Null)
    <3>1. program' = program /\ blocks' = blocks  BY DEF Visit
    <3>2. 0 \in 0 .. Len(blocks)  BY <2>1
    <3> QED  BY <1>4, <2>1, <2>3, <3>1, <3>2 DEF StorageOK, Assign, Null
  <2> QED  BY <1>3, <2>2, <2>3 DEF Visit
<1>8. Tables'  BY <1>1, <1>7, TablesStay DEF Visit, Tables
<1>9. stack' \in Seq(Frames') /\ outcome' = "running"  BY <1>1 DEF WaitsFor, Survives
<1> QED  BY <1>1, <1>6, <1>8, <1>9, InvariantHolds

LEMMA LoadOK ==
  ASSUME IInv, Grown, outcome = "running", Op(Top) = "symbol",
         NEW b \in 1 .. Len(blocks), LoadFrom(b), blocks' = blocks
  PROVE  LoadsOK'
<1>1. LoadsOK /\ block \in 1 .. Len(blocks)  BY Running, TypeOKParts DEF IInv, Tables
<1>2. Top.n \in 1 .. Len(program.node)  BY TopFacts
<1> QED  BY <1>1, <1>2 DEF LoadsOK, LoadFrom, Grown

LEMMA LoadSymbolStep == ASSUME IInv, LoadSymbol PROVE IInv'
<1>1. outcome = "running" /\ Op(Top) = "symbol"  BY DEF LoadSymbol, At
<1>2. Grown  BY LenProperties DEF LoadSymbol, Grown, IInv, TypeOK
<1>3. storage[Top.n] \in 1 .. Len(blocks)
  <2>1. storage[Top.n] \in 0 .. Len(blocks) /\ storage[Top.n] # 0
    BY DEF LoadSymbol, Stored, Null, IInv, TypeOK
  <2>2. Len(blocks) \in Nat  BY <1>1, Running
  <2> QED  BY <2>1, <2>2
<1>4. Tables'  BY <1>1, <1>2, <1>3, LoadOK, TablesStay DEF LoadSymbol, Tables
<1> QED  BY <1>1, <1>2, <1>4, Returned DEF LoadSymbol, Value

LEMMA StoreSymbolStep == ASSUME IInv, StoreSymbol PROVE IInv'
<1>1. outcome = "running" /\ Op(Top) = "symbol"  BY DEF StoreSymbol, At
<1>2. Grown  BY LenProperties DEF StoreSymbol, Grown, IInv, TypeOK
<1>3. block \in 1 .. Len(blocks) /\ block \in 0 .. Len(blocks)
  BY <1>1, Running
<1>4. StorageOK'
  <2>1. StorageOK  BY TypeOKParts DEF IInv, Tables
  <2>2. PICK n : n = Top.n  OBVIOUS
  <2>3. n \in 1 .. Len(program.node)  BY <1>1, <2>2, TopFacts
  <2>4. storage' = Assign(storage, n, block) /\ blocks' = blocks /\ program' = program
    BY <2>2 DEF StoreSymbol
  <2> QED  BY <1>3, <2>1, <2>3, <2>4 DEF StorageOK, Assign
<1>5. Tables'  BY <1>1, <1>2, <1>3, <1>4, LoadOK, TablesStay DEF StoreSymbol, Tables
<1> QED  BY <1>1, <1>2, <1>5, Returned DEF StoreSymbol, Value

LEMMA OperatorStep == ASSUME IInv, Operator PROVE IInv'
<1>1. /\ outcome = "running" /\ Complete(Top) /\ program' = program /\ UNCHANGED Emitted
      /\ Op(Top) \in {"bin", "inv", "plus", "deref"}
  BY DEF Operator, At
<1>2. Op(Top) = "plus" => Top.vals[1] \in Value
  <2> SUFFICES ASSUME Op(Top) = "plus" PROVE Top.vals[1] \in Value  OBVIOUS
  <2>1. Top.vals \in Seq(Value) /\ Top.n \in 1 .. Len(program.node)  BY <1>1, TopFacts
  <2>2. Len(Kids(Top)) = 1  BY <2>1, NodeFacts DEF Kids, Op
  <2>3. Len(Top.vals) = 1  BY <1>1, <2>2 DEF Complete, Answered
  <2> QED  BY <2>1, <2>3, ElementOfSeq
<1>3. PICK v : v = CASE Op(Top) = "deref" -> "load"
                     [] Op(Top) = "plus" -> Top.vals[1]
                     [] Op(Top) \in {"bin", "inv"} -> "computed"
  OBVIOUS
<1>4. v \in Value  BY <1>1, <1>2, <1>3 DEF Value
<1>5. Return(v)  BY <1>3 DEF Operator
<1> QED  BY <1>1, <1>4, <1>5, ReturnOnly

LEMMA LambdaStep == ASSUME IInv, Lambda PROVE IInv'
<1>1. outcome = "running" /\ Op(Top) = "lambda" /\ program' = program  BY DEF Lambda, At
<1>2. Grown  BY LenProperties DEF Lambda, Grown, IInv, TypeOK
<1>3. CASE Return("address") /\ UNCHANGED structs
  <2>1. Tables'  BY <1>2, <1>3, TablesStay DEF Lambda, Tables
  <2> QED  BY <1>1, <1>2, <1>3, <2>1, Returned DEF Value
<1>4. CASE Return("load") /\ structs' = Assign(structs, Top.n, Top.vals)
  <2>1. PICK f : f = Top  OBVIOUS
  <2>2. f.vals \in Seq(Value) /\ StructsOK  BY <1>1, <2>1, TopFacts, TypeOKParts DEF IInv, Tables
  <2>3. StructsOK'  BY <1>4, <2>1, <2>2 DEF StructsOK, Assign, Value
  <2>4. Tables'  BY <1>2, <2>3, TablesStay DEF Lambda, Tables
  <2> QED  BY <1>1, <1>2, <1>4, <2>4, Returned DEF Value
<1> QED  BY <1>3, <1>4 DEF Lambda

(* A branch ends the block and adds three. *)
LEMMA BranchShape ==
  ASSUME IInv, Branch, NEW n, n = Len(blocks)
  PROVE  /\ outcome = "running" /\ Op(Top) = "if" /\ Grown /\ n \in Nat
         /\ block' = n + 1 /\ blocks' \in Seq(Blocks') /\ Len(blocks') = n + 3
         /\ \A b \in 1 .. n : /\ blocks'[b].fn = blocks[b].fn
                              /\ blocks'[b].doms = blocks[b].doms
                              /\ blocks'[b].ends = IF b = block THEN blocks[b].ends + 1
                                                   ELSE blocks[b].ends
         /\ \A i \in 1 .. 3 : /\ blocks'[n + i].fn = currFunc /\ blocks'[n + i].ends = 0
                              /\ blocks'[n + i].doms = blocks[block].doms \cup {n + i}
         /\ Continues(Len(stack), [Top EXCEPT !.next = <<n + 2, n + 3>>])
<1>1. outcome = "running" /\ Op(Top) = "if" /\ program' = program  BY DEF Branch, At
<1>2. n \in Nat /\ blocks \in Seq(Blocks) /\ block \in 1 .. n /\ currFunc \in Functions
  BY <1>1, Running DEF IInv, TypeOK
<1>3. PICK d, e : d = blocks[block].doms /\ e = Ended(block)  OBVIOUS
<1>4. d \in SUBSET (1 .. n)
  <2>1. blocks[block] \in Blocks  BY <1>2, ElementOfSeq
  <2> QED  BY <2>1, <1>3 DEF Blocks
<1>5. /\ e \in Seq(Blocks) /\ Len(e) = n
      /\ \A b \in 1 .. n : /\ e[b].fn = blocks[b].fn /\ e[b].doms = blocks[b].doms
                           /\ e[b].ends = IF b = block THEN blocks[b].ends + 1 ELSE blocks[b].ends
  BY <1>3, EndedFacts
<1>6. PICK a1, a2, a3 : /\ a1 = Block(currFunc, d \cup {n + 1})
                        /\ a2 = Block(currFunc, d \cup {n + 2})
                        /\ a3 = Block(currFunc, d \cup {n + 3})
  OBVIOUS
<1>7. /\ blocks' = e \o <<a1, a2, a3>> /\ block' = n + 1
      /\ stack' = Update([Top EXCEPT !.next = <<n + 2, n + 3>>])
      /\ UNCHANGED <<made, outcome>>
  BY <1>3, <1>6 DEF Branch
<1>8. Len(blocks') = n + 3
  <2>1. PICK S : S = {e[i] : i \in DOMAIN e} \cup {a1, a2, a3}  OBVIOUS
  <2>2. \A i \in 1 .. Len(e) : e[i] \in S  BY <1>2, <1>5, <2>1, LenProperties
  <2>3. e \in Seq(S)
    <3>1. e = [i \in 1 .. n |-> e[i]] /\ n \in Nat  BY <1>2, <1>5, LenProperties
    <3> QED  BY <2>2, <3>1, <1>5, SeqDef
  <2>4. <<a1, a2, a3>> \in Seq(S) /\ Len(<<a1, a2, a3>>) = 3  BY <2>1
  <2>5. Len(e \o <<a1, a2, a3>>) = Len(e) + 3  BY <2>3, <2>4, ConcatProperties
  <2> QED  BY <2>5, <1>5, <1>7
<1>9. Grown
  <2>1. n <= n + 3 /\ n + 3 \in Nat  BY <1>2
  <2> QED  BY <2>1, <1>1, <1>7, <1>8 DEF Grown
<1>10. PICK T : T = Blocks'  OBVIOUS
<1>11. a1 \in T /\ a2 \in T /\ a3 \in T
  <2>1. 1 .. n \subseteq 1 .. n + 3 /\ \A i \in 1 .. 3 : n + i \in 1 .. n + 3  BY <1>2
  <2>2. /\ d \cup {n + 1} \in SUBSET (1 .. Len(blocks'))
        /\ d \cup {n + 2} \in SUBSET (1 .. Len(blocks'))
        /\ d \cup {n + 3} \in SUBSET (1 .. Len(blocks'))
    <3>1. n + 1 \in 1 .. n + 3 /\ n + 2 \in 1 .. n + 3 /\ n + 3 \in 1 .. n + 3  BY <2>1
    <3>2. d \subseteq 1 .. n + 3  BY <2>1, <1>4
    <3> QED  BY <3>1, <3>2, <1>8
  <2>3. currFunc \in Functions'  BY <1>2, <1>9, SetsGrow
  <2> QED  BY <1>6, <1>9, <1>10, <2>2, <2>3, NewBlock
<1>12. e \in Seq(T) /\ <<a1, a2, a3>> \in Seq(T) /\ Len(<<a1, a2, a3>>) = 3
  BY <1>5, <1>9, <1>10, <1>11, SetsGrow
<1>13. /\ blocks' \in Seq(T)
       /\ \A b \in 1 .. n + 3 : blocks'[b] = IF b <= n THEN e[b] ELSE <<a1, a2, a3>>[b - n]
  BY <1>5, <1>7, <1>12, ConcatProperties
<1>14. \A b \in 1 .. n : blocks'[b] = e[b]
  <2>1. \A b \in 1 .. n : b \in 1 .. n + 3 /\ b <= n  BY <1>2
  <2> QED  BY <2>1, <1>13
<1>15. blocks'[n + 1] = a1 /\ blocks'[n + 2] = a2 /\ blocks'[n + 3] = a3
  <2>1. PICK arms : arms = <<a1, a2, a3>>  OBVIOUS
  <2>2. ASSUME NEW i \in 1 .. 3 PROVE blocks'[n + i] = arms[i]
    <3>1. n + i \in 1 .. n + 3 /\ ~(n + i <= n) /\ n + i - n = i  BY <1>2
    <3> QED  BY <2>1, <3>1, <1>13
  <2>3. 1 \in 1 .. 3 /\ 2 \in 1 .. 3 /\ 3 \in 1 .. 3  OBVIOUS
  <2>4. arms[1] = a1 /\ arms[2] = a2 /\ arms[3] = a3  BY <2>1
  <2> QED  BY <2>2, <2>3, <2>4
<1>16. \A i \in 1 .. 3 : /\ blocks'[n + i].fn = currFunc /\ blocks'[n + i].ends = 0
                         /\ blocks'[n + i].doms = blocks[block].doms \cup {n + i}
  <2>1. \A i \in 1 .. 3 : i = 1 \/ i = 2 \/ i = 3  OBVIOUS
  <2>2. /\ a1.fn = currFunc /\ a1.ends = 0 /\ a2.fn = currFunc /\ a2.ends = 0
        /\ a3.fn = currFunc /\ a3.ends = 0
        /\ a1.doms = d \cup {n + 1} /\ a2.doms = d \cup {n + 2} /\ a3.doms = d \cup {n + 3}
    BY <1>6 DEF Block
  <2> QED  BY <2>1, <2>2, <1>3, <1>15
<1>17. [Top EXCEPT !.next = <<n + 2, n + 3>>] \in Frames'
  <2>1. PICK f : f = Top  OBVIOUS
  <2>2. f \in Frames'  BY <1>1, <1>9, <2>1, TopFacts, SetsGrow
  <2>3. <<n + 2, n + 3>> \in Seq(1 .. Len(blocks'))
    <3>1. n + 2 \in 1 .. n + 3 /\ n + 3 \in 1 .. n + 3  BY <1>2
    <3> QED  BY <3>1, <1>8
  <2> QED  BY <2>1, <2>2, <2>3 DEF Frames
<1>18. Continues(Len(stack), [Top EXCEPT !.next = <<n + 2, n + 3>>])
  BY <1>1, <1>7, <1>9, <1>17, Updating
<1> QED  BY <1>1, <1>2, <1>7, <1>8, <1>9, <1>10, <1>5, <1>13, <1>14, <1>16, <1>18

LEMMA BranchStep == ASSUME IInv, Branch PROVE IInv'
<1>1. PICK n, f, g, m :
        n = Len(blocks) /\ f = Top /\ m = Len(stack) /\ g = [f EXCEPT !.next = <<n + 2, n + 3>>]
  OBVIOUS
<1>2. /\ outcome = "running" /\ Op(f) = "if" /\ Grown /\ n \in Nat
      /\ block' = n + 1 /\ blocks' \in Seq(Blocks') /\ Len(blocks') = n + 3
      /\ Continues(m, g)
  BY <1>1, BranchShape
<1>3. /\ f \in Frames /\ FrameOK(f) /\ f.next = << >> /\ Len(f.vals) = 1
      /\ Op(f) = "if" => Len(Kids(f)) = 3
  BY <1>1, <1>2, TopFacts DEF Branch, Answered
<1>4. g.n = f.n /\ g.vals = f.vals /\ g.next = <<n + 2, n + 3>> /\ g.site = f.site
  BY <1>1, <1>3 DEF Frames
<1>5. /\ Op(g) = Op(f) /\ Kids(g) = Kids(f) /\ Index(g) = Index(f)
      /\ Generating(g) <=> Generating(f)
  BY <1>4 DEF Op, Kids, Index, Generating
<1>6. Progress(g) = <<1, 2>>  BY <1>3, <1>4 DEF Progress
<1>7. ~Generating(f)  BY <1>2, <1>3 DEF FrameOK
<1>8. FrameOK(g) /\ InnermostOK(g)
  BY <1>2, <1>3, <1>4, <1>5, <1>6, <1>7 DEF FrameOK, InnermostOK
<1>9. FrameOK(g)' /\ InnermostOK(g)'  BY <1>2, <1>8, FrameStays
<1>10. Control'
  <2>1. g.n = stack[m].n  BY <1>1, <1>4 DEF Top
  <2> QED  BY <2>1, <1>2, <1>9, ControlContinues
<1>11. block' \in 1 .. Len(blocks')
  <2>1. n + 1 \in 1 .. n + 3  BY <1>2
  <2> QED  BY <2>1, <1>2
<1>12. Tables'  BY <1>2, <1>11, TablesStay DEF Branch, Tables
<1>13. stack' \in Seq(Frames') /\ outcome' = "running"  BY <1>2 DEF Continues, Survives
<1> QED  BY <1>2, <1>10, <1>12, <1>13, InvariantHolds

(* The then and the else block are ended, and one block is left. *)
LEMMA ElseShape ==
  ASSUME IInv, Else
  PROVE  /\ outcome = "running" /\ Op(Top) = "if" /\ Grown
         /\ blocks' = Ended(block) /\ block' = Top.next[1] /\ Len(Top.next) = 2
         /\ Tail(Top.next) \in Seq(1 .. Len(blocks)) /\ Len(Tail(Top.next)) = 1
         /\ Tail(Top.next)[1] = Top.next[2]
         /\ Continues(Len(stack), [Top EXCEPT !.next = Tail(@)])
<1>1. /\ outcome = "running" /\ Op(Top) = "if" /\ blocks' = Ended(block) /\ block' = Top.next[1]
      /\ Len(Top.next) = 2 /\ outcome' = outcome /\ program' = program /\ made' = made
      /\ stack' = Update([Top EXCEPT !.next = Tail(@)])
  BY DEF Else, At
<1>2. Len(Ended(block)) = Len(blocks) /\ Len(blocks) \in Nat  BY <1>1, EndedFacts, Running
<1>3. Grown  BY <1>1, <1>2 DEF Grown
<1>4. PICK f, g : f = Top /\ g = [f EXCEPT !.next = Tail(@)]  OBVIOUS
<1>5. f \in Frames /\ f.next \in Seq(1 .. Len(blocks)) /\ Len(f.next) = 2
  BY <1>1, <1>4, TopFacts
<1>6. f.next # << >>  BY <1>5, EmptySeq
<1>7. /\ Tail(f.next) \in Seq(1 .. Len(blocks)) /\ Len(Tail(f.next)) = 1
      /\ Tail(f.next)[1] = f.next[2]
  <2>1. /\ Tail(f.next) \in Seq(1 .. Len(blocks)) /\ Len(Tail(f.next)) = Len(f.next) - 1
        /\ \A i \in 1 .. Len(Tail(f.next)) : Tail(f.next)[i] = f.next[i + 1]
    BY <1>5, <1>6, HeadTailProperties
  <2>2. Len(Tail(f.next)) = 1 /\ 1 \in 1 .. 1  BY <2>1, <1>5
  <2> QED  BY <2>1, <2>2
<1>8. g \in Frames  BY <1>4, <1>5, <1>7 DEF Frames
<1>9. g \in Frames'  BY <1>3, <1>8, SetsGrow
<1>10. stack' = Update(g)  BY <1>1, <1>4
<1>11. Continues(Len(stack), g)  BY <1>1, <1>3, <1>9, <1>10, Updating
<1> QED  BY <1>1, <1>3, <1>4, <1>7, <1>11

LEMMA ElseStep == ASSUME IInv, Else PROVE IInv'
<1>1. PICK f, g, m : f = Top /\ m = Len(stack) /\ g = [f EXCEPT !.next = Tail(@)]  OBVIOUS
<1>2. /\ outcome = "running" /\ Op(f) = "if" /\ Grown /\ blocks' = Ended(block)
      /\ block' = f.next[1] /\ Len(f.next) = 2 /\ Len(Tail(f.next)) = 1 /\ Continues(m, g)
  BY <1>1, ElseShape
<1>3. /\ f \in Frames /\ FrameOK(f) /\ Len(f.vals) = 2 /\ Len(Kids(f)) = 3
      /\ f.next \in Seq(1 .. Len(blocks))
  BY <1>1, <1>2, TopFacts DEF Else, Answered
<1>4. g.n = f.n /\ g.vals = f.vals /\ g.next = Tail(f.next) /\ g.site = f.site
  BY <1>1, <1>3 DEF Frames
<1>5. /\ Op(g) = Op(f) /\ Kids(g) = Kids(f) /\ Index(g) = Index(f)
      /\ Generating(g) <=> Generating(f)
  BY <1>4 DEF Op, Kids, Index, Generating
<1>6. Progress(g) = <<2, 1>>  BY <1>2, <1>3, <1>4 DEF Progress
<1>7. ~Generating(f)  BY <1>2, <1>3 DEF FrameOK
<1>8. FrameOK(g) /\ InnermostOK(g)
  BY <1>2, <1>3, <1>4, <1>5, <1>6, <1>7 DEF FrameOK, InnermostOK
<1>9. FrameOK(g)' /\ InnermostOK(g)'  BY <1>2, <1>8, FrameStays
<1>10. Control'
  <2>1. g.n = stack[m].n  BY <1>1, <1>4 DEF Top
  <2> QED  BY <2>1, <1>2, <1>9, ControlContinues
<1>11. block' \in 1 .. Len(blocks')
  <2>1. f.next[1] \in 1 .. Len(blocks)  BY <1>2, <1>3, ElementOfSeq
  <2> QED  BY <2>1, <1>2, EndedFacts
<1>12. blocks' \in Seq(Blocks')  BY <1>2, EndedFacts, SetsGrow
<1>13. Tables'  BY <1>2, <1>11, <1>12, TablesStay DEF Else, Tables
<1>14. stack' \in Seq(Frames') /\ outcome' = "running"  BY <1>2 DEF Continues, Survives
<1> QED  BY <1>2, <1>10, <1>13, <1>14, InvariantHolds

LEMMA EndIfShape ==
  ASSUME IInv, EndIf
  PROVE  /\ outcome = "running" /\ Op(Top) = "if" /\ Grown /\ Len(Top.next) = 1
         /\ blocks' = Ended(block) /\ block' = Top.next[1] /\ block' \in 1 .. Len(blocks')
<1>1. /\ outcome = "running" /\ Op(Top) = "if" /\ blocks' = Ended(block) /\ block' = Top.next[1]
      /\ Len(Top.vals) = 3 /\ program' = program /\ made' = made
  BY DEF EndIf, At, Answered
<1>2. Len(Ended(block)) = Len(blocks) /\ Len(blocks) \in Nat  BY <1>1, EndedFacts, Running
<1>3. Grown  BY <1>1, <1>2 DEF Grown
<1>4. Top.next \in Seq(1 .. Len(blocks)) /\ FrameOK(Top)  BY <1>1, TopFacts
<1>5. Len(Top.next) = 1
  <2>1. Progress(Top) \in {<<0, 0>>, <<1, 0>>, <<1, 2>>, <<2, 2>>, <<2, 1>>, <<3, 1>>}
    BY <1>1, <1>4 DEF FrameOK
  <2> QED  BY <2>1, <1>1 DEF Progress
<1>6. Top.next[1] \in 1 .. Len(blocks)  BY <1>4, <1>5, ElementOfSeq
<1> QED  BY <1>1, <1>2, <1>3, <1>5, <1>6

LEMMA EndIfStep == ASSUME IInv, EndIf PROVE IInv'
<1>1. /\ outcome = "running" /\ Grown /\ blocks' = Ended(block) /\ block' \in 1 .. Len(blocks')
  BY EndIfShape
<1>2. blocks' \in Seq(Blocks')  BY <1>1, EndedFacts, SetsGrow
<1>3. Tables'  BY <1>1, <1>2, TablesStay DEF EndIf, Tables
<1> QED  BY <1>1, <1>3, Returned DEF EndIf, Value

LEMMA CallShape ==
  ASSUME IInv, Call
  PROVE  /\ outcome = "running" /\ Op(Top) = "call" /\ Complete(Top) /\ Grown
         /\ blocks' \in Seq(Blocks') /\ Len(blocks') = Len(blocks)
<1>1. /\ outcome = "running" /\ Op(Top) = "call" /\ Complete(Top)
      /\ blocks' = (IF Len(stack) = 1 THEN Ended(block) ELSE blocks)
      /\ program' = program /\ made' = made
  BY DEF Call, At
<1>2. /\ Ended(block) \in Seq(Blocks) /\ blocks \in Seq(Blocks)
      /\ Len(Ended(block)) = Len(blocks) /\ Len(blocks) \in Nat
  BY <1>1, EndedFacts, Running DEF IInv, TypeOK
<1>3. Grown  BY <1>1, <1>2 DEF Grown
<1> QED  BY <1>1, <1>2, <1>3, SetsGrow

LEMMA CallStep == ASSUME IInv, Call PROVE IInv'
<1>1. outcome = "running" /\ Grown /\ blocks' \in Seq(Blocks') /\ Len(blocks') = Len(blocks)
  BY CallShape
<1>2. block \in 1 .. Len(blocks')  BY <1>1, Running
<1>3. Tables'  BY <1>1, <1>2, TablesStay DEF Call, Tables
<1> QED  BY <1>1, <1>3, Returned DEF Call, Value

(* A function that has blocks has a first one. *)
LEMMA EntryIsFirst ==
  ASSUME NEW fn, Len(blocks) \in Nat, Named(fn) # {}
  PROVE  Entry(fn) \in Named(fn)
<1>1. Named(fn) \subseteq Nat  BY DEF Named
<1>2. PICK b \in Named(fn) : \A c \in Named(fn) : ~ (<<c, b>> \in OpToRel(<, Nat))
  BY <1>1, NatLessThanWellFounded, WFMin
<1>3. \A c \in Named(fn) : ~ (c < b)  BY <1>1, <1>2 DEF OpToRel
<1>4. \A c \in Named(fn) : b <= c  BY <1>1, <1>3
<1> QED  BY <1>2, <1>4 DEF Entry

(* The call at the top is put off until its function has been generated. *)
PutOff == [Top EXCEPT !.site = [fn |-> currFunc, block |-> block]]

LEMMA GenerateShape ==
  ASSUME IInv, Generate, NEW n, n = Len(blocks), NEW name, name = CalleeName(Top)
  PROVE  /\ outcome = "running" /\ Op(Top) = "call" /\ Complete(Top) /\ Grown
         /\ ~Generating(Top) /\ n \in Nat /\ name \in Functions
         /\ Index(Top) \in 1 .. Len(program.inst) /\ Index(Top) \notin DOMAIN made
         /\ made' = Assign(made, Index(Top), name)
         /\ blocks' = Append(blocks, Block(name, {n + 1})) /\ blocks' \in Seq(Blocks')
         /\ Len(blocks') = n + 1 /\ \A b \in 1 .. n : blocks'[b] = blocks[b]
         /\ blocks'[n + 1] = Block(name, {n + 1})
         /\ currFunc' = name /\ block' \in 1 .. n + 1
         /\ block' = n + 1 \/ block' \in Named(name)
         /\ \A s \in Inst(Top).captures \cup Inst(Top).params : s \in 1 .. Len(program.node)
         /\ storage' = [s \in DOMAIN storage \cup Inst(Top).captures \cup Inst(Top).params |->
                          IF s \in Inst(Top).captures \cup Inst(Top).params THEN block'
                          ELSE storage[s]]
         /\ WaitsFor(Len(stack), PutOff, Inst(Top).ret)
         /\ Inst(Top).ret \in 1 .. Len(program.node)
<1>1. PICK f, inst, first : /\ f = Top /\ inst = Inst(Top)
                            /\ first = IF Named(name) = {} THEN n + 1 ELSE Entry(name)
  OBVIOUS
<1>2. outcome = "running" /\ Op(Top) = "call" /\ Complete(Top) /\ Index(Top) \notin DOMAIN made
  BY DEF Generate, At
<1>3. /\ n \in Nat /\ blocks \in Seq(Blocks) /\ block \in 1 .. n /\ currFunc \in Functions
  BY <1>2, Running DEF IInv, TypeOK
<1>4. /\ f \in Frames /\ FrameOK(f) /\ InnermostOK(f) /\ f.n \in 1 .. Len(program.node)
      /\ Len(Kids(f)) \in Nat
  BY <1>1, <1>2, TopFacts
<1>5. /\ Index(f) \in 1 .. Len(program.inst) /\ inst.ret \in 1 .. Len(program.node)
      /\ name \in Functions
      /\ \A s \in inst.captures \cup inst.params : s \in 1 .. Len(program.node)
  BY <1>1, <1>2, <1>4, NodeFacts DEF Index, Kids, Op, CalleeName, Inst
<1>6. ~Generating(f)
  <2>1. Len(f.vals) = Len(Kids(f))  BY <1>1, <1>2 DEF Complete, Answered
  <2> QED  BY <2>1, <1>4 DEF InnermostOK, Answered
<1>7. /\ program' = program /\ outcome' = outcome
      /\ made' = Assign(made, Index(f), name)
      /\ blocks' = Append(blocks, Block(name, {n + 1}))
      /\ currFunc' = name /\ block' = first
      /\ storage' = [s \in DOMAIN storage \cup inst.captures \cup inst.params |->
                       IF s \in inst.captures \cup inst.params THEN first ELSE storage[s]]
      /\ stack' = Append(Update(PutOff), Activation(inst.ret))
  BY <1>1 DEF Generate, PutOff
<1>8. PICK S : S = Blocks \cup {Block(name, {n + 1})}  OBVIOUS
<1>9. blocks \in Seq(S)
  <2>1. Blocks \subseteq S  BY <1>8
  <2> QED  BY <2>1, <1>3, SeqGrows
<1>10. /\ Len(blocks') = n + 1 /\ blocks'[n + 1] = Block(name, {n + 1})
       /\ \A b \in 1 .. n : blocks'[b] = blocks[b]
  BY <1>7, <1>8, <1>9, AppendProperties
<1>11. Grown
  <2>1. n <= n + 1 /\ n + 1 \in Nat  BY <1>3
  <2>2. DOMAIN made \subseteq DOMAIN made'  BY <1>7 DEF Assign
  <2> QED  BY <2>1, <2>2, <1>7, <1>10 DEF Grown
<1>12. blocks' \in Seq(Blocks')
  <2>1. name \in Functions'  BY <1>5, <1>11, SetsGrow
  <2>2. {n + 1} \in SUBSET (1 .. Len(blocks'))
    <3>1. n + 1 \in 1 .. n + 1  BY <1>3
    <3> QED  BY <3>1, <1>10
  <2>3. PICK T : T = Blocks'  OBVIOUS
  <2>4. Block(name, {n + 1}) \in T  BY <2>1, <2>2, <2>3, <1>11, NewBlock
  <2>5. blocks \in Seq(T)  BY <2>3, <1>3, <1>11, SetsGrow
  <2>6. Append(blocks, Block(name, {n + 1})) \in Seq(T)  BY <2>4, <2>5, AppendProperties
  <2> QED  BY <2>3, <2>6, <1>7
<1>13. first = n + 1 \/ first \in Named(name)  BY <1>1, <1>3, EntryIsFirst
<1>14. first \in 1 .. n + 1
  <2>1. 1 .. n \subseteq 1 .. n + 1 /\ n + 1 \in 1 .. n + 1  BY <1>3
  <2>2. Named(name) \subseteq 1 .. n  BY DEF Named
  <2> QED  BY <2>1, <2>2, <1>13
<1>15. PutOff \in Frames'
  <2>1. block \in 0 .. Len(blocks)
    <3>1. 1 .. n \subseteq 0 .. n  BY <1>3
    <3> QED  BY <3>1, <1>3
  <2>2. PutOff \in Frames  BY <2>1, <1>1, <1>3, <1>4 DEF PutOff, Frames
  <2> QED  BY <2>2, <1>11, SetsGrow
<1>16. WaitsFor(Len(stack), PutOff, inst.ret)
  <2>1. PICK g : g = PutOff  OBVIOUS
  <2>2. WaitsFor(Len(stack), g, inst.ret)
    BY <2>1, <1>2, <1>5, <1>7, <1>11, <1>15, Pushing
  <2> QED  BY <2>1, <2>2
<1>17. DOMAIN made' = DOMAIN made \cup {Index(f)}  BY <1>7 DEF Assign
<1> QED
  BY <1>1, <1>2, <1>3, <1>5, <1>6, <1>7, <1>10, <1>11, <1>12, <1>13, <1>14, <1>16

LEMMA GenerateStep == ASSUME IInv, Generate PROVE IInv'
<1>1. PICK n, name, f, g, m, inst :
        /\ n = Len(blocks) /\ name = CalleeName(Top) /\ f = Top /\ g = PutOff
        /\ m = Len(stack) /\ inst = Inst(Top)
  OBVIOUS
<1>2. /\ outcome = "running" /\ Op(f) = "call" /\ Complete(f) /\ Grown /\ n \in Nat
      /\ ~Generating(f)
      /\ name \in Functions /\ Index(f) \in 1 .. Len(program.inst)
      /\ made' = Assign(made, Index(f), name)
      /\ blocks' \in Seq(Blocks') /\ Len(blocks') = n + 1
      /\ currFunc' = name /\ block' \in 1 .. n + 1
      /\ \A s \in inst.captures \cup inst.params : s \in 1 .. Len(program.node)
      /\ storage' = [s \in DOMAIN storage \cup inst.captures \cup inst.params |->
                       IF s \in inst.captures \cup inst.params THEN block' ELSE storage[s]]
      /\ WaitsFor(m, g, inst.ret) /\ inst.ret \in 1 .. Len(program.node)
  BY <1>1, GenerateShape
<1>3. /\ f \in Frames /\ FrameOK(f) /\ block \in 1 .. Len(blocks)
  BY <1>1, <1>2, TopFacts, Running
<1>4. g.n = f.n /\ g.vals = f.vals /\ g.next = f.next /\ g.site = [fn |-> currFunc, block |-> block]
  BY <1>1, <1>3 DEF Frames, PutOff
<1>5. Generating(g)  BY <1>3, <1>4 DEF Generating, Null
<1>6. Op(g) = Op(f) /\ Kids(g) = Kids(f) /\ Index(g) = Index(f)
  BY <1>4 DEF Op, Kids, Index
<1>7. f.next = << >>  BY <1>2, <1>3 DEF FrameOK
<1>8. Index(g) \in DOMAIN made'  BY <1>2, <1>6 DEF Assign
<1>9. FrameOK(g)'
  <2>1. /\ Op(g)' = Op(g) /\ Index(g)' = Index(g) /\ (Generating(g)' <=> Generating(g))
    BY <1>2 DEF Op, Index, Generating, Grown
  <2> QED  BY <2>1, <1>2, <1>4, <1>5, <1>6, <1>7, <1>8 DEF FrameOK
<1>10. WaitingOK(g)'
  <2>1. WaitingOK(g)
    BY <1>2, <1>4, <1>5, <1>6 DEF WaitingOK, Complete, Answered
  <2> QED  BY <2>1, <1>2, FrameStays
<1>11. Control'
  <2>1. g.n = stack[m].n  BY <1>1, <1>4 DEF Top
  <2> QED  BY <2>1, <1>2, <1>9, <1>10, ControlWaits
<1>12. Tables  BY TypeOKParts DEF IInv
<1>13. Functions' = Functions /\ program' = program /\ 0 .. n \subseteq 0 .. Len(blocks')
  <2>1. 0 .. n \subseteq 0 .. n + 1  BY <1>2
  <2> QED  BY <2>1, <1>2, SetsGrow DEF Grown
<1>14. StorageOK'
  <2>1. StorageOK  BY <1>12 DEF Tables
  <2>2. block' \in 0 .. Len(blocks')
    <3>1. 1 .. n + 1 \subseteq 0 .. n + 1  BY <1>2
    <3> QED  BY <3>1, <1>2
  <2>3. PICK first : first = block'  OBVIOUS
  <2>4. PICK bound : bound = Len(blocks')  OBVIOUS
  <2> SUFFICES ASSUME NEW s \in DOMAIN storage'
               PROVE  s \in 1 .. Len(program.node) /\ storage'[s] \in 0 .. bound
    BY <1>13, <2>4 DEF StorageOK
  <2>5. CASE s \in inst.captures \cup inst.params
    BY <2>2, <2>3, <2>4, <2>5, <1>2
  <2>6. CASE s \notin inst.captures \cup inst.params
    <3>1. s \in DOMAIN storage /\ storage'[s] = storage[s]  BY <2>6, <1>2
    <3> QED  BY <3>1, <2>1, <2>4, <1>1, <1>13 DEF StorageOK
  <2> QED  BY <2>5, <2>6
<1>15. MadeOK'
  <2>1. MadeOK  BY <1>12 DEF Tables
  <2> QED  BY <2>1, <1>2, <1>13 DEF MadeOK, Assign
<1>16. Tables'  BY <1>2, <1>13, <1>14, <1>15, TablesStay DEF Generate, Tables
<1>17. stack' \in Seq(Frames') /\ outcome' = "running"  BY <1>2 DEF WaitsFor, Survives
<1> QED  BY <1>2, <1>11, <1>16, <1>17, InvariantHolds

(* A function that has been generated is left for the call it was put off for. *)
Resumed == [Top EXCEPT !.vals = SubSeq(@, 1, Len(@) - 1), !.site = NoSite]

LEMMA EndFunctionShape ==
  ASSUME IInv, EndFunction
  PROVE  /\ outcome = "running" /\ Op(Top) = "call" /\ Grown /\ Generating(Top)
         /\ blocks' = Ended(block) /\ blocks' \in Seq(Blocks') /\ Len(blocks') = Len(blocks)
         /\ block' = Top.site.block /\ block' \in 1 .. Len(blocks')
         /\ currFunc' = Top.site.fn /\ currFunc' \in Functions
         /\ Continues(Len(stack), Resumed)
         /\ Resumed.n = Top.n /\ Resumed.next = << >> /\ Resumed.site = NoSite
         /\ Resumed.vals \in Seq(Value) /\ Len(Resumed.vals) = Len(Kids(Top))
         /\ \A k \in 1 .. Len(Resumed.vals) : Resumed.vals[k] = Top.vals[k]
         /\ Len(Top.vals) = Len(Kids(Top)) + 1
<1>1. PICK f : f = Top  OBVIOUS
<1>2. /\ outcome = "running" /\ Op(f) = "call" /\ Len(f.vals) = Len(Kids(f)) + 1
      /\ program' = program /\ made' = made /\ blocks' = Ended(block)
      /\ block' = f.site.block /\ currFunc' = f.site.fn /\ outcome' = outcome
      /\ stack' = Update([f EXCEPT !.vals = SubSeq(@, 1, Len(@) - 1), !.site = NoSite])
  BY <1>1 DEF EndFunction, At, Answered
<1>3. /\ f \in Frames /\ FrameOK(f) /\ f.vals \in Seq(Value) /\ Len(Kids(f)) \in Nat
  BY <1>1, <1>2, TopFacts
<1>4. Len(blocks) \in Nat /\ Ended(block) \in Seq(Blocks) /\ Len(Ended(block)) = Len(blocks)
  BY <1>2, EndedFacts, Running
<1>5. Grown  BY <1>2, <1>4 DEF Grown
<1>6. Generating(f)
  <2>1. ~ (Len(f.vals) <= Len(Kids(f)))  BY <1>2, <1>3
  <2> QED  BY <2>1, <1>3 DEF FrameOK
<1>7. f.site.block \in 1 .. Len(blocks) /\ f.site.fn \in Functions /\ f.next = << >>
  <2>1. f.site.block \in 0 .. Len(blocks) /\ f.site.fn \in Functions  BY <1>3 DEF Frames
  <2>2. f.site.block # 0  BY <1>6 DEF Generating, Null
  <2>3. f.site.block \in 1 .. Len(blocks)  BY <2>1, <2>2, <1>4
  <2> QED  BY <2>1, <2>3, <1>2, <1>3 DEF FrameOK
<1>8. PICK k : k = Len(Kids(f))  OBVIOUS
<1>9. /\ SubSeq(f.vals, 1, Len(f.vals) - 1) \in Seq(Value)
      /\ Len(SubSeq(f.vals, 1, Len(f.vals) - 1)) = k
      /\ \A i \in 1 .. k : SubSeq(f.vals, 1, Len(f.vals) - 1)[i] = f.vals[i]
  <2>1. k \in Nat /\ Len(f.vals) = k + 1 /\ Len(f.vals) - 1 = k  BY <1>2, <1>3, <1>8
  <2>2. \A i \in 1 .. k : f.vals[i] \in Value
    <3>1. \A i \in 1 .. k : i \in 1 .. k + 1  BY <2>1
    <3> QED  BY <3>1, <2>1, <1>3, ElementOfSeq
  <2>3. /\ SubSeq(f.vals, 1, k) \in Seq(Value)
        /\ Len(SubSeq(f.vals, 1, k)) = (IF 1 <= k THEN k - 1 + 1 ELSE 0)
        /\ \A i \in 1 .. k - 1 + 1 : SubSeq(f.vals, 1, k)[i] = f.vals[1 + i - 1]
    BY <2>1, <2>2, SubSeqProperties
  <2>4. Len(SubSeq(f.vals, 1, k)) = k
    BY <2>1, <2>3
  <2>5. \A i \in 1 .. k : SubSeq(f.vals, 1, k)[i] = f.vals[i]
    BY <2>1, <2>3
  <2> QED  BY <2>1, <2>3, <2>4, <2>5
<1>10. PICK g : g = [f EXCEPT !.vals = SubSeq(@, 1, Len(@) - 1), !.site = NoSite]  OBVIOUS
<1>11. /\ g.n = f.n /\ g.next = f.next /\ g.site = NoSite
       /\ g.vals = SubSeq(f.vals, 1, Len(f.vals) - 1)
  BY <1>3, <1>10 DEF Frames
<1>12. g \in Frames
  <2>1. NoSite \in [fn : Functions, block : 0 .. Len(blocks)]
    BY <1>4 DEF NoSite, Functions, Null
  <2> QED  BY <2>1, <1>3, <1>9, <1>10 DEF Frames
<1>13. g \in Frames'  BY <1>5, <1>12, SetsGrow
<1>14. Continues(Len(stack), g)  BY <1>2, <1>5, <1>10, <1>13, Updating
<1>15. Resumed = g  BY <1>1, <1>10 DEF Resumed
<1>16. blocks' \in Seq(Blocks')  BY <1>2, <1>4, <1>5, SetsGrow
<1> QED
  BY <1>1, <1>2, <1>4, <1>5, <1>6, <1>7, <1>8, <1>9, <1>11, <1>14, <1>15, <1>16

LEMMA EndFunctionStep == ASSUME IInv, EndFunction PROVE IInv'
<1>1. PICK f, g, m : f = Top /\ g = Resumed /\ m = Len(stack)  OBVIOUS
<1>2. /\ outcome = "running" /\ Op(f) = "call" /\ Grown
      /\ blocks' \in Seq(Blocks') /\ block' \in 1 .. Len(blocks')
      /\ currFunc' \in Functions /\ Continues(m, g)
      /\ g.n = f.n /\ g.next = << >> /\ g.site = NoSite /\ Len(g.vals) = Len(Kids(f))
  BY <1>1, EndFunctionShape
<1>3. Len(Kids(f)) \in Nat  BY <1>1, <1>2, TopFacts
<1>4. FrameOK(g) /\ InnermostOK(g)
  <2>1. Op(g) = "call" /\ Kids(g) = Kids(f)  BY <1>2 DEF Op, Kids
  <2>2. ~Generating(g)  BY <1>2 DEF Generating, NoSite
  <2>3. Len(g.vals) <= Len(Kids(g))  BY <1>2, <1>3, <2>1
  <2> QED  BY <2>1, <2>2, <2>3, <1>2 DEF FrameOK, InnermostOK
<1>5. FrameOK(g)' /\ InnermostOK(g)'  BY <1>2, <1>4, FrameStays
<1>6. Control'
  <2>1. g.n = stack[m].n  BY <1>1, <1>2 DEF Top
  <2> QED  BY <2>1, <1>2, <1>5, ControlContinues
<1>7. StorageOK'
  <2>1. StorageOK  BY TypeOKParts DEF IInv, Tables
  <2>2. PICK gone : gone = Inst(Top).captures \cup Inst(Top).params \cup Inst(Top).locals
    OBVIOUS
  <2>3. storage' = [s \in DOMAIN storage \ gone |-> storage[s]]
    BY <2>2 DEF EndFunction
  <2>4. Len(blocks') = Len(blocks)  BY EndFunctionShape
  <2> QED  BY <2>1, <2>3, <2>4, <1>2 DEF StorageOK, Grown
<1>8. currFunc' \in Functions'  BY <1>2, SetsGrow
<1>9. Tables'  BY <1>2, <1>7, <1>8, TablesStay DEF EndFunction, Tables
<1>10. stack' \in Seq(Frames') /\ outcome' = "running"  BY <1>2 DEF Continues, Survives
<1> QED  BY <1>2, <1>6, <1>9, <1>10, InvariantHolds

LEMMA InitOK == Init => IInv
<1> SUFFICES ASSUME Init PROVE IInv  OBVIOUS
<1>1. ProgramOK(program) /\ program \in Programs  BY ProgramsAssumption DEF Init
<1>2. Len(program.node) \in Nat /\ Len(program.node) \in 1 .. Len(program.node)
  <2>1. program.node \in Seq(Node) /\ program.node # << >>  BY <1>1 DEF ProgramOK
  <2>2. Len(program.node) \in Nat \ {0}  BY <2>1, EmptySeq, LenProperties
  <2> QED  BY <2>2
<1>3. PICK f : f = Activation(Len(program.node))  OBVIOUS
<1>4. /\ f.n = Len(program.node) /\ f.vals = << >> /\ f.next = << >> /\ f.site = NoSite
      /\ f = [n |-> f.n, vals |-> f.vals, next |-> f.next, site |-> f.site]
  BY <1>3 DEF Activation
<1>5. Construct \in Functions  BY DEF Functions
<1>6. blocks = <<Block(Construct, {1})>> /\ Len(blocks) = 1 /\ stack = <<f>> /\ block = 1
  BY <1>3 DEF Init
<1>7. f \in Frames
  <2>1. NoSite \in [fn : Functions, block : 0 .. Len(blocks)]
    BY <1>5, <1>6 DEF NoSite, Null
  <2>2. << >> \in Seq(Value) /\ << >> \in Seq(1 .. Len(blocks))  BY EmptySeq
  <2> QED  BY <2>1, <2>2, <1>2, <1>4 DEF Frames
<1>8. Block(Construct, {1}) \in Blocks  BY <1>5, <1>6 DEF Block, Blocks
<1>9. TypeOK
  <2>1. stack \in Seq(Frames) /\ blocks \in Seq(Blocks)  BY <1>6, <1>7, <1>8
  <2>2. block \in 1 .. Len(blocks)  BY <1>6
  <2> QED  BY <2>1, <2>2, <1>5 DEF Init, TypeOK
<1>10. FrameOK(f) /\ InnermostOK(f)
  <2>1. Len(f.vals) = 0 /\ Len(f.next) = 0 /\ ~Generating(f)
    BY <1>4, EmptySeq DEF Generating, NoSite
  <2>2. Op(f) # "if"  BY <1>1, <1>4 DEF Op, ProgramOK
  <2>3. Len(Kids(f)) \in Nat
    <3>1. program.node[f.n] \in Node  BY <1>1, <1>2, <1>4, ElementOfSeq DEF ProgramOK
    <3> QED  BY <3>1, LenProperties DEF Kids, Node
  <2> QED  BY <1>4, <2>1, <2>2, <2>3 DEF FrameOK, InnermostOK
<1>11. Control
  <2>1. Len(stack) = 1 /\ stack # << >> /\ stack[1] = f  BY <1>6, EmptySeq
  <2>2. outcome = "running"  BY DEF Init
  <2>3. \A i \in 1 .. Len(stack) : i = 1  BY <2>1
  <2> QED  BY <2>1, <2>2, <2>3, <1>4, <1>10 DEF Control
<1> QED  BY <1>1, <1>9, <1>11 DEF IInv

LEMMA NextOK == IInv /\ [Next]_vars => IInv'
<1> SUFFICES ASSUME IInv, [Next]_vars PROVE IInv'  OBVIOUS
<1>1. CASE Visit  BY <1>1, VisitStep
<1>2. CASE Constant  BY <1>2, ReturnOnly DEF Constant, At, Value
<1>3. CASE LoadSymbol  BY <1>3, LoadSymbolStep
<1>4. CASE StoreSymbol  BY <1>4, StoreSymbolStep
<1>5. CASE Unbound  BY <1>5, StopOnly DEF Unbound
<1>6. CASE Operator  BY <1>6, OperatorStep
<1>7. CASE Not  BY <1>7, StopOnly DEF Not
<1>8. CASE NotImplemented  BY <1>8, StopOnly DEF NotImplemented
<1>9. CASE AddressOf  BY <1>9, StopOnly, ReturnOnly DEF AddressOf, At, Value
<1>10. CASE ImmediateContext  BY <1>10, ReturnOnly DEF ImmediateContext, At, Value
<1>11. CASE Lambda  BY <1>11, LambdaStep
<1>12. CASE Branch  BY <1>12, BranchStep
<1>13. CASE Else  BY <1>13, ElseStep
<1>14. CASE EndIf  BY <1>14, EndIfStep
<1>15. CASE Generate  BY <1>15, GenerateStep
<1>16. CASE NameClash  BY <1>16, StopOnly DEF NameClash
<1>17. CASE EndFunction  BY <1>17, EndFunctionStep
<1>18. CASE Call  BY <1>18, CallStep
<1>19. CASE Finished \/ UNCHANGED vars
  BY <1>19 DEF Finished, vars, IInv, TypeOK, Control, Frames, Blocks, Functions, FrameOK,
     WaitingOK, InnermostOK, Progress, Op, Kids, Index, Complete, Answered, Generating
<1> QED
  BY <1>1, <1>2, <1>3, <1>4, <1>5, <1>6, <1>7, <1>8, <1>9, <1>10, <1>11, <1>12, <1>13, <1>14,
     <1>15, <1>16, <1>17, <1>18, <1>19 DEF Next

(* The invariant of the control: what the frames of the stack and the sites  *)
(* of calls refer to exists, for every set of programs.                     *)
THEOREM Invariant == Spec => []IInv
BY InitOK, NextOK, PTL DEF Spec

(* The types of everything the generator keeps, for every set of programs:  *)
(* every block and function it returns to exists, when it returns to it.    *)
THEOREM TypeCorrect == Spec => []TypeOK
<1>1. IInv => TypeOK  BY DEF IInv
<1> QED  BY <1>1, Invariant, PTL
-----------------------------------------------------------------------------
(* The function of a frame is the one that was current when the generator   *)
(* was there: that of the first frame at or behind it whose call is put     *)
(* off, or else the current one.                                            *)
PutOffAt(j) == j \in 1 .. Len(stack) /\ Generating(stack[j])
Home(i, fn) ==
  /\ (\A j \in Nat : i <= j => ~PutOffAt(j)) => fn = currFunc
  /\ \A j \in Nat :
       i <= j /\ PutOffAt(j) /\ (\A h \in Nat : i <= h /\ h < j => ~PutOffAt(h))
         => fn = stack[j].site.fn
Builder ==
  /\ blocks[block].fn = currFunc
  /\ \A j \in Nat : PutOffAt(j) => blocks[stack[j].site.block].fn = stack[j].site.fn
  /\ \A i \in 1 .. Len(stack) : \A k \in DOMAIN stack[i].next :
       Home(i, blocks[stack[i].next[k]].fn)
BInv == IInv /\ (outcome = "running" => Builder)

(* Steps that leave alone whose blocks there are, where calls are put off,  *)
(* and what the frames have put off.                                        *)
FnsStay == \A b \in 1 .. Len(blocks) : blocks'[b].fn = blocks[b].fn
SitesStay ==
  /\ currFunc' = currFunc
  /\ \A j \in Nat : /\ PutOffAt(j)' <=> PutOffAt(j)
                    /\ PutOffAt(j) => stack'[j].site = stack[j].site
NextsStay ==
  \A i \in 1 .. Len(stack') :
    stack'[i].next = << >> \/ (i \in 1 .. Len(stack) /\ stack'[i].next = stack[i].next)

LEMMA SiteOfPutOff ==
  ASSUME IInv, NEW j, PutOffAt(j)
  PROVE  stack[j].site.block \in 1 .. Len(blocks) /\ stack[j].site.fn \in Functions
<1>1. stack[j] \in Frames  BY FrameFacts DEF PutOffAt
<1>2. /\ stack[j].site.block \in 0 .. Len(blocks) /\ stack[j].site.block # 0
      /\ stack[j].site.fn \in Functions
  BY <1>1 DEF PutOffAt, Generating, Frames, Null
<1>3. Len(blocks) \in Nat  BY LenProperties DEF IInv, TypeOK
<1> QED  BY <1>2, <1>3

LEMMA HomeStays == ASSUME SitesStay, NEW i, NEW fn, Home(i, fn) PROVE Home(i, fn)'
<1>1. currFunc' = currFunc  BY DEF SitesStay
<1>2. \A j \in Nat : PutOffAt(j)' <=> PutOffAt(j)  BY DEF SitesStay
<1>3. \A j \in Nat : PutOffAt(j) => stack'[j].site.fn = stack[j].site.fn  BY DEF SitesStay
<1>4. (\A j \in Nat : i <= j => ~PutOffAt(j)') => fn = currFunc'
  BY <1>1, <1>2 DEF Home
<1>5. ASSUME NEW j \in Nat, i <= j, PutOffAt(j)',
             \A h \in Nat : i <= h /\ h < j => ~PutOffAt(h)'
      PROVE  fn = stack'[j].site.fn
  <2>1. PutOffAt(j)  BY <1>2, <1>5
  <2>2. \A h \in Nat : i <= h /\ h < j => ~PutOffAt(h)  BY <1>2, <1>5
  <2>3. fn = stack[j].site.fn  BY <1>5, <2>1, <2>2 DEF Home
  <2> QED  BY <1>3, <2>1, <2>3
<1> QED  BY <1>4, <1>5 DEF Home

(* What a frame of the next stack has put off is a block it had, or is in   *)
(* its function.                                                            *)
LEMMA NextAt ==
  ASSUME NEW i, NEW f, f = stack'[i], NEW k, NEW b, b = f.next[k], NEW fn, fn = blocks'[b].fn,
         Home(i, fn)'
  PROVE  Home(i, blocks[stack[i].next[k]].fn)'
BY DEF Home, PutOffAt, Generating

PutOffsFit ==
  \A j \in Nat : PutOffAt(j) => blocks[stack[j].site.block].fn = stack[j].site.fn
HomesStay == \A i \in 1 .. Len(stack) : \A fn : Home(i, fn) => Home(i, fn)'
NextsFit ==
  \A i \in 1 .. Len(stack') : \A k \in DOMAIN stack'[i].next :
    /\ i \in 1 .. Len(stack)
    /\ \/ \E l \in DOMAIN stack[i].next : stack'[i].next[k] = stack[i].next[l]
       \/ blocks'[stack'[i].next[k]].fn = currFunc /\ Home(i, currFunc)

LEMMA BuilderFits ==
  ASSUME IInv, Builder, FnsStay, HomesStay, NextsFit, PutOffsFit', blocks'[block'].fn = currFunc'
  PROVE  Builder'
<1>1. ASSUME NEW i \in 1 .. Len(stack'), NEW k \in DOMAIN stack'[i].next
      PROVE  Home(i, blocks[stack[i].next[k]].fn)'
  <2>1. PICK f, b, fn : f = stack'[i] /\ b = f.next[k] /\ fn = blocks'[b].fn  OBVIOUS
  <2>2. /\ i \in 1 .. Len(stack)
        /\ \/ \E l \in DOMAIN stack[i].next : b = stack[i].next[l]
           \/ fn = currFunc /\ Home(i, currFunc)
    BY <1>1, <2>1 DEF NextsFit
  <2>3. Home(i, fn)
    <3>1. CASE \E l \in DOMAIN stack[i].next : b = stack[i].next[l]
      <4>1. PICK l \in DOMAIN stack[i].next : b = stack[i].next[l]  BY <3>1
      <4>2. stack[i].next \in Seq(1 .. Len(blocks))  BY <2>2, FrameFacts
      <4>3. b \in 1 .. Len(blocks)  BY <4>1, <4>2, ElementOfSeq, LenProperties
      <4>4. fn = blocks[b].fn  BY <2>1, <4>3 DEF FnsStay
      <4> QED  BY <2>2, <4>1, <4>4 DEF Builder
    <3> QED  BY <2>2, <3>1
  <2>4. Home(i, fn)'  BY <2>2, <2>3 DEF HomesStay
  <2> QED  BY <2>1, <2>4, NextAt
<1> QED  BY <1>1 DEF Builder, PutOffsFit

LEMMA PutOffsStay ==
  ASSUME IInv, Builder, FnsStay, SitesStay
  PROVE  PutOffsFit'
<1> SUFFICES ASSUME NEW j \in Nat, PutOffAt(j)'
             PROVE  blocks'[stack'[j].site.block].fn = stack'[j].site.fn
  BY DEF PutOffsFit
<1>1. PutOffAt(j) /\ stack'[j].site = stack[j].site  BY DEF SitesStay
<1>2. blocks[stack[j].site.block].fn = stack[j].site.fn  BY <1>1 DEF Builder
<1>3. stack[j].site.block \in 1 .. Len(blocks)  BY <1>1, SiteOfPutOff
<1> QED  BY <1>1, <1>2, <1>3 DEF FnsStay

LEMMA BuilderStays ==
  ASSUME IInv, Builder, FnsStay, SitesStay, NextsFit, blocks'[block'].fn = currFunc
  PROVE  Builder'
<1>1. blocks'[block'].fn = currFunc'  BY DEF SitesStay
<1>2. HomesStay  BY HomeStays DEF HomesStay
<1> QED  BY <1>1, <1>2, PutOffsStay, BuilderFits

LEMMA NextsStayFit == ASSUME NextsStay PROVE NextsFit
BY DEF NextsStay, NextsFit

LEMMA HomeOfTop ==
  ASSUME IInv, outcome = "running", ~Generating(Top), NEW fn
  PROVE  Home(Len(stack), fn) <=> fn = currFunc
<1>1. Len(stack) \in Nat /\ Len(stack) \in 1 .. Len(stack)  BY Running
<1>2. ASSUME NEW j \in Nat, Len(stack) <= j PROVE ~PutOffAt(j)
  <2>1. j \in 1 .. Len(stack) => j = Len(stack)  BY <1>1, <1>2
  <2> QED  BY <2>1 DEF PutOffAt, Top
<1> QED  BY <1>1, <1>2 DEF Home

(* A frame that waits for none: only calls put anything off. *)
LEMMA NotPutOff ==
  ASSUME IInv, outcome = "running", Op(Top) # "call" \/ Complete(Top)
  PROVE  ~Generating(Top)
<1>1. PICK f : f = Top  OBVIOUS
<1>2. FrameOK(f) /\ InnermostOK(f) /\ Len(Kids(f)) \in Nat  BY <1>1, TopFacts
<1>3. CASE Op(f) # "call"  BY <1>1, <1>2, <1>3 DEF FrameOK
<1>4. CASE Len(f.vals) = Len(Kids(f))
  <2>1. Len(f.vals) # Len(Kids(f)) + 1  BY <1>2, <1>4
  <2> QED  BY <1>1, <1>2, <2>1 DEF InnermostOK, Answered
<1> QED  BY <1>1, <1>3, <1>4 DEF Complete, Answered

LEMMA AnsweringFacts ==
  ASSUME IInv, outcome = "running", NEW v \in Value, Len(stack) > 1,
         NEW f, f = stack[Len(stack) - 1]
  PROVE  /\ Answering(v).n = f.n /\ Answering(v).next = f.next /\ Answering(v).site = f.site
         /\ Answering(v).vals = Append(f.vals, v) /\ f.vals \in Seq(Value)
         /\ Len(Answering(v).vals) = Len(f.vals) + 1
         /\ \A k \in 1 .. Len(f.vals) : Answering(v).vals[k] = f.vals[k]
         /\ Answering(v).vals[Len(f.vals) + 1] = v
<1>1. Len(stack) - 1 \in 1 .. Len(stack)  BY Running
<1>2. f \in Frames /\ f.vals \in Seq(Value)  BY <1>1, FrameFacts
<1>3. /\ Len(Append(f.vals, v)) = Len(f.vals) + 1
      /\ \A k \in 1 .. Len(f.vals) : Append(f.vals, v)[k] = f.vals[k]
      /\ Append(f.vals, v)[Len(f.vals) + 1] = v
  BY <1>2, AppendProperties
<1>4. /\ Answering(v).n = f.n /\ Answering(v).next = f.next /\ Answering(v).site = f.site
      /\ Answering(v).vals = Append(f.vals, v)
  BY <1>2 DEF Answering, Frames
<1> QED  BY <1>2, <1>3, <1>4

(* To return leaves alone what the other frames have put off. *)
LEMMA ReturnLeaves ==
  ASSUME IInv, outcome = "running", Grown, NEW v \in Value, Return(v), ~Generating(Top),
         currFunc' = currFunc, outcome' = "running"
  PROVE  SitesStay /\ NextsStay
<1>1. PICK m, f, g : m = Len(stack) - 1 /\ f = stack[m] /\ g = Answering(v)  OBVIOUS
<1>2. Len(stack) > 1 /\ Continues(m, g)
  BY <1>1, Returning DEF Stopped
<1>3. Len(stack) \in Nat /\ m \in Nat /\ m \in 1 .. Len(stack) /\ Len(stack) = m + 1
  BY <1>1, <1>2, Running
<1>4. Len(stack') = m /\ stack'[m] = g /\ \A i \in 1 .. m - 1 : stack'[i] = stack[i]
  BY <1>2 DEF Continues, Survives
<1>5. g.next = f.next /\ g.site = f.site  BY <1>1, <1>2, AnsweringFacts
<1>6. \A i \in 1 .. m : i \in 1 .. m - 1 \/ i = m  BY <1>3
<1>7. \A i \in 1 .. m : stack'[i].next = stack[i].next /\ stack'[i].site = stack[i].site
  BY <1>1, <1>4, <1>5, <1>6
<1>8. \A i \in 1 .. m : i \in 1 .. Len(stack)  BY <1>3
<1>9. NextsStay  BY <1>4, <1>7, <1>8 DEF NextsStay
<1>10. ASSUME NEW j \in Nat
       PROVE  /\ PutOffAt(j)' <=> PutOffAt(j)
              /\ PutOffAt(j) => stack'[j].site = stack[j].site
  <2>1. CASE j \in 1 .. m
    BY <2>1, <1>4, <1>7, <1>8 DEF PutOffAt, Generating
  <2>2. CASE j = Len(stack)
    <3>1. ~PutOffAt(j)  BY <2>2 DEF PutOffAt, Top
    <3>2. ~(j \in 1 .. m)  BY <2>2, <1>3
    <3>3. ~PutOffAt(j)'  BY <3>2, <1>4 DEF PutOffAt
    <3> QED  BY <3>1, <3>3
  <2>3. CASE j \notin 1 .. m /\ j # Len(stack)
    <3>1. ~(j \in 1 .. Len(stack))  BY <2>3, <1>3
    <3> QED  BY <3>1, <2>3, <1>4 DEF PutOffAt
  <2> QED  BY <2>1, <2>2, <2>3
<1> QED  BY <1>9, <1>10 DEF SitesStay

LEMMA SameSites ==
  ASSUME IInv, outcome = "running", currFunc' = currFunc,
         NEW m, m = Len(stack), NEW g, g.site = Top.site,
         Continues(m, g) \/ \E k : WaitsFor(m, g, k)
  PROVE  SitesStay
<1>1. m \in Nat /\ m \in 1 .. m  BY Running
<1>2. /\ stack'[m] = g /\ \A i \in 1 .. m - 1 : stack'[i] = stack[i]
      /\ Len(stack') = m \/ (Len(stack') = m + 1 /\ ~Generating(stack'[m + 1]))
  <2>1. CASE Continues(m, g)  BY <2>1 DEF Continues, Survives
  <2>2. CASE \E k : WaitsFor(m, g, k)
    <3>1. PICK k : WaitsFor(m, g, k)  BY <2>2
    <3>2. Activation(k).site.block = Null  BY DEF Activation, NoSite
    <3>3. stack'[m + 1] = Activation(k)  BY <3>1 DEF WaitsFor
    <3>4. ~Generating(stack'[m + 1])  BY <3>2, <3>3 DEF Generating
    <3> QED  BY <3>1, <3>4 DEF WaitsFor, Survives
  <2> QED  BY <2>1, <2>2
<1>3. \A i \in 1 .. m : i \in 1 .. m - 1 \/ i = m  BY <1>1
<1>4. \A i \in 1 .. m : stack'[i].site = stack[i].site
  BY <1>2, <1>3 DEF Top
<1>5. ASSUME NEW j \in Nat
      PROVE  /\ PutOffAt(j)' <=> PutOffAt(j)
             /\ PutOffAt(j) => stack'[j].site = stack[j].site
  <2>1. CASE j \in 1 .. m
    <3>1. j \in 1 .. Len(stack') /\ j \in 1 .. Len(stack)  BY <2>1, <1>1, <1>2
    <3>2. stack'[j].site = stack[j].site  BY <2>1, <1>4
    <3>3. PutOffAt(j)' <=> stack'[j].site.block # Null  BY <3>1 DEF PutOffAt, Generating
    <3>4. PutOffAt(j) <=> stack[j].site.block # Null  BY <3>1 DEF PutOffAt, Generating
    <3> QED  BY <3>2, <3>3, <3>4
  <2>2. CASE j = m + 1
    <3>1. ~(j \in 1 .. Len(stack))  BY <2>2, <1>1
    <3>2. Len(stack') = m => ~(j \in 1 .. Len(stack'))  BY <2>2, <1>1
    <3>3. ~PutOffAt(j)'
      BY <2>2, <3>2, <1>2 DEF PutOffAt, Generating
    <3> QED  BY <3>1, <3>3 DEF PutOffAt
  <2>3. CASE j \notin 1 .. m /\ j # m + 1
    <3>1. ~(j \in 1 .. Len(stack)) /\ ~(j \in 1 .. Len(stack'))  BY <2>3, <1>1, <1>2
    <3> QED  BY <3>1 DEF PutOffAt
  <2> QED  BY <2>1, <2>2, <2>3
<1> QED  BY <1>5 DEF SitesStay

(* The steps that return and leave the blocks alone. *)
Quiet == \/ Constant \/ LoadSymbol \/ StoreSymbol \/ Operator
         \/ AddressOf \/ ImmediateContext \/ Lambda

LEMMA QuietShape ==
  ASSUME IInv, Quiet
  PROVE  /\ outcome = "running" /\ Grown /\ UNCHANGED <<currFunc, block, blocks, made>>
         /\ ~Generating(Top) /\ Top.next = << >>
         /\ \/ Stopped
               /\ \/ outcome' = "undefined" /\ Op(Top) = "addrof"
                  \/ outcome' # "undefined"
            \/ \E v \in Value :
                 /\ Return(v)
                 /\ v = "null" => \/ Op(Top) = "block"
                                  \/ \E k \in 1 .. Len(Top.vals) : Top.vals[k] = "null"
<1>1. /\ outcome = "running" /\ Op(Top) # "call" /\ Op(Top) # "if" /\ program' = program
      /\ UNCHANGED <<currFunc, block, blocks, made>>
  BY DEF Quiet, Constant, LoadSymbol, StoreSymbol, Operator, AddressOf, ImmediateContext, Lambda,
     At, Emitted
<1>2. Grown  BY <1>1, LenProperties DEF Grown, IInv, TypeOK
<1>3. ~Generating(Top)  BY <1>1, NotPutOff
<1>4. Top.next = << >>  BY <1>1, TopFacts DEF FrameOK
<1>5. CASE AddressOf
  <2>1. CASE Top.vals[1] = "load"  BY <1>1, <1>2, <1>3, <1>4, <1>5, <2>1 DEF AddressOf, Value
  <2>2. CASE Top.vals[1] # "load"
    <3>1. Undefined /\ Op(Top) = "addrof"  BY <1>5, <2>2 DEF AddressOf, At
    <3>2. Stopped /\ outcome' = "undefined"  BY <3>1 DEF Undefined, Stop, Stopped
    <3> QED  BY <1>1, <1>2, <1>3, <1>4, <3>1, <3>2
  <2> QED  BY <2>1, <2>2
<1>6. CASE ImmediateContext
  <2>1. Op(Top) = "block" /\ Return("null")  BY <1>6 DEF ImmediateContext, At
  <2> QED  BY <1>1, <1>2, <1>3, <1>4, <2>1 DEF Value
<1>7. CASE Operator
  <2>1. PICK v : v = CASE Op(Top) = "deref" -> "load"
                       [] Op(Top) = "plus" -> Top.vals[1]
                       [] Op(Top) \in {"bin", "inv"} -> "computed"
    OBVIOUS
  <2>2. Return(v)  BY <1>7, <2>1 DEF Operator
  <2>3. Op(Top) \in {"bin", "inv", "plus", "deref"}  BY <1>7 DEF Operator, At
  <2>4. CASE Op(Top) = "plus"
    <3>1. Top.vals \in Seq(Value) /\ Top.n \in 1 .. Len(program.node)  BY <1>1, TopFacts
    <3>2. Len(Kids(Top)) = 1  BY <2>4, <3>1, NodeFacts DEF Kids, Op
    <3>3. Len(Top.vals) = 1  BY <1>7, <3>2 DEF Operator, Complete, Answered
    <3>4. 1 \in 1 .. Len(Top.vals)  BY <3>3
    <3>5. v = Top.vals[1]  BY <2>1, <2>4
    <3>6. v \in Value  BY <3>1, <3>4, <3>5, ElementOfSeq
    <3> QED  BY <1>1, <1>2, <1>3, <1>4, <2>2, <3>4, <3>5, <3>6
  <2>5. CASE Op(Top) # "plus"
    <3>1. v \in Value /\ v # "null"  BY <2>1, <2>3, <2>5 DEF Value
    <3> QED  BY <1>1, <1>2, <1>3, <1>4, <2>2, <3>1
  <2> QED  BY <2>4, <2>5
<1>8. CASE \/ Constant \/ LoadSymbol \/ StoreSymbol \/ Lambda
  <2>1. Return("computed") \/ Return("load") \/ Return("address")
    BY <1>8 DEF Constant, LoadSymbol, StoreSymbol, Lambda
  <2> QED  BY <1>1, <1>2, <1>3, <1>4, <2>1 DEF Value
<1> QED  BY <1>5, <1>6, <1>7, <1>8 DEF Quiet

LEMMA QuietBuilder ==
  ASSUME BInv, Quiet, outcome' = "running"
  PROVE  Builder'
<1>1. IInv /\ outcome = "running" /\ Builder  BY QuietShape DEF BInv
<1>2. /\ Grown /\ UNCHANGED <<currFunc, block, blocks>> /\ ~Generating(Top)
      /\ \E v \in Value : Return(v)
  <2>1. ~Stopped  BY DEF Stopped
  <2> QED  BY <1>1, <2>1, QuietShape
<1>3. SitesStay /\ NextsStay  BY <1>1, <1>2, ReturnLeaves
<1>4. FnsStay /\ blocks'[block'].fn = currFunc  BY <1>1, <1>2 DEF FnsStay, Builder
<1> QED  BY <1>1, <1>3, <1>4, NextsStayFit, BuilderStays

LEMMA VisitBuilder == ASSUME BInv, Visit PROVE Builder'
<1>1. IInv /\ outcome = "running" /\ Builder  BY DEF BInv, Visit
<1>2. PICK k \in 1 .. Len(program.node) : WaitsFor(Len(stack), Top, k)
  BY <1>1, VisitShape
<1>3. UNCHANGED <<currFunc, block, blocks>>  BY DEF Visit
<1>4. SitesStay
  <2>1. PICK m, g : m = Len(stack) /\ g = Top  OBVIOUS
  <2>2. WaitsFor(m, g, k)  BY <1>2, <2>1
  <2> QED  BY <1>1, <1>3, <2>1, <2>2, SameSites
<1>5. NextsStay
  <2>1. PICK m : m = Len(stack)  OBVIOUS
  <2>2. /\ m \in Nat /\ Len(stack') = m + 1 /\ stack'[m] = stack[m]
        /\ \A i \in 1 .. m - 1 : stack'[i] = stack[i]
        /\ stack'[m + 1].next = << >>
    BY <1>1, <1>2, <2>1, Running DEF WaitsFor, Survives, Top, Activation
  <2>3. \A i \in 1 .. m + 1 : i \in 1 .. m - 1 \/ i = m \/ i = m + 1  BY <2>2
  <2>4. \A i \in 1 .. m - 1 : i \in 1 .. m  BY <2>2
  <2>5. m \in 1 .. m  BY <1>1, <2>1, Running
  <2> QED  BY <2>1, <2>2, <2>3, <2>4, <2>5 DEF NextsStay
<1>6. FnsStay /\ blocks'[block'].fn = currFunc  BY <1>1, <1>3 DEF FnsStay, Builder
<1> QED  BY <1>1, <1>4, <1>5, <1>6, NextsStayFit, BuilderStays

LEMMA CallBuilder == ASSUME BInv, Call, outcome' = "running" PROVE Builder'
<1>1. IInv /\ outcome = "running" /\ Builder  BY CallShape DEF BInv
<1>2. Grown /\ Op(Top) = "call" /\ Complete(Top)  BY <1>1, CallShape
<1>3. SitesStay /\ NextsStay
  <2>1. Return("computed") /\ "computed" \in Value /\ currFunc' = currFunc  BY DEF Call, Value
  <2>2. ~Generating(Top)  BY <1>1, <1>2, NotPutOff
  <2> QED  BY <1>1, <1>2, <2>1, <2>2, ReturnLeaves
<1>4. FnsStay
  <2>1. blocks' = Ended(block) \/ blocks' = blocks  BY DEF Call
  <2> QED  BY <1>1, <2>1, EndedFacts DEF FnsStay
<1>5. blocks'[block'].fn = currFunc
  <2>1. block' = block /\ block \in 1 .. Len(blocks)  BY <1>1, Running DEF Call
  <2> QED  BY <1>1, <1>4, <2>1 DEF FnsStay, Builder
<1> QED  BY <1>1, <1>3, <1>4, <1>5, NextsStayFit, BuilderStays

LEMMA EndIfBuilder == ASSUME BInv, EndIf, outcome' = "running" PROVE Builder'
<1>1. IInv /\ outcome = "running" /\ Builder  BY EndIfShape DEF BInv
<1>2. /\ Grown /\ Op(Top) = "if" /\ blocks' = Ended(block) /\ block' = Top.next[1]
      /\ Len(Top.next) = 1
  BY <1>1, EndIfShape
<1>3. ~Generating(Top)  BY <1>1, <1>2, NotPutOff
<1>4. SitesStay /\ NextsStay
  <2>1. Return("load") /\ "load" \in Value /\ currFunc' = currFunc  BY DEF EndIf, Value
  <2> QED  BY <1>1, <1>2, <1>3, <2>1, ReturnLeaves
<1>5. FnsStay  BY <1>1, <1>2, EndedFacts DEF FnsStay
<1>6. blocks'[block'].fn = currFunc
  <2>1. PICK m, b : m = Len(stack) /\ b = Top.next[1]  OBVIOUS
  <2>2. m \in 1 .. Len(stack) /\ Top.next \in Seq(1 .. Len(blocks)) /\ Top = stack[m]
    BY <1>1, <2>1, Running, TopFacts DEF Top
  <2>3. 1 \in DOMAIN Top.next /\ b \in 1 .. Len(blocks)
    BY <1>2, <2>1, <2>2, ElementOfSeq, LenProperties
  <2>4. Home(m, blocks[b].fn)  BY <1>1, <2>1, <2>2, <2>3 DEF Builder
  <2>5. blocks[b].fn = currFunc  BY <1>1, <1>3, <2>1, <2>4, HomeOfTop
  <2> QED  BY <1>2, <1>5, <2>1, <2>3, <2>5 DEF FnsStay
<1> QED  BY <1>1, <1>4, <1>5, <1>6, NextsStayFit, BuilderStays

(* Only the top frame changes, or is put off behind a new one that has      *)
(* nothing.                                                                 *)
LEMMA NextsOfUpdate ==
  ASSUME IInv, outcome = "running", NEW m, m = Len(stack), NEW g,
         Continues(m, g) \/ \E k : WaitsFor(m, g, k),
         \A k \in DOMAIN g.next :
            \/ \E l \in DOMAIN Top.next : g.next[k] = Top.next[l]
            \/ blocks'[g.next[k]].fn = currFunc /\ Home(m, currFunc)
  PROVE  NextsFit
<1>1. m \in Nat /\ m \in 1 .. m  BY Running
<1>2. /\ stack'[m] = g /\ \A i \in 1 .. m - 1 : stack'[i] = stack[i]
      /\ Len(stack') = m \/ (Len(stack') = m + 1 /\ stack'[m + 1].next = << >>)
  <2>1. CASE Continues(m, g)  BY <2>1 DEF Continues, Survives
  <2>2. CASE \E k : WaitsFor(m, g, k)
    <3>1. PICK k : WaitsFor(m, g, k)  BY <2>2
    <3>2. Activation(k).next = << >>  BY DEF Activation
    <3>3. stack'[m + 1].next = << >>  BY <3>1, <3>2 DEF WaitsFor
    <3> QED  BY <3>1, <3>3 DEF WaitsFor, Survives
  <2> QED  BY <2>1, <2>2
<1> SUFFICES ASSUME NEW i \in 1 .. Len(stack'), NEW k \in DOMAIN stack'[i].next
             PROVE  /\ i \in 1 .. Len(stack)
                    /\ \/ \E l \in DOMAIN stack[i].next : stack'[i].next[k] = stack[i].next[l]
                       \/ blocks'[stack'[i].next[k]].fn = currFunc /\ Home(i, currFunc)
  BY DEF NextsFit
<1>3. i \in 1 .. m - 1 \/ i = m \/ (i = m + 1 /\ Len(stack') = m + 1)  BY <1>1, <1>2
<1>4. CASE i \in 1 .. m - 1
  <2>1. stack'[i] = stack[i] /\ i \in 1 .. Len(stack)  BY <1>1, <1>2, <1>4
  <2>2. k \in DOMAIN stack[i].next /\ stack'[i].next[k] = stack[i].next[k]  BY <2>1
  <2> QED  BY <2>1, <2>2
<1>5. CASE i = m  BY <1>1, <1>2, <1>5 DEF Top
<1>6. CASE i = m + 1 /\ Len(stack') = m + 1  BY <1>2, <1>6
<1> QED  BY <1>3, <1>4, <1>5, <1>6

LEMMA BranchBuilder == ASSUME BInv, Branch PROVE Builder'
<1>1. IInv /\ outcome = "running" /\ Builder  BY DEF BInv, Branch, At
<1>2. PICK n, f, g, m :
        n = Len(blocks) /\ f = Top /\ m = Len(stack) /\ g = [f EXCEPT !.next = <<n + 2, n + 3>>]
  OBVIOUS
<1>3. /\ Op(f) = "if" /\ Grown /\ n \in Nat /\ block' = n + 1 /\ Continues(m, g)
      /\ \A b \in 1 .. n : blocks'[b].fn = blocks[b].fn
      /\ \A i \in 1 .. 3 : blocks'[n + i].fn = currFunc
  BY <1>1, <1>2, BranchShape
<1>4. f \in Frames  BY <1>1, <1>2, TopFacts
<1>5. g.next = <<n + 2, n + 3>> /\ g.site = f.site  BY <1>2, <1>4 DEF Frames
<1>6. FnsStay  BY <1>2, <1>3 DEF FnsStay
<1>7. SitesStay
  <2>1. currFunc' = currFunc  BY DEF Branch
  <2> QED  BY <1>1, <1>2, <1>3, <1>5, <2>1, SameSites
<1>8. NextsFit
  <2>1. ~Generating(Top)  BY <1>1, <1>2, <1>3, NotPutOff
  <2>2. Home(m, currFunc)
    <3>1. PICK fn : fn = currFunc  OBVIOUS
    <3>2. Home(m, fn)  BY <1>1, <1>2, <2>1, <3>1, HomeOfTop
    <3> QED  BY <3>1, <3>2
  <2>3. blocks'[n + 2].fn = currFunc /\ blocks'[n + 3].fn = currFunc  BY <1>3
  <2>4. DOMAIN g.next = 1 .. 2 /\ g.next[1] = n + 2 /\ g.next[2] = n + 3  BY <1>5
  <2>5. \A k \in DOMAIN g.next : k = 1 \/ k = 2  BY <2>4
  <2>6. \A k \in DOMAIN g.next : blocks'[g.next[k]].fn = currFunc
    BY <2>3, <2>4, <2>5
  <2> QED  BY <1>1, <1>2, <1>3, <2>2, <2>6, NextsOfUpdate
<1>9. blocks'[block'].fn = currFunc
  <2>1. 1 \in 1 .. 3  OBVIOUS
  <2> QED  BY <1>3, <2>1
<1> QED  BY <1>1, <1>6, <1>7, <1>8, <1>9, BuilderStays

LEMMA ElseBuilder == ASSUME BInv, Else PROVE Builder'
<1>1. IInv /\ outcome = "running" /\ Builder  BY DEF BInv, Else, At
<1>2. PICK f, g, m : f = Top /\ m = Len(stack) /\ g = [f EXCEPT !.next = Tail(@)]  OBVIOUS
<1>3. /\ Op(f) = "if" /\ Grown /\ blocks' = Ended(block) /\ block' = f.next[1]
      /\ Len(f.next) = 2 /\ Continues(m, g) /\ Tail(f.next) \in Seq(1 .. Len(blocks))
      /\ Len(Tail(f.next)) = 1 /\ Tail(f.next)[1] = f.next[2]
  BY <1>1, <1>2, ElseShape
<1>4. f \in Frames /\ f.next \in Seq(1 .. Len(blocks)) /\ ~Generating(f)
  BY <1>1, <1>2, <1>3, TopFacts, NotPutOff
<1>5. g.next = Tail(f.next) /\ g.site = f.site  BY <1>2, <1>4 DEF Frames
<1>6. FnsStay  BY <1>1, <1>3, EndedFacts DEF FnsStay
<1>7. SitesStay
  <2>1. currFunc' = currFunc  BY DEF Else
  <2> QED  BY <1>1, <1>2, <1>3, <1>5, <2>1, SameSites
<1>8. DOMAIN f.next = 1 .. 2 /\ DOMAIN g.next = 1 .. 1
  BY <1>3, <1>4, <1>5, LenProperties
<1>9. NextsFit
  <2>1. \A k \in DOMAIN g.next : k = 1  BY <1>8
  <2>2. 2 \in DOMAIN f.next  BY <1>8
  <2>3. \A k \in DOMAIN g.next : g.next[k] = f.next[2]  BY <1>3, <1>5, <2>1
  <2>4. \A k \in DOMAIN g.next :
          \/ \E l \in DOMAIN Top.next : g.next[k] = Top.next[l]
          \/ blocks'[g.next[k]].fn = currFunc /\ Home(m, currFunc)
    BY <1>2, <2>2, <2>3
  <2>5. Continues(m, g) /\ m = Len(stack)  BY <1>2, <1>3
  <2> QED  BY <1>1, <2>4, <2>5, NextsOfUpdate
<1>10. blocks'[block'].fn = currFunc
  <2>1. PICK b : b = f.next[1]  OBVIOUS
  <2>2. 1 \in DOMAIN f.next /\ b \in 1 .. Len(blocks)
    <3>1. 1 \in DOMAIN f.next /\ 1 \in 1 .. Len(f.next)  BY <1>3, <1>8
    <3> QED  BY <2>1, <3>1, <1>4, ElementOfSeq
  <2>3. m \in 1 .. Len(stack) /\ f = stack[m]  BY <1>1, <1>2, Running DEF Top
  <2>4. Home(m, blocks[b].fn)  BY <1>1, <2>1, <2>2, <2>3 DEF Builder
  <2>5. blocks[b].fn = currFunc  BY <1>1, <1>2, <1>4, <2>4, HomeOfTop
  <2> QED  BY <1>3, <1>6, <2>1, <2>2, <2>5 DEF FnsStay
<1> QED  BY <1>1, <1>6, <1>7, <1>9, <1>10, BuilderStays

(* To put off a call, and to go on with it, leaves the frames at their homes. *)
LEMMA GenerateHomes ==
  ASSUME BInv, Generate, NEW m, m = Len(stack)
  PROVE  /\ \A j \in Nat : /\ PutOffAt(j)' <=> PutOffAt(j) \/ j = m
                           /\ PutOffAt(j) => j < m /\ stack'[j] = stack[j]
         /\ HomesStay
<1>1. IInv /\ outcome = "running" /\ Builder  BY DEF BInv, Generate, At
<1>2. PICK n, name, f, g, ret :
        /\ n = Len(blocks) /\ name = CalleeName(Top) /\ f = Top /\ g = PutOff
        /\ ret = Inst(Top).ret
  OBVIOUS
<1>3. /\ Op(f) = "call" /\ Grown /\ ~Generating(f) /\ n \in Nat
      /\ Len(blocks') = n + 1 /\ \A b \in 1 .. n : blocks'[b] = blocks[b]
      /\ blocks'[n + 1] = Block(name, {n + 1})
      /\ currFunc' = name
      /\ block' = n + 1 \/ block' \in Named(name)
      /\ WaitsFor(m, g, ret)
  BY <1>1, <1>2, GenerateShape
<1>4. f \in Frames /\ FrameOK(f) /\ m \in Nat /\ m \in 1 .. m /\ block \in 1 .. n
  BY <1>1, <1>2, TopFacts, Running
<1>5. g.next = << >> /\ g.site.fn = currFunc /\ g.site.block = block
  BY <1>2, <1>3, <1>4 DEF Frames, PutOff, FrameOK
<1>6. /\ Len(stack') = m + 1 /\ stack'[m] = g /\ \A i \in 1 .. m - 1 : stack'[i] = stack[i]
      /\ ~Generating(stack'[m + 1])
  <2>1. Activation(ret).site.block = Null  BY DEF Activation, NoSite
  <2>2. stack'[m + 1] = Activation(ret)  BY <1>3 DEF WaitsFor
  <2>3. ~Generating(stack'[m + 1])  BY <2>1, <2>2 DEF Generating
  <2> QED  BY <2>3, <1>3 DEF WaitsFor, Survives
<1>7. ASSUME NEW j \in Nat
      PROVE  /\ PutOffAt(j)' <=> PutOffAt(j) \/ j = m
             /\ PutOffAt(j) => j < m /\ stack'[j] = stack[j]
  <2>1. CASE j \in 1 .. m - 1
    <3>1. j \in 1 .. Len(stack) /\ j \in 1 .. Len(stack') /\ j < m  BY <2>1, <1>2, <1>4, <1>6
    <3> QED  BY <2>1, <3>1, <1>6 DEF PutOffAt, Generating
  <2>2. CASE j = m
    <3>1. j \in 1 .. Len(stack')  BY <2>2, <1>4, <1>6
    <3>2. stack'[j].site.block # Null  BY <2>2, <1>4, <1>5, <1>6 DEF Null
    <3>3. PutOffAt(j)'  BY <3>1, <3>2 DEF PutOffAt, Generating
    <3>4. ~PutOffAt(j)  BY <2>2, <1>2, <1>3 DEF PutOffAt, Top
    <3> QED  BY <2>2, <3>3, <3>4
  <2>3. CASE j = m + 1
    <3>1. j # m /\ ~(j \in 1 .. Len(stack))  BY <2>3, <1>2, <1>4
    <3> QED  BY <2>3, <3>1, <1>6 DEF PutOffAt, Generating
  <2>4. CASE j \notin 1 .. m - 1 /\ j # m /\ j # m + 1
    <3>1. ~(j \in 1 .. Len(stack)) /\ ~(j \in 1 .. Len(stack'))  BY <2>4, <1>2, <1>4, <1>6
    <3> QED  BY <2>4, <3>1 DEF PutOffAt
  <2> QED  BY <2>1, <2>2, <2>3, <2>4
<1>8. HomesStay
  <2> SUFFICES ASSUME NEW i \in 1 .. Len(stack), NEW fn, Home(i, fn) PROVE Home(i, fn)'
    BY DEF HomesStay
  <2>1. i \in Nat /\ i <= m  BY <1>2, <1>4
  <2>2. PutOffAt(m)'  BY <1>4, <1>7
  <2>3. ASSUME NEW j \in Nat, i <= j, PutOffAt(j)',
               \A h \in Nat : i <= h /\ h < j => ~PutOffAt(h)'
        PROVE  fn = stack'[j].site.fn
    <3>1. \A h \in Nat : i <= h /\ h < j => ~PutOffAt(h)  BY <1>7, <2>3
    <3>2. CASE PutOffAt(j)
      <4>1. fn = stack[j].site.fn  BY <2>3, <3>1, <3>2 DEF Home
      <4> QED  BY <4>1, <3>2, <1>7
    <3>3. CASE j = m
      <4>1. \A h \in Nat : i <= h => ~PutOffAt(h)
        <5> SUFFICES ASSUME NEW h \in Nat, i <= h, PutOffAt(h) PROVE FALSE  OBVIOUS
        <5>1. h < m  BY <1>7
        <5> QED  BY <5>1, <3>1, <3>3
      <4>2. fn = currFunc  BY <4>1 DEF Home
      <4> QED  BY <4>2, <3>3, <1>5, <1>6
    <3> QED  BY <2>3, <3>2, <3>3, <1>7
  <2>4. (\A j \in Nat : i <= j => ~PutOffAt(j)') => fn = currFunc'
    BY <2>1, <2>2, <1>4
  <2> QED  BY <2>3, <2>4 DEF Home
<1> QED  BY <1>7, <1>8

LEMMA GenerateBuilder == ASSUME BInv, Generate PROVE Builder'
<1>1. IInv /\ outcome = "running" /\ Builder  BY DEF BInv, Generate, At
<1>2. PICK n, name, f, g, m, ret :
        /\ n = Len(blocks) /\ name = CalleeName(Top) /\ f = Top /\ g = PutOff
        /\ m = Len(stack) /\ ret = Inst(Top).ret
  OBVIOUS
<1>3. /\ Op(f) = "call" /\ Grown /\ ~Generating(f) /\ n \in Nat
      /\ Len(blocks') = n + 1 /\ \A b \in 1 .. n : blocks'[b] = blocks[b]
      /\ blocks'[n + 1] = Block(name, {n + 1})
      /\ currFunc' = name
      /\ block' = n + 1 \/ block' \in Named(name)
      /\ WaitsFor(m, g, ret)
  BY <1>1, <1>2, GenerateShape
<1>4. f \in Frames /\ FrameOK(f) /\ m \in Nat /\ m \in 1 .. m /\ block \in 1 .. n
  BY <1>1, <1>2, TopFacts, Running
<1>5. g.next = << >> /\ g.site.fn = currFunc /\ g.site.block = block
  BY <1>2, <1>3, <1>4 DEF Frames, PutOff, FrameOK
<1>6. /\ Len(stack') = m + 1 /\ stack'[m] = g /\ \A i \in 1 .. m - 1 : stack'[i] = stack[i]
      /\ ~Generating(stack'[m + 1])
  <2>1. Activation(ret).site.block = Null  BY DEF Activation, NoSite
  <2>2. stack'[m + 1] = Activation(ret)  BY <1>3 DEF WaitsFor
  <2>3. ~Generating(stack'[m + 1])  BY <2>1, <2>2 DEF Generating
  <2> QED  BY <2>3, <1>3 DEF WaitsFor, Survives
<1>7. /\ \A j \in Nat : /\ PutOffAt(j)' <=> PutOffAt(j) \/ j = m
                        /\ PutOffAt(j) => j < m /\ stack'[j] = stack[j]
      /\ HomesStay
  BY <1>2, GenerateHomes
<1>8. FnsStay  BY <1>2, <1>3 DEF FnsStay
<1>10. NextsFit
  <2>1. \A k \in DOMAIN g.next : FALSE  BY <1>5
  <2>2. Continues(m, g) \/ \E k : WaitsFor(m, g, k)  BY <1>3
  <2> QED  BY <1>1, <1>2, <2>1, <2>2, NextsOfUpdate
<1>11. PutOffsFit'
  <2> SUFFICES ASSUME NEW j \in Nat, PutOffAt(j)'
               PROVE  blocks'[stack'[j].site.block].fn = stack'[j].site.fn
    BY DEF PutOffsFit
  <2>1. CASE PutOffAt(j)
    <3>1. stack'[j] = stack[j]  BY <2>1, <1>7
    <3>2. blocks[stack[j].site.block].fn = stack[j].site.fn  BY <2>1, <1>1 DEF Builder
    <3>3. stack[j].site.block \in 1 .. Len(blocks)  BY <1>1, <2>1, SiteOfPutOff
    <3> QED  BY <3>1, <3>2, <3>3, <1>8 DEF FnsStay
  <2>2. CASE j = m
    BY <2>2, <1>1, <1>3, <1>4, <1>5, <1>6 DEF Builder
  <2> QED  BY <2>1, <2>2, <1>7
<1>12. blocks'[block'].fn = currFunc'
  <2>1. CASE block' = n + 1  BY <2>1, <1>3 DEF Block
  <2>2. CASE block' \in Named(name)
    <3>1. block' \in 1 .. n /\ blocks[block'].fn = name  BY <2>2, <1>2 DEF Named
    <3> QED  BY <3>1, <1>3
  <2> QED  BY <2>1, <2>2, <1>3
<1> QED  BY <1>1, <1>7, <1>8, <1>10, <1>11, <1>12, BuilderFits

LEMMA EndFunctionHomes ==
  ASSUME BInv, EndFunction, NEW m, m = Len(stack)
  PROVE  /\ \A j \in Nat : /\ PutOffAt(j)' <=> PutOffAt(j) /\ j # m
                           /\ PutOffAt(j) => j <= m /\ (j # m => stack'[j] = stack[j])
         /\ HomesStay
<1>1. IInv /\ outcome = "running" /\ Builder  BY DEF BInv, EndFunction, At
<1>2. PICK f, g : f = Top /\ g = Resumed  OBVIOUS
<1>3. /\ Op(f) = "call" /\ Grown /\ Generating(f) /\ blocks' = Ended(block)
      /\ block' = f.site.block /\ currFunc' = f.site.fn /\ Continues(m, g)
      /\ g.next = << >> /\ g.site = NoSite
  BY <1>1, <1>2, EndFunctionShape
<1>4. m \in Nat /\ m \in 1 .. m /\ f = stack[m]  BY <1>1, <1>2, Running DEF Top
<1>5. Len(stack') = m /\ stack'[m] = g /\ \A i \in 1 .. m - 1 : stack'[i] = stack[i]
  BY <1>3 DEF Continues, Survives
<1>6. PutOffAt(m)  BY <1>2, <1>3, <1>4 DEF PutOffAt
<1>7. ASSUME NEW j \in Nat
      PROVE  /\ PutOffAt(j)' <=> PutOffAt(j) /\ j # m
             /\ PutOffAt(j) => j <= m /\ (j # m => stack'[j] = stack[j])
  <2>1. CASE j \in 1 .. m - 1
    <3>1. j \in 1 .. Len(stack) /\ j \in 1 .. Len(stack') /\ j < m  BY <2>1, <1>2, <1>4, <1>5
    <3> QED  BY <2>1, <3>1, <1>5 DEF PutOffAt, Generating
  <2>2. CASE j = m
    <3>1. g.site.block = Null  BY <1>3 DEF NoSite
    <3>2. ~PutOffAt(j)'  BY <2>2, <3>1, <1>5 DEF PutOffAt, Generating
    <3> QED  BY <2>2, <3>2, <1>4
  <2>3. CASE j \notin 1 .. m - 1 /\ j # m
    <3>1. ~(j \in 1 .. Len(stack)) /\ ~(j \in 1 .. Len(stack'))  BY <2>3, <1>2, <1>4, <1>5
    <3> QED  BY <2>3, <3>1 DEF PutOffAt
  <2> QED  BY <2>1, <2>2, <2>3
<1>8. HomesStay
  <2> SUFFICES ASSUME NEW i \in 1 .. Len(stack), NEW fn, Home(i, fn) PROVE Home(i, fn)'
    BY DEF HomesStay
  <2>1. i \in Nat /\ i <= m  BY <1>2, <1>4
  <2>2. ASSUME \A j \in Nat : i <= j => ~PutOffAt(j)'
        PROVE  fn = currFunc'
    <3>1. \A h \in Nat : i <= h /\ h < m => ~PutOffAt(h)
      <4> SUFFICES ASSUME NEW h \in Nat, i <= h, h < m PROVE ~PutOffAt(h)  OBVIOUS
      <4>1. h # m /\ ~PutOffAt(h)'  BY <2>2, <1>4
      <4> QED  BY <4>1, <1>7
    <3>2. fn = stack[m].site.fn  BY <2>1, <3>1, <1>4, <1>6 DEF Home
    <3> QED  BY <3>2, <1>3, <1>4
  <2>3. ASSUME NEW j \in Nat, i <= j, PutOffAt(j)',
               \A h \in Nat : i <= h /\ h < j => ~PutOffAt(h)'
        PROVE  fn = stack'[j].site.fn
    <3>1. PutOffAt(j) /\ j # m /\ j <= m /\ stack'[j] = stack[j]  BY <2>3, <1>7
    <3>2. \A h \in Nat : i <= h /\ h < j => ~PutOffAt(h)
      <4> SUFFICES ASSUME NEW h \in Nat, i <= h, h < j PROVE ~PutOffAt(h)  OBVIOUS
      <4>1. h # m /\ ~PutOffAt(h)'  BY <2>3, <3>1, <1>4
      <4> QED  BY <4>1, <1>7
    <3>3. fn = stack[j].site.fn  BY <2>3, <3>1, <3>2 DEF Home
    <3> QED  BY <3>1, <3>3
  <2> QED  BY <2>2, <2>3 DEF Home
<1> QED  BY <1>7, <1>8

LEMMA EndFunctionBuilder == ASSUME BInv, EndFunction PROVE Builder'
<1>1. IInv /\ outcome = "running" /\ Builder  BY DEF BInv, EndFunction, At
<1>2. PICK f, g, m : f = Top /\ g = Resumed /\ m = Len(stack)  OBVIOUS
<1>3. /\ Op(f) = "call" /\ Grown /\ Generating(f) /\ blocks' = Ended(block)
      /\ block' = f.site.block /\ currFunc' = f.site.fn /\ Continues(m, g)
      /\ g.next = << >> /\ g.site = NoSite
  BY <1>1, <1>2, EndFunctionShape
<1>4. m \in Nat /\ m \in 1 .. m /\ f = stack[m]  BY <1>1, <1>2, Running DEF Top
<1>5. Len(stack') = m /\ stack'[m] = g /\ \A i \in 1 .. m - 1 : stack'[i] = stack[i]
  BY <1>3 DEF Continues, Survives
<1>6. PutOffAt(m)  BY <1>2, <1>3, <1>4 DEF PutOffAt
<1>7. /\ \A j \in Nat : /\ PutOffAt(j)' <=> PutOffAt(j) /\ j # m
                        /\ PutOffAt(j) => j <= m /\ (j # m => stack'[j] = stack[j])
      /\ HomesStay
  BY <1>2, EndFunctionHomes
<1>8. FnsStay  BY <1>1, <1>3, EndedFacts DEF FnsStay
<1>10. NextsFit
  <2>1. \A k \in DOMAIN g.next : FALSE  BY <1>3
  <2>2. Continues(m, g) \/ \E k : WaitsFor(m, g, k)  BY <1>3
  <2> QED  BY <1>1, <1>2, <2>1, <2>2, NextsOfUpdate
<1>11. PutOffsFit'
  <2> SUFFICES ASSUME NEW j \in Nat, PutOffAt(j)'
               PROVE  blocks'[stack'[j].site.block].fn = stack'[j].site.fn
    BY DEF PutOffsFit
  <2>1. PutOffAt(j) /\ stack'[j] = stack[j]  BY <1>7
  <2>2. blocks[stack[j].site.block].fn = stack[j].site.fn  BY <2>1, <1>1 DEF Builder
  <2>3. stack[j].site.block \in 1 .. Len(blocks)  BY <1>1, <2>1, SiteOfPutOff
  <2> QED  BY <2>1, <2>2, <2>3, <1>8 DEF FnsStay
<1>12. blocks'[block'].fn = currFunc'
  <2>1. blocks[f.site.block].fn = f.site.fn  BY <1>1, <1>4, <1>6 DEF Builder
  <2>2. f.site.block \in 1 .. Len(blocks)  BY <1>1, <1>4, <1>6, SiteOfPutOff
  <2> QED  BY <2>1, <2>2, <1>3, <1>8 DEF FnsStay
<1> QED  BY <1>1, <1>7, <1>8, <1>10, <1>11, <1>12, BuilderFits

LEMMA InitBuilder == Init => BInv
<1> SUFFICES ASSUME Init PROVE Builder  BY InitOK DEF BInv
<1>1. PICK f : f = Activation(Len(program.node))  OBVIOUS
<1>2. f.next = << >> /\ f.site.block = Null  BY <1>1 DEF Activation, NoSite
<1>3. stack = <<f>> /\ Len(stack) = 1 /\ stack[1] = f  BY <1>1 DEF Init
<1>4. \A j \in 1 .. Len(stack) : j = 1  BY <1>3
<1>5. \A j \in Nat : ~PutOffAt(j)  BY <1>2, <1>3, <1>4 DEF PutOffAt, Generating
<1>6. \A i \in 1 .. Len(stack) : \A k \in DOMAIN stack[i].next : FALSE
  BY <1>2, <1>3, <1>4
<1>7. blocks[block].fn = currFunc  BY DEF Init, Block
<1> QED  BY <1>5, <1>6, <1>7 DEF Builder

LEMMA NextBuilder == BInv /\ [Next]_vars => BInv'
<1> SUFFICES ASSUME BInv, [Next]_vars, outcome' = "running" PROVE Builder'
  BY NextOK DEF BInv
<1>1. IInv  BY DEF BInv
<1>2. CASE Quiet  BY <1>2, QuietBuilder
<1>3. CASE Unbound \/ Not \/ NotImplemented \/ NameClash
  <2>1. Reject \/ Undefined  BY <1>3 DEF Unbound, Not, NotImplemented, NameClash
  <2> QED  BY <2>1 DEF Reject, Undefined, Stop
<1>4. CASE Finished \/ UNCHANGED vars
  BY <1>4 DEF Finished, vars, BInv, Builder, Home, PutOffAt, Generating
<1> QED
  BY <1>2, <1>3, <1>4, VisitBuilder, BranchBuilder, ElseBuilder, EndIfBuilder, GenerateBuilder,
     EndFunctionBuilder, CallBuilder DEF Next, Quiet

(* Every frame works for one function, and the blocks it has still to fill   *)
(* and the site it returns to are in it.                                    *)
THEOREM BuilderInvariant == Spec => []BInv
BY InitBuilder, NextBuilder, PTL DEF Spec

(* The insertion point is in the current function, and where a call has     *)
(* been put off in the function that is current again when it goes on.      *)
THEOREM BuilderStaysInFunction == Spec => []BuilderInFunction
<1>1. BInv => BuilderInFunction
  <2> SUFFICES ASSUME BInv, outcome = "running" PROVE
        /\ blocks[block].fn = currFunc
        /\ \A i \in 1 .. Len(stack) :
             Generating(stack[i]) => blocks[stack[i].site.block].fn = stack[i].site.fn
    BY DEF BuilderInFunction
  <2>1. Builder  BY DEF BInv
  <2>2. \A i \in 1 .. Len(stack) : i \in Nat  BY Running DEF BInv
  <2> QED  BY <2>1, <2>2 DEF Builder, PutOffAt
<1> QED  BY <1>1, BuilderInvariant, PTL
-----------------------------------------------------------------------------
(* Where nullptr comes from, and the names of functions.  A null value that *)
(* an activation holds is that of a block, and an instance that is made has *)
(* the name that a call of it gives it.                                     *)
HasBlock == \E n \in 1 .. Len(program.node) : program.node[n].op = "block"
NullsExplained ==
  \A i \in 1 .. Len(stack) : \A k \in 1 .. Len(stack[i].vals) :
    stack[i].vals[k] = "null" => HasBlock
MadeByCall ==
  \A c \in DOMAIN made : \E n \in 1 .. Len(program.node) :
    /\ program.node[n].op = "call" /\ program.node[n].inst = c
    /\ CalleeName([n |-> n]) = made[c]
Explained == NullsExplained /\ MadeByCall /\ UndefinedExplained
UInv == IInv /\ Explained

LEMMA ProgramOnly ==
  ASSUME program' = program
  PROVE  /\ HasBlock' <=> HasBlock
         /\ \A n : CalleeName([n |-> n])' = CalleeName([n |-> n])
BY DEF HasBlock, CalleeName, Kids

LEMMA MadeStays == ASSUME program' = program, made' = made, MadeByCall PROVE MadeByCall'
BY DEF MadeByCall, CalleeName, Kids

LEMMA NotUndefined == ASSUME outcome' # "undefined" PROVE UndefinedExplained'
BY DEF UndefinedExplained

LEMMA BlockExplains ==
  ASSUME program' = program,
         \E n \in 1 .. Len(program.node) : program.node[n].op \in {"block", "not", "addrof"}
  PROVE  UndefinedExplained'
BY DEF UndefinedExplained

(* The values of the frame that changes are all there is to look at. *)
LEMMA NullsStay ==
  ASSUME IInv, outcome = "running", program' = program, NullsExplained,
         NEW m \in 1 .. Len(stack), NEW g,
         Continues(m, g) \/ \E k : WaitsFor(m, g, k),
         \A k \in 1 .. Len(g.vals) : g.vals[k] = "null" => HasBlock
  PROVE  NullsExplained'
<1>1. Len(stack) \in Nat /\ m \in Nat  BY Running
<1>2. /\ stack'[m] = g /\ \A i \in 1 .. m - 1 : stack'[i] = stack[i]
      /\ Len(stack') = m \/ (Len(stack') = m + 1 /\ stack'[m + 1].vals = << >>)
  <2>1. CASE Continues(m, g)  BY <2>1 DEF Continues, Survives
  <2>2. CASE \E k : WaitsFor(m, g, k)
    <3>1. PICK k : WaitsFor(m, g, k)  BY <2>2
    <3>2. Activation(k).vals = << >>  BY DEF Activation
    <3>3. stack'[m + 1].vals = << >>  BY <3>1, <3>2 DEF WaitsFor
    <3> QED  BY <3>1, <3>3 DEF WaitsFor, Survives
  <2> QED  BY <2>1, <2>2
<1> SUFFICES ASSUME NEW i \in 1 .. Len(stack'), NEW k \in 1 .. Len(stack'[i].vals),
                    stack'[i].vals[k] = "null"
             PROVE  HasBlock
  BY ProgramOnly DEF NullsExplained
<1>3. i \in 1 .. m - 1 \/ i = m \/ (i = m + 1 /\ Len(stack') = m + 1)  BY <1>1, <1>2
<1>4. CASE i \in 1 .. m - 1
  <2>1. stack'[i] = stack[i] /\ i \in 1 .. Len(stack)  BY <1>1, <1>2, <1>4
  <2> QED  BY <2>1 DEF NullsExplained
<1>5. CASE i = m  BY <1>2, <1>5
<1>6. CASE i = m + 1 /\ Len(stack') = m + 1
  <2>1. Len(stack'[i].vals) = 0  BY <1>2, <1>6, EmptySeq
  <2> QED  BY <2>1
<1> QED  BY <1>3, <1>4, <1>5, <1>6

LEMMA NullsOfTop ==
  ASSUME IInv, outcome = "running", NullsExplained, NEW f, f = Top
  PROVE  \A k \in 1 .. Len(f.vals) : f.vals[k] = "null" => HasBlock
<1>1. Len(stack) \in 1 .. Len(stack)  BY Running
<1> QED  BY <1>1 DEF NullsExplained, Top

LEMMA ReturnNulls ==
  ASSUME IInv, outcome = "running", Grown, Explained, NEW v \in Value, Return(v),
         v = "null" => HasBlock
  PROVE  NullsExplained' /\ UndefinedExplained'
<1>1. program' = program  BY DEF Grown
<1>2. CASE Stopped
  <2>1. Len(stack') = 0  BY <1>2, EmptySeq DEF Stopped
  <2>2. NullsExplained'  BY <2>1 DEF NullsExplained
  <2>3. outcome' = "undefined" => v = "null"  BY DEF Return, Stop, Undefined
  <2>4. UndefinedExplained'
    BY <1>1, <2>3, BlockExplains, NotUndefined DEF HasBlock
  <2> QED  BY <2>2, <2>4
<1>3. CASE Len(stack) > 1 /\ Continues(Len(stack) - 1, Answering(v))
  <2>1. PICK m, f, g : m = Len(stack) - 1 /\ f = stack[m] /\ g = Answering(v)  OBVIOUS
  <2>2. m \in 1 .. Len(stack) /\ Continues(m, g)  BY <1>3, <2>1, Running
  <2>3. /\ Len(g.vals) = Len(f.vals) + 1 /\ f.vals \in Seq(Value)
        /\ \A k \in 1 .. Len(f.vals) : g.vals[k] = f.vals[k]
        /\ g.vals[Len(f.vals) + 1] = v
    BY <1>3, <2>1, AnsweringFacts
  <2>4. \A k \in 1 .. Len(g.vals) : g.vals[k] = "null" => HasBlock
    <3> SUFFICES ASSUME NEW k \in 1 .. Len(g.vals), g.vals[k] = "null" PROVE HasBlock
      OBVIOUS
    <3>1. Len(f.vals) \in Nat  BY <2>3, LenProperties
    <3>2. k \in 1 .. Len(f.vals) \/ k = Len(f.vals) + 1  BY <2>3, <3>1
    <3> QED  BY <2>1, <2>2, <2>3, <3>2 DEF Explained, NullsExplained
  <2>5. NullsExplained'  BY <1>1, <2>2, <2>4, NullsStay DEF Explained
  <2>6. outcome' = "running"  BY <2>2 DEF Continues, Survives
  <2> QED  BY <2>5, <2>6, NotUndefined
<1> QED  BY <1>2, <1>3, Returning

LEMMA QuietExplained == ASSUME UInv, Quiet PROVE Explained'
<1>1. IInv /\ Explained  BY DEF UInv
<1>2. /\ outcome = "running" /\ Grown /\ made' = made
  BY <1>1, QuietShape
<1>3. program' = program  BY <1>2 DEF Grown
<1>4. MadeByCall'  BY <1>1, <1>2, <1>3, MadeStays DEF Explained
<1>5. Top.n \in 1 .. Len(program.node)  BY <1>1, <1>2, TopFacts
<1>6. CASE Stopped /\ \/ outcome' = "undefined" /\ Op(Top) = "addrof"
                      \/ outcome' # "undefined"
  <2>1. Len(stack') = 0  BY <1>6, EmptySeq DEF Stopped
  <2>2. NullsExplained'  BY <2>1 DEF NullsExplained
  <2>3. UndefinedExplained'
    <3>1. CASE outcome' # "undefined"  BY <3>1, NotUndefined
    <3>2. CASE Op(Top) = "addrof"  BY <3>2, <1>3, <1>5, BlockExplains DEF Op
    <3> QED  BY <3>1, <3>2, <1>6
  <2> QED  BY <1>4, <2>2, <2>3 DEF Explained
<1>7. ASSUME NEW v \in Value, Return(v),
             v = "null" => \/ Op(Top) = "block"
                           \/ \E k \in 1 .. Len(Top.vals) : Top.vals[k] = "null"
      PROVE  Explained'
  <2>1. v = "null" => HasBlock
    <3>1. Op(Top) = "block" => HasBlock  BY <1>5 DEF HasBlock, Op
    <3>2. \A k \in 1 .. Len(Top.vals) : Top.vals[k] = "null" => HasBlock
      BY <1>1, <1>2, NullsOfTop DEF Explained
    <3> QED  BY <3>1, <3>2, <1>7
  <2> QED  BY <1>1, <1>2, <1>4, <1>7, <2>1, ReturnNulls DEF Explained
<1> QED  BY <1>1, <1>6, <1>7, QuietShape

LEMMA NameClashExplained == ASSUME UInv, NameClash PROVE Explained'
<1>1. IInv /\ Explained /\ outcome = "running" /\ Op(Top) = "call"
  BY DEF UInv, NameClash, At
<1>2. program' = program /\ made' = made /\ stack' = << >>  BY DEF NameClash, Emitted, Undefined, Stop
<1>3. PICK t : t = Top.n  OBVIOUS
<1>4. t \in 1 .. Len(program.node) /\ program.node[t].op = "call"
  BY <1>1, <1>3, TopFacts DEF Op
<1>5. CalleeName([n |-> t]) = CalleeName(Top) /\ Inst(Top) = program.inst[program.node[t].inst]
  BY <1>3 DEF CalleeName, Kids, Inst, Index
<1>6. NamesCollide
  <2> DEFINE called == {n \in 1 .. Len(program.node) : program.node[n].op = "call"}
             name(n) == CalleeName([n |-> n])
             type(n) == program.inst[program.node[n].inst].type
  <2>1. SUFFICES \E n, m \in called :
                    name(n) = Construct \/ (name(n) = name(m) /\ type(n) # type(m))
    BY DEF NamesCollide
  <2>2. t \in called  BY <1>4
  <2>3. CASE CalleeName(Top) = Construct
    <3>1. name(t) = Construct  BY <1>5, <2>3
    <3> QED  BY <2>2, <3>1
  <2>4. CASE \E c \in DOMAIN made :
               made[c] = CalleeName(Top) /\ program.inst[c].type # Inst(Top).type
    <3>1. PICK c \in DOMAIN made :
            made[c] = CalleeName(Top) /\ program.inst[c].type # Inst(Top).type
      BY <2>4
    <3>2. PICK n \in 1 .. Len(program.node) :
            /\ program.node[n].op = "call" /\ program.node[n].inst = c
            /\ CalleeName([n |-> n]) = made[c]
      BY <1>1 DEF Explained, MadeByCall
    <3>3. n \in called /\ name(n) = name(t) /\ type(n) # type(t)
      BY <1>5, <3>1, <3>2
    <3> QED  BY <2>2, <3>3
  <2> QED  BY <2>3, <2>4 DEF NameClash, Clash
<1>7. NamesCollide'
  <2>1. NamesCollide' <=> NamesCollide  BY <1>2 DEF NamesCollide, CalleeName, Kids
  <2> QED  BY <1>6, <2>1
<1>8. UndefinedExplained'  BY <1>7 DEF UndefinedExplained
<1>9. NullsExplained'
  <2>1. Len(stack') = 0  BY <1>2, EmptySeq
  <2> QED  BY <2>1 DEF NullsExplained
<1> QED  BY <1>1, <1>2, <1>8, <1>9, MadeStays DEF Explained

LEMMA GenerateExplained == ASSUME UInv, Generate PROVE Explained'
<1>1. IInv /\ Explained /\ outcome = "running" /\ Op(Top) = "call"
  BY DEF UInv, Generate, At
<1>2. PICK n, name, f, g, m, ret :
        /\ n = Len(blocks) /\ name = CalleeName(Top) /\ f = Top /\ g = PutOff
        /\ m = Len(stack) /\ ret = Inst(Top).ret
  OBVIOUS
<1>3. Grown /\ made' = Assign(made, Index(f), name) /\ WaitsFor(m, g, ret)
  BY <1>1, <1>2, GenerateShape
<1>4. f \in Frames /\ f.n \in 1 .. Len(program.node) /\ m \in 1 .. Len(stack)
  BY <1>1, <1>2, TopFacts, Running
<1>5. program' = program /\ outcome' = "running"
  BY <1>3 DEF Grown, WaitsFor, Survives
<1>6. NullsExplained'
  <2>1. g.vals = f.vals  BY <1>2, <1>4 DEF PutOff, Frames
  <2>2. \A k \in 1 .. Len(f.vals) : f.vals[k] = "null" => HasBlock
    BY <1>1, <1>2, NullsOfTop DEF Explained
  <2>3. Continues(m, g) \/ \E k : WaitsFor(m, g, k)  BY <1>3
  <2> QED  BY <1>1, <1>4, <1>5, <2>1, <2>2, <2>3, NullsStay DEF Explained
<1>7. MadeByCall'
  <2>1. MadeByCall  BY <1>1 DEF Explained
  <2>2. PICK t : t = f.n  OBVIOUS
  <2>3. /\ t \in 1 .. Len(program.node) /\ program.node[t].op = "call"
        /\ program.node[t].inst = Index(f) /\ CalleeName([n |-> t]) = name
    BY <1>1, <1>2, <1>4, <2>2 DEF Op, Index, CalleeName, Kids
  <2>4. PICK made1 : made1 = made'  OBVIOUS
  <2>5. ASSUME NEW c \in DOMAIN made1
        PROVE  \E k \in 1 .. Len(program.node) :
                 /\ program.node[k].op = "call" /\ program.node[k].inst = c
                 /\ CalleeName([n |-> k]) = made1[c]
    <3>1. CASE c = Index(f)
      <4>1. made1[c] = name  BY <3>1, <2>4, <1>3 DEF Assign
      <4> QED  BY <4>1, <3>1, <2>3
    <3>2. CASE c # Index(f)
      <4>1. c \in DOMAIN made /\ made1[c] = made[c]  BY <3>2, <2>4, <1>3 DEF Assign
      <4> QED  BY <4>1, <2>1 DEF MadeByCall
    <3> QED  BY <3>1, <3>2
  <2>6. \A k : CalleeName([n |-> k])' = CalleeName([n |-> k])  BY <1>5, ProgramOnly
  <2> QED  BY <1>5, <2>4, <2>5, <2>6 DEF MadeByCall
<1> QED  BY <1>5, <1>6, <1>7, NotUndefined DEF Explained

LEMMA UpdateExplained ==
  ASSUME UInv, outcome = "running", program' = program, made' = made, NEW g,
         Continues(Len(stack), g) \/ \E k : WaitsFor(Len(stack), g, k),
         Len(g.vals) <= Len(Top.vals), \A k \in 1 .. Len(g.vals) : g.vals[k] = Top.vals[k]
  PROVE  Explained'
<1>1. IInv /\ Explained  BY DEF UInv
<1>2. PICK m, f : m = Len(stack) /\ f = Top  OBVIOUS
<1>3. \A k \in 1 .. Len(f.vals) : f.vals[k] = "null" => HasBlock
  BY <1>1, <1>2, NullsOfTop DEF Explained
<1>4. \A k \in 1 .. Len(g.vals) : g.vals[k] = "null" => HasBlock
  <2>1. Len(f.vals) \in Nat  BY <1>1, <1>2, TopFacts
  <2>2. \A k \in 1 .. Len(g.vals) : k \in 1 .. Len(f.vals)  BY <2>1, <1>2
  <2> QED  BY <1>2, <1>3, <2>2
<1>5. (m \in 1 .. Len(stack) /\ Continues(m, g)) \/ \E k : WaitsFor(m, g, k)
  BY <1>1, <1>2, Running
<1>6. m \in 1 .. Len(stack)  BY <1>1, <1>2, Running
<1>7. NullsExplained'  BY <1>1, <1>4, <1>5, <1>6, NullsStay DEF Explained
<1>8. outcome' = "running"  BY <1>5 DEF Continues, WaitsFor, Survives
<1> QED  BY <1>1, <1>7, <1>8, MadeStays, NotUndefined DEF Explained

LEMMA NextExplained == UInv /\ [Next]_vars => UInv'
<1> SUFFICES ASSUME UInv, [Next]_vars PROVE Explained'
  BY NextOK DEF UInv
<1>1. IInv /\ Explained  BY DEF UInv
<1>2. CASE Quiet  BY <1>2, QuietExplained
<1>3. CASE EndIf
  <2>1. outcome = "running" /\ Grown /\ made' = made /\ Return("load") /\ "load" \in Value
    BY <1>1, <1>3, EndIfShape DEF EndIf, Value
  <2>2. NullsExplained' /\ UndefinedExplained'  BY <1>1, <2>1, ReturnNulls
  <2> QED  BY <1>1, <2>1, <2>2, MadeStays DEF Explained, Grown
<1>4. CASE Call
  <2>1. outcome = "running" /\ Grown /\ made' = made /\ Return("computed") /\ "computed" \in Value
    BY <1>1, <1>4, CallShape DEF Call, Value
  <2>2. NullsExplained' /\ UndefinedExplained'  BY <1>1, <2>1, ReturnNulls
  <2> QED  BY <1>1, <2>1, <2>2, MadeStays DEF Explained, Grown
<1>5. CASE Unbound \/ Not \/ NotImplemented
  <2>1. stack' = << >> /\ program' = program /\ made' = made /\ outcome = "running"
    BY <1>5 DEF Unbound, Not, NotImplemented, At, Reject, Undefined, Stop, Emitted
  <2>2. NullsExplained'
    <3>1. Len(stack') = 0  BY <2>1, EmptySeq
    <3> QED  BY <3>1 DEF NullsExplained
  <2>3. Top.n \in 1 .. Len(program.node)  BY <1>1, <2>1, TopFacts
  <2>4. Not => program.node[Top.n].op = "not"  BY DEF Not, At, Op
  <2>5. Unbound \/ NotImplemented => outcome' # "undefined"
    BY DEF Unbound, NotImplemented, Reject, Stop
  <2>6. UndefinedExplained'  BY <1>5, <2>1, <2>3, <2>4, <2>5, NotUndefined, BlockExplains
  <2> QED  BY <1>1, <2>1, <2>2, <2>6, MadeStays DEF Explained
<1>6. CASE Visit
  <2>1. PICK k \in 1 .. Len(program.node) : WaitsFor(Len(stack), Top, k)
    BY <1>1, <1>6, VisitShape
  <2>2. outcome = "running" /\ program' = program /\ made' = made  BY <1>6 DEF Visit
  <2>3. PICK g : g = Top  OBVIOUS
  <2>4. Len(g.vals) <= Len(Top.vals)  BY <1>1, <2>2, <2>3, TopFacts
  <2> QED  BY <2>1, <2>2, <2>3, <2>4, UpdateExplained
<1>7. CASE Branch
  <2>1. PICK n, f, g : n = Len(blocks) /\ f = Top /\ g = [f EXCEPT !.next = <<n + 2, n + 3>>]
    OBVIOUS
  <2>2. outcome = "running" /\ Continues(Len(stack), g) /\ program' = program /\ made' = made
    BY <1>1, <1>7, <2>1, BranchShape DEF Branch
  <2>3. f \in Frames /\ Len(f.vals) \in Nat  BY <1>1, <2>1, <2>2, TopFacts
  <2>4. g.vals = f.vals  BY <2>1, <2>3 DEF Frames
  <2>5. Len(g.vals) <= Len(f.vals)  BY <2>3, <2>4
  <2> QED  BY <2>1, <2>2, <2>4, <2>5, UpdateExplained
<1>8. CASE Else
  <2>1. PICK f, g : f = Top /\ g = [f EXCEPT !.next = Tail(@)]  OBVIOUS
  <2>2. outcome = "running" /\ Continues(Len(stack), g) /\ program' = program /\ made' = made
    BY <1>1, <1>8, <2>1, ElseShape DEF Else
  <2>3. f = Top /\ f \in Frames /\ Len(f.vals) \in Nat  BY <1>1, <2>1, <2>2, TopFacts
  <2>4. g.vals = f.vals  BY <2>1, <2>3 DEF Frames
  <2>5. Len(g.vals) <= Len(f.vals)  BY <2>3, <2>4
  <2> QED  BY <2>2, <2>3, <2>4, <2>5, UpdateExplained
<1>9. CASE EndFunction
  <2>1. PICK f, g : f = Top /\ g = Resumed  OBVIOUS
  <2>2. /\ outcome = "running" /\ Continues(Len(stack), g) /\ program' = program /\ made' = made
        /\ Len(g.vals) = Len(Kids(f)) /\ Len(f.vals) = Len(Kids(f)) + 1
        /\ \A k \in 1 .. Len(g.vals) : g.vals[k] = f.vals[k]
    BY <1>1, <1>9, <2>1, EndFunctionShape DEF EndFunction
  <2>3. Len(Kids(f)) \in Nat  BY <1>1, <2>1, <2>2, TopFacts
  <2>4. Len(g.vals) <= Len(f.vals)  BY <2>2, <2>3
  <2> QED  BY <2>1, <2>2, <2>4, UpdateExplained
<1>10. CASE Finished \/ UNCHANGED vars
  <2>1. program' = program /\ made' = made /\ stack' = stack /\ outcome' = outcome
    BY <1>10 DEF Finished, vars
  <2>2. NullsExplained'  BY <1>1, <2>1, ProgramOnly DEF Explained, NullsExplained
  <2>3. UndefinedExplained'
    <3>1. NamesCollide' <=> NamesCollide  BY <2>1 DEF NamesCollide, CalleeName, Kids
    <3> QED  BY <1>1, <2>1, <3>1 DEF Explained, UndefinedExplained
  <2> QED  BY <1>1, <2>1, <2>2, <2>3, MadeStays DEF Explained
<1> QED
  BY <1>2, <1>3, <1>4, <1>5, <1>6, <1>7, <1>8, <1>9, <1>10, NameClashExplained,
     GenerateExplained DEF Next, Quiet

LEMMA InitExplained == Init => UInv
<1> SUFFICES ASSUME Init PROVE Explained  BY InitOK DEF UInv
<1>1. PICK f : f = Activation(Len(program.node))  OBVIOUS
<1>2. f.vals = << >> /\ stack = <<f>>  BY <1>1 DEF Activation, Init
<1>3. Len(stack) = 1 /\ stack[1] = f /\ Len(f.vals) = 0  BY <1>2, EmptySeq
<1>4. \A i \in 1 .. Len(stack) : i = 1  BY <1>3
<1>5. NullsExplained  BY <1>3, <1>4 DEF NullsExplained
<1>6. MadeByCall /\ UndefinedExplained
  BY DEF Init, MadeByCall, UndefinedExplained
<1> QED  BY <1>5, <1>6 DEF Explained

(* The generator is lost only in a program that takes a block for a value,  *)
(* uses `!', takes the address of an expression, or gives one name to two   *)
(* instances: in any other program every value it uses is one.              *)
THEOREM UndefinedHasAReason == Spec => []UndefinedExplained
<1>1. UInv => UndefinedExplained  BY DEF UInv, Explained
<1> QED  BY <1>1, InitExplained, NextExplained, PTL DEF Spec
-----------------------------------------------------------------------------
(* Blocks are added, and those there are stay where they are.  The entry of *)
(* a function is the first block it has.                                    *)
IsEntry(b, fn) == b \in Named(fn) /\ \A c \in Named(fn) : b <= c
BlocksGrow ==
  /\ Len(blocks) \in Nat /\ Len(blocks') \in Nat /\ Len(blocks) <= Len(blocks')
  /\ \A b \in 1 .. Len(blocks) : blocks'[b].fn = blocks[b].fn /\ blocks'[b].doms = blocks[b].doms

LEMMA EntryStays ==
  ASSUME BlocksGrow, NEW e, NEW fn, Named(fn) # {}
  PROVE  IsEntry(e, fn)' <=> IsEntry(e, fn)
<1>1. Named(fn) \subseteq Named(fn)'  BY DEF Named, BlocksGrow
<1>2. \A b \in Named(fn)' : b \in Named(fn) \/ Len(blocks) < b  BY DEF Named, BlocksGrow
<1>3. \A b \in Named(fn) : b \in 1 .. Len(blocks)  BY DEF Named
<1>4. \A b \in Named(fn)' : b \in Nat  BY DEF Named, BlocksGrow
<1>5. IsEntry(e, fn)' <=> e \in Named(fn)' /\ \A c \in Named(fn)' : e <= c  BY DEF IsEntry
<1> QED  BY <1>1, <1>2, <1>3, <1>4, <1>5 DEF IsEntry, BlocksGrow

(* The entry of a function is its first block, and there is one. *)
LEMMA TheEntry ==
  ASSUME NEW fn, Len(blocks) \in Nat
  PROVE  /\ Named(fn) # {} => IsEntry(Entry(fn), fn)
         /\ \A d, e : IsEntry(d, fn) /\ IsEntry(e, fn) => d = e
<1>1. Named(fn) \subseteq Nat  BY DEF Named
<1>2. ASSUME Named(fn) # {} PROVE IsEntry(Entry(fn), fn)
  <2>1. PICK b \in Named(fn) : \A c \in Named(fn) : ~ (<<c, b>> \in OpToRel(<, Nat))
    BY <1>1, <1>2, NatLessThanWellFounded, WFMin
  <2>2. \A c \in Named(fn) : ~ (c < b)  BY <1>1, <2>1 DEF OpToRel
  <2>3. \A c \in Named(fn) : b <= c  BY <1>1, <2>2
  <2> QED  BY <2>1, <2>3 DEF Entry, IsEntry
<1>3. \A d, e : IsEntry(d, fn) /\ IsEntry(e, fn) => d = e  BY <1>1 DEF IsEntry
<1> QED  BY <1>2, <1>3

(* A function is begun, or gone on with, in its entry. *)
LEMMA GenerateEntry ==
  ASSUME IInv, Generate, NEW n, n = Len(blocks), NEW name, name = CalleeName(Top)
  PROVE  /\ BlocksGrow
         /\ \E e : /\ block' = e /\ IsEntry(e, name)'
                   /\ IsEntry(e, name) \/ (e = n + 1 /\ \A d : IsEntry(d, name)' => d = e)
<1>1. /\ n \in Nat /\ Len(blocks') = n + 1 /\ \A b \in 1 .. n : blocks'[b] = blocks[b]
      /\ blocks'[n + 1] = Block(name, {n + 1})
  BY GenerateShape
<1>2. BlocksGrow  BY <1>1 DEF BlocksGrow
<1>3. block' = IF Named(name) = {} THEN n + 1 ELSE Entry(name)  BY DEF Generate
<1>4. blocks'[n + 1].fn = name  BY <1>1 DEF Block
<1>5. n + 1 \in Named(name)' /\ \A b \in Named(name)' : b \in Named(name) \/ b = n + 1
  BY <1>1, <1>4 DEF Named
<1>6. IsEntry(n + 1, name)' <=> n + 1 \in Named(name)' /\ \A c \in Named(name)' : n + 1 <= c
  BY DEF IsEntry
<1>7. CASE Named(name) = {}
  <2>1. Named(name)' = {n + 1} /\ block' = n + 1  BY <1>3, <1>5, <1>7
  <2>2. \A e : IsEntry(e, name)' => e \in Named(name)'  BY DEF IsEntry
  <2>3. n + 1 <= n + 1  BY <1>1
  <2>4. IsEntry(n + 1, name)'  BY <1>6, <2>1, <2>3
  <2>5. PICK e : e = n + 1  OBVIOUS
  <2>6. IsEntry(e, name)'  BY <2>4, <2>5
  <2> QED  BY <1>2, <2>1, <2>2, <2>5, <2>6
<1>8. CASE Named(name) # {}
  <2>1. PICK e : e = Entry(name)  OBVIOUS
  <2>2. IsEntry(e, name) /\ block' = e  BY <1>1, <1>3, <1>8, <2>1, TheEntry
  <2>3. IsEntry(e, name)'  BY <1>2, <1>8, <2>2, EntryStays
  <2> QED  BY <1>2, <2>2, <2>3
<1> QED  BY <1>7, <1>8

LEMMA LastBlocksGrow ==
  ASSUME IInv, blocks' = Ended(block) \/ blocks' = blocks
  PROVE  BlocksGrow /\ Len(blocks') = Len(blocks)
<1>1. Len(blocks) \in Nat  BY LenProperties DEF IInv, TypeOK
<1> QED  BY <1>1, EndedFacts DEF BlocksGrow
-----------------------------------------------------------------------------
(* Who ends a block: place 0 is the builder, place i the i-th activation.   *)
(* A block has the terminators it should have, except for one that each of  *)
(* its places is still going to write.                                      *)
Owns(f, b) == f.site.block = b \/ \E k \in DOMAIN f.next : f.next[k] = b
OwnsAt(p, b) == IF p = 0 THEN b = block ELSE p \in 1 .. Len(stack) /\ Owns(stack[p], b)
Places(b) == {p \in Nat : OwnsAt(p, b)}
Counted(b) ==
  IsFiniteSet(Places(b)) /\ blocks[b].ends + Cardinality(Places(b)) = Terminators(b)
Apart(f) == Len(f.next) = 2 => f.next[1] # f.next[2]

(* Only the entry of a function is dominated by nothing else, and every     *)
(* function an instance has been given has an entry.                        *)
Begun == \A c \in DOMAIN made : \E b \in 1 .. Len(blocks) : blocks[b].fn = made[c]
Kin ==
  /\ \A b \in 1 .. Len(blocks) : b \in blocks[b].doms
  /\ \A b, fn : IsEntry(b, fn) /\ fn # Construct => blocks[b].doms = {b}
  /\ Begun

Owned ==
  /\ \A b \in 1 .. Len(blocks) : Counted(b)
  /\ \A i \in 1 .. Len(stack) : Apart(stack[i])
  /\ Kin
Ends ==
  /\ outcome = "running" => Owned
  /\ outcome = "done" => \A b \in 1 .. Len(blocks) : blocks[b].ends = Terminators(b)
OInv == BInv /\ Ends

(* How the places change with the frames. *)
LEMMA PlacesAfter ==
  ASSUME IInv, outcome = "running", NEW m \in 1 .. Len(stack), NEW g,
         Continues(m, g) \/ \E k : WaitsFor(m, g, k), NEW b \in Nat \ {0}
  PROVE  \A p \in Nat \ {0} :
           /\ p < m => (OwnsAt(p, b)' <=> OwnsAt(p, b))
           /\ p = m => (OwnsAt(p, b)' <=> Owns(g, b))
           /\ m < p => ~OwnsAt(p, b)'
<1>1. Len(stack) \in Nat /\ m \in Nat  BY Running
<1>2. /\ stack'[m] = g /\ \A i \in 1 .. m - 1 : stack'[i] = stack[i]
      /\ Len(stack') = m \/ (Len(stack') = m + 1 /\ ~Owns(stack'[m + 1], b))
  <2>1. CASE Continues(m, g)  BY <2>1 DEF Continues, Survives
  <2>2. CASE \E k : WaitsFor(m, g, k)
    <3>1. PICK k : WaitsFor(m, g, k)  BY <2>2
    <3>2. Activation(k).next = << >> /\ Activation(k).site.block = 0
      BY DEF Activation, NoSite, Null
    <3>3. ~Owns(Activation(k), b)  BY <3>2 DEF Owns
    <3>4. stack'[m + 1] = Activation(k)  BY <3>1 DEF WaitsFor
    <3> QED  BY <3>1, <3>3, <3>4 DEF WaitsFor, Survives
  <2> QED  BY <2>1, <2>2
<1> SUFFICES ASSUME NEW p \in Nat \ {0}
             PROVE  /\ p < m => (OwnsAt(p, b)' <=> OwnsAt(p, b))
                    /\ p = m => (OwnsAt(p, b)' <=> Owns(g, b))
                    /\ m < p => ~OwnsAt(p, b)'
  OBVIOUS
<1>3. CASE p < m
  <2>1. p \in 1 .. Len(stack) /\ p \in 1 .. Len(stack') /\ p \in 1 .. m - 1
    BY <1>1, <1>2, <1>3
  <2>2. stack'[p] = stack[p]  BY <1>2, <2>1
  <2>3. OwnsAt(p, b)' <=> Owns(stack'[p], b)  BY <2>1 DEF OwnsAt, Owns
  <2>4. OwnsAt(p, b) <=> Owns(stack[p], b)  BY <2>1 DEF OwnsAt
  <2>5. OwnsAt(p, b)' <=> OwnsAt(p, b)  BY <2>2, <2>3, <2>4
  <2> QED  BY <2>5, <1>1, <1>3
<1>4. CASE p = m
  <2>1. p \in 1 .. Len(stack')  BY <1>1, <1>2, <1>4
  <2>2. OwnsAt(p, b)' <=> Owns(stack'[p], b)  BY <2>1 DEF OwnsAt, Owns
  <2> QED  BY <2>2, <1>1, <1>2, <1>4
<1>5. CASE m < p
  <2>1. CASE p \in 1 .. Len(stack')
    <3>1. p = m + 1 /\ Len(stack') = m + 1  BY <2>1, <1>1, <1>2, <1>5
    <3>2. OwnsAt(p, b)' <=> Owns(stack'[p], b)  BY <2>1 DEF OwnsAt, Owns
    <3> QED  BY <3>1, <3>2, <1>1, <1>2
  <2>2. CASE ~ (p \in 1 .. Len(stack'))
    <3>1. ~OwnsAt(p, b)'  BY <2>2 DEF OwnsAt
    <3> QED  BY <3>1, <1>1, <1>5
  <2> QED  BY <2>1, <2>2
<1> QED  BY <1>1, <1>3, <1>4, <1>5

LEMMA PlacesBefore ==
  ASSUME IInv, outcome = "running", NEW b
  PROVE  /\ \A p \in Nat : Len(stack) < p => ~OwnsAt(p, b)
         /\ OwnsAt(0, b) <=> b = block
         /\ OwnsAt(Len(stack), b) <=> Owns(Top, b)
<1>1. Len(stack) \in Nat \ {0} /\ Len(stack) \in 1 .. Len(stack)  BY Running
<1>2. ASSUME NEW p \in Nat, Len(stack) < p PROVE ~OwnsAt(p, b)
  <2>1. p # 0 /\ ~ (p \in 1 .. Len(stack))  BY <1>1, <1>2
  <2> QED  BY <2>1 DEF OwnsAt
<1>3. OwnsAt(0, b) <=> b = block  BY DEF OwnsAt
<1>4. OwnsAt(Len(stack), b) <=> Owns(Top, b)  BY <1>1 DEF OwnsAt, Top
<1> QED  BY <1>2, <1>3, <1>4

LEMMA OwnsNothing ==
  ASSUME IInv, outcome = "running", ~Generating(Top), Top.next = << >>, NEW b \in Nat \ {0}
  PROVE  ~Owns(Top, b)
BY DEF Owns, Generating, Null

(* To return leaves the places of the others as they are. *)
LEMMA PlacesAfterReturn ==
  ASSUME IInv, outcome = "running", Grown, NEW v \in Value, Return(v), outcome' = "running"
  PROVE  /\ \A b \in Nat \ {0} : \A p \in Nat \ {0} :
              OwnsAt(p, b)' <=> OwnsAt(p, b) /\ p # Len(stack)
         /\ \A i \in 1 .. Len(stack') :
              i \in 1 .. Len(stack) /\ stack'[i].next = stack[i].next
<1>1. PICK m, f, g : m = Len(stack) - 1 /\ f = stack[m] /\ g = Answering(v)  OBVIOUS
<1>2. Len(stack) > 1 /\ Continues(m, g)
  BY <1>1, Returning DEF Stopped
<1>3. Len(stack) \in Nat /\ m \in Nat \ {0} /\ m \in 1 .. Len(stack) /\ Len(stack) = m + 1
  BY <1>1, <1>2, Running
<1>4. Len(stack') = m /\ stack'[m] = g /\ \A i \in 1 .. m - 1 : stack'[i] = stack[i]
  BY <1>2 DEF Continues, Survives
<1>5. g.next = f.next /\ g.site = f.site  BY <1>1, <1>2, AnsweringFacts
<1>6. ASSUME NEW b \in Nat \ {0}, NEW p \in Nat \ {0}
      PROVE  OwnsAt(p, b)' <=> OwnsAt(p, b) /\ p # Len(stack)
  <2>1. /\ p < m => (OwnsAt(p, b)' <=> OwnsAt(p, b))
        /\ p = m => (OwnsAt(p, b)' <=> Owns(g, b))
        /\ m < p => ~OwnsAt(p, b)'
    BY <1>2, <1>3, PlacesAfter
  <2>2. OwnsAt(m, b) <=> Owns(f, b)  BY <1>1, <1>3 DEF OwnsAt
  <2>3. Owns(g, b) <=> Owns(f, b)  BY <1>5 DEF Owns
  <2>4. Len(stack) < p => ~OwnsAt(p, b)  BY PlacesBefore
  <2>5. p < m \/ p = m \/ p = Len(stack) \/ Len(stack) < p  BY <1>3
  <2> QED  BY <1>3, <2>1, <2>2, <2>3, <2>4, <2>5
<1>7. ASSUME NEW i \in 1 .. Len(stack')
      PROVE  i \in 1 .. Len(stack) /\ stack'[i].next = stack[i].next
  <2>1. i \in 1 .. m - 1 \/ i = m  BY <1>3, <1>4
  <2>2. i \in 1 .. Len(stack)  BY <1>3, <1>4
  <2> QED  BY <1>1, <1>4, <1>5, <2>1, <2>2
<1> QED  BY <1>6, <1>7

(* The blocks of a frame are apart when it had them already. *)
LEMMA ApartStays ==
  ASSUME Owned,
         \A i \in 1 .. Len(stack') :
           \/ i \in 1 .. Len(stack) /\ stack'[i].next = stack[i].next
           \/ stack'[i].next[1] # stack'[i].next[2]
           \/ Len(stack'[i].next) # 2
  PROVE  \A i \in 1 .. Len(stack') : Apart(stack[i])'
BY DEF Owned, Apart

(* Blocks that are not there yet are nobody's. *)
LEMMA OwnedExists ==
  ASSUME IInv, outcome = "running", NEW b \in Nat \ {0}, NEW p \in Nat, OwnsAt(p, b)
  PROVE  b \in 1 .. Len(blocks)
<1>1. block \in 1 .. Len(blocks) /\ Len(blocks) \in Nat  BY Running
<1>2. CASE p = 0  BY <1>1, <1>2 DEF OwnsAt
<1>3. CASE p # 0
  <2>1. p \in 1 .. Len(stack) /\ Owns(stack[p], b)  BY <1>3 DEF OwnsAt
  <2>2. PICK f : f = stack[p]  OBVIOUS
  <2>3. f \in Frames /\ f.next \in Seq(1 .. Len(blocks))  BY <2>1, <2>2, FrameFacts
  <2>4. f.site.block \in 0 .. Len(blocks)  BY <2>3 DEF Frames
  <2>5. CASE f.site.block = b  BY <2>4, <2>5, <1>1
  <2>6. CASE \E k \in DOMAIN f.next : f.next[k] = b
    BY <2>3, <2>6, ElementOfSeq, LenProperties
  <2> QED  BY <2>1, <2>2, <2>5, <2>6 DEF Owns
<1> QED  BY <1>2, <1>3

LEMMA BuilderAfter == ASSUME NEW b PROVE OwnsAt(0, b)' <=> b = block'
BY DEF OwnsAt

(* What Terminators says of a block, and when it says the same again. *)
LEMMA TerminatorsAre ==
  ASSUME NEW b \in 1 .. Len(blocks), NEW fn, fn = blocks[b].fn, Len(blocks) \in Nat
  PROVE  /\ fn = Construct \/ blocks[b].doms # {b} => Terminators(b) = 1
         /\ fn # Construct /\ blocks[b].doms = {b} =>
              Terminators(b) = IF IsEntry(b, fn) THEN Cardinality(Bodies(fn)) ELSE 0
<1>1. b \in Named(fn) /\ Named(fn) \subseteq 1 .. Len(blocks)  BY DEF Named
<1>2. \A a \in 1 .. Len(blocks) : a < b <=> ~ (b <= a)  OBVIOUS
<1>3. IsEntry(b, fn) <=> ~ \E a \in Named(fn) : a < b  BY <1>1, <1>2 DEF IsEntry
<1> QED  BY <1>3 DEF Terminators

LEMMA TerminatorsStay ==
  ASSUME BlocksGrow, NEW b \in 1 .. Len(blocks), NEW fn, fn = blocks[b].fn,
         IsEntry(b, fn) => Bodies(fn)' = Bodies(fn)
  PROVE  Terminators(b)' = Terminators(b)
<1>1. PICK doms : doms = blocks[b].doms  OBVIOUS
<1>2. /\ blocks'[b].fn = fn /\ blocks'[b].doms = doms
      /\ b \in 1 .. Len(blocks') /\ Len(blocks) \in Nat /\ Len(blocks') \in Nat
  BY <1>1 DEF BlocksGrow
<1>3. b \in Named(fn)  BY <1>1 DEF Named
<1>4. IsEntry(b, fn)' <=> IsEntry(b, fn)  BY <1>3, EntryStays
<1>5. /\ fn = Construct \/ doms # {b} => Terminators(b) = 1
      /\ fn # Construct /\ doms = {b} =>
           Terminators(b) = IF IsEntry(b, fn) THEN Cardinality(Bodies(fn)) ELSE 0
  BY <1>1, <1>2, TerminatorsAre
<1>6. \A a \in 1 .. Len(blocks') : a < b <=> ~ (b <= a)  BY <1>2
<1>7. IsEntry(b, fn)' <=> ~ \E a \in Named(fn)' : a < b
  <2>1. b \in Named(fn)' /\ Named(fn)' \subseteq 1 .. Len(blocks')  BY <1>2 DEF Named
  <2>2. IsEntry(b, fn)' <=> b \in Named(fn)' /\ \A c \in Named(fn)' : b <= c  BY DEF IsEntry
  <2> QED  BY <2>1, <2>2, <1>6
<1>8. Terminators(b)' = IF fn = Construct \/ doms # {b} THEN 1
                        ELSE IF \E a \in Named(fn)' : a < b THEN 0
                        ELSE Cardinality(Bodies(fn)')
  BY <1>2 DEF Terminators, Named, Bodies
<1>9. CASE fn = Construct \/ doms # {b}  BY <1>5, <1>8, <1>9
<1>10. CASE fn # Construct /\ doms = {b}
  <2>1. Terminators(b)' = IF IsEntry(b, fn) THEN Cardinality(Bodies(fn)') ELSE 0
    BY <1>4, <1>7, <1>8, <1>10
  <2>2. CASE IsEntry(b, fn)  BY <2>1, <2>2, <1>5, <1>10
  <2>3. CASE ~IsEntry(b, fn)  BY <2>1, <2>3, <1>5, <1>10
  <2> QED  BY <2>2, <2>3
<1> QED  BY <1>9, <1>10

(* How a block stays counted: its places are the same; one of them ends it; *)
(* one of them hands it on; one is new, and so is what it is to end.        *)
LEMMA PlacesCounted ==
  ASSUME IInv, NEW b \in 1 .. Len(blocks), Counted(b)
  PROVE  /\ IsFiniteSet(Places(b)) /\ blocks[b].ends \in Nat /\ Cardinality(Places(b)) \in Nat
         /\ blocks[b].ends + Cardinality(Places(b)) = Terminators(b)
<1>1. blocks[b] \in Blocks  BY ElementOfSeq DEF IInv, TypeOK
<1>2. IsFiniteSet(Places(b)) /\ blocks[b].ends + Cardinality(Places(b)) = Terminators(b)
  BY DEF Counted
<1>3. Cardinality(Places(b)) \in Nat  BY <1>2, FS_CardinalityType
<1> QED  BY <1>1, <1>2, <1>3 DEF Blocks

LEMMA CountStays ==
  ASSUME IInv, NEW b \in 1 .. Len(blocks), Counted(b), blocks'[b].ends = blocks[b].ends,
         Terminators(b)' = Terminators(b), \A p \in Nat : OwnsAt(p, b)' <=> OwnsAt(p, b)
  PROVE  Counted(b)'
<1>1. Places(b)' = Places(b)  BY DEF Places
<1>2. IsFiniteSet(Places(b)) /\ blocks[b].ends + Cardinality(Places(b)) = Terminators(b)
  BY DEF Counted
<1> QED  BY <1>1, <1>2 DEF Counted

LEMMA CountEnded ==
  ASSUME IInv, NEW b \in 1 .. Len(blocks), Counted(b), blocks'[b].ends = blocks[b].ends + 1,
         Terminators(b)' = Terminators(b), NEW o \in Nat, OwnsAt(o, b),
         \A p \in Nat : OwnsAt(p, b)' <=> OwnsAt(p, b) /\ p # o
  PROVE  Counted(b)'
<1>1. Places(b)' = Places(b) \ {o} /\ o \in Places(b)  BY DEF Places
<1>2. PICK c : c = Cardinality(Places(b))  OBVIOUS
<1>3. /\ IsFiniteSet(Places(b)) /\ blocks[b].ends \in Nat /\ c \in Nat
      /\ blocks[b].ends + c = Terminators(b)
  BY <1>2, PlacesCounted
<1>4. IsFiniteSet(Places(b)') /\ Cardinality(Places(b)') = c - 1
  BY <1>1, <1>2, <1>3, FS_RemoveElement
<1>5. blocks'[b].ends + Cardinality(Places(b)') = Terminators(b)  BY <1>3, <1>4
<1> QED  BY <1>4, <1>5 DEF Counted

LEMMA CountMoved ==
  ASSUME IInv, NEW b \in 1 .. Len(blocks), Counted(b), blocks'[b].ends = blocks[b].ends,
         Terminators(b)' = Terminators(b),
         NEW o \in Nat, OwnsAt(o, b), NEW q \in Nat, ~OwnsAt(q, b),
         \A p \in Nat : OwnsAt(p, b)' <=> (OwnsAt(p, b) /\ p # o) \/ p = q
  PROVE  Counted(b)'
<1>1. Places(b)' = (Places(b) \ {o}) \cup {q} /\ o \in Places(b) /\ q \notin Places(b)
  BY DEF Places
<1>2. PICK c, S : c = Cardinality(Places(b)) /\ S = Places(b) \ {o}  OBVIOUS
<1>3. /\ IsFiniteSet(Places(b)) /\ blocks[b].ends \in Nat /\ c \in Nat
      /\ blocks[b].ends + c = Terminators(b)
  BY <1>2, PlacesCounted
<1>4. IsFiniteSet(S) /\ Cardinality(S) = c - 1  BY <1>1, <1>2, <1>3, FS_RemoveElement
<1>5. q \notin S /\ Places(b)' = S \cup {q}  BY <1>1, <1>2
<1>6. IsFiniteSet(Places(b)') /\ Cardinality(Places(b)') = c - 1 + 1
  BY <1>4, <1>5, FS_AddElement
<1>7. blocks'[b].ends + Cardinality(Places(b)') = Terminators(b)  BY <1>3, <1>6
<1> QED  BY <1>6, <1>7 DEF Counted

LEMMA CountTaken ==
  ASSUME IInv, NEW b \in 1 .. Len(blocks), Counted(b), blocks'[b].ends = blocks[b].ends,
         Terminators(b)' = Terminators(b) + 1, NEW q \in Nat, ~OwnsAt(q, b),
         \A p \in Nat : OwnsAt(p, b)' <=> OwnsAt(p, b) \/ p = q
  PROVE  Counted(b)'
<1>1. Places(b)' = Places(b) \cup {q} /\ q \notin Places(b)  BY DEF Places
<1>2. PICK c : c = Cardinality(Places(b))  OBVIOUS
<1>3. /\ IsFiniteSet(Places(b)) /\ blocks[b].ends \in Nat /\ c \in Nat
      /\ blocks[b].ends + c = Terminators(b)
  BY <1>2, PlacesCounted
<1>4. IsFiniteSet(Places(b)') /\ Cardinality(Places(b)') = c + 1
  BY <1>1, <1>2, <1>3, FS_AddElement
<1>5. blocks'[b].ends + Cardinality(Places(b)') = Terminators(b) + 1  BY <1>3, <1>4
<1> QED  BY <1>4, <1>5 DEF Counted

(* New blocks are nobody's, or one place's. *)
LEMMA CountOne ==
  ASSUME NEW b, blocks'[b].ends = 0, Terminators(b)' = 1,
         NEW o \in Nat, \A p \in Nat : OwnsAt(p, b)' <=> p = o
  PROVE  Counted(b)'
<1>1. Places(b)' = {o}  BY DEF Places
<1>2. IsFiniteSet(Places(b)') /\ Cardinality(Places(b)') = 1  BY <1>1, FS_Singleton
<1>3. blocks'[b].ends + Cardinality(Places(b)') = 1  BY <1>2
<1> QED  BY <1>2, <1>3 DEF Counted

LEMMA CountNone ==
  ASSUME NEW b, blocks'[b].ends = 0, Terminators(b)' = 0, \A p \in Nat : ~OwnsAt(p, b)'
  PROVE  Counted(b)'
<1>1. Places(b)' = {}  BY DEF Places
<1>2. IsFiniteSet(Places(b)') /\ Cardinality(Places(b)') = 0  BY <1>1, FS_EmptySet
<1>3. blocks'[b].ends + Cardinality(Places(b)') = 0  BY <1>2
<1> QED  BY <1>2, <1>3 DEF Counted

(* What was the entry of a function stays it. *)
LEMMA KinGrows ==
  ASSUME BlocksGrow, Kin, Begun',
         \A b \in 1 .. Len(blocks') \ 1 .. Len(blocks) :
           /\ b \in blocks'[b].doms
           /\ \A fn : IsEntry(b, fn)' => blocks'[b].doms = {b}
  PROVE  Kin'
<1>1. ASSUME NEW b \in 1 .. Len(blocks') PROVE b \in blocks'[b].doms
  <2>1. CASE b \in 1 .. Len(blocks)  BY <2>1 DEF Kin, BlocksGrow
  <2> QED  BY <2>1
<1>2. ASSUME NEW b, NEW fn, IsEntry(b, fn)', fn # Construct PROVE blocks'[b].doms = {b}
  <2>1. b \in 1 .. Len(blocks') /\ blocks'[b].fn = fn  BY <1>2 DEF IsEntry, Named
  <2>2. CASE b \in 1 .. Len(blocks)
    <3>1. blocks[b].fn = fn /\ blocks'[b].doms = blocks[b].doms  BY <2>1, <2>2 DEF BlocksGrow
    <3>2. b \in Named(fn)  BY <3>1, <2>2 DEF Named
    <3>3. IsEntry(b, fn)  BY <3>2, <1>2, EntryStays
    <3> QED  BY <3>1, <3>3, <1>2 DEF Kin
  <2>3. CASE b \notin 1 .. Len(blocks)  BY <1>2, <2>1, <2>3
  <2> QED  BY <2>2, <2>3
<1> QED  BY <1>1, <1>2 DEF Kin

LEMMA KinStays ==
  ASSUME IInv, Kin, UNCHANGED made, blocks' = Ended(block) \/ blocks' = blocks
  PROVE  Kin' /\ \A b \in 1 .. Len(blocks) : Terminators(b)' = Terminators(b)
<1>1. BlocksGrow /\ Len(blocks') = Len(blocks)  BY LastBlocksGrow
<1>2. \A fn : Bodies(fn)' = Bodies(fn)  BY DEF Bodies
<1>3. ASSUME NEW b \in 1 .. Len(blocks) PROVE Terminators(b)' = Terminators(b)
  <2>1. PICK fn : fn = blocks[b].fn  OBVIOUS
  <2> QED  BY <2>1, <1>1, <1>2, TerminatorsStay
<1>4. Begun  BY DEF Kin
<1>5. Begun'  BY <1>1, <1>4 DEF Begun, BlocksGrow
<1>6. Kin'  BY <1>1, <1>5, KinGrows
<1> QED  BY <1>3, <1>6
-----------------------------------------------------------------------------
(* Steps that end nothing and move nothing. *)
LEMMA NothingMoves ==
  ASSUME IInv, Owned, UNCHANGED <<block, blocks, made>>,
         \A b \in Nat \ {0} : \A p \in Nat \ {0} : OwnsAt(p, b)' <=> OwnsAt(p, b),
         \A i \in 1 .. Len(stack') : Apart(stack[i])'
  PROVE  Owned'
<1>1. Kin' /\ \A b \in 1 .. Len(blocks) : Terminators(b)' = Terminators(b)
  BY KinStays DEF Owned
<1>2. ASSUME NEW b \in 1 .. Len(blocks') PROVE Counted(b)'
  <2>1. b \in 1 .. Len(blocks) /\ Len(blocks) \in Nat  BY LenProperties DEF IInv, TypeOK
  <2>2. b \in Nat \ {0}  BY <2>1
  <2>3. OwnsAt(0, b)' <=> OwnsAt(0, b)  BY BuilderAfter DEF OwnsAt
  <2>4. \A p \in Nat : OwnsAt(p, b)' <=> OwnsAt(p, b)  BY <2>2, <2>3
  <2>5. Counted(b)  BY <2>1 DEF Owned
  <2> QED  BY <1>1, <2>1, <2>4, <2>5, CountStays
<1> QED  BY <1>1, <1>2 DEF Owned

LEMMA QuietOwned == ASSUME IInv, Owned, Quiet, outcome' = "running" PROVE Owned'
<1>1. /\ outcome = "running" /\ Grown /\ UNCHANGED <<block, blocks>>
      /\ ~Generating(Top) /\ Top.next = << >>
      /\ \E v \in Value : Return(v)
  <2>1. ~Stopped  BY DEF Stopped
  <2> QED  BY <2>1, QuietShape
<1>2. PICK v \in Value : Return(v)  BY <1>1
<1>3. /\ \A b \in Nat \ {0} : \A p \in Nat \ {0} :
           OwnsAt(p, b)' <=> OwnsAt(p, b) /\ p # Len(stack)
      /\ \A i \in 1 .. Len(stack') :
           i \in 1 .. Len(stack) /\ stack'[i].next = stack[i].next
  BY <1>1, <1>2, PlacesAfterReturn
<1>4. \A b \in Nat \ {0} : ~OwnsAt(Len(stack), b)
  BY <1>1, OwnsNothing, PlacesBefore
<1>5. \A b \in Nat \ {0} : \A p \in Nat \ {0} : OwnsAt(p, b)' <=> OwnsAt(p, b)
  BY <1>3, <1>4
<1>6. \A i \in 1 .. Len(stack') : Apart(stack[i])'  BY <1>3, ApartStays
<1>7. UNCHANGED made
  BY DEF Quiet, Constant, LoadSymbol, StoreSymbol, Operator, AddressOf, ImmediateContext, Lambda,
     Emitted
<1> QED  BY <1>1, <1>5, <1>6, <1>7, NothingMoves

LEMMA CallOwned == ASSUME IInv, Owned, Call, outcome' = "running" PROVE Owned'
<1>1. /\ outcome = "running" /\ Grown /\ Op(Top) = "call" /\ Complete(Top)
      /\ Return("computed") /\ "computed" \in Value /\ block' = block
      /\ blocks' = (IF Len(stack) = 1 THEN Ended(block) ELSE blocks)
  BY CallShape DEF Call, Value
<1>2. ~Generating(Top) /\ Top.next = << >>  BY <1>1, NotPutOff, TopFacts DEF FrameOK
<1>3. /\ \A b \in Nat \ {0} : \A p \in Nat \ {0} :
           OwnsAt(p, b)' <=> OwnsAt(p, b) /\ p # Len(stack)
      /\ \A i \in 1 .. Len(stack') :
           i \in 1 .. Len(stack) /\ stack'[i].next = stack[i].next
  BY <1>1, PlacesAfterReturn
<1>4. \A b \in Nat \ {0} : ~OwnsAt(Len(stack), b)
  BY <1>1, <1>2, OwnsNothing, PlacesBefore
<1>5. \A b \in Nat \ {0} : \A p \in Nat \ {0} : OwnsAt(p, b)' <=> OwnsAt(p, b)
  BY <1>3, <1>4
<1>6. \A i \in 1 .. Len(stack') : Apart(stack[i])'  BY <1>3, ApartStays
<1>7. blocks' = blocks
  <2>1. Rest # << >>  BY <1>1 DEF Return, Stop
  <2>2. Len(stack) # 1  BY <1>1, <2>1, Running, StackFacts
  <2> QED  BY <1>1, <2>2
<1>8. UNCHANGED made  BY DEF Call
<1> QED  BY <1>1, <1>5, <1>6, <1>7, <1>8, NothingMoves

LEMMA VisitOwned == ASSUME IInv, Owned, Visit PROVE Owned'
<1>1. PICK k \in 1 .. Len(program.node) : WaitsFor(Len(stack), Top, k)  BY VisitShape
<1>2. outcome = "running" /\ UNCHANGED <<block, blocks, made>>  BY DEF Visit
<1>3. PICK m, f : m = Len(stack) /\ f = Top  OBVIOUS
<1>4. m \in 1 .. Len(stack) /\ m \in Nat \ {0} /\ f = stack[m]  BY <1>2, <1>3, Running DEF Top
<1>5. WaitsFor(m, f, k)  BY <1>1, <1>3
<1>6. ASSUME NEW b \in Nat \ {0}, NEW p \in Nat \ {0}
      PROVE  OwnsAt(p, b)' <=> OwnsAt(p, b)
  <2>1. /\ p < m => (OwnsAt(p, b)' <=> OwnsAt(p, b))
        /\ p = m => (OwnsAt(p, b)' <=> Owns(f, b))
        /\ m < p => ~OwnsAt(p, b)'
    BY <1>2, <1>4, <1>5, PlacesAfter
  <2>2. /\ m < p => ~OwnsAt(p, b)
        /\ OwnsAt(m, b) <=> Owns(f, b)
    BY <1>2, <1>3, PlacesBefore
  <2>3. p < m \/ p = m \/ m < p  BY <1>4
  <2> QED  BY <2>1, <2>2, <2>3
<1>7. \A i \in 1 .. Len(stack') : Apart(stack[i])'
  <2>1. /\ Len(stack') = m + 1 /\ stack'[m] = f /\ \A i \in 1 .. m - 1 : stack'[i] = stack[i]
        /\ stack'[m + 1] = Activation(k)
    BY <1>5 DEF WaitsFor, Survives
  <2>2. stack'[m + 1].next = << >>  BY <2>1 DEF Activation
  <2>3. Len(stack'[m + 1].next) # 2  BY <2>2, EmptySeq
  <2>4. \A i \in 1 .. m + 1 : i \in 1 .. m - 1 \/ i = m \/ i = m + 1  BY <1>4
  <2>5. \A i \in 1 .. m - 1 : i \in 1 .. Len(stack)  BY <1>3, <1>4
  <2> QED  BY <1>4, <2>1, <2>3, <2>4, <2>5, ApartStays
<1> QED  BY <1>2, <1>6, <1>7, NothingMoves

(* The builder ends its block and takes over one from place m, which may be *)
(* the same one.                                                            *)
LEMMA BuilderMoves ==
  ASSUME IInv, Owned, outcome = "running", NEW m \in Nat \ {0}, NEW c \in 1 .. Len(blocks),
         OwnsAt(m, c), block' = c, blocks' = Ended(block), UNCHANGED made,
         \A b \in Nat \ {0} : \A p \in Nat \ {0} :
           OwnsAt(p, b)' <=> OwnsAt(p, b) /\ (p # m \/ b # c),
         \A i \in 1 .. Len(stack') : Apart(stack[i])'
  PROVE  Owned'
<1>1. block \in 1 .. Len(blocks) /\ Len(blocks) \in Nat  BY Running
<1>2. Kin' /\ \A b \in 1 .. Len(blocks) : Terminators(b)' = Terminators(b)
  BY KinStays DEF Owned
<1>3. Len(blocks') = Len(blocks) /\ \A b \in 1 .. Len(blocks) :
        blocks'[b].ends = IF b = block THEN blocks[b].ends + 1 ELSE blocks[b].ends
  BY EndedFacts
<1>4. ASSUME NEW b \in 1 .. Len(blocks') PROVE Counted(b)'
  <2>1. b \in 1 .. Len(blocks) /\ b \in Nat \ {0}  BY <1>1, <1>3
  <2>2. OwnsAt(0, b)' <=> b = c  BY BuilderAfter
  <2>3. OwnsAt(0, b) <=> b = block  BY DEF OwnsAt
  <2>4. \A p \in Nat \ {0} : OwnsAt(p, b)' <=> OwnsAt(p, b) /\ (p # m \/ b # c)  BY <2>1
  <2>5. Counted(b) /\ Terminators(b)' = Terminators(b)  BY <2>1, <1>2 DEF Owned
  <2>6. PICK o : o = 0  OBVIOUS
  <2>7. CASE b = block /\ b = c
    <3>1. \A p \in Nat : OwnsAt(p, b)' <=> OwnsAt(p, b) /\ p # m
      BY <2>2, <2>3, <2>4, <2>7
    <3>2. blocks'[b].ends = blocks[b].ends + 1  BY <2>1, <2>7, <1>3
    <3>3. OwnsAt(m, b)  BY <2>7
    <3> QED  BY <2>1, <2>5, <3>1, <3>2, <3>3, CountEnded
  <2>8. CASE b = block /\ b # c
    <3>1. \A p \in Nat : OwnsAt(p, b)' <=> OwnsAt(p, b) /\ p # o
      BY <2>2, <2>3, <2>4, <2>6, <2>8
    <3>2. blocks'[b].ends = blocks[b].ends + 1  BY <2>1, <2>8, <1>3
    <3>3. OwnsAt(o, b) /\ o \in Nat  BY <2>3, <2>6, <2>8
    <3> QED  BY <2>1, <2>5, <3>1, <3>2, <3>3, CountEnded
  <2>9. CASE b # block /\ b = c
    <3>1. \A p \in Nat : OwnsAt(p, b)' <=> (OwnsAt(p, b) /\ p # m) \/ p = o
      BY <2>2, <2>3, <2>4, <2>6, <2>9
    <3>2. blocks'[b].ends = blocks[b].ends  BY <2>1, <2>9, <1>3
    <3>3. OwnsAt(m, b) /\ ~OwnsAt(o, b) /\ o \in Nat  BY <2>3, <2>6, <2>9
    <3> QED  BY <2>1, <2>5, <3>1, <3>2, <3>3, CountMoved
  <2>10. CASE b # block /\ b # c
    <3>1. \A p \in Nat : OwnsAt(p, b)' <=> OwnsAt(p, b)  BY <2>2, <2>3, <2>4, <2>10
    <3>2. blocks'[b].ends = blocks[b].ends  BY <2>1, <2>10, <1>3
    <3> QED  BY <2>1, <2>5, <3>1, <3>2, CountStays
  <2> QED  BY <2>7, <2>8, <2>9, <2>10
<1> QED  BY <1>2, <1>4 DEF Owned

LEMMA EndIfOwned == ASSUME IInv, Owned, EndIf, outcome' = "running" PROVE Owned'
<1>1. /\ outcome = "running" /\ Grown /\ Op(Top) = "if" /\ Len(Top.next) = 1
      /\ blocks' = Ended(block) /\ block' = Top.next[1]
      /\ Return("load") /\ "load" \in Value
  BY EndIfShape DEF EndIf, Value
<1>2. PICK m, f, c : m = Len(stack) /\ f = Top /\ c = f.next[1]  OBVIOUS
<1>3. m \in Nat \ {0} /\ f.next \in Seq(1 .. Len(blocks)) /\ ~Generating(f)
  BY <1>1, <1>2, Running, TopFacts, NotPutOff
<1>4. DOMAIN f.next = 1 .. 1 /\ c \in 1 .. Len(blocks)
  BY <1>1, <1>2, <1>3, ElementOfSeq, LenProperties
<1>5. \A k \in DOMAIN f.next : k = 1  BY <1>4
<1>6. 1 \in DOMAIN f.next  BY <1>4
<1>7. \A b \in Nat \ {0} : Owns(f, b) <=> b = c
  BY <1>2, <1>3, <1>5, <1>6 DEF Owns, Generating, Null
<1>8. \A b \in Nat \ {0} : OwnsAt(m, b) <=> b = c
  BY <1>1, <1>2, <1>7, PlacesBefore
<1>9. /\ \A b \in Nat \ {0} : \A p \in Nat \ {0} :
           OwnsAt(p, b)' <=> OwnsAt(p, b) /\ p # m
      /\ \A i \in 1 .. Len(stack') :
           i \in 1 .. Len(stack) /\ stack'[i].next = stack[i].next
  BY <1>1, <1>2, PlacesAfterReturn
<1>10. \A b \in Nat \ {0} : \A p \in Nat \ {0} :
         OwnsAt(p, b)' <=> OwnsAt(p, b) /\ (p # m \/ b # c)
  BY <1>8, <1>9
<1>11. \A i \in 1 .. Len(stack') : Apart(stack[i])'  BY <1>9, ApartStays
<1>12. OwnsAt(m, c)
  <2>1. c \in Nat \ {0}  BY <1>1, <1>4, Running
  <2> QED  BY <2>1, <1>8
<1>13. block' = c  BY <1>1, <1>2
<1>14. UNCHANGED made  BY DEF EndIf
<1> QED  BY <1>1, <1>3, <1>4, <1>10, <1>11, <1>12, <1>13, <1>14, BuilderMoves

LEMMA ElseOwned == ASSUME IInv, Owned, Else PROVE Owned'
<1>1. PICK m, f, g, x, y :
        /\ m = Len(stack) /\ f = Top /\ g = [f EXCEPT !.next = Tail(@)]
        /\ x = f.next[1] /\ y = f.next[2]
  OBVIOUS
<1>2. /\ outcome = "running" /\ Op(f) = "if" /\ Grown /\ blocks' = Ended(block) /\ block' = x
      /\ Len(f.next) = 2 /\ Continues(m, g) /\ Tail(f.next) \in Seq(1 .. Len(blocks))
      /\ Len(Tail(f.next)) = 1 /\ Tail(f.next)[1] = y
  BY <1>1, ElseShape
<1>3. /\ m \in Nat \ {0} /\ m \in 1 .. Len(stack) /\ f = stack[m]
      /\ f \in Frames /\ f.next \in Seq(1 .. Len(blocks)) /\ ~Generating(f)
  BY <1>1, <1>2, Running, TopFacts, NotPutOff DEF Top
<1>4. g.next = Tail(f.next) /\ g.site = f.site  BY <1>1, <1>3 DEF Frames
<1>5. DOMAIN f.next = 1 .. 2 /\ DOMAIN g.next = 1 .. 1 /\ g.next[1] = y
  BY <1>2, <1>3, <1>4, LenProperties
<1>6. x \in 1 .. Len(blocks) /\ x # y
  <2>1. 1 \in 1 .. Len(f.next)  BY <1>2
  <2>2. x \in 1 .. Len(blocks)  BY <2>1, <1>1, <1>3, ElementOfSeq
  <2>3. Apart(f)  BY <1>3 DEF Owned
  <2> QED  BY <2>2, <2>3, <1>1, <1>2 DEF Apart
<1>7. \A b \in Nat \ {0} : (Owns(f, b) <=> b = x \/ b = y) /\ (Owns(g, b) <=> b = y)
  <2> SUFFICES ASSUME NEW b \in Nat \ {0}
               PROVE  (Owns(f, b) <=> b = x \/ b = y) /\ (Owns(g, b) <=> b = y)
    OBVIOUS
  <2>1. f.site.block # b /\ g.site.block # b  BY <1>3, <1>4 DEF Generating, Null
  <2>2. 1 \in DOMAIN f.next /\ 2 \in DOMAIN f.next /\ \A k \in DOMAIN f.next : k = 1 \/ k = 2
    BY <1>5
  <2>3. 1 \in DOMAIN g.next /\ \A k \in DOMAIN g.next : k = 1  BY <1>5
  <2>4. Owns(f, b) <=> b = x \/ b = y  BY <1>1, <2>1, <2>2 DEF Owns
  <2>5. Owns(g, b) <=> b = y  BY <1>5, <2>1, <2>3 DEF Owns
  <2> QED  BY <2>4, <2>5
<1>8. ASSUME NEW b \in Nat \ {0}, NEW p \in Nat \ {0}
      PROVE  OwnsAt(p, b)' <=> OwnsAt(p, b) /\ (p # m \/ b # x)
  <2>1. /\ p < m => (OwnsAt(p, b)' <=> OwnsAt(p, b))
        /\ p = m => (OwnsAt(p, b)' <=> Owns(g, b))
        /\ m < p => ~OwnsAt(p, b)'
    BY <1>2, <1>3, PlacesAfter
  <2>2. (m < p => ~OwnsAt(p, b)) /\ (OwnsAt(m, b) <=> Owns(f, b))
    BY <1>1, <1>2, PlacesBefore
  <2>3. p < m \/ p = m \/ m < p  BY <1>3
  <2>4. CASE p = m  BY <2>1, <2>2, <2>4, <1>6, <1>7
  <2>5. CASE p < m
    <3>1. p # m  BY <2>5, <1>3
    <3> QED  BY <3>1, <2>1, <2>5
  <2>6. CASE m < p  BY <2>1, <2>2, <2>6
  <2> QED  BY <2>3, <2>4, <2>5, <2>6
<1>9. OwnsAt(m, x)
  <2>1. x \in Nat \ {0}  BY <1>2, <1>6, Running
  <2>2. Owns(f, x)  BY <2>1, <1>7
  <2> QED  BY <2>2, <1>1, <1>2, PlacesBefore
<1>10. \A i \in 1 .. Len(stack') : Apart(stack[i])'
  <2>1. Len(stack') = m /\ stack'[m] = g /\ \A i \in 1 .. m - 1 : stack'[i] = stack[i]
    BY <1>2 DEF Continues, Survives
  <2>2. Len(stack'[m].next) # 2
    <3>1. Len(g.next) = 1  BY <1>2, <1>4
    <3>2. stack'[m].next = g.next  BY <2>1
    <3>3. Len(stack'[m].next) = 1  BY <3>1, <3>2
    <3> QED  BY <3>3
  <2>3. \A i \in 1 .. m : i \in 1 .. m - 1 \/ i = m  BY <1>3
  <2>4. \A i \in 1 .. m - 1 : i \in 1 .. Len(stack)  BY <1>1, <1>3
  <2> QED  BY <2>1, <2>2, <2>3, <2>4, ApartStays
<1>11. UNCHANGED made  BY DEF Else
<1> QED  BY <1>2, <1>3, <1>6, <1>8, <1>9, <1>10, <1>11, BuilderMoves

LEMMA EndFunctionOwned == ASSUME IInv, Owned, EndFunction PROVE Owned'
<1>1. PICK m, f, g, c : m = Len(stack) /\ f = Top /\ g = Resumed /\ c = f.site.block  OBVIOUS
<1>2. /\ outcome = "running" /\ Op(f) = "call" /\ Grown /\ Generating(f)
      /\ blocks' = Ended(block) /\ Len(blocks') = Len(blocks)
      /\ block' = c /\ block' \in 1 .. Len(blocks') /\ Continues(m, g)
      /\ g.next = << >> /\ g.site = NoSite
  BY <1>1, EndFunctionShape
<1>3. /\ m \in Nat \ {0} /\ m \in 1 .. Len(stack) /\ f = stack[m] /\ FrameOK(f)
  BY <1>1, <1>2, Running, TopFacts DEF Top
<1>4. f.next = << >>  BY <1>2, <1>3 DEF FrameOK
<1>5. \A b \in Nat \ {0} : (Owns(f, b) <=> b = c) /\ ~Owns(g, b)
  BY <1>1, <1>2, <1>4 DEF Owns, NoSite, Null
<1>6. ASSUME NEW b \in Nat \ {0}, NEW p \in Nat \ {0}
      PROVE  OwnsAt(p, b)' <=> OwnsAt(p, b) /\ (p # m \/ b # c)
  <2>1. /\ p < m => (OwnsAt(p, b)' <=> OwnsAt(p, b))
        /\ p = m => (OwnsAt(p, b)' <=> Owns(g, b))
        /\ m < p => ~OwnsAt(p, b)'
    BY <1>2, <1>3, PlacesAfter
  <2>2. (m < p => ~OwnsAt(p, b)) /\ (OwnsAt(m, b) <=> Owns(f, b))
    BY <1>1, <1>2, PlacesBefore
  <2>3. p < m \/ p = m \/ m < p  BY <1>3
  <2>4. CASE p = m  BY <2>1, <2>2, <2>4, <1>5
  <2>5. CASE p < m
    <3>1. p # m  BY <2>5, <1>3
    <3> QED  BY <3>1, <2>1, <2>5
  <2>6. CASE m < p  BY <2>1, <2>2, <2>6
  <2> QED  BY <2>3, <2>4, <2>5, <2>6
<1>7. c \in 1 .. Len(blocks) /\ c \in Nat \ {0}  BY <1>2, Running
<1>8. OwnsAt(m, c)  BY <1>1, <1>2, <1>5, <1>7, PlacesBefore
<1>9. \A i \in 1 .. Len(stack') : Apart(stack[i])'
  <2>1. Len(stack') = m /\ stack'[m] = g /\ \A i \in 1 .. m - 1 : stack'[i] = stack[i]
    BY <1>2 DEF Continues, Survives
  <2>2. Len(stack'[m].next) # 2  BY <2>1, <1>2, EmptySeq
  <2>3. \A i \in 1 .. m : i \in 1 .. m - 1 \/ i = m  BY <1>3
  <2>4. \A i \in 1 .. m - 1 : i \in 1 .. Len(stack)  BY <1>1, <1>3
  <2> QED  BY <2>1, <2>2, <2>3, <2>4, ApartStays
<1>10. UNCHANGED made  BY DEF EndFunction
<1> QED  BY <1>2, <1>3, <1>6, <1>7, <1>8, <1>9, <1>10, BuilderMoves

(* The blocks of an if belong to a function that has an entry. *)
LEMMA BranchOwned == ASSUME BInv, Owned, Branch PROVE Owned'
<1>1. PICK m, n, f, g :
        /\ m = Len(stack) /\ n = Len(blocks) /\ f = Top
        /\ g = [f EXCEPT !.next = <<n + 2, n + 3>>]
  OBVIOUS
<1>0. IInv  BY DEF BInv
<1>2. /\ outcome = "running" /\ Op(f) = "if" /\ Grown /\ n \in Nat
      /\ block' = n + 1 /\ Len(blocks') = n + 3
      /\ \A b \in 1 .. n : blocks'[b].ends = IF b = block THEN blocks[b].ends + 1 ELSE blocks[b].ends
      /\ \A i \in 1 .. 3 : blocks'[n + i].ends = 0
      /\ \A b \in 1 .. n : blocks'[b].fn = blocks[b].fn /\ blocks'[b].doms = blocks[b].doms
      /\ \A i \in 1 .. 3 : /\ blocks'[n + i].fn = currFunc
                           /\ blocks'[n + i].doms = blocks[block].doms \cup {n + i}
      /\ Continues(m, g)
  BY <1>0, <1>1, BranchShape
<1>3. /\ m \in Nat \ {0} /\ m \in 1 .. Len(stack) /\ f \in Frames /\ f.next = << >>
      /\ ~Generating(f)
  BY <1>1, <1>2, <1>0, Running, TopFacts, NotPutOff DEF Branch
<1>4. g.next = <<n + 2, n + 3>> /\ g.site = f.site  BY <1>1, <1>3 DEF Frames
<1>5. block \in 1 .. n /\ blocks[block].fn = currFunc
  BY <1>0, <1>1, <1>2, Running DEF BInv, Builder
<1>6. \A b \in Nat \ {0} : ~Owns(f, b) /\ (Owns(g, b) <=> b = n + 2 \/ b = n + 3)
  <2> SUFFICES ASSUME NEW b \in Nat \ {0}
               PROVE  ~Owns(f, b) /\ (Owns(g, b) <=> b = n + 2 \/ b = n + 3)
    OBVIOUS
  <2>1. f.site.block # b /\ g.site.block # b  BY <1>3, <1>4 DEF Generating, Null
  <2>2. /\ 1 \in DOMAIN g.next /\ 2 \in DOMAIN g.next /\ g.next[1] = n + 2 /\ g.next[2] = n + 3
        /\ \A k \in DOMAIN g.next : k = 1 \/ k = 2
    BY <1>4
  <2>3. ~Owns(f, b)  BY <1>3, <2>1 DEF Owns
  <2>4. Owns(g, b) <=> b = n + 2 \/ b = n + 3  BY <2>1, <2>2 DEF Owns
  <2> QED  BY <2>3, <2>4
<1>7. ASSUME NEW b \in Nat \ {0}, NEW p \in Nat \ {0}
      PROVE  OwnsAt(p, b)' <=> OwnsAt(p, b) \/ (p = m /\ (b = n + 2 \/ b = n + 3))
  <2>1. /\ p < m => (OwnsAt(p, b)' <=> OwnsAt(p, b))
        /\ p = m => (OwnsAt(p, b)' <=> Owns(g, b))
        /\ m < p => ~OwnsAt(p, b)'
    BY <1>2, <1>3, <1>0, PlacesAfter
  <2>2. (m < p => ~OwnsAt(p, b)) /\ (OwnsAt(m, b) <=> Owns(f, b))
    BY <1>1, <1>2, <1>0, PlacesBefore
  <2>3. p < m \/ p = m \/ m < p  BY <1>3
  <2>4. CASE p = m  BY <2>1, <2>2, <2>4, <1>6
  <2>5. CASE p < m
    <3>1. p # m  BY <2>5, <1>3
    <3> QED  BY <3>1, <2>1, <2>5
  <2>6. CASE m < p
    <3>1. p # m  BY <2>6, <1>3
    <3> QED  BY <3>1, <2>1, <2>2, <2>6
  <2> QED  BY <2>3, <2>4, <2>5, <2>6
<1>8. BlocksGrow /\ Kin  BY <1>1, <1>2 DEF BlocksGrow, Owned
<1>9. UNCHANGED made  BY DEF Branch
<1>10. ASSUME NEW b \in 1 .. Len(blocks') \ 1 .. Len(blocks)
       PROVE  /\ b \in blocks'[b].doms /\ blocks'[b].doms # {b}
              /\ blocks'[b].ends = 0 /\ \A fn : ~IsEntry(b, fn)'
  <2>1. b = n + 1 \/ b = n + 2 \/ b = n + 3  BY <1>1, <1>2
  <2>2. 1 \in 1 .. 3 /\ 2 \in 1 .. 3 /\ 3 \in 1 .. 3  OBVIOUS
  <2>3. blocks'[b].fn = currFunc /\ blocks'[b].doms = blocks[block].doms \cup {b}
    BY <2>1, <2>2, <1>2
  <2>4. blocks'[b].ends = 0  BY <2>1, <2>2, <1>2
  <2>5. block \in blocks[block].doms /\ block # b  BY <2>1, <1>1, <1>2, <1>5, <1>8 DEF Kin
  <2>6. ASSUME NEW fn, IsEntry(b, fn)' PROVE FALSE
    <3>1. fn = currFunc  BY <2>3, <2>6 DEF IsEntry, Named
    <3>2. block \in Named(fn)  BY <3>1, <1>1, <1>5 DEF Named
    <3>3. IsEntry(b, fn)  BY <3>2, <2>6, <1>8, EntryStays
    <3> QED  BY <3>3 DEF IsEntry, Named
  <2> QED  BY <2>3, <2>4, <2>5, <2>6
<1>11. Begun'
  <2>1. Begun  BY <1>8 DEF Kin
  <2> QED  BY <2>1, <1>1, <1>8, <1>9 DEF Begun, BlocksGrow
<1>12. Kin'  BY <1>8, <1>10, <1>11, KinGrows
<1>13. ASSUME NEW b \in 1 .. Len(blocks') PROVE Counted(b)'
  <2>1. b \in Nat \ {0} /\ (b \in 1 .. n \/ b = n + 1 \/ b = n + 2 \/ b = n + 3)
    BY <1>2
  <2>2. OwnsAt(0, b)' <=> b = n + 1  BY <1>2, BuilderAfter
  <2>3. OwnsAt(0, b) <=> b = block  BY DEF OwnsAt
  <2>4. CASE b \in 1 .. n
    <3>1. b # n + 1 /\ b # n + 2 /\ b # n + 3 /\ b \in 1 .. Len(blocks)  BY <2>4, <1>1, <1>2
    <3>2. \A p \in Nat \ {0} : OwnsAt(p, b)' <=> OwnsAt(p, b)  BY <2>1, <3>1, <1>7
    <3>3. Terminators(b)' = Terminators(b)
      <4>1. PICK fn : fn = blocks[b].fn  OBVIOUS
      <4>2. Bodies(fn)' = Bodies(fn)  BY <1>9 DEF Bodies
      <4> QED  BY <4>1, <4>2, <3>1, <1>8, TerminatorsStay
    <3>4. Counted(b)  BY <3>1 DEF Owned
    <3>5. CASE b = block
      <4>1. PICK o : o = 0  OBVIOUS
      <4>2. \A p \in Nat : OwnsAt(p, b)' <=> OwnsAt(p, b) /\ p # o  BY <2>2, <3>1, <3>2, <4>1
      <4>3. OwnsAt(o, b) /\ o \in Nat  BY <2>3, <3>5, <4>1
      <4>4. blocks'[b].ends = blocks[b].ends + 1  BY <2>4, <3>5, <1>2
      <4> QED  BY <1>0, <3>1, <3>3, <3>4, <4>2, <4>3, <4>4, CountEnded
    <3>6. CASE b # block
      <4>1. \A p \in Nat : OwnsAt(p, b)' <=> OwnsAt(p, b)  BY <2>2, <2>3, <3>1, <3>2, <3>6
      <4>2. blocks'[b].ends = blocks[b].ends  BY <2>4, <3>6, <1>2
      <4> QED  BY <1>0, <3>1, <3>3, <3>4, <4>1, <4>2, CountStays
    <3> QED  BY <3>5, <3>6
  <2>5. CASE b \notin 1 .. n
    <3>1. blocks'[b].ends = 0 /\ blocks'[b].doms # {b}  BY <2>5, <1>1, <1>10
    <3>2. Terminators(b)' = 1  BY <3>1 DEF Terminators
    <3>3. \A p \in Nat : ~OwnsAt(p, b)  BY <2>1, <2>5, <1>0, <1>1, <1>2, OwnedExists
    <3>4. CASE b = n + 1
      <4>1. b # n + 2 /\ b # n + 3  BY <3>4, <1>2
      <4>2. \A p \in Nat \ {0} : ~OwnsAt(p, b)'  BY <2>1, <3>3, <4>1, <1>7
      <4>3. PICK o : o = 0  OBVIOUS
      <4>4. o \in Nat /\ \A p \in Nat : OwnsAt(p, b)' <=> p = o  BY <2>2, <3>4, <4>2, <4>3
      <4> QED  BY <3>1, <3>2, <4>4, CountOne
    <3>5. CASE b = n + 2 \/ b = n + 3
      <4>1. b # n + 1  BY <3>5, <1>2
      <4>2. \A p \in Nat \ {0} : OwnsAt(p, b)' <=> p = m  BY <2>1, <3>3, <3>5, <1>7
      <4>3. \A p \in Nat : OwnsAt(p, b)' <=> p = m  BY <2>2, <4>1, <4>2, <1>3
      <4> QED  BY <3>1, <3>2, <4>3, <1>3, CountOne
    <3> QED  BY <2>1, <2>5, <3>4, <3>5
  <2> QED  BY <2>4, <2>5
<1>14. \A i \in 1 .. Len(stack') : Apart(stack[i])'
  <2>1. Len(stack') = m /\ stack'[m] = g /\ \A i \in 1 .. m - 1 : stack'[i] = stack[i]
    BY <1>2 DEF Continues, Survives
  <2>2. stack'[m].next[1] # stack'[m].next[2]
    <3>1. g.next[1] = n + 2 /\ g.next[2] = n + 3  BY <1>4
    <3>2. n + 2 # n + 3  BY <1>2
    <3> QED  BY <2>1, <3>1, <3>2
  <2>3. \A i \in 1 .. m : i \in 1 .. m - 1 \/ i = m  BY <1>3
  <2>4. \A i \in 1 .. m - 1 : i \in 1 .. Len(stack)  BY <1>1, <1>3
  <2> QED  BY <2>1, <2>2, <2>3, <2>4, ApartStays
<1> QED  BY <1>12, <1>13, <1>14 DEF Owned

(* A function that is begun gets a body more to end; the block that is made *)
(* for it is its entry, or nobody's.                                        *)
LEMMA GenerateOwned == ASSUME IInv, Owned, Generate PROVE Owned'
<1>1. PICK n, name, f, g, m, ret, k :
        /\ n = Len(blocks) /\ name = CalleeName(Top) /\ f = Top /\ g = PutOff
        /\ m = Len(stack) /\ ret = Inst(Top).ret /\ k = Index(Top)
  OBVIOUS
<1>2. /\ outcome = "running" /\ Op(f) = "call" /\ Grown /\ ~Generating(f) /\ n \in Nat
      /\ made' = Assign(made, k, name) /\ k \notin DOMAIN made
      /\ Len(blocks') = n + 1 /\ \A b \in 1 .. n : blocks'[b] = blocks[b]
      /\ blocks'[n + 1] = Block(name, {n + 1})
      /\ WaitsFor(m, g, ret)
  BY <1>1, GenerateShape
<1>3. /\ BlocksGrow /\ Kin /\ name # Construct
      /\ block' = IF Named(name) = {} THEN n + 1 ELSE Entry(name)
  BY <1>1, GenerateEntry DEF Generate, Clash, Owned
<1>4. /\ m \in Nat \ {0} /\ m \in 1 .. Len(stack) /\ f \in Frames /\ f.next = << >>
  BY <1>1, <1>2, Running, TopFacts DEF FrameOK
<1>5. block \in 1 .. n  BY <1>1, <1>2, Running
<1>6. g.next = << >> /\ g.site.block = block  BY <1>1, <1>4 DEF PutOff, Frames
<1>7. \A b \in Nat \ {0} : ~Owns(f, b) /\ (Owns(g, b) <=> b = block)
  BY <1>2, <1>4, <1>6 DEF Owns, Generating, Null
<1>8. ASSUME NEW b \in Nat \ {0}, NEW p \in Nat \ {0}
      PROVE  OwnsAt(p, b)' <=> OwnsAt(p, b) \/ (p = m /\ b = block)
  <2>1. /\ p < m => (OwnsAt(p, b)' <=> OwnsAt(p, b))
        /\ p = m => (OwnsAt(p, b)' <=> Owns(g, b))
        /\ m < p => ~OwnsAt(p, b)'
    BY <1>2, <1>4, PlacesAfter
  <2>2. (m < p => ~OwnsAt(p, b)) /\ (OwnsAt(m, b) <=> Owns(f, b))
    BY <1>1, <1>2, PlacesBefore
  <2>3. p < m \/ p = m \/ m < p  BY <1>4
  <2>4. CASE p = m  BY <2>1, <2>2, <2>4, <1>7
  <2>5. CASE p < m
    <3>1. p # m  BY <2>5, <1>4
    <3> QED  BY <3>1, <2>1, <2>5
  <2>6. CASE m < p
    <3>1. p # m  BY <2>6, <1>4
    <3> QED  BY <3>1, <2>1, <2>2, <2>6
  <2> QED  BY <2>3, <2>4, <2>5, <2>6
<1>9. \A b \in Nat \ {0} : ~OwnsAt(m, b)  BY <1>1, <1>2, <1>7, PlacesBefore
<1>10. /\ \A fn : fn # name => Bodies(fn)' = Bodies(fn)
       /\ Bodies(name)' = Bodies(name) \cup {k} /\ k \notin Bodies(name)
       /\ IsFiniteSet(Bodies(name))
  <2>1. DOMAIN made' = DOMAIN made \cup {k} /\ made'[k] = name
        /\ \A c \in DOMAIN made : made'[c] = made[c]
    BY <1>2 DEF Assign
  <2>2. Bodies(name) \subseteq 1 .. Len(program.inst)
    BY TypeOKParts DEF Bodies, IInv, Tables, MadeOK
  <2>3. Len(program.inst) \in Nat  BY LenProperties, ProgramsAssumption DEF IInv, ProgramOK
  <2>4. IsFiniteSet(1 .. Len(program.inst))  BY <2>3, FS_Interval
  <2>5. IsFiniteSet(Bodies(name))  BY <2>2, <2>4, FS_Subset
  <2>6. \A fn : fn # name => Bodies(fn)' = Bodies(fn)  BY <2>1 DEF Bodies
  <2>7. Bodies(name)' = Bodies(name) \cup {k}  BY <2>1 DEF Bodies
  <2>8. k \notin Bodies(name)  BY <1>2 DEF Bodies
  <2> QED  BY <2>5, <2>6, <2>7, <2>8
<1>11. PICK bodies : bodies = Cardinality(Bodies(name))  OBVIOUS
<1>12. bodies \in Nat /\ Cardinality(Bodies(name)') = bodies + 1
  BY <1>10, <1>11, FS_CardinalityType, FS_AddElement
<1>13. /\ blocks'[n + 1].fn = name /\ blocks'[n + 1].doms = {n + 1} /\ blocks'[n + 1].ends = 0
       /\ n + 1 \in Named(name)' /\ n + 1 \in 1 .. Len(blocks') /\ Len(blocks') \in Nat
  <2>1. /\ blocks'[n + 1].fn = name /\ blocks'[n + 1].doms = {n + 1}
        /\ blocks'[n + 1].ends = 0
    BY <1>2 DEF Block
  <2>2. n + 1 \in 1 .. Len(blocks') /\ Len(blocks') \in Nat  BY <1>2
  <2> QED  BY <2>1, <2>2 DEF Named
<1>14. Terminators(n + 1)' = IF IsEntry(n + 1, name)' THEN bodies + 1 ELSE 0
  <2>1. PICK x : x = n + 1  OBVIOUS
  <2>2. \A a \in 1 .. Len(blocks') : a < x <=> ~ (x <= a)  BY <1>13, <2>1
  <2>3. Named(name)' \subseteq 1 .. Len(blocks')  BY DEF Named
  <2>4. IsEntry(x, name)' <=> x \in Named(name)' /\ \A c \in Named(name)' : x <= c
    BY DEF IsEntry
  <2>5. IsEntry(x, name)' <=> ~ \E a \in Named(name)' : a < x
    BY <2>1, <2>2, <2>3, <2>4, <1>13
  <2>6. Terminators(x)' = IF name = Construct \/ blocks'[x].doms # {x} THEN 1
                          ELSE IF \E a \in Named(name)' : a < x THEN 0
                          ELSE Cardinality(Bodies(name)')
    BY <2>1, <1>13 DEF Terminators, Named, Bodies
  <2>7. Terminators(x)' = IF \E a \in Named(name)' : a < x THEN 0 ELSE bodies + 1
    BY <2>1, <2>6, <1>3, <1>12, <1>13
  <2>8. Terminators(x)' = IF IsEntry(x, name)' THEN bodies + 1 ELSE 0  BY <2>5, <2>7
  <2> QED  BY <2>1, <2>8
<1>15. ASSUME NEW b \in 1 .. n, b # block' PROVE Terminators(b)' = Terminators(b)
  <2>1. PICK fn : fn = blocks[b].fn  OBVIOUS
  <2>2. ASSUME IsEntry(b, fn) PROVE fn # name
    <3>1. b \in Named(fn)  BY <2>2 DEF IsEntry
    <3>2. ASSUME fn = name PROVE b = block'
      <4>1. block' = Entry(name) /\ Named(name) # {}  BY <3>1, <3>2, <1>3
      <4>2. IsEntry(Entry(name), name)  BY <4>1, <1>1, <1>2, TheEntry
      <4>3. PICK e : e = Entry(name)  OBVIOUS
      <4>4. IsEntry(e, name) /\ IsEntry(b, name)  BY <4>2, <4>3, <2>2, <3>2
      <4> QED  BY <4>1, <4>3, <4>4, <1>1, <1>2, TheEntry
    <3> QED  BY <3>2, <1>15
  <2>3. IsEntry(b, fn) => Bodies(fn)' = Bodies(fn)  BY <2>2, <1>10
  <2>4. b \in 1 .. Len(blocks)  BY <1>1
  <2> QED  BY <2>1, <2>3, <2>4, <1>3, TerminatorsStay
<1>16. ASSUME NEW b \in 1 .. n, b = block' PROVE Terminators(b)' = Terminators(b) + 1
  <2>1. Named(name) # {} /\ b = Entry(name)  BY <1>2, <1>3, <1>16
  <2>2. IsEntry(Entry(name), name)  BY <2>1, <1>1, <1>2, TheEntry
  <2>3. IsEntry(b, name)  BY <2>1, <2>2
  <2>4. blocks[b].fn = name /\ blocks[b].doms = {b}  BY <2>3, <1>3 DEF IsEntry, Named, Kin
  <2>5. b \in 1 .. Len(blocks) /\ Len(blocks) \in Nat  BY <1>1, <1>2
  <2>6. Terminators(b) = bodies  BY <2>3, <2>4, <2>5, <1>3, <1>11, TerminatorsAre
  <2>7. IsEntry(b, name)'  BY <2>1, <2>3, <1>3, EntryStays
  <2>8. ~ \E a \in Named(name)' : a < b
    <3>1. Named(name)' \subseteq 1 .. Len(blocks')  BY DEF Named
    <3>2. \A a \in Named(name)' : b <= a  BY <2>7 DEF IsEntry
    <3>3. \A a \in 1 .. Len(blocks') : b <= a => ~ (a < b)  BY <2>5, <1>13
    <3> QED  BY <3>1, <3>2, <3>3
  <2>9. blocks'[b].fn = name /\ blocks'[b].doms = {b}  BY <2>4, <1>2
  <2>10. Terminators(b)' = IF name = Construct \/ blocks'[b].doms # {b} THEN 1
                           ELSE IF \E a \in Named(name)' : a < b THEN 0
                           ELSE Cardinality(Bodies(name)')
    BY <2>9 DEF Terminators, Named, Bodies
  <2>11. Terminators(b)' = Cardinality(Bodies(name)')  BY <2>8, <2>9, <2>10, <1>3
  <2> QED  BY <2>6, <2>11, <1>12
<1>17. ASSUME NEW b \in 1 .. Len(blocks') PROVE Counted(b)'
  <2>1. b \in Nat \ {0} /\ (b \in 1 .. n \/ b = n + 1)  BY <1>2
  <2>2. OwnsAt(0, b)' <=> b = block'  BY BuilderAfter
  <2>3. OwnsAt(0, b) <=> b = block  BY DEF OwnsAt
  <2>4. \A p \in Nat \ {0} : OwnsAt(p, b)' <=> OwnsAt(p, b) \/ (p = m /\ b = block)
    BY <2>1, <1>8
  <2>5. ~OwnsAt(m, b)  BY <2>1, <1>9
  <2>6. PICK o : o = 0 /\ o \in Nat  OBVIOUS
  <2>7. CASE b \in 1 .. n
    <3>1. b \in 1 .. Len(blocks) /\ blocks'[b].ends = blocks[b].ends  BY <2>7, <1>1, <1>2
    <3>2. Counted(b)  BY <3>1 DEF Owned
    <3>3. CASE b = block' /\ b = block
      <4>1. \A p \in Nat : OwnsAt(p, b)' <=> OwnsAt(p, b) \/ p = m
        BY <2>2, <2>3, <2>4, <3>3, <1>4
      <4>2. Terminators(b)' = Terminators(b) + 1  BY <2>7, <3>3, <1>16
      <4> QED  BY <2>5, <3>1, <3>2, <4>1, <4>2, <1>4, CountTaken
    <3>4. CASE b = block' /\ b # block
      <4>1. \A p \in Nat : OwnsAt(p, b)' <=> OwnsAt(p, b) \/ p = o
        BY <2>2, <2>3, <2>4, <2>6, <3>4
      <4>2. Terminators(b)' = Terminators(b) + 1  BY <2>7, <3>4, <1>16
      <4>3. ~OwnsAt(o, b)  BY <2>3, <2>6, <3>4
      <4> QED  BY <2>6, <3>1, <3>2, <4>1, <4>2, <4>3, CountTaken
    <3>5. CASE b # block' /\ b = block
      <4>1. \A p \in Nat : OwnsAt(p, b)' <=> (OwnsAt(p, b) /\ p # o) \/ p = m
        BY <2>2, <2>3, <2>4, <2>6, <3>5, <1>4
      <4>2. Terminators(b)' = Terminators(b)  BY <2>7, <3>5, <1>15
      <4>3. OwnsAt(o, b)  BY <2>3, <2>6, <3>5
      <4> QED  BY <2>5, <2>6, <3>1, <3>2, <4>1, <4>2, <4>3, <1>4, CountMoved
    <3>6. CASE b # block' /\ b # block
      <4>1. \A p \in Nat : OwnsAt(p, b)' <=> OwnsAt(p, b)  BY <2>2, <2>3, <2>4, <3>6
      <4>2. Terminators(b)' = Terminators(b)  BY <2>7, <3>6, <1>15
      <4> QED  BY <3>1, <3>2, <4>1, <4>2, CountStays
    <3> QED  BY <3>3, <3>4, <3>5, <3>6
  <2>8. CASE b = n + 1
    <3>1. ~ (b \in 1 .. n) /\ b # block /\ blocks'[b].ends = 0  BY <2>8, <1>2, <1>5, <1>13
    <3>2. \A p \in Nat : ~OwnsAt(p, b)  BY <2>1, <3>1, <1>1, <1>2, OwnedExists
    <3>3. \A p \in Nat \ {0} : ~OwnsAt(p, b)'  BY <2>4, <3>1, <3>2
    <3>4. CASE Named(name) = {}
      <4>1. b = block'  BY <2>8, <3>4, <1>3
      <4>2. \A p \in Nat : OwnsAt(p, b)' <=> p = o  BY <2>2, <2>6, <3>3, <4>1
      <4>3. \A c \in Named(name)' : c = n + 1
        <5>1. \A c \in Named(name)' : c \in Named(name) \/ c = n + 1  BY <1>1, <1>2 DEF Named
        <5> QED  BY <5>1, <3>4
      <4>4. IsEntry(n + 1, name)'
        <5>1. n + 1 <= n + 1  BY <1>2
        <5>2. \A c \in Named(name)' : n + 1 <= c  BY <4>3, <5>1
        <5> QED  BY <5>2, <1>13 DEF IsEntry
      <4>5. Bodies(name) = {}
        <5>1. Begun  BY <1>3 DEF Kin
        <5> QED  BY <5>1, <3>4 DEF Begun, Bodies, Named
      <4>6. bodies = 0  BY <4>5, <1>11, FS_EmptySet
      <4>7. Terminators(n + 1)' = 1  BY <4>4, <4>6, <1>14
      <4>8. Terminators(b)' = 1  BY <4>7, <2>8
      <4> QED  BY <2>6, <3>1, <4>2, <4>8, CountOne
    <3>5. CASE Named(name) # {}
      <4>1. Entry(name) \in Named(name)  BY <3>5, <1>1, <1>2, EntryIsFirst
      <4>2. PICK e : e = Entry(name) /\ e = block'  BY <3>5, <1>3
      <4>3. e \in 1 .. n /\ e \in Named(name)'
        <5>1. e \in Named(name)  BY <4>1, <4>2
        <5>2. 1 .. n \subseteq 1 .. Len(blocks')  BY <1>2
        <5> QED  BY <5>1, <5>2, <1>1, <1>2 DEF Named
      <4>4. b # block' /\ ~ (n + 1 <= e)  BY <2>8, <4>2, <4>3, <1>2
      <4>5. ~IsEntry(n + 1, name)'  BY <4>3, <4>4 DEF IsEntry
      <4>6. Terminators(n + 1)' = 0  BY <4>5, <1>14
      <4>7. Terminators(b)' = 0  BY <4>6, <2>8
      <4>8. \A p \in Nat : ~OwnsAt(p, b)'  BY <2>2, <3>3, <4>4
      <4> QED  BY <3>1, <4>7, <4>8, CountNone
    <3> QED  BY <3>4, <3>5
  <2> QED  BY <2>1, <2>7, <2>8
<1>18. Kin'
  <2>1. ASSUME NEW b \in 1 .. Len(blocks') \ 1 .. Len(blocks)
        PROVE  b \in blocks'[b].doms /\ \A fn : IsEntry(b, fn)' => blocks'[b].doms = {b}
    <3>1. b = n + 1  BY <1>1, <1>2
    <3> QED  BY <3>1, <1>13
  <2>2. Begun'
    <3>1. Begun  BY <1>3 DEF Kin
    <3>2. SUFFICES ASSUME NEW c \in DOMAIN made'
                   PROVE  \E b \in 1 .. Len(blocks') : blocks'[b].fn = made'[c]
      BY DEF Begun
    <3>3. CASE c = k
      <4>1. made'[c] = name  BY <3>3, <1>2 DEF Assign
      <4> QED  BY <4>1, <1>13
    <3>4. CASE c # k
      <4>1. c \in DOMAIN made /\ made'[c] = made[c]  BY <3>4, <1>2 DEF Assign
      <4> QED  BY <4>1, <3>1, <1>3 DEF Begun, BlocksGrow
    <3> QED  BY <3>3, <3>4
  <2> QED  BY <2>1, <2>2, <1>3, KinGrows
<1>19. \A i \in 1 .. Len(stack') : Apart(stack[i])'
  <2>1. /\ Len(stack') = m + 1 /\ stack'[m] = g /\ \A i \in 1 .. m - 1 : stack'[i] = stack[i]
        /\ stack'[m + 1] = Activation(ret)
    BY <1>2 DEF WaitsFor, Survives
  <2>2. stack'[m + 1].next = << >> /\ stack'[m].next = << >>
    BY <2>1, <1>6 DEF Activation
  <2>3. Len(stack'[m + 1].next) # 2 /\ Len(stack'[m].next) # 2  BY <2>2, EmptySeq
  <2>4. \A i \in 1 .. m + 1 : i \in 1 .. m - 1 \/ i = m \/ i = m + 1  BY <1>4
  <2>5. \A i \in 1 .. m - 1 : i \in 1 .. Len(stack)  BY <1>1, <1>4
  <2> QED  BY <2>1, <2>3, <2>4, <2>5, ApartStays
<1> QED  BY <1>17, <1>18, <1>19 DEF Owned

(* The generator is done when the call of the module's instance is.         *)
LEMMA DoneByCall ==
  ASSUME IInv, Next, outcome = "running", outcome' = "done"
  PROVE  Call /\ Len(stack) = 1
<1>1. ASSUME NEW v, Return(v) PROVE Len(stack) = 1
  <2>1. Rest = << >>  BY <1>1 DEF Return, Undefined, Stop
  <2> QED  BY <2>1, Running, StackFacts
<1>2. CASE Call  BY <1>1, <1>2 DEF Call
<1>3. CASE Quiet \/ EndIf
  <2>1. Op(Top) # "call" /\ ((\E v : Return(v)) \/ Undefined)
    <3>1. CASE AddressOf  BY <3>1 DEF AddressOf, At
    <3>2. CASE Quiet /\ ~AddressOf
      BY <3>2 DEF Quiet, Constant, LoadSymbol, StoreSymbol, Operator, ImmediateContext, Lambda, At
    <3>3. CASE EndIf  BY <3>3 DEF EndIf, At
    <3> QED  BY <1>3, <3>1, <3>2, <3>3
  <2>2. Len(stack) = 1  BY <1>1, <2>1 DEF Undefined, Stop
  <2>3. Top.n = Len(program.node) /\ ProgramOK(program)
    BY <2>2, Running, ProgramsAssumption DEF Top, IInv, Control
  <2>4. Op(Top) = "call"  BY <2>3 DEF ProgramOK, Op
  <2> QED  BY <2>1, <2>4
<1>4. CASE Unbound \/ Not \/ NotImplemented \/ NameClash
  BY <1>4 DEF Unbound, Not, NotImplemented, NameClash, Reject, Undefined, Stop
<1>5. CASE Visit \/ Branch \/ Else \/ Generate \/ EndFunction
  BY <1>5 DEF Visit, Branch, Else, Generate, EndFunction
<1>6. ~Finished  BY DEF Finished
<1> QED  BY <1>2, <1>3, <1>4, <1>5, <1>6 DEF Next, Quiet

(* Then everything has been ended: nobody is left to own a block. *)
LEMMA CallEndsAll ==
  ASSUME IInv, Owned, Call, Len(stack) = 1
  PROVE  \A b \in 1 .. Len(blocks') : blocks'[b].ends = Terminators(b)'
<1>1. /\ outcome = "running" /\ Op(Top) = "call" /\ Complete(Top)
      /\ blocks' = Ended(block) /\ UNCHANGED made
  BY DEF Call, At
<1>2. ~Generating(Top) /\ Top.next = << >>
  BY <1>1, TopFacts DEF FrameOK, InnermostOK, Complete, Answered
<1>3. block \in 1 .. Len(blocks) /\ Len(blocks) \in Nat  BY <1>1, Running
<1>4. /\ Len(blocks') = Len(blocks)
      /\ \A b \in 1 .. Len(blocks) :
           blocks'[b].ends = IF b = block THEN blocks[b].ends + 1 ELSE blocks[b].ends
  BY <1>1, EndedFacts
<1>5. \A b \in 1 .. Len(blocks) : Terminators(b)' = Terminators(b)  BY <1>1, KinStays DEF Owned
<1> SUFFICES ASSUME NEW b \in 1 .. Len(blocks) PROVE blocks'[b].ends = Terminators(b)
  BY <1>4, <1>5
<1>6. b \in Nat \ {0}  BY <1>3
<1>7. ASSUME NEW p \in Nat \ {0} PROVE ~OwnsAt(p, b)
  <2>1. p = 1 \/ 1 < p  OBVIOUS
  <2>2. ~OwnsAt(1, b)  BY <1>1, <1>2, <1>6, PlacesBefore, OwnsNothing
  <2>3. 1 < p => ~OwnsAt(p, b)  BY <1>1, PlacesBefore
  <2> QED  BY <2>1, <2>2, <2>3
<1>8. OwnsAt(0, b) <=> b = block  BY DEF OwnsAt
<1>9. /\ blocks[b].ends \in Nat
      /\ blocks[b].ends + Cardinality(Places(b)) = Terminators(b)
  BY PlacesCounted DEF Owned
<1>10. CASE b = block
  <2>1. PICK o : o = 0  OBVIOUS
  <2>2. \A p \in Nat : OwnsAt(p, b) <=> p = o  BY <2>1, <1>7, <1>8, <1>10
  <2>3. Places(b) = {o}  BY <2>1, <2>2 DEF Places
  <2>4. Cardinality(Places(b)) = 1  BY <2>3, FS_Singleton
  <2> QED  BY <2>4, <1>4, <1>9, <1>10
<1>11. CASE b # block
  <2>1. Places(b) = {}  BY <1>7, <1>8, <1>11 DEF Places
  <2>2. Cardinality(Places(b)) = 0  BY <2>1, FS_EmptySet
  <2> QED  BY <2>2, <1>4, <1>9, <1>11
<1> QED  BY <1>10, <1>11

LEMMA InitOwned == Init => OInv
<1> SUFFICES ASSUME Init PROVE OInv  OBVIOUS
<1>1. IInv /\ BInv  BY InitOK, InitBuilder
<1>2. PICK f : f = Activation(Len(program.node))  OBVIOUS
<1>3. f.next = << >> /\ f.site.block = 0  BY <1>2 DEF Activation, NoSite, Null
<1>4. stack = <<f>> /\ Len(stack) = 1 /\ stack[1] = f /\ outcome = "running" /\ block = 1
  BY <1>2 DEF Init
<1>5. Len(blocks) = 1 /\ blocks[1] = Block(Construct, {1})  BY DEF Init
<1>6. blocks[1].fn = Construct /\ blocks[1].ends = 0 /\ blocks[1].doms = {1}  BY <1>5 DEF Block
<1>7. \A i \in 1 .. Len(stack) : Apart(stack[i])
  <2>1. \A i \in 1 .. Len(stack) : i = 1  BY <1>4
  <2>2. Apart(f)  BY <1>3, EmptySeq DEF Apart
  <2> QED  BY <1>4, <2>1, <2>2
<1>8. PICK o : o = 0  OBVIOUS
<1>9. ASSUME NEW p \in Nat PROVE OwnsAt(p, 1) <=> p = o
  <2>1. ~Owns(f, 1)  BY <1>3 DEF Owns
  <2>2. p \in 1 .. Len(stack) => p = 1  BY <1>4
  <2> QED  BY <1>4, <1>8, <2>1, <2>2 DEF OwnsAt
<1>10. Counted(1)
  <2>1. Places(1) = {o}  BY <1>8, <1>9 DEF Places
  <2>2. IsFiniteSet(Places(1)) /\ Cardinality(Places(1)) = 1  BY <2>1, FS_Singleton
  <2>3. Terminators(1) = 1  BY <1>6 DEF Terminators
  <2> QED  BY <1>6, <2>2, <2>3 DEF Counted
<1>11. \A b \in 1 .. Len(blocks) : b = 1  BY <1>5
<1>12. Kin
  <2>1. \A b, fn : IsEntry(b, fn) => b = 1 /\ fn = Construct
    BY <1>6, <1>11 DEF IsEntry, Named
  <2>2. Begun  BY DEF Begun, Init
  <2> QED  BY <1>6, <1>11, <2>1, <2>2 DEF Kin
<1>13. Owned  BY <1>7, <1>10, <1>11, <1>12 DEF Owned
<1> QED  BY <1>1, <1>4, <1>13 DEF OInv, Ends

LEMMA NextOwned == OInv /\ [Next]_vars => OInv'
<1> SUFFICES ASSUME OInv, [Next]_vars PROVE OInv'  OBVIOUS
<1>1. BInv /\ IInv /\ BInv'  BY NextBuilder DEF OInv, BInv
<1>2. Ends  BY DEF OInv
<1>3. CASE UNCHANGED vars
  <2>1. UNCHANGED <<stack, block, blocks, made, outcome>>  BY <1>3 DEF vars
  <2>2. \A b : Terminators(b)' = Terminators(b)  BY <2>1 DEF Terminators, Named, Bodies
  <2>3. \A b : Places(b)' = Places(b)  BY <2>1 DEF Places, OwnsAt, Owns
  <2>4. \A b : Counted(b) => Counted(b)'  BY <2>1, <2>2, <2>3 DEF Counted
  <2>5. Kin => Kin'  BY <2>1 DEF Kin, Begun, IsEntry, Named
  <2>6. Owned => Owned'  BY <2>1, <2>4, <2>5 DEF Owned, Apart
  <2>7. Ends'  BY <1>2, <2>1, <2>2, <2>6 DEF Ends
  <2> QED  BY <1>1, <2>7 DEF OInv
<1>4. CASE Next
  <2>1. ASSUME outcome = "running", outcome' = "running" PROVE Owned'
    <3>1. Owned  BY <1>2, <2>1 DEF Ends
    <3>2. CASE Unbound \/ Not \/ NotImplemented \/ NameClash
      BY <2>1, <3>2 DEF Unbound, Not, NotImplemented, NameClash, Reject, Undefined, Stop
    <3>3. CASE Finished  BY <2>1, <3>3 DEF Finished
    <3>4. CASE Quiet  BY <1>1, <2>1, <3>1, <3>4, QuietOwned
    <3> QED
      BY <1>1, <1>4, <2>1, <3>1, <3>2, <3>3, <3>4, VisitOwned, BranchOwned, ElseOwned,
         EndIfOwned, GenerateOwned, EndFunctionOwned, CallOwned DEF Next, Quiet
  <2>2. ASSUME outcome = "running", outcome' = "done"
        PROVE  \A b \in 1 .. Len(blocks') : blocks'[b].ends = Terminators(b)'
    <3>1. Owned  BY <1>2, <2>2 DEF Ends
    <3> QED  BY <1>1, <1>4, <2>2, <3>1, DoneByCall, CallEndsAll
  <2>3. CASE outcome = "running"
    <3>1. Ends'  BY <2>1, <2>2, <2>3 DEF Ends
    <3> QED  BY <1>1, <3>1 DEF OInv
  <2>4. CASE outcome # "running"
    <3>1. UNCHANGED vars
      BY <1>4, <2>4 DEF Next, Finished, Visit, Constant, LoadSymbol, StoreSymbol, Unbound,
         Operator, Not, NotImplemented, AddressOf, ImmediateContext, Lambda, Branch, Else, EndIf,
         Generate, NameClash, EndFunction, Call, At
    <3> QED  BY <1>3, <3>1
  <2> QED  BY <2>3, <2>4
<1> QED  BY <1>3, <1>4

(* Every basic block of every unit has, when it is done, the terminators    *)
(* that Terminators counts, and until then one less for each activation     *)
(* that is still to end it: one for each block of an if, one for each body  *)
(* in the entry of a function (one, unless instances have a function in     *)
(* common), and none for a block that was made for a function that had one. *)
(* No branch and no function generated in between writes one too many or    *)
(* forgets one.                                                             *)
THEOREM TerminatorsAreCounted == Spec => []TerminatorsCounted
<1>1. ASSUME OInv PROVE TerminatorsCounted
  <2> SUFFICES ASSUME outcome \in {"running", "done"}, NEW b \in 1 .. Len(blocks)
               PROVE  blocks[b].ends + (IF outcome = "done" THEN 0 ELSE Cardinality(Owners(b)))
                        = Terminators(b)
    BY DEF TerminatorsCounted
  <2>1. IInv  BY <1>1 DEF OInv, BInv
  <2>2. CASE outcome = "done"
    <3>1. blocks[b] \in Blocks  BY <2>1, ElementOfSeq DEF IInv, TypeOK
    <3>2. blocks[b].ends \in Nat  BY <3>1 DEF Blocks
    <3>3. blocks[b].ends = Terminators(b)  BY <1>1, <2>2 DEF OInv, Ends
    <3> QED  BY <2>2, <3>2, <3>3
  <2>3. CASE outcome = "running"
    <3>1. Len(stack) \in Nat  BY <2>1, <2>3, Running
    <3>2. Owners(b) = Places(b)
      <4>1. \A i \in 1 .. Len(stack) : i \in Nat \ {0}  BY <3>1
      <4> QED  BY <4>1 DEF Owners, Places, OwnsAt, Owns
    <3>3. Counted(b)  BY <1>1, <2>3 DEF OInv, Ends, Owned
    <3> QED  BY <2>3, <3>2, <3>3 DEF Counted
  <2> QED  BY <2>2, <2>3
<1> QED  BY <1>1, InitOwned, NextOwned, PTL DEF Spec
-----------------------------------------------------------------------------
(* Induction, for the numbers up to n that are in a set. *)
LEMMA UpTo ==
  ASSUME NEW S, NEW n \in Nat, 0 \in S, \A i \in 1 .. n : i - 1 \in S => i \in S
  PROVE  \A i \in 0 .. n : i \in S
<1> DEFINE T == {i \in 0 .. n : i \notin S}
<1>1. SUFFICES ASSUME T # {} PROVE FALSE  OBVIOUS
<1>2. T \subseteq Nat  OBVIOUS
<1>3. PICK x \in T : \A y \in T : ~ (<<y, x>> \in OpToRel(<, Nat))
  <2> HIDE DEF T
  <2> QED  BY <1>1, <1>2, NatLessThanWellFounded, WFMin
<1>4. x # 0 /\ x \in 1 .. n /\ x - 1 \in 0 .. n  OBVIOUS
<1>5. <<x - 1, x>> \in OpToRel(<, Nat)  BY <1>4 DEF OpToRel
<1>6. x - 1 \in S  BY <1>3, <1>4, <1>5
<1> QED  BY <1>4, <1>6

(* What Visited is: operands have smaller numbers, so it is defined.        *)
LEMMA VisitedIs ==
  ASSUME IInv
  PROVE  \A n \in 1 .. Len(program.node) :
           Visited(program)[n] =
             {n} \cup UNION {Visited(program)[program.node[n].kids[i]] :
                               i \in 1 .. Len(program.node[n].kids)}
<1> DEFINE N == Len(program.node)
           kids(n) == program.node[n].kids
           Of(v, n) == {n} \cup UNION {v[kids(n)[i]] : i \in 1 .. Len(kids(n))}
           S == {m \in Nat : \E v : v = [n \in 1 .. m |-> Of(v, n)]}
<1>1. ProgramOK(program) /\ N \in Nat
  BY ProgramsAssumption, LenProperties DEF IInv, ProgramOK
<1>2. \A n \in 1 .. N : \A i \in 1 .. Len(kids(n)) : kids(n)[i] \in 1 .. n - 1
  BY <1>1 DEF ProgramOK
<1>3. \A i \in 0 .. N : i \in S
  <2>1. 0 \in S
    <3> DEFINE v == [n \in 1 .. 0 |-> {}]
    <3>1. v = [n \in 1 .. 0 |-> Of(v, n)]  OBVIOUS
    <3> HIDE DEF v, Of
    <3> QED  BY <3>1
  <2>2. ASSUME NEW m \in 1 .. N, m - 1 \in S PROVE m \in S
    <3> HIDE DEF N, kids
    <3>1. PICK g : g = [n \in 1 .. m - 1 |-> Of(g, n)]  BY <2>2
    <3> DEFINE h == [n \in 1 .. m |-> IF n = m THEN Of(g, m) ELSE g[n]]
    <3>2. \A n \in 1 .. m - 1 : h[n] = g[n]  OBVIOUS
    <3>3. \A n \in 1 .. m : \A i \in 1 .. Len(kids(n)) : kids(n)[i] \in 1 .. m - 1
      <4> SUFFICES ASSUME NEW n \in 1 .. m, NEW i \in 1 .. Len(kids(n)) PROVE kids(n)[i] \in 1 .. m - 1
        OBVIOUS
      <4>1. n \in 1 .. N  BY <1>1
      <4>2. kids(n)[i] \in 1 .. n - 1  BY <4>1, <1>2
      <4> QED  BY <4>2
    <3>4. ASSUME NEW n \in 1 .. m PROVE Of(h, n) = Of(g, n)
      <4>1. \A i \in 1 .. Len(kids(n)) : h[kids(n)[i]] = g[kids(n)[i]]  BY <3>2, <3>3
      <4> HIDE DEF h
      <4> QED  BY <4>1
    <3>5. ASSUME NEW n \in 1 .. m PROVE h[n] = Of(g, n)
      <4>1. n # m => n \in 1 .. m - 1  OBVIOUS
      <4>2. n \in 1 .. m - 1 => g[n] = Of(g, n)
        <5> HIDE DEF Of
        <5> QED  BY <3>1
      <4> HIDE DEF Of
      <4> QED  BY <4>1, <4>2
    <3>6. h = [n \in 1 .. m |-> Of(h, n)]
      <4>1. h = [n \in 1 .. m |-> h[n]]  OBVIOUS
      <4> HIDE DEF h, Of
      <4> QED  BY <3>4, <3>5, <4>1
    <3>7. \E v : v = [n \in 1 .. m |-> Of(v, n)]
      <4> HIDE DEF h, Of
      <4> QED  BY <3>6
    <3>8. m \in Nat  BY <1>1
    <3> QED  BY <3>7, <3>8
  <2> HIDE DEF S, N
  <2> QED  BY <1>1, <2>1, <2>2, UpTo
<1>4. \E v : v = [n \in 1 .. N |-> Of(v, n)]
  <2>1. N \in 0 .. N  BY <1>1
  <2>2. N \in S  BY <1>3, <2>1
  <2> HIDE DEF N, Of
  <2> QED  BY <2>2
<1>5. Visited(program) = CHOOSE v : v = [n \in 1 .. N |-> Of(v, n)]  BY DEF Visited
<1>6. Visited(program) = [n \in 1 .. N |-> Of(Visited(program), n)]
  <2> HIDE DEF N, Of
  <2> QED  BY <1>4, <1>5
<1>7. \A n \in 1 .. N : Visited(program)[n] = Of(Visited(program), n)
  <2> HIDE DEF N, Of
  <2> QED  BY <1>6
<1> QED  BY <1>7

(* What is visited leads to its operands. *)
LEMMA VisitedFacts ==
  ASSUME IInv, NEW r \in 1 .. Len(program.node)
  PROVE  /\ r \in Visited(program)[r]
         /\ \A x \in Visited(program)[r] :
              /\ x \in 1 .. Len(program.node)
              /\ \A i \in 1 .. Len(program.node[x].kids) :
                   program.node[x].kids[i] \in Visited(program)[r]
<1> DEFINE N == Len(program.node)
           kids(n) == program.node[n].kids
           V(n) == Visited(program)[n]
           Closed(n) == \A x \in V(n) : x \in 1 .. N /\ \A i \in 1 .. Len(kids(x)) : kids(x)[i] \in V(n)
           S == {m \in Nat : \A n \in 1 .. m : Closed(n)}
<1>1. ProgramOK(program) /\ N \in Nat
  BY ProgramsAssumption, LenProperties DEF IInv, ProgramOK
<1>2. \A n \in 1 .. N : \A i \in 1 .. Len(kids(n)) : kids(n)[i] \in 1 .. n - 1
  BY <1>1 DEF ProgramOK
<1>3. \A n \in 1 .. N : V(n) = {n} \cup UNION {V(kids(n)[i]) : i \in 1 .. Len(kids(n))}
  BY VisitedIs
<1> HIDE DEF N, kids, V
<1>4. \A i \in 0 .. N : i \in S
  <2>1. 0 \in S  OBVIOUS
  <2>2. ASSUME NEW m \in 1 .. N, m - 1 \in S PROVE m \in S
    <3>1. \A n \in 1 .. m - 1 : Closed(n)  BY <2>2
    <3>2. \A i \in 1 .. Len(kids(m)) : kids(m)[i] \in 1 .. m - 1 /\ kids(m)[i] \in 1 .. N
      <4>1. 1 .. m - 1 \subseteq 1 .. N  BY <1>1
      <4> QED  BY <4>1, <1>2
    <3>3. ASSUME NEW x \in V(m)
          PROVE  x \in 1 .. N /\ \A i \in 1 .. Len(kids(x)) : kids(x)[i] \in V(m)
      <4>1. CASE x = m
        <5> SUFFICES ASSUME NEW i \in 1 .. Len(kids(m)) PROVE kids(m)[i] \in V(m)  BY <4>1
        <5>1. kids(m)[i] \in V(kids(m)[i])  BY <3>2, <1>3
        <5> QED  BY <5>1, <1>3
      <4>2. CASE x # m
        <5>1. PICK j \in 1 .. Len(kids(m)) : x \in V(kids(m)[j])  BY <4>2, <1>3
        <5>2. Closed(kids(m)[j])  BY <3>1, <3>2
        <5>3. V(kids(m)[j]) \subseteq V(m)  BY <1>3
        <5> QED  BY <5>1, <5>2, <5>3
      <4> QED  BY <4>1, <4>2
    <3>4. Closed(m)  BY <3>3
    <3>5. \A n \in 1 .. m : n \in 1 .. m - 1 \/ n = m  OBVIOUS
    <3> HIDE DEF Closed
    <3> QED  BY <3>1, <3>4, <3>5
  <2> HIDE DEF S
  <2> QED  BY <1>1, <2>1, <2>2, UpTo
<1>5. r \in 1 .. N  BY DEF N
<1>6. Closed(r)
  <2>1. N \in 0 .. N  BY <1>1
  <2>2. N \in S  BY <1>4, <2>1
  <2> QED  BY <2>2, <1>5
<1>7. r \in V(r)  BY <1>3, <1>5
<1> QED  BY <1>6, <1>7 DEF V, N, kids
-----------------------------------------------------------------------------
(* Where arguments are.  The entry of a function is the first block it has. *)
(* Every block that anybody is going to fill is dominated by it.            *)
Live(b) == \E p \in Nat : OwnsAt(p, b)
Dominated(b) == \A e : IsEntry(e, blocks[b].fn) => e \in blocks[b].doms
Entered ==
  \A b \in 1 .. Len(blocks) : b \in blocks[b].doms /\ (Live(b) => Dominated(b))

(* An activation is of what the body of the instance leads to that the last *)
(* call below it that is put off is waiting for, or else of the module.     *)
Root(a) == IF a = 0 THEN Len(program.node) ELSE Inst(stack[a]).ret
Inside(k) ==
  \E a \in 0 .. k - 1 :
    /\ a = 0 \/ PutOffAt(a)
    /\ \A j \in Nat : a < j /\ j < k => ~PutOffAt(j)
    /\ stack[k].n \in Visited(program)[Root(a)]

(* A call is put off for the function of its callee, and each call that is  *)
(* put off for an instance of its own.                                      *)
Serving == \A i \in Nat : PutOffAt(i) => Home(i + 1, CalleeName(stack[i]))
Once ==
  \A i, j \in Nat : PutOffAt(i) /\ PutOffAt(j) /\ Index(stack[i]) = Index(stack[j]) => i = j

(* A parameter has a storage while a call of its instance is put off: in    *)
(* the entry of the callee's function.                                      *)
Stores ==
  \A s \in DOMAIN storage \cap Params :
    \E i \in Nat : /\ PutOffAt(i) /\ s \in Inst(stack[i]).params
                   /\ IsEntry(storage[s], CalleeName(stack[i]))

Bound == (\A k \in 1 .. Len(stack) : Inside(k)) /\ Serving /\ Once /\ Stores
AInv == BInv /\ ArgumentsReachLoads /\ (outcome = "running" => Entered /\ Bound)

LEMMA DominatedStays ==
  ASSUME BlocksGrow, NEW b \in 1 .. Len(blocks), Dominated(b)
  PROVE  Dominated(b)'
<1>1. PICK fn : fn = blocks[b].fn  OBVIOUS
<1>2. b \in Named(fn) /\ blocks'[b].fn = fn /\ blocks'[b].doms = blocks[b].doms
  BY <1>1 DEF Named, BlocksGrow
<1>3. \A e : IsEntry(e, fn)' <=> IsEntry(e, fn)  BY <1>2, EntryStays
<1>4. Dominated(b)' <=> \A e : IsEntry(e, fn)' => e \in blocks'[b].doms
  BY <1>2 DEF Dominated, IsEntry, Named
<1> QED  BY <1>1, <1>2, <1>3, <1>4 DEF Dominated

(* Only old blocks that were going to be filled are, and new ones that are  *)
(* dominated.                                                               *)
LEMMA EnteredGrows ==
  ASSUME BlocksGrow, Entered,
         \A b \in 1 .. Len(blocks) : Live(b)' => Live(b) \/ Dominated(b),
         \A b \in 1 .. Len(blocks') \ 1 .. Len(blocks) :
           b \in blocks'[b].doms /\ (Live(b)' => Dominated(b)')
  PROVE  Entered'
<1> SUFFICES ASSUME NEW b \in 1 .. Len(blocks')
             PROVE  b \in blocks'[b].doms /\ (Live(b)' => Dominated(b)')
  BY DEF Entered
<1>1. CASE b \in 1 .. Len(blocks)
  <2>1. b \in blocks'[b].doms  BY <1>1 DEF Entered, BlocksGrow
  <2>2. Live(b)' => Dominated(b)  BY <1>1 DEF Entered
  <2> QED  BY <1>1, <2>1, <2>2, DominatedStays
<1>2. CASE b \notin 1 .. Len(blocks)  BY <1>2
<1> QED  BY <1>1, <1>2

(* Who may fill a block after a step. *)
LEMMA LiveAfterReturn ==
  ASSUME IInv, outcome = "running", Grown, NEW v \in Value, Return(v), outcome' = "running",
         NEW b \in Nat \ {0}, Live(b)'
  PROVE  b = block' \/ Live(b)
<1>1. PICK p \in Nat : OwnsAt(p, b)'  BY DEF Live
<1>2. CASE p = 0  BY <1>1, <1>2, BuilderAfter
<1>3. CASE p # 0
  <2>1. OwnsAt(p, b)  BY <1>1, <1>3, PlacesAfterReturn
  <2> QED  BY <2>1 DEF Live
<1> QED  BY <1>2, <1>3

LEMMA LiveAfter ==
  ASSUME IInv, outcome = "running", NEW m, m = Len(stack), NEW g,
         Continues(m, g) \/ \E k : WaitsFor(m, g, k), NEW b \in Nat \ {0}, Live(b)'
  PROVE  b = block' \/ Owns(g, b) \/ Live(b)
<1>1. PICK p \in Nat : OwnsAt(p, b)'  BY DEF Live
<1>2. m \in 1 .. Len(stack) /\ m \in Nat  BY Running
<1>3. CASE p = 0  BY <1>1, <1>3, BuilderAfter
<1>4. CASE p # 0
  <2>1. /\ p < m => (OwnsAt(p, b)' <=> OwnsAt(p, b))
        /\ p = m => (OwnsAt(p, b)' <=> Owns(g, b))
        /\ m < p => ~OwnsAt(p, b)'
    BY <1>2, <1>4, PlacesAfter
  <2>2. p < m \/ p = m \/ m < p  BY <1>2
  <2>3. OwnsAt(p, b) => Live(b)  BY DEF Live
  <2> QED  BY <1>1, <2>1, <2>2, <2>3
<1> QED  BY <1>3, <1>4

(* The block the builder is in, and those of the innermost activation, are. *)
LEMMA LiveNow ==
  ASSUME IInv, outcome = "running"
  PROVE  Live(block) /\ \A b : Owns(Top, b) => Live(b)
<1>1. OwnsAt(0, block)  BY DEF OwnsAt
<1>2. Len(stack) \in Nat /\ \A b : OwnsAt(Len(stack), b) <=> Owns(Top, b)  BY Running, PlacesBefore
<1>3. 0 \in Nat  OBVIOUS
<1> QED  BY <1>1, <1>2, <1>3 DEF Live
-----------------------------------------------------------------------------
LEMMA EnteredStays ==
  ASSUME IInv, Entered, blocks' = Ended(block) \/ blocks' = blocks,
         \A b \in Nat \ {0} : Live(b)' => Live(b)
  PROVE  Entered'
<1>1. BlocksGrow /\ Len(blocks') = Len(blocks) /\ Len(blocks) \in Nat
  BY LastBlocksGrow DEF BlocksGrow
<1>2. \A b \in 1 .. Len(blocks) : b \in Nat \ {0}  BY <1>1
<1> QED  BY <1>1, <1>2, EnteredGrows

LEMMA QuietEntered == ASSUME IInv, Entered, Quiet, outcome' = "running" PROVE Entered'
<1>1. outcome = "running" /\ Grown /\ block' = block /\ ~Stopped
  BY QuietShape DEF Stopped
<1>2. PICK v \in Value : Return(v)  BY <1>1, QuietShape
<1>3. blocks' = blocks
  BY DEF Quiet, Constant, LoadSymbol, StoreSymbol, Operator, AddressOf, ImmediateContext, Lambda,
     Emitted
<1>4. ASSUME NEW b \in Nat \ {0}, Live(b)' PROVE Live(b)
  BY <1>1, <1>2, <1>4, LiveAfterReturn, LiveNow
<1> QED  BY <1>3, <1>4, EnteredStays

LEMMA CallEntered == ASSUME IInv, Entered, Call, outcome' = "running" PROVE Entered'
<1>1. outcome = "running" /\ Grown  BY CallShape
<1>2. PICK v \in Value : Return(v) /\ block' = block /\ (blocks' = Ended(block) \/ blocks' = blocks)
  BY DEF Call, Value
<1>3. ASSUME NEW b \in Nat \ {0}, Live(b)' PROVE Live(b)
  BY <1>1, <1>2, <1>3, LiveAfterReturn, LiveNow
<1> QED  BY <1>2, <1>3, EnteredStays

(* The block an if goes to next is one it has put off. *)
LEMMA NextIsLive ==
  ASSUME IInv, outcome = "running", Len(Top.next) \in {1, 2}
  PROVE  Live(Top.next[1]) /\ (Len(Top.next) = 2 => Live(Top.next[2]))
<1>1. PICK f : f = Top  OBVIOUS
<1>2. f.next \in Seq(1 .. Len(blocks))  BY <1>1, TopFacts
<1>3. DOMAIN f.next = 1 .. Len(f.next)  BY <1>2, LenProperties
<1>4. 1 \in DOMAIN f.next /\ (Len(f.next) = 2 => 2 \in DOMAIN f.next)  BY <1>1, <1>3
<1>5. Owns(f, f.next[1]) /\ (Len(f.next) = 2 => Owns(f, f.next[2]))  BY <1>4 DEF Owns
<1> QED  BY <1>1, <1>5, LiveNow

LEMMA EndIfEntered == ASSUME IInv, Entered, EndIf, outcome' = "running" PROVE Entered'
<1>1. /\ outcome = "running" /\ Grown /\ blocks' = Ended(block) /\ block' = Top.next[1]
      /\ Len(Top.next) = 1
  BY EndIfShape
<1>2. PICK v \in Value : Return(v)  BY DEF EndIf, Value
<1>3. Live(Top.next[1])  BY <1>1, NextIsLive
<1>4. ASSUME NEW b \in Nat \ {0}, Live(b)' PROVE Live(b)
  BY <1>1, <1>2, <1>3, <1>4, LiveAfterReturn
<1> QED  BY <1>1, <1>4, EnteredStays

LEMMA ElseEntered == ASSUME IInv, Entered, Else PROVE Entered'
<1>1. PICK f, g, m : f = Top /\ m = Len(stack) /\ g = [f EXCEPT !.next = Tail(@)]  OBVIOUS
<1>2. /\ outcome = "running" /\ blocks' = Ended(block) /\ block' = f.next[1]
      /\ Len(f.next) = 2 /\ Continues(m, g) /\ Tail(f.next) \in Seq(1 .. Len(blocks))
      /\ Len(Tail(f.next)) = 1 /\ Tail(f.next)[1] = f.next[2]
  BY <1>1, ElseShape
<1>3. f \in Frames  BY <1>1, <1>2, TopFacts
<1>4. g.next = Tail(f.next) /\ g.site = f.site  BY <1>1, <1>3 DEF Frames
<1>5. Live(f.next[1]) /\ Live(f.next[2])  BY <1>1, <1>2, NextIsLive
<1>6. ASSUME NEW b, Owns(g, b) PROVE Live(b)
  <2>1. CASE g.site.block = b
    <3>1. Owns(f, b)  BY <2>1, <1>4 DEF Owns
    <3> QED  BY <3>1, <1>1, <1>2, LiveNow
  <2>2. CASE g.site.block # b
    <3>1. PICK k \in DOMAIN g.next : g.next[k] = b  BY <2>2, <1>6 DEF Owns
    <3>2. DOMAIN g.next = 1 .. 1  BY <1>2, <1>4, LenProperties
    <3>3. b = f.next[2]  BY <3>1, <3>2, <1>2, <1>4
    <3> QED  BY <3>3, <1>5
  <2> QED  BY <2>1, <2>2
<1>7. ASSUME NEW b \in Nat \ {0}, Live(b)' PROVE Live(b)
  BY <1>1, <1>2, <1>5, <1>6, <1>7, LiveAfter
<1> QED  BY <1>2, <1>7, EnteredStays

LEMMA VisitEntered == ASSUME IInv, Entered, Visit PROVE Entered'
<1>1. PICK k, f, m : f = Top /\ m = Len(stack) /\ WaitsFor(m, f, k)  BY VisitShape
<1>2. outcome = "running" /\ block' = block /\ blocks' = blocks  BY DEF Visit
<1>3. ASSUME NEW b \in Nat \ {0}, Live(b)' PROVE Live(b)
  BY <1>1, <1>2, <1>3, LiveAfter, LiveNow
<1> QED  BY <1>2, <1>3, EnteredStays

LEMMA EndFunctionEntered == ASSUME IInv, Entered, EndFunction PROVE Entered'
<1>1. PICK f, g, m : f = Top /\ m = Len(stack) /\ g = Resumed  OBVIOUS
<1>2. /\ outcome = "running" /\ Generating(f) /\ blocks' = Ended(block) /\ block' = f.site.block
      /\ Continues(m, g) /\ g.next = << >> /\ g.site = NoSite
  BY <1>1, EndFunctionShape
<1>3. Live(f.site.block)
  <2>1. Owns(f, f.site.block)  BY DEF Owns
  <2> QED  BY <2>1, <1>1, <1>2, LiveNow
<1>4. \A b \in Nat \ {0} : ~Owns(g, b)  BY <1>2 DEF Owns, NoSite, Null
<1>5. ASSUME NEW b \in Nat \ {0}, Live(b)' PROVE Live(b)
  BY <1>1, <1>2, <1>3, <1>4, <1>5, LiveAfter
<1> QED  BY <1>2, <1>5, EnteredStays

(* The builder and what is put off are in blocks that exist. *)
LEMMA LiveExists ==
  ASSUME IInv, outcome = "running", NEW b \in Nat \ {0}, Live(b)
  PROVE  b \in 1 .. Len(blocks)
BY OwnedExists DEF Live

LEMMA BranchEntered == ASSUME BInv, Entered, Branch PROVE Entered'
<1>1. IInv /\ outcome = "running" /\ Builder  BY DEF BInv, Branch, At
<1>2. PICK n, f, g, m, fn, b0 :
        /\ n = Len(blocks) /\ f = Top /\ m = Len(stack) /\ g = [f EXCEPT !.next = <<n + 2, n + 3>>]
        /\ fn = currFunc /\ b0 = block
  OBVIOUS
<1>3. /\ Grown /\ n \in Nat /\ block' = n + 1 /\ Continues(m, g) /\ Len(blocks') = n + 3
      /\ \A b \in 1 .. n : blocks'[b].fn = blocks[b].fn /\ blocks'[b].doms = blocks[b].doms
      /\ \A i \in 1 .. 3 : /\ blocks'[n + i].fn = fn
                           /\ blocks'[n + i].doms = blocks[b0].doms \cup {n + i}
  BY <1>1, <1>2, BranchShape
<1>4. BlocksGrow  BY <1>2, <1>3 DEF BlocksGrow
<1>5. f \in Frames  BY <1>1, <1>2, TopFacts
<1>6. g.next = <<n + 2, n + 3>> /\ g.site = f.site  BY <1>2, <1>5 DEF Frames
<1>7. ASSUME NEW b \in 1 .. n, Live(b)' PROVE Live(b)
  <2>1. b \in Nat \ {0} /\ b # n + 1 /\ b # n + 2 /\ b # n + 3  BY <1>3
  <2>2. ASSUME Owns(g, b) PROVE Live(b)
    <3>1. \A k \in DOMAIN g.next : g.next[k] \in {n + 2, n + 3}  BY <1>6
    <3>2. Owns(f, b)  BY <2>1, <2>2, <3>1, <1>6 DEF Owns
    <3> QED  BY <3>2, <1>1, <1>2, LiveNow
  <2> QED  BY <1>1, <1>2, <1>3, <1>7, <2>1, <2>2, LiveAfter
<1>8. b0 \in 1 .. n /\ blocks[b0].fn = fn /\ b0 \in Named(fn)
  BY <1>1, <1>2, Running DEF Builder, Named
<1>9. Dominated(b0)  BY <1>1, <1>2, <1>8, LiveNow DEF Entered
<1>10. ASSUME NEW b \in 1 .. Len(blocks') \ 1 .. Len(blocks)
       PROVE  b \in blocks'[b].doms /\ Dominated(b)'
  <2>1. b = n + 1 \/ b = n + 2 \/ b = n + 3  BY <1>2, <1>3
  <2>2. blocks'[b].fn = fn /\ blocks'[b].doms = blocks[b0].doms \cup {b}  BY <2>1, <1>3
  <2>3. \A e : IsEntry(e, fn)' => IsEntry(e, fn)  BY <1>4, <1>8, EntryStays
  <2>4. \A e : IsEntry(e, fn)' => e \in blocks'[b].doms  BY <2>2, <2>3, <1>8, <1>9 DEF Dominated
  <2>5. Dominated(b)' <=> \A e : IsEntry(e, fn)' => e \in blocks'[b].doms
    BY <2>2 DEF Dominated, IsEntry, Named
  <2> QED  BY <2>2, <2>4, <2>5
<1>11. \A b \in 1 .. Len(blocks) : Live(b)' => Live(b)  BY <1>2, <1>7
<1> QED  BY <1>4, <1>10, <1>11, EnteredGrows

LEMMA GenerateEntered == ASSUME BInv, Entered, Generate PROVE Entered'
<1>1. IInv /\ outcome = "running"  BY DEF BInv, Generate, At
<1>2. PICK n, f, g, m, name, ret :
        /\ n = Len(blocks) /\ f = Top /\ m = Len(stack) /\ g = PutOff
        /\ name = CalleeName(Top) /\ ret = Inst(Top).ret
  OBVIOUS
<1>3. /\ n \in Nat /\ Len(blocks') = n + 1 /\ \A b \in 1 .. n : blocks'[b] = blocks[b]
      /\ blocks'[n + 1] = Block(name, {n + 1}) /\ WaitsFor(m, g, ret)
  BY <1>1, <1>2, GenerateShape
<1>4. PICK e : /\ block' = e /\ IsEntry(e, name)'
               /\ IsEntry(e, name) \/ (e = n + 1 /\ \A d : IsEntry(d, name)' => d = e)
  BY <1>1, <1>2, GenerateEntry
<1>5. BlocksGrow  BY <1>1, <1>2, GenerateEntry
<1>6. f \in Frames /\ f.next \in Seq(1 .. n) /\ block \in 1 .. n
  BY <1>1, <1>2, TopFacts, Running
<1>7. g.next = f.next /\ g.site.block = block  BY <1>2, <1>6 DEF PutOff, Frames
<1>8. ASSUME NEW b, Owns(g, b) PROVE Live(b)
  <2>1. CASE b = block  BY <2>1, <1>1, LiveNow
  <2>2. CASE b # block
    <3>1. Owns(f, b)  BY <2>2, <1>7, <1>8 DEF Owns
    <3> QED  BY <3>1, <1>1, <1>2, LiveNow
  <2> QED  BY <2>1, <2>2
<1>9. ASSUME NEW b \in Nat \ {0}, Live(b)' PROVE b = e \/ Live(b)
  BY <1>1, <1>2, <1>3, <1>4, <1>8, <1>9, LiveAfter
<1>10. ASSUME NEW b \in 1 .. n, Live(b)' PROVE Live(b) \/ Dominated(b)
  <2>1. b \in Nat \ {0}  BY <1>3
  <2>2. CASE Live(b)  BY <2>2
  <2>3. CASE b = e
    <3>1. e # n + 1  BY <2>3, <1>3
    <3>2. IsEntry(e, name)  BY <3>1, <1>4
    <3>3. blocks[b].fn = name /\ b \in blocks[b].doms
      BY <2>3, <3>2, <1>2 DEF IsEntry, Named, Entered
    <3>4. \A d : IsEntry(d, name) => d = e  BY <3>2, <1>2, <1>3, TheEntry
    <3> QED  BY <2>3, <3>3, <3>4 DEF Dominated
  <2> QED  BY <2>1, <2>2, <2>3, <1>9, <1>10
<1>11. ASSUME NEW b \in 1 .. Len(blocks') \ 1 .. Len(blocks)
       PROVE  b \in blocks'[b].doms /\ (Live(b)' => Dominated(b)')
  <2>1. b = n + 1 /\ b \in Nat \ {0} /\ ~ (b \in 1 .. Len(blocks))  BY <1>2, <1>3
  <2>2. blocks'[b].fn = name /\ blocks'[b].doms = {b}  BY <2>1, <1>3 DEF Block
  <2>3. ASSUME Live(b)' PROVE Dominated(b)'
    <3>1. b = e  BY <2>1, <2>3, <1>1, <1>9, LiveExists
    <3>2. ~IsEntry(e, name)  BY <2>1, <3>1 DEF IsEntry, Named
    <3>3. \A d : IsEntry(d, name)' => d \in blocks'[b].doms  BY <2>2, <3>1, <3>2, <1>4
    <3> QED  BY <2>2, <3>3 DEF Dominated, IsEntry, Named
  <2> QED  BY <2>2, <2>3
<1> QED  BY <1>2, <1>5, <1>10, <1>11, EnteredGrows
-----------------------------------------------------------------------------
(* What an activation is part of. *)
LEMMA ParameterFacts ==
  ASSUME IInv, NEW s \in Params
  PROVE  \E c \in 1 .. Len(program.inst) :
           /\ s \in program.inst[c].params
           /\ program.node[s].kids = << >> /\ s \notin Visited(program)[Len(program.node)]
           /\ \A d \in 1 .. Len(program.inst) :
                s \in program.inst[d].params \cup program.inst[d].captures
                        \cup Visited(program)[program.inst[d].ret] => d = c
<1>1. ParametersOwned(program)  BY ParametersAssumption DEF IInv
<1>2. PICK c \in 1 .. Len(program.inst) : s \in program.inst[c].params  BY DEF Params
<1>3. /\ program.node[s].kids = << >> /\ s \notin Visited(program)[Len(program.node)]
      /\ \A d \in 1 .. Len(program.inst) \ {c} :
           s \notin program.inst[d].params \cup program.inst[d].captures
                      \cup Visited(program)[program.inst[d].ret]
  BY <1>1, <1>2 DEF ParametersOwned
<1> QED  BY <1>2, <1>3

(* Of an activation only its expression says whose it is. *)
LEMMA OfTheExpression ==
  ASSUME program' = program, NEW i, stack'[i].n = stack[i].n
  PROVE  /\ CalleeName(stack[i])' = CalleeName(stack[i]) /\ Index(stack[i])' = Index(stack[i])
         /\ Inst(stack[i])' = Inst(stack[i])
<1>1. PICK f, g : f = stack[i] /\ g = stack'[i] /\ g.n = f.n  OBVIOUS
<1>2. Index(stack[i])' = Index(stack[i]) /\ Kids(stack[i])' = Kids(stack[i])
  BY <1>1 DEF Index, Kids
<1> QED  BY <1>2 DEF CalleeName, Inst

NodesStay ==
  \A i \in Nat : i \in 1 .. Len(stack) /\ i \in 1 .. Len(stack') => stack'[i].n = stack[i].n

LEMMA NodesOfSurvivors ==
  ASSUME IInv, outcome = "running", NEW m \in 1 .. Len(stack), NEW g, g.n = stack[m].n,
         Continues(m, g) \/ (m = Len(stack) /\ \E k : WaitsFor(m, g, k))
  PROVE  NodesStay /\ \A i \in Nat : i \in 1 .. Len(stack') => i \in 1 .. Len(stack) \/ i = m + 1
<1>1. Len(stack) \in Nat /\ m \in Nat  BY Running
<1>2. Survives(m, g) /\ (Len(stack') = m \/ (Len(stack') = m + 1 /\ m = Len(stack)))
  BY DEF Continues, WaitsFor
<1>3. ASSUME NEW i \in Nat, i \in 1 .. Len(stack), i \in 1 .. Len(stack')
      PROVE  stack'[i].n = stack[i].n
  <2>1. i \in 1 .. m - 1 \/ i = m  BY <1>1, <1>2, <1>3
  <2> QED  BY <2>1, <1>2 DEF Survives
<1> QED  BY <1>1, <1>2, <1>3 DEF NodesStay

(* What is below an activation, and so what it is part of, stays.           *)
LEMMA InsideStays ==
  ASSUME IInv, outcome = "running", program' = program, NodesStay,
         NEW k \in 1 .. Len(stack), k \in 1 .. Len(stack'), Inside(k),
         \A j \in Nat : j < k => (PutOffAt(j)' <=> PutOffAt(j))
  PROVE  Inside(k)'
<1>1. Len(stack) \in Nat /\ k \in Nat \ {0}  BY Running
<1>2. PICK a \in 0 .. k - 1 : /\ a = 0 \/ PutOffAt(a)
                              /\ \A j \in Nat : a < j /\ j < k => ~PutOffAt(j)
                              /\ stack[k].n \in Visited(program)[Root(a)]
  BY DEF Inside
<1>3. a \in Nat /\ a < k  BY <1>1
<1>4. a = 0 \/ PutOffAt(a)'  BY <1>2, <1>3
<1>5. \A j \in Nat : a < j /\ j < k => ~PutOffAt(j)'  BY <1>2
<1>6. stack'[k].n = stack[k].n  BY <1>1 DEF NodesStay
<1>7. Root(a)' = Root(a)
  <2>1. CASE a = 0  BY <2>1 DEF Root
  <2>2. CASE a # 0
    <3>1. PutOffAt(a) /\ PutOffAt(a)'  BY <2>2, <1>2, <1>4
    <3>2. a \in 1 .. Len(stack) /\ a \in 1 .. Len(stack')  BY <3>1 DEF PutOffAt
    <3>3. stack'[a].n = stack[a].n  BY <1>3, <3>2 DEF NodesStay
    <3>4. Inst(stack[a])' = Inst(stack[a])  BY <3>3, OfTheExpression
    <3> QED  BY <2>2, <3>4 DEF Root
  <2> QED  BY <2>1, <2>2
<1>8. stack'[k].n \in Visited(program')[Root(a)']  BY <1>2, <1>6, <1>7
<1>9. Visited(program)' = Visited(program')  OBVIOUS
<1> QED  BY <1>4, <1>5, <1>8 DEF Inside

(* The calls that are put off stay so, for the same instances, and          *)
(* parameters keep their storages.                                          *)
LEMMA BoundStays ==
  ASSUME IInv, outcome = "running", Bound, program' = program, BlocksGrow, SitesStay, NodesStay,
         \A i \in 1 .. Len(stack') : i \in 1 .. Len(stack) \/ Inside(i)',
         \A s \in DOMAIN storage' \cap Params : s \in DOMAIN storage /\ storage'[s] = storage[s]
  PROVE  Bound'
<1>1. \A j \in Nat : PutOffAt(j)' <=> PutOffAt(j)  BY DEF SitesStay
<1>2. ASSUME NEW i \in Nat, PutOffAt(i)
      PROVE  /\ CalleeName(stack[i])' = CalleeName(stack[i])
             /\ Index(stack[i])' = Index(stack[i]) /\ Inst(stack[i])' = Inst(stack[i])
  <2>1. PutOffAt(i)'  BY <1>1, <1>2
  <2>2. stack'[i].n = stack[i].n  BY <1>2, <2>1 DEF PutOffAt, NodesStay
  <2> QED  BY <2>2, OfTheExpression
<1>3. ASSUME NEW k \in 1 .. Len(stack') PROVE Inside(k)'
  <2>1. CASE k \in 1 .. Len(stack)  BY <2>1, <1>1, InsideStays DEF Bound
  <2> QED  BY <2>1
<1>4. Serving'
  <2> SUFFICES ASSUME NEW i \in Nat, PutOffAt(i)' PROVE Home(i + 1, CalleeName(stack[i]))'
    BY DEF Serving
  <2>1. PICK fn, j : fn = CalleeName(stack[i]) /\ j = i + 1  OBVIOUS
  <2>2. PutOffAt(i) /\ CalleeName(stack[i])' = fn  BY <1>1, <1>2, <2>1
  <2>3. Home(j, fn)  BY <2>1, <2>2 DEF Bound, Serving
  <2>4. Home(j, fn)'  BY <2>3, HomeStays
  <2> QED  BY <2>1, <2>2, <2>4 DEF Home
<1>5. Once'  BY <1>1, <1>2 DEF Bound, Once
<1>6. Stores'
  <2> SUFFICES ASSUME NEW s \in DOMAIN storage' \cap Params'
               PROVE  \E i \in Nat : /\ PutOffAt(i)' /\ s \in Inst(stack[i])'.params
                                     /\ IsEntry(storage[s], CalleeName(stack[i]))'
    BY DEF Stores
  <2>1. Params' = Params  BY DEF Params
  <2>2. PICK b : b = storage[s] /\ b = storage'[s] /\ s \in DOMAIN storage \cap Params  BY <2>1
  <2>3. PICK i \in Nat : /\ PutOffAt(i) /\ s \in Inst(stack[i]).params
                         /\ IsEntry(b, CalleeName(stack[i]))
    BY <2>2 DEF Bound, Stores
  <2>4. PICK fn : fn = CalleeName(stack[i])  OBVIOUS
  <2>5. IsEntry(b, fn)'  BY <2>3, <2>4, EntryStays DEF IsEntry
  <2>6. IsEntry(storage[s], CalleeName(stack[i]))'  BY <2>2, <2>3, <2>4, <2>5, <1>2 DEF IsEntry, Named
  <2> QED  BY <2>3, <2>6, <1>1, <1>2
<1> QED  BY <1>3, <1>4, <1>5, <1>6 DEF Bound

LEMMA RootFacts ==
  ASSUME IInv, NEW a, a = 0 \/ PutOffAt(a)
  PROVE  Root(a) \in 1 .. Len(program.node)
<1>1. CASE a = 0
  <2>1. program.node \in Seq(Node) /\ program.node # << >>
    BY ProgramsAssumption DEF IInv, ProgramOK
  <2>2. Len(program.node) \in 1 .. Len(program.node)  BY <2>1, EmptySeq, LenProperties
  <2> QED  BY <1>1, <2>2 DEF Root
<1>2. CASE a # 0
  <2>1. PICK f : f = stack[a]  OBVIOUS
  <2>2. a \in 1 .. Len(stack) /\ Generating(f)  BY <1>2, <2>1 DEF PutOffAt
  <2>3. FrameOK(f) /\ f.n \in 1 .. Len(program.node)  BY <2>1, <2>2, FrameFacts
  <2>4. program.node[f.n].op = "call"  BY <2>2, <2>3 DEF FrameOK, Op
  <2>5. program.inst[program.node[f.n].inst].ret \in 1 .. Len(program.node)
    BY <2>3, <2>4, NodeFacts
  <2> QED  BY <1>2, <2>1, <2>5 DEF Root, Inst, Index
<1> QED  BY <1>1, <1>2

(* A step in which an activation returns. *)
LEMMA ReturnBound ==
  ASSUME IInv, outcome = "running", Bound, Grown, BlocksGrow, NEW v \in Value, Return(v),
         ~Generating(Top), currFunc' = currFunc, outcome' = "running",
         \A s \in DOMAIN storage' \cap Params : s \in DOMAIN storage /\ storage'[s] = storage[s]
  PROVE  Bound'
<1>1. PICK m, f, g : m = Len(stack) - 1 /\ f = stack[m] /\ g = Answering(v)  OBVIOUS
<1>2. Len(stack) > 1 /\ Continues(m, g)  BY <1>1, Returning DEF Stopped
<1>3. m \in Nat /\ m \in 1 .. Len(stack) /\ Len(stack) \in Nat /\ Len(stack) = m + 1
  BY <1>1, <1>2, Running
<1>4. g.n = stack[m].n  BY <1>1, <1>2, AnsweringFacts
<1>5. NodesStay  BY <1>2, <1>3, <1>4, NodesOfSurvivors
<1>6. SitesStay  BY ReturnLeaves
<1>7. \A i \in 1 .. Len(stack') : i \in 1 .. Len(stack)  BY <1>2, <1>3 DEF Continues
<1> QED  BY <1>5, <1>6, <1>7, BoundStays DEF Grown

(* Only symbols that have a right hand side are given a storage.            *)
LEMMA NoParameter ==
  ASSUME IInv, outcome = "running", Len(Kids(Top)) > 0, Top.n \in Params
  PROVE  FALSE
<1>1. PICK s : s = Top.n  OBVIOUS
<1>2. program.node[s].kids = << >>  BY <1>1, ParameterFacts
<1>3. Len(Kids(Top)) = 0  BY <1>1, <1>2, EmptySeq DEF Kids
<1> QED  BY <1>3

LEMMA QuietBound == ASSUME IInv, Bound, Quiet, outcome' = "running" PROVE Bound'
<1>1. outcome = "running" /\ Grown /\ currFunc' = currFunc /\ ~Generating(Top) /\ ~Stopped
  BY QuietShape DEF Stopped
<1>2. PICK v \in Value : Return(v)  BY <1>1, QuietShape
<1>3. blocks' = blocks
  BY DEF Quiet, Constant, LoadSymbol, StoreSymbol, Operator, AddressOf, ImmediateContext, Lambda,
     Emitted
<1>4. BlocksGrow  BY <1>3, LastBlocksGrow
<1>5. ASSUME NEW s \in DOMAIN storage' \cap Params
      PROVE  s \in DOMAIN storage /\ storage'[s] = storage[s]
  <2>1. CASE StoreSymbol
    <3>1. PICK f : f = Top  OBVIOUS
    <3>2. FrameOK(f) /\ Len(Kids(f)) \in Nat  BY <1>1, <3>1, TopFacts
    <3>3. Len(f.vals) = 1 /\ ~Generating(f)  BY <1>1, <2>1, <3>1 DEF StoreSymbol, Answered
    <3>4. Len(Kids(Top)) > 0  BY <3>1, <3>2, <3>3 DEF FrameOK
    <3>5. Top.n \notin Params  BY <1>1, <3>4, NoParameter
    <3>6. storage' = Assign(storage, Top.n, block)  BY <2>1 DEF StoreSymbol
    <3> QED  BY <1>5, <3>5, <3>6 DEF Assign
  <2>2. CASE ~StoreSymbol
    <3>1. storage' = storage
      BY <2>2 DEF Quiet, Constant, LoadSymbol, Operator, AddressOf, ImmediateContext, Lambda, Emitted
    <3> QED  BY <1>5, <3>1
  <2> QED  BY <2>1, <2>2
<1> QED  BY <1>1, <1>2, <1>4, <1>5, ReturnBound

LEMMA CallBound == ASSUME IInv, Bound, Call, outcome' = "running" PROVE Bound'
<1>1. outcome = "running" /\ Grown /\ Complete(Top)  BY CallShape
<1>2. PICK v \in Value : Return(v)  BY DEF Call, Value
<1>3. /\ blocks' = Ended(block) \/ blocks' = blocks
      /\ currFunc' = currFunc /\ storage' = storage
  BY DEF Call
<1> QED  BY <1>1, <1>2, <1>3, LastBlocksGrow, NotPutOff, ReturnBound

LEMMA EndIfBound == ASSUME IInv, Bound, EndIf, outcome' = "running" PROVE Bound'
<1>1. outcome = "running" /\ Grown /\ Op(Top) = "if" /\ blocks' = Ended(block)  BY EndIfShape
<1>2. PICK v \in Value : Return(v)  BY DEF EndIf, Value
<1>3. currFunc' = currFunc /\ storage' = storage  BY DEF EndIf
<1> QED  BY <1>1, <1>2, <1>3, LastBlocksGrow, NotPutOff, ReturnBound

(* A step in which the innermost activation goes on. *)
LEMMA UpdateBound ==
  ASSUME IInv, outcome = "running", Bound, Grown, BlocksGrow, NEW m, m = Len(stack),
         NEW f, f = Top, NEW g, g.n = f.n, g.site = f.site, Continues(m, g),
         currFunc' = currFunc, storage' = storage
  PROVE  Bound'
<1>1. m \in 1 .. Len(stack) /\ m \in Nat /\ f = stack[m]  BY Running DEF Top
<1>2. NodesStay  BY <1>1, NodesOfSurvivors
<1>3. SitesStay  BY SameSites
<1>4. \A i \in 1 .. Len(stack') : i \in 1 .. Len(stack)  BY DEF Continues
<1> QED  BY <1>2, <1>3, <1>4, BoundStays DEF Grown

LEMMA BranchBound == ASSUME IInv, Bound, Branch PROVE Bound'
<1>1. PICK n, f, g, m :
        n = Len(blocks) /\ f = Top /\ m = Len(stack) /\ g = [f EXCEPT !.next = <<n + 2, n + 3>>]
  OBVIOUS
<1>2. /\ outcome = "running" /\ Grown /\ n \in Nat /\ Continues(m, g) /\ Len(blocks') = n + 3
      /\ \A b \in 1 .. n : blocks'[b].fn = blocks[b].fn /\ blocks'[b].doms = blocks[b].doms
  BY <1>1, BranchShape
<1>3. f \in Frames  BY <1>1, <1>2, TopFacts
<1>4. g.n = f.n /\ g.site = f.site  BY <1>1, <1>3 DEF Frames
<1>5. BlocksGrow  BY <1>1, <1>2 DEF BlocksGrow
<1>6. currFunc' = currFunc /\ storage' = storage  BY DEF Branch
<1> QED  BY <1>1, <1>2, <1>4, <1>5, <1>6, UpdateBound

LEMMA ElseBound == ASSUME IInv, Bound, Else PROVE Bound'
<1>1. PICK f, g, m : f = Top /\ m = Len(stack) /\ g = [f EXCEPT !.next = Tail(@)]  OBVIOUS
<1>2. outcome = "running" /\ Grown /\ blocks' = Ended(block) /\ Continues(m, g)
  BY <1>1, ElseShape
<1>3. f \in Frames  BY <1>1, <1>2, TopFacts
<1>4. g.n = f.n /\ g.site = f.site  BY <1>1, <1>3 DEF Frames
<1>5. currFunc' = currFunc /\ storage' = storage  BY DEF Else
<1> QED  BY <1>1, <1>2, <1>4, <1>5, LastBlocksGrow, UpdateBound

(* An operand is part of what the activation is part of. *)
LEMMA VisitBound == ASSUME IInv, Bound, Visit PROVE Bound'
<1>1. PICK k, f, m : /\ f = Top /\ m = Len(stack) /\ WaitsFor(m, f, k) /\ WaitingOK(f) /\ Grown
                     /\ k \in 1 .. Len(program.node) /\ k = Kids(f)[Len(f.vals) + 1]
  BY VisitShape
<1>2. /\ outcome = "running" /\ currFunc' = currFunc /\ blocks' = blocks
      /\ Len(f.vals) < Len(Kids(f))
  BY <1>1 DEF Visit
<1>3. m \in 1 .. Len(stack) /\ m \in Nat /\ f = stack[m] /\ stack # << >>
  BY <1>1, <1>2, Running DEF Top
<1>4. /\ f \in Frames /\ f.n \in 1 .. Len(program.node) /\ Len(f.vals) \in Nat
      /\ Len(Kids(f)) \in Nat /\ InnermostOK(f)
  BY <1>1, <1>2, TopFacts
<1>5. ~Generating(f)
  <2>1. Len(f.vals) # Len(Kids(f)) + 1  BY <1>2, <1>4
  <2> QED  BY <1>4, <2>1 DEF InnermostOK, Answered
<1>6. NodesStay /\ \A i \in Nat : i \in 1 .. Len(stack') => i \in 1 .. Len(stack) \/ i = m + 1
  BY <1>1, <1>2, <1>3, NodesOfSurvivors
<1>7. SitesStay  BY <1>1, <1>2, <1>3, SameSites
<1>8. Inside(m + 1)'
  <2>1. PICK a \in 0 .. m - 1 : /\ a = 0 \/ PutOffAt(a)
                                /\ \A j \in Nat : a < j /\ j < m => ~PutOffAt(j)
                                /\ f.n \in Visited(program)[Root(a)]
    BY <1>3 DEF Bound, Inside
  <2>2. a \in Nat /\ a \in 0 .. m  BY <1>3
  <2>3. a = 0 \/ PutOffAt(a)'  BY <1>7, <2>1, <2>2 DEF SitesStay
  <2>4. ~PutOffAt(m)  BY <1>3, <1>5 DEF PutOffAt
  <2>5. \A j \in Nat : a < j /\ j < m + 1 => ~PutOffAt(j)'
    <3> SUFFICES ASSUME NEW j \in Nat, a < j, j < m + 1 PROVE ~PutOffAt(j)  BY <1>7 DEF SitesStay
    <3>1. j < m \/ j = m  BY <1>3
    <3> QED  BY <3>1, <2>1, <2>4
  <2>6. k \in Visited(program)[Root(a)]
    <3>1. PICK r : r = Root(a)  OBVIOUS
    <3>2. r \in 1 .. Len(program.node)  BY <2>1, <3>1, RootFacts
    <3>3. Len(f.vals) + 1 \in 1 .. Len(Kids(f))  BY <1>2, <1>4
    <3>4. \A i \in 1 .. Len(Kids(f)) : Kids(f)[i] \in Visited(program)[r]
      BY <2>1, <3>1, <3>2, VisitedFacts DEF Kids
    <3> QED  BY <1>1, <3>1, <3>3, <3>4
  <2>7. stack'[m + 1].n = k  BY <1>1 DEF WaitsFor, Activation
  <2>8. program' = program  BY DEF Visit
  <2>9. Root(a)' = Root(a)
    <3>1. CASE a = 0  BY <2>8, <3>1 DEF Root
    <3>2. CASE a # 0
      <4>1. PutOffAt(a) /\ PutOffAt(a)'  BY <3>2, <2>1, <2>3
      <4>2. stack'[a].n = stack[a].n  BY <1>6, <2>2, <4>1 DEF PutOffAt, NodesStay
      <4> QED  BY <3>2, <2>8, <4>2, OfTheExpression DEF Root
    <3> QED  BY <3>1, <3>2
  <2>10. PICK h : h = m + 1  OBVIOUS
  <2>11. a \in 0 .. h - 1  BY <2>2, <2>10, <1>3
  <2>12. stack'[h].n \in Visited(program')[Root(a)']  BY <2>6, <2>7, <2>8, <2>9, <2>10
  <2>13. Inside(h)'  BY <2>3, <2>5, <2>10, <2>11, <2>12 DEF Inside
  <2> QED  BY <2>10, <2>13 DEF Inside
<1>9. ASSUME NEW s \in DOMAIN storage' \cap Params
      PROVE  s \in DOMAIN storage /\ storage'[s] = storage[s]
  <2>1. Len(Kids(Top)) > 0  BY <1>1, <1>2, <1>4
  <2>2. Top.n \notin Params  BY <1>2, <2>1, NoParameter
  <2>3. storage' = storage \/ storage' = Assign(storage, Top.n, Null)  BY DEF Visit
  <2> QED  BY <1>9, <2>2, <2>3 DEF Assign
<1>10. \A i \in 1 .. Len(stack') : i \in 1 .. Len(stack) \/ Inside(i)'
  <2> SUFFICES ASSUME NEW i \in 1 .. Len(stack'), i = m + 1 PROVE Inside(i)'  BY <1>6
  <2> QED  BY <1>8 DEF Inside
<1> QED  BY <1>1, <1>2, <1>6, <1>7, <1>9, <1>10, LastBlocksGrow, BoundStays DEF Grown

(* The call that is put off waits for the body of its instance, which no    *)
(* other call waits for; its parameters are in the entry of the function.   *)
LEMMA GenerateBound == ASSUME BInv, Bound, Generate PROVE Bound'
<1>1. IInv /\ outcome = "running"  BY DEF BInv, Generate, At
<1>2. PICK n, f, g, m, name, inst, ix :
        /\ n = Len(blocks) /\ f = Top /\ m = Len(stack) /\ g = PutOff
        /\ name = CalleeName(Top) /\ inst = Inst(Top) /\ ix = Index(Top)
  OBVIOUS
<1>3. /\ Grown /\ ~Generating(f) /\ n \in Nat /\ Op(f) = "call"
      /\ ix \in 1 .. Len(program.inst) /\ ix \notin DOMAIN made
      /\ currFunc' = name /\ WaitsFor(m, g, inst.ret)
      /\ storage' = [s \in DOMAIN storage \cup inst.captures \cup inst.params |->
                       IF s \in inst.captures \cup inst.params THEN block' ELSE storage[s]]
  BY <1>1, <1>2, GenerateShape
<1>4. PICK e : block' = e /\ IsEntry(e, name)'  BY <1>1, <1>2, GenerateEntry
<1>5. BlocksGrow  BY <1>1, <1>2, GenerateEntry
<1>6. f \in Frames /\ m \in Nat /\ m \in 1 .. Len(stack) /\ f = stack[m]
  BY <1>1, <1>2, TopFacts, Running DEF Top
<1>7. g.n = f.n  BY <1>2, <1>6 DEF PutOff, Frames
<1>8. program' = program  BY DEF Generate
<1>9. NodesStay /\ \A i \in Nat : i \in 1 .. Len(stack') => i \in 1 .. Len(stack) \/ i = m + 1
  BY <1>1, <1>2, <1>3, <1>6, <1>7, NodesOfSurvivors
<1>10. /\ \A j \in Nat : /\ PutOffAt(j)' <=> PutOffAt(j) \/ j = m
                         /\ PutOffAt(j) => j < m /\ stack'[j] = stack[j]
       /\ HomesStay
  BY <1>2, GenerateHomes
<1>11. ASSUME NEW i \in Nat, PutOffAt(i)'
       PROVE  /\ CalleeName(stack[i])' = CalleeName(stack[i])
              /\ Index(stack[i])' = Index(stack[i]) /\ Inst(stack[i])' = Inst(stack[i])
  <2>1. i \in 1 .. Len(stack) /\ i \in 1 .. Len(stack')
    BY <1>6, <1>10, <1>11 DEF PutOffAt
  <2> QED  BY <2>1, <1>8, <1>9, <1>11, OfTheExpression DEF NodesStay
<1>12. CalleeName(stack[m]) = name /\ Index(stack[m]) = ix /\ Inst(stack[m]) = inst
  BY <1>2, <1>6
<1>13. ASSUME NEW k \in 1 .. Len(stack') PROVE Inside(k)'
  <2>1. CASE k \in 1 .. Len(stack)
    <3>1. \A j \in Nat : j < k => (PutOffAt(j)' <=> PutOffAt(j))
      <4>1. k <= m /\ k \in Nat  BY <2>1, <1>2, <1>6
      <4> QED  BY <4>1, <1>6, <1>10
    <3> QED  BY <2>1, <3>1, <1>1, <1>8, <1>9, <1>13, InsideStays DEF Bound
  <2>2. CASE k = m + 1
    <3>1. m \in 0 .. k - 1 /\ PutOffAt(m)'  BY <2>2, <1>6, <1>10
    <3>2. \A j \in Nat : ~ (m < j /\ j < k)  BY <2>2, <1>6
    <3>3. stack'[k].n = inst.ret  BY <2>2, <1>3 DEF WaitsFor, Activation
    <3>4. Root(m)' = inst.ret  BY <1>6, <1>11, <1>12, <3>1 DEF Root
    <3>5. inst.ret \in Visited(program)[inst.ret]
      <4>1. PICK r : r = inst.ret  OBVIOUS
      <4>2. r \in 1 .. Len(program.node)  BY <1>1, <1>2, <4>1, GenerateShape
      <4> QED  BY <1>1, <4>1, <4>2, VisitedFacts
    <3>6. stack'[k].n \in Visited(program')[Root(m)']  BY <1>8, <3>3, <3>4, <3>5
    <3> QED  BY <3>1, <3>2, <3>6 DEF Inside
  <2>3. k \in Nat  BY <1>6
  <2> QED  BY <2>1, <2>2, <2>3, <1>9, <1>13
<1>14. Serving'
  <2> SUFFICES ASSUME NEW i \in Nat, PutOffAt(i)' PROVE Home(i + 1, CalleeName(stack[i]))'
    BY DEF Serving
  <2>1. PICK fn, j : fn = CalleeName(stack[i]) /\ j = i + 1  OBVIOUS
  <2>2. CalleeName(stack[i])' = fn  BY <1>11, <2>1
  <2>3. Home(j, fn)'
    <3>1. CASE PutOffAt(i)
      <4>1. Home(j, fn)  BY <3>1, <2>1 DEF Bound, Serving
      <4>2. j \in 1 .. Len(stack)  BY <3>1, <2>1, <1>2, <1>6, <1>10
      <4> QED  BY <4>1, <4>2, <1>10 DEF HomesStay
    <3>2. CASE i = m
      <4>1. fn = name  BY <3>2, <2>1, <1>12
      <4>2. \A h \in Nat : j <= h => ~PutOffAt(h)'
        <5> SUFFICES ASSUME NEW h \in Nat, j <= h, PutOffAt(h)' PROVE FALSE  OBVIOUS
        <5>1. m < h  BY <3>2, <2>1, <1>6
        <5>2. h < m \/ h = m  BY <1>10
        <5> QED  BY <5>1, <5>2, <1>6
      <4> QED  BY <4>1, <4>2, <1>3 DEF Home
    <3> QED  BY <3>1, <3>2, <1>10
  <2> QED  BY <2>1, <2>2, <2>3 DEF Home
<1>15. Once'
  <2>1. ASSUME NEW i \in Nat, PutOffAt(i) PROVE Index(stack[i]) # ix
    <3>1. PICK h : h = stack[i]  OBVIOUS
    <3>2. i \in 1 .. Len(stack) /\ Generating(h)  BY <2>1, <3>1 DEF PutOffAt
    <3>3. FrameOK(h)  BY <1>1, <3>1, <3>2, FrameFacts
    <3> QED  BY <1>3, <3>1, <3>2, <3>3 DEF FrameOK
  <2> SUFFICES ASSUME NEW i \in Nat, NEW j \in Nat, PutOffAt(i)', PutOffAt(j)',
                      Index(stack[i])' = Index(stack[j])'
               PROVE  i = j
    BY DEF Once
  <2>2. Index(stack[i]) = Index(stack[j])  BY <1>11
  <2>3. (PutOffAt(i) \/ i = m) /\ (PutOffAt(j) \/ j = m)  BY <1>10
  <2> QED  BY <2>1, <2>2, <2>3, <1>12 DEF Bound, Once
<1>16. Stores'
  <2> SUFFICES ASSUME NEW s \in DOMAIN storage' \cap Params'
               PROVE  \E i \in Nat : /\ PutOffAt(i)' /\ s \in Inst(stack[i])'.params
                                     /\ IsEntry(storage[s], CalleeName(stack[i]))'
    BY DEF Stores
  <2>1. s \in Params  BY <1>8 DEF Params
  <2>2. CASE s \in inst.captures \cup inst.params
    <3>1. s \in inst.params
      <4>1. inst = program.inst[ix]  BY <1>2 DEF Inst
      <4> QED  BY <2>1, <2>2, <4>1, <1>1, <1>3, ParameterFacts
    <3>2. storage'[s] = e  BY <2>2, <1>3, <1>4
    <3>3. PutOffAt(m)' /\ CalleeName(stack[m])' = name /\ Inst(stack[m])' = inst
      BY <1>6, <1>10, <1>11, <1>12
    <3>4. IsEntry(storage[s], CalleeName(stack[m]))'  BY <1>4, <3>2, <3>3 DEF IsEntry, Named
    <3> QED  BY <3>1, <3>3, <3>4, <1>6
  <2>3. CASE s \notin inst.captures \cup inst.params
    <3>1. PICK b : b = storage[s] /\ b = storage'[s] /\ s \in DOMAIN storage  BY <2>3, <1>3
    <3>2. PICK i \in Nat : /\ PutOffAt(i) /\ s \in Inst(stack[i]).params
                           /\ IsEntry(b, CalleeName(stack[i]))
      BY <2>1, <3>1 DEF Bound, Stores
    <3>3. PICK fn : fn = CalleeName(stack[i])  OBVIOUS
    <3>4. IsEntry(b, fn)'  BY <3>2, <3>3, <1>5, EntryStays DEF IsEntry
    <3>5. PutOffAt(i)'  BY <3>2, <1>10
    <3>6. IsEntry(storage[s], CalleeName(stack[i]))'
      BY <3>1, <3>3, <3>4, <3>5, <1>11 DEF IsEntry, Named
    <3> QED  BY <3>2, <3>5, <3>6, <1>11
  <2> QED  BY <2>2, <2>3
<1> QED  BY <1>13, <1>14, <1>15, <1>16 DEF Bound

(* Nobody waits for the body of the function that is complete.              *)
LEMMA EndFunctionBound == ASSUME BInv, Bound, EndFunction PROVE Bound'
<1>1. IInv /\ outcome = "running"  BY DEF BInv, EndFunction, At
<1>2. PICK f, g, m, inst :
        f = Top /\ m = Len(stack) /\ g = Resumed /\ inst = Inst(Top)
  OBVIOUS
<1>3. Grown /\ blocks' = Ended(block) /\ Continues(m, g) /\ g.n = f.n
  BY <1>1, <1>2, EndFunctionShape
<1>4. m \in Nat /\ m \in 1 .. Len(stack) /\ f = stack[m]  BY <1>1, <1>2, Running DEF Top
<1>5. program' = program /\ BlocksGrow  BY <1>1, <1>3, LastBlocksGrow DEF Grown
<1>6. NodesStay  BY <1>1, <1>3, <1>4, NodesOfSurvivors
<1>7. /\ \A j \in Nat : /\ PutOffAt(j)' <=> PutOffAt(j) /\ j # m
                        /\ PutOffAt(j) => j <= m /\ (j # m => stack'[j] = stack[j])
      /\ HomesStay
  BY <1>2, EndFunctionHomes
<1>8. ASSUME NEW i \in Nat, PutOffAt(i)'
      PROVE  /\ CalleeName(stack[i])' = CalleeName(stack[i])
             /\ Index(stack[i])' = Index(stack[i]) /\ Inst(stack[i])' = Inst(stack[i])
             /\ PutOffAt(i) /\ i # m /\ i + 1 \in 1 .. Len(stack)
  <2>1. PutOffAt(i) /\ i # m /\ i <= m  BY <1>7, <1>8
  <2>2. stack'[i].n = stack[i].n  BY <2>1, <1>7
  <2>3. i + 1 \in 1 .. Len(stack)  BY <2>1, <1>2, <1>4
  <2> QED  BY <2>1, <2>2, <2>3, <1>5, OfTheExpression
<1>9. ASSUME NEW k \in 1 .. Len(stack') PROVE Inside(k)'
  <2>1. Len(stack') = m  BY <1>3 DEF Continues
  <2>2. k \in 1 .. Len(stack) /\ k \in Nat /\ k <= m  BY <2>1, <1>2, <1>4
  <2>3. \A j \in Nat : j < k => (PutOffAt(j)' <=> PutOffAt(j))  BY <2>2, <1>4, <1>7
  <2> QED  BY <2>2, <2>3, <1>1, <1>5, <1>6, <1>9, InsideStays DEF Bound
<1>10. Serving'
  <2> SUFFICES ASSUME NEW i \in Nat, PutOffAt(i)' PROVE Home(i + 1, CalleeName(stack[i]))'
    BY DEF Serving
  <2>1. PICK fn, j : fn = CalleeName(stack[i]) /\ j = i + 1  OBVIOUS
  <2>2. CalleeName(stack[i])' = fn /\ PutOffAt(i) /\ j \in 1 .. Len(stack)  BY <1>8, <2>1
  <2>3. Home(j, fn)  BY <2>1, <2>2 DEF Bound, Serving
  <2>4. Home(j, fn)'  BY <2>2, <2>3, <1>7 DEF HomesStay
  <2> QED  BY <2>1, <2>2, <2>4 DEF Home
<1>11. Once'  BY <1>8 DEF Bound, Once
<1>12. Stores'
  <2> SUFFICES ASSUME NEW s \in DOMAIN storage' \cap Params'
               PROVE  \E i \in Nat : /\ PutOffAt(i)' /\ s \in Inst(stack[i])'.params
                                     /\ IsEntry(storage[s], CalleeName(stack[i]))'
    BY DEF Stores
  <2>1. storage' = [x \in DOMAIN storage \ (inst.captures \cup inst.params \cup inst.locals) |->
                      storage[x]]
    BY <1>2 DEF EndFunction
  <2>2. PICK b : b = storage[s] /\ b = storage'[s] /\ s \in DOMAIN storage /\ s \notin inst.params
    BY <2>1
  <2>3. s \in Params  BY <1>5 DEF Params
  <2>4. PICK i \in Nat : /\ PutOffAt(i) /\ s \in Inst(stack[i]).params
                         /\ IsEntry(b, CalleeName(stack[i]))
    BY <2>2, <2>3 DEF Bound, Stores
  <2>5. PICK fn : fn = CalleeName(stack[i])  OBVIOUS
  <2>6. IsEntry(b, fn)'  BY <2>4, <2>5, <1>5, EntryStays DEF IsEntry
  <2>7. i # m  BY <2>2, <2>4, <1>2, <1>4
  <2>8. PutOffAt(i)'  BY <2>4, <2>7, <1>7
  <2>9. IsEntry(storage[s], CalleeName(stack[i]))'
    BY <2>2, <2>5, <2>6, <2>8, <1>8 DEF IsEntry, Named
  <2> QED  BY <2>4, <2>8, <2>9, <1>8
<1> QED  BY <1>9, <1>10, <1>11, <1>12 DEF Bound
-----------------------------------------------------------------------------
(* A parameter that is loaded is loaded in its own function, whose entry    *)
(* dominates the block the builder is in.                                   *)
LEMMA ParameterIsLoaded ==
  ASSUME BInv, outcome = "running", Entered, Bound, Op(Top) = "symbol", NEW s, s = Top.n,
         s \in Params, s \in DOMAIN storage
  PROVE  storage[s] \in blocks[block].doms
<1>1. IInv /\ Builder  BY DEF BInv
<1>2. PICK m : m = Len(stack)  OBVIOUS
<1>3. m \in Nat /\ m \in 1 .. Len(stack) /\ Top = stack[m] /\ ~Generating(Top)
  BY <1>1, <1>2, Running, NotPutOff DEF Top
<1>4. PICK i \in Nat : /\ PutOffAt(i) /\ s \in Inst(stack[i]).params
                       /\ IsEntry(storage[s], CalleeName(stack[i]))
  BY DEF Bound, Stores
<1>5. PICK c \in 1 .. Len(program.inst) :
        /\ s \notin Visited(program)[Len(program.node)]
        /\ \A d \in 1 .. Len(program.inst) :
             s \in program.inst[d].params \cup program.inst[d].captures
                     \cup Visited(program)[program.inst[d].ret] => d = c
  BY <1>1, ParameterFacts
<1>6. ASSUME NEW j \in Nat, PutOffAt(j)
      PROVE  Index(stack[j]) \in 1 .. Len(program.inst) /\ Inst(stack[j]) = program.inst[Index(stack[j])]
  <2>1. PICK f : f = stack[j]  OBVIOUS
  <2>2. j \in 1 .. Len(stack) /\ Generating(f)  BY <1>6, <2>1 DEF PutOffAt
  <2>3. FrameOK(f) /\ f.n \in 1 .. Len(program.node)  BY <1>1, <2>1, <2>2, FrameFacts
  <2>4. program.node[f.n].op = "call"  BY <2>2, <2>3 DEF FrameOK, Op
  <2>5. Index(f) \in 1 .. Len(program.inst)  BY <1>1, <2>3, <2>4, NodeFacts DEF Index
  <2> QED  BY <2>1, <2>5 DEF Inst
<1>7. PICK a \in 0 .. m - 1 : /\ a = 0 \/ PutOffAt(a)
                              /\ \A j \in Nat : a < j /\ j < m => ~PutOffAt(j)
                              /\ s \in Visited(program)[Root(a)]
  BY <1>3 DEF Bound, Inside
<1>8. a # 0 /\ PutOffAt(a) /\ a \in Nat /\ a < m  BY <1>3, <1>5, <1>7 DEF Root
<1>9. a = i
  <2>1. s \in Visited(program)[Inst(stack[a]).ret]  BY <1>7, <1>8 DEF Root
  <2>2. Index(stack[a]) = c  BY <1>5, <1>6, <1>8, <2>1
  <2>3. Index(stack[i]) = c  BY <1>4, <1>5, <1>6
  <2> QED  BY <1>4, <1>8, <2>2, <2>3 DEF Bound, Once
<1>10. PICK fn, h : fn = CalleeName(stack[i]) /\ h = i + 1  OBVIOUS
<1>11. fn = currFunc
  <2>1. Home(h, fn)  BY <1>4, <1>10 DEF Bound, Serving
  <2>2. ASSUME NEW j \in Nat, h <= j, PutOffAt(j) PROVE FALSE
    <3>1. j \in 1 .. m /\ a < j  BY <1>2, <1>9, <1>10, <2>2 DEF PutOffAt
    <3>2. j # m  BY <1>3, <2>2 DEF PutOffAt
    <3> QED  BY <1>3, <1>7, <2>2, <3>1, <3>2
  <2> QED  BY <2>1, <2>2 DEF Home
<1>12. Dominated(block) /\ blocks[block].fn = fn
  <2>1. block \in 1 .. Len(blocks)  BY <1>1, Running
  <2>2. blocks[block].fn = fn  BY <1>1, <1>11 DEF Builder
  <2> QED  BY <1>1, <2>1, <2>2, LiveNow DEF Entered
<1> QED  BY <1>4, <1>10, <1>12 DEF Dominated

(* What a step loads. *)
LEMMA ArgumentsStayLoaded ==
  ASSUME BInv, outcome = "running", Entered, Bound, ArgumentsReachLoads, Next
  PROVE  ArgumentsReachLoads'
<1>1. IInv  BY DEF BInv
<1>2. program' = program /\ BlocksGrow
  <2>1. CASE Branch
    <3>1. PICK n : n = Len(blocks)  OBVIOUS
    <3>2. /\ n \in Nat /\ Len(blocks') = n + 3
          /\ \A b \in 1 .. n : blocks'[b].fn = blocks[b].fn /\ blocks'[b].doms = blocks[b].doms
      BY <1>1, <2>1, <3>1, BranchShape
    <3> QED  BY <2>1, <3>1, <3>2 DEF BlocksGrow, Branch
  <2>2. CASE Generate
    <3>1. PICK n, name : n = Len(blocks) /\ name = CalleeName(Top)  OBVIOUS
    <3> QED  BY <1>1, <2>2, <3>1, GenerateEntry DEF Generate
  <2>3. CASE ~Branch /\ ~Generate
    <3>1. program' = program /\ (blocks' = Ended(block) \/ blocks' = blocks)
      BY <2>3 DEF Next, Visit, Constant, LoadSymbol, StoreSymbol, Unbound, Operator, Not,
         NotImplemented, AddressOf, ImmediateContext, Lambda, Else, EndIf, NameClash,
         EndFunction, Call, Finished, Emitted, vars
    <3> QED  BY <1>1, <3>1, LastBlocksGrow
  <2> QED  BY <2>1, <2>2, <2>3
<1>3. ASSUME NEW l \in loads'
      PROVE  l \in loads \/ (/\ l.sym = Top.n /\ l.at = block /\ Op(Top) = "symbol"
                             /\ \/ Len(Kids(Top)) > 0
                                \/ l.sym \in DOMAIN storage /\ l.from = storage[l.sym])
  <2>1. CASE LoadSymbol
    <3>1. /\ Op(Top) = "symbol" /\ Top.n \in DOMAIN storage
          /\ loads' = loads \cup {[sym |-> Top.n, from |-> storage[Top.n], at |-> block]}
      BY <2>1 DEF LoadSymbol, At, Stored, LoadFrom
    <3> QED  BY <1>3, <3>1
  <2>2. CASE StoreSymbol
    <3>1. /\ Op(Top) = "symbol" /\ Answered(Top, 1)
          /\ loads' = loads \cup {[sym |-> Top.n, from |-> block, at |-> block]}
      BY <2>2 DEF StoreSymbol, At, LoadFrom
    <3>2. PICK f : f = Top  OBVIOUS
    <3>3. FrameOK(f) /\ Len(Kids(f)) \in Nat /\ Len(f.vals) = 1 /\ ~Generating(f)
      BY <1>1, <3>1, <3>2, TopFacts, NotPutOff DEF Answered
    <3>4. Len(Kids(Top)) > 0  BY <3>2, <3>3 DEF FrameOK
    <3> QED  BY <1>3, <3>1, <3>4
  <2>3. CASE ~LoadSymbol /\ ~StoreSymbol
    <3>1. loads' = loads
      BY <2>3 DEF Next, Visit, Constant, Unbound, Operator, Not, NotImplemented, AddressOf,
         ImmediateContext, Lambda, Branch, Else, EndIf, Generate, NameClash, EndFunction, Call,
         Finished, Emitted, vars
    <3> QED  BY <1>3, <3>1
  <2> QED  BY <2>1, <2>2, <2>3
<1>4. \A l \in loads : l.at \in 1 .. Len(blocks)  BY <1>1 DEF IInv, TypeOK
<1>5. block \in 1 .. Len(blocks)  BY <1>1, Running
<1> SUFFICES ASSUME NEW l \in loads', l.sym \in Params' PROVE l.from \in blocks'[l.at].doms
  BY DEF ArgumentsReachLoads
<1>6. l.sym \in Params  BY <1>2 DEF Params
<1>7. CASE l \in loads
  <2>1. l.from \in blocks[l.at].doms  BY <1>6, <1>7 DEF ArgumentsReachLoads
  <2> QED  BY <1>2, <1>4, <1>7, <2>1 DEF BlocksGrow
<1>8. CASE l \notin loads
  <2>1. /\ l.sym = Top.n /\ l.at = block /\ Op(Top) = "symbol"
        /\ \/ Len(Kids(Top)) > 0
           \/ l.sym \in DOMAIN storage /\ l.from = storage[l.sym]
    BY <1>3, <1>8
  <2>2. l.sym \in DOMAIN storage /\ l.from = storage[l.sym]
    BY <1>1, <1>6, <2>1, NoParameter
  <2>3. PICK s : s = l.sym  OBVIOUS
  <2>4. storage[s] \in blocks[block].doms  BY <1>6, <2>1, <2>2, <2>3, ParameterIsLoaded
  <2> QED  BY <1>2, <1>5, <2>1, <2>2, <2>3, <2>4 DEF BlocksGrow
<1> QED  BY <1>7, <1>8

LEMMA InitArguments == Init => AInv
<1> SUFFICES ASSUME Init PROVE AInv  OBVIOUS
<1>1. BInv /\ IInv  BY InitOK, InitBuilder
<1>2. ArgumentsReachLoads  BY DEF Init, ArgumentsReachLoads
<1>3. PICK f : f = Activation(Len(program.node))  OBVIOUS
<1>4. f.n = Len(program.node) /\ ~Generating(f)
  BY <1>3 DEF Activation, NoSite, Generating, Null
<1>5. Len(stack) = 1 /\ stack[1] = f  BY <1>3 DEF Init
<1>6. \A i \in Nat : ~PutOffAt(i)
  <2>1. \A i : i \in 1 .. Len(stack) => i = 1  BY <1>5
  <2> QED  BY <2>1, <1>4, <1>5 DEF PutOffAt
<1>7. Entered
  <2>1. Len(blocks) = 1 /\ blocks[1].doms = {1}  BY DEF Init, Block
  <2>2. \A b : b \in 1 .. Len(blocks) <=> b = 1  BY <2>1
  <2>3. \A e, fn : IsEntry(e, fn) => e = 1  BY <2>2 DEF IsEntry, Named
  <2> QED  BY <2>1, <2>2, <2>3 DEF Entered, Dominated
<1>8. \A k \in 1 .. Len(stack) : Inside(k)
  <2>1. PICK r : r = Len(program.node)  OBVIOUS
  <2>2. r \in 1 .. Len(program.node) /\ Root(0) = r  BY <1>1, <2>1, RootFacts DEF Root
  <2>3. r \in Visited(program)[r]  BY <1>1, <2>2, VisitedFacts
  <2>4. stack[1].n \in Visited(program)[Root(0)]  BY <1>4, <1>5, <2>1, <2>2, <2>3
  <2>5. 0 \in 0 .. 1 - 1 /\ \A k \in 1 .. Len(stack) : k = 1  BY <1>5
  <2> QED  BY <1>6, <2>4, <2>5 DEF Inside
<1>9. Serving /\ Once  BY <1>6 DEF Serving, Once
<1>10. Stores
  <2>1. DOMAIN storage = {}  BY DEF Init
  <2> QED  BY <2>1 DEF Stores
<1> QED  BY <1>1, <1>2, <1>7, <1>8, <1>9, <1>10 DEF AInv, Bound

LEMMA NextArguments == AInv /\ [Next]_vars => AInv'
<1> SUFFICES ASSUME AInv, [Next]_vars PROVE AInv'  OBVIOUS
<1>1. BInv /\ IInv /\ BInv'  BY NextBuilder DEF AInv, BInv
<1>2. CASE UNCHANGED vars
  <2>1. ArgumentsReachLoads'  BY <1>2 DEF vars, AInv, ArgumentsReachLoads, Params
  <2>2. ASSUME outcome' = "running" PROVE Entered' /\ Bound'
    <3>1. Entered /\ Bound  BY <1>2, <2>2 DEF vars, AInv
    <3>2. Entered'
      BY <1>2, <3>1 DEF vars, Entered, Live, OwnsAt, Dominated, IsEntry, Named
    <3>3. /\ program' = program /\ stack' = stack /\ storage' = storage /\ blocks' = blocks
          /\ currFunc' = currFunc
      BY <1>2 DEF vars
    <3>4. SitesStay /\ NodesStay  BY <3>3 DEF SitesStay, NodesStay, PutOffAt, Generating
    <3>5. outcome = "running"  BY <1>2, <2>2 DEF vars
    <3>6. BlocksGrow  BY <1>1, <3>3, LastBlocksGrow
    <3>7. Bound'  BY <1>1, <3>1, <3>3, <3>4, <3>5, <3>6, BoundStays
    <3> QED  BY <3>2, <3>7
  <2> QED  BY <1>1, <2>1, <2>2 DEF AInv
<1>3. CASE Next /\ outcome = "running"
  <2>1. Entered /\ Bound /\ ArgumentsReachLoads  BY <1>3 DEF AInv
  <2>2. ArgumentsReachLoads'  BY <1>1, <1>3, <2>1, ArgumentsStayLoaded
  <2>3. ASSUME outcome' = "running" PROVE Entered' /\ Bound'
    <3>1. CASE Unbound \/ Not \/ NotImplemented \/ NameClash
      BY <2>3, <3>1 DEF Unbound, Not, NotImplemented, NameClash, Reject, Undefined, Stop
    <3>2. CASE Finished  BY <1>3, <3>2 DEF Finished
    <3>3. CASE Quiet  BY <1>1, <2>1, <2>3, <3>3, QuietEntered, QuietBound
    <3>4. CASE Visit  BY <1>1, <2>1, <3>4, VisitEntered, VisitBound
    <3>5. CASE Branch  BY <1>1, <2>1, <3>5, BranchEntered, BranchBound
    <3>6. CASE Else  BY <1>1, <2>1, <3>6, ElseEntered, ElseBound
    <3>7. CASE EndIf  BY <1>1, <2>1, <2>3, <3>7, EndIfEntered, EndIfBound
    <3>8. CASE Generate  BY <1>1, <2>1, <3>8, GenerateEntered, GenerateBound
    <3>9. CASE EndFunction  BY <1>1, <2>1, <3>9, EndFunctionEntered, EndFunctionBound
    <3>10. CASE Call  BY <1>1, <2>1, <2>3, <3>10, CallEntered, CallBound
    <3> QED
      BY <1>3, <3>1, <3>2, <3>3, <3>4, <3>5, <3>6, <3>7, <3>8, <3>9, <3>10 DEF Next, Quiet
  <2> QED  BY <1>1, <2>2, <2>3 DEF AInv
<1>4. CASE Next /\ outcome # "running"
  <2>1. UNCHANGED vars
    BY <1>4 DEF Next, Finished, Visit, Constant, LoadSymbol, StoreSymbol, Unbound, Operator,
       Not, NotImplemented, AddressOf, ImmediateContext, Lambda, Branch, Else, EndIf, Generate,
       NameClash, EndFunction, Call, At
  <2> QED  BY <1>2, <2>1
<1> QED  BY <1>2, <1>3, <1>4

(* The arguments of a call are stored on every path to a use of the         *)
(* parameters, whatever is generated in the middle of the function: the     *)
(* stores of translate_context_call are in the entry of the function, and   *)
(* every block in which the builder loads a parameter is dominated by it.   *)
THEOREM ArgumentsReachEveryLoad == Spec => []ArgumentsReachLoads
<1>1. AInv => ArgumentsReachLoads  BY DEF AInv
<1> QED  BY <1>1, InitArguments, NextArguments, PTL DEF Spec
=============================================================================
