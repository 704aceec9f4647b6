------------------------ MODULE CloneMeaningProofs -------------------------
(***************************************************************************)
(* Proof that an instance means what the function means, for every set of  *)
(* programs and every number of instances.                                 *)
(*                                                                         *)
(* Where no symbol is returned or renamed, an original is copied at most   *)
(* once for an instance (OInv), so a name is looked up in the one copy of  *)
(* the context it was written in; and the entry there is the copy of what  *)
(* was named, or the capture that hides it (MInv).                         *)
(***************************************************************************)
EXTENDS CloneProofs, FiniteSetTheorems

(* How often deep_clone comes by an expression: once for every instance,    *)
(* unless it returns or renames a symbol.                                   *)
LEMMA BodyIn ==
  ASSUME TInv, References \cap Captures = {}
  PROVE  Body \cap Captures = {}
<1> DEFINE Z == {x \in Body : x \notin Captures}
           Bad == {r \in Originals : r \in Z /\ ~ (Tree[r] \subseteq Z)}
<1>1. \A x \in Z : Inner(x) \subseteq Z  BY InnerIn
<1>2. \A n \in Originals : Tree[n] = {n} \cup UNION {Tree[k] : k \in Inner(n)}  BY TreeIs
<1>3. \A n \in Originals : n \in Nat /\ \A k \in Inner(n) : k \in Originals /\ k \in Nat /\ k < n
  BY InnerFacts, HeapFacts
<1>4. ASSUME Bad # {} PROVE FALSE
  <2>1. Bad \in SUBSET Nat  BY <1>3
  <2>2. PICK r \in Bad : \A y \in Bad : r <= y
    <3> HIDE DEF Bad
    <3> QED  BY <1>4, <2>1, Least
  <2>3. r \in Originals /\ r \in Z  OBVIOUS
  <2>4. \A k \in Inner(r) : k \in Originals /\ k \notin Bad
    <3> HIDE DEF Bad
    <3> QED  BY <1>3, <2>2, <2>3
  <2>5. \A k \in Inner(r) : k \in Z  BY <1>1, <2>3
  <2>6. \A k \in Inner(r) : Tree[k] \subseteq Z  BY <2>4, <2>5
  <2> HIDE DEF Z
  <2>7. Tree[r] \subseteq Z  BY <1>2, <2>3, <2>6
  <2> QED  BY <2>3, <2>7
<1>5. program.fn \in Z
  <2>1. program.fn \in Body /\ program.fn \in Originals  BY BodyFacts
  <2>2. heap[program.fn].op = "context"
    <3>1. program.node[program.fn].op = "context"  BY ProgramsAssumption DEF TInv, ProgramOK
    <3> QED  BY <2>1, <3>1, SourceFacts
  <2>3. \A k \in Captures : \E c \in Originals : k \in Elements(heap[c].captures)
    BY SourceFacts DEF Captures
  <2>4. \A k \in Captures : heap[k].op = "symbol"  BY <2>3, ScopeFacts
  <2> QED  BY <2>1, <2>2, <2>4
<1>6. program.fn \in Originals  BY BodyFacts
<1>7. Tree[program.fn] \subseteq Z
  <2> HIDE DEF Z
  <2> QED  BY <1>4, <1>5, <1>6
<1> QED  BY <1>7 DEF Body

(* A tree holds what is inside, and nothing that is above. *)
LEMMA TreeFacts ==
  ASSUME TInv, NEW a \in Originals
  PROVE  /\ a \in Tree[a]
         /\ \A x \in Tree[a] :
              /\ x \in Originals /\ x \in Nat /\ x <= a
              /\ Inner(x) \subseteq Tree[a]
              /\ x # a => \E q \in Tree[a] : x \in Inner(q)
              /\ Tree[x] \subseteq Tree[a]
<1> DEFINE Good(r, x) ==
             /\ x \in Originals /\ x \in Nat /\ x <= r
             /\ Inner(x) \subseteq Tree[r]
             /\ x # r => \E q \in Tree[r] : x \in Inner(q)
             /\ Tree[x] \subseteq Tree[r]
           Bad == {r \in Originals : ~ (\A x \in Tree[r] : Good(r, x))}
<1>1. \A n \in Originals : Tree[n] = {n} \cup UNION {Tree[k] : k \in Inner(n)}  BY TreeIs
<1>2. \A n \in Originals : n \in Nat /\ \A k \in Inner(n) : k \in Originals /\ k \in Nat /\ k < n
  BY InnerFacts, HeapFacts
<1>3. \A n \in Originals : n \in Tree[n]  BY <1>1
<1>4. ASSUME Bad # {} PROVE FALSE
  <2>1. Bad \in SUBSET Nat  BY <1>2
  <2>2. PICK r \in Bad : \A y \in Bad : r <= y
    <3> HIDE DEF Bad
    <3> QED  BY <1>4, <2>1, Least
  <2>3. r \in Originals /\ r \in Nat  BY <1>2
  <2>4. \A k \in Inner(r) : k \in Originals /\ k \notin Bad
    <3> HIDE DEF Bad
    <3> QED  BY <1>2, <2>2, <2>3
  <2>5. \A k \in Inner(r) : \A x \in Tree[k] : Good(k, x)
    <3> HIDE DEF Good
    <3> QED  BY <2>4
  <2>6. Tree[r] = {r} \cup UNION {Tree[k] : k \in Inner(r)}  BY <1>1, <2>3
  <2>7. ASSUME NEW x \in Tree[r] PROVE Good(r, x)
    <3>1. CASE x = r
      <4>1. Inner(r) \subseteq Tree[r]  BY <1>2, <1>3, <2>3, <2>6
      <4> QED  BY <2>3, <3>1, <4>1
    <3>2. ASSUME NEW k \in Inner(r), x \in Tree[k] PROVE Good(r, x)
      <4>1. Good(k, x)  BY <2>5, <3>2
      <4>2. k \in Nat /\ k < r /\ Tree[k] \subseteq Tree[r] /\ r \in Tree[r]
        BY <1>2, <2>3, <2>6
      <4>3. x # r => \E q \in Tree[r] : x \in Inner(q)
        <5>1. CASE x = k  BY <4>2, <5>1
        <5>2. CASE x # k  BY <4>1, <4>2, <5>2
        <5> QED  BY <5>1, <5>2
      <4>4. x \in Nat /\ x <= r  BY <2>3, <4>1, <4>2
      <4> QED  BY <4>1, <4>2, <4>3, <4>4
    <3> HIDE DEF Good
    <3> QED  BY <2>6, <3>1, <3>2
  <2> HIDE DEF Good
  <2> QED  BY <2>7
<1>5. \A x \in Tree[a] : Good(a, x)
  <2> HIDE DEF Good
  <2> QED  BY <1>4
<1> QED  BY <1>3, <1>5

(* Only a context's lists lead to the symbols that are copied. *)
LEMMA OnlyListed ==
  ASSUME TInv, Plain, NEW x \in Body, NEW k \in Inner(x), heap[k].op = "symbol"
  PROVE  heap[x].op = "context"
<1>1. PICK e : e = heap[x]  OBVIOUS
<1>2. /\ ProgramOK(program) /\ \A n \in Originals : heap[n] = program.node[n]
      /\ Originals = 1 .. Len(program.node)
  BY SourceFacts, ProgramsAssumption DEF TInv, Originals
<1>3. x \in Originals /\ k \in Originals /\ e \in Expr /\ e = program.node[x] /\ x \notin Captures
  <2>1. x \in Originals /\ x \notin Captures  BY BodyFacts, BodyIn DEF Plain
  <2> QED  BY <1>1, <2>1, SourceFacts, InnerFacts
<1>4. k \in Elements(Parts(e)) /\ ~ (e.op = "apply" /\ heap[k].op = "symbol")
  BY <1>1, <1>3, InnerFacts DEF Inner
<1>5. CASE e.op \in {"symbol", "ret", "const"}
  <2>1. e.callee = None  BY <1>2, <1>3, <1>5 DEF ProgramOK
  <2>2. CalleeOf(e) = << >>  BY <2>1 DEF CalleeOf
  <2>3. k \in Elements(e.kids)  BY <1>3, <1>4, <1>5, <2>2, UsesFacts, Nothing
  <2>4. e.op # "const"
    <3>1. e.op = "const" => e.kids = << >>  BY <1>2, <1>3 DEF ProgramOK
    <3> QED  BY <2>3, <3>1, Nothing
  <2>5. program.node[k].op = "symbol"  BY <1>2, <1>3
  <2>6. k \in References  BY <1>3, <1>5, <2>3, <2>4, <2>5 DEF References
  <2> QED  BY <2>6 DEF Plain
<1>6. e.op \in {"const", "symbol", "apply", "ret", "context"}  BY <1>3 DEF Expr
<1> QED  BY <1>1, <1>4, <1>5, <1>6

(* A part that is copied has its one place. *)
LEMMA OnePlace ==
  ASSUME TInv, Plain, NEW n \in Body, NEW m \in Body,
         NEW i \in 1 .. Len(Parts(heap[n])), NEW j \in 1 .. Len(Parts(heap[m])),
         Parts(heap[n])[i] \in Inner(n), Parts(heap[n])[i] = Parts(heap[m])[j],
         Parts(heap[m])[j] \in Inner(m)
  PROVE  n = m /\ i = j
<1>1. PICK k : k = Parts(heap[n])[i]  OBVIOUS
<1>2. n \in Originals /\ m \in Originals /\ Body \cap Captures = {} /\ k \in Originals
      /\ k \in Inner(n) /\ k \in Inner(m)
  <2>1. n \in Originals /\ m \in Originals  BY BodyFacts
  <2> QED  BY <1>1, <2>1, BodyIn, InnerFacts DEF Plain
<1>3. /\ PlacedOnce(program) /\ ProgramOK(program)
      /\ n \in 1 .. Len(program.node) /\ m \in 1 .. Len(program.node)
      /\ heap[n] = program.node[n] /\ heap[m] = program.node[m] /\ heap[k] = program.node[k]
  BY <1>2, SourceFacts, ScopesAssumption, ProgramsAssumption DEF TInv, Originals
<1>4. DOMAIN Parts(heap[n]) = 1 .. Len(Parts(heap[n])) /\ DOMAIN Parts(heap[m]) = 1 .. Len(Parts(heap[m]))
  <2>1. Parts(heap[n]) \in Seq(Originals) /\ Parts(heap[m]) \in Seq(Originals)  BY <1>2, SourceFacts
  <2> QED  BY <2>1, LenProperties
<1>5. ASSUME NEW x \in Body, k \in Inner(x), heap[k].op = "symbol"
      PROVE  program.node[x].op = "context"
  <2>1. heap[x].op = "context"  BY <1>5, OnlyListed
  <2>2. x \in Originals  BY BodyFacts
  <2> QED  BY <2>1, <2>2, SourceFacts
<1>6. heap[k].op = "symbol" => program.node[n].op = "context" /\ program.node[m].op = "context"
  BY <1>2, <1>5
<1>7. PICK s, t : s = Parts(heap[n]) /\ t = Parts(heap[m])  OBVIOUS
<1>8. \A x \in DOMAIN s, y \in DOMAIN t :
        /\ s[x] = t[y]
        /\ program.node[s[x]].op = "symbol" =>
             program.node[n].op = "context" /\ program.node[m].op = "context"
        => n = m /\ x = y
  <2>1. \A x \in DOMAIN Parts(program.node[n]), y \in DOMAIN Parts(program.node[m]) :
          /\ Parts(program.node[n])[x] = Parts(program.node[m])[y]
          /\ program.node[Parts(program.node[n])[x]].op = "symbol" =>
               program.node[n].op = "context" /\ program.node[m].op = "context"
          => n = m /\ x = y
    <3> HIDE <1>1, <1>7
    <3> QED  BY <1>3, Zenon DEF PlacedOnce
  <2>2. s = Parts(program.node[n]) /\ t = Parts(program.node[m])  BY <1>3, <1>7
  <2> QED  BY <2>1, <2>2
<1>9. i \in DOMAIN s /\ j \in DOMAIN t /\ s[i] = k /\ t[j] = k  BY <1>1, <1>4, <1>7
<1> QED  BY <1>3, <1>6, <1>8, <1>9

(* What is copied for one part is not copied for another. *)
LEMMA TreesApart ==
  ASSUME TInv, Plain, NEW n \in Body,
         NEW i \in 1 .. Len(Parts(heap[n])), NEW j \in 1 .. Len(Parts(heap[n])), i # j,
         Parts(heap[n])[i] \in Inner(n), Parts(heap[n])[j] \in Inner(n)
  PROVE  Tree[Parts(heap[n])[i]] \cap Tree[Parts(heap[n])[j]] = {}
<1>1. PICK a, b : a = Parts(heap[n])[i] /\ b = Parts(heap[n])[j]  OBVIOUS
<1>2. /\ a \in Originals /\ b \in Originals /\ a \in Nat /\ b \in Nat /\ n \in Nat /\ a < n /\ b < n
      /\ a \in Body /\ b \in Body /\ n \in Originals
      /\ a \in Inner(n) /\ b \in Inner(n)
  <2>1. n \in Originals /\ n \in Nat  BY BodyFacts, HeapFacts
  <2> QED  BY <1>1, <2>1, BodyFacts, InnerFacts
<1>3. Tree[a] \subseteq Body /\ Tree[b] \subseteq Body
  BY <1>2, BodyFacts, TreeFacts DEF Body
<1>4. ASSUME NEW x, NEW p \in Body, NEW q \in Body, x \in Inner(p), x \in Inner(q)
      PROVE  p = q
  <2>1. PICK s, t : s = Parts(heap[p]) /\ t = Parts(heap[q])  OBVIOUS
  <2>2. x \in Elements(s) /\ x \in Elements(t)
    BY <1>4, <2>1, BodyFacts, SourceFacts DEF Inner
  <2>3. PICK y \in 1 .. Len(s), z \in 1 .. Len(t) : s[y] = x /\ t[z] = x
    BY <2>2 DEF Elements
  <2> QED  BY <1>4, <2>1, <2>3, OnePlace
<1>5. a # b
  <2> SUFFICES ASSUME a = b PROVE FALSE  OBVIOUS
  <2> QED  BY <1>1, <1>2, OnePlace
<1> SUFFICES ASSUME Tree[a] \cap Tree[b] # {} PROVE FALSE  BY <1>1
<1>6. PICK x \in Tree[a] \cap Tree[b] : \A y \in Tree[a] \cap Tree[b] : y <= x
  <2>1. \A y \in Tree[a] : y \in Nat /\ y <= a /\ y \in Originals  BY <1>2, TreeFacts
  <2>2. Tree[a] \cap Tree[b] \in SUBSET (1 .. a)  BY <1>2, <2>1, HeapFacts
  <2> QED  BY <1>2, <2>2, Greatest
<1>7. CASE x = a
  <2>1. PICK q \in Tree[b] : a \in Inner(q)  BY <1>2, <1>5, <1>6, <1>7, TreeFacts
  <2>2. q = n  BY <1>2, <1>3, <1>4, <2>1
  <2>3. q <= b  BY <1>2, <2>1, TreeFacts
  <2> QED  BY <1>2, <2>2, <2>3
<1>8. CASE x = b
  <2>1. PICK q \in Tree[a] : b \in Inner(q)  BY <1>2, <1>5, <1>6, <1>8, TreeFacts
  <2>2. q = n  BY <1>2, <1>3, <1>4, <2>1
  <2>3. q <= a  BY <1>2, <2>1, TreeFacts
  <2> QED  BY <1>2, <2>2, <2>3
<1>9. CASE x # a /\ x # b
  <2>1. PICK p \in Tree[a], q \in Tree[b] : x \in Inner(p) /\ x \in Inner(q)
    BY <1>2, <1>6, <1>9, TreeFacts
  <2>2. p = q  BY <1>3, <1>4, <2>1
  <2>3. p <= x  BY <1>6, <2>1, <2>2
  <2>4. p \in Originals /\ p \in Nat  BY <1>2, <2>1, TreeFacts
  <2>5. x < p /\ x \in Nat  BY <2>1, <2>4, InnerFacts
  <2> QED  BY <2>3, <2>4, <2>5
<1> QED  BY <1>7, <1>8, <1>9

(* What the activation f has gone through. *)
Taken(f) ==
  {f.src} \cup UNION {Tree[Parts(Source(f))[j]] :
                        j \in {i \in 1 .. Len(f.done) : Parts(Source(f))[i] \in Inner(f.src)}}
Started == UNION {Taken(stack[i]) : i \in 1 .. Len(stack)}

CopiesOf(n) == {o \in Copies : heap[o].of = n}

OnceEach ==
  \A n \in Originals :
    Cardinality(CopiesOf(n)) =
      IF n \in Body THEN Len(instances) + (IF n \in Started THEN 1 ELSE 0) ELSE 0

Chained ==
  /\ stack # << >> => stack[1].src = program.fn
  /\ \A i \in 1 .. Len(stack) : i < Len(stack) => stack[i + 1].src \in Inner(stack[i].src)

OInv == Plain => Chained /\ OnceEach

LEMMA TreesKept ==
  ASSUME program' = program
  PROVE  Tree' = Tree /\ Body' = Body /\ (Plain' <=> Plain) /\ Originals' = Originals
         /\ \A n : Inner(n)' = Inner(n)
<1>1. Tree' = Tree /\ Originals' = Originals  BY DEF Tree, Originals
<1>2. Body' = Body  BY <1>1 DEF Body
<1>3. Captures' = Captures  BY <1>1 DEF Captures
<1>4. Plain' <=> Plain  BY <1>1, <1>2, <1>3 DEF Plain, References
<1> QED  BY <1>1, <1>2, <1>4 DEF Inner

LEMMA TakenStays ==
  ASSUME TInv, TInv', program' = program, NEW f \in Frames
  PROVE  Taken(f)' = Taken(f)
<1>1. Tree' = Tree /\ Inner(f.src)' = Inner(f.src)  BY TreesKept
<1>2. Parts(Source(f))' = Parts(Source(f))  BY SourceSame
<1> QED  BY <1>1, <1>2 DEF Taken

(* An activation at its end has gone through all. *)
LEMMA TakenAll ==
  ASSUME TInv, NEW f \in Frames, FrameIs(f), ~Wants(f)
  PROVE  Taken(f) = Tree[f.src]
<1>1. PICK P, s : P = Parts(Source(f)) /\ s = f.src  OBVIOUS
<1>2. /\ s \in Originals /\ Len(f.done) = Len(P) /\ Source(f) = program.node[s]
  <2>1. Len(f.done) <= Len(P)  BY <1>1 DEF FrameIs
  <2>2. ~ (Len(f.done) < Len(P))  BY <1>1 DEF Wants
  <2> QED  BY <1>1, <2>1, <2>2, FrameFacts
<1>3. Tree[s] = {s} \cup UNION {Tree[k] : k \in Inner(s)}  BY <1>2, TreeIs
<1>4. Inner(s) \subseteq Elements(P)  BY <1>1, <1>2 DEF Inner
<1>5. \A k \in Inner(s) : \E j \in 1 .. Len(P) : P[j] = k  BY <1>4 DEF Elements
<1>6. Taken(f) = {s} \cup UNION {Tree[P[j]] : j \in {i \in 1 .. Len(P) : P[i] \in Inner(s)}}
  BY <1>1, <1>2 DEF Taken
<1>7. UNION {Tree[k] : k \in Inner(s)} =
        UNION {Tree[P[j]] : j \in {i \in 1 .. Len(P) : P[i] \in Inner(s)}}
  <2>1. ASSUME NEW k \in Inner(s), NEW x \in Tree[k]
        PROVE  x \in UNION {Tree[P[j]] : j \in {i \in 1 .. Len(P) : P[i] \in Inner(s)}}
    <3>1. PICK j \in 1 .. Len(P) : P[j] = k  BY <1>5
    <3> QED  BY <2>1, <3>1
  <2> QED  BY <2>1
<1> QED  BY <1>1, <1>3, <1>6, <1>7

(* One more part is gone through. *)
LEMMA TakesOne ==
  ASSUME TInv, NEW f \in Frames, Wants(f), NEW g, NEW x, g.src = f.src, g.done = Append(f.done, x)
  PROVE  Taken(g) = Taken(f) \cup
                      IF Wanted(f) \in Inner(f.src) THEN Tree[Wanted(f)] ELSE {}
<1>1. PICK P, s, d, k : P = Parts(Source(f)) /\ s = f.src /\ d = Len(f.done) /\ k = Wanted(f)
  OBVIOUS
<1>2. f.done \in Seq(Objects) /\ d \in Nat /\ P[d + 1] = k  BY <1>1, FrameFacts DEF Wanted
<1>3. Len(g.done) = d + 1
  <2>1. f.done \in Seq(Objects \cup {x})  BY <1>2, Monotone
  <2> QED  BY <1>1, <2>1, AppendProperties
<1>4. Parts(Source(g)) = P  BY <1>1 DEF Source
<1>5. Taken(f) = {s} \cup UNION {Tree[P[j]] : j \in {i \in 1 .. d : P[i] \in Inner(s)}}
  BY <1>1 DEF Taken
<1>6. Taken(g) = {s} \cup UNION {Tree[P[j]] : j \in {i \in 1 .. d + 1 : P[i] \in Inner(s)}}
  BY <1>1, <1>3, <1>4 DEF Taken
<1>7. {i \in 1 .. d + 1 : P[i] \in Inner(s)} =
        {i \in 1 .. d : P[i] \in Inner(s)} \cup IF k \in Inner(s) THEN {d + 1} ELSE {}
  BY <1>2
<1>8. CASE k \in Inner(s)
  <2>1. PICK I, J, m : /\ I = {i \in 1 .. d : P[i] \in Inner(s)} /\ m = d + 1
                       /\ J = {i \in 1 .. d + 1 : P[i] \in Inner(s)}
    OBVIOUS
  <2>2. J = I \cup {m} /\ P[m] = k  BY <1>2, <1>7, <1>8, <2>1
  <2>3. Taken(f) = {s} \cup UNION {Tree[P[j]] : j \in I}  BY <1>5, <2>1
  <2>4. Taken(g) = {s} \cup UNION {Tree[P[j]] : j \in J}  BY <1>6, <2>1
  <2>5. Taken(g) = Taken(f) \cup Tree[k]
    <3> HIDE <2>1, <1>1
    <3> QED  BY <2>2, <2>3, <2>4
  <2> QED  BY <1>1, <1>8, <2>5
<1>9. CASE k \notin Inner(s)
  <2>1. {i \in 1 .. d + 1 : P[i] \in Inner(s)} = {i \in 1 .. d : P[i] \in Inner(s)}
    BY <1>7, <1>9
  <2> QED  BY <1>1, <1>5, <1>6, <1>9, <2>1
<1> QED  BY <1>8, <1>9

(* What is begun has not been gone through. *)
LEMMA Fresh ==
  ASSUME EInv, Plain, Filling, Chained, stack # << >>, Wants(Top), ~ByName(Top)
  PROVE  Wanted(Top) \notin Started
<1>1. TInv /\ References \cap Captures = {}  BY DEF EInv, CInv, Plain
<1>2. PICK N, t, k : N = Len(stack) /\ t = Top.src /\ k = Wanted(Top)  OBVIOUS
<1>3. /\ N \in Nat \ {0} /\ N \in 1 .. N /\ Top = stack[N] /\ Top \in Frames
      /\ \A i \in 1 .. N : stack[i] \in Frames /\ FillsAt(i) /\ FrameIs(stack[i])
  BY <1>1, <1>2, StackFacts DEF Filling, EInv
<1>4. k \in Inner(t) /\ t \in Originals /\ t \in Body /\ k \in Originals
  <2>1. k \in Inner(t)  BY <1>1, <1>2, WantedIn
  <2>2. t \in Body
    <3>1. FillsAt(N) /\ stack[N] = Top  BY <1>3
    <3> QED  BY <1>2, <3>1 DEF FillsAt
  <2>3. t \in Originals  BY <1>1, <2>2, BodyFacts
  <2> QED  BY <1>1, <2>1, <2>2, <2>3, InnerFacts
<1>5. \A i \in 1 .. N : stack[i].src \in Body /\ stack[i].src \in Originals
  BY <1>1, <1>3, BodyFacts DEF FillsAt
<1>6. \A i \in 1 .. N : t \in Tree[stack[i].src]
  <2> DEFINE Bad == {i \in 1 .. N : t \notin Tree[stack[i].src]}
  <2> SUFFICES ASSUME Bad # {} PROVE FALSE  OBVIOUS
  <2>1. Bad \in SUBSET (1 .. N)  OBVIOUS
  <2>2. PICK i \in Bad : \A j \in Bad : j <= i
    <3> HIDE DEF Bad
    <3> QED  BY <1>3, <2>1, Greatest
  <2>3. i \in 1 .. N /\ t \notin Tree[stack[i].src]  OBVIOUS
  <2>4. i # N  BY <1>1, <1>2, <1>3, <1>4, <2>3, TreeFacts
  <2>5. PICK j : j = i + 1  OBVIOUS
  <2>6. j \in 1 .. N /\ i < N /\ ~ (j <= i)  BY <1>3, <2>3, <2>4, <2>5
  <2>7. j \notin Bad
    <3> HIDE DEF Bad
    <3> QED  BY <2>2, <2>6
  <2>8. t \in Tree[stack[j].src]  BY <2>6, <2>7
  <2>9. stack[j].src \in Inner(stack[i].src)  BY <1>2, <2>3, <2>5, <2>6 DEF Chained
  <2>10. PICK a, b : a = stack[i].src /\ b = stack[j].src  OBVIOUS
  <2>11. a \in Originals  BY <1>5, <2>3, <2>10
  <2>12. b \in Tree[a]  BY <1>1, <2>9, <2>10, <2>11, TreeFacts
  <2>13. Tree[b] \subseteq Tree[a]  BY <1>1, <2>11, <2>12, TreeFacts
  <2> QED  BY <2>3, <2>8, <2>10, <2>13
<1>7. \A i \in 1 .. N : k \in Tree[stack[i].src] /\ k # stack[i].src
  <2> SUFFICES ASSUME NEW i \in 1 .. N PROVE k \in Tree[stack[i].src] /\ k # stack[i].src
    OBVIOUS
  <2>1. PICK a : a = stack[i].src  OBVIOUS
  <2>2. a \in Originals /\ t \in Tree[a] /\ a \in Nat  BY <1>1, <1>5, <1>6, <2>1, HeapFacts
  <2>3. Inner(t) \subseteq Tree[a] /\ t <= a /\ t \in Nat  BY <1>1, <2>2, TreeFacts
  <2>4. k < t /\ k \in Nat  BY <1>1, <1>4, InnerFacts
  <2> QED  BY <1>4, <2>1, <2>2, <2>3, <2>4
<1>8. ASSUME NEW i \in 1 .. N PROVE k \notin Taken(stack[i])
  <2>1. PICK f, s, P, d : /\ f = stack[i] /\ s = f.src /\ P = Parts(Source(f)) /\ d = Len(f.done)
    OBVIOUS
  <2>2. f \in Frames /\ s \in Originals /\ s \in Body /\ P = Parts(heap[s]) /\ d \in Nat
    BY <1>1, <1>3, <1>5, <2>1, FrameFacts DEF Source
  <2>3. d + 1 \in 1 .. Len(P) /\ P[d + 1] \in Inner(s) /\ k \in Tree[P[d + 1]]
    <3>1. CASE i = N
      <4>1. P[d + 1] = k /\ Wants(f)  BY <1>2, <1>3, <2>1, <3>1 DEF Wanted
      <4>2. s = t  BY <1>2, <1>3, <2>1, <3>1
      <4> QED  BY <1>1, <1>4, <2>1, <2>2, <4>1, <4>2, WantedFacts, TreeFacts
    <3>2. CASE i # N
      <4>1. PICK j : j = i + 1  OBVIOUS
      <4>2. i < N /\ j \in 1 .. N  BY <1>3, <3>2, <4>1
      <4>3. Wants(f) /\ stack[j].src = Wanted(f) /\ stack[j].src \in Inner(s)
        BY <1>2, <2>1, <4>1, <4>2 DEF EInv, FramesLinked, Chained
      <4>4. P[d + 1] = Wanted(f)  BY <2>1 DEF Wanted
      <4>5. k \in Tree[P[d + 1]]  BY <1>7, <4>2, <4>3, <4>4
      <4> QED  BY <1>1, <2>1, <2>2, <4>3, <4>4, <4>5, WantedFacts
    <3> QED  BY <3>1, <3>2
  <2>4. k # s  BY <1>7, <2>1
  <2>5. ASSUME NEW j \in 1 .. d, P[j] \in Inner(s) PROVE k \notin Tree[P[j]]
    <3>1. PICK m : m = d + 1  OBVIOUS
    <3>2. j \in 1 .. Len(P) /\ m \in 1 .. Len(P) /\ j # m
      <4>1. Len(P) \in Nat  BY <1>1, <2>1, <2>2, FrameFacts
      <4> QED  BY <2>2, <2>3, <3>1, <4>1
    <3>3. Tree[P[j]] \cap Tree[P[m]] = {}
      BY <1>1, <2>2, <2>3, <2>5, <3>1, <3>2, TreesApart
    <3> QED  BY <2>3, <3>1, <3>3
  <2> QED  BY <2>1, <2>4, <2>5 DEF Taken
<1> QED  BY <1>2, <1>8 DEF Started

-----------------------------------------------------------------------------
(* What each step leaves. *)
LEMMA WhatBegins ==
  ASSUME TInv, NEW src \in Originals, NEW st, Begin(stack, src, st), program' = program,
         NEW g, g = Activation(src, NewObj, IF heap[src].op = "context" THEN NewObj ELSE st)
  PROVE  /\ NewObj \notin Objects /\ NewObj \in Nat /\ Originals' = Originals
         /\ Objects' = Objects \cup {NewObj} /\ Copies' = Copies \cup {NewObj}
         /\ \A o \in Objects : heap'[o] = heap[o]
         /\ heap'[NewObj] = Blank(src, st)
         /\ Len(stack) \in Nat /\ Len(stack') = Len(stack) + 1 /\ stack'[Len(stack) + 1] = g
         /\ \A i \in 1 .. Len(stack) : stack'[i] = stack[i]
         /\ g.src = src /\ g.obj = NewObj /\ g.done = << >> /\ ~g.shared
         /\ g.st = IF heap[src].op = "context" THEN NewObj ELSE st
<1>1. PICK b, n : b = Blank(src, st) /\ n = NewObj  OBVIOUS
<1>2. heap' = Append(heap, b) /\ stack' = Append(stack, g)  BY <1>1 DEF Begin
<1>3. heap \in Seq(Expr \cup {b}) /\ stack \in Seq(Frames \cup {g})
  BY Monotone DEF TInv
<1>4. /\ Len(heap') = n /\ heap'[n] = b /\ \A o \in 1 .. Len(heap) : heap'[o] = heap[o]
      /\ n = Len(heap) + 1 /\ Len(heap) \in Nat
  BY <1>1, <1>2, <1>3, AppendProperties, LenProperties DEF NewObj
<1>5. /\ Len(stack) \in Nat /\ Len(stack') = Len(stack) + 1 /\ stack'[Len(stack) + 1] = g
      /\ \A i \in 1 .. Len(stack) : stack'[i] = stack[i]
  BY <1>2, <1>3, AppendProperties, LenProperties
<1>6. Originals' = Originals  BY DEF Originals
<1>7. /\ n \notin Objects /\ n \in Nat /\ Objects' = Objects \cup {n}
      /\ \A o \in Objects : heap'[o] = heap[o]
  BY <1>4 DEF Objects
<1>8. n \notin Originals  BY <1>4, <1>7, HeapFacts
<1>9. Copies' = Copies \cup {n}  BY <1>6, <1>7, <1>8 DEF Copies
<1>10. /\ g.src = src /\ g.obj = NewObj /\ g.done = << >> /\ ~g.shared
       /\ g.st = IF heap[src].op = "context" THEN NewObj ELSE st
  BY DEF Activation
<1>11. heap'[NewObj] = Blank(src, st)  BY <1>1, <1>4
<1>12. NewObj \notin Objects /\ NewObj \in Nat /\ Objects' = Objects \cup {NewObj}
  BY <1>1, <1>7
<1>13. Copies' = Copies \cup {NewObj}  BY <1>1, <1>9
<1> QED  BY <1>5, <1>6, <1>7, <1>10, <1>11, <1>12, <1>13

Replaced(n, g) ==
  /\ Len(stack') = n /\ stack'[n] = g /\ n \in 1 .. Len(stack) /\ n \in Nat \ {0}
  /\ \A i \in 1 .. n - 1 : stack'[i] = stack[i] /\ i \in 1 .. Len(stack)
  /\ stack[n] \in Frames /\ \A i \in 1 .. n - 1 : stack[i] \in Frames
  /\ g.src = stack[n].src /\ g.obj = stack[n].obj /\ g.st = stack[n].st

LEMMA WhatResolves ==
  ASSUME EInv, Resolve
  PROVE  \E g : /\ Replaced(Len(stack), g) /\ g.done = Append(Top.done, Lookup(Top))
                /\ g.shared = Top.shared
<1>1. TInv /\ stack # << >>  BY DEF EInv, CInv, Resolve, Busy
<1>2. PICK f, N, g : f = Top /\ N = Len(stack) /\ g = [f EXCEPT !.done = Append(@, Lookup(Top))]
  OBVIOUS
<1>3. /\ f \in Frames /\ N \in Nat \ {0} /\ f = stack[N]
      /\ \A i \in 1 .. N : stack[i] \in Frames
  BY <1>1, <1>2, StackFacts
<1>4. stack' = Update(g) /\ ByName(f)  BY <1>2 DEF Resolve
<1>5. Lookup(Top) \in Objects
  <2>1. PICK k : k = Wanted(f)  OBVIOUS
  <2>2. k \in Originals /\ f.st \in DOMAIN accessible /\ heap[k].op = "symbol"
    BY <1>1, <1>2, <1>3, <1>4, <2>1, FrameFacts DEF Resolve, ByName
  <2>3. heap[k].name \in Names  BY <1>1, <2>2, SourceFacts
  <2>4. TableIs(f.st) /\ Lookup(Top) # None /\ Lookup(Top) = accessible[f.st][heap[k].name]
    BY <1>2, <2>1, <2>2 DEF EInv, Resolve, Lookup
  <2> QED  BY <2>3, <2>4 DEF TableIs, Settled
<1>6. g \in Frames /\ g.src = f.src /\ g.st = f.st /\ g.obj = f.obj /\ g.shared = f.shared
      /\ g.done = Append(f.done, Lookup(Top))
  <2>1. PICK a : a = Append(f.done, Lookup(Top))  OBVIOUS
  <2>2. a \in Seq(Objects)  BY <1>1, <1>3, <1>5, <2>1, FrameFacts, AppendProperties
  <2>3. g = [f EXCEPT !.done = a]  BY <1>2, <2>1
  <2> QED  BY <1>3, <2>1, <2>2, <2>3 DEF Frames, Frame
<1>7. Len(stack') = N /\ stack'[N] = g /\ \A i \in 1 .. N - 1 : stack'[i] = stack[i]
  BY <1>1, <1>2, <1>4, <1>6, Updated
<1>8. Replaced(N, g)
  <2>1. N \in 1 .. N /\ \A i \in 1 .. N - 1 : i \in 1 .. N  BY <1>3
  <2> QED  BY <1>2, <1>3, <1>6, <1>7, <2>1 DEF Replaced
<1> QED  BY <1>2, <1>6, <1>8

LEMMA WhatIsShared ==
  ASSUME EInv, ShareCaptures
  PROVE  \E g : Replaced(Len(stack), g) /\ g.done = Top.done /\ g.shared
<1>1. TInv /\ stack # << >>  BY DEF EInv, CInv, ShareCaptures, Busy
<1>2. PICK f, N, g : f = Top /\ N = Len(stack) /\ g = [f EXCEPT !.shared = TRUE]
  OBVIOUS
<1>3. /\ f \in Frames /\ N \in Nat \ {0} /\ f = stack[N]
      /\ \A i \in 1 .. N : stack[i] \in Frames
  BY <1>1, <1>2, StackFacts
<1>4. stack' = Update(g)  BY <1>2 DEF ShareCaptures
<1>5. g \in Frames /\ g.src = f.src /\ g.st = f.st /\ g.obj = f.obj /\ g.done = f.done /\ g.shared
  BY <1>2, <1>3 DEF Frames, Frame
<1>6. Len(stack') = N /\ stack'[N] = g /\ \A i \in 1 .. N - 1 : stack'[i] = stack[i]
  BY <1>1, <1>2, <1>4, <1>5, Updated
<1>7. Replaced(N, g)
  <2>1. N \in 1 .. N /\ \A i \in 1 .. N - 1 : i \in 1 .. N  BY <1>3
  <2> QED  BY <1>2, <1>3, <1>5, <1>6, <2>1 DEF Replaced
<1> QED  BY <1>2, <1>5, <1>7

LEMMA WhatFinishes ==
  ASSUME EInv, Finish
  PROVE  /\ Objects' = Objects /\ Copies' = Copies /\ Originals' = Originals
         /\ \A o \in Objects : o # Top.obj => heap'[o] = heap[o]
         /\ heap'[Top.obj] = Filled(Top)
         /\ Rest = << >> => /\ stack' = << >> /\ Len(stack) = 1
                            /\ accessible' = accessible /\ instances' = Append(instances, Top.obj)
         /\ Rest # << >> =>
              /\ accessible' = Declare(stack[Len(stack) - 1], Top.obj) /\ instances' = instances
              /\ \E g : /\ Replaced(Len(stack) - 1, g)
                        /\ g.done = Append(stack[Len(stack) - 1].done, Top.obj)
                        /\ g.shared = stack[Len(stack) - 1].shared
<1>1. TInv /\ stack # << >>  BY DEF EInv, CInv, Finish, Busy
<1>2. PICK t, o, N, n, b : t = Top /\ o = Top.obj /\ N = Len(stack) /\ n = N - 1 /\ b = Filled(Top)
  OBVIOUS
<1>3. /\ t \in Frames /\ N \in Nat \ {0} /\ t = stack[N] /\ Len(Rest) = n /\ N \in 1 .. N
      /\ \A i \in 1 .. N : stack[i] \in Frames
      /\ Rest \in Seq(Frames) /\ \A i \in 1 .. n : Rest[i] = stack[i]
  BY <1>1, <1>2, StackFacts
<1>4. heap' = [heap EXCEPT ![o] = b]  BY <1>2 DEF Finish
<1>5. o \in 1 .. Len(heap) /\ DOMAIN heap = 1 .. Len(heap) /\ heap \in Seq(Expr)
  <2>1. o \in Objects  BY <1>1, <1>2, <1>3, FrameFacts, HeapFacts
  <2> QED  BY <1>1, <2>1, LenProperties DEF TInv, Objects
<1>6. heap'[o] = b /\ \A x \in Objects : x # o => heap'[x] = heap[x]
  BY <1>4, <1>5 DEF Objects
<1>7. Len(heap') = Len(heap)
  <2>1. heap' \in Seq(Expr \cup {b})
    <3>1. heap \in Seq(Expr \cup {b})  BY <1>5, Monotone
    <3> QED  BY <1>4, <1>5, <3>1, ExceptSeq
  <2> QED  BY <1>4, <1>5, ExceptSeq
<1>8. Objects' = Objects /\ Originals' = Originals  BY <1>7 DEF Finish, Objects, Originals
<1>9. Copies' = Copies  BY <1>8 DEF Copies
<1>10. ASSUME Rest = << >>
       PROVE  /\ stack' = << >> /\ Len(stack) = 1
              /\ accessible' = accessible /\ instances' = Append(instances, Top.obj)
  <2>1. n = 0  BY <1>3, <1>10, EmptySeq
  <2> QED  BY <1>2, <1>3, <1>10, <2>1 DEF Finish
<1>11. ASSUME Rest # << >>
       PROVE  /\ accessible' = Declare(stack[n], o) /\ instances' = instances
              /\ \E g : /\ Replaced(n, g) /\ g.done = Append(stack[n].done, o)
                        /\ g.shared = stack[n].shared
  <2>1. PICK f, u, g : f = stack[n] /\ u = stack' /\ g = u[n]  OBVIOUS
  <2>2. u = [Rest EXCEPT ![Len(Rest)].done = Append(@, Top.obj)]
    BY <1>11, <2>1 DEF Finish
  <2>3. /\ n \in Nat \ {0} /\ Len(u) = n /\ Rest[Len(Rest)] = f
        /\ g.src = f.src /\ g.obj = f.obj /\ g.st = f.st
        /\ g.done = Append(f.done, o)
        /\ \A i \in 1 .. n - 1 : u[i] = stack[i]
    <3>1. n = Len(stack) - 1 /\ o = Top.obj  BY <1>2
    <3> HIDE <1>2
    <3> QED  BY <1>1, <1>11, <2>1, <2>2, <3>1, HandedBack
  <2>4. g.shared = f.shared
    <3>1. n \in 1 .. n /\ DOMAIN Rest = 1 .. n
      BY <1>3, <2>3, LenProperties
    <3>2. g = [f EXCEPT !.done = Append(@, Top.obj)]
      BY <1>3, <2>1, <2>2, <2>3, <3>1
    <3>3. f \in Frames  BY <1>2, <1>3, <2>1, <2>3
    <3> QED  BY <3>2, <3>3 DEF Frames, Frame
  <2>5. accessible' = Declare(f, o) /\ instances' = instances
    BY <1>2, <1>11, <2>3 DEF Finish
  <2>6. n \in 1 .. N /\ \A i \in 1 .. n - 1 : i \in 1 .. N  BY <1>2, <1>3, <2>3
  <2>7. Replaced(n, g)
    BY <1>2, <1>3, <2>1, <2>3, <2>6 DEF Replaced
  <2> QED  BY <2>1, <2>3, <2>4, <2>5, <2>7
<1> QED  BY <1>2, <1>6, <1>8, <1>9, <1>10, <1>11

-----------------------------------------------------------------------------
LEMMA CopiesFinite ==
  ASSUME TInv, NEW n
  PROVE  IsFiniteSet(CopiesOf(n)) /\ Cardinality(CopiesOf(n)) \in Nat
<1>1. Len(heap) \in Nat /\ Copies \subseteq 1 .. Len(heap)  BY HeapFacts
<1>2. IsFiniteSet(1 .. Len(heap))
  <2>1. 1 \in Int /\ Len(heap) \in Int  BY <1>1
  <2> QED  BY <2>1, FS_Interval
<1>3. CopiesOf(n) \in SUBSET (1 .. Len(heap))  BY <1>1 DEF CopiesOf
<1>4. IsFiniteSet(CopiesOf(n))  BY <1>2, <1>3, FS_Subset
<1> QED  BY <1>4, FS_CardinalityType

LEMMA TakenNothing ==
  ASSUME NEW f, f.done = << >>
  PROVE  Taken(f) = {f.src}
<1>1. 1 .. Len(f.done) = {}  BY EmptySeq
<1>2. \A S : {i \in 1 .. Len(f.done) : Parts(Source(f))[i] \in S} = {}  BY <1>1
<1>3. {i \in 1 .. Len(f.done) : Parts(Source(f))[i] \in Inner(f.src)} = {}  BY <1>2
<1> QED  BY <1>3 DEF Taken

(* A copy is begun. *)
LEMMA BeginsOnce ==
  ASSUME EInv, EInv', Chained, OnceEach, program' = program, instances' = instances,
         NEW src \in Body, src \notin Started, NEW st, Begin(stack, src, st),
         IF stack = << >> THEN src = program.fn ELSE src \in Inner(Top.src)
  PROVE  Chained' /\ OnceEach'
<1>1. TInv /\ TInv' /\ src \in Originals  BY BodyFacts DEF EInv, CInv
<1>2. PICK g, N, n : /\ g = Activation(src, NewObj, IF heap[src].op = "context" THEN NewObj ELSE st)
                     /\ N = Len(stack) /\ n = NewObj
  OBVIOUS
<1>3. /\ n \notin Objects /\ Copies' = Copies \cup {n} /\ Originals' = Originals
      /\ \A o \in Objects : heap'[o] = heap[o]
      /\ heap'[n] = Blank(src, st)
      /\ N \in Nat /\ Len(stack') = N + 1 /\ stack'[N + 1] = g
      /\ \A i \in 1 .. N : stack'[i] = stack[i]
      /\ g.src = src /\ g.done = << >>
  BY <1>1, <1>2, WhatBegins
<1>4. \A i \in 1 .. N : stack[i] \in Frames  BY <1>1, <1>2, ElementOfSeq DEF TInv
<1>5. Body' = Body /\ \A m : Inner(m)' = Inner(m)  BY TreesKept
<1>6. heap'[n].of = src
  <2>1. heap[src] \in Expr /\ heap[src].of = src  BY <1>1, ScopeFacts
  <2> QED  BY <1>3, <2>1 DEF Blank, Expr
<1>7. Chained'
  <2>1. stack'[1].src = program'.fn
    <3>1. CASE N = 0
      <4>1. stack = << >>  BY <1>1, <1>2, <3>1, EmptySeq DEF TInv
      <4> QED  BY <1>3, <3>1, <4>1
    <3>2. CASE N # 0
      <4>1. 1 \in 1 .. N /\ stack # << >>  BY <1>2, <1>3, <3>2, EmptySeq
      <4> QED  BY <1>3, <4>1 DEF Chained
    <3> QED  BY <3>1, <3>2
  <2>2. ASSUME NEW i \in 1 .. N + 1, i < N + 1
        PROVE  stack'[i + 1].src \in Inner(stack[i].src)'
    <3>1. i \in 1 .. N /\ stack'[i] = stack[i] /\ stack # << >>
      <4>1. i \in 1 .. N /\ N # 0  BY <1>3, <2>2
      <4> QED  BY <1>2, <1>3, <4>1, EmptySeq
    <3>2. CASE i = N
      <4>1. Top = stack[i]  BY <1>1, <1>2, <3>1, <3>2, StackFacts
      <4> QED  BY <1>3, <1>5, <3>1, <3>2, <4>1
    <3>3. CASE i # N
      <4>1. PICK j : j = i + 1  OBVIOUS
      <4>2. j \in 1 .. N /\ i < N /\ stack'[j] = stack[j]  BY <1>3, <3>1, <3>3, <4>1
      <4> QED  BY <1>2, <1>5, <3>1, <4>1, <4>2 DEF Chained
    <3> QED  BY <3>2, <3>3
  <2> QED  BY <1>3, <2>1, <2>2 DEF Chained
<1>8. Started' = Started \cup {src}
  <2>1. Taken(g)' = {src}
    <3>1. Taken(g) = {src}  BY <1>3, TakenNothing
    <3>2. PICK P : P = Parts(Source(g))'  OBVIOUS
    <3>3. 1 .. Len(g.done) = {}  BY <1>3, EmptySeq
    <3>4. {i \in 1 .. Len(g.done) : P[i] \in Inner(g.src)'} = {}  BY <3>3
    <3> QED  BY <1>3, <3>2, <3>4 DEF Taken
  <2>2. \A i \in 1 .. N : Taken(stack[i])' = Taken(stack[i])
    <3> TAKE i \in 1 .. N
    <3>1. PICK f : f = stack[i]  OBVIOUS
    <3>2. f \in Frames /\ stack'[i] = f  BY <1>3, <1>4, <3>1
    <3>3. Taken(f)' = Taken(f)  BY <1>1, <3>2, TakenStays
    <3> QED  BY <3>1, <3>2, <3>3
  <2>3. Taken(stack[N + 1])' = {src}  BY <1>3, <2>1
  <2>4. PICK m : m = N + 1  OBVIOUS
  <2>5. 1 .. m = 1 .. N \cup {m}  BY <1>3, <2>4
  <2>6. Started' = UNION {Taken(stack[i])' : i \in 1 .. m}  BY <1>3, <2>4 DEF Started
  <2>7. Started = UNION {Taken(stack[i]) : i \in 1 .. N}  BY <1>2 DEF Started
  <2> QED  BY <2>2, <2>3, <2>4, <2>5, <2>6, <2>7
<1>9. ASSUME NEW m \in Originals'
      PROVE  Cardinality(CopiesOf(m)') =
               IF m \in Body' THEN Len(instances') + (IF m \in Started' THEN 1 ELSE 0) ELSE 0
  <2>1. m \in Originals  BY <1>3, <1>9
  <2>2. Cardinality(CopiesOf(m)) =
          IF m \in Body THEN Len(instances) + (IF m \in Started THEN 1 ELSE 0) ELSE 0
    BY <2>1 DEF OnceEach
  <2>3. IsFiniteSet(CopiesOf(m)) /\ n \notin CopiesOf(m)
    <3>1. n \notin Copies  BY <1>1, <1>3, HeapFacts
    <3> QED  BY <1>1, <3>1, CopiesFinite DEF CopiesOf
  <2>4. \A o \in Copies : heap'[o].of = heap[o].of  BY <1>1, <1>3, HeapFacts
  <2>5. CASE m = src
    <3>1. CopiesOf(m)' = CopiesOf(m) \cup {n}
      BY <1>3, <1>6, <2>4, <2>5 DEF CopiesOf
    <3>2. Cardinality(CopiesOf(m)') = Cardinality(CopiesOf(m)) + 1
      BY <2>3, <3>1, FS_AddElement
    <3>3. Len(instances) \in Nat  BY <1>1, LenProperties DEF TInv
    <3> QED  BY <1>5, <1>8, <2>2, <2>5, <3>2, <3>3
  <2>6. CASE m # src
    <3>1. CopiesOf(m)' = CopiesOf(m)
      BY <1>3, <1>6, <2>4, <2>6 DEF CopiesOf
    <3> QED  BY <1>5, <1>8, <2>2, <2>6, <3>1
  <2> QED  BY <2>5, <2>6
<1> QED  BY <1>7, <1>9 DEF OnceEach

(* A step that begins no copy. *)
LEMMA OnceGoesOn ==
  ASSUME EInv, EInv', Chained, OnceEach, program' = program, instances' = instances,
         Copies' = Copies, \A o \in Copies : heap'[o].of = heap[o].of,
         NEW n, NEW g, Replaced(n, g),
         Taken(g)' = UNION {Taken(stack[i]) : i \in n .. Len(stack)}
  PROVE  Chained' /\ OnceEach'
<1>1. TInv /\ TInv'  BY DEF EInv, CInv
<1>2. /\ Len(stack') = n /\ stack'[n] = g /\ n \in 1 .. Len(stack) /\ n \in Nat \ {0}
      /\ \A i \in 1 .. n - 1 : stack'[i] = stack[i] /\ i \in 1 .. Len(stack) /\ stack[i] \in Frames
      /\ g.src = stack[n].src
  BY DEF Replaced
<1>3. PICK N : N = Len(stack)  OBVIOUS
<1>4. N \in Nat /\ n <= N /\ n \in 1 .. n /\ \A i \in 1 .. n : i = n \/ i \in 1 .. n - 1
  BY <1>1, <1>2, <1>3, LenProperties DEF TInv
<1>5. Body' = Body /\ Originals' = Originals /\ \A m : Inner(m)' = Inner(m)  BY TreesKept
<1>6. \A i \in 1 .. n : stack'[i].src = stack[i].src  BY <1>2, <1>4
<1>7. stack # << >>  BY <1>2, <1>3, <1>4, EmptySeq
<1>8. Chained'
  <2>1. stack'[1].src = program'.fn
    <3>1. 1 \in 1 .. n  BY <1>2
    <3> QED  BY <1>6, <1>7, <3>1 DEF Chained
  <2>2. ASSUME NEW i \in 1 .. n, i < n PROVE stack'[i + 1].src \in Inner(stack[i].src)'
    <3>1. PICK j : j = i + 1  OBVIOUS
    <3>2. j \in 1 .. n /\ i < N /\ i \in 1 .. N  BY <1>2, <1>4, <2>2, <3>1
    <3>3. stack[j].src \in Inner(stack[i].src)  BY <1>3, <3>1, <3>2 DEF Chained
    <3> QED  BY <1>5, <1>6, <3>1, <3>2, <3>3
  <2> QED  BY <1>2, <2>1, <2>2 DEF Chained
<1>9. Started' = Started
  <2>1. \A i \in 1 .. n - 1 : Taken(stack[i])' = Taken(stack[i])
    <3> TAKE i \in 1 .. n - 1
    <3>1. PICK f : f = stack[i]  OBVIOUS
    <3>2. f \in Frames /\ stack'[i] = f  BY <1>2, <3>1
    <3>3. Taken(f)' = Taken(f)  BY <1>1, <3>2, TakenStays
    <3> QED  BY <3>1, <3>2, <3>3
  <2>2. 1 .. N = (1 .. n - 1) \cup (n .. N) /\ 1 .. n = (1 .. n - 1) \cup {n}  BY <1>2, <1>4
  <2>3. Started = UNION {Taken(stack[i]) : i \in 1 .. N}  BY <1>3 DEF Started
  <2>4. Started' = UNION {Taken(stack[i])' : i \in 1 .. n}  BY <1>2 DEF Started
  <2>5. Taken(stack[n])' = UNION {Taken(stack[i]) : i \in n .. N}  BY <1>2, <1>3
  <2> QED  BY <2>1, <2>2, <2>3, <2>4, <2>5
<1>10. \A m : CopiesOf(m)' = CopiesOf(m)  BY DEF CopiesOf
<1> QED  BY <1>5, <1>8, <1>9, <1>10 DEF OnceEach

LEMMA ResolvesOnce ==
  ASSUME EInv, EInv', Plain, Chained, OnceEach, Resolve
  PROVE  Chained' /\ OnceEach'
<1>1. TInv /\ TInv' /\ stack # << >> /\ Wants(Top) /\ ByName(Top)
  BY DEF EInv, CInv, Resolve, Busy
<1>2. PICK f, N, k : f = Top /\ N = Len(stack) /\ k = Wanted(Top)  OBVIOUS
<1>3. f \in Frames /\ N \in Nat \ {0} /\ f = stack[N]  BY <1>1, <1>2, StackFacts
<1>4. PICK g : Replaced(N, g) /\ g.done = Append(f.done, Lookup(Top))
  BY <1>2, WhatResolves
<1>5. g.src = f.src  BY <1>3, <1>4 DEF Replaced
<1>6. k \notin Inner(f.src)
  <2>1. f.src \in Originals /\ Source(f) = heap[f.src]  BY <1>1, <1>3, FrameFacts DEF Source
  <2>2. heap[f.src].op = "apply" /\ heap[k].op = "symbol"
    BY <1>1, <1>2, <2>1 DEF ByName
  <2> QED  BY <1>1, <2>1, <2>2, InnerFacts
<1>7. Taken(g) = Taken(f)
  <2>1. Taken(g) = Taken(f) \cup IF Wanted(f) \in Inner(f.src) THEN Tree[Wanted(f)] ELSE {}
    BY <1>1, <1>2, <1>3, <1>4, <1>5, TakesOne
  <2> QED  BY <1>2, <1>6, <2>1
<1>8. Taken(g)' = Taken(g)
  <2>1. program' = program /\ heap' = heap  BY DEF Resolve
  <2>2. Tree' = Tree /\ Inner(g.src)' = Inner(g.src)  BY <2>1, TreesKept
  <2>3. Source(g)' = Source(g)  BY <2>1 DEF Source
  <2>4. Parts(Source(g))' = Parts(Source(g))  BY <2>3 DEF Parts, CalleeOf
  <2> QED  BY <2>2, <2>4 DEF Taken
<1>9. Taken(g)' = UNION {Taken(stack[i]) : i \in N .. Len(stack)}
  <2>1. N .. Len(stack) = {N}  BY <1>2, <1>3
  <2> QED  BY <1>3, <1>7, <1>8, <2>1
<1>10. /\ program' = program /\ instances' = instances /\ Copies' = Copies
       /\ \A o \in Copies : heap'[o].of = heap[o].of
  BY DEF Resolve, Copies, Objects, Originals
<1> QED  BY <1>4, <1>9, <1>10, OnceGoesOn

LEMMA SharesOnce ==
  ASSUME EInv, EInv', Chained, OnceEach, ShareCaptures
  PROVE  Chained' /\ OnceEach'
<1>1. TInv /\ TInv' /\ stack # << >>  BY DEF EInv, CInv, ShareCaptures, Busy
<1>2. PICK f, N : f = Top /\ N = Len(stack)  OBVIOUS
<1>3. f \in Frames /\ N \in Nat \ {0} /\ f = stack[N]  BY <1>1, <1>2, StackFacts
<1>4. PICK g : Replaced(N, g) /\ g.done = f.done  BY <1>2, WhatIsShared
<1>5. g.src = f.src  BY <1>3, <1>4 DEF Replaced
<1>6. Taken(g)' = Taken(f)'
  <2>1. Source(g)' = Source(f)'  BY <1>5 DEF Source
  <2>2. Parts(Source(g))' = Parts(Source(f))'  BY <2>1 DEF Parts, CalleeOf
  <2> QED  BY <1>4, <1>5, <2>2 DEF Taken
<1>7. program' = program  BY DEF ShareCaptures
<1>8. Taken(g)' = UNION {Taken(stack[i]) : i \in N .. Len(stack)}
  <2>1. N .. Len(stack) = {N}  BY <1>2, <1>3
  <2>2. Taken(f)' = Taken(f)  BY <1>1, <1>3, <1>7, TakenStays
  <2> QED  BY <1>3, <1>6, <2>1, <2>2
<1>9. /\ program' = program /\ instances' = instances /\ Copies' = Copies
      /\ \A o \in Copies : heap'[o].of = heap[o].of
  BY DEF ShareCaptures, Copies, Objects, Originals
<1> QED  BY <1>4, <1>8, <1>9, OnceGoesOn

LEMMA FinishesOnce ==
  ASSUME EInv, EInv', Chained, OnceEach, Filling, Finish
  PROVE  Chained' /\ OnceEach'
<1>1. TInv /\ TInv' /\ stack # << >> /\ ~Wants(Top)  BY DEF EInv, CInv, Finish, Busy
<1>2. PICK t, N, n : t = Top /\ N = Len(stack) /\ n = N - 1  OBVIOUS
<1>3. /\ t \in Frames /\ N \in Nat \ {0} /\ t = stack[N] /\ Len(Rest) = n /\ N \in 1 .. N
      /\ \A i \in 1 .. N : stack[i] \in Frames
  BY <1>1, <1>2, StackFacts
<1>4. Taken(t) = Tree[t.src]
  <2>1. FrameIs(t)  BY <1>2, <1>3 DEF EInv
  <2> QED  BY <1>1, <1>2, <1>3, <2>1, TakenAll
<1>5. program' = program  BY DEF Finish
<1>6. Body' = Body /\ Originals' = Originals  BY <1>5, TreesKept
<1>7. Copies' = Copies /\ \A o \in Copies : heap'[o].of = heap[o].of
  <2>1. Filled(Top).of = heap[Top.obj].of  BY <1>1, FilledIs
  <2>2. Copies \subseteq Objects  BY <1>1, HeapFacts
  <2> QED  BY <2>1, <2>2, WhatFinishes
<1>8. \A m : CopiesOf(m)' = CopiesOf(m)  BY <1>7 DEF CopiesOf
<1>9. CASE Rest = << >>
  <2>1. stack' = << >> /\ N = 1 /\ instances' = Append(instances, Top.obj)
    BY <1>2, <1>9, WhatFinishes
  <2>2. Len(stack') = 0 /\ 1 .. Len(stack') = {}  BY <2>1, EmptySeq
  <2>3. Started' = {}  BY <2>2 DEF Started
  <2>4. Started = Body
    <3>1. t.src = program.fn  BY <1>1, <1>3, <2>1 DEF Chained
    <3>2. Taken(stack[1]) = Body  BY <1>3, <1>4, <2>1, <3>1 DEF Body
    <3>3. 1 .. Len(stack) = {1}  BY <1>2, <2>1
    <3> QED  BY <3>2, <3>3 DEF Started
  <2>5. Len(instances) \in Nat /\ Len(instances') = Len(instances) + 1
    <3>1. Top.obj \in Copies  BY <1>1, <1>2, <1>3, FrameFacts
    <3> QED  BY <1>1, <2>1, <3>1, LenProperties, AppendProperties DEF TInv
  <2>6. Chained'  BY <2>1, <2>2 DEF Chained
  <2>7. OnceEach'  BY <1>6, <1>8, <2>3, <2>4, <2>5 DEF OnceEach
  <2> QED  BY <2>6, <2>7
<1>10. CASE Rest # << >>
  <2>1. PICK f : f = stack[n]  OBVIOUS
  <2>2. PICK g : instances' = instances /\ Replaced(n, g) /\ g.done = Append(f.done, Top.obj)
    BY <1>2, <1>10, <2>1, WhatFinishes
  <2>3. g.src = f.src /\ f \in Frames /\ n \in 1 .. N /\ n < N /\ n + 1 = N
    BY <1>2, <1>3, <2>1, <2>2 DEF Replaced
  <2>4. Wants(f) /\ t.src = Wanted(f) /\ t.src \in Inner(f.src)
    BY <1>2, <1>3, <2>1, <2>3 DEF EInv, FramesLinked, Chained
  <2>5. Taken(g) = Taken(f) \cup Taken(t)
    <3>1. Taken(g) = Taken(f) \cup IF Wanted(f) \in Inner(f.src) THEN Tree[Wanted(f)] ELSE {}
      BY <1>1, <2>2, <2>3, <2>4, TakesOne
    <3> QED  BY <1>4, <2>4, <3>1
  <2>6. Taken(g)' = Taken(g)
    <3>1. Tree' = Tree /\ Inner(g.src)' = Inner(g.src)  BY <1>5, TreesKept
    <3>2. Parts(Source(f))' = Parts(Source(f))  BY <1>1, <1>5, <2>3, SourceSame
    <3>3. Source(g) = Source(f) /\ Source(g)' = Source(f)'  BY <2>3 DEF Source
    <3>4. Parts(Source(g))' = Parts(Source(g))  BY <3>2, <3>3 DEF Parts, CalleeOf
    <3> QED  BY <3>1, <3>4 DEF Taken
  <2>7. Taken(g)' = UNION {Taken(stack[i]) : i \in n .. Len(stack)}
    <3>1. n .. Len(stack) = {n, N}  BY <1>2, <1>3, <2>3
    <3> QED  BY <1>3, <2>1, <2>5, <2>6, <3>1
  <2> QED  BY <1>5, <1>7, <2>2, <2>7, OnceGoesOn
<1> QED  BY <1>9, <1>10

LEMMA StepOnce == ASSUME EInv, EInv', GInv, OInv, Step PROVE OInv'
<1>1. TInv /\ TInv'  BY DEF EInv, CInv
<1>2. program' = program
  BY DEF Step, Instantiate, Descend, Resolve, Unresolved, ShareCaptures, Finish
<1> SUFFICES ASSUME Plain PROVE Chained' /\ OnceEach'
  BY <1>2, TreesKept DEF OInv
<1>3. Chained /\ OnceEach /\ Filling /\ References \cap Captures = {}
  BY DEF OInv, Plain, GInv
<1>4. CASE Instantiate
  <2>1. stack = << >> /\ Begin(stack, program.fn, None) /\ instances' = instances
    BY <1>4 DEF Instantiate
  <2>2. program.fn \in Body  BY <1>1, BodyFacts
  <2>3. Started = {}
    <3>1. 1 .. Len(stack) = {}  BY <2>1, EmptySeq
    <3> QED  BY <3>1 DEF Started
  <2> QED  BY <1>2, <1>3, <2>1, <2>2, <2>3, BeginsOnce
<1>5. CASE Descend
  <2>1. /\ stack # << >> /\ Wants(Top) /\ ~ByName(Top) /\ instances' = instances
        /\ Begin(stack, Wanted(Top), Top.st)
    BY <1>5 DEF Descend, Busy
  <2>2. PICK k, st : k = Wanted(Top) /\ st = Top.st  OBVIOUS
  <2>3. k \in Inner(Top.src) /\ k \in Body /\ k \notin Started
    BY <1>3, <2>1, <2>2, WantedIn, Fresh
  <2> QED  BY <1>2, <1>3, <2>1, <2>2, <2>3, BeginsOnce
<1>6. CASE Resolve  BY <1>3, <1>6, ResolvesOnce
<1>7. CASE Unresolved  BY <1>3, <1>7, AlwaysFound DEF Unresolved, Busy
<1>8. CASE ShareCaptures  BY <1>3, <1>8, SharesOnce
<1>9. CASE Finish  BY <1>3, <1>9, FinishesOnce
<1> QED  BY <1>4, <1>5, <1>6, <1>7, <1>8, <1>9 DEF Step

LEMMA StopsOnce ==
  ASSUME EInv, EInv', OInv, UNCHANGED vars
  PROVE  OInv'
<1>1. /\ program' = program /\ heap' = heap /\ stack' = stack /\ instances' = instances
  BY DEF vars
<1>2. TInv /\ TInv'  BY DEF EInv, CInv
<1>3. (Plain' <=> Plain) /\ Body' = Body /\ Originals' = Originals /\ \A n : Inner(n)' = Inner(n)
  BY <1>1, TreesKept
<1>4. Chained' <=> Chained  BY <1>1, <1>3 DEF Chained
<1>5. Started' = Started
  <2>1. \A i \in 1 .. Len(stack) : Taken(stack[i])' = Taken(stack[i])
    <3> TAKE i \in 1 .. Len(stack)
    <3>1. PICK f : f = stack[i]  OBVIOUS
    <3>2. f \in Frames /\ stack'[i] = f  BY <1>1, <1>2, <3>1, ElementOfSeq DEF TInv
    <3>3. Taken(f)' = Taken(f)  BY <1>1, <1>2, <3>2, TakenStays
    <3> QED  BY <3>1, <3>2, <3>3
  <2> QED  BY <1>1, <2>1 DEF Started
<1>6. \A n : CopiesOf(n)' = CopiesOf(n)  BY <1>1, <1>3 DEF CopiesOf, Copies, Objects
<1> QED  BY <1>1, <1>3, <1>4, <1>5, <1>6 DEF OInv, OnceEach

LEMMA OnceInvariant == DumpSpec => []OInv
<1>1. DumpInit /\ EInv => OInv
  <2> SUFFICES ASSUME DumpInit, EInv PROVE OInv  OBVIOUS
  <2>1. /\ stack = << >> /\ instances = << >> /\ heap = program.node  BY DEF DumpInit, Init
  <2>2. Len(stack) = 0 /\ Len(instances) = 0 /\ 1 .. Len(stack) = {}  BY <2>1, EmptySeq
  <2>3. Copies = {}  BY <2>1 DEF Copies, Objects, Originals
  <2>4. \A n : CopiesOf(n) = {}  BY <2>3 DEF CopiesOf
  <2>5. Started = {}  BY <2>2 DEF Started
  <2> QED  BY <2>1, <2>2, <2>4, <2>5, FS_EmptySet DEF OInv, Chained, OnceEach
<1>2. EInv /\ EInv' /\ GInv /\ OInv /\ [DumpNext]_allVars => OInv'
  <2> SUFFICES ASSUME EInv, EInv', GInv, OInv, [DumpNext]_allVars PROVE OInv'  OBVIOUS
  <2>1. Step \/ UNCHANGED vars
    BY DEF DumpNext, DumpStep, BeginDump, Dependency, PrintLine, EndDump, Done, allVars, vars
  <2> QED  BY <2>1, StepOnce, StopsOnce
<1>3. DumpSpec => []EInv  BY ObjectsInvariant
<1>4. DumpSpec => []GInv  BY TablesInvariant
<1> QED  BY <1>1, <1>2, <1>3, <1>4, PTL DEF DumpSpec

-----------------------------------------------------------------------------
(* What an operand becomes. *)
Hid(s, c) ==
  {x \in Elements(heap[c].captures) : s \in Elements(heap[c].params) /\ heap[x].name = heap[s].name}

Means(s, k, y) ==
  IF s \in Captures THEN y = s
  ELSE IF Hid(s, heap[k].of) # {} THEN y \in Hid(s, heap[k].of)
  ELSE y \in Copies /\ heap[y].of = s /\ heap[y].in = k

MeansDone(f) ==
  \A j \in 1 .. Len(f.done) : Means(Parts(Source(f))[j], f.st, f.done[j])

MeansAll(o) ==
  LET now == Parts(heap[o])
      was == Parts(heap[heap[o].of])
  IN  Len(now) = Len(was) /\ \A i \in 1 .. Len(was) : Means(was[i], heap[o].in, now[i])

(* An entry is the last of the captures or of the parts with the name. *)
LastAt(s, i, x) ==
  \A j \in 1 .. Len(s) : i < j => heap[s[j]].name # x

ByCapture(f, x, y) ==
  /\ f.shared
  /\ \E i \in 1 .. Len(Source(f).captures) :
       /\ Source(f).captures[i] = y /\ heap[y].name = x /\ LastAt(Source(f).captures, i, x)

ByPart(f, x, y) ==
  \E i \in 1 .. Len(f.done) :
    LET P == Parts(Source(f)) IN
    /\ f.done[i] = y /\ heap[P[i]].op = "symbol" /\ heap[P[i]].name = x
    /\ \A j \in 1 .. Len(f.done) : i < j /\ heap[P[j]].op = "symbol" => heap[P[j]].name # x
    /\ f.shared /\ i <= Len(Source(f).params) =>
         \A z \in Elements(Source(f).captures) : heap[z].name # x

EntriesRight(f) ==
  /\ f.shared => Len(Source(f).params) <= Len(f.done)
  /\ \A x \in Names :
       accessible[f.obj][x] # None =>
         ByCapture(f, x, accessible[f.obj][x]) \/ ByPart(f, x, accessible[f.obj][x])

FrameRight(f) == IF IsContext(f) THEN EntriesRight(f) ELSE MeansDone(f)

LEMMA SymbolParts ==
  ASSUME TInv, NEW c \in Originals, NEW e, e = heap[c], e.op = "context",
         NEW i \in 1 .. Len(Parts(e)), heap[Parts(e)[i]].op = "symbol"
  PROVE  \/ i \in 1 .. Len(e.params) /\ Parts(e)[i] = e.params[i]
         \/ \E j \in 1 .. Len(e.locals) :
              i = Len(e.params) + j /\ Parts(e)[i] = e.locals[j]
<1>1. e \in Expr /\ Len(e.kids) = 1 /\ heap[e.kids[1]].op = "ret"
  BY ScopeFacts
<1>2. PICK p, l, P : p = Len(e.params) /\ l = Len(e.locals) /\ P = Parts(e)  OBVIOUS
<1>3. /\ p \in Nat /\ l \in Nat /\ Len(P) = p + l + 1
      /\ \A j \in 1 .. p : P[j] = e.params[j]
      /\ \A j \in 1 .. l : P[p + j] = e.locals[j]
      /\ \A j \in 1 .. 1 : P[p + l + j] = e.kids[j]
  BY <1>1, <1>2, ContextParts
<1>4. P[p + l + 1] = e.kids[1]  BY <1>3
<1>5. i # p + l + 1  BY <1>1, <1>2, <1>4
<1>6. CASE i <= p  BY <1>2, <1>3, <1>6
<1>7. CASE p < i
  <2>1. PICK j : j = i - p  OBVIOUS
  <2>2. i \in 1 .. p + l + 1  BY <1>2, <1>3
  <2>3. j \in 1 .. l /\ i = p + j  BY <1>3, <1>5, <1>7, <2>1, <2>2
  <2> QED  BY <1>2, <1>3, <2>3
<1> QED  BY <1>2, <1>3, <1>6, <1>7

(* The name of an operand means the symbol. *)
LEMMA OperandNames ==
  ASSUME TInv, NEW n \in Originals, heap[n].op = "apply",
         NEW k \in Elements(Parts(heap[n])), heap[k].op = "symbol",
         NEW c \in Originals, heap[n].in = c, NEW e, e = heap[c], e.op = "context"
  PROVE  /\ k \in Elements(e.params) =>
              \E i \in 1 .. Len(e.params) : e.params[i] = k /\ LastAt(e.params, i, heap[k].name)
         /\ k \in Elements(e.captures) =>
              /\ \E i \in 1 .. Len(e.captures) :
                   e.captures[i] = k /\ LastAt(e.captures, i, heap[k].name)
              /\ \A q \in Elements(e.params) : heap[q].name # heap[k].name
<1>1. /\ WellScoped(program) /\ Originals = 1 .. Len(program.node)
      /\ e = program.node[c] /\ e \in Expr /\ \A x \in Originals : heap[x] = program.node[x]
  BY SourceFacts, ScopesAssumption DEF TInv, Originals
<1>2. k \in Originals /\ c # None
  <2>1. Parts(heap[n]) \in Seq(Originals)  BY SourceFacts
  <2> QED  BY <1>1, <2>1, InElements DEF None
<1>3. /\ e.params \in Seq(Nat) /\ e.captures \in Seq(Nat)
      /\ DOMAIN e.params = 1 .. Len(e.params) /\ DOMAIN e.captures = 1 .. Len(e.captures)
  BY <1>1, LenProperties DEF Expr
<1>4. /\ n \in 1 .. Len(program.node) /\ program.node[n].op = "apply" /\ program.node[n].in = c
      /\ k \in Elements(Parts(program.node[n])) /\ program.node[k].op = "symbol"
  BY <1>1, <1>2
<1>5. /\ k \in Elements(program.node[c].params) => LastNamed(program, k, program.node[c].params)
      /\ k \in Elements(program.node[c].captures) =>
           /\ LastNamed(program, k, program.node[c].captures)
           /\ \A q \in Elements(program.node[c].params) : program.node[q].name # program.node[k].name
  BY <1>1, <1>2, <1>4 DEF WellScoped
<1>6. ASSUME NEW s \in Seq(Originals), LastNamed(program, k, s)
      PROVE  \E i \in 1 .. Len(s) : s[i] = k /\ LastAt(s, i, heap[k].name)
  <2>1. DOMAIN s = 1 .. Len(s)  BY LenProperties
  <2>2. PICK i \in 1 .. Len(s) :
          s[i] = k /\ \A j \in 1 .. Len(s) : i < j => program.node[s[j]].name # program.node[k].name
    BY <1>6, <2>1 DEF LastNamed
  <2>3. \A j \in 1 .. Len(s) : s[j] \in Originals  BY ElementOfSeq
  <2>4. \A j \in 1 .. Len(s) : i < j => heap[s[j]].name # heap[k].name
    BY <1>1, <1>2, <2>2, <2>3
  <2> QED  BY <2>2, <2>4 DEF LastAt
<1>7. e.params \in Seq(Originals) /\ e.captures \in Seq(Originals)
  <2>1. Elements(e.params) \subseteq Originals  BY ScopeFacts DEF Uses
  <2>2. \A j \in 1 .. Len(e.params) : e.params[j] \in Originals  BY <2>1 DEF Elements
  <2> QED  BY <1>3, <2>2, Typed, SourceFacts
<1>8. \A q \in Elements(e.params) : q \in Originals  BY ScopeFacts DEF Uses
<1> QED  BY <1>1, <1>2, <1>5, <1>6, <1>7, <1>8

(* What is found by its name is what the operand becomes. *)
LEMMA LookupMeans ==
  ASSUME EInv, Plain, Filling, stack # << >>, Wants(Top), ByName(Top),
         \A i \in 1 .. Len(stack) : FrameRight(stack[i])
  PROVE  Means(Wanted(Top), Top.st, Lookup(Top))
<1>1. TInv /\ References \cap Captures = {}  BY DEF EInv, CInv, Plain
<1>2. PICK N, f, n, k, y, x :
        /\ N = Len(stack) /\ f = Top /\ n = f.src /\ k = Wanted(f)
        /\ y = Lookup(f) /\ x = heap[k].name
  OBVIOUS
<1>3. /\ N \in Nat \ {0} /\ f = stack[N] /\ f \in Frames /\ N \in 1 .. N
      /\ \A i \in 1 .. N : stack[i] \in Frames
  BY <1>1, <1>2, StackFacts
<1>4. n \in Originals /\ Source(f) = heap[n] /\ n \notin Captures
  BY <1>1, <1>2, <1>3, FrameFacts DEF Source, Filling, FillsAt
<1>5. k \in Originals /\ k \in Elements(Parts(heap[n]))  BY <1>1, <1>2, <1>3, <1>4, WantedFacts
<1>6. heap[n].op = "apply" /\ heap[k].op = "symbol" /\ heap[k].in = heap[n].in /\ x \in Names
  <2>1. heap[n].op = "apply" /\ heap[k].op = "symbol"  BY <1>2, <1>4 DEF ByName
  <2>2. heap[k].in = heap[n].in  BY <1>1, <1>4, <1>5, <2>1, ScopeFacts
  <2>3. x \in Names  BY <1>1, <1>2, <1>5, <2>1, SourceFacts
  <2> QED  BY <2>1, <2>2, <2>3
<1>7. PICK h \in 1 .. N - 1 : /\ WithinFrame(stack[h], f) /\ stack[h].shared
                              /\ Len(Source(stack[h]).params) <= Len(stack[h].done)
  BY <1>2, Around
<1>8. PICK g, c, e, d, P : g = stack[h] /\ c = g.src /\ e = heap[c] /\ d = Len(g.done) /\ P = Parts(e)
  OBVIOUS
<1>9. h \in 1 .. N  BY <1>3
<1>10. /\ g \in Frames /\ c \in Originals /\ Source(g) = e /\ e \in Expr /\ d \in Nat
       /\ FrameIs(g) /\ FrameRight(g) /\ g.shared /\ Len(e.params) <= d /\ g.obj \in Copies
  <2>1. g \in Frames /\ FrameIs(g) /\ FrameRight(g) /\ g.shared
    BY <1>2, <1>3, <1>7, <1>8, <1>9 DEF EInv
  <2>2. c \in Originals /\ Source(g) = e /\ d \in Nat /\ g.obj \in Copies
    BY <1>1, <1>8, <2>1, FrameFacts DEF Source
  <2> QED  BY <1>1, <1>7, <1>8, <2>1, <2>2, SourceFacts
<1>11. /\ e.op = "context" /\ g.obj = f.st /\ heap[k].in = c /\ heap[n].in = c
       /\ heap[g.obj].of = c /\ y = accessible[g.obj][x]
  BY <1>2, <1>6, <1>7, <1>8, <1>10 DEF WithinFrame, IsContext, FrameIs, Lookup
<1>12. y # None  BY <1>2, AlwaysFound
<1>13. ByCapture(g, x, y) \/ ByPart(g, x, y)
  BY <1>6, <1>10, <1>11, <1>12 DEF FrameRight, EntriesRight, IsContext
<1>14. /\ \A s \in Elements(e.locals) :
            \A q \in Elements(e.params) \cup Elements(e.captures) : heap[s].name # heap[q].name
       /\ \A i, j \in 1 .. Len(e.locals) :
            i < j => heap[e.locals[i]].name # heap[e.locals[j]].name
  BY <1>1, <1>8, <1>10, <1>11, DeclaredNames
<1>15. /\ k \in Elements(e.params) =>
            \E i \in 1 .. Len(e.params) : e.params[i] = k /\ LastAt(e.params, i, x)
       /\ k \in Elements(e.captures) =>
            /\ \E i \in 1 .. Len(e.captures) : e.captures[i] = k /\ LastAt(e.captures, i, x)
            /\ \A q \in Elements(e.params) : heap[q].name # x
  BY <1>1, <1>2, <1>4, <1>5, <1>6, <1>8, <1>10, <1>11, OperandNames
<1>16. k \in Elements(e.params) \cup Elements(e.captures) \cup Elements(e.locals)
  BY <1>1, <1>5, <1>6, <1>8, <1>10, <1>11, ListFacts
<1>17. k \in Captures => k \in Elements(e.captures)
  <2> SUFFICES ASSUME k \in Captures PROVE k \in Elements(e.captures)  OBVIOUS
  <2>1. PICK z \in Originals : k \in Elements(heap[z].captures)
    BY <1>1, SourceFacts DEF Captures
  <2>2. heap[k].in = z  BY <1>1, <1>5, <2>1, ScopeFacts
  <2> QED  BY <1>8, <1>11, <2>1, <2>2
<1>18. k \in Elements(e.captures) => k \in Captures
  BY <1>1, <1>8, <1>10, SourceFacts
<1>19. ByCapture(g, x, y) =>
         \E i \in 1 .. Len(e.captures) :
           e.captures[i] = y /\ heap[y].name = x /\ LastAt(e.captures, i, x)
  BY <1>10 DEF ByCapture
<1>20. ByPart(g, x, y) =>
         \E i \in 1 .. d :
           /\ g.done[i] = y /\ heap[P[i]].name = x
           /\ \A j \in 1 .. d : i < j /\ heap[P[j]].op = "symbol" => heap[P[j]].name # x
           /\ \/ /\ i \in 1 .. Len(e.params) /\ P[i] = e.params[i]
                 /\ \A z \in Elements(e.captures) : heap[z].name # x
              \/ \E j \in 1 .. Len(e.locals) : i = Len(e.params) + j /\ P[i] = e.locals[j]
  <2> SUFFICES ASSUME ByPart(g, x, y)
               PROVE  \E i \in 1 .. d :
           /\ g.done[i] = y /\ heap[P[i]].name = x
           /\ \A j \in 1 .. d : i < j /\ heap[P[j]].op = "symbol" => heap[P[j]].name # x
           /\ \/ /\ i \in 1 .. Len(e.params) /\ P[i] = e.params[i]
                 /\ \A z \in Elements(e.captures) : heap[z].name # x
              \/ \E j \in 1 .. Len(e.locals) : i = Len(e.params) + j /\ P[i] = e.locals[j]
    OBVIOUS
  <2>1. PICK i \in 1 .. d :
          /\ g.done[i] = y /\ heap[P[i]].op = "symbol" /\ heap[P[i]].name = x
          /\ \A j \in 1 .. d : i < j /\ heap[P[j]].op = "symbol" => heap[P[j]].name # x
          /\ i <= Len(e.params) => \A z \in Elements(e.captures) : heap[z].name # x
    <3>1. d = Len(g.done) /\ P = Parts(e) /\ Source(g) = e /\ g.shared  BY <1>8, <1>10
    <3>2. PICK i \in 1 .. Len(g.done) :
            /\ g.done[i] = y /\ heap[Parts(Source(g))[i]].op = "symbol"
            /\ heap[Parts(Source(g))[i]].name = x
            /\ \A j \in 1 .. Len(g.done) :
                 i < j /\ heap[Parts(Source(g))[j]].op = "symbol"
                 => heap[Parts(Source(g))[j]].name # x
            /\ g.shared /\ i <= Len(Source(g).params) =>
                 \A z \in Elements(Source(g).captures) : heap[z].name # x
      BY Zenon DEF ByPart
    <3>3. /\ i \in 1 .. d /\ g.done[i] = y /\ heap[P[i]].op = "symbol" /\ heap[P[i]].name = x
          /\ \A j \in 1 .. d : i < j /\ heap[P[j]].op = "symbol" => heap[P[j]].name # x
          /\ i <= Len(e.params) => \A z \in Elements(e.captures) : heap[z].name # x
      BY <3>1, <3>2, Zenon
    <3> QED  BY <3>3, Zenon
  <2>2. i \in 1 .. Len(Parts(e))
    <3>1. Len(g.done) <= Len(Parts(e)) /\ Len(Parts(e)) \in Nat
      BY <1>1, <1>10, FrameFacts DEF FrameIs
    <3> QED  BY <1>8, <1>10, <3>1
  <2>3. \/ i \in 1 .. Len(e.params) /\ P[i] = e.params[i]
        \/ \E j \in 1 .. Len(e.locals) : i = Len(e.params) + j /\ P[i] = e.locals[j]
    <3>1. e = heap[c] /\ c \in Originals /\ e.op = "context" /\ heap[Parts(e)[i]].op = "symbol"
      BY <1>8, <1>10, <1>11, <2>1
    <3>2. \/ i \in 1 .. Len(e.params) /\ Parts(e)[i] = e.params[i]
          \/ \E j \in 1 .. Len(e.locals) : i = Len(e.params) + j /\ Parts(e)[i] = e.locals[j]
      BY <1>1, <2>2, <3>1, SymbolParts
    <3> QED  BY <1>8, <3>2
  <2>4. i \in 1 .. Len(e.params) => \A z \in Elements(e.captures) : heap[z].name # x
    BY <2>1
  <2> QED  BY <2>1, <2>3, <2>4
<1>21. ASSUME NEW i \in 1 .. d, g.done[i] = y, P[i] = k
       PROVE  y \in Copies /\ heap[y].of = k /\ heap[y].in = g.obj
  <2>1. heap[y].of = k /\ heap[y].in = g.obj
    BY <1>8, <1>10, <1>11, <1>21 DEF FrameIs
  <2>2. y \in Objects
    BY <1>1, <1>8, <1>10, <1>21, FrameFacts, ElementOfSeq
  <2>3. y \notin Originals
    <3> SUFFICES ASSUME y \in Originals PROVE FALSE  OBVIOUS
    <3>1. heap[y].in \in {None} \cup Originals  BY <1>1, ScopeFacts
    <3>2. g.obj \notin Originals /\ g.obj # None  BY <1>1, <1>10, HeapFacts DEF None
    <3> QED  BY <2>1, <3>1, <3>2
  <2> QED  BY <2>1, <2>2, <2>3 DEF Copies
<1>22. Hid(k, c) = {z \in Elements(e.captures) : k \in Elements(e.params) /\ heap[z].name = x}
  BY <1>2, <1>8 DEF Hid
<1>23. CASE k \in Elements(e.captures)
  <2>1. \A q \in Elements(e.params) \cup Elements(e.locals) : heap[q].name # x
    BY <1>2, <1>14, <1>15, <1>23
  <2>2. ~ByPart(g, x, y)
    <3>1. \A i \in 1 .. Len(e.params) : heap[e.params[i]].name # x  BY <2>1 DEF Elements
    <3>2. \A i \in 1 .. Len(e.locals) : heap[e.locals[i]].name # x  BY <2>1 DEF Elements
    <3> QED  BY <1>20, <3>1, <3>2
  <2>3. PICK i \in 1 .. Len(e.captures) :
          e.captures[i] = y /\ heap[y].name = x /\ LastAt(e.captures, i, x)
    BY <1>13, <1>19, <2>2
  <2>4. PICK j \in 1 .. Len(e.captures) : e.captures[j] = k /\ LastAt(e.captures, j, x)
    BY <1>15, <1>23
  <2>5. i \in Nat /\ j \in Nat
    OBVIOUS
  <2>6. ~ (i < j) /\ ~ (j < i)
    BY <1>2, <2>3, <2>4 DEF LastAt
  <2>7. y = k  BY <2>3, <2>4, <2>5, <2>6
  <2> QED  BY <1>2, <1>18, <1>23, <2>7 DEF Means
<1>24. CASE k \in Elements(e.params) /\ k \notin Elements(e.captures)
  <2>1. k \notin Captures  BY <1>17, <1>24
  <2>2. \A j \in 1 .. Len(e.locals) : heap[e.locals[j]].name # x
    BY <1>2, <1>14, <1>24 DEF Elements
  <2>3. CASE Hid(k, c) # {}
    <3>1. PICK z \in Elements(e.captures) : heap[z].name = x  BY <1>22, <2>3
    <3>2. ~ByPart(g, x, y)  BY <1>20, <2>2, <3>1
    <3>3. y \in Elements(e.captures) /\ heap[y].name = x
      BY <1>13, <1>19, <3>2 DEF Elements
    <3>4. y \in Hid(k, c)  BY <1>22, <1>24, <3>3
    <3> QED  BY <1>2, <1>11, <2>1, <2>3, <3>4 DEF Means
  <2>4. CASE Hid(k, c) = {}
    <3>1. \A z \in Elements(e.captures) : heap[z].name # x  BY <1>22, <1>24, <2>4
    <3>2. ~ByCapture(g, x, y)  BY <1>19, <3>1 DEF Elements
    <3>3. PICK i \in 1 .. d :
            /\ g.done[i] = y /\ heap[P[i]].name = x
            /\ \A j \in 1 .. d : i < j /\ heap[P[j]].op = "symbol" => heap[P[j]].name # x
            /\ i \in 1 .. Len(e.params) /\ P[i] = e.params[i]
      BY <1>13, <1>20, <2>2, <3>2
    <3>4. PICK j \in 1 .. Len(e.params) : e.params[j] = k /\ LastAt(e.params, j, x)
      BY <1>15, <1>24
    <3>5. j \in 1 .. d /\ P[j] = k
      <4>1. Len(e.params) \in Nat /\ Parts(e)[j] = e.params[j]  BY <1>10, <1>11, ContextParts
      <4> QED  BY <1>8, <1>10, <3>4, <4>1
    <3>6. i = j
      <4>1. ~ (i < j)  BY <1>2, <1>6, <3>3, <3>5
      <4>2. ~ (j < i)  BY <3>3, <3>4 DEF LastAt
      <4> QED  BY <3>3, <3>5, <4>1, <4>2
    <3>7. y \in Copies /\ heap[y].of = k /\ heap[y].in = g.obj
      BY <1>21, <3>3, <3>5, <3>6
    <3> QED  BY <1>2, <1>11, <2>1, <2>4, <3>7 DEF Means
  <2> QED  BY <2>3, <2>4
<1>25. CASE k \in Elements(e.locals) /\ k \notin Elements(e.captures) /\ k \notin Elements(e.params)
  <2>1. k \notin Captures /\ Hid(k, c) = {}  BY <1>17, <1>22, <1>25
  <2>2. PICK a \in 1 .. Len(e.locals) : e.locals[a] = k  BY <1>25 DEF Elements
  <2>3. ~ByCapture(g, x, y)
    <3>1. \A z \in Elements(e.captures) : heap[z].name # x  BY <1>2, <1>14, <1>25
    <3> QED  BY <1>19, <3>1 DEF Elements
  <2>4. \A i \in 1 .. Len(e.params) : heap[e.params[i]].name # x
    <3>1. \A z \in Elements(e.params) : heap[z].name # x  BY <1>2, <1>14, <1>25
    <3> QED  BY <3>1 DEF Elements
  <2>5. PICK i \in 1 .. d, b \in 1 .. Len(e.locals) :
          g.done[i] = y /\ heap[P[i]].name = x /\ P[i] = e.locals[b]
    BY <1>13, <1>20, <2>3, <2>4
  <2>6. a = b
    <3>1. heap[e.locals[a]].name = heap[e.locals[b]].name  BY <1>2, <2>2, <2>5
    <3>2. ~ (a < b) /\ ~ (b < a)  BY <1>14, <3>1
    <3> QED  BY <3>2
  <2>7. y \in Copies /\ heap[y].of = k /\ heap[y].in = g.obj
    BY <1>21, <2>2, <2>5, <2>6
  <2> QED  BY <1>2, <1>11, <2>1, <2>7 DEF Means
<1> QED  BY <1>16, <1>23, <1>24, <1>25

-----------------------------------------------------------------------------
(* A finished symbol is in the lists of its context, or will be. *)
Listed(o) ==
  LET k == heap[o].in IN
  IF k \in Stacked
  THEN \E i \in 1 .. Len(stack) : stack[i].obj = k /\ o \in Elements(stack[i].done)
  ELSE o \in Elements(heap[k].params) \cup Elements(heap[k].locals)

CapturesRight(o) == heap[o].captures = heap[heap[o].of].captures

Imaged ==
  /\ \A i \in 1 .. Len(stack) : FrameRight(stack[i])
  /\ \A o \in Complete : heap[o].op # "context" => MeansAll(o)
  /\ \A o \in Complete : heap[o].op = "symbol" => Listed(o)
  /\ \A o \in Complete : heap[o].op = "context" => CapturesRight(o)

MInv == Plain => Imaged

(* What every step keeps of the objects. *)
PlacesSame ==
  /\ program' = program /\ Objects \subseteq Objects' /\ Copies \subseteq Copies'
  /\ \A o \in Objects : heap'[o].of = heap[o].of /\ heap'[o].in = heap[o].in
                        /\ heap'[o].op = heap[o].op

LEMMA MeansStays ==
  ASSUME TInv, TInv', Known, PlacesSame,
         NEW s \in Originals, NEW k \in Objects, NEW y, Means(s, k, y)
  PROVE  Means(s, k, y)'
<1>1. Captures' = Captures /\ Originals' = Originals /\ \A n \in Originals : heap'[n] = heap[n]
  BY SourcesKept DEF PlacesSame
<1>2. heap'[k].of = heap[k].of /\ heap[k].of \in Originals  BY DEF PlacesSame, Known, ObjectIs
<1>3. PICK c : c = heap[k].of  OBVIOUS
<1>4. Hid(s, c)' = Hid(s, c)
  <2>1. heap'[c] = heap[c] /\ heap'[s] = heap[s]  BY <1>1, <1>2, <1>3
  <2>2. \A x \in Elements(heap[c].captures) : heap'[x] = heap[x]
    BY <1>1, <1>2, <1>3, SourceFacts
  <2> QED  BY <2>1, <2>2 DEF Hid
<1>5. heap'[k].of = c /\ heap[k].of = c  BY <1>2, <1>3
<1>6. CASE s \in Captures  BY <1>1, <1>6 DEF Means
<1>7. CASE s \notin Captures /\ Hid(s, c) # {}
  <2>1. y \in Hid(s, c)  BY <1>5, <1>7 DEF Means
  <2>2. s \notin Captures' /\ Hid(s, c)' # {} /\ y \in Hid(s, c)'  BY <1>1, <1>4, <1>7, <2>1
  <2> QED  BY <1>5, <2>2 DEF Means
<1>8. CASE s \notin Captures /\ Hid(s, c) = {}
  <2>1. y \in Copies /\ heap[y].of = s /\ heap[y].in = k  BY <1>5, <1>8 DEF Means
  <2>2. y \in Copies' /\ heap'[y].of = s /\ heap'[y].in = k
    BY <2>1, HeapFacts DEF PlacesSame
  <2>3. s \notin Captures' /\ Hid(s, c)' = {}  BY <1>1, <1>4, <1>8
  <2> QED  BY <1>5, <2>2, <2>3 DEF Means
<1> QED  BY <1>6, <1>7, <1>8

LEMMA DoneStays ==
  ASSUME TInv, TInv', Known, PlacesSame, NEW f \in Frames, FrameIs(f), MeansDone(f)
  PROVE  MeansDone(f)'
<1>1. PICK P : P = Parts(Source(f))  OBVIOUS
<1>2. Parts(Source(f))' = P  BY <1>1, SourceSame DEF PlacesSame
<1>3. P \in Seq(Originals) /\ Len(f.done) \in Nat /\ Len(P) \in Nat /\ f.st \in Objects
  BY <1>1, FrameFacts, HeapFacts DEF TInv, TablesTyped
<1>4. Len(f.done) <= Len(P)  BY <1>1 DEF FrameIs
<1>5. ASSUME NEW j \in 1 .. Len(f.done) PROVE Means(P[j], f.st, f.done[j])'
  <2>1. PICK s, k, y : s = P[j] /\ k = f.st /\ y = f.done[j]  OBVIOUS
  <2>2. s \in Originals /\ k \in Objects
    <3>1. j \in 1 .. Len(P)  BY <1>3, <1>4
    <3> QED  BY <1>3, <2>1, <3>1, ElementOfSeq
  <2>3. Means(s, k, y)  BY <1>1, <2>1 DEF MeansDone
  <2>4. Means(s, k, y)'  BY <2>2, <2>3, MeansStays
  <2> QED  BY <2>1, <2>4
<1> QED  BY <1>2, <1>5 DEF MeansDone

LEMMA AllStays ==
  ASSUME TInv, TInv', Known, PlacesSame, NEW o \in Copies, CopyIs(o), heap[o].op # "context",
         heap'[o] = heap[o], MeansAll(o)
  PROVE  MeansAll(o)'
<1>1. PICK e, w, was, now, k : /\ e = heap[o] /\ w = e.of /\ k = e.in
                               /\ was = Parts(heap[w]) /\ now = Parts(e)
  OBVIOUS
<1>2. o \in Objects /\ w \in Originals /\ k \in Objects
  <2>1. o \in Objects  BY HeapFacts
  <2>2. w \in Originals  BY <1>1, <2>1 DEF Known, ObjectIs
  <2>3. k \in Copies  BY <1>1 DEF CopyIs
  <2> QED  BY <2>1, <2>2, <2>3, HeapFacts
<1>3. was \in Seq(Originals) /\ Parts(heap[w])' = was
  <2>1. heap'[w] = heap[w]  BY <1>2, SourcesKept DEF PlacesSame
  <2> QED  BY <1>1, <1>2, <2>1, SourceFacts DEF Parts, CalleeOf
<1>4. Parts(heap[o])' = now  BY <1>1 DEF Parts, CalleeOf
<1>5. Len(now) = Len(was) /\ \A i \in 1 .. Len(was) : Means(was[i], k, now[i])
  BY <1>1 DEF MeansAll
<1>6. ASSUME NEW i \in 1 .. Len(was) PROVE Means(was[i], k, now[i])'
  <2>1. PICK s, y : s = was[i] /\ y = now[i]  OBVIOUS
  <2>2. s \in Originals /\ Means(s, k, y)  BY <1>3, <1>5, <2>1, ElementOfSeq
  <2>3. Means(s, k, y)'  BY <1>2, <2>2, MeansStays
  <2> QED  BY <2>1, <2>3
<1>7. heap'[o].of = w /\ heap'[o].in = k  BY <1>1
<1>8. Parts(heap[heap[o].of])' = was  BY <1>3, <1>7
<1> QED  BY <1>4, <1>5, <1>6, <1>7, <1>8 DEF MeansAll

LEMMA CaptureStays ==
  ASSUME TInv, TInv', program' = program, NEW f \in Frames, NEW x, NEW y, ByCapture(f, x, y)
  PROVE  ByCapture(f, x, y)'
<1>1. PICK s : s = Source(f).captures  OBVIOUS
<1>2. Source(f)' = Source(f)  BY SourceSame
<1>3. f.src \in Originals /\ Source(f) = heap[f.src]  BY FrameFacts DEF Source
<1>4. s \in Seq(Originals)  BY <1>1, <1>3, SourceFacts
<1>5. \A i \in 1 .. Len(s) : heap'[s[i]] = heap[s[i]]
  <2>1. \A i \in 1 .. Len(s) : s[i] \in Originals  BY <1>4, ElementOfSeq
  <2> QED  BY <2>1, SourcesKept
<1>6. f.shared /\ \E i \in 1 .. Len(s) : s[i] = y /\ heap[y].name = x /\ LastAt(s, i, x)
  BY <1>1 DEF ByCapture
<1>7. \A i \in 1 .. Len(s) : LastAt(s, i, x) => LastAt(s, i, x)'  BY <1>5 DEF LastAt
<1>8. \E i \in 1 .. Len(s) : s[i] = y /\ heap'[y].name = x /\ LastAt(s, i, x)'
  BY <1>5, <1>6, <1>7
<1> QED  BY <1>1, <1>2, <1>6, <1>8 DEF ByCapture

LEMMA PartEntryStays ==
  ASSUME TInv, TInv', program' = program, NEW f \in Frames, FrameIs(f), NEW x, NEW y,
         ByPart(f, x, y)
  PROVE  ByPart(f, x, y)'
<1>1. PICK P, e, d : P = Parts(Source(f)) /\ e = Source(f) /\ d = Len(f.done)  OBVIOUS
<1>2. Source(f)' = e /\ Parts(Source(f))' = P  BY <1>1, SourceSame
<1>3. f.src \in Originals /\ e = heap[f.src] /\ P \in Seq(Originals) /\ d \in Nat /\ Len(P) \in Nat
      /\ d <= Len(P)
  BY <1>1, FrameFacts DEF Source, FrameIs
<1>4. \A i \in 1 .. d : heap'[P[i]] = heap[P[i]]
  <2>1. \A i \in 1 .. d : i \in 1 .. Len(P)  BY <1>3
  <2>2. \A i \in 1 .. d : P[i] \in Originals  BY <1>3, <2>1, ElementOfSeq
  <2> QED  BY <2>2, SourcesKept
<1>5. \A z \in Elements(e.captures) : heap'[z] = heap[z]
  BY <1>3, SourceFacts, SourcesKept
<1>6. PICK i \in 1 .. d :
        /\ f.done[i] = y /\ heap[P[i]].op = "symbol" /\ heap[P[i]].name = x
        /\ \A j \in 1 .. d : i < j /\ heap[P[j]].op = "symbol" => heap[P[j]].name # x
        /\ f.shared /\ i <= Len(e.params) => \A z \in Elements(e.captures) : heap[z].name # x
  BY <1>1 DEF ByPart
<1>7. /\ f.done[i] = y /\ heap'[P[i]].op = "symbol" /\ heap'[P[i]].name = x
      /\ \A j \in 1 .. d : i < j /\ heap'[P[j]].op = "symbol" => heap'[P[j]].name # x
      /\ f.shared /\ i <= Len(e.params) => \A z \in Elements(e.captures) : heap'[z].name # x
  BY <1>4, <1>5, <1>6
<1> QED  BY <1>1, <1>2, <1>7 DEF ByPart

LEMMA RightStays ==
  ASSUME TInv, TInv', Known, PlacesSame, NEW f \in Frames, FrameIs(f), FrameRight(f),
         IsContext(f) => accessible'[f.obj] = accessible[f.obj]
  PROVE  FrameRight(f)'
<1>1. Source(f)' = Source(f) /\ IsContext(f)' = IsContext(f) /\ program' = program
  BY SourceSame DEF PlacesSame
<1>2. CASE IsContext(f)
  <2>1. EntriesRight(f)  BY <1>2 DEF FrameRight
  <2>2. PICK t : t = accessible[f.obj]  OBVIOUS
  <2>3. \A x \in Names : t[x] # None => ByCapture(f, x, t[x]) \/ ByPart(f, x, t[x])
    BY <2>1, <2>2 DEF EntriesRight
  <2>4. ASSUME NEW x \in Names, t[x] # None
        PROVE  ByCapture(f, x, t[x])' \/ ByPart(f, x, t[x])'
    <3>1. PICK y : y = t[x]  OBVIOUS
    <3>2. ByCapture(f, x, y) \/ ByPart(f, x, y)  BY <2>3, <2>4, <3>1
    <3>3. ByCapture(f, x, y)' \/ ByPart(f, x, y)'  BY <1>1, <3>2, CaptureStays, PartEntryStays
    <3> QED  BY <3>1, <3>3
  <2>5. accessible'[f.obj] = t  BY <1>2, <2>2
  <2>6. EntriesRight(f)'  BY <1>1, <2>1, <2>4, <2>5 DEF EntriesRight
  <2> QED  BY <1>1, <1>2, <2>6 DEF FrameRight
<1>3. CASE ~IsContext(f)
  <2>1. MeansDone(f)'  BY <1>3, DoneStays DEF FrameRight
  <2> QED  BY <1>1, <1>3, <2>1 DEF FrameRight
<1> QED  BY <1>2, <1>3

(* The activations below the innermost, which goes on as g. *)
LEMMA RightGoesOn ==
  ASSUME EInv, EInv', PlacesSame, Imaged, NEW n, NEW g, Replaced(n, g), FrameRight(g)',
         \A i \in 1 .. n - 1 :
           IsContext(stack[i]) => accessible'[stack[i].obj] = accessible[stack[i].obj]
  PROVE  \A i \in 1 .. Len(stack') : FrameRight(stack[i])'
<1>1. TInv /\ TInv' /\ Known  BY DEF EInv, CInv, Known
<1>2. /\ Len(stack') = n /\ stack'[n] = g /\ n \in Nat \ {0}
      /\ \A i \in 1 .. n - 1 : stack'[i] = stack[i] /\ i \in 1 .. Len(stack) /\ stack[i] \in Frames
  BY DEF Replaced
<1>3. ASSUME NEW i \in 1 .. n - 1 PROVE FrameRight(stack[i])'
  <2>1. PICK f : f = stack[i]  OBVIOUS
  <2>2. f \in Frames /\ stack'[i] = f /\ FrameIs(f) /\ FrameRight(f)
    BY <1>2, <2>1 DEF EInv, Imaged
  <2>3. FrameRight(f)'  BY <1>1, <1>3, <2>1, <2>2, RightStays
  <2> QED  BY <2>2, <2>3
<1>4. FrameRight(stack[n])'  BY <1>2
<1>5. \A i \in 1 .. n : i = n \/ i \in 1 .. n - 1  BY <1>2
<1> QED  BY <1>2, <1>3, <1>4, <1>5

-----------------------------------------------------------------------------
(* A finished operation has the parts that were collected. *)
LEMMA OperationParts ==
  ASSUME EInv, stack # << >>, ~Wants(Top), ~IsContext(Top), NEW b, b = Filled(Top)
  PROVE  Parts(b) = Top.done /\ Len(Top.done) = Len(Parts(Source(Top)))
<1>1. TInv  BY DEF EInv, CInv
<1>2. PICK f, e, h, d : f = Top /\ e = Source(f) /\ h = heap[f.obj] /\ d = f.done  OBVIOUS
<1>3. /\ f \in Frames /\ e \in Expr /\ f.obj \in Copies /\ FrameIs(f) /\ e.op # "context"
      /\ d \in Seq(Objects) /\ Len(d) \in Nat /\ h \in Expr
  <2>1. f \in Frames /\ f = stack[Len(stack)] /\ Len(stack) \in 1 .. Len(stack)
    BY <1>1, <1>2, StackFacts
  <2>2. FrameIs(f)  BY <2>1 DEF EInv
  <2>3. e \in Expr /\ f.obj \in Copies /\ d \in Seq(Objects) /\ Len(d) \in Nat
    BY <1>1, <1>2, <2>1, FrameFacts
  <2> QED  BY <1>1, <1>2, <2>1, <2>2, <2>3, HeapFacts DEF IsContext
<1>4. Len(d) = Len(Parts(e))
  <2>1. Len(d) <= Len(Parts(e))  BY <1>2, <1>3 DEF FrameIs
  <2>2. Len(Parts(e)) \in Nat  BY <1>1, <1>2, <1>3, FrameFacts
  <2> QED  BY <1>2, <1>3, <2>1, <2>2 DEF Wants
<1>5. PICK c, k, ks : /\ c = Len(CalleeOf(e)) /\ k = IF c = 0 THEN None ELSE d[1]
                      /\ ks = SubSeq(d, c + 1, Len(d))
  OBVIOUS
<1>6. h.op # "context"
  <2>1. h.of = f.src /\ f.obj \in Objects  BY <1>1, <1>2, <1>3, HeapFacts DEF FrameIs
  <2>2. h.op = heap[h.of].op  BY <1>2, <2>1 DEF EInv, ObjectIs
  <2> QED  BY <1>2, <1>3, <2>1, <2>2 DEF Source
<1>7. c \in {0, 1} /\ c <= Len(d)
  <2>1. CalleeOf(e) \in Seq(Nat) /\ e.kids \in Seq(Nat)
    BY <1>3, LinksFacts DEF Expr
  <2>2. Len(Parts(e)) = c + Len(e.kids) /\ c \in Nat /\ Len(e.kids) \in Nat
    <3>1. Parts(e) = CalleeOf(e) \o e.kids  BY <1>3 DEF Parts
    <3> QED  BY <1>5, <2>1, <3>1, Joined, LenProperties
  <2>3. c \in {0, 1}
    <3>1. CASE e.callee = None
      <4>1. CalleeOf(e) = << >>  BY <3>1 DEF CalleeOf
      <4> QED  BY <1>5, <4>1, EmptySeq
    <3>2. CASE e.callee # None
      <4>1. CalleeOf(e) = <<e.callee>>  BY <3>2 DEF CalleeOf
      <4> QED  BY <1>5, <4>1
    <3> QED  BY <3>1, <3>2
  <2> QED  BY <1>4, <2>2, <2>3
<1>8. k \in Nat /\ ks \in Seq(Nat) /\ (c = 1 => k # None)
  <2>1. Objects \subseteq Nat  BY <1>1, HeapFacts
  <2>2. c = 1 => k \in Objects /\ k # None
    <3> SUFFICES ASSUME c = 1 PROVE d[1] \in Objects /\ d[1] # None  BY <1>5
    <3>1. 1 \in 1 .. Len(d)  BY <1>3, <1>7
    <3>2. d[1] \in Objects  BY <1>3, <3>1, ElementOfSeq
    <3> QED  BY <1>1, <3>2, HeapFacts DEF None
  <2>3. c = 0 => k = 0  BY <1>5 DEF None
  <2>4. ks \in Seq(Objects)
    <3>1. c + 1 \in Nat \ {0} /\ Len(d) <= Len(d)  BY <1>3, <1>7
    <3> QED  BY <1>3, <1>5, <3>1, CutOut
  <2>5. ks \in Seq(Nat)  BY <2>1, <2>4, Monotone
  <2>6. k \in Nat
    <3>1. CASE c = 0  BY <2>3, <3>1
    <3>2. CASE c = 1  BY <2>1, <2>2, <3>2
    <3> QED  BY <1>7, <3>1, <3>2
  <2> QED  BY <2>2, <2>5, <2>6
<1>9. b = [h EXCEPT !.callee = k, !.kids = ks]
  BY <1>2, <1>3, <1>5 DEF Filled
<1>10. b.callee = k /\ b.kids = ks /\ b.op # "context"
  BY <1>3, <1>6, <1>8, <1>9 DEF Expr
<1>11. Parts(b) = CalleeOf(b) \o ks  BY <1>10 DEF Parts
<1>12. CASE c = 0
  <2>1. k = None  BY <1>5, <1>12
  <2>2. CalleeOf(b) = << >>  BY <1>10, <2>1 DEF CalleeOf
  <2>3. ks = d  BY <1>3, <1>5, <1>12, SubSeqFull
  <2> QED  BY <1>2, <1>3, <1>4, <1>11, <2>2, <2>3, ConcatEmptySeq
<1>13. CASE c = 1
  <2>1. CalleeOf(b) = <<k>> /\ k = d[1]  BY <1>5, <1>8, <1>10, <1>13 DEF CalleeOf
  <2>2. 1 \in 1 .. Len(d) /\ Len(d) \in 1 .. Len(d)  BY <1>3, <1>7, <1>13
  <2>3. SubSeq(d, 1, Len(d)) = <<d[1]>> \o SubSeq(d, 1 + 1, Len(d))
    BY <1>3, <2>2, SubSeqRecursiveFirst
  <2>4. SubSeq(d, 1, Len(d)) = d  BY <1>3, SubSeqFull
  <2>5. ks = SubSeq(d, 1 + 1, Len(d))  BY <1>5, <1>13
  <2> QED  BY <1>2, <1>4, <1>11, <2>1, <2>3, <2>4, <2>5
<1> QED  BY <1>7, <1>12, <1>13

(* A part of a sequence has its elements. *)
LEMMA CutHas ==
  ASSUME NEW S, NEW s \in Seq(S), NEW m \in Nat \ {0}, NEW n \in Nat, n <= Len(s),
         NEW i \in 1 .. Len(s), m <= i, i <= n
  PROVE  s[i] \in Elements(SubSeq(s, m, n))
<1>1. PICK u : u = SubSeq(s, m, n)  OBVIOUS
<1>2. Len(s) \in Nat /\ m \in Int /\ n \in Int  BY LenProperties
<1>3. \A j \in m .. n : j \in 1 .. Len(s)  BY <1>2
<1>4. \A j \in m .. n : s[j] \in S  BY <1>3, ElementOfSeq
<1>5. /\ Len(u) = IF m <= n THEN n - m + 1 ELSE 0
      /\ \A j \in 1 .. n - m + 1 : u[j] = s[m + j - 1]
  BY <1>1, <1>2, <1>4, SubSeqProperties
<1>6. PICK j : j = i - m + 1  OBVIOUS
<1>7. j \in 1 .. n - m + 1 /\ m + j - 1 = i /\ m <= n  BY <1>2, <1>6
<1>8. j \in 1 .. Len(u) /\ u[j] = s[i]  BY <1>5, <1>7
<1> QED  BY <1>1, <1>8 DEF Elements

(* The symbols that a context has collected are in its lists. *)
LEMMA SymbolsListed ==
  ASSUME EInv, stack # << >>, ~Wants(Top), IsContext(Top), NEW b, b = Filled(Top),
         NEW j \in 1 .. Len(Top.done), heap[Parts(Source(Top))[j]].op = "symbol"
  PROVE  Top.done[j] \in Elements(b.params) \cup Elements(b.locals)
<1>1. TInv  BY DEF EInv, CInv
<1>2. PICK f, e, h, d : f = Top /\ e = Source(f) /\ h = heap[f.obj] /\ d = f.done  OBVIOUS
<1>3. /\ f \in Frames /\ e \in Expr /\ e = heap[f.src] /\ f.src \in Originals /\ FrameIs(f)
      /\ e.op = "context" /\ d \in Seq(Objects) /\ Len(d) \in Nat /\ h \in Expr
      /\ e.captures \in Seq(Nat)
  <2>1. f \in Frames /\ f = stack[Len(stack)] /\ Len(stack) \in 1 .. Len(stack)
    BY <1>1, <1>2, StackFacts
  <2>2. FrameIs(f)  BY <2>1 DEF EInv
  <2>3. /\ e \in Expr /\ f.obj \in Copies /\ d \in Seq(Objects) /\ Len(d) \in Nat
        /\ f.src \in Originals /\ e = heap[f.src]
    BY <1>1, <1>2, <2>1, FrameFacts DEF Source
  <2>4. e.captures \in Seq(Nat)  BY <2>3 DEF Expr
  <2>5. f.obj \in Objects  BY <1>1, <2>3, HeapFacts
  <2>6. h \in Expr  BY <1>1, <1>2, <2>5, HeapFacts
  <2>7. e.op = "context"  BY <1>2 DEF IsContext
  <2> QED  BY <2>1, <2>2, <2>3, <2>4, <2>6, <2>7
<1>4. PICK p, l : p = Len(e.params) /\ l = Len(e.locals)  OBVIOUS
<1>5. /\ p \in Nat /\ l \in Nat /\ Len(d) = p + l + 1 /\ Len(d) = Len(Parts(e))
  <2>1. Len(d) <= Len(Parts(e))  BY <1>2, <1>3 DEF FrameIs
  <2>2. Len(Parts(e)) \in Nat  BY <1>1, <1>2, <1>3, FrameFacts
  <2>3. Len(d) = Len(Parts(e))  BY <1>2, <1>3, <2>1, <2>2 DEF Wants
  <2>4. Len(e.kids) = 1  BY <1>1, <1>3, ScopeFacts
  <2> QED  BY <1>3, <1>4, <2>3, <2>4, ContextParts
<1>6. PICK ps, ls, ks, im, cs :
        /\ ps = SubSeq(d, 1, p) /\ ls = SubSeq(d, p + 1, p + l)
        /\ ks = SubSeq(d, p + l + 1, p + l + 1) /\ im = (e.immediate \/ Rest = << >>)
        /\ cs = e.captures
  OBVIOUS
<1>7. b = [h EXCEPT !.params = ps, !.captures = cs, !.locals = ls, !.kids = ks, !.immediate = im]
  BY <1>2, <1>3, <1>4, <1>6 DEF Filled
<1>8. b.params = ps /\ b.locals = ls
  BY <1>3, <1>7 DEF Expr
<1>9. j \in 1 .. Len(d) /\ j \in 1 .. Len(Parts(e)) /\ heap[Parts(e)[j]].op = "symbol"
  BY <1>2, <1>5
<1>10. \/ j \in 1 .. p
       \/ \E a \in 1 .. l : j = p + a
  <2>1. \/ j \in 1 .. Len(e.params) /\ Parts(e)[j] = e.params[j]
        \/ \E a \in 1 .. Len(e.locals) : j = Len(e.params) + a /\ Parts(e)[j] = e.locals[a]
    <3>1. PICK s : s = f.src  OBVIOUS
    <3>2. s \in Originals /\ e = heap[s] /\ e.op = "context"  BY <1>3, <3>1
    <3> QED  BY <1>1, <1>9, <3>2, SymbolParts
  <2> QED  BY <1>4, <2>1
<1>11. CASE j \in 1 .. p
  <2>1. 1 \in Nat \ {0} /\ p <= Len(d) /\ 1 <= j /\ j <= p  BY <1>5, <1>11
  <2>2. d[j] \in Elements(ps)  BY <1>3, <1>5, <1>6, <1>9, <2>1, CutHas
  <2> QED  BY <1>2, <1>8, <2>2
<1>12. ASSUME NEW a \in 1 .. l, j = p + a PROVE d[j] \in Elements(ls)
  <2>1. /\ p + 1 \in Nat \ {0} /\ p + l \in Nat /\ p + l <= Len(d) /\ p + 1 <= j /\ j <= p + l
    BY <1>5, <1>12
  <2>2. PICK m, n : m = p + 1 /\ n = p + l  OBVIOUS
  <2>3. m \in Nat \ {0} /\ n \in Nat /\ n <= Len(d) /\ m <= j /\ j <= n /\ ls = SubSeq(d, m, n)
    BY <1>6, <2>1, <2>2
  <2> QED  BY <1>3, <1>9, <2>3, CutHas
<1> QED  BY <1>2, <1>8, <1>10, <1>11, <1>12

-----------------------------------------------------------------------------
(* An activation keeps what it has collected. *)
CollectsMore ==
  \A i \in 1 .. Len(stack) : \E j \in 1 .. Len(stack') :
    stack'[j].obj = stack[i].obj /\ Elements(stack[i].done) \subseteq Elements(stack'[j].done)

(* What is finished stays what it is. *)
LEMMA ListedStays ==
  ASSUME EInv, PlacesSame, CollectsMore, Complete' = Complete,
         \A o \in Complete : heap'[o] = heap[o],
         NEW o \in Complete, heap[o].op = "symbol", Listed(o)
  PROVE  Listed(o)'
<1>1. TInv  BY DEF EInv, CInv
<1>2. PICK k : k = heap[o].in  OBVIOUS
<1>3. o \in Copies /\ o \in Objects  BY <1>1, HeapFacts DEF Complete
<1>4. k \in Copies
  <2>1. heap[o].op # "context"  OBVIOUS
  <2> QED  BY <1>2, <1>3, <2>1 DEF EInv, CopyIs
<1>5. heap'[o].in = k  BY <1>2, <1>3 DEF PlacesSame
<1>6. CASE k \in Stacked
  <2>1. k \in Stacked'
    <3>1. k \in Copies' /\ k \notin Complete'  BY <1>4, <1>6 DEF PlacesSame, Complete
    <3> QED  BY <3>1 DEF Complete
  <2>2. PICK i \in 1 .. Len(stack) : stack[i].obj = k /\ o \in Elements(stack[i].done)
    BY <1>2, <1>6 DEF Listed
  <2>3. PICK j \in 1 .. Len(stack') :
          stack'[j].obj = stack[i].obj /\ Elements(stack[i].done) \subseteq Elements(stack'[j].done)
    BY DEF CollectsMore
  <2>4. stack'[j].obj = k /\ o \in Elements(stack'[j].done)  BY <2>2, <2>3
  <2>5. o \in Elements(stack[j].done)'  BY <2>4 DEF Elements
  <2> QED  BY <1>5, <2>1, <2>4, <2>5 DEF Listed
<1>7. CASE k \notin Stacked
  <2>1. k \in Complete /\ k \notin Stacked'  BY <1>4, <1>7 DEF Complete
  <2>2. heap'[k] = heap[k]  BY <2>1
  <2>3. o \in Elements(heap[k].params) \cup Elements(heap[k].locals)  BY <1>2, <1>7 DEF Listed
  <2> QED  BY <1>5, <2>1, <2>2, <2>3 DEF Listed, Elements
<1> QED  BY <1>6, <1>7

LEMMA FinishedStays ==
  ASSUME EInv, EInv', PlacesSame, Imaged, CollectsMore, Complete' = Complete,
         \A o \in Complete : heap'[o] = heap[o],
         \A i \in 1 .. Len(stack') : FrameRight(stack[i])'
  PROVE  Imaged'
<1>1. TInv /\ TInv' /\ Known  BY DEF EInv, CInv, Known
<1>2. ASSUME NEW o \in Complete', heap'[o].op # "context" PROVE MeansAll(o)'
  <2>1. o \in Complete /\ heap'[o] = heap[o] /\ o \in Copies  BY DEF Complete
  <2>2. MeansAll(o) /\ CopyIs(o) /\ heap[o].op # "context"  BY <1>2, <2>1 DEF Imaged, EInv
  <2> QED  BY <1>1, <2>1, <2>2, AllStays
<1>3. ASSUME NEW o \in Complete', heap'[o].op = "symbol" PROVE Listed(o)'
  <2>1. o \in Complete /\ heap'[o] = heap[o]  OBVIOUS
  <2>2. Listed(o) /\ heap[o].op = "symbol"  BY <1>3, <2>1 DEF Imaged
  <2> QED  BY <2>1, <2>2, ListedStays
<1>4. ASSUME NEW o \in Complete', heap'[o].op = "context" PROVE CapturesRight(o)'
  <2>1. o \in Complete /\ heap'[o] = heap[o] /\ o \in Objects
    BY <1>1, HeapFacts DEF Complete
  <2>2. CapturesRight(o)  BY <1>4, <2>1 DEF Imaged
  <2>3. heap'[heap[o].of] = heap[heap[o].of]
    BY <1>1, <2>1, SourcesKept DEF Known, ObjectIs, PlacesSame
  <2> QED  BY <2>1, <2>2, <2>3 DEF CapturesRight
<1> QED  BY <1>2, <1>3, <1>4 DEF Imaged

LEMMA GoesOnCollects ==
  ASSUME TInv, NEW g, Replaced(Len(stack), g), Elements(stack[Len(stack)].done) \subseteq Elements(g.done)
  PROVE  CollectsMore /\ Stacked' = Stacked
<1>1. PICK N : N = Len(stack)  OBVIOUS
<1>2. /\ Len(stack') = N /\ stack'[N] = g /\ g.obj = stack[N].obj /\ N \in Nat \ {0}
      /\ \A i \in 1 .. N - 1 : stack'[i] = stack[i]
      /\ Elements(stack[N].done) \subseteq Elements(g.done)
  BY <1>1 DEF Replaced
<1>3. ASSUME NEW i \in 1 .. N
      PROVE  /\ stack'[i].obj = stack[i].obj
             /\ Elements(stack[i].done) \subseteq Elements(stack'[i].done)
  <2>1. CASE i = N  BY <1>2, <2>1
  <2>2. CASE i # N
    <3>1. i \in 1 .. N - 1  BY <1>2, <2>2
    <3>2. stack'[i] = stack[i]  BY <1>2, <3>1
    <3> QED  BY <3>2
  <2> QED  BY <2>1, <2>2
<1>4. CollectsMore  BY <1>1, <1>2, <1>3 DEF CollectsMore
<1>5. Stacked' = {stack'[i].obj : i \in 1 .. N}  BY <1>2 DEF Stacked
<1>6. Stacked = {stack[i].obj : i \in 1 .. N}  BY <1>1 DEF Stacked
<1> QED  BY <1>3, <1>4, <1>5, <1>6

LEMMA BeginsRight ==
  ASSUME EInv, EInv', Imaged, NEW src \in Originals, NEW st, Begin(stack, src, st),
         program' = program
  PROVE  Imaged'
<1>1. TInv /\ TInv' /\ Known  BY DEF EInv, CInv, Known
<1>2. PICK g, N, n : /\ g = Activation(src, NewObj, IF heap[src].op = "context" THEN NewObj ELSE st)
                     /\ N = Len(stack) /\ n = NewObj
  OBVIOUS
<1>3. /\ n \notin Objects /\ n \in Nat /\ Originals' = Originals
      /\ Objects' = Objects \cup {n} /\ Copies' = Copies \cup {n}
      /\ \A o \in Objects : heap'[o] = heap[o]
      /\ N \in Nat /\ Len(stack') = N + 1 /\ stack'[N + 1] = g
      /\ \A i \in 1 .. N : stack'[i] = stack[i]
      /\ g.src = src /\ g.obj = n /\ g.done = << >> /\ ~g.shared
  BY <1>1, <1>2, WhatBegins
<1>4. PlacesSame  BY <1>3 DEF PlacesSame
<1>5. Copies \subseteq Objects /\ \A i \in 1 .. N : stack[i] \in Frames
  BY <1>1, <1>2, HeapFacts, ElementOfSeq DEF TInv
<1>6. \A c \in DOMAIN accessible : accessible'[c] = accessible[c]
  <2>1. \A c \in DOMAIN accessible : c \in Copies  BY <1>1 DEF TInv, TablesTyped
  <2>2. \A c \in DOMAIN accessible : c # NewObj  BY <1>2, <1>3, <1>5, <2>1
  <2> QED  BY <2>2 DEF Begin
<1>7. ASSUME NEW i \in 1 .. N PROVE FrameRight(stack[i])'
  <2>1. PICK f : f = stack[i]  OBVIOUS
  <2>2. f \in Frames /\ stack'[i] = f /\ FrameIs(f) /\ FrameRight(f)
    BY <1>2, <1>3, <1>5, <2>1 DEF EInv, Imaged
  <2>3. IsContext(f) => accessible'[f.obj] = accessible[f.obj]
    <3> SUFFICES ASSUME IsContext(f) PROVE accessible'[f.obj] = accessible[f.obj]  OBVIOUS
    <3>1. f.st = f.obj /\ f.st \in DOMAIN accessible
      BY <1>1, <2>2, FrameFacts DEF FrameIs, IsContext
    <3> QED  BY <1>6, <3>1
  <2>4. FrameRight(f)'  BY <1>1, <1>4, <2>2, <2>3, RightStays
  <2> QED  BY <2>2, <2>4
<1>8. FrameRight(g)'
  <2>1. heap'[src] = heap[src]  BY <1>1, SourcesKept
  <2>2. Source(g)' = heap[src]  BY <1>3, <2>1 DEF Source
  <2>3. CASE heap[src].op = "context"
    <3>1. accessible'[n] = NoNames
      <4>1. accessible' = [c \in DOMAIN accessible \cup {NewObj} |->
                             IF c = NewObj THEN NoNames ELSE accessible[c]]
        BY <2>3 DEF Begin
      <4> QED  BY <1>2, <4>1
    <3>2. \A x \in Names : accessible'[g.obj][x] = None  BY <1>3, <3>1 DEF NoNames
    <3>3. EntriesRight(g)'  BY <1>3, <3>2 DEF EntriesRight
    <3> QED  BY <2>2, <2>3, <3>3 DEF FrameRight, IsContext
  <2>4. CASE heap[src].op # "context"
    <3>1. Len(g.done) = 0  BY <1>3, EmptySeq
    <3>2. MeansDone(g)'  BY <3>1 DEF MeansDone
    <3> QED  BY <2>2, <2>4, <3>2 DEF FrameRight, IsContext
  <2> QED  BY <2>3, <2>4
<1>9. \A i \in 1 .. Len(stack') : FrameRight(stack[i])'
  <2>1. PICK m : m = N + 1  OBVIOUS
  <2>2. Len(stack') = m /\ stack'[m] = g  BY <1>3, <2>1
  <2>3. FrameRight(stack[m])'  BY <1>8, <2>2
  <2>4. \A i \in 1 .. m : i = m \/ i \in 1 .. N  BY <1>3, <2>1
  <2> QED  BY <1>7, <2>2, <2>3, <2>4
<1>10. CollectsMore
  <2>1. \A i \in 1 .. N : i \in 1 .. Len(stack') /\ stack'[i] = stack[i]  BY <1>3
  <2> QED  BY <1>2, <2>1 DEF CollectsMore
<1>11. Complete' = Complete
  <2>1. Stacked' = Stacked \cup {n}
    <3>1. Stacked' = {stack'[i].obj : i \in 1 .. N + 1}  BY <1>3 DEF Stacked
    <3>2. Stacked = {stack[i].obj : i \in 1 .. N}  BY <1>2 DEF Stacked
    <3>3. PICK m : m = N + 1  OBVIOUS
    <3>4. m \in 1 .. m /\ (\A i \in 1 .. N : i \in 1 .. m) /\ \A i \in 1 .. m : i = m \/ i \in 1 .. N
      BY <1>3, <3>3
    <3>5. stack'[m].obj = n /\ \A i \in 1 .. N : stack'[i].obj = stack[i].obj  BY <1>3, <3>3
    <3>6. Stacked' = {stack'[i].obj : i \in 1 .. m}  BY <3>1, <3>3
    <3> QED  BY <3>2, <3>4, <3>5, <3>6
  <2> QED  BY <1>3, <1>5, <2>1 DEF Complete
<1>12. \A o \in Complete : heap'[o] = heap[o]  BY <1>3, <1>5 DEF Complete
<1> QED  BY <1>4, <1>9, <1>10, <1>11, <1>12, FinishedStays

LEMMA ResolvesRight ==
  ASSUME EInv, EInv', Plain, Filling, Imaged, Resolve
  PROVE  Imaged'
<1>1. TInv /\ TInv' /\ Known /\ stack # << >>  BY DEF EInv, CInv, Known, Resolve, Busy
<1>2. PICK f, N, y, k : f = Top /\ N = Len(stack) /\ y = Lookup(Top) /\ k = Wanted(f)  OBVIOUS
<1>3. PICK g : Replaced(N, g) /\ g.done = Append(f.done, y)
  BY <1>2, WhatResolves
<1>4. /\ f \in Frames /\ N \in Nat \ {0} /\ f = stack[N] /\ N \in 1 .. N /\ FrameIs(f)
      /\ FrameRight(f)
  BY <1>1, <1>2, StackFacts DEF EInv, Imaged
<1>5. program' = program /\ heap' = heap /\ accessible' = accessible  BY DEF Resolve
<1>6. Objects' = Objects /\ Copies' = Copies  BY <1>5 DEF Objects, Copies, Originals
<1>7. PlacesSame  BY <1>5, <1>6 DEF PlacesSame
<1>8. ~IsContext(f) /\ Wants(f) /\ ByName(f)  BY <1>2 DEF Resolve, ByName, IsContext
<1>9. Means(k, f.st, y)
  <2>1. \A i \in 1 .. Len(stack) : FrameRight(stack[i])  BY DEF Imaged
  <2> QED  BY <1>1, <1>2, <1>8, <2>1, LookupMeans
<1>10. PICK P, d : P = Parts(Source(f)) /\ d = Len(f.done)  OBVIOUS
<1>11. /\ Source(g)' = Source(f) /\ Parts(Source(g))' = P
       /\ g.src = f.src /\ g.st = f.st
  <2>1. g.src = f.src /\ g.st = f.st  BY <1>3, <1>4 DEF Replaced
  <2>2. Source(g)' = Source(f)  BY <1>5, <2>1 DEF Source
  <2> QED  BY <1>10, <2>1, <2>2 DEF Parts, CalleeOf
<1>12. k = P[d + 1] /\ k \in Originals /\ d \in Nat /\ f.st \in Objects /\ f.done \in Seq(Objects)
  <2>1. f.st \in Objects  BY <1>1, <1>4, FrameFacts, HeapFacts DEF TInv, TablesTyped
  <2> QED  BY <1>1, <1>2, <1>4, <1>8, <1>10, <2>1, FrameFacts DEF Wanted
<1>13. Means(k, f.st, y)'  BY <1>1, <1>7, <1>9, <1>12, MeansStays
<1>14. y \in Objects
  <2>1. g \in Frames'
    <3>1. Len(stack') = N /\ stack'[N] = g  BY <1>3 DEF Replaced
    <3> QED  BY <1>1, <1>4, <3>1, ElementOfSeq DEF TInv
  <2>2. Len(g.done) = d + 1 /\ g.done[d + 1] = y
    <3>1. f.done \in Seq(Objects \cup {y}) /\ y \in Objects \cup {y}  BY <1>12, Monotone
    <3> QED  BY <1>3, <1>10, <3>1, AppendProperties
  <2>3. g.done \in Seq(Objects)  BY <1>6, <2>1 DEF Frames, Frame
  <2>4. d + 1 \in 1 .. Len(g.done)  BY <1>12, <2>2
  <2> QED  BY <2>2, <2>3, <2>4, ElementOfSeq
<1>15. /\ Len(g.done) = d + 1 /\ g.done[d + 1] = y /\ \A j \in 1 .. d : g.done[j] = f.done[j]
  BY <1>3, <1>10, <1>12, <1>14, AppendProperties
<1>16. MeansDone(g)'
  <2>1. MeansDone(f)'  BY <1>1, <1>4, <1>7, <1>8, DoneStays DEF FrameRight
  <2>2. Parts(Source(f))' = P  BY <1>1, <1>4, <1>5, <1>10, SourceSame
  <2>3. ASSUME NEW j \in 1 .. d PROVE Means(P[j], f.st, f.done[j])'
    BY <1>10, <2>1, <2>2 DEF MeansDone
  <2>4. ASSUME NEW j \in 1 .. d + 1 PROVE Means(P[j], g.st, g.done[j])'
    <3>1. CASE j = d + 1  BY <1>11, <1>12, <1>13, <1>15, <3>1
    <3>2. CASE j # d + 1
      <4>1. j \in 1 .. d  BY <1>12, <3>2
      <4> QED  BY <1>11, <1>15, <2>3, <4>1
    <3> QED  BY <3>1, <3>2
  <2> QED  BY <1>11, <1>15, <2>4 DEF MeansDone
<1>17. FrameRight(g)'
  <2>1. ~IsContext(g)'  BY <1>8, <1>11 DEF IsContext
  <2> QED  BY <1>16, <2>1 DEF FrameRight
<1>18. \A i \in 1 .. Len(stack') : FrameRight(stack[i])'
  BY <1>3, <1>5, <1>7, <1>17, RightGoesOn
<1>19. Elements(stack[N].done) \subseteq Elements(g.done)
  <2> SUFFICES ASSUME NEW j \in 1 .. d PROVE f.done[j] \in Elements(g.done)
    BY <1>4, <1>10 DEF Elements
  <2>1. j \in 1 .. Len(g.done) /\ g.done[j] = f.done[j]  BY <1>12, <1>15
  <2> QED  BY <2>1 DEF Elements
<1>20. CollectsMore /\ Stacked' = Stacked  BY <1>1, <1>2, <1>3, <1>19, GoesOnCollects
<1>21. Complete' = Complete  BY <1>6, <1>20 DEF Complete
<1> QED  BY <1>5, <1>7, <1>18, <1>20, <1>21, FinishedStays

-----------------------------------------------------------------------------
(* An entry stays, or is that of the last object with the name. *)
LEMMA EnterIs ==
  ASSUME NEW S, NEW objs \in Seq(S), NEW table, NEW names, NEW x \in Names
  PROVE  \/ /\ \A i \in 1 .. Len(objs) : names[i] # x
            /\ Enter(table, names, objs)[x] = table[x]
         \/ \E i \in 1 .. Len(objs) :
              /\ names[i] = x /\ Enter(table, names, objs)[x] = objs[i]
              /\ \A j \in 1 .. Len(objs) : names[j] = x => j <= i
<1> DEFINE at == {i \in DOMAIN objs : names[i] = x}
           i0 == CHOOSE i \in at : \A j \in at : j <= i
<1>1. Enter(table, names, objs)[x] = IF at = {} THEN table[x] ELSE objs[i0]
  BY DEF Enter
<1>2. Len(objs) \in Nat /\ DOMAIN objs = 1 .. Len(objs)  BY LenProperties
<1>3. \A i : i \in at <=> i \in 1 .. Len(objs) /\ names[i] = x  BY <1>2
<1>4. ASSUME at # {} PROVE i0 \in at /\ \A j \in at : j <= i0
  <2>1. at \in SUBSET (1 .. Len(objs))  BY <1>2
  <2> HIDE DEF at
  <2>2. \E i \in at : \A j \in at : j <= i  BY <1>2, <1>4, <2>1, Greatest
  <2> QED  BY <2>2
<1> HIDE DEF at, i0
<1>5. CASE at = {}  BY <1>1, <1>3, <1>5
<1>6. CASE at # {}  BY <1>1, <1>3, <1>4, <1>6
<1> QED  BY <1>5, <1>6

LEMMA SharesRight ==
  ASSUME EInv, EInv', Imaged, ShareCaptures
  PROVE  Imaged'
<1>1. TInv /\ TInv' /\ stack # << >>  BY DEF EInv, CInv, ShareCaptures, Busy
<1>2. PICK f, N, e, objs, names, o, P, d :
        /\ f = Top /\ N = Len(stack) /\ e = Source(f) /\ objs = e.captures /\ names = NamesOf(objs)
        /\ o = f.obj /\ P = Parts(e) /\ d = Len(f.done)
  OBVIOUS
<1>3. PICK g : Replaced(N, g) /\ g.done = f.done /\ g.shared
  BY <1>2, WhatIsShared
<1>4. /\ f \in Frames /\ N \in Nat \ {0} /\ f = stack[N] /\ N \in 1 .. N /\ FrameIs(f)
      /\ FrameRight(f) /\ \A i \in 1 .. N : stack[i] \in Frames
  BY <1>1, <1>2, StackFacts DEF EInv, Imaged
<1>5. /\ program' = program /\ heap' = heap
      /\ accessible' = [accessible EXCEPT ![o] = Enter(@, names, objs)]
  BY <1>2 DEF ShareCaptures
<1>6. Objects' = Objects /\ Copies' = Copies  BY <1>5 DEF Objects, Copies, Originals
<1>7. PlacesSame  BY <1>5, <1>6 DEF PlacesSame
<1>8. e.op = "context" /\ ~f.shared /\ d = Len(e.params) /\ EntriesRight(f)
  <2>1. e.op = "context" /\ ~f.shared /\ d = Len(e.params)
    BY <1>2 DEF ShareCaptures, CapturesDue
  <2>2. IsContext(f)  BY <1>2, <2>1 DEF IsContext
  <2> QED  BY <1>4, <2>1, <2>2 DEF FrameRight
<1>9. /\ g.src = f.src /\ g.obj = o /\ Source(g)' = e /\ Parts(Source(g))' = P /\ IsContext(g)'
  <2>1. g.src = f.src /\ g.obj = o  BY <1>2, <1>3, <1>4 DEF Replaced
  <2>2. Source(g)' = e  BY <1>2, <1>5, <2>1 DEF Source
  <2> QED  BY <1>2, <1>8, <2>1, <2>2 DEF Parts, CalleeOf, IsContext
<1>10. o \in DOMAIN accessible /\ objs \in Seq(Originals) /\ d \in Nat
  <2>1. f.src \in Originals /\ objs = heap[f.src].captures /\ d \in Nat
    BY <1>1, <1>2, <1>4, FrameFacts DEF Source
  <2>2. o \in DOMAIN accessible  BY <1>1, <1>2, <1>4, <1>8, FrameFacts DEF FrameIs
  <2> QED  BY <1>1, <2>1, <2>2, SourceFacts
<1>11. PICK T : T = accessible[o]  OBVIOUS
<1>12. accessible'[o] = Enter(T, names, objs)  BY <1>5, <1>10, <1>11
<1>13. \A i \in 1 .. Len(objs) : names[i] = heap[objs[i]].name
  <2>1. DOMAIN objs = 1 .. Len(objs)  BY <1>10, LenProperties
  <2> QED  BY <1>2, <2>1 DEF NamesOf
<1>14. ASSUME NEW x \in Names, NEW y, y = accessible'[o][x], y # None
       PROVE  ByCapture(g, x, y)' \/ ByPart(g, x, y)'
  <2>1. CASE /\ \A i \in 1 .. Len(objs) : names[i] # x
             /\ Enter(T, names, objs)[x] = T[x]
    <3>1. y = accessible[f.obj][x]  BY <1>2, <1>11, <1>12, <1>14, <2>1
    <3>2. ByPart(f, x, y)  BY <1>8, <1>14, <3>1 DEF EntriesRight, ByCapture
    <3>3. PICK i \in 1 .. d :
            /\ f.done[i] = y /\ heap[P[i]].op = "symbol" /\ heap[P[i]].name = x
            /\ \A j \in 1 .. d : i < j /\ heap[P[j]].op = "symbol" => heap[P[j]].name # x
      BY <1>2, <3>2 DEF ByPart
    <3>4. \A z \in Elements(objs) : heap[z].name # x  BY <1>13, <2>1 DEF Elements
    <3>5. /\ g.done[i] = y /\ heap'[P[i]].op = "symbol" /\ heap'[P[i]].name = x
          /\ \A j \in 1 .. d : i < j /\ heap'[P[j]].op = "symbol" => heap'[P[j]].name # x
          /\ \A z \in Elements(objs) : heap'[z].name # x
          /\ Len(g.done) = d
      BY <1>2, <1>3, <1>5, <3>3, <3>4
    <3>6. ByPart(g, x, y)'
      <4>1. e.captures = objs  BY <1>2
      <4> HIDE <1>2
      <4> QED  BY <1>9, <3>5, <4>1 DEF ByPart
    <3> QED  BY <3>6
  <2>2. ASSUME NEW i \in 1 .. Len(objs), names[i] = x, Enter(T, names, objs)[x] = objs[i],
               \A j \in 1 .. Len(objs) : names[j] = x => j <= i
        PROVE  ByCapture(g, x, y)'
    <3>1. objs[i] = y /\ heap[y].name = x  BY <1>12, <1>13, <1>14, <2>2
    <3>2. \A j \in 1 .. Len(objs) : i < j => heap[objs[j]].name # x
      <4> SUFFICES ASSUME NEW j \in 1 .. Len(objs), i < j, names[j] = x PROVE FALSE
        BY <1>13
      <4>1. j <= i  BY <2>2
      <4> QED  BY <4>1
    <3>3. LastAt(objs, i, x)'  BY <1>5, <3>2 DEF LastAt
    <3>4. Source(g)'.captures = objs /\ heap'[y].name = x  BY <1>2, <1>5, <1>9, <3>1
    <3> QED  BY <1>3, <3>1, <3>3, <3>4 DEF ByCapture
  <2>3. \/ /\ \A i \in 1 .. Len(objs) : names[i] # x
           /\ Enter(T, names, objs)[x] = T[x]
        \/ \E i \in 1 .. Len(objs) :
             /\ names[i] = x /\ Enter(T, names, objs)[x] = objs[i]
             /\ \A j \in 1 .. Len(objs) : names[j] = x => j <= i
    BY <1>10, <1>14, EnterIs
  <2> QED  BY <2>1, <2>2, <2>3
<1>15. FrameRight(g)'
  <2>1. (g.shared => Len(Source(g).params) <= Len(g.done))'  BY <1>2, <1>3, <1>8, <1>9, <1>10
  <2>2. EntriesRight(g)'  BY <1>9, <1>14, <2>1 DEF EntriesRight
  <2> QED  BY <1>9, <2>2 DEF FrameRight
<1>16. ASSUME NEW i \in 1 .. N - 1 PROVE accessible'[stack[i].obj] = accessible[stack[i].obj]
  <2>1. i \in 1 .. Len(stack) /\ N \in 1 .. Len(stack) /\ i < N  BY <1>2, <1>4
  <2>2. stack[i].obj < stack[N].obj  BY <2>1 DEF EInv, FramesLinked
  <2>3. stack[i].obj # o
    <3>1. stack[N].obj = o  BY <1>2, <1>4
    <3>2. stack[i] \in Frames  BY <1>2, <1>4, <2>1
    <3>3. stack[i].obj \in Nat /\ o \in Nat  BY <1>1, <1>2, <1>4, <3>2, FrameFacts, HeapFacts
    <3> QED  BY <2>2, <3>1, <3>3
  <2> QED  BY <1>5, <2>3
<1>17. \A i \in 1 .. Len(stack') : FrameRight(stack[i])'
  BY <1>3, <1>7, <1>15, <1>16, RightGoesOn
<1>18. Elements(stack[N].done) \subseteq Elements(g.done)  BY <1>3, <1>4
<1>19. CollectsMore /\ Stacked' = Stacked  BY <1>1, <1>2, <1>3, <1>18, GoesOnCollects
<1>20. Complete' = Complete  BY <1>6, <1>19 DEF Complete
<1> QED  BY <1>5, <1>7, <1>17, <1>19, <1>20, FinishedStays

-----------------------------------------------------------------------------
(* What the innermost activation is, when it ends. *)
LEMMA EndFacts ==
  ASSUME EInv, EInv', Finish
  PROVE  /\ TInv /\ TInv' /\ Known /\ stack # << >> /\ program' = program
         /\ Top \in Frames /\ Top = stack[Len(stack)] /\ FrameIs(Top) /\ ~Wants(Top)
         /\ Len(stack) \in Nat \ {0} /\ Len(stack) \in 1 .. Len(stack)
         /\ Top.obj \in Copies /\ Top.obj \in Objects
         /\ heap[Top.obj].of = Top.src /\ heap[Top.obj].op = Source(Top).op
         /\ PlacesSame
<1>1. TInv /\ TInv' /\ Known /\ stack # << >> /\ program' = program /\ ~Wants(Top)
  BY DEF EInv, CInv, Known, Finish, Busy
<1>2. /\ Top \in Frames /\ Top = stack[Len(stack)]
      /\ Len(stack) \in Nat \ {0} /\ Len(stack) \in 1 .. Len(stack)
  BY <1>1, StackFacts
<1>3. FrameIs(Top)  BY <1>2 DEF EInv
<1>4. Top.obj \in Copies /\ Top.obj \in Objects  BY <1>1, <1>2, FrameFacts, HeapFacts
<1>5. heap[Top.obj].of = Top.src  BY <1>3 DEF FrameIs
<1>6. heap[Top.obj].op = Source(Top).op  BY <1>1, <1>4, <1>5 DEF Known, ObjectIs, Source
<1>7. PICK b, o, h : b = Filled(Top) /\ o = Top.obj /\ h = heap[o]  OBVIOUS
<1>8. b.of = h.of /\ b.op = h.op  BY <1>1, <1>7, FilledIs
<1>9. b.in = h.in  BY <1>1, <1>7, FilledFacts DEF EInv
<1>10. /\ Objects' = Objects /\ Copies' = Copies
       /\ \A x \in Objects : x # o => heap'[x] = heap[x]
       /\ heap'[o] = b
  BY <1>7, WhatFinishes
<1>11. PlacesSame
  <2>1. ASSUME NEW x \in Objects
        PROVE  heap'[x].of = heap[x].of /\ heap'[x].in = heap[x].in /\ heap'[x].op = heap[x].op
    <3>1. CASE x = o  BY <1>7, <1>8, <1>9, <1>10, <3>1
    <3>2. CASE x # o  BY <1>10, <3>2
    <3> QED  BY <3>1, <3>2
  <2> QED  BY <1>1, <1>10, <2>1 DEF PlacesSame
<1> QED  BY <1>1, <1>2, <1>3, <1>4, <1>5, <1>6, <1>11

(* A finished operation has the operands that it should. *)
LEMMA OperationMeans ==
  ASSUME EInv, EInv', Imaged, Finish, ~IsContext(Top), NEW o, o = Top.obj
  PROVE  MeansAll(o)'
<1>1. PICK f, P, d : f = Top /\ o = f.obj /\ P = Parts(Source(f)) /\ d = f.done  OBVIOUS
<1>2. /\ TInv /\ TInv' /\ Known /\ stack # << >> /\ program' = program
      /\ f \in Frames /\ f = stack[Len(stack)] /\ FrameIs(f) /\ ~Wants(f)
      /\ Len(stack) \in 1 .. Len(stack)
      /\ o \in Objects /\ heap[o].of = f.src /\ PlacesSame
  BY <1>1, EndFacts
<1>3. heap'[o] = Filled(f)  BY <1>1, WhatFinishes
<1>4. Parts(heap'[o]) = d /\ Len(d) = Len(P)  BY <1>1, <1>2, <1>3, OperationParts
<1>5. heap'[o].of = f.src /\ heap'[o].in = f.st
  <2>1. heap[o].in = f.st  BY <1>1, <1>2 DEF FrameIs, IsContext
  <2> QED  BY <1>2, <2>1 DEF PlacesSame
<1>6. Parts(Source(f))' = P  BY <1>1, <1>2, SourceSame
<1>7. Parts(heap[heap[o].of])' = P  BY <1>5, <1>6 DEF Source
<1>8. MeansDone(f)'
  <2>1. FrameRight(f)  BY <1>2 DEF Imaged
  <2>2. MeansDone(f)  BY <1>1, <2>1 DEF FrameRight
  <2> QED  BY <1>2, <2>2, DoneStays
<1>9. \A i \in 1 .. Len(P) : Means(P[i], f.st, d[i])'
  <2>1. \A j \in 1 .. Len(f.done) : Means(Parts(Source(f))[j], f.st, f.done[j])'
    BY <1>8 DEF MeansDone
  <2> QED  BY <1>1, <1>4, <1>6, <2>1
<1>10. Parts(heap[o])' = d  BY <1>4 DEF Parts, CalleeOf
<1>11. PICK k : k = f.st  OBVIOUS
<1>12. /\ Len(d) = Len(P) /\ heap'[o].in = k
       /\ \A i \in 1 .. Len(P) : Means(P[i], k, d[i])'
  BY <1>4, <1>5, <1>9, <1>11
<1> QED  BY <1>7, <1>10, <1>12 DEF MeansAll

-----------------------------------------------------------------------------
(* An entry of another name is still right with one more part. *)
LEMMA PartGoesOn ==
  ASSUME TInv, TInv', program' = program, NEW f \in Frames, FrameIs(f), Wants(f),
         NEW o \in Objects, NEW g, g.src = f.src, g.done = Append(f.done, o), g.shared = f.shared,
         NEW x, NEW y, ByPart(f, x, y),
         heap[Wanted(f)].op = "symbol" => heap[Wanted(f)].name # x
  PROVE  ByPart(g, x, y)'
<1>1. PICK P, e, d : P = Parts(Source(f)) /\ e = Source(f) /\ d = Len(f.done)  OBVIOUS
<1>2. ByPart(f, x, y)'  BY PartEntryStays
<1>3. Source(f)' = e /\ Parts(Source(f))' = P  BY <1>1, SourceSame
<1>4. Source(g)' = e /\ Parts(Source(g))' = P
  <2>1. Source(g)' = Source(f)'  BY DEF Source
  <2> QED  BY <1>1, <1>3, <2>1 DEF Parts, CalleeOf
<1>5. PICK i \in 1 .. d :
        /\ f.done[i] = y /\ heap'[P[i]].op = "symbol" /\ heap'[P[i]].name = x
        /\ \A j \in 1 .. d : i < j /\ heap'[P[j]].op = "symbol" => heap'[P[j]].name # x
        /\ f.shared /\ i <= Len(e.params) => \A z \in Elements(e.captures) : heap'[z].name # x
  <2> HIDE <1>1
  <2>1. Len(f.done) = d  BY <1>1
  <2> QED  BY <1>2, <1>3, <2>1 DEF ByPart
<1>6. d \in Nat /\ f.done \in Seq(Objects) /\ Wanted(f) = P[d + 1] /\ Wanted(f) \in Originals
  BY <1>1, FrameFacts, WantedFacts DEF Wanted
<1>7. /\ Len(g.done) = d + 1 /\ \A j \in 1 .. d : g.done[j] = f.done[j]
  BY <1>1, <1>6, AppendProperties
<1>8. heap'[P[d + 1]].op = "symbol" => heap'[P[d + 1]].name # x
  BY <1>6, SourcesKept
<1>9. \A j \in 1 .. d + 1 : i < j /\ heap'[P[j]].op = "symbol" => heap'[P[j]].name # x
  <2> TAKE j \in 1 .. d + 1
  <2>1. CASE j = d + 1  BY <1>8, <2>1
  <2>2. CASE j # d + 1
    <3>1. j \in 1 .. d  BY <1>6, <2>2
    <3> QED  BY <1>5, <3>1
  <2> QED  BY <2>1, <2>2
<1>10. i \in 1 .. d + 1 /\ g.done[i] = y  BY <1>5, <1>6, <1>7
<1>11. g.shared /\ i <= Len(e.params) => \A z \in Elements(e.captures) : heap'[z].name # x
  BY <1>5
<1>12. heap'[P[i]].op = "symbol" /\ heap'[P[i]].name = x  BY <1>5
<1> QED  BY <1>4, <1>7, <1>9, <1>10, <1>11, <1>12 DEF ByPart

(* A context whose part is finished. *)
LEMMA ContextGoesOn ==
  ASSUME EInv, EInv', program' = program,
         NEW f \in Frames, FrameIs(f), Wants(f), IsContext(f), EntriesRight(f),
         NEW o \in Objects, heap[o].name = heap[Wanted(f)].name, accessible' = Declare(f, o),
         NEW g, g.src = f.src, g.obj = f.obj, g.done = Append(f.done, o), g.shared = f.shared
  PROVE  EntriesRight(g)'
<1>1. TInv /\ TInv'  BY DEF EInv, CInv
<1>2. PICK e, P, d, k, T : /\ e = Source(f) /\ P = Parts(e) /\ d = Len(f.done) /\ k = Wanted(f)
                           /\ T = accessible[f.obj]
  OBVIOUS
<1>3. /\ f.src \in Originals /\ e = heap[f.src] /\ e \in Expr /\ d \in Nat /\ e.op = "context"
      /\ f.done \in Seq(Objects) /\ f.obj \in DOMAIN accessible
      /\ k \in Originals /\ k = P[d + 1] /\ k \in Elements(P)
  BY <1>1, <1>2, FrameFacts, WantedFacts DEF Source, FrameIs, IsContext, Wanted
<1>4. Source(g)' = e /\ Parts(Source(g))' = P
  <2>1. Source(f)' = e /\ Parts(Source(f))' = P  BY <1>1, <1>2, SourceSame
  <2>2. Source(g)' = Source(f)'  BY DEF Source
  <2> QED  BY <1>2, <2>1, <2>2 DEF Parts, CalleeOf
<1>5. Len(g.done) = d + 1 /\ g.done[d + 1] = o /\ (f.shared => Len(e.params) <= d)
      /\ Len(e.params) \in Nat
  BY <1>2, <1>3, AppendProperties, ContextParts DEF EntriesRight
<1>6. heap'[k] = heap[k]  BY <1>1, <1>3, SourcesKept
<1>7. ASSUME NEW x \in Names, T[x] # None, heap[k].op = "symbol" => heap[k].name # x
      PROVE  ByCapture(g, x, T[x])' \/ ByPart(g, x, T[x])'
  <2>1. PICK y : y = T[x]  OBVIOUS
  <2>2. ByCapture(f, x, y) \/ ByPart(f, x, y)  BY <1>2, <1>7, <2>1 DEF EntriesRight
  <2>3. CASE ByCapture(f, x, y)
    <3>1. ByCapture(f, x, y)'  BY <1>1, <2>3, CaptureStays
    <3>2. Source(f)' = Source(g)'  BY DEF Source
    <3>3. ByCapture(g, x, y)'  BY <3>1, <3>2 DEF ByCapture
    <3> QED  BY <2>1, <3>3
  <2>4. CASE ByPart(f, x, y)
    <3>1. ByPart(g, x, y)'  BY <1>1, <1>2, <1>7, <2>4, PartGoesOn
    <3> QED  BY <2>1, <3>1
  <2> QED  BY <2>2, <2>3, <2>4
<1>8. k \notin Elements(e.kids) => heap[k].op = "symbol"
  <2> SUFFICES ASSUME k \notin Elements(e.kids) PROVE heap[k].op = "symbol"  OBVIOUS
  <2>1. Elements(P) = Elements(e.params) \cup Elements(e.locals) \cup Elements(e.kids)
    <3>1. PICK s, t, u : s = e.params /\ t = e.locals /\ u = e.kids  OBVIOUS
    <3>2. s \in Seq(Nat) /\ t \in Seq(Nat) /\ u \in Seq(Nat)  BY <1>3, <3>1 DEF Expr
    <3>3. PICK a : a = s \o t  OBVIOUS
    <3>4. a \in Seq(Nat) /\ Elements(a) = Elements(s) \cup Elements(t)  BY <3>2, <3>3, Joined
    <3>5. Elements(a \o u) = Elements(a) \cup Elements(u)  BY <3>2, <3>4, Joined
    <3>6. P = a \o u  BY <1>2, <1>3, <3>1, <3>3 DEF Parts
    <3> QED  BY <3>1, <3>4, <3>5, <3>6
  <2> QED  BY <1>1, <1>3, <2>1, ScopeFacts
<1>9. k \in Elements(e.kids) => heap[k].op # "symbol"
  <2>1. Len(e.kids) = 1 /\ heap[e.kids[1]].op = "ret"  BY <1>1, <1>3, ScopeFacts
  <2> QED  BY <2>1 DEF Elements
<1>10. CASE k \in Elements(e.kids)
  <2>1. accessible'[g.obj] = T  BY <1>2, <1>10 DEF Declare
  <2>2. (g.shared => Len(Source(g).params) <= Len(g.done))'  BY <1>3, <1>4, <1>5
  <2>3. \A x \in Names : T[x] # None => ByCapture(g, x, T[x])' \/ ByPart(g, x, T[x])'
    BY <1>7, <1>9, <1>10
  <2> QED  BY <2>1, <2>2, <2>3 DEF EntriesRight
<1>11. CASE k \notin Elements(e.kids)
  <2>1. PICK ns, os, nm, T1 : /\ ns = <<heap[o].name>> /\ os = <<o>> /\ nm = heap[k].name
                              /\ T1 = accessible'[f.obj]
    OBVIOUS
  <2>2. T1 = Enter(T, ns, os)
    <3>1. accessible' = [accessible EXCEPT ![f.obj] = Enter(@, ns, os)]
      BY <1>2, <1>3, <1>11, <2>1 DEF Declare
    <3> QED  BY <1>2, <1>3, <2>1, <3>1
  <2>3. os \in Seq(Objects) /\ Len(os) = 1 /\ os[1] = o /\ ns[1] = nm  BY <1>2, <2>1
  <2>4. ASSUME NEW x \in Names
        PROVE  (nm # x /\ T1[x] = T[x]) \/ (nm = x /\ T1[x] = o)
    <3>1. \/ /\ \A i \in 1 .. Len(os) : ns[i] # x
             /\ Enter(T, ns, os)[x] = T[x]
          \/ \E i \in 1 .. Len(os) :
               /\ ns[i] = x /\ Enter(T, ns, os)[x] = os[i]
               /\ \A j \in 1 .. Len(os) : ns[j] = x => j <= i
      <4>1. os \in Seq(Objects)  BY <2>3
      <4>2. x \in Names  OBVIOUS
      <4> QED  BY <4>1, <4>2, EnterIs, SMTT(60)
    <3> QED  BY <2>2, <2>3, <3>1
  <2>5. ASSUME NEW x \in Names, nm = x PROVE ByPart(g, x, o)'
    <3>1. heap'[P[d + 1]].op = "symbol" /\ heap'[P[d + 1]].name = x
      BY <1>3, <1>6, <1>8, <1>11, <2>1, <2>5
    <3>2. d + 1 \in 1 .. d + 1 /\ \A j \in 1 .. d + 1 : ~ (d + 1 < j)  BY <1>3
    <3>3. ~ (g.shared /\ d + 1 <= Len(e.params))  BY <1>3, <1>5
    <3>4. PICK m : m = d + 1  OBVIOUS
    <3>5. /\ m \in 1 .. m /\ (\A j \in 1 .. m : ~ (m < j)) /\ g.done[m] = o /\ Len(g.done) = m
          /\ heap'[P[m]].op = "symbol" /\ heap'[P[m]].name = x
          /\ ~ (g.shared /\ m <= Len(e.params))
      BY <1>5, <3>1, <3>2, <3>3, <3>4
    <3> HIDE <3>4
    <3> QED  BY <1>4, <3>5 DEF ByPart
  <2>6. ASSUME NEW x \in Names, T1[x] # None
        PROVE  ByCapture(g, x, T1[x])' \/ ByPart(g, x, T1[x])'
    <3>1. CASE nm = x /\ T1[x] = o  BY <2>5, <3>1
    <3>2. CASE nm # x /\ T1[x] = T[x]
      <4>1. PICK y : y = T[x]  OBVIOUS
      <4>2. ByCapture(g, x, y)' \/ ByPart(g, x, y)'  BY <1>7, <2>1, <2>6, <3>2, <4>1
      <4> QED  BY <3>2, <4>1, <4>2
    <3> QED  BY <2>4, <3>1, <3>2
  <2>7. accessible'[g.obj] = T1  BY <2>1
  <2>8. (g.shared => Len(Source(g).params) <= Len(g.done))'  BY <1>3, <1>4, <1>5
  <2> QED  BY <2>6, <2>7, <2>8 DEF EntriesRight
<1> QED  BY <1>10, <1>11

-----------------------------------------------------------------------------
(* The activation that gets the finished copy. *)
LEMMA BelowFacts ==
  ASSUME EInv, EInv', Plain, Filling, Chained, Finish, NEW n, n = Len(stack) - 1, Rest # << >>,
         NEW f, f = stack[n]
  PROVE  /\ n \in Nat \ {0} /\ n \in 1 .. Len(stack) /\ n + 1 = Len(stack)
         /\ f \in Frames /\ FrameIs(f) /\ Wants(f) /\ Top.src = Wanted(f)
         /\ heap[Top.obj].in = f.st
         /\ f.src \in Body /\ Top.src \in Inner(f.src) /\ Top.src \notin Captures
         /\ heap[Top.obj].name = heap[Wanted(f)].name
<1>1. PICK N, t : N = Len(stack) /\ t = Top  OBVIOUS
<1>2. /\ TInv /\ Known /\ stack # << >> /\ N \in Nat \ {0} /\ N \in 1 .. N /\ t = stack[N]
      /\ t \in Frames /\ t.obj \in Objects /\ heap[t.obj].of = t.src
  BY <1>1, EndFacts
<1>3. n \in Nat \ {0} /\ n \in 1 .. N /\ n + 1 = N /\ n < N
  <2>1. Rest \in Seq(Frames) /\ Len(Rest) = n  BY <1>1, <1>2, StackFacts
  <2>2. n \in Nat \ {0}  BY <2>1, EmptySeq
  <2> QED  BY <1>1, <1>2, <2>2
<1>4. f \in Frames  BY <1>1, <1>2, <1>3, StackFacts
<1>5. FrameIs(f) /\ f.src \in Body /\ t.src \notin Captures
  BY <1>1, <1>2, <1>3 DEF EInv, Filling, FillsAt
<1>6. Wants(f) /\ t.src = Wanted(f) /\ heap[t.obj].in = f.st
  BY <1>1, <1>2, <1>3 DEF EInv, FramesLinked
<1>7. t.src \in Inner(f.src)  BY <1>1, <1>2, <1>3 DEF Chained
<1>8. heap[t.obj].name = heap[Wanted(f)].name  BY <1>2, <1>6 DEF Known, ObjectIs
<1> QED  BY <1>1, <1>3, <1>4, <1>5, <1>6, <1>7, <1>8

(* What is copied is what it was in the operation that it is a part of. *)
LEMMA PartMeans ==
  ASSUME EInv, EInv', Plain, Filling, Chained, Finish, NEW n, n = Len(stack) - 1, Rest # << >>,
         NEW f, f = stack[n], ~IsContext(f), NEW o, o = Top.obj
  PROVE  Means(Wanted(f), f.st, o)
<1>1. PICK k, c : k = Wanted(f) /\ c = heap[f.st].of  OBVIOUS
<1>2. /\ f \in Frames /\ FrameIs(f) /\ Wants(f) /\ Top.src = k
      /\ heap[o].in = f.st /\ f.src \in Body /\ k \in Inner(f.src) /\ k \notin Captures
  BY <1>1, BelowFacts
<1>3. TInv /\ Known /\ o \in Copies /\ heap[o].of = k  BY <1>2, EndFacts
<1>4. heap[k].op # "symbol"
  <2> SUFFICES ASSUME heap[k].op = "symbol" PROVE FALSE  OBVIOUS
  <2>1. heap[f.src].op = "context"  BY <1>2, <1>3, OnlyListed
  <2> QED  BY <2>1 DEF IsContext, Source
<1>5. c \in Originals
  <2>1. f.st \in Objects  BY <1>2, <1>3, FrameFacts, HeapFacts DEF TInv, TablesTyped
  <2> QED  BY <1>1, <1>3, <2>1 DEF Known, ObjectIs
<1>6. k \notin Elements(heap[c].params)  BY <1>3, <1>4, <1>5, ScopeFacts
<1>7. Hid(k, c) = {}  BY <1>6 DEF Hid
<1> QED  BY <1>1, <1>2, <1>3, <1>7 DEF Means

LEMMA BelowRight ==
  ASSUME EInv, EInv', Plain, Filling, Chained, Imaged, Finish
  PROVE  \A i \in 1 .. Len(stack') : FrameRight(stack[i])'
<1>1. CASE Rest = << >>
  <2>1. stack' = << >>  BY <1>1, WhatFinishes
  <2>2. 1 .. Len(stack') = {}  BY <2>1, EmptySeq
  <2> QED  BY <2>2
<1>2. CASE Rest # << >>
  <2>1. PICK n, f, o : n = Len(stack) - 1 /\ f = stack[n] /\ o = Top.obj  OBVIOUS
  <2>2. /\ n \in Nat \ {0} /\ n \in 1 .. Len(stack)
        /\ f \in Frames /\ FrameIs(f) /\ Wants(f) /\ Top.src = Wanted(f)
        /\ heap[o].name = heap[Wanted(f)].name
    BY <1>2, <2>1, BelowFacts
  <2>3. /\ TInv /\ TInv' /\ Known /\ program' = program /\ o \in Copies /\ o \in Objects
        /\ PlacesSame
    BY <2>1, EndFacts
  <2>4. accessible' = Declare(f, o)  BY <1>2, <2>1, WhatFinishes
  <2>5. PICK g : Replaced(n, g) /\ g.done = Append(f.done, o) /\ g.shared = f.shared
    BY <1>2, <2>1, WhatFinishes
  <2>6. g.src = f.src /\ g.obj = f.obj /\ g.st = f.st  BY <2>1, <2>5 DEF Replaced
  <2>7. FrameRight(f)  BY <2>1, <2>2 DEF Imaged
  <2>8. IsContext(g)' = IsContext(f)
    <3>1. IsContext(f)' = IsContext(f)  BY <2>2, <2>3, SourceSame
    <3>2. Source(g)' = Source(f)'  BY <2>6 DEF Source
    <3> QED  BY <3>1, <3>2 DEF IsContext
  <2>9. CASE IsContext(f)
    <3>1. EntriesRight(f)  BY <2>7, <2>9 DEF FrameRight
    <3>2. EntriesRight(g)'
      BY <2>2, <2>3, <2>4, <2>5, <2>6, <2>9, <3>1, ContextGoesOn
    <3>3. FrameRight(g)'  BY <2>8, <2>9, <3>2 DEF FrameRight
    <3>4. ASSUME NEW i \in 1 .. n - 1
          PROVE  accessible'[stack[i].obj] = accessible[stack[i].obj]
      <4>1. i \in 1 .. Len(stack) /\ n \in 1 .. Len(stack) /\ i < n  BY <2>2, <2>5 DEF Replaced
      <4>2. stack[i].obj < f.obj  BY <2>1, <4>1 DEF EInv, FramesLinked
      <4>3. stack[i] \in Frames  BY <2>5 DEF Replaced
      <4>4. stack[i].obj \in Nat /\ f.obj \in Nat  BY <2>2, <2>3, <4>3, FrameFacts, HeapFacts
      <4>5. stack[i].obj # f.obj  BY <4>2, <4>4
      <4> QED  BY <2>4, <4>5 DEF Declare
    <3> QED  BY <2>3, <2>5, <3>3, <3>4, RightGoesOn
  <2>10. CASE ~IsContext(f)
    <3>1. accessible' = accessible  BY <2>4, <2>10 DEF Declare, IsContext
    <3>2. PICK P, d, k, st : P = Parts(Source(f)) /\ d = Len(f.done) /\ k = Wanted(f) /\ st = f.st
      OBVIOUS
    <3>3. Means(k, st, o)  BY <1>2, <2>1, <2>10, <3>2, PartMeans
    <3>4. k = P[d + 1] /\ k \in Originals /\ d \in Nat /\ st \in Objects /\ f.done \in Seq(Objects)
      <4>1. f.st \in Objects  BY <2>2, <2>3, FrameFacts, HeapFacts DEF TInv, TablesTyped
      <4> QED  BY <2>2, <2>3, <3>2, <4>1, FrameFacts DEF Wanted
    <3>5. Means(k, st, o)'  BY <2>3, <3>3, <3>4, MeansStays
    <3>6. Parts(Source(f))' = P  BY <2>2, <2>3, <3>2, SourceSame
    <3>7. Parts(Source(g))' = P
      <4>1. Source(g)' = Source(f)'  BY <2>6 DEF Source
      <4> QED  BY <3>6, <4>1 DEF Parts, CalleeOf
    <3>8. MeansDone(f)'
      BY <2>2, <2>3, <2>7, <2>10, DoneStays DEF FrameRight
    <3>9. /\ Len(g.done) = d + 1 /\ g.done[d + 1] = o /\ \A j \in 1 .. d : g.done[j] = f.done[j]
      BY <2>3, <2>5, <3>2, <3>4, AppendProperties
    <3>10. \A j \in 1 .. d : Means(P[j], st, f.done[j])'
      BY <3>2, <3>6, <3>8 DEF MeansDone
    <3>11. ASSUME NEW j \in 1 .. d + 1 PROVE Means(P[j], st, g.done[j])'
      <4>1. CASE j = d + 1  BY <3>4, <3>5, <3>9, <4>1
      <4>2. CASE j # d + 1
        <5>1. j \in 1 .. d  BY <3>4, <4>2
        <5> QED  BY <3>9, <3>10, <5>1
      <4> QED  BY <4>1, <4>2
    <3>12. MeansDone(g)'
      <4>1. g.st = st  BY <2>6, <3>2
      <4> HIDE <3>2
      <4> QED  BY <3>7, <3>9, <3>11, <4>1 DEF MeansDone
    <3>13. FrameRight(g)'  BY <2>8, <2>10, <3>12 DEF FrameRight
    <3> QED  BY <2>3, <2>5, <3>1, <3>13, RightGoesOn
  <2> QED  BY <2>9, <2>10
<1> QED  BY <1>1, <1>2

-----------------------------------------------------------------------------
(* One more copy is complete. *)
LEMMA OneMore ==
  ASSUME EInv, EInv', Finish, NEW o, o = Top.obj
  PROVE  /\ o \in Stacked /\ Stacked' = Stacked \ {o} /\ Complete' = Complete \cup {o}
         /\ \A i \in 1 .. Len(stack) : i # Len(stack) => stack[i].obj # o
<1>1. PICK N, n : N = Len(stack) /\ n = N - 1  OBVIOUS
<1>2. /\ TInv /\ stack # << >> /\ N \in Nat \ {0} /\ N \in 1 .. N /\ stack[N].obj = o
      /\ o \in Copies
  BY <1>1, EndFacts
<1>3. Stacked = {stack[i].obj : i \in 1 .. N}  BY <1>1 DEF Stacked
<1>4. \A i \in 1 .. N : i # N => stack[i].obj # o
  <2> TAKE i \in 1 .. N
  <2> HAVE i # N
  <2>1. i < N  BY <1>2
  <2>2. stack[i].obj < stack[N].obj  BY <1>1, <1>2, <2>1 DEF EInv, FramesLinked
  <2>3. stack[i] \in Frames  BY <1>1, <1>2, StackFacts
  <2>4. stack[i].obj \in Nat /\ o \in Nat  BY <1>2, <2>3, FrameFacts, HeapFacts
  <2> QED  BY <1>2, <2>2, <2>4
<1>5. Stacked' = Stacked \ {o}
  <2>1. CASE Rest = << >>
    <3>1. stack' = << >> /\ N = 1  BY <1>1, <2>1, WhatFinishes
    <3>2. Len(stack') = 0 /\ 1 .. Len(stack') = {} /\ 1 .. N = {1}  BY <3>1, EmptySeq
    <3>3. Stacked' = {}  BY <3>2 DEF Stacked
    <3> QED  BY <1>2, <1>3, <3>1, <3>2, <3>3
  <2>2. CASE Rest # << >>
    <3>1. PICK g : Replaced(n, g)  BY <1>1, <2>2, WhatFinishes
    <3>2. /\ Len(stack') = n /\ stack'[n].obj = stack[n].obj
          /\ \A i \in 1 .. n - 1 : stack'[i].obj = stack[i].obj
      BY <3>1 DEF Replaced
    <3>3. \A i \in 1 .. n : stack'[i].obj = stack[i].obj
      <4> TAKE i \in 1 .. n
      <4>1. CASE i = n  BY <3>2, <4>1
      <4>2. CASE i # n
        <5>1. i \in 1 .. n - 1  BY <1>1, <1>2, <4>2
        <5> QED  BY <3>2, <5>1
      <4> QED  BY <4>1, <4>2
    <3>4. Stacked' = {stack'[i].obj : i \in 1 .. n}  BY <3>2 DEF Stacked
    <3>5. \A i : i \in 1 .. n <=> i \in 1 .. N /\ i # N  BY <1>1, <1>2
    <3>6. Stacked' = {stack[i].obj : i \in 1 .. n}  BY <3>3, <3>4
    <3>7. \A i \in 1 .. n : stack[i].obj # o  BY <1>4, <3>5
    <3> QED  BY <1>2, <1>3, <3>5, <3>6, <3>7
  <2> QED  BY <2>1, <2>2
<1>6. o \in Stacked  BY <1>2, <1>3
<1>7. Copies' = Copies  BY WhatFinishes
<1> QED  BY <1>1, <1>2, <1>4, <1>5, <1>6, <1>7 DEF Complete

(* A symbol that is finished gets into its context's hands. *)
LEMMA FinishedListed ==
  ASSUME EInv, EInv', Plain, Filling, Chained, Finish, NEW o, o = Top.obj, heap[o].op = "symbol"
  PROVE  Listed(o)'
<1>1. PICK t, N, n : t = Top /\ N = Len(stack) /\ n = N - 1  OBVIOUS
<1>2. /\ TInv /\ stack # << >> /\ program' = program
      /\ t \in Frames /\ t = stack[N] /\ N \in Nat \ {0}
      /\ o \in Copies /\ o \in Objects /\ heap[o].of = t.src /\ heap[o].op = Source(t).op
      /\ PlacesSame
  BY <1>1, EndFacts
<1>3. Rest # << >>
  <2> SUFFICES ASSUME Rest = << >> PROVE FALSE  OBVIOUS
  <2>1. N = 1  BY <1>1, WhatFinishes
  <2>2. t.src = program.fn  BY <1>2, <2>1 DEF Chained
  <2>3. Source(t) = program.node[program.fn]  BY <1>2, <2>2, FrameFacts
  <2>4. program.node[program.fn].op = "context"  BY <1>2, ProgramsAssumption DEF TInv, ProgramOK
  <2> QED  BY <1>2, <2>3, <2>4
<1>4. PICK f : f = stack[n]  OBVIOUS
<1>5. /\ n \in Nat \ {0} /\ f \in Frames /\ FrameIs(f) /\ heap[o].in = f.st
      /\ f.src \in Body /\ t.src \in Inner(f.src)
  BY <1>1, <1>3, <1>4, BelowFacts
<1>6. f.st = f.obj
  <2>1. heap[t.src].op = "symbol"  BY <1>2 DEF Source
  <2>2. heap[f.src].op = "context"  BY <1>2, <1>5, <2>1, OnlyListed
  <2> QED  BY <1>5, <2>2 DEF FrameIs, Source
<1>7. PICK g : Replaced(n, g) /\ g.done = Append(f.done, o)
  BY <1>1, <1>3, <1>4, WhatFinishes
<1>8. Len(stack') = n /\ stack'[n] = g /\ g.obj = f.obj  BY <1>4, <1>7 DEF Replaced
<1>9. o \in Elements(g.done)
  <2>1. f.done \in Seq(Objects) /\ Len(f.done) \in Nat  BY <1>2, <1>5, FrameFacts
  <2>2. Len(g.done) = Len(f.done) + 1 /\ g.done[Len(f.done) + 1] = o
    BY <1>2, <1>7, <2>1, AppendProperties
  <2>3. Len(f.done) + 1 \in 1 .. Len(g.done)  BY <2>1, <2>2
  <2> QED  BY <2>2, <2>3 DEF Elements
<1>10. heap'[o].in = g.obj  BY <1>2, <1>5, <1>6, <1>8 DEF PlacesSame
<1>11. n \in 1 .. Len(stack')  BY <1>5, <1>8
<1>12. g.obj \in Stacked'  BY <1>8, <1>11 DEF Stacked
<1>13. o \in Elements(stack[n].done)'  BY <1>8, <1>9 DEF Elements
<1> QED  BY <1>8, <1>10, <1>11, <1>12, <1>13 DEF Listed

(* What was complete is in the hands of the same context. *)
LEMMA StillListed ==
  ASSUME EInv, EInv', Imaged, Finish, NEW o, o = Top.obj,
         NEW x \in Complete, heap[x].op = "symbol"
  PROVE  Listed(x)'
<1>1. PICK t, N, n, k, b :
        t = Top /\ N = Len(stack) /\ n = N - 1 /\ k = heap[x].in /\ b = Filled(Top)
  OBVIOUS
<1>2. /\ TInv /\ Known /\ stack # << >> /\ N \in Nat \ {0} /\ N \in 1 .. N
      /\ t \in Frames /\ t = stack[N] /\ FrameIs(t) /\ ~Wants(t)
      /\ heap[o].of = t.src /\ heap[o].op = Source(t).op /\ PlacesSame
  BY <1>1, EndFacts
<1>3. x \in Copies /\ x \in Objects /\ Listed(x)  BY <1>2, HeapFacts DEF Complete, Imaged
<1>4. k \in Copies /\ k \in Objects /\ heap[k].op = "context"
  <2>1. heap[x].op # "context"  OBVIOUS
  <2> QED  BY <1>1, <1>2, <1>3, <2>1, HeapFacts DEF EInv, CopyIs
<1>5. heap'[x].in = k  BY <1>1, <1>2, <1>3 DEF PlacesSame
<1>6. /\ o \in Stacked /\ Stacked' = Stacked \ {o}
      /\ \A i \in 1 .. N : i # N => stack[i].obj # o
  BY <1>1, OneMore
<1>7. heap'[o] = b /\ \A y \in Objects : y # o => heap'[y] = heap[y]
  BY <1>1, WhatFinishes
<1>8. CASE k \notin Stacked
  <2>1. k \notin Stacked' /\ k # o  BY <1>6, <1>8
  <2>2. heap'[k] = heap[k]  BY <1>4, <1>7, <2>1
  <2>3. x \in Elements(heap[k].params) \cup Elements(heap[k].locals)
    BY <1>1, <1>3, <1>8 DEF Listed
  <2> QED  BY <1>5, <2>1, <2>2, <2>3 DEF Listed, Elements
<1>9. CASE k \in Stacked
  <2>1. PICK i \in 1 .. N : stack[i].obj = k /\ x \in Elements(stack[i].done)
    BY <1>1, <1>3, <1>9 DEF Listed
  <2>2. CASE i # N
    <3>1. k \in Stacked'  BY <1>6, <1>9, <2>1, <2>2
    <3>2. i \in 1 .. n /\ n \in Nat /\ n # 0  BY <1>1, <1>2, <2>1, <2>2
    <3>3. Rest # << >>
      <4> SUFFICES ASSUME Rest = << >> PROVE FALSE  OBVIOUS
      <4>1. Len(stack) = 1  BY WhatFinishes
      <4> QED  BY <1>1, <3>2, <4>1
    <3>4. PICK f : f = stack[n]  OBVIOUS
    <3>5. PICK g : Replaced(n, g) /\ g.done = Append(f.done, o)
      BY <1>1, <3>3, <3>4, WhatFinishes
    <3>6. /\ Len(stack') = n /\ stack'[n] = g /\ g.obj = f.obj /\ f \in Frames
          /\ \A j \in 1 .. n - 1 : stack'[j] = stack[j]
      BY <3>4, <3>5 DEF Replaced
    <3>7. PICK h : h = stack'[i]  OBVIOUS
    <3>8. h.obj = k /\ x \in Elements(h.done)
      <4>1. CASE i = n
        <5>1. f.done \in Seq(Objects) /\ o \in Objects
          <6>1. o \in Objects  BY EndFacts
          <6> QED  BY <1>2, <3>6, <6>1, FrameFacts
        <5>2. /\ Len(g.done) = Len(f.done) + 1 /\ Len(f.done) \in Nat
              /\ \A j \in 1 .. Len(f.done) : g.done[j] = f.done[j]
          BY <3>5, <5>1, AppendProperties, LenProperties
        <5>3. PICK j \in 1 .. Len(f.done) : f.done[j] = x
          BY <2>1, <3>4, <4>1 DEF Elements
        <5>4. j \in 1 .. Len(g.done) /\ g.done[j] = x  BY <5>2, <5>3
        <5>5. x \in Elements(g.done)  BY <5>4 DEF Elements
        <5> QED  BY <2>1, <3>4, <3>6, <3>7, <4>1, <5>5
      <4>2. CASE i # n
        <5>1. i \in 1 .. n - 1  BY <3>2, <4>2
        <5>2. h = stack[i]  BY <3>6, <3>7, <5>1
        <5> QED  BY <2>1, <5>2
      <4> QED  BY <4>1, <4>2
    <3>9. i \in 1 .. Len(stack')  BY <3>2, <3>6
    <3>10. x \in Elements(stack[i].done)'  BY <3>7, <3>8 DEF Elements
    <3>11. stack'[i].obj = k  BY <3>7, <3>8
    <3> QED  BY <1>5, <3>1, <3>9, <3>10, <3>11 DEF Listed
  <2>3. CASE i = N
    <3>1. k = o  BY <1>1, <1>2, <2>1, <2>3
    <3>2. IsContext(t)  BY <1>2, <1>4, <3>1 DEF IsContext
    <3>3. PICK j \in 1 .. Len(t.done) : t.done[j] = x
      BY <1>2, <2>1, <2>3 DEF Elements
    <3>4. heap[Parts(Source(t))[j]].op = "symbol"  BY <1>2, <3>3 DEF FrameIs
    <3>5. x \in Elements(b.params) \cup Elements(b.locals)
      BY <1>1, <1>2, <3>2, <3>3, <3>4, SymbolsListed
    <3>6. k \notin Stacked' /\ heap'[k] = b  BY <1>6, <1>7, <3>1
    <3> QED  BY <1>5, <3>5, <3>6 DEF Listed, Elements
  <2> QED  BY <2>2, <2>3
<1> QED  BY <1>8, <1>9

LEMMA FinishesRight ==
  ASSUME EInv, EInv', Plain, Filling, Chained, Imaged, Finish
  PROVE  Imaged'
<1>1. PICK o : o = Top.obj  OBVIOUS
<1>2. /\ TInv /\ TInv' /\ Known /\ PlacesSame /\ heap[o].op = Source(Top).op /\ o \in Objects
  BY <1>1, EndFacts
<1>3. Complete' = Complete \cup {o} /\ o \in Stacked  BY <1>1, OneMore
<1>4. \A x \in Objects : x # o => heap'[x] = heap[x]  BY <1>1, WhatFinishes
<1>5. \A x \in Complete : x # o /\ x \in Copies /\ x \in Objects
  BY <1>2, <1>3, HeapFacts DEF Complete
<1>6. \A i \in 1 .. Len(stack') : FrameRight(stack[i])'  BY BelowRight
<1>7. ASSUME NEW x \in Complete', heap'[x].op # "context" PROVE MeansAll(x)'
  <2>1. CASE x \in Complete
    <3>1. x \in Copies /\ heap'[x] = heap[x]  BY <1>4, <1>5, <2>1
    <3>2. MeansAll(x) /\ CopyIs(x) /\ heap[x].op # "context"
      BY <1>7, <2>1, <3>1 DEF Imaged, EInv
    <3> QED  BY <1>2, <3>1, <3>2, AllStays
  <2>2. CASE x = o
    <3>1. ~IsContext(Top)  BY <1>2, <1>7, <2>2 DEF IsContext, PlacesSame
    <3>2. MeansAll(o)'  BY <1>1, <3>1, OperationMeans
    <3> QED  BY <2>2, <3>2
  <2> QED  BY <1>3, <2>1, <2>2
<1>8. ASSUME NEW x \in Complete', heap'[x].op = "symbol" PROVE Listed(x)'
  <2>1. CASE x \in Complete
    <3>1. heap[x].op = "symbol"  BY <1>4, <1>5, <1>8, <2>1
    <3> QED  BY <1>1, <2>1, <3>1, StillListed
  <2>2. CASE x = o
    <3>1. heap[o].op = "symbol"  BY <1>2, <1>8, <2>2 DEF PlacesSame
    <3>2. Listed(o)'  BY <1>1, <3>1, FinishedListed
    <3> QED  BY <2>2, <3>2
  <2> QED  BY <1>3, <2>1, <2>2
<1>9. ASSUME NEW x \in Complete', heap'[x].op = "context" PROVE CapturesRight(x)'
  <2>1. CASE x \in Complete
    <3>1. heap'[x] = heap[x] /\ x \in Objects  BY <1>4, <1>5, <2>1
    <3>2. CapturesRight(x)  BY <1>9, <2>1, <3>1 DEF Imaged
    <3>3. heap'[heap[x].of] = heap[heap[x].of]
      BY <1>2, <3>1, SourcesKept DEF Known, ObjectIs, PlacesSame
    <3> QED  BY <3>1, <3>2, <3>3 DEF CapturesRight
  <2>2. CASE x = o
    <3>1. PICK b, s : b = Filled(Top) /\ s = Top.src  OBVIOUS
    <3>2. /\ stack # << >> /\ ~Wants(Top) /\ Top \in Frames /\ heap[o].of = s
          /\ heap[o].op = heap[s].op
      BY <1>1, <3>1, EndFacts DEF Source
    <3>3. heap[s].op = "context"  BY <1>2, <1>9, <2>2, <3>2 DEF PlacesSame
    <3>4. b.captures = heap[s].captures  BY <3>1, <3>2, <3>3, FilledIs
    <3>5. s \in Originals /\ heap'[s] = heap[s]
      BY <1>2, <3>1, <3>2, FrameFacts, SourcesKept DEF PlacesSame
    <3>6. heap'[o] = b  BY <1>1, <3>1, WhatFinishes
    <3>7. heap'[o].of = s  BY <1>2, <3>2 DEF PlacesSame
    <3> QED  BY <2>2, <3>4, <3>5, <3>6, <3>7 DEF CapturesRight
  <2> QED  BY <1>3, <2>1, <2>2
<1> QED  BY <1>6, <1>7, <1>8, <1>9 DEF Imaged

-----------------------------------------------------------------------------
LEMMA StepRight == ASSUME EInv, EInv', GInv, OInv, MInv, Step PROVE MInv'
<1>1. TInv /\ TInv'  BY DEF EInv, CInv
<1>2. program' = program
  BY DEF Step, Instantiate, Descend, Resolve, Unresolved, ShareCaptures, Finish
<1> SUFFICES ASSUME Plain PROVE Imaged'
  BY <1>2, TreesKept DEF MInv
<1>3. Imaged /\ Chained /\ Filling
  BY DEF MInv, OInv, Plain, GInv
<1>4. CASE Instantiate
  <2>1. Begin(stack, program.fn, None) /\ program.fn \in Originals
    BY <1>1, <1>4, BodyFacts DEF Instantiate
  <2> QED  BY <1>2, <1>3, <2>1, BeginsRight
<1>5. CASE Descend
  <2>1. PICK k, st : k = Wanted(Top) /\ st = Top.st  OBVIOUS
  <2>2. Begin(stack, k, st) /\ stack # << >> /\ Wants(Top)  BY <1>5, <2>1 DEF Descend, Busy
  <2>3. k \in Originals  BY <1>1, <2>1, <2>2, StackFacts, FrameFacts
  <2> QED  BY <1>2, <1>3, <2>2, <2>3, BeginsRight
<1>6. CASE Resolve  BY <1>3, <1>6, ResolvesRight
<1>7. CASE Unresolved  BY <1>3, <1>7, AlwaysFound DEF Unresolved, Busy
<1>8. CASE ShareCaptures  BY <1>3, <1>8, SharesRight
<1>9. CASE Finish  BY <1>3, <1>9, FinishesRight
<1> QED  BY <1>4, <1>5, <1>6, <1>7, <1>8, <1>9 DEF Step

LEMMA StopsRight == ASSUME EInv, EInv', MInv, UNCHANGED vars PROVE MInv'
<1>1. /\ program' = program /\ heap' = heap /\ stack' = stack /\ accessible' = accessible
  BY DEF vars
<1>2. TInv /\ TInv' /\ Known  BY DEF EInv, CInv, Known
<1> SUFFICES ASSUME Plain PROVE Imaged'
  BY <1>1, TreesKept DEF MInv
<1>3. Imaged  BY DEF MInv
<1>4. Objects' = Objects /\ Copies' = Copies /\ Complete' = Complete
  BY <1>1 DEF Complete, Copies, Objects, Originals, Stacked
<1>5. PlacesSame  BY <1>1, <1>4 DEF PlacesSame
<1>6. ASSUME NEW i \in 1 .. Len(stack') PROVE FrameRight(stack[i])'
  <2>1. PICK f : f = stack[i]  OBVIOUS
  <2>2. stack'[i] = f /\ i \in 1 .. Len(stack)  BY <1>1, <2>1
  <2>3. f \in Frames /\ FrameIs(f) /\ FrameRight(f)
    BY <1>2, <1>3, <2>1, <2>2, ElementOfSeq DEF EInv, TInv, Imaged
  <2>4. FrameRight(f)'  BY <1>1, <1>2, <1>5, <2>3, RightStays
  <2> QED  BY <2>2, <2>4
<1>7. CollectsMore  BY <1>1 DEF CollectsMore
<1> QED  BY <1>1, <1>3, <1>4, <1>5, <1>6, <1>7, FinishedStays

LEMMA MeansInvariant == DumpSpec => []MInv
<1>1. DumpInit => MInv
  <2> SUFFICES ASSUME DumpInit PROVE Imaged  BY DEF MInv
  <2>1. stack = << >> /\ heap = program.node  BY DEF DumpInit, Init
  <2>2. 1 .. Len(stack) = {}  BY <2>1, EmptySeq
  <2>3. Complete = {}  BY <2>1 DEF Complete, Copies, Objects, Originals
  <2> QED  BY <2>2, <2>3 DEF Imaged
<1>2. EInv /\ EInv' /\ GInv /\ OInv /\ MInv /\ [DumpNext]_allVars => MInv'
  <2> SUFFICES ASSUME EInv, EInv', GInv, OInv, MInv, [DumpNext]_allVars PROVE MInv'  OBVIOUS
  <2>1. Step \/ UNCHANGED vars
    BY DEF DumpNext, DumpStep, BeginDump, Dependency, PrintLine, EndDump, Done, allVars, vars
  <2> QED  BY <2>1, StepRight, StopsRight
<1>3. DumpSpec => []EInv  BY ObjectsInvariant
<1>4. DumpSpec => []GInv  BY TablesInvariant
<1>5. DumpSpec => []OInv  BY OnceInvariant
<1> QED  BY <1>1, <1>2, <1>3, <1>4, <1>5, PTL DEF DumpSpec

(* What an operand of a complete copy is. *)
LEMMA OperandIs ==
  ASSUME EInv, Imaged, NEW o \in Complete, heap[o].op # "context",
         NEW k, k = heap[o].in, k \in Complete,
         NEW y \in Elements(Parts(heap[o])), NEW s, Means(s, k, y)
  PROVE  y \in Image(s, k)
<1>1. TInv /\ Known  BY DEF EInv, CInv, Known
<1>2. o \in Copies /\ k \in Copies /\ o \in Objects /\ k \in Objects /\ k \notin Stacked
  BY <1>1, HeapFacts DEF Complete
<1>3. heap[k].op = "context"  BY <1>1, <1>2, HeapFacts DEF EInv, CopyIs, None
<1>4. heap[k].captures = heap[heap[k].of].captures  BY <1>3 DEF Imaged, CapturesRight
<1>5. HiddenBy(s, k) = Hid(s, heap[k].of)  BY <1>4 DEF HiddenBy, Hid
<1>6. CASE s \in Captures  BY <1>6 DEF Means, Image
<1>7. CASE s \notin Captures /\ Hid(s, heap[k].of) # {}
  BY <1>5, <1>7 DEF Means, Image
<1>8. CASE s \notin Captures /\ Hid(s, heap[k].of) = {}
  <2>1. y \in Copies /\ heap[y].of = s /\ heap[y].in = k  BY <1>8 DEF Means
  <2>2. heap[y].op = "symbol" => y \in Elements(heap[k].params \o heap[k].locals)
    <3> SUFFICES ASSUME heap[y].op = "symbol"
                 PROVE  y \in Elements(heap[k].params \o heap[k].locals)
      OBVIOUS
    <3>1. y \in Uses(heap[o])
      <4>1. heap[o] \in Expr  BY <1>1, <1>2, HeapFacts
      <4>2. Elements(Parts(heap[o])) = Elements(heap[o].kids) \cup Elements(CalleeOf(heap[o]))
        <5>1. CalleeOf(heap[o]) \in Seq(Nat) /\ heap[o].kids \in Seq(Nat)
          BY <4>1, LinksFacts DEF Expr
        <5>2. Parts(heap[o]) = CalleeOf(heap[o]) \o heap[o].kids  BY DEF Parts
        <5> QED  BY <5>1, <5>2, Joined
      <4> QED  BY <4>2 DEF Uses
    <3>2. y \notin Stacked  BY <1>1, <1>2, <3>1 DEF Known, ObjectIs, Settled
    <3>3. Listed(y)  BY <2>1, <3>2 DEF Complete, Imaged
    <3>4. y \in Elements(heap[k].params) \cup Elements(heap[k].locals)
      BY <1>2, <2>1, <3>3 DEF Listed
    <3>5. heap[k].params \in Seq(Nat) /\ heap[k].locals \in Seq(Nat)
      BY <1>1, <1>2, HeapFacts DEF Expr
    <3> QED  BY <3>4, <3>5, Joined
  <2> QED  BY <1>5, <1>8, <2>1, <2>2 DEF Image
<1> QED  BY <1>6, <1>7, <1>8

(* An instance is the function over again: it has one copy of each          *)
(* expression, and every operand and callee of the copy means what it meant *)
(* in the function, except that a parameter with a capture's name has       *)
(* become the capture.  This is for functions that neither return nor       *)
(* rename a symbol, which are the ones that are copied expression for       *)
(* expression.  (context.cpp 172-182)                                       *)
THEOREM InstancesMeanTheSame == DumpSpec => []MeaningKept
<1>1. EInv /\ GInv /\ OInv /\ MInv => MeaningKept
  <2> SUFFICES ASSUME EInv, GInv, OInv, MInv, Plain
               PROVE  /\ outcome = "running"
                      /\ stack = << >> =>
                           \A n \in Originals :
                             Cardinality({o \in Copies : heap[o].of = n}) =
                               IF n \in Body THEN Len(instances) ELSE 0
                      /\ \A o \in Complete :
                           heap[o].op # "context" /\ heap[o].in \in Complete =>
                             LET e == program.node[heap[o].of]
                                 now == CalleeOf(heap[o]) \o heap[o].kids
                                 was == CalleeOf(e) \o e.kids
                             IN  /\ Len(now) = Len(was)
                                 /\ \A i \in DOMAIN was : now[i] \in Image(was[i], heap[o].in)
    BY DEF MeaningKept
  <2>1. TInv /\ Known /\ Imaged /\ OnceEach  BY DEF EInv, CInv, Known, MInv, OInv
  <2>2. outcome = "running"  BY DEF GInv, Plain
  <2>3. ASSUME stack = << >>, NEW n \in Originals
        PROVE  Cardinality({o \in Copies : heap[o].of = n}) =
                 IF n \in Body THEN Len(instances) ELSE 0
    <3>1. 1 .. Len(stack) = {}  BY <2>3, EmptySeq
    <3>2. Started = {}  BY <3>1 DEF Started
    <3>3. Len(instances) \in Nat  BY <2>1, LenProperties DEF TInv
    <3>4. Cardinality(CopiesOf(n)) = IF n \in Body THEN Len(instances) + 0 ELSE 0
      BY <2>1, <3>2 DEF OnceEach
    <3> QED  BY <3>3, <3>4 DEF CopiesOf
  <2>4. ASSUME NEW o \in Complete, heap[o].op # "context", heap[o].in \in Complete
        PROVE  LET e == program.node[heap[o].of]
                   now == CalleeOf(heap[o]) \o heap[o].kids
                   was == CalleeOf(e) \o e.kids
               IN  /\ Len(now) = Len(was)
                   /\ \A i \in DOMAIN was : now[i] \in Image(was[i], heap[o].in)
    <3>1. PICK e, now, was, k : /\ e = program.node[heap[o].of] /\ k = heap[o].in
                                /\ now = CalleeOf(heap[o]) \o heap[o].kids
                                /\ was = CalleeOf(e) \o e.kids
      OBVIOUS
    <3>2. o \in Objects  BY <2>1, HeapFacts DEF Complete
    <3>3. /\ heap[o].of \in Originals /\ heap[heap[o].of] = e /\ e.op = heap[o].op
      BY <2>1, <3>1, <3>2, SourceFacts DEF Known, ObjectIs
    <3>4. now = Parts(heap[o]) /\ was = Parts(e)  BY <2>4, <3>1, <3>3 DEF Parts
    <3>5. MeansAll(o)  BY <2>1, <2>4 DEF Imaged
    <3>6. Len(now) = Len(was) /\ \A i \in 1 .. Len(was) : Means(was[i], k, now[i])
      BY <3>1, <3>3, <3>4, <3>5 DEF MeansAll
    <3>7. DOMAIN was = 1 .. Len(was)
      <4>1. was \in Seq(Originals)  BY <2>1, <3>3, <3>4, SourceFacts
      <4> QED  BY <4>1, LenProperties
    <3>8. ASSUME NEW i \in DOMAIN was PROVE now[i] \in Image(was[i], k)
      <4>1. PICK s, y : s = was[i] /\ y = now[i]  OBVIOUS
      <4>2. Means(s, k, y) /\ i \in 1 .. Len(now)  BY <3>6, <3>7, <3>8, <4>1
      <4>3. y \in Elements(Parts(heap[o]))  BY <3>4, <4>1, <4>2 DEF Elements
      <4>4. y \in Image(s, k)  BY <2>1, <2>4, <3>1, <4>2, <4>3, OperandIs
      <4> QED  BY <4>1, <4>4
    <3> QED  BY <3>1, <3>6, <3>8
  <2> QED  BY <2>2, <2>3, <2>4
<1> QED  BY <1>1, ObjectsInvariant, TablesInvariant, OnceInvariant, MeansInvariant, PTL
=============================================================================
