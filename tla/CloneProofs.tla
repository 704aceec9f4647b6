---------------------------- MODULE CloneProofs ----------------------------
(***************************************************************************)
(* Proofs about Clone and Dump together, for every set of programs and     *)
(* every number of instances.                                              *)
(*                                                                         *)
(* The objects made since the copy that is under way was begun have the    *)
(* greatest numbers.  The inductive invariant says that the tables of      *)
(* these objects, and what the activations have collected, are among them  *)
(* or captures; older tables are not looked at again.  (CInv)              *)
(*                                                                         *)
(* What the dump follows then has no loops, stays in the context that is   *)
(* dumped, and ends at what is given to it (EInv); the walk is a path, and *)
(* what it has left behind has been explained by the lines above (DInv).   *)
(*                                                                         *)
(* Where no capture is copied, whatever is named has been entered in the   *)
(* table of the context around before it is looked up (GInv).              *)
(***************************************************************************)
EXTENDS Dump, SequenceTheorems, WellFoundedInduction, TLAPS

(* An activation, over objects O, copies C and contexts with a table D. *)
Frame(O, C, D) ==
  [src: Originals, obj: C, st: D, done: Seq(O), shared: BOOLEAN]
Frames == Frame(Objects, Copies, DOMAIN accessible)

ProgramKept ==
  /\ Len(program.node) <= Len(heap)
  /\ \A n \in Originals : heap[n] = program.node[n]

TablesTyped ==
  \A c \in DOMAIN accessible :
    c \in Copies /\ accessible[c] \in [Names -> 0 .. Len(heap)]

TInv ==
  /\ program \in Programs
  /\ heap \in Seq(Expr) /\ ProgramKept
  /\ TablesTyped
  /\ stack \in Seq(Frames)
  /\ instances \in Seq(Copies)
  /\ outcome \in {"running", "thrown"}

(* The copy of the function that is under way, and what may be in it. *)
Root == stack[1].obj
Own == Captures \cup Root .. Len(heap)

RootIsLatest ==
  stack # << >> =>
    heap[Root].in = None /\ \A o \in Objects : o > Root => heap[o].in # None

FramesOwn ==
  \A i \in 1 .. Len(stack) :
    /\ Root <= stack[i].obj /\ Root <= stack[i].st
    /\ \A j \in 1 .. Len(stack[i].done) : stack[i].done[j] \in Own

TablesOwn ==
  stack # << >> =>
    \A c \in DOMAIN accessible : Root <= c =>
      \A n \in Names : accessible[c][n] = None \/ accessible[c][n] \in Own

(* InstancesAreSeparate of every copy, finished or not. *)
Separate ==
  \A o \in Copies : \A k \in Links(o) :
    k \in Captures \/ (k \in Copies /\ Begun(k) = Begun(o))

LinksOwn ==
  stack # << >> => \A o \in Copies : Root <= o => Links(o) \subseteq Own

CInv == TInv /\ RootIsLatest /\ FramesOwn /\ TablesOwn /\ Separate /\ LinksOwn
-----------------------------------------------------------------------------
(* Sequences. *)
LEMMA Monotone ==
  ASSUME NEW S, NEW T, S \subseteq T, NEW s \in Seq(S)
  PROVE  s \in Seq(T)
<1>1. /\ Len(s) \in Nat /\ s \in [1 .. Len(s) -> S]  BY LenProperties
<1>2. s \in [1 .. Len(s) -> T]  BY <1>1
<1> QED  BY <1>1, <1>2, SeqDef

LEMMA OfElements ==
  ASSUME NEW S, NEW n \in Nat, NEW s \in [1 .. n -> S]
  PROVE  s \in Seq(S)
BY SeqDef

LEMMA Typed ==
  ASSUME NEW S, NEW T, NEW s \in Seq(S), \A i \in 1 .. Len(s) : s[i] \in T
  PROVE  s \in Seq(T)
<1>1. Len(s) \in Nat /\ s \in [1 .. Len(s) -> S]  BY LenProperties
<1>2. s \in [1 .. Len(s) -> T]  BY <1>1
<1> QED  BY <1>1, <1>2, SeqDef

LEMMA InElements ==
  ASSUME NEW S, NEW s \in Seq(S)
  PROVE  /\ Elements(s) \subseteq S
         /\ \A i \in 1 .. Len(s) : s[i] \in Elements(s)
         /\ s \in Seq(Elements(s))
<1>1. \A i \in 1 .. Len(s) : s[i] \in S  BY ElementOfSeq
<1>2. /\ Elements(s) \subseteq S
      /\ \A i \in 1 .. Len(s) : s[i] \in Elements(s)
  BY <1>1 DEF Elements
<1> QED  BY <1>2, Typed

LEMMA Joined ==
  ASSUME NEW S, NEW a \in Seq(S), NEW b \in Seq(S)
  PROVE  /\ a \o b \in Seq(S) /\ Len(a \o b) = Len(a) + Len(b)
         /\ Elements(a \o b) = Elements(a) \cup Elements(b)
<1>1. Len(a) \in Nat /\ Len(b) \in Nat  BY LenProperties
<1>2. PICK c : c = a \o b  OBVIOUS
<1>3. /\ c \in Seq(S) /\ Len(c) = Len(a) + Len(b)
      /\ \A i \in 1 .. Len(a) + Len(b) :
           c[i] = IF i <= Len(a) THEN a[i] ELSE b[i - Len(a)]
  BY <1>2, ConcatProperties
<1>4. Elements(c) \subseteq Elements(a) \cup Elements(b)
  <2> SUFFICES ASSUME NEW i \in 1 .. Len(c) PROVE c[i] \in Elements(a) \cup Elements(b)
    BY DEF Elements
  <2>1. CASE i <= Len(a)
    <3>1. i \in 1 .. Len(a) /\ c[i] = a[i]  BY <1>1, <1>3, <2>1
    <3> QED  BY <3>1 DEF Elements
  <2>2. CASE ~(i <= Len(a))
    <3>1. i - Len(a) \in 1 .. Len(b) /\ c[i] = b[i - Len(a)]  BY <1>1, <1>3, <2>2
    <3> QED  BY <3>1 DEF Elements
  <2> QED  BY <2>1, <2>2
<1>5. Elements(a) \subseteq Elements(c)
  <2> SUFFICES ASSUME NEW i \in 1 .. Len(a) PROVE a[i] \in Elements(c)
    BY DEF Elements
  <2>1. i \in 1 .. Len(c) /\ c[i] = a[i]  BY <1>1, <1>3
  <2> QED  BY <2>1 DEF Elements
<1>6. Elements(b) \subseteq Elements(c)
  <2> SUFFICES ASSUME NEW i \in 1 .. Len(b) PROVE b[i] \in Elements(c)
    BY DEF Elements
  <2>1. PICK j : j = i + Len(a)  OBVIOUS
  <2>2. j \in 1 .. Len(c) /\ ~(j <= Len(a)) /\ j - Len(a) = i /\ j \in 1 .. Len(a) + Len(b)
    BY <1>1, <1>3, <2>1
  <2>3. c[j] = b[i]  BY <1>3, <2>2
  <2> QED  BY <2>2, <2>3 DEF Elements
<1> QED  BY <1>2, <1>3, <1>4, <1>5, <1>6

LEMMA Nothing == Elements(<< >>) = {}
<1>1. Len(<< >>) = 0  BY EmptySeq
<1> QED  BY <1>1 DEF Elements

(* What is cut out of a sequence was in it. *)
LEMMA CutOut ==
  ASSUME NEW S, NEW s \in Seq(S), NEW m \in Nat \ {0}, NEW n \in Nat, n <= Len(s)
  PROVE  SubSeq(s, m, n) \in Seq(S) /\ Elements(SubSeq(s, m, n)) \subseteq S
<1>1. Len(s) \in Nat  BY LenProperties
<1>2. \A i \in m .. n : i \in 1 .. Len(s)  BY <1>1
<1>3. \A i \in m .. n : s[i] \in S  BY <1>2, ElementOfSeq
<1>4. m \in Int /\ n \in Int  OBVIOUS
<1>5. SubSeq(s, m, n) \in Seq(S)  BY <1>3, <1>4, SubSeqProperties
<1> QED  BY <1>5, InElements

LEMMA Greatest ==
  ASSUME NEW n \in Nat, NEW at \in SUBSET (1 .. n), at # {}
  PROVE  \E i \in at : \A j \in at : j <= i
<1> DEFINE R == {n - i : i \in at}
<1>1. R \subseteq Nat /\ R # {}
  <2>1. \A i \in at : i \in 1 .. n  OBVIOUS
  <2>2. \A i \in at : n - i \in Nat  BY <2>1
  <2>3. PICK i \in at : TRUE  OBVIOUS
  <2>4. n - i \in R  BY <2>3
  <2>5. R \subseteq Nat  BY <2>2
  <2> QED  BY <2>4, <2>5
<1>2. \A i \in at : n - i \in R  OBVIOUS
<1>3. \A x \in R : \E i \in at : x = n - i  OBVIOUS
<1> HIDE DEF R
<1>4. PICK x \in R : \A y \in R : ~ (<<y, x>> \in OpToRel(<, Nat))
  BY <1>1, NatLessThanWellFounded, WFMin
<1>5. \A y \in R : ~ (y < x)  BY <1>1, <1>4 DEF OpToRel
<1>6. PICK i \in at : x = n - i  BY <1>3
<1>7. \A j \in at : ~ (n - j < n - i)  BY <1>2, <1>5, <1>6
<1>8. \A j \in at : j \in 1 .. n  OBVIOUS
<1> QED  BY <1>7, <1>8
-----------------------------------------------------------------------------
(* The program. *)
LEMMA SourceFacts ==
  ASSUME TInv, NEW n \in Originals
  PROVE  /\ heap[n] = program.node[n] /\ heap[n] \in Expr
         /\ Parts(heap[n]) \in Seq(1 .. n - 1) /\ Parts(heap[n]) \in Seq(Originals)
         /\ Elements(heap[n].captures) \subseteq Captures
         /\ \A s \in Elements(heap[n].captures) : s \in Originals
         /\ heap[n].captures \in Seq(Originals)
         /\ heap[n].op = "symbol" => heap[n].name \in Names
         /\ heap[n].op = "context" => Len(heap[n].kids) = 1
<1>1. ProgramOK(program)  BY ProgramsAssumption DEF TInv
<1>2. PICK e, P : e = program.node[n] /\ P = 1 .. n - 1  OBVIOUS
<1>3. /\ heap[n] = e /\ e \in Expr /\ n \in Nat \ {0} /\ Len(program.node) \in Nat
      /\ n \in 1 .. Len(program.node)
  <2>1. program.node \in Seq(Expr)  BY <1>1 DEF ProgramOK
  <2>2. Len(program.node) \in Nat  BY <2>1, LenProperties
  <2>3. n \in 1 .. Len(program.node)  BY DEF Originals
  <2>4. e \in Expr  BY <1>2, <2>1, <2>3, ElementOfSeq
  <2> QED  BY <1>2, <2>2, <2>3, <2>4 DEF TInv, ProgramKept
<1>4. /\ Elements(e.params \o e.captures \o e.locals \o CalleeOf(e)) \subseteq P
      /\ Elements(e.kids) \subseteq P
      /\ e.op = "symbol" => e.name \in Names
      /\ e.op = "context" => Len(e.kids) = 1
  BY <1>1, <1>2, <1>3 DEF ProgramOK
<1>5. /\ e.params \in Seq(Nat) /\ e.captures \in Seq(Nat) /\ e.locals \in Seq(Nat)
      /\ e.kids \in Seq(Nat) /\ e.callee \in Nat
  BY <1>3 DEF Expr
<1>6. CalleeOf(e) \in Seq(Nat)
  <2>1. CASE e.callee = None  BY <2>1, EmptySeq DEF CalleeOf
  <2>2. CASE e.callee # None
    <3>1. PICK c : c = e.callee  OBVIOUS
    <3>2. << c >> \in Seq(Nat)  BY <1>5, <3>1
    <3> QED  BY <2>2, <3>1, <3>2 DEF CalleeOf
  <2> QED  BY <2>1, <2>2
<1>7. /\ Elements(e.params) \subseteq P /\ Elements(e.captures) \subseteq P
      /\ Elements(e.locals) \subseteq P /\ Elements(CalleeOf(e)) \subseteq P
  <2>1. PICK a : a = e.params \o e.captures  OBVIOUS
  <2>2. a \in Seq(Nat) /\ Elements(a) = Elements(e.params) \cup Elements(e.captures)
    BY <1>5, <2>1, Joined
  <2>3. PICK b : b = a \o e.locals  OBVIOUS
  <2>4. b \in Seq(Nat) /\ Elements(b) = Elements(a) \cup Elements(e.locals)
    BY <1>5, <2>2, <2>3, Joined
  <2>5. Elements(b \o CalleeOf(e)) = Elements(b) \cup Elements(CalleeOf(e))
    BY <1>6, <2>4, Joined
  <2>6. Elements(b \o CalleeOf(e)) \subseteq P  BY <1>4, <2>1, <2>3
  <2> QED  BY <2>2, <2>4, <2>5, <2>6
<1>8. /\ e.params \in Seq(P) /\ e.captures \in Seq(P) /\ e.locals \in Seq(P)
      /\ e.kids \in Seq(P) /\ CalleeOf(e) \in Seq(P)
  <2>1. \A S, s : Elements(s) \subseteq P /\ s \in Seq(S) => s \in Seq(P)
    <3> SUFFICES ASSUME NEW S, NEW s \in Seq(S), Elements(s) \subseteq P PROVE s \in Seq(P)
      OBVIOUS
    <3>1. s \in Seq(Elements(s))  BY InElements
    <3> QED  BY <3>1, Monotone
  <2> QED  BY <1>4, <1>5, <1>6, <1>7, <2>1
<1>9. Parts(e) \in Seq(P)
  <2>1. CASE e.op = "context"
    <3>1. PICK a : a = e.params \o e.locals  OBVIOUS
    <3>2. a \in Seq(P)  BY <1>8, <3>1, Joined
    <3>3. a \o e.kids \in Seq(P)  BY <1>8, <3>2, Joined
    <3> QED  BY <2>1, <3>1, <3>3 DEF Parts
  <2>2. CASE e.op # "context"
    <3>1. CalleeOf(e) \o e.kids \in Seq(P)  BY <1>8, Joined
    <3> QED  BY <2>2, <3>1 DEF Parts
  <2> QED  BY <2>1, <2>2
<1>10. P \subseteq Originals  BY <1>2, <1>3 DEF Originals
<1>11. Elements(e.captures) \subseteq Captures  BY <1>2 DEF Captures
<1>12. Parts(e) \in Seq(Originals) /\ e.captures \in Seq(Originals)
  BY <1>8, <1>9, <1>10, Monotone
<1> QED  BY <1>2, <1>3, <1>4, <1>7, <1>9, <1>10, <1>11, <1>12

LEMMA CaptureFacts ==
  ASSUME TInv
  PROVE  Captures \subseteq Originals /\ Originals \subseteq Objects
<1>1. ASSUME NEW n \in Originals PROVE Elements(program.node[n].captures) \subseteq Originals
  BY SourceFacts
<1>2. Captures \subseteq Originals  BY <1>1 DEF Captures
<1>3. Len(heap) \in Nat /\ Len(program.node) \in Nat
  <2>1. ProgramOK(program)  BY ProgramsAssumption DEF TInv
  <2>2. program.node \in Seq(Expr)  BY <2>1 DEF ProgramOK
  <2> QED  BY <2>2, LenProperties DEF TInv
<1> QED  BY <1>2, <1>3 DEF Originals, Objects, TInv, ProgramKept

LEMMA HeapFacts ==
  ASSUME TInv
  PROVE  /\ Len(heap) \in Nat /\ Len(program.node) \in Nat
         /\ Len(program.node) <= Len(heap)
         /\ Objects = 1 .. Len(heap) /\ Originals = 1 .. Len(program.node)
         /\ \A o : o \in Copies <=> o \in Nat /\ Len(program.node) < o /\ o <= Len(heap)
         /\ \A o \in Objects : heap[o] \in Expr
         /\ Originals \subseteq Objects /\ Copies \subseteq Objects
<1>1. ProgramOK(program)  BY ProgramsAssumption DEF TInv
<1>2. program.node \in Seq(Expr)  BY <1>1 DEF ProgramOK
<1>3. Len(heap) \in Nat /\ Len(program.node) \in Nat  BY <1>2, LenProperties DEF TInv
<1>4. \A o \in Objects : heap[o] \in Expr  BY ElementOfSeq DEF TInv, Objects
<1> QED  BY <1>3, <1>4 DEF TInv, ProgramKept, Copies, Objects, Originals
-----------------------------------------------------------------------------
(* The stack. *)
LEMMA StackFacts ==
  ASSUME TInv, stack # << >>
  PROVE  /\ Len(stack) \in Nat \ {0}
         /\ Top \in Frames /\ Top = stack[Len(stack)]
         /\ Rest \in Seq(Frames) /\ Len(Rest) = Len(stack) - 1
         /\ \A i \in 1 .. Len(stack) - 1 : Rest[i] = stack[i]
         /\ \A i \in 1 .. Len(stack) : stack[i] \in Frames
<1>1. stack \in Seq(Frames) /\ Len(stack) \in Nat \ {0}
  BY EmptySeq, LenProperties DEF TInv
<1>2. \A i \in 1 .. Len(stack) : stack[i] \in Frames  BY <1>1, ElementOfSeq
<1>3. PICK n : n = Len(stack) - 1  OBVIOUS
<1>4. n \in Nat /\ n <= Len(stack) /\ 1 \in Int /\ n \in Int /\ \A i \in 1 .. n : i \in 1 .. Len(stack)
  BY <1>1, <1>3
<1>5. /\ SubSeq(stack, 1, n) \in Seq(Frames)
      /\ Len(SubSeq(stack, 1, n)) = IF 1 <= n THEN n - 1 + 1 ELSE 0
      /\ \A i \in 1 .. n - 1 + 1 : SubSeq(stack, 1, n)[i] = stack[1 + i - 1]
  BY <1>2, <1>4, SubSeqProperties
<1>6. Rest = SubSeq(stack, 1, n)  BY <1>3 DEF Rest
<1>7. /\ Rest \in Seq(Frames) /\ Len(Rest) = n
      /\ \A i \in 1 .. n : Rest[i] = stack[i]
  BY <1>4, <1>5, <1>6
<1> QED  BY <1>1, <1>2, <1>3, <1>7 DEF Top

(* What the activation f copies. *)
LEMMA FrameFacts ==
  ASSUME TInv, NEW f \in Frames
  PROVE  /\ f.src \in Originals /\ f.obj \in Copies /\ f.st \in DOMAIN accessible
         /\ f.done \in Seq(Objects) /\ Len(f.done) \in Nat
         /\ Source(f) = program.node[f.src] /\ Source(f) \in Expr
         /\ Parts(Source(f)) \in Seq(Originals) /\ Len(Parts(Source(f))) \in Nat
         /\ Wants(f) => Wanted(f) \in Originals
<1>1. /\ f.src \in Originals /\ f.obj \in Copies /\ f.st \in DOMAIN accessible
      /\ f.done \in Seq(Objects)
  BY DEF Frames, Frame
<1>2. /\ Source(f) = program.node[f.src] /\ Source(f) \in Expr
      /\ Parts(Source(f)) \in Seq(Originals)
  BY <1>1, SourceFacts DEF Source
<1>3. Len(f.done) \in Nat /\ Len(Parts(Source(f))) \in Nat
  BY <1>1, <1>2, LenProperties
<1>4. ASSUME Wants(f) PROVE Wanted(f) \in Originals
  <2>1. Len(f.done) + 1 \in 1 .. Len(Parts(Source(f)))  BY <1>3, <1>4 DEF Wants
  <2> QED  BY <1>2, <2>1, ElementOfSeq DEF Wanted
<1> QED  BY <1>1, <1>2, <1>3, <1>4

(* Objects are only added, and none comes into another instance. *)
Grows ==
  /\ program' = program /\ Len(heap') \in Nat /\ Len(heap) <= Len(heap')
  /\ DOMAIN accessible \subseteq DOMAIN accessible'
  /\ \A o \in Objects : heap'[o].in = heap[o].in

LEMMA Growth ==
  ASSUME TInv, Grows
  PROVE  /\ Originals' = Originals /\ Captures' = Captures
         /\ Objects \subseteq Objects' /\ Copies \subseteq Copies'
         /\ Frames \subseteq Frames'
         /\ Seq(Frames) \subseteq Seq(Frames') /\ Seq(Copies) \subseteq Seq(Copies')
<1>1. Originals' = Originals /\ Captures' = Captures
  BY DEF Grows, Originals, Captures
<1>2. Objects \subseteq Objects'  BY HeapFacts DEF Grows, Objects
<1>3. Copies \subseteq Copies'  BY <1>1, <1>2 DEF Copies
<1>4. Seq(Objects) \subseteq Seq(Objects')  BY <1>2, Monotone
<1>5. Frames \subseteq Frames'  BY <1>1, <1>3, <1>4 DEF Grows, Frames, Frame
<1> QED  BY <1>1, <1>2, <1>3, <1>5, Monotone

LEMMA BegunStays ==
  ASSUME TInv, Grows, NEW o \in Objects
  PROVE  Begun(o)' = Begun(o)
<1>1. \A r : r \in Copies /\ r <= o <=> r \in Copies' /\ r <= o
  <2>1. o \in 1 .. Len(heap)  BY DEF Objects
  <2>2. \A r : r \in Copies <=> r \in Nat /\ Len(program.node) < r /\ r <= Len(heap)
    BY HeapFacts
  <2>3. \A r : r \in Copies' <=> r \in Nat /\ Len(program.node) < r /\ r <= Len(heap')
    BY HeapFacts DEF Copies, Objects, Originals, Grows
  <2> QED  BY <2>1, <2>2, <2>3, HeapFacts DEF Grows
<1>2. \A r \in Copies : heap'[r].in = heap[r].in  BY HeapFacts DEF Grows
<1> QED  BY <1>1, <1>2 DEF Begun

(* All objects of the copy that is under way are of one instance. *)
LEMMA OneInstance ==
  ASSUME TInv, RootIsLatest, stack # << >>,
         NEW o \in Copies, NEW k \in Copies, Root <= o, Root <= k
  PROVE  Begun(k) = Begun(o)
<1>1. Root \in Nat
  <2>1. 1 \in 1 .. Len(stack)  BY StackFacts
  <2>2. stack[1] \in Frames  BY <2>1, StackFacts
  <2> QED  BY <2>2, FrameFacts, HeapFacts DEF Root
<1>2. \A r \in Copies : heap[r].in = None => r <= Root
  <2>1. \A r \in Copies : r \in Objects /\ r \in Nat  BY HeapFacts
  <2> QED  BY <1>1, <2>1 DEF RootIsLatest
<1>3. \A r \in Copies : r \in Nat  BY HeapFacts
<1>4. \A r \in Copies : heap[r].in = None => r <= o /\ r <= k
  BY <1>1, <1>2, <1>3
<1> QED  BY <1>4 DEF Begun

LEMMA RootFacts ==
  ASSUME TInv, stack # << >>
  PROVE  /\ Root \in Copies /\ Root \in Nat
         /\ \A o \in Own : o \in Objects
         /\ \A o \in Own : o \in Captures \/ (o \in Copies /\ Root <= o)
<1>1. Root \in Copies
  <2>1. 1 \in 1 .. Len(stack)  BY StackFacts
  <2>2. stack[1] \in Frames  BY <2>1, StackFacts
  <2> QED  BY <2>2, FrameFacts DEF Root
<1>2. Root \in Nat /\ Len(program.node) < Root  BY <1>1, HeapFacts
<1>3. \A o \in Root .. Len(heap) : o \in Copies /\ Root <= o /\ o \in Objects
  BY <1>2, HeapFacts
<1> QED  BY <1>1, <1>2, <1>3, CaptureFacts DEF Own
-----------------------------------------------------------------------------
(* Expressions. *)
LinksOf(e) == Elements(CalleeOf(e) \o e.kids \o e.params \o e.locals)

LEMMA LinksFacts ==
  ASSUME NEW e \in Expr
  PROVE  /\ CalleeOf(e) \in Seq(Nat)
         /\ Elements(CalleeOf(e)) = IF e.callee = None THEN {} ELSE {e.callee}
         /\ LinksOf(e) = Elements(CalleeOf(e)) \cup Elements(e.kids)
                           \cup Elements(e.params) \cup Elements(e.locals)
<1>1. /\ e.params \in Seq(Nat) /\ e.locals \in Seq(Nat)
      /\ e.kids \in Seq(Nat) /\ e.callee \in Nat
  BY DEF Expr
<1>2. /\ CalleeOf(e) \in Seq(Nat)
      /\ Elements(CalleeOf(e)) = IF e.callee = None THEN {} ELSE {e.callee}
  <2>1. CASE e.callee = None  BY <2>1, EmptySeq, Nothing DEF CalleeOf
  <2>2. CASE e.callee # None
    <3>1. PICK c : c = e.callee  OBVIOUS
    <3>2. << c >> \in Seq(Nat) /\ Len(<< c >>) = 1 /\ << c >>[1] = c  BY <1>1, <3>1
    <3>3. Elements(<< c >>) = {c}
      <4>1. \A i \in 1 .. Len(<< c >>) : i = 1  BY <3>2
      <4>2. 1 \in 1 .. Len(<< c >>)  BY <3>2
      <4> QED  BY <3>2, <4>1, <4>2 DEF Elements
    <3> QED  BY <2>2, <3>1, <3>2, <3>3 DEF CalleeOf
  <2> QED  BY <2>1, <2>2
<1>3. PICK a : a = CalleeOf(e) \o e.kids  OBVIOUS
<1>4. a \in Seq(Nat) /\ Elements(a) = Elements(CalleeOf(e)) \cup Elements(e.kids)
  BY <1>1, <1>2, <1>3, Joined
<1>5. PICK b : b = a \o e.params  OBVIOUS
<1>6. b \in Seq(Nat) /\ Elements(b) = Elements(a) \cup Elements(e.params)
  BY <1>1, <1>4, <1>5, Joined
<1>7. Elements(b \o e.locals) = Elements(b) \cup Elements(e.locals)
  BY <1>1, <1>6, Joined
<1> QED  BY <1>2, <1>3, <1>4, <1>5, <1>6, <1>7 DEF LinksOf

LEMMA BlankFacts ==
  ASSUME TInv, NEW src \in Originals, NEW st \in Nat
  PROVE  /\ Blank(src, st) \in Expr /\ Blank(src, st).in = st
         /\ LinksOf(Blank(src, st)) = {}
<1>1. PICK e : e = heap[src]  OBVIOUS
<1>2. e \in Expr  BY <1>1, SourceFacts
<1>3. PICK z : z = << >>  OBVIOUS
<1>4. z \in Seq(Nat)  BY <1>3, EmptySeq
<1>5. PICK b : b = [e EXCEPT !.kids = z, !.callee = None, !.params = z,
                             !.captures = z, !.locals = z, !.in = st]
  OBVIOUS
<1>6. b = Blank(src, st)  BY <1>1, <1>3, <1>5 DEF Blank
<1>7. b \in Expr /\ b.kids = z /\ b.callee = None /\ b.params = z /\ b.locals = z /\ b.in = st
  BY <1>2, <1>4, <1>5 DEF Expr, None
<1>8. LinksOf(b) = {}  BY <1>3, <1>7, LinksFacts, Nothing
<1> QED  BY <1>6, <1>7, <1>8
-----------------------------------------------------------------------------
(* A copy is begun: of the whole function, or of a part of it. *)
LEMMA BeginStays ==
  ASSUME CInv, NEW src \in Originals, NEW st \in Nat, Begin(stack, src, st),
         \/ stack = << >> /\ st = None /\ heap[src].op = "context"
         \/ stack # << >> /\ st \in DOMAIN accessible /\ Root <= st,
         program' = program, instances' = instances, outcome' = outcome
  PROVE  CInv'
<1>1. PICK b, n, own, g :
        /\ b = Blank(src, st) /\ n = NewObj
        /\ own = IF heap[src].op = "context" THEN n ELSE st
        /\ g = [src |-> src, obj |-> n, st |-> own, done |-> << >>, shared |-> FALSE]
  OBVIOUS
<1>2. TInv  BY DEF CInv
<1>3. b \in Expr /\ b.in = st /\ LinksOf(b) = {}  BY <1>1, <1>2, BlankFacts
<1>4. /\ heap' = Append(heap, b) /\ stack' = Append(stack, g)
      /\ accessible' = IF heap[src].op = "context"
                       THEN [c \in DOMAIN accessible \cup {n} |->
                               IF c = n THEN NoNames ELSE accessible[c]]
                       ELSE accessible
  BY <1>1 DEF Begin, Activation
<1>5. /\ Len(heap) \in Nat /\ n = Len(heap) + 1 /\ heap' \in Seq(Expr) /\ Len(heap') = n
      /\ heap'[n] = b /\ \A o \in Objects : heap'[o] = heap[o]
  <2>1. heap \in Seq(Expr) /\ Objects = 1 .. Len(heap) /\ Len(heap) \in Nat
    BY <1>2, HeapFacts DEF TInv
  <2>2. /\ Append(heap, b) \in Seq(Expr) /\ Len(Append(heap, b)) = Len(heap) + 1
        /\ \A o \in 1 .. Len(heap) : Append(heap, b)[o] = heap[o]
        /\ Append(heap, b)[Len(heap) + 1] = b
    BY <1>3, <2>1, AppendProperties
  <2> QED  BY <1>1, <1>4, <2>1, <2>2 DEF NewObj
<1>6. \A c : c \in DOMAIN accessible' <=>
               c \in DOMAIN accessible \/ (c = n /\ heap[src].op = "context")
  BY <1>4
<1>7. \A c \in DOMAIN accessible : c \in Copies  BY <1>2 DEF TInv, TablesTyped
<1>8. n \notin DOMAIN accessible /\ n \notin Objects
  BY <1>2, <1>5, <1>7, HeapFacts
<1>9. /\ \A c \in DOMAIN accessible : accessible'[c] = accessible[c]
      /\ heap[src].op = "context" => accessible'[n] = NoNames
  BY <1>4, <1>8
<1>10. Grows  BY <1>2, <1>5, <1>6, HeapFacts DEF Grows
<1>11. /\ Originals' = Originals /\ Captures' = Captures
       /\ Objects \subseteq Objects' /\ Copies \subseteq Copies'
       /\ Frames \subseteq Frames'
       /\ Seq(Frames) \subseteq Seq(Frames') /\ Seq(Copies) \subseteq Seq(Copies')
  BY <1>2, <1>10, Growth
<1>12. /\ n \in Copies' /\ n \in Objects'
       /\ \A o \in Objects' : o \in Objects \/ o = n
       /\ \A o \in Copies' : o \in Copies \/ o = n
       /\ \A o \in Objects : o \in Nat /\ o < n
  <2>1. Objects' = 1 .. n /\ Objects = 1 .. Len(heap) /\ Originals = 1 .. Len(program.node)
    BY <1>2, <1>5, HeapFacts DEF Objects
  <2>2. Len(program.node) \in Nat /\ Len(program.node) < n  BY <1>2, <1>5, HeapFacts
  <2> QED  BY <1>5, <1>11, <2>1, <2>2 DEF Copies
<1>13. own \in DOMAIN accessible' /\ own \in Nat
  <2>1. CASE heap[src].op = "context"  BY <1>1, <1>5, <1>6, <2>1
  <2>2. CASE heap[src].op # "context"  BY <1>1, <1>6, <2>2
  <2> QED  BY <2>1, <2>2
<1>14. g \in Frames'
  <2>1. << >> \in Seq(Objects')  BY EmptySeq
  <2> QED  BY <1>1, <1>11, <1>12, <1>13, <2>1 DEF Frames, Frame
<1>15. /\ stack' \in Seq(Frames') /\ Len(stack) \in Nat /\ Len(stack') = Len(stack) + 1
       /\ stack'[Len(stack) + 1] = g /\ \A i \in 1 .. Len(stack) : stack'[i] = stack[i]
  <2>1. stack \in Seq(Frames')  BY <1>2, <1>11 DEF TInv
  <2>2. PICK F : F = Frames'  OBVIOUS
  <2>3. stack \in Seq(F) /\ g \in F  BY <1>14, <2>1, <2>2
  <2>4. /\ Append(stack, g) \in Seq(F) /\ Len(Append(stack, g)) = Len(stack) + 1
        /\ \A i \in 1 .. Len(stack) : Append(stack, g)[i] = stack[i]
        /\ Append(stack, g)[Len(stack) + 1] = g
    BY <2>3, AppendProperties
  <2>5. Len(stack) \in Nat  BY <2>3, LenProperties
  <2> QED  BY <1>4, <2>2, <2>4, <2>5
<1>16. TablesTyped'
  <2> SUFFICES ASSUME NEW c \in DOMAIN accessible'
               PROVE  c \in Copies' /\ accessible'[c] \in [Names -> 0 .. Len(heap')]
    BY DEF TablesTyped
  <2>1. CASE c \in DOMAIN accessible
    <3>1. c \in Copies /\ accessible[c] \in [Names -> 0 .. Len(heap)]
      BY <1>2, <2>1 DEF TInv, TablesTyped
    <3>2. 0 .. Len(heap) \subseteq 0 .. Len(heap')  BY <1>5
    <3>3. accessible[c] \in [Names -> 0 .. Len(heap')]  BY <3>1, <3>2
    <3> QED  BY <1>9, <1>11, <2>1, <3>1, <3>3
  <2>2. CASE c = n /\ heap[src].op = "context"
    <3>1. 0 \in 0 .. Len(heap')  BY <1>5
    <3>2. NoNames \in [Names -> 0 .. Len(heap')]  BY <3>1 DEF NoNames, None
    <3> QED  BY <1>9, <1>12, <2>2, <3>2
  <2> QED  BY <1>6, <2>1, <2>2
<1>17. TInv'
  <2>1. ProgramKept'
    <3>1. \A o \in Originals : o \in Objects /\ heap'[o] = program'.node[o]
      BY <1>2, <1>5, HeapFacts DEF TInv, ProgramKept
    <3>2. Len(program'.node) <= Len(heap')  BY <1>2, <1>5, HeapFacts
    <3> QED  BY <1>11, <3>1, <3>2 DEF ProgramKept
  <2> QED  BY <1>2, <1>5, <1>11, <1>15, <1>16, <2>1 DEF TInv
<1>18. /\ stack = << >> => Root' = n
       /\ stack # << >> => Root' = Root
       /\ Root' \in Nat /\ Root' <= n /\ Root' <= own
  <2>1. CASE stack = << >>
    <3>1. Len(stack) = 0  BY <2>1, EmptySeq
    <3>2. Root' = n  BY <1>1, <1>15, <3>1 DEF Root
    <3>3. own = n  BY <1>1, <2>1
    <3> QED  BY <1>5, <2>1, <3>2, <3>3
  <2>2. CASE stack # << >>
    <3>1. 1 \in 1 .. Len(stack)  BY <1>2, <2>2, StackFacts
    <3>2. Root' = Root  BY <1>15, <3>1 DEF Root
    <3>3. Root \in Nat /\ Root \in Copies  BY <1>2, <2>2, RootFacts
    <3>4. Root <= n
      <4>1. Root \in Objects  BY <1>2, <3>3, HeapFacts
      <4>2. Root < n /\ n \in Nat  BY <1>5, <1>12, <4>1
      <4> QED  BY <3>3, <4>2
    <3>5. Root <= st  BY <2>2
    <3> QED  BY <1>1, <2>2, <3>2, <3>3, <3>4, <3>5
  <2> QED  BY <2>1, <2>2
<1>19. RootIsLatest'
  <2>1. CASE stack = << >>
    <3>1. heap'[Root'].in = None  BY <1>3, <1>5, <1>18, <2>1
    <3>2. \A o \in Objects' : ~(o > Root')  BY <1>5, <1>12, <1>18, <2>1
    <3> QED  BY <3>1, <3>2 DEF RootIsLatest
  <2>2. CASE stack # << >>
    <3>1. Root \in Objects /\ heap[Root].in = None
      BY <1>2, <2>2, RootFacts, HeapFacts DEF CInv, RootIsLatest
    <3>2. st # None
      <4>1. st \in Copies  BY <1>7, <2>2
      <4> QED  BY <1>2, <4>1, HeapFacts DEF None
    <3>3. \A o \in Objects' : o > Root => heap'[o].in # None
      <4>1. \A o \in Objects : o > Root => heap[o].in # None
        BY <2>2 DEF CInv, RootIsLatest
      <4> QED  BY <1>3, <1>5, <1>12, <3>2, <4>1
    <3> QED  BY <1>5, <1>18, <2>2, <3>1, <3>3 DEF RootIsLatest
  <2> QED  BY <2>1, <2>2
<1>20. stack # << >> => Own \subseteq Own'
  BY <1>5, <1>11, <1>18 DEF Own
<1>21. FramesOwn'
  <2> SUFFICES ASSUME NEW i \in 1 .. Len(stack')
               PROVE  /\ Root' <= stack'[i].obj /\ Root' <= stack'[i].st
                      /\ \A j \in 1 .. Len(stack'[i].done) : stack'[i].done[j] \in Own'
    BY DEF FramesOwn
  <2>1. CASE i \in 1 .. Len(stack)
    <3>1. stack # << >>
      <4>1. Len(stack) # 0  BY <1>15, <2>1
      <4> QED  BY <4>1, EmptySeq
    <3>2. /\ Root <= stack[i].obj /\ Root <= stack[i].st
          /\ \A j \in 1 .. Len(stack[i].done) : stack[i].done[j] \in Own
      BY <2>1 DEF CInv, FramesOwn
    <3> QED  BY <1>15, <1>18, <1>20, <2>1, <3>1, <3>2
  <2>2. CASE i = Len(stack) + 1
    <3>1. stack'[i] = g  BY <1>15, <2>2
    <3>2. Len(g.done) = 0  BY <1>1, EmptySeq
    <3> QED  BY <1>1, <1>18, <3>1, <3>2
  <2> QED  BY <1>15, <2>1, <2>2
<1>22. TablesOwn'
  <2> SUFFICES ASSUME NEW c \in DOMAIN accessible', Root' <= c, NEW x \in Names
               PROVE  accessible'[c][x] = None \/ accessible'[c][x] \in Own'
    BY DEF TablesOwn
  <2>1. CASE c = n /\ heap[src].op = "context"  BY <1>9, <2>1 DEF NoNames
  <2>2. CASE c \in DOMAIN accessible
    <3>1. c \in Nat /\ c < n  BY <1>2, <1>7, <1>12, <2>2, HeapFacts
    <3>2. stack # << >>  BY <1>5, <1>18, <3>1
    <3>3. Root <= c  BY <1>18, <3>2
    <3>4. accessible[c][x] = None \/ accessible[c][x] \in Own
      BY <2>2, <3>2, <3>3 DEF CInv, TablesOwn
    <3> QED  BY <1>9, <1>20, <2>2, <3>2, <3>4
  <2> QED  BY <1>6, <2>1, <2>2
<1>23. Separate'
  <2> SUFFICES ASSUME NEW o \in Copies', NEW k \in Links(o)'
               PROVE  k \in Captures' \/ (k \in Copies' /\ Begun(k)' = Begun(o)')
    BY DEF Separate
  <2>1. CASE o = n
    <3>1. Links(o)' = LinksOf(heap'[o])  BY DEF Links, LinksOf, CalleeOf
    <3> QED  BY <1>3, <1>5, <2>1, <3>1
  <2>2. CASE o \in Copies
    <3>1. o \in Objects /\ heap'[o] = heap[o]  BY <1>2, <1>5, <2>2, HeapFacts
    <3>2. k \in Links(o)  BY <3>1 DEF Links, CalleeOf
    <3>3. k \in Captures \/ (k \in Copies /\ Begun(k) = Begun(o))
      BY <2>2, <3>2 DEF CInv, Separate
    <3>4. CASE k \in Captures  BY <1>11, <3>4
    <3>5. CASE k \in Copies /\ Begun(k) = Begun(o)
      <4>1. k \in Objects  BY <1>2, <3>5, HeapFacts
      <4>2. Begun(k)' = Begun(k) /\ Begun(o)' = Begun(o)
        BY <1>2, <1>10, <3>1, <4>1, BegunStays
      <4> QED  BY <1>11, <3>5, <4>2
    <3> QED  BY <3>3, <3>4, <3>5
  <2> QED  BY <1>12, <2>1, <2>2
<1>24. LinksOwn'
  <2> SUFFICES ASSUME NEW o \in Copies', Root' <= o PROVE Links(o)' \subseteq Own'
    BY DEF LinksOwn
  <2>1. Links(o)' = LinksOf(heap'[o])  BY DEF Links, LinksOf, CalleeOf
  <2>2. CASE o = n  BY <1>3, <1>5, <2>1, <2>2
  <2>3. CASE o \in Copies
    <3>1. o \in Objects /\ heap'[o] = heap[o] /\ o < n /\ o \in Nat
      BY <1>2, <1>5, <1>12, <2>3, HeapFacts
    <3>2. stack # << >>  BY <1>5, <1>18, <3>1
    <3>3. Root <= o  BY <1>18, <3>2
    <3>4. Links(o) \subseteq Own  BY <2>3, <3>2, <3>3 DEF CInv, LinksOwn
    <3>5. Links(o) = LinksOf(heap[o])  BY DEF Links, LinksOf
    <3> QED  BY <1>20, <2>1, <3>1, <3>2, <3>4, <3>5
  <2> QED  BY <1>12, <2>2, <2>3
<1> QED  BY <1>17, <1>19, <1>21, <1>22, <1>23, <1>24 DEF CInv
-----------------------------------------------------------------------------
(* Names. *)
LEMMA EnterFacts ==
  ASSUME NEW S, NEW objs \in Seq(S), NEW table, NEW names, NEW x \in Names
  PROVE  \/ Enter(table, names, objs)[x] = table[x]
         \/ Enter(table, names, objs)[x] \in S
<1> DEFINE at == {i \in DOMAIN objs : names[i] = x}
           i0 == CHOOSE i \in at : \A j \in at : j <= i
<1>1. Enter(table, names, objs)[x] = IF at = {} THEN table[x] ELSE objs[i0]
  BY DEF Enter
<1>2. Len(objs) \in Nat /\ DOMAIN objs = 1 .. Len(objs)  BY LenProperties
<1>3. ASSUME at # {} PROVE i0 \in 1 .. Len(objs)
  <2>1. at \in SUBSET (1 .. Len(objs))  BY <1>2
  <2> HIDE DEF at
  <2>2. \E i \in at : \A j \in at : j <= i  BY <1>2, <1>3, <2>1, Greatest
  <2>3. i0 \in at  BY <2>2
  <2> QED  BY <2>1, <2>3
<1> HIDE DEF at, i0
<1>4. at # {} => objs[i0] \in S  BY <1>3, ElementOfSeq
<1> QED  BY <1>1, <1>4

(* Tables get names of captures and of the copy that is under way. *)
LEMMA Entered ==
  ASSUME TInv, TablesOwn, stack # << >>, NEW o, NEW names, NEW objs \in Seq(Own)
  PROVE  LET t == [accessible EXCEPT ![o] = Enter(@, names, objs)]
         IN  /\ DOMAIN t = DOMAIN accessible
             /\ \A c \in DOMAIN accessible :
                  /\ t[c] \in [Names -> 0 .. Len(heap)]
                  /\ Root <= c => \A x \in Names : t[c][x] = None \/ t[c][x] \in Own
<1>1. PICK t : t = [accessible EXCEPT ![o] = Enter(@, names, objs)]  OBVIOUS
<1>2. DOMAIN t = DOMAIN accessible  BY <1>1
<1>3. \A s \in Own : s \in 0 .. Len(heap)
  <2>1. \A s \in Own : s \in 1 .. Len(heap) /\ Len(heap) \in Nat  BY RootFacts, HeapFacts
  <2> QED  BY <2>1
<1>4. ASSUME NEW c \in DOMAIN accessible
      PROVE  /\ t[c] \in [Names -> 0 .. Len(heap)]
             /\ Root <= c => \A x \in Names : t[c][x] = None \/ t[c][x] \in Own
  <2>1. PICK table, e : table = accessible[c] /\ e = Enter(table, names, objs)  OBVIOUS
  <2>2. table \in [Names -> 0 .. Len(heap)]  BY <2>1 DEF TInv, TablesTyped
  <2>3. Root <= c => \A x \in Names : table[x] = None \/ table[x] \in Own
    BY <2>1 DEF TablesOwn
  <2>4. t[c] = table \/ t[c] = e  BY <1>1, <2>1
  <2>5. \A x \in Names : e[x] = table[x] \/ e[x] \in Own  BY <2>1, EnterFacts
  <2>6. e \in [Names -> 0 .. Len(heap)]
    <3>1. \A x \in Names : e[x] \in 0 .. Len(heap)  BY <1>3, <2>2, <2>5
    <3>2. e = [x \in Names |-> e[x]]  BY <2>1 DEF Enter
    <3> QED  BY <3>1, <3>2
  <2> QED  BY <2>2, <2>3, <2>4, <2>5, <2>6
<1> QED  BY <1>1, <1>2, <1>4

(* A step inside the copy that is under way, or its end. *)
LEMMA PartStays ==
  ASSUME CInv, stack # << >>, program' = program, instances' \in Seq(Copies),
         outcome' \in {"running", "thrown"},
         heap' \in Seq(Expr), Len(heap') = Len(heap),
         \A o \in Objects :
           \/ heap'[o] = heap[o]
           \/ /\ o \in Copies /\ Root <= o /\ heap'[o].in = heap[o].in
              /\ LinksOf(heap'[o]) \subseteq Own,
         DOMAIN accessible' = DOMAIN accessible,
         \A c \in DOMAIN accessible :
           /\ accessible'[c] \in [Names -> 0 .. Len(heap)]
           /\ Root <= c => \A x \in Names : accessible'[c][x] = None \/ accessible'[c][x] \in Own,
         stack' \in Seq(Frames), Len(stack') <= Len(stack),
         \A i \in 1 .. Len(stack') :
           /\ stack'[i].obj = stack[i].obj /\ stack'[i].st = stack[i].st
           /\ \A j \in 1 .. Len(stack'[i].done) : stack'[i].done[j] \in Own
  PROVE  CInv'
<1>1. TInv /\ Len(heap) \in Nat  BY HeapFacts DEF CInv
<1>2. \A o \in Objects : heap'[o].in = heap[o].in  OBVIOUS
<1>3. Grows  BY <1>1, <1>2 DEF Grows
<1>4. /\ Originals' = Originals /\ Objects' = Objects /\ Copies' = Copies
      /\ Captures' = Captures /\ Frames' = Frames
  <2>1. Originals' = Originals /\ Objects' = Objects /\ Captures' = Captures
    BY DEF Originals, Objects, Captures
  <2>2. Copies' = Copies  BY <2>1 DEF Copies
  <2> QED  BY <2>1, <2>2 DEF Frames, Frame
<1>5. TInv'
  <2>1. TablesTyped'
    BY <1>1, <1>4 DEF TInv, TablesTyped
  <2>2. ProgramKept'
    <3>1. \A n \in Originals : n \in Objects /\ n \notin Copies
      BY <1>1, HeapFacts DEF Copies
    <3>2. \A n \in Originals : heap'[n] = heap[n] /\ heap[n] = program.node[n]
      BY <1>1, <3>1 DEF TInv, ProgramKept
    <3>3. Len(program'.node) <= Len(heap')  BY <1>1 DEF TInv, ProgramKept
    <3> QED  BY <1>4, <3>2, <3>3 DEF ProgramKept
  <2> QED  BY <1>1, <1>4, <2>1, <2>2 DEF TInv
<1>6. Len(stack) \in Nat \ {0} /\ Len(stack') \in Nat
  BY <1>1, StackFacts, LenProperties
<1>7. stack' # << >> => Root' = Root /\ Own' = Own /\ 1 \in 1 .. Len(stack')
  <2> SUFFICES ASSUME stack' # << >> PROVE Root' = Root /\ Own' = Own /\ 1 \in 1 .. Len(stack')
    OBVIOUS
  <2>1. 1 \in 1 .. Len(stack')
    <3>1. Len(stack') \in Nat \ {0}  BY EmptySeq
    <3> QED  BY <3>1
  <2>2. Root' = Root  BY <2>1 DEF Root
  <2> QED  BY <1>4, <2>1, <2>2 DEF Own
<1>8. RootIsLatest'
  <2> SUFFICES ASSUME stack' # << >>
               PROVE  heap'[Root'].in = None /\ \A o \in Objects' : o > Root' => heap'[o].in # None
    BY DEF RootIsLatest
  <2>1. heap[Root].in = None /\ \A o \in Objects : o > Root => heap[o].in # None
    BY DEF CInv, RootIsLatest
  <2>2. Root \in Objects  BY <1>1, RootFacts, HeapFacts
  <2> QED  BY <1>2, <1>4, <1>7, <2>1, <2>2
<1>9. FramesOwn'
  <2> SUFFICES ASSUME NEW i \in 1 .. Len(stack')
               PROVE  /\ Root' <= stack'[i].obj /\ Root' <= stack'[i].st
                      /\ \A j \in 1 .. Len(stack'[i].done) : stack'[i].done[j] \in Own'
    BY DEF FramesOwn
  <2>1. stack' # << >>
    <3>1. Len(stack') # 0  BY <1>6
    <3> QED  BY <3>1, EmptySeq
  <2>2. i \in 1 .. Len(stack)  BY <1>6
  <2>3. Root <= stack[i].obj /\ Root <= stack[i].st  BY <2>2 DEF CInv, FramesOwn
  <2> QED  BY <1>7, <2>1, <2>3
<1>10. TablesOwn'
  BY <1>7 DEF TablesOwn
<1>11. Separate'
  <2> SUFFICES ASSUME NEW o \in Copies, NEW k \in Links(o)'
               PROVE  k \in Captures \/ (k \in Copies /\ Begun(k)' = Begun(o)')
    BY <1>4 DEF Separate
  <2>1. o \in Objects  BY <1>1, HeapFacts
  <2>2. Links(o)' = LinksOf(heap'[o])  BY DEF Links, LinksOf, CalleeOf
  <2>3. k \in Captures \/ (k \in Copies /\ Begun(k) = Begun(o))
    <3>1. CASE heap'[o] = heap[o]
      <4>1. Links(o) = LinksOf(heap[o])  BY DEF Links, LinksOf
      <4>2. k \in Links(o)  BY <2>2, <3>1, <4>1
      <4> QED  BY <4>2 DEF CInv, Separate
    <3>2. CASE Root <= o /\ LinksOf(heap'[o]) \subseteq Own
      <4>1. k \in Own  BY <2>2, <3>2
      <4>2. k \in Captures \/ (k \in Copies /\ Root <= k)  BY <1>1, <4>1, RootFacts
      <4>3. RootIsLatest  BY DEF CInv
      <4> QED  BY <1>1, <3>2, <4>2, <4>3, OneInstance
    <3> QED  BY <2>1, <3>1, <3>2
  <2>4. k \in Copies => Begun(k)' = Begun(k)
    <3>1. k \in Copies => k \in Objects  BY <1>1, HeapFacts
    <3> QED  BY <1>1, <1>3, <3>1, BegunStays
  <2>5. Begun(o)' = Begun(o)  BY <1>1, <1>3, <2>1, BegunStays
  <2> QED  BY <2>3, <2>4, <2>5
<1>12. LinksOwn'
  <2> SUFFICES ASSUME stack' # << >>, NEW o \in Copies, Root <= o
               PROVE  Links(o)' \subseteq Own
    BY <1>4, <1>7 DEF LinksOwn
  <2>1. o \in Objects  BY <1>1, HeapFacts
  <2>2. Links(o)' = LinksOf(heap'[o]) /\ Links(o) = LinksOf(heap[o])
    BY DEF Links, LinksOf, CalleeOf
  <2>3. Links(o) \subseteq Own  BY DEF CInv, LinksOwn
  <2> QED  BY <2>1, <2>2, <2>3
<1> QED  BY <1>5, <1>8, <1>9, <1>10, <1>11, <1>12 DEF CInv
-----------------------------------------------------------------------------
(* The steps. *)
LEMMA InstantiateStays == ASSUME CInv, Instantiate PROVE CInv'
<1>1. ProgramOK(program) /\ TInv  BY ProgramsAssumption DEF CInv, TInv
<1>2. program.fn \in Originals /\ heap[program.fn].op = "context"
  <2>1. program.fn \in Originals /\ program.node[program.fn].op = "context"
    BY <1>1 DEF ProgramOK, Originals
  <2> QED  BY <1>1, <2>1, SourceFacts
<1>3. /\ stack = << >> /\ Begin(stack, program.fn, None) /\ None \in Nat
      /\ program' = program /\ instances' = instances /\ outcome' = outcome
  BY DEF Instantiate, None
<1> QED  BY <1>2, <1>3, BeginStays

LEMMA DescendStays == ASSUME CInv, Descend PROVE CInv'
<1>1. TInv /\ stack # << >>  BY DEF CInv, Descend, Busy
<1>2. PICK src, st : src = Wanted(Top) /\ st = Top.st  OBVIOUS
<1>3. Top \in Frames /\ Top = stack[Len(stack)] /\ Len(stack) \in 1 .. Len(stack)
  BY <1>1, StackFacts
<1>4. src \in Originals /\ st \in DOMAIN accessible
  BY <1>1, <1>2, <1>3, FrameFacts DEF Descend
<1>5. Root <= st  BY <1>2, <1>3 DEF CInv, FramesOwn
<1>6. st \in Nat
  <2>1. st \in Copies  BY <1>1, <1>4 DEF TInv, TablesTyped
  <2> QED  BY <1>1, <2>1, HeapFacts
<1>7. /\ Begin(stack, src, st)
      /\ program' = program /\ instances' = instances /\ outcome' = outcome
  BY <1>2 DEF Descend
<1> QED  BY <1>1, <1>4, <1>5, <1>6, <1>7, BeginStays

(* The innermost activation goes on as g. *)
LEMMA Updated ==
  ASSUME TInv, stack # << >>, NEW g \in Frames
  PROVE  /\ Update(g) \in Seq(Frames) /\ Len(Update(g)) = Len(stack)
         /\ Update(g)[Len(stack)] = g
         /\ \A i \in 1 .. Len(stack) - 1 : Update(g)[i] = stack[i]
<1>1. PICK r : r = Rest  OBVIOUS
<1>2. /\ r \in Seq(Frames) /\ Len(r) = Len(stack) - 1 /\ Len(stack) \in Nat \ {0}
      /\ \A i \in 1 .. Len(stack) - 1 : r[i] = stack[i]
  BY <1>1, StackFacts
<1>3. /\ Append(r, g) \in Seq(Frames) /\ Len(Append(r, g)) = Len(r) + 1
      /\ \A i \in 1 .. Len(r) : Append(r, g)[i] = r[i]
      /\ Append(r, g)[Len(r) + 1] = g
  BY <1>2, AppendProperties
<1>4. Len(r) + 1 = Len(stack)  BY <1>2
<1> QED  BY <1>1, <1>2, <1>3, <1>4 DEF Update

(* What the activations have collected after such a step. *)
LEMMA UpdatedOwn ==
  ASSUME CInv, stack # << >>, NEW g \in Frames, g.obj = Top.obj, g.st = Top.st,
         \A j \in 1 .. Len(g.done) : g.done[j] \in Own
  PROVE  /\ Update(g) \in Seq(Frames) /\ Len(Update(g)) <= Len(stack)
         /\ \A i \in 1 .. Len(Update(g)) :
              /\ Update(g)[i].obj = stack[i].obj /\ Update(g)[i].st = stack[i].st
              /\ \A j \in 1 .. Len(Update(g)[i].done) : Update(g)[i].done[j] \in Own
<1>1. PICK u, n : u = Update(g) /\ n = Len(stack)  OBVIOUS
<1>2. /\ u \in Seq(Frames) /\ Len(u) = n /\ u[n] = g /\ n \in Nat \ {0} /\ Top = stack[n]
      /\ \A i \in 1 .. n - 1 : u[i] = stack[i]
  BY <1>1, Updated, StackFacts DEF CInv
<1>3. ASSUME NEW i \in 1 .. n
      PROVE  /\ u[i].obj = stack[i].obj /\ u[i].st = stack[i].st
             /\ \A j \in 1 .. Len(u[i].done) : u[i].done[j] \in Own
  <2>1. CASE i = n  BY <1>2, <2>1
  <2>2. CASE i # n
    <3>1. i \in 1 .. n - 1 /\ i \in 1 .. Len(stack)  BY <1>1, <1>2, <2>2
    <3>2. u[i] = stack[i]  BY <1>2, <3>1
    <3> QED  BY <3>1, <3>2 DEF CInv, FramesOwn
  <2> QED  BY <2>1, <2>2
<1> QED  BY <1>1, <1>2, <1>3

(* The parts of the innermost activation are its copy's. *)
LEMMA TopOwn ==
  ASSUME CInv, stack # << >>
  PROVE  /\ Top.done \in Seq(Own) /\ Root <= Top.obj /\ Root <= Top.st
         /\ Top.obj \in Own
<1>1. TInv  BY DEF CInv
<1>2. Len(stack) \in 1 .. Len(stack) /\ Top = stack[Len(stack)] /\ Top \in Frames
  BY <1>1, StackFacts
<1>3. /\ Root <= Top.obj /\ Root <= Top.st
      /\ \A j \in 1 .. Len(Top.done) : Top.done[j] \in Own
  BY <1>2 DEF CInv, FramesOwn
<1>4. Top.done \in Seq(Objects) /\ Top.obj \in Copies  BY <1>1, <1>2, FrameFacts
<1>5. Top.done \in Seq(Own)  BY <1>3, <1>4, Typed
<1>6. Top.obj \in Own
  <2>1. Root \in Nat  BY <1>1, RootFacts
  <2>2. Top.obj \in Nat /\ Top.obj <= Len(heap) /\ Len(heap) \in Nat  BY <1>1, <1>4, HeapFacts
  <2>3. Top.obj \in Root .. Len(heap)  BY <1>3, <2>1, <2>2
  <2> QED  BY <2>3 DEF Own
<1> QED  BY <1>3, <1>5, <1>6

(* The tables, when nothing is entered. *)
LEMMA TablesSame ==
  ASSUME CInv, stack # << >>
  PROVE  \A c \in DOMAIN accessible :
           /\ accessible[c] \in [Names -> 0 .. Len(heap)]
           /\ Root <= c => \A x \in Names : accessible[c][x] = None \/ accessible[c][x] \in Own
BY DEF CInv, TInv, TablesTyped, TablesOwn

LEMMA ResolveStays == ASSUME CInv, Resolve PROVE CInv'
<1>1. TInv /\ stack # << >>  BY DEF CInv, Resolve, Busy
<1>2. PICK f, k, a : f = Top /\ k = Lookup(Top) /\ a = Append(f.done, k)  OBVIOUS
<1>3. PICK g : g = [f EXCEPT !.done = a]  OBVIOUS
<1>4. /\ Wants(f) /\ ByName(f) /\ k # None /\ stack' = Update(g)
      /\ program' = program /\ heap' = heap /\ accessible' = accessible
      /\ instances' = instances /\ outcome' = outcome
  BY <1>2, <1>3 DEF Resolve
<1>5. f \in Frames /\ f.st \in DOMAIN accessible /\ Wanted(f) \in Originals
  BY <1>1, <1>2, <1>4, StackFacts, FrameFacts
<1>6. f.done \in Seq(Own) /\ Root <= f.st  BY <1>1, <1>2, TopOwn
<1>7. k \in Own
  <2>1. heap[Wanted(f)].name \in Names  BY <1>1, <1>4, <1>5, SourceFacts DEF ByName
  <2>2. k = accessible[f.st][heap[Wanted(f)].name]  BY <1>2 DEF Lookup
  <2> QED  BY <1>1, <1>4, <1>5, <1>6, <2>1, <2>2 DEF CInv, TablesOwn
<1>8. a \in Seq(Own) /\ a \in Seq(Objects)
  <2>1. a \in Seq(Own)  BY <1>2, <1>6, <1>7, AppendProperties
  <2>2. Own \subseteq Objects  BY <1>1, RootFacts
  <2> QED  BY <2>1, <2>2, Monotone
<1>9. g \in Frames /\ g.obj = f.obj /\ g.st = f.st /\ g.done = a
  BY <1>3, <1>5, <1>8 DEF Frames, Frame
<1>10. \A j \in 1 .. Len(g.done) : g.done[j] \in Own  BY <1>8, <1>9, ElementOfSeq
<1>11. /\ stack' \in Seq(Frames) /\ Len(stack') <= Len(stack)
       /\ \A i \in 1 .. Len(stack') :
            /\ stack'[i].obj = stack[i].obj /\ stack'[i].st = stack[i].st
            /\ \A j \in 1 .. Len(stack'[i].done) : stack'[i].done[j] \in Own
  BY <1>1, <1>2, <1>4, <1>9, <1>10, UpdatedOwn
<1>12. /\ instances' \in Seq(Copies) /\ outcome' \in {"running", "thrown"}
       /\ heap' \in Seq(Expr) /\ Len(heap') = Len(heap)
       /\ \A o \in Objects : heap'[o] = heap[o]
       /\ DOMAIN accessible' = DOMAIN accessible
  BY <1>1, <1>4 DEF TInv
<1>13. \A c \in DOMAIN accessible :
         /\ accessible'[c] \in [Names -> 0 .. Len(heap)]
         /\ Root <= c => \A x \in Names : accessible'[c][x] = None \/ accessible'[c][x] \in Own
  BY <1>1, <1>4, TablesSame
<1> QED  BY <1>1, <1>4, <1>11, <1>12, <1>13, PartStays

LEMMA UnresolvedStays == ASSUME CInv, Unresolved PROVE CInv'
<1>1. TInv /\ stack # << >>  BY DEF CInv, Unresolved, Busy
<1>2. /\ program' = program /\ heap' = heap /\ accessible' = accessible
      /\ instances' = instances /\ outcome' = "thrown" /\ stack' = << >>
  BY DEF Unresolved
<1>3. stack' \in Seq(Frames) /\ Len(stack') = 0  BY <1>2, EmptySeq
<1>4. Len(stack') <= Len(stack)  BY <1>1, <1>3, StackFacts
<1>5. \A i \in 1 .. Len(stack') :
        /\ stack'[i].obj = stack[i].obj /\ stack'[i].st = stack[i].st
        /\ \A j \in 1 .. Len(stack'[i].done) : stack'[i].done[j] \in Own
  BY <1>3
<1>6. /\ instances' \in Seq(Copies) /\ outcome' \in {"running", "thrown"}
      /\ heap' \in Seq(Expr) /\ Len(heap') = Len(heap)
      /\ \A o \in Objects : heap'[o] = heap[o]
      /\ DOMAIN accessible' = DOMAIN accessible
  BY <1>1, <1>2 DEF TInv
<1>7. \A c \in DOMAIN accessible :
        /\ accessible'[c] \in [Names -> 0 .. Len(heap)]
        /\ Root <= c => \A x \in Names : accessible'[c][x] = None \/ accessible'[c][x] \in Own
  BY <1>1, <1>2, TablesSame
<1> QED  BY <1>1, <1>2, <1>3, <1>4, <1>5, <1>6, <1>7, PartStays

LEMMA ShareCapturesStays == ASSUME CInv, ShareCaptures PROVE CInv'
<1>1. TInv /\ stack # << >> /\ TablesOwn  BY DEF CInv, ShareCaptures, Busy
<1>2. PICK f, o, objs, names :
        f = Top /\ o = f.obj /\ objs = Source(f).captures /\ names = NamesOf(objs)
  OBVIOUS
<1>3. PICK g : g = [f EXCEPT !.shared = TRUE]  OBVIOUS
<1>4. /\ stack' = Update(g) /\ accessible' = [accessible EXCEPT ![o] = Enter(@, names, objs)]
      /\ program' = program /\ heap' = heap
      /\ instances' = instances /\ outcome' = outcome
  BY <1>2, <1>3 DEF ShareCaptures
<1>5. f \in Frames /\ f.src \in Originals
  BY <1>1, <1>2, StackFacts, FrameFacts
<1>6. objs \in Seq(Own)
  <2>1. objs \in Seq(Originals) /\ Elements(objs) \subseteq Captures
    BY <1>1, <1>2, <1>5, SourceFacts DEF Source
  <2>2. objs \in Seq(Elements(objs))  BY <2>1, InElements
  <2>3. Elements(objs) \subseteq Own  BY <2>1 DEF Own
  <2> QED  BY <2>2, <2>3, Monotone
<1>7. /\ DOMAIN accessible' = DOMAIN accessible
      /\ \A c \in DOMAIN accessible :
           /\ accessible'[c] \in [Names -> 0 .. Len(heap)]
           /\ Root <= c => \A x \in Names : accessible'[c][x] = None \/ accessible'[c][x] \in Own
  BY <1>1, <1>4, <1>6, Entered
<1>8. g \in Frames /\ g.obj = f.obj /\ g.st = f.st /\ g.done = f.done
  BY <1>3, <1>5 DEF Frames, Frame
<1>9. \A j \in 1 .. Len(g.done) : g.done[j] \in Own
  BY <1>1, <1>2, <1>8, TopOwn, ElementOfSeq
<1>10. /\ stack' \in Seq(Frames) /\ Len(stack') <= Len(stack)
       /\ \A i \in 1 .. Len(stack') :
            /\ stack'[i].obj = stack[i].obj /\ stack'[i].st = stack[i].st
            /\ \A j \in 1 .. Len(stack'[i].done) : stack'[i].done[j] \in Own
  BY <1>1, <1>2, <1>4, <1>8, <1>9, UpdatedOwn
<1>11. /\ instances' \in Seq(Copies) /\ outcome' \in {"running", "thrown"}
       /\ heap' \in Seq(Expr) /\ Len(heap') = Len(heap)
       /\ \A x \in Objects : heap'[x] = heap[x]
  BY <1>1, <1>4 DEF TInv
<1> QED  BY <1>1, <1>4, <1>7, <1>10, <1>11, PartStays

(* What a finished copy consists of. *)
LEMMA FilledFacts ==
  ASSUME CInv, stack # << >>, ~Wants(Top)
  PROVE  /\ Filled(Top) \in Expr /\ Filled(Top).in = heap[Top.obj].in
         /\ LinksOf(Filled(Top)) \subseteq Own
<1>1. TInv  BY DEF CInv
<1>2. PICK f, e, h, d : f = Top /\ e = Source(f) /\ h = heap[f.obj] /\ d = f.done  OBVIOUS
<1>3. /\ f \in Frames /\ e \in Expr /\ e = program.node[f.src] /\ f.src \in Originals
      /\ f.obj \in Copies
  BY <1>1, <1>2, StackFacts, FrameFacts
<1>4. d \in Seq(Own) /\ Root <= f.obj  BY <1>1, <1>2, TopOwn
<1>5. h \in Expr /\ Own \subseteq Nat /\ LinksOf(h) \subseteq Own
  <2>1. h \in Expr /\ Own \subseteq Nat  BY <1>1, <1>2, <1>3, HeapFacts, RootFacts
  <2>2. Links(f.obj) \subseteq Own  BY <1>3, <1>4 DEF CInv, LinksOwn
  <2>3. Links(f.obj) = LinksOf(h)  BY <1>2 DEF Links, LinksOf
  <2> QED  BY <2>1, <2>2, <2>3
<1>6. /\ Elements(CalleeOf(h)) \subseteq Own /\ Elements(h.params) \subseteq Own
      /\ Elements(h.locals) \subseteq Own
  BY <1>5, LinksFacts
<1>7. Len(d) \in Nat /\ Len(Parts(e)) \in Nat /\ Len(d) >= Len(Parts(e))
  BY <1>1, <1>2, <1>3, FrameFacts DEF Wants
<1>8. /\ e.params \in Seq(Nat) /\ e.locals \in Seq(Nat) /\ e.kids \in Seq(Nat)
      /\ e.captures \in Seq(Nat) /\ CalleeOf(e) \in Seq(Nat) /\ e.callee \in Nat
  BY <1>3, LinksFacts DEF Expr
<1>9. CASE e.op = "context"
  <2>1. PICK p, l : p = Len(e.params) /\ l = Len(e.locals)  OBVIOUS
  <2>2. p \in Nat /\ l \in Nat /\ p + l + 1 <= Len(d)
    <3>1. p \in Nat /\ l \in Nat  BY <1>8, <2>1, LenProperties
    <3>2. Len(e.kids) = 1  BY <1>1, <1>3, <1>9, SourceFacts
    <3>3. PICK a : a = e.params \o e.locals  OBVIOUS
    <3>4. a \in Seq(Nat) /\ Len(a) = p + l  BY <1>8, <2>1, <3>3, Joined
    <3>5. Len(a \o e.kids) = p + l + 1  BY <1>8, <3>2, <3>4, Joined
    <3>6. Parts(e) = a \o e.kids  BY <1>9, <3>3 DEF Parts
    <3> QED  BY <1>7, <3>1, <3>5, <3>6
  <2>3. PICK ps, ls, ks, im :
          /\ ps = SubSeq(d, 1, p) /\ ls = SubSeq(d, p + 1, p + l)
          /\ ks = SubSeq(d, p + l + 1, p + l + 1) /\ im = (e.immediate \/ Rest = << >>)
    OBVIOUS
  <2>4. /\ ps \in Seq(Own) /\ Elements(ps) \subseteq Own
    <3>1. 1 \in Nat \ {0} /\ p <= Len(d)  BY <1>7, <2>2
    <3> QED  BY <1>4, <2>2, <2>3, <3>1, CutOut
  <2>5. /\ ls \in Seq(Own) /\ Elements(ls) \subseteq Own
    <3>1. p + 1 \in Nat \ {0} /\ p + l \in Nat /\ p + l <= Len(d)  BY <1>7, <2>2
    <3> QED  BY <1>4, <2>3, <3>1, CutOut
  <2>6. /\ ks \in Seq(Own) /\ Elements(ks) \subseteq Own
    <3>1. p + l + 1 \in Nat \ {0} /\ p + l + 1 \in Nat  BY <2>2
    <3> QED  BY <1>4, <2>2, <2>3, <3>1, CutOut
  <2>7. ps \in Seq(Nat) /\ ls \in Seq(Nat) /\ ks \in Seq(Nat) /\ im \in BOOLEAN
    <3>1. ps \in Seq(Nat) /\ ls \in Seq(Nat) /\ ks \in Seq(Nat)
      BY <1>5, <2>4, <2>5, <2>6, Monotone
    <3>2. im \in BOOLEAN  BY <2>3
    <3> QED  BY <3>1, <3>2
  <2>8. PICK cs, b : cs = e.captures /\ b = [h EXCEPT !.params = ps, !.captures = cs,
                                !.locals = ls, !.kids = ks, !.immediate = im]
    OBVIOUS
  <2>9. b = Filled(f)
    BY <1>2, <1>9, <2>1, <2>3, <2>8 DEF Filled
  <2>10. /\ b \in Expr /\ b.in = h.in /\ b.callee = h.callee
         /\ b.params = ps /\ b.locals = ls /\ b.kids = ks
    BY <1>5, <1>8, <2>7, <2>8 DEF Expr
  <2>11. LinksOf(b) \subseteq Own
    <3>1. CalleeOf(b) = CalleeOf(h)  BY <2>10 DEF CalleeOf
    <3> QED  BY <1>6, <2>4, <2>5, <2>6, <2>10, <3>1, LinksFacts
  <2> QED  BY <1>2, <2>9, <2>10, <2>11
<1>10. CASE e.op # "context"
  <2>1. PICK c, k : c = Len(CalleeOf(e)) /\ k = IF c = 0 THEN None ELSE d[1]  OBVIOUS
  <2>2. c \in Nat /\ c <= Len(d)
    <3>1. Parts(e) = CalleeOf(e) \o e.kids  BY <1>10 DEF Parts
    <3>2. Len(Parts(e)) = c + Len(e.kids)  BY <1>8, <2>1, <3>1, Joined
    <3>3. c \in Nat /\ Len(e.kids) \in Nat  BY <1>8, <2>1, LenProperties
    <3> QED  BY <1>7, <3>2, <3>3
  <2>3. k \in Nat /\ (k # None => k \in Own)
    <3>1. CASE c = 0  BY <2>1, <3>1 DEF None
    <3>2. CASE c # 0
      <4>1. 1 \in 1 .. Len(d)  BY <1>7, <2>2, <3>2
      <4>2. d[1] \in Own  BY <1>4, <4>1, ElementOfSeq
      <4> QED  BY <1>5, <2>1, <3>2, <4>2
    <3> QED  BY <3>1, <3>2
  <2>4. PICK ks : ks = SubSeq(d, c + 1, Len(d))  OBVIOUS
  <2>5. ks \in Seq(Own) /\ Elements(ks) \subseteq Own
    <3>1. c + 1 \in Nat \ {0} /\ Len(d) <= Len(d)  BY <1>7, <2>2
    <3> QED  BY <1>4, <1>7, <2>4, <3>1, CutOut
  <2>6. ks \in Seq(Nat)  BY <1>5, <2>5, Monotone
  <2>7. PICK b : b = [h EXCEPT !.callee = k, !.kids = ks]  OBVIOUS
  <2>8. b = Filled(f)  BY <1>2, <1>10, <2>1, <2>4, <2>7 DEF Filled
  <2>9. /\ b \in Expr /\ b.in = h.in /\ b.callee = k
        /\ b.params = h.params /\ b.locals = h.locals /\ b.kids = ks
    BY <1>5, <2>3, <2>6, <2>7 DEF Expr
  <2>10. LinksOf(b) \subseteq Own
    BY <1>6, <2>3, <2>5, <2>9, LinksFacts
  <2> QED  BY <1>2, <2>8, <2>9, <2>10
<1> QED  BY <1>9, <1>10

(* The innermost copy is handed to the one it is a part of. *)
LEMMA HandedOver ==
  ASSUME CInv, stack # << >>, Rest # << >>
  PROVE  LET u == [Rest EXCEPT ![Len(Rest)].done = Append(@, Top.obj)]
         IN  /\ u \in Seq(Frames) /\ Len(u) <= Len(stack)
             /\ \A i \in 1 .. Len(u) :
                  /\ u[i].obj = stack[i].obj /\ u[i].st = stack[i].st
                  /\ \A j \in 1 .. Len(u[i].done) : u[i].done[j] \in Own
<1>1. TInv  BY DEF CInv
<1>2. PICK n, r, f, k, a :
        n = Len(stack) - 1 /\ r = Rest /\ f = r[n] /\ k = Top.obj /\ a = Append(f.done, k)
  OBVIOUS
<1>3. /\ r \in Seq(Frames) /\ Len(r) = n /\ r # << >> /\ Len(stack) \in Nat \ {0}
      /\ \A i \in 1 .. n : r[i] = stack[i]
  BY <1>1, <1>2, StackFacts
<1>4. n \in 1 .. n /\ n \in Nat /\ n <= Len(stack) /\ \A i \in 1 .. n : i \in 1 .. Len(stack)
  <2>1. n \in Nat \ {0}  BY <1>3, EmptySeq
  <2> QED  BY <1>2, <1>3, <2>1
<1>5. f \in Frames /\ k \in Own
  BY <1>1, <1>2, <1>3, <1>4, ElementOfSeq, TopOwn
<1>6. a \in Seq(Own) /\ a \in Seq(Objects)
  <2>1. f = stack[n] /\ n \in 1 .. Len(stack)  BY <1>2, <1>3, <1>4
  <2>2. \A j \in 1 .. Len(f.done) : f.done[j] \in Own  BY <2>1 DEF CInv, FramesOwn
  <2>3. f.done \in Seq(Objects)  BY <1>1, <1>5, FrameFacts
  <2>4. f.done \in Seq(Own)  BY <2>2, <2>3, Typed
  <2>5. a \in Seq(Own)  BY <1>2, <1>5, <2>4, AppendProperties
  <2>6. Own \subseteq Objects  BY <1>1, RootFacts
  <2> QED  BY <2>5, <2>6, Monotone
<1>7. PICK g : g = [f EXCEPT !.done = a]  OBVIOUS
<1>8. g \in Frames /\ g.obj = f.obj /\ g.st = f.st /\ g.done = a
  BY <1>5, <1>6, <1>7 DEF Frames, Frame
<1>9. PICK u : u = [r EXCEPT ![n] = g]  OBVIOUS
<1>10. u = [Rest EXCEPT ![Len(Rest)].done = Append(@, Top.obj)]
  <2>1. [r EXCEPT ![n].done = Append(@, k)] = [r EXCEPT ![n] = g]
    BY <1>2, <1>5, <1>7 DEF Frames, Frame
  <2>2. Rest = r /\ Len(Rest) = n /\ Top.obj = k  BY <1>2, <1>3
  <2> QED  BY <1>9, <2>1, <2>2
<1>11. /\ u \in Seq(Frames) /\ Len(u) = n
       /\ \A i \in 1 .. n : u[i] = IF i = n THEN g ELSE r[i]
  BY <1>3, <1>4, <1>8, <1>9, ExceptSeq
<1>12. ASSUME NEW i \in 1 .. n
       PROVE  /\ u[i].obj = stack[i].obj /\ u[i].st = stack[i].st
              /\ \A j \in 1 .. Len(u[i].done) : u[i].done[j] \in Own
  <2>1. r[i] = stack[i] /\ i \in 1 .. Len(stack)  BY <1>3, <1>4
  <2>2. CASE i = n
    <3>1. u[i] = g /\ r[i] = f  BY <1>2, <1>11, <2>2
    <3>2. \A j \in 1 .. Len(a) : a[j] \in Own  BY <1>6, ElementOfSeq
    <3> QED  BY <1>8, <2>1, <3>1, <3>2
  <2>3. CASE i # n
    <3>1. u[i] = stack[i]  BY <1>11, <2>1, <2>3
    <3> QED  BY <2>1, <3>1 DEF CInv, FramesOwn
  <2> QED  BY <2>2, <2>3
<1> QED  BY <1>4, <1>10, <1>11, <1>12

LEMMA FinishStays == ASSUME CInv, Finish PROVE CInv'
<1>1. TInv /\ stack # << >> /\ TablesOwn /\ ~Wants(Top)
  BY DEF CInv, Finish, Busy
<1>2. PICK o, b : o = Top.obj /\ b = Filled(Top)  OBVIOUS
<1>3. /\ b \in Expr /\ b.in = heap[o].in /\ LinksOf(b) \subseteq Own
      /\ o \in Copies /\ Root <= o /\ o \in Own
  BY <1>1, <1>2, FilledFacts, TopOwn, StackFacts, FrameFacts
<1>4. /\ heap' = [heap EXCEPT ![o] = b] /\ program' = program /\ outcome' = outcome
  BY <1>2 DEF Finish
<1>5. /\ heap' \in Seq(Expr) /\ Len(heap') = Len(heap)
      /\ \A x \in Objects :
           \/ heap'[x] = heap[x]
           \/ /\ x \in Copies /\ Root <= x /\ heap'[x].in = heap[x].in
              /\ LinksOf(heap'[x]) \subseteq Own
  <2>1. heap \in Seq(Expr) /\ o \in 1 .. Len(heap) /\ Objects = 1 .. Len(heap)
    BY <1>1, <1>3, HeapFacts DEF TInv
  <2>2. /\ heap' \in Seq(Expr) /\ Len(heap') = Len(heap)
        /\ \A x \in 1 .. Len(heap) : heap'[x] = IF x = o THEN b ELSE heap[x]
    BY <1>3, <1>4, <2>1, ExceptSeq
  <2> QED  BY <1>3, <2>1, <2>2
<1>6. outcome' \in {"running", "thrown"}  BY <1>1, <1>4 DEF TInv
<1>7. CASE Rest = << >>
  <2>1. /\ stack' = << >> /\ instances' = Append(instances, o)
        /\ accessible' = accessible
    BY <1>2, <1>7 DEF Finish
  <2>2. stack' \in Seq(Frames) /\ Len(stack') = 0  BY <2>1, EmptySeq
  <2>3. Len(stack') <= Len(stack)  BY <1>1, <2>2, StackFacts
  <2>4. \A i \in 1 .. Len(stack') :
          /\ stack'[i].obj = stack[i].obj /\ stack'[i].st = stack[i].st
          /\ \A j \in 1 .. Len(stack'[i].done) : stack'[i].done[j] \in Own
    BY <2>2
  <2>5. instances' \in Seq(Copies)
    <3>1. instances \in Seq(Copies)  BY <1>1 DEF TInv
    <3> QED  BY <1>3, <2>1, <3>1, AppendProperties
  <2>6. DOMAIN accessible' = DOMAIN accessible  BY <2>1
  <2>7. \A c \in DOMAIN accessible :
          /\ accessible'[c] \in [Names -> 0 .. Len(heap)]
          /\ Root <= c => \A x \in Names : accessible'[c][x] = None \/ accessible'[c][x] \in Own
    BY <1>1, <2>1, TablesSame
  <2> QED  BY <1>1, <1>4, <1>5, <1>6, <2>2, <2>3, <2>4, <2>5, <2>6, <2>7, PartStays
<1>8. CASE Rest # << >>
  <2>1. /\ stack' = [Rest EXCEPT ![Len(Rest)].done = Append(@, Top.obj)]
        /\ instances' = instances /\ accessible' = Declare(Rest[Len(Rest)], o)
    BY <1>2, <1>8 DEF Finish
  <2>2. /\ stack' \in Seq(Frames) /\ Len(stack') <= Len(stack)
        /\ \A i \in 1 .. Len(stack') :
             /\ stack'[i].obj = stack[i].obj /\ stack'[i].st = stack[i].st
             /\ \A j \in 1 .. Len(stack'[i].done) : stack'[i].done[j] \in Own
    BY <1>1, <1>8, <2>1, HandedOver
  <2>3. instances' \in Seq(Copies)  BY <1>1, <2>1 DEF TInv
  <2>4. PICK c0, names, objs :
          c0 = Rest[Len(Rest)].obj /\ names = << heap[o].name >> /\ objs = << o >>
    OBVIOUS
  <2>5. \/ accessible' = accessible
        \/ accessible' = [accessible EXCEPT ![c0] = Enter(@, names, objs)]
    BY <2>1, <2>4 DEF Declare
  <2>6. objs \in Seq(Own)  BY <1>3, <2>4
  <2>7. /\ DOMAIN accessible' = DOMAIN accessible
        /\ \A c \in DOMAIN accessible :
             /\ accessible'[c] \in [Names -> 0 .. Len(heap)]
             /\ Root <= c => \A x \in Names : accessible'[c][x] = None \/ accessible'[c][x] \in Own
    <3>1. CASE accessible' = accessible  BY <1>1, <3>1, TablesSame
    <3>2. CASE accessible' = [accessible EXCEPT ![c0] = Enter(@, names, objs)]
      BY <1>1, <2>6, <3>2, Entered
    <3> QED  BY <2>5, <3>1, <3>2
  <2> QED  BY <1>1, <1>4, <1>5, <1>6, <2>2, <2>3, <2>7, PartStays
<1> QED  BY <1>7, <1>8
-----------------------------------------------------------------------------
LEMMA InitOK == DumpInit => CInv
<1> SUFFICES ASSUME DumpInit PROVE CInv  OBVIOUS
<1>1. /\ program \in Programs /\ heap = program.node /\ accessible = << >>
      /\ stack = << >> /\ instances = << >> /\ outcome = "running"
  BY DEF DumpInit, Init
<1>2. program.node \in Seq(Expr)  BY <1>1, ProgramsAssumption DEF ProgramOK
<1>3. Len(program.node) \in Nat  BY <1>2, LenProperties
<1>4. \A o : o \notin Copies  BY <1>1, <1>3 DEF Copies, Objects, Originals
<1>5. DOMAIN accessible = {}
  <2>1. << >> \in Seq({}) /\ Len(<< >>) = 0  BY EmptySeq
  <2>2. DOMAIN << >> = 1 .. 0  BY <2>1, LenProperties
  <2> QED  BY <1>1, <2>2
<1>6. TInv
  <2>1. << >> \in Seq(Frames) /\ << >> \in Seq(Copies)  BY EmptySeq
  <2>2. ProgramKept  BY <1>1, <1>3 DEF ProgramKept
  <2> QED  BY <1>1, <1>2, <1>5, <2>1, <2>2 DEF TInv, TablesTyped
<1>7. FramesOwn
  <2>1. Len(stack) = 0  BY <1>1, EmptySeq
  <2> QED  BY <2>1 DEF FramesOwn
<1> QED
  BY <1>1, <1>4, <1>6, <1>7 DEF CInv, RootIsLatest, TablesOwn, Separate, LinksOwn

LEMMA NextOK == CInv /\ [DumpNext]_allVars => CInv'
<1> SUFFICES ASSUME CInv, [DumpNext]_allVars PROVE CInv'  OBVIOUS
<1>1. CASE Step
  BY <1>1, InstantiateStays, DescendStays, ResolveStays, UnresolvedStays,
     ShareCapturesStays, FinishStays DEF Step
<1>2. CASE UNCHANGED vars
  <2>1. /\ program' = program /\ heap' = heap /\ accessible' = accessible
        /\ stack' = stack /\ instances' = instances /\ outcome' = outcome
    BY <1>2 DEF vars
  <2>2. Originals' = Originals /\ Objects' = Objects /\ Captures' = Captures /\ Root' = Root
    BY <2>1 DEF Originals, Objects, Captures, Root
  <2>3. Copies' = Copies /\ Own' = Own  BY <2>1, <2>2 DEF Copies, Own
  <2>4. Frames' = Frames  BY <2>1, <2>2, <2>3 DEF Frames, Frame
  <2>5. \A o : Links(o)' = Links(o) /\ Begun(o)' = Begun(o)
    BY <2>1, <2>3 DEF Links, CalleeOf, Begun
  <2>6. TInv'
    BY <2>1, <2>2, <2>3, <2>4 DEF CInv, TInv, ProgramKept, TablesTyped
  <2>7. RootIsLatest' /\ FramesOwn'
    BY <2>1, <2>2, <2>3 DEF CInv, RootIsLatest, FramesOwn
  <2>8. TablesOwn'  BY <2>1, <2>2, <2>3 DEF CInv, TablesOwn
  <2>9. LinksOwn' /\ Separate'
    BY <2>1, <2>2, <2>3, <2>5 DEF CInv, LinksOwn, Separate
  <2> QED  BY <2>6, <2>7, <2>8, <2>9 DEF CInv
<1>3. Step \/ UNCHANGED vars
  BY DEF DumpNext, DumpStep, BeginDump, Dependency, PrintLine, EndDump, Done, allVars, vars
<1> QED  BY <1>1, <1>2, <1>3

LEMMA InstancesInvariant == DumpSpec => []CInv
BY InitOK, NextOK, PTL DEF DumpSpec

(* What deep_clone works on is well typed for every program, and the        *)
(* function that is copied stays as it was.                                 *)
THEOREM ClonesWellTyped == DumpSpec => []CloneTypeOK
<1>1. CInv => CloneTypeOK
  <2> SUFFICES ASSUME CInv PROVE CloneTypeOK  OBVIOUS
  <2>1. TInv  BY DEF CInv
  <2>2. SubSeq(heap, 1, Len(program.node)) = program.node
    <3>1. program.node \in Seq(Expr)  BY <2>1, ProgramsAssumption DEF TInv, ProgramOK
    <3>2. PICK n, s : n = Len(program.node) /\ s = SubSeq(heap, 1, n)  OBVIOUS
    <3>3. n \in Nat /\ 1 \in Int /\ n \in Int /\ \A i \in 1 .. n : heap[i] \in Expr
      BY <2>1, <3>2, HeapFacts
    <3>4. /\ s \in Seq(Expr) /\ Len(s) = IF 1 <= n THEN n - 1 + 1 ELSE 0
          /\ \A i \in 1 .. n - 1 + 1 : s[i] = heap[1 + i - 1]
      BY <3>2, <3>3, SubSeqProperties
    <3>5. Len(s) = n /\ \A i \in 1 .. n : s[i] = heap[i]  BY <3>3, <3>4
    <3>6. \A i \in 1 .. n : heap[i] = program.node[i]
      BY <2>1, <3>2 DEF TInv, ProgramKept, Originals
    <3> QED  BY <3>1, <3>2, <3>4, <3>5, <3>6, SeqEqual
  <2>3. \A o \in Copies : heap[o] \in Expr  BY <2>1, HeapFacts
  <2> QED  BY <2>1, <2>2, <2>3 DEF TInv, TablesTyped, CloneTypeOK, Frames, Frame
<1> QED  BY <1>1, InstancesInvariant, PTL

(* An instance shares no object with the function or with another instance, *)
(* but for captures, whatever the function is made of and however many      *)
(* instances there are, also of a copy that an exception left unfinished.   *)
THEOREM InstancesShareOnlyCaptures == DumpSpec => []InstancesAreSeparate
<1>1. CInv => InstancesAreSeparate
  BY DEF CInv, Separate, InstancesAreSeparate, Complete
<1> QED  BY <1>1, InstancesInvariant, PTL
-----------------------------------------------------------------------------
(* What a copy is made of, and where: every object under way or finished,   *)
(* every activation and every table, as the dump will find them.            *)
(* What can be found and linked to: an object that is not under way, and    *)
(* that has a right hand side if what it was copied from has one.           *)
Settled(k) ==
  /\ k \in Objects /\ k \notin Stacked
  /\ heap[k].op = "symbol" /\ heap[k].kids = << >> => heap[heap[k].of].kids = << >>

(* What the names in context c lead to. *)
Local(c) == {k \in Objects : heap[k].in = c} \cup Elements(heap[heap[c].of].captures)

Uses(e) ==
  Elements(e.params) \cup Elements(e.captures) \cup Elements(e.kids) \cup Elements(CalleeOf(e))

ObjectIs(o) ==
  /\ heap[o].of \in Originals
  /\ heap[o].op = heap[heap[o].of].op /\ heap[o].name = heap[heap[o].of].name
  /\ \A k \in Uses(heap[o]) : Settled(k)
  /\ \A k \in Elements(heap[o].captures) \cup Elements(CalleeOf(heap[o])) : heap[k].op = "symbol"

(* A finished context. *)
ContextIs(o) ==
  /\ heap[o].captures = heap[heap[o].of].captures
  /\ heap[heap[o].kids[1]].op = "ret" /\ heap[heap[o].kids[1]].in = o
  /\ \A q \in Elements(heap[heap[o].of].params) :
       \E k \in Elements(heap[o].params) : heap[k].name = heap[q].name
  /\ \A k \in Elements(heap[o].params) : heap[k].op = "symbol"

CopyIs(o) ==
  /\ heap[o].in = None \/ (heap[o].in \in Copies /\ heap[heap[o].in].op = "context")
  /\ heap[o].op = "context" =>
       /\ Elements(heap[o].captures) \subseteq Elements(heap[heap[o].of].captures)
       /\ heap[o].kids # << >> => ContextIs(o)
  /\ heap[o].op # "context" =>
       /\ heap[o].in # None
       /\ Elements(heap[o].kids) \cup Elements(CalleeOf(heap[o])) \subseteq Local(heap[o].in)

(* The activation f has copied what it should. *)
FrameIs(f) ==
  /\ heap[f.obj].of = f.src /\ heap[f.st].op = "context"
  /\ f.st = IF Source(f).op = "context" THEN f.obj ELSE heap[f.obj].in
  /\ Len(f.done) <= Len(Parts(Source(f)))
  /\ \A j \in 1 .. Len(f.done) :
       /\ Settled(f.done[j]) /\ f.done[j] \in Local(f.st)
       /\ heap[f.done[j]].op = heap[Parts(Source(f))[j]].op
       /\ Source(f).op = "context" =>
            heap[f.done[j]].of = Parts(Source(f))[j] /\ heap[f.done[j]].in = f.obj

FramesLinked ==
  /\ \A i \in 1 .. Len(stack) : \A j \in 1 .. Len(stack) : i < j => stack[i].obj < stack[j].obj
  /\ \A i \in 1 .. Len(stack) : i < Len(stack) =>
       /\ Wants(stack[i]) /\ stack[i + 1].src = Wanted(stack[i])
       /\ heap[stack[i + 1].obj].in = stack[i].st

TableIs(c) ==
  /\ heap[c].op = "context"
  /\ \A x \in Names :
       accessible[c][x] = None \/
       LET k == accessible[c][x] IN Settled(k) /\ k \in Local(c) /\ heap[k].op = "symbol"

(* A copy is where its source is, in a context that copied no capture. *)
PlacesKept ==
  \A o \in Copies :
    heap[o].in # None /\ CapturesCopied(heap[o].in) = {} =>
      heap[heap[o].in].of = heap[heap[o].of].in

(* Nothing depends on itself. *)
Founded ==
  \A S \in SUBSET Objects : S # {} =>
    \E x \in S : Elements(Dependencies(heap[x])) \cap S = {}

EInv ==
  /\ CInv
  /\ \A o \in Objects : ObjectIs(o)
  /\ \A o \in Copies : CopyIs(o)
  /\ \A i \in 1 .. Len(stack) : FrameIs(stack[i])
  /\ FramesLinked
  /\ \A c \in DOMAIN accessible : TableIs(c)
  /\ PlacesKept /\ Founded

-----------------------------------------------------------------------------
(* What expressions are made of. *)
LEMMA UsesFacts ==
  ASSUME NEW e \in Expr
  PROVE  /\ Elements(e.params \o e.locals \o e.kids \o CalleeOf(e)) =
              Elements(e.params) \cup Elements(e.locals) \cup Elements(e.kids)
                \cup Elements(CalleeOf(e))
         /\ Elements(e.params \o e.captures \o e.locals \o CalleeOf(e)) =
              Elements(e.params) \cup Elements(e.captures) \cup Elements(e.locals)
                \cup Elements(CalleeOf(e))
         /\ Parts(e) \in Seq(Nat) /\ Dependencies(e) \in Seq(Nat)
         /\ Elements(Parts(e)) =
              IF e.op = "context" THEN Elements(e.params) \cup Elements(e.locals) \cup Elements(e.kids)
              ELSE Elements(CalleeOf(e)) \cup Elements(e.kids)
         /\ Elements(Dependencies(e)) =
              IF e.op = "context" THEN Elements(e.captures)
              ELSE Elements(e.kids) \cup Elements(CalleeOf(e))
<1>1. /\ e.params \in Seq(Nat) /\ e.locals \in Seq(Nat) /\ e.captures \in Seq(Nat)
      /\ e.kids \in Seq(Nat) /\ CalleeOf(e) \in Seq(Nat)
  BY LinksFacts DEF Expr
<1>2. PICK a : a = e.params \o e.locals  OBVIOUS
<1>3. a \in Seq(Nat) /\ Elements(a) = Elements(e.params) \cup Elements(e.locals)
  BY <1>1, <1>2, Joined
<1>4. PICK b : b = a \o e.kids  OBVIOUS
<1>5. b \in Seq(Nat) /\ Elements(b) = Elements(a) \cup Elements(e.kids)
  BY <1>1, <1>3, <1>4, Joined
<1>6. Elements(b \o CalleeOf(e)) = Elements(b) \cup Elements(CalleeOf(e))
  BY <1>1, <1>5, Joined
<1>7. PICK c : c = e.params \o e.captures  OBVIOUS
<1>8. c \in Seq(Nat) /\ Elements(c) = Elements(e.params) \cup Elements(e.captures)
  BY <1>1, <1>7, Joined
<1>9. PICK d : d = c \o e.locals  OBVIOUS
<1>10. d \in Seq(Nat) /\ Elements(d) = Elements(c) \cup Elements(e.locals)
  BY <1>1, <1>8, <1>9, Joined
<1>11. Elements(d \o CalleeOf(e)) = Elements(d) \cup Elements(CalleeOf(e))
  BY <1>1, <1>10, Joined
<1>12. PICK x, y : x = CalleeOf(e) \o e.kids /\ y = e.kids \o CalleeOf(e)  OBVIOUS
<1>13. /\ x \in Seq(Nat) /\ Elements(x) = Elements(CalleeOf(e)) \cup Elements(e.kids)
       /\ y \in Seq(Nat) /\ Elements(y) = Elements(e.kids) \cup Elements(CalleeOf(e))
  BY <1>1, <1>12, Joined
<1>14. Parts(e) = IF e.op = "context" THEN b ELSE x  BY <1>2, <1>4, <1>12 DEF Parts
<1>15. Dependencies(e) = IF e.op = "context" THEN e.captures ELSE y
  BY <1>12 DEF Dependencies
<1>16. /\ Elements(b \o CalleeOf(e)) = Elements(e.params) \cup Elements(e.locals) \cup Elements(e.kids)
                                         \cup Elements(CalleeOf(e))
       /\ Elements(d \o CalleeOf(e)) = Elements(e.params) \cup Elements(e.captures)
                                         \cup Elements(e.locals) \cup Elements(CalleeOf(e))
  BY <1>3, <1>5, <1>6, <1>8, <1>10, <1>11
<1>17. /\ Parts(e) \in Seq(Nat) /\ Dependencies(e) \in Seq(Nat)
       /\ Elements(Parts(e)) =
              IF e.op = "context" THEN Elements(e.params) \cup Elements(e.locals) \cup Elements(e.kids)
              ELSE Elements(CalleeOf(e)) \cup Elements(e.kids)
       /\ Elements(Dependencies(e)) =
              IF e.op = "context" THEN Elements(e.captures)
              ELSE Elements(e.kids) \cup Elements(CalleeOf(e))
  BY <1>1, <1>3, <1>5, <1>13, <1>14, <1>15
<1> QED  BY <1>2, <1>4, <1>7, <1>9, <1>16, <1>17

(* The program: what its expressions use, and which context that is in. *)
LEMMA ScopeFacts ==
  ASSUME TInv, NEW n \in Originals, NEW e, e = heap[n]
  PROVE  /\ e \in Expr /\ e.of = n /\ n \in Nat /\ e.in \in {None} \cup Originals
         /\ Uses(e) \cup Elements(e.locals) \subseteq Originals
         /\ \A k \in Uses(e) \cup Elements(e.locals) : k \in Nat /\ k < n
         /\ \A k \in Elements(e.params) \cup Elements(e.captures) \cup Elements(e.locals)
                   \cup Elements(CalleeOf(e)) :
              heap[k].op = "symbol"
         /\ e.op = "context" => Len(e.kids) = 1 /\ heap[e.kids[1]].op = "ret"
         /\ n \notin Captures => \A k \in Elements(Parts(e)) :
              heap[k].in = IF e.op = "context" THEN n ELSE e.in
         /\ \A c \in Originals : n \in Elements(heap[c].captures) =>
              /\ heap[c].op = "context" /\ e.in = c /\ e.kids # << >>
              /\ \A k \in Elements(Dependencies(e)) : heap[k].in = heap[c].in
         /\ e.op = "symbol" /\ e.kids = << >> =>
              e.in \in Originals /\ n \in Elements(heap[e.in].params)
<1>1. ProgramOK(program) /\ WellScoped(program)
  BY ProgramsAssumption, ScopesAssumption DEF TInv
<1>2. PICK N : N = program.node  OBVIOUS
<1>3. /\ Originals = 1 .. Len(N) /\ Len(N) \in Nat /\ n \in Nat
      /\ \A k \in Originals : heap[k] = N[k]
      /\ e = N[n] /\ e \in Expr
  <2>1. Originals = 1 .. Len(N) /\ Len(N) \in Nat  BY <1>2, HeapFacts
  <2>2. \A k \in Originals : heap[k] = N[k]  BY <1>2 DEF TInv, ProgramKept
  <2> QED  BY <2>1, <2>2, SourceFacts
<1>4. /\ e.of = n
      /\ Elements(e.params \o e.captures \o e.locals \o CalleeOf(e)) \cup Elements(e.kids)
           \subseteq 1 .. n - 1
      /\ \A s \in Elements(e.params \o e.captures \o e.locals \o CalleeOf(e)) : N[s].op = "symbol"
      /\ e.op = "context" => Len(e.kids) = 1 /\ N[e.kids[1]].op = "ret"
  BY <1>1, <1>2, <1>3 DEF ProgramOK
<1>5. PICK within, capturing :
        /\ within = IF e.op = "context" THEN n ELSE e.in
        /\ capturing = {c \in 1 .. Len(N) : n \in Elements(N[c].captures)}
  OBVIOUS
<1>6. /\ e.in \in {None} \cup 1 .. Len(N)
      /\ \A k \in Elements(e.params \o e.locals \o e.kids \o CalleeOf(e)) :
           capturing = {} => N[k].in = within
      /\ \A c \in capturing :
           /\ N[c].op = "context" /\ e.in = c /\ e.kids # << >>
           /\ \A k \in Elements(Dependencies(e)) : N[k].in = N[c].in
      /\ e.op = "symbol" /\ e.kids = << >> =>
           e.in # None /\ n \in Elements(N[e.in].params)
  BY <1>1, <1>2, <1>3, <1>5 DEF WellScoped
<1>7. /\ Uses(e) \cup Elements(e.locals) \subseteq 1 .. n - 1
      /\ \A s \in Elements(e.params) \cup Elements(e.captures) \cup Elements(e.locals)
                \cup Elements(CalleeOf(e)) :
           N[s].op = "symbol"
  BY <1>3, <1>4, UsesFacts DEF Uses
<1>8. \A k \in 1 .. n - 1 : k \in Originals /\ k \in Nat /\ k < n  BY <1>3
<1>9. n \notin Captures => capturing = {}
  BY <1>2, <1>3, <1>5 DEF Captures
<1>10. Elements(Parts(e)) \subseteq Elements(e.params \o e.locals \o e.kids \o CalleeOf(e))
  BY <1>3, UsesFacts
<1>11. Elements(Parts(e)) \subseteq Originals /\ Elements(Dependencies(e)) \subseteq Originals
  BY <1>3, <1>7, <1>8, UsesFacts DEF Uses
<1>12. e.op = "context" => Len(e.kids) = 1 /\ heap[e.kids[1]].op = "ret"
  <2> SUFFICES ASSUME e.op = "context" PROVE Len(e.kids) = 1 /\ heap[e.kids[1]].op = "ret"
    OBVIOUS
  <2>1. 1 \in 1 .. Len(e.kids)  BY <1>4
  <2>2. e.kids[1] \in Elements(e.kids)  BY <2>1 DEF Elements
  <2>3. e.kids[1] \in Originals  BY <1>7, <1>8, <2>2 DEF Uses
  <2> QED  BY <1>3, <1>4, <2>3
<1>13. n \notin Captures => \A k \in Elements(Parts(e)) :
         heap[k].in = IF e.op = "context" THEN n ELSE e.in
  BY <1>3, <1>5, <1>6, <1>9, <1>10, <1>11
<1>14. \A c \in Originals : n \in Elements(heap[c].captures) =>
         /\ heap[c].op = "context" /\ e.in = c /\ e.kids # << >>
         /\ \A k \in Elements(Dependencies(e)) : heap[k].in = heap[c].in
  BY <1>3, <1>5, <1>6, <1>11
<1>15. e.op = "symbol" /\ e.kids = << >> =>
         e.in \in Originals /\ n \in Elements(heap[e.in].params)
  BY <1>3, <1>6
<1>16. \A k \in Elements(e.params) \cup Elements(e.captures) \cup Elements(e.locals)
              \cup Elements(CalleeOf(e)) :
         heap[k].op = "symbol"
  BY <1>3, <1>7, <1>8 DEF Uses
<1>17. e.in \in {None} \cup Originals  BY <1>3, <1>6
<1> QED  BY <1>3, <1>4, <1>7, <1>8, <1>12, <1>13, <1>14, <1>15, <1>16, <1>17

-----------------------------------------------------------------------------
(* What a step does to the objects there are. *)
Steady ==
  /\ program' = program /\ Objects \subseteq Objects'
  /\ \A o \in Objects :
       /\ heap'[o].of = heap[o].of /\ heap'[o].op = heap[o].op
       /\ heap'[o].name = heap[o].name /\ heap'[o].in = heap[o].in
       /\ o \notin Stacked => heap'[o] = heap[o] /\ o \notin Stacked'

Known == \A o \in Objects : ObjectIs(o)

LEMMA StackedFacts ==
  ASSUME TInv
  PROVE  /\ Stacked \subseteq Copies
         /\ \A n \in Originals : n \notin Stacked /\ n \in Objects
<1>1. ASSUME NEW i \in 1 .. Len(stack) PROVE stack[i].obj \in Copies
  <2>1. stack[i] \in Frames  BY ElementOfSeq DEF TInv
  <2> QED  BY <2>1 DEF Frames, Frame
<1>2. Stacked \subseteq Copies  BY <1>1 DEF Stacked
<1> QED  BY <1>2, HeapFacts DEF Copies

LEMMA SettledStays ==
  ASSUME TInv, TInv', Known, Steady, NEW k, Settled(k)
  PROVE  Settled(k)'
<1>1. k \in Objects /\ k \notin Stacked  BY DEF Settled
<1>2. PICK s : s = heap[k].of  OBVIOUS
<1>3. s \in Originals  BY <1>1, <1>2 DEF Known, ObjectIs
<1>4. s \in Objects /\ s \notin Stacked  BY <1>3, StackedFacts
<1>5. heap'[k] = heap[k] /\ heap'[s] = heap[s] /\ k \notin Stacked' /\ k \in Objects'
  BY <1>1, <1>4 DEF Steady
<1> QED  BY <1>2, <1>5 DEF Settled

LEMMA LocalStays ==
  ASSUME TInv, Known, Steady, NEW c \in Objects
  PROVE  Local(c) \subseteq Local(c)'
<1>1. PICK s : s = heap[c].of  OBVIOUS
<1>2. s \in Originals  BY <1>1 DEF Known, ObjectIs
<1>3. s \in Objects /\ s \notin Stacked  BY <1>2, StackedFacts
<1>4. heap'[s] = heap[s] /\ heap'[c].of = s  BY <1>1, <1>3 DEF Steady
<1>5. \A k \in Objects : k \in Objects' /\ heap'[k].in = heap[k].in  BY DEF Steady
<1> QED  BY <1>1, <1>4, <1>5 DEF Local

(* An expression that stays as it is uses what it used. *)
LEMMA ObjectStays ==
  ASSUME TInv, TInv', Known, Steady, NEW o \in Objects, heap'[o] = heap[o]
  PROVE  ObjectIs(o)'
<1>1. PICK e, s : e = heap[o] /\ s = heap[o].of  OBVIOUS
<1>2. /\ s \in Originals /\ e.op = heap[s].op /\ e.name = heap[s].name
      /\ \A k \in Uses(e) : Settled(k)
      /\ \A k \in Elements(e.captures) \cup Elements(CalleeOf(e)) : heap[k].op = "symbol"
  BY <1>1 DEF Known, ObjectIs
<1>3. s \in Originals' /\ heap'[s] = heap[s]
  <2>1. s \in Objects /\ s \notin Stacked  BY <1>2, StackedFacts
  <2>2. program' = program /\ heap'[s] = heap[s]  BY <2>1 DEF Steady
  <2> QED  BY <1>2, <2>2 DEF Originals
<1>4. \A k \in Uses(e) : Settled(k)'  BY <1>2, SettledStays
<1>5. \A k \in Elements(e.captures) \cup Elements(CalleeOf(e)) : heap'[k].op = "symbol"
  <2> SUFFICES ASSUME NEW k \in Elements(e.captures) \cup Elements(CalleeOf(e))
               PROVE  heap'[k].op = "symbol"
    OBVIOUS
  <2>1. k \in Objects  BY <1>2 DEF Uses, Settled
  <2> QED  BY <1>2, <2>1 DEF Steady
<1>6. /\ Uses(heap[o])' = Uses(e) /\ CalleeOf(heap[o])' = CalleeOf(e)
      /\ heap'[o] = e
  BY <1>1 DEF Uses, CalleeOf
<1>7. \A k \in Uses(heap[o])' : Settled(k)'  BY <1>4, <1>6
<1> QED  BY <1>1, <1>2, <1>3, <1>5, <1>6, <1>7 DEF ObjectIs

LEMMA FirstElement ==
  ASSUME NEW S, NEW s \in Seq(S), s # << >>
  PROVE  s[1] \in Elements(s)
<1>1. Len(s) \in Nat \ {0}  BY LenProperties, EmptySeq
<1>2. 1 \in 1 .. Len(s)  BY <1>1
<1> QED  BY <1>2 DEF Elements

LEMMA CopyStays ==
  ASSUME TInv, TInv', Known, Steady, NEW o \in Copies, CopyIs(o), heap'[o] = heap[o]
  PROVE  CopyIs(o)'
<1>1. PICK e, s, t, c : e = heap[o] /\ s = e.of /\ t = heap[s] /\ c = e.in  OBVIOUS
<1>2. o \in Objects /\ e \in Expr  BY <1>1, HeapFacts
<1>3. s \in Originals /\ \A k \in Uses(e) : k \in Objects
  BY <1>1, <1>2 DEF Known, ObjectIs, Settled
<1>4. heap'[s] = t /\ s \in Objects /\ t \in Expr
  <2>1. s \in Objects /\ s \notin Stacked  BY <1>3, StackedFacts
  <2> QED  BY <1>1, <2>1, HeapFacts DEF Steady
<1>5. c = None \/ (c \in Copies' /\ heap'[c].op = "context")
  <2>1. c = None \/ (c \in Copies /\ heap[c].op = "context")  BY <1>1 DEF CopyIs
  <2>2. c \in Copies => c \in Objects /\ c \in Copies'
    BY HeapFacts DEF Steady, Copies, Originals
  <2> QED  BY <2>1, <2>2 DEF Steady
<1>6. ASSUME e.op = "context", e.kids # << >>
      PROVE  /\ e.captures = t.captures
             /\ heap'[e.kids[1]].op = "ret" /\ heap'[e.kids[1]].in = o
             /\ \A q \in Elements(t.params) :
                  \E k \in Elements(e.params) : heap'[k].name = heap'[q].name
             /\ \A k \in Elements(e.params) : heap'[k].op = "symbol"
  <2>1. ContextIs(o)  BY <1>1, <1>6 DEF CopyIs
  <2>2. /\ e.captures = t.captures
        /\ heap[e.kids[1]].op = "ret" /\ heap[e.kids[1]].in = o
        /\ \A q \in Elements(t.params) :
             \E k \in Elements(e.params) : heap[k].name = heap[q].name
        /\ \A k \in Elements(e.params) : heap[k].op = "symbol"
    BY <1>1, <2>1 DEF ContextIs
  <2>3. e.kids[1] \in Objects
    <3>1. e.kids \in Seq(Nat)  BY <1>2 DEF Expr
    <3>2. e.kids[1] \in Elements(e.kids)  BY <1>6, <3>1, FirstElement
    <3> QED  BY <1>3, <3>2 DEF Uses
  <2>4. \A q \in Elements(t.params) : q \in Objects
    <3>1. \A k \in Uses(t) : k \in Objects  BY <1>1, <1>4 DEF Known, ObjectIs, Settled
    <3> QED  BY <3>1 DEF Uses
  <2>5. \A k \in Elements(e.params) : k \in Objects  BY <1>3 DEF Uses
  <2>6. \A k \in Objects : heap'[k].op = heap[k].op /\ heap'[k].in = heap[k].in
                           /\ heap'[k].name = heap[k].name
    BY DEF Steady
  <2>7. ASSUME NEW q \in Elements(t.params)
        PROVE  \E k \in Elements(e.params) : heap'[k].name = heap'[q].name
    <3>1. PICK k \in Elements(e.params) : heap[k].name = heap[q].name  BY <2>2
    <3> QED  BY <2>4, <2>5, <2>6, <3>1
  <2>8. \A k \in Elements(e.params) : heap'[k].op = "symbol"  BY <2>2, <2>5, <2>6
  <2> QED  BY <2>2, <2>3, <2>6, <2>7, <2>8
<1>7. ASSUME e.op # "context"
      PROVE  c # None /\ Elements(e.kids) \cup Elements(CalleeOf(e)) \subseteq Local(c)'
  <2>1. c # None /\ Elements(e.kids) \cup Elements(CalleeOf(e)) \subseteq Local(c)
    BY <1>1, <1>7 DEF CopyIs
  <2>2. c \in Objects  BY <1>1, <2>1, HeapFacts DEF CopyIs
  <2>3. Local(c) \subseteq Local(c)'  BY <2>2, LocalStays
  <2> QED  BY <2>1, <2>3
<1>8. e.op = "context" => Elements(e.captures) \subseteq Elements(t.captures)
  BY <1>1 DEF CopyIs
<1>9. heap'[o] = e /\ heap'[o].of = s /\ heap'[heap'[o].of] = t /\ CalleeOf(heap[o])' = CalleeOf(e)
  BY <1>1, <1>4 DEF CalleeOf
<1>10. e.op = "context" /\ e.kids # << >> => ContextIs(o)'
  BY <1>6, <1>9 DEF ContextIs
<1>11. e.op # "context" => Local(heap[o].in)' = Local(c)'
  BY <1>1, <1>9 DEF Local
<1> QED  BY <1>1, <1>5, <1>7, <1>8, <1>9, <1>10, <1>11 DEF CopyIs

(* An activation that stays as it is. *)
LEMMA FrameStays ==
  ASSUME TInv, TInv', Known, Steady, NEW f \in Frames, FrameIs(f)
  PROVE  FrameIs(f)'
<1>1. PICK e : e = heap[f.src]  OBVIOUS
<1>2. /\ f.src \in Originals /\ f.obj \in Copies /\ f.st \in DOMAIN accessible
      /\ Source(f) = e /\ f.done \in Seq(Objects) /\ Parts(e) \in Seq(Originals)
  BY <1>1, FrameFacts DEF Source
<1>3. f.st \in Objects /\ f.obj \in Objects
  BY <1>2, HeapFacts DEF TInv, TablesTyped
<1>4. /\ heap[f.obj].of = f.src /\ heap[f.st].op = "context"
      /\ f.st = IF e.op = "context" THEN f.obj ELSE heap[f.obj].in
      /\ Len(f.done) <= Len(Parts(e))
      /\ \A j \in 1 .. Len(f.done) :
           /\ Settled(f.done[j]) /\ f.done[j] \in Local(f.st)
           /\ heap[f.done[j]].op = heap[Parts(e)[j]].op
           /\ e.op = "context" => heap[f.done[j]].of = Parts(e)[j] /\ heap[f.done[j]].in = f.obj
  BY <1>2 DEF FrameIs
<1>5. heap'[f.src] = e
  <2>1. f.src \in Objects /\ f.src \notin Stacked  BY <1>2, StackedFacts
  <2> QED  BY <1>1, <2>1 DEF Steady
<1>6. /\ heap'[f.obj].of = f.src /\ heap'[f.obj].in = heap[f.obj].in
      /\ heap'[f.st].op = "context"
  BY <1>3, <1>4 DEF Steady
<1>7. ASSUME NEW j \in 1 .. Len(f.done)
      PROVE  /\ Settled(f.done[j])' /\ f.done[j] \in Local(f.st)'
             /\ heap'[f.done[j]].op = heap'[Parts(e)[j]].op
             /\ e.op = "context" => heap'[f.done[j]].of = Parts(e)[j] /\ heap'[f.done[j]].in = f.obj
  <2>1. PICK k, q : k = f.done[j] /\ q = Parts(e)[j]  OBVIOUS
  <2>2. k \in Objects  BY <1>2, <2>1, ElementOfSeq
  <2>3. q \in Objects
    <3>1. Len(f.done) \in Nat /\ Len(Parts(e)) \in Nat  BY <1>2, LenProperties
    <3>2. j \in 1 .. Len(Parts(e))  BY <1>4, <3>1
    <3>3. q \in Originals  BY <1>2, <2>1, <3>2, ElementOfSeq
    <3> QED  BY <3>3, StackedFacts
  <2>4. Settled(k)'
    <3>1. Settled(k)  BY <1>4, <2>1
    <3> QED  BY <3>1, SettledStays
  <2>5. k \in Local(f.st)'
    <3>1. k \in Local(f.st)  BY <1>4, <2>1
    <3> QED  BY <1>3, <3>1, LocalStays
  <2>6. heap'[k].op = heap'[q].op  BY <1>4, <2>1, <2>2, <2>3 DEF Steady
  <2>7. e.op = "context" => heap'[k].of = q /\ heap'[k].in = f.obj
    BY <1>4, <2>1, <2>2 DEF Steady
  <2> QED  BY <2>1, <2>4, <2>5, <2>6, <2>7
<1>8. Source(f)' = e  BY <1>5 DEF Source
<1>9. Parts(Source(f))' = Parts(e) /\ Source(f)'.op = e.op
  BY <1>8 DEF Parts, CalleeOf
<1> QED  BY <1>4, <1>6, <1>7, <1>8, <1>9 DEF FrameIs

(* A table that stays as it is. *)
LEMMA TableStays ==
  ASSUME TInv, TInv', Known, Steady, NEW c \in DOMAIN accessible, TableIs(c),
         accessible'[c] = accessible[c]
  PROVE  TableIs(c)'
<1>1. c \in Objects  BY HeapFacts DEF TInv, TablesTyped
<1>2. heap'[c].op = "context"  BY <1>1 DEF Steady, TableIs
<1>3. ASSUME NEW x \in Names, accessible[c][x] # None
      PROVE  /\ Settled(accessible[c][x])' /\ accessible[c][x] \in Local(c)'
             /\ heap'[accessible[c][x]].op = "symbol"
  <2>1. PICK k : k = accessible[c][x]  OBVIOUS
  <2>2. Settled(k) /\ k \in Local(c) /\ heap[k].op = "symbol"  BY <1>3, <2>1 DEF TableIs
  <2>3. k \in Objects  BY <2>2 DEF Settled
  <2>4. heap'[k].op = "symbol"  BY <2>2, <2>3 DEF Steady
  <2>5. Settled(k)' /\ k \in Local(c)'  BY <1>1, <2>2, LocalStays, SettledStays
  <2>6. accessible'[c][x] = k  BY <2>1
  <2> QED  BY <2>1, <2>4, <2>5, <2>6
<1> QED  BY <1>2, <1>3 DEF TableIs

-----------------------------------------------------------------------------
(* Nothing that is linked to depends on an object that is under way. *)
LEMMA FoundedStays ==
  ASSUME Founded, NEW o, Objects' \subseteq Objects \cup {o},
         \A x \in Objects' : x # o => heap'[x] = heap[x],
         \A x \in Objects' : o \notin Elements(Dependencies(heap'[x]))
  PROVE  Founded'
<1> SUFFICES ASSUME NEW S \in SUBSET Objects', S # {}
             PROVE  \E x \in S : Elements(Dependencies(heap'[x])) \cap S = {}
  BY DEF Founded, Dependencies, CalleeOf, Elements
<1>1. CASE S = {o}  BY <1>1
<1>2. CASE S # {o}
  <2>1. PICK R : R = S \ {o}  OBVIOUS
  <2>2. R \in SUBSET Objects /\ R # {}  BY <1>2, <2>1
  <2>3. PICK x \in R : Elements(Dependencies(heap[x])) \cap R = {}  BY <2>2 DEF Founded
  <2>4. x \in S /\ x \in Objects' /\ heap'[x] = heap[x]  BY <2>1, <2>3
  <2>5. PICK D : D = Elements(Dependencies(heap[x]))  OBVIOUS
  <2>6. Elements(Dependencies(heap'[x])) = D  BY <2>4, <2>5
  <2>7. o \notin D  BY <2>4, <2>6
  <2>8. D \cap S = {}  BY <2>1, <2>3, <2>5, <2>7
  <2> QED  BY <2>4, <2>6, <2>8
<1> QED  BY <1>1, <1>2

LEMMA DependenciesUsed ==
  ASSUME NEW e \in Expr
  PROVE  Elements(Dependencies(e)) \subseteq Uses(e)
BY UsesFacts DEF Uses

(* What an activation goes through does not change. *)
LEMMA SourceStays ==
  ASSUME TInv, Steady, NEW f \in Frames
  PROVE  /\ Source(f)' = Source(f) /\ Wants(f)' = Wants(f) /\ Wanted(f)' = Wanted(f)
<1>1. f.src \in Originals  BY FrameFacts
<1>2. heap'[f.src] = heap[f.src]  BY <1>1, StackedFacts DEF Steady
<1>3. Source(f)' = Source(f)  BY <1>2 DEF Source
<1> QED  BY <1>3 DEF Wants, Wanted, Parts, CalleeOf

LEMMA WantedFacts ==
  ASSUME TInv, NEW f \in Frames, Wants(f)
  PROVE  /\ Wanted(f) \in Originals
         /\ Wanted(f) \in Elements(Parts(Source(f)))
         /\ Len(f.done) + 1 \in 1 .. Len(Parts(Source(f)))
<1>1. Len(f.done) \in Nat /\ Len(Parts(Source(f))) \in Nat  BY FrameFacts
<1>2. Len(f.done) + 1 \in 1 .. Len(Parts(Source(f)))  BY <1>1 DEF Wants
<1>3. Wanted(f) \in Elements(Parts(Source(f)))  BY <1>2 DEF Wanted, Elements
<1> QED  BY <1>2, <1>3, FrameFacts

(* A part is in the context that the table of its copy is of. *)
LEMMA PartPlace ==
  ASSUME EInv, NEW f \in Frames, FrameIs(f), Wants(f), CapturesCopied(f.st) = {}
  PROVE  heap[f.st].of = heap[Wanted(f)].in
<1>1. TInv /\ Known  BY DEF EInv, CInv, Known
<1>2. PICK s, e, k : s = f.src /\ e = heap[s] /\ k = Wanted(f)  OBVIOUS
<1>3. s \in Originals /\ f.obj \in Copies /\ Source(f) = e
  BY <1>1, <1>2, FrameFacts DEF Source
<1>4. k \in Elements(Parts(e))  BY <1>1, <1>2, <1>3, WantedFacts
<1>5. /\ heap[f.obj].of = s
      /\ f.st = IF e.op = "context" THEN f.obj ELSE heap[f.obj].in
  BY <1>2, <1>3 DEF FrameIs
<1>6. e.op # "context" => s \notin Captures  BY <1>3, <1>5 DEF CapturesCopied
<1>7. heap[k].in = IF e.op = "context" THEN s ELSE e.in
  <2>1. ASSUME e.op = "context" PROVE s \notin Captures
    <3> SUFFICES ASSUME NEW n \in Originals, s \in Elements(heap[n].captures) PROVE FALSE
      BY <1>1, <1>3 DEF Captures, TInv, ProgramKept
    <3>1. heap[s].op = "symbol"  BY <1>1, ScopeFacts
    <3> QED  BY <3>1, <2>1, <1>2
  <2>2. s \notin Captures  BY <2>1, <1>6
  <2> QED  BY <2>2, <1>1, <1>2, <1>3, <1>4, ScopeFacts
<1>8. CASE e.op = "context"  BY <1>2, <1>5, <1>7, <1>8
<1>9. CASE e.op # "context"
  <2>1. f.obj \in Objects  BY <1>1, <1>3, HeapFacts
  <2>2. heap[f.obj].op # "context"  BY <1>1, <1>2, <1>5, <1>9, <2>1 DEF Known, ObjectIs
  <2>3. heap[f.obj].in # None  BY <1>3, <2>2 DEF EInv, CopyIs
  <2>4. CapturesCopied(heap[f.obj].in) = {}  BY <1>5, <1>9
  <2>5. heap[heap[f.obj].in].of = heap[s].in  BY <1>3, <1>5, <2>3, <2>4 DEF EInv, PlacesKept
  <2> QED  BY <1>2, <1>5, <1>7, <1>9, <2>5
<1> QED  BY <1>8, <1>9
-----------------------------------------------------------------------------
LEMMA BlankIs ==
  ASSUME TInv, NEW src \in Originals, NEW st \in Nat, NEW b, b = Blank(src, st)
  PROVE  /\ b \in Expr /\ b.in = st /\ b.of = src /\ b.op = heap[src].op
         /\ b.name = heap[src].name /\ b.kids = << >>
         /\ Uses(b) = {} /\ Elements(b.captures) = {}
<1>1. PICK e : e = heap[src]  OBVIOUS
<1>2. e \in Expr /\ e.of = src  BY <1>1, ScopeFacts
<1>3. PICK z : z = << >>  OBVIOUS
<1>4. z \in Seq(Nat) /\ Elements(z) = {}  BY <1>3, EmptySeq, Nothing
<1>5. b = [e EXCEPT !.kids = z, !.callee = None, !.params = z,
                    !.captures = z, !.locals = z, !.in = st]
  BY <1>1, <1>3 DEF Blank
<1>6. /\ b.kids = z /\ b.callee = None /\ b.params = z /\ b.captures = z /\ b.in = st
      /\ b.of = src /\ b.op = e.op /\ b.name = e.name
  BY <1>2, <1>5 DEF Expr
<1>7. b \in Expr  BY BlankFacts
<1>8. Elements(CalleeOf(b)) = {}  BY <1>6, <1>7, LinksFacts
<1>9. Uses(b) = {}  BY <1>4, <1>6, <1>8 DEF Uses
<1> QED  BY <1>1, <1>3, <1>4, <1>6, <1>7, <1>9

(* A copy is begun. *)
LEMMA BeginKeeps ==
  ASSUME EInv, CInv', NEW src \in Originals, NEW st \in Nat, Begin(stack, src, st),
         \/ stack = << >> /\ st = None /\ heap[src].op = "context"
         \/ stack # << >> /\ Wants(Top) /\ src = Wanted(Top) /\ st = Top.st,
         program' = program
  PROVE  EInv'
<1>1. TInv /\ TInv' /\ Known  BY DEF EInv, CInv, Known
<1>2. PICK b, n, own, g, N :
        /\ b = Blank(src, st) /\ n = NewObj
        /\ own = IF heap[src].op = "context" THEN n ELSE st
        /\ g = Activation(src, n, own) /\ N = Len(stack)
  OBVIOUS
<1>3. /\ b \in Expr /\ b.in = st /\ b.of = src /\ b.op = heap[src].op
      /\ b.name = heap[src].name /\ b.kids = << >>
      /\ Uses(b) = {} /\ Elements(b.captures) = {}
  <2>1. b = Blank(src, st)  BY <1>2
  <2> HIDE <1>2
  <2> QED  BY <1>1, <2>1, BlankIs
<1>4. /\ heap' = Append(heap, b) /\ stack' = Append(stack, g)
      /\ accessible' = IF heap[src].op = "context"
                       THEN [c \in DOMAIN accessible \cup {n} |->
                               IF c = n THEN NoNames ELSE accessible[c]]
                       ELSE accessible
  BY <1>2 DEF Begin
<1>5. /\ n = Len(heap) + 1 /\ Len(heap) \in Nat /\ Len(heap') = n
      /\ heap'[n] = b /\ \A x \in Objects : heap'[x] = heap[x] /\ x \in Nat /\ x < n
  <2>1. heap \in Seq(Expr) /\ Len(heap) \in Nat /\ Objects = 1 .. Len(heap)
    BY <1>1, HeapFacts DEF TInv
  <2>2. /\ Len(Append(heap, b)) = Len(heap) + 1 /\ Append(heap, b)[Len(heap) + 1] = b
        /\ \A x \in 1 .. Len(heap) : Append(heap, b)[x] = heap[x]
    BY <1>3, <2>1, AppendProperties
  <2> QED  BY <1>2, <1>4, <2>1, <2>2 DEF NewObj
<1>6. /\ Objects' = Objects \cup {n} /\ Copies' = Copies \cup {n}
      /\ Originals' = Originals /\ n \notin Objects
      /\ Copies \subseteq Objects /\ Originals \subseteq Objects
  <2>1. Objects = 1 .. Len(heap) /\ Objects' = 1 .. Len(heap')  BY DEF Objects
  <2>2. Objects' = Objects \cup {n} /\ n \notin Objects  BY <1>5, <2>1
  <2>3. Originals' = Originals /\ Originals \subseteq Objects  BY <1>1, HeapFacts DEF Originals
  <2> QED  BY <2>2, <2>3 DEF Copies
<1>7. /\ N \in Nat /\ Len(stack') = N + 1 /\ stack'[N + 1] = g
      /\ \A i \in 1 .. N : stack'[i] = stack[i] /\ stack[i] \in Frames
  <2>1. stack \in Seq(Frames) /\ N \in Nat  BY <1>1, <1>2, LenProperties DEF TInv
  <2>2. \A i \in 1 .. N : stack[i] \in Frames  BY <1>2, <2>1, ElementOfSeq
  <2>3. stack \in Seq(Frames \cup {g})  BY <2>1, Monotone
  <2>4. /\ Len(Append(stack, g)) = N + 1 /\ Append(stack, g)[N + 1] = g
        /\ \A i \in 1 .. N : Append(stack, g)[i] = stack[i]
    BY <1>2, <2>3, AppendProperties
  <2> QED  BY <1>4, <2>1, <2>2, <2>4
<1>8. g.src = src /\ g.obj = n /\ g.st = own /\ g.done = << >>
  BY <1>2 DEF Activation
<1>9. Stacked' = Stacked \cup {n}
  <2>1. Stacked' = {stack'[i].obj : i \in 1 .. N + 1}  BY <1>7 DEF Stacked
  <2>2. \A i \in 1 .. N + 1 : i \in 1 .. N \/ i = N + 1  BY <1>7
  <2>3. \A i \in 1 .. N : i \in 1 .. N + 1  BY <1>7
  <2>4. N + 1 \in 1 .. N + 1  BY <1>7
  <2>5. Stacked = {stack[i].obj : i \in 1 .. N}  BY <1>2 DEF Stacked
  <2> QED  BY <1>7, <1>8, <2>1, <2>2, <2>3, <2>4, <2>5
<1>10. Steady
  <2>1. \A o \in Objects : o \notin Stacked => o \notin Stacked'  BY <1>6, <1>9
  <2> QED  BY <1>5, <1>6, <2>1 DEF Steady
<1>11. heap'[src] = heap[src] /\ src \in Objects  BY <1>5, <1>6
<1>12. \A o \in Objects' : ObjectIs(o)'
  <2>1. ASSUME NEW o \in Objects PROVE ObjectIs(o)'
    BY <1>1, <1>5, <1>10, ObjectStays
  <2>2. ObjectIs(n)'
    <3>1. Uses(heap[n])' = {} /\ Elements(heap'[n].captures) = {} /\ Elements(CalleeOf(heap[n]))' = {}
      BY <1>3, <1>5 DEF Uses, CalleeOf
    <3>2. heap'[n].of \in Originals' /\ heap'[n].op = heap'[heap'[n].of].op
          /\ heap'[n].name = heap'[heap'[n].of].name
      BY <1>3, <1>5, <1>6, <1>11
    <3> QED  BY <3>1, <3>2 DEF ObjectIs
  <2> QED  BY <1>6, <2>1, <2>2
<1>13. st # None => /\ stack # << >> /\ N \in 1 .. N /\ Top = stack[N] /\ Top \in Frames
                    /\ FrameIs(Top) /\ st \in Copies /\ heap[st].op = "context"
  <2> SUFFICES ASSUME st # None
               PROVE  /\ stack # << >> /\ N \in 1 .. N /\ Top = stack[N] /\ Top \in Frames
                      /\ FrameIs(Top) /\ st \in Copies /\ heap[st].op = "context"
    OBVIOUS
  <2>1. stack # << >> /\ st = Top.st  OBVIOUS
  <2>2. N \in 1 .. N /\ Top = stack[N] /\ Top \in Frames  BY <1>1, <1>2, <2>1, StackFacts
  <2>3. FrameIs(Top)  BY <1>2, <2>2 DEF EInv
  <2>4. st \in Copies  BY <1>1, <2>1, <2>2, FrameFacts DEF TInv, TablesTyped
  <2> QED  BY <2>1, <2>2, <2>3, <2>4 DEF FrameIs
<1>14. stack # << >> => st # None
  <2> SUFFICES ASSUME stack # << >> PROVE st # None  OBVIOUS
  <2>1. Top \in Frames /\ st = Top.st  BY <1>1, StackFacts
  <2>2. st \in Copies  BY <1>1, <2>1, FrameFacts DEF TInv, TablesTyped
  <2> QED  BY <1>1, <2>2, HeapFacts DEF None
<1>15. \A o \in Copies' : CopyIs(o)'
  <2>1. ASSUME NEW o \in Copies PROVE CopyIs(o)'
    <3>1. CopyIs(o) /\ heap'[o] = heap[o]  BY <1>5, <1>6 DEF EInv
    <3> QED  BY <1>1, <1>10, <3>1, CopyStays
  <2>2. CopyIs(n)'
    <3>1. st = None \/ (st \in Copies' /\ heap'[st].op = "context")
      BY <1>5, <1>6, <1>13
    <3>2. b.op # "context" => st # None  BY <1>3, <1>14
    <3>3. Elements(b.kids) \cup Elements(CalleeOf(b)) = {}  BY <1>3 DEF Uses
    <3>4. heap'[n] = b /\ CalleeOf(heap[n])' = CalleeOf(b)  BY <1>5 DEF CalleeOf
    <3> QED  BY <1>3, <3>1, <3>2, <3>3, <3>4 DEF CopyIs
  <2> QED  BY <1>6, <2>1, <2>2
<1>16. \A i \in 1 .. Len(stack') : FrameIs(stack[i])'
  <2>1. ASSUME NEW i \in 1 .. N PROVE FrameIs(stack[i])'
    <3>1. PICK f : f = stack[i]  OBVIOUS
    <3>2. f \in Frames /\ FrameIs(f) /\ stack'[i] = f  BY <1>2, <1>7, <3>1 DEF EInv
    <3>3. FrameIs(f)'  BY <1>1, <1>10, <3>2, FrameStays
    <3> QED  BY <3>2, <3>3
  <2>2. FrameIs(g)'
    <3>1. Source(g)' = heap[src]  BY <1>8, <1>11 DEF Source
    <3>2. heap'[g.obj].of = g.src /\ heap'[g.obj].in = st  BY <1>3, <1>5, <1>8
    <3>3. heap'[g.st].op = "context"
      <4>1. CASE heap[src].op = "context"  BY <1>2, <1>3, <1>5, <1>8, <4>1
      <4>2. CASE heap[src].op # "context"
        <5>1. st # None  BY <1>14, <4>2
        <5>2. st \in Copies /\ heap[st].op = "context"  BY <1>13, <5>1
        <5> QED  BY <1>2, <1>5, <1>6, <1>8, <4>2, <5>2
      <4> QED  BY <4>1, <4>2
    <3>4. g.st = IF heap[src].op = "context" THEN g.obj ELSE st  BY <1>2, <1>8
    <3>5. Len(g.done) = 0  BY <1>8, EmptySeq
    <3>6. Len(Parts(heap[src])) \in Nat  BY <1>1, SourceFacts, LenProperties
    <3>7. Parts(Source(g))' = Parts(heap[src])  BY <3>1 DEF Parts, CalleeOf
    <3>8. Len(g.done) <= Len(Parts(Source(g))')  BY <3>5, <3>6, <3>7
    <3>9. 1 .. Len(g.done) = {}  BY <3>5
    <3> QED  BY <3>1, <3>2, <3>3, <3>4, <3>8, <3>9 DEF FrameIs
  <2>3. \A i \in 1 .. Len(stack') : i \in 1 .. N \/ i = N + 1  BY <1>7
  <2> QED  BY <1>7, <2>1, <2>2, <2>3
<1>17. FramesLinked'
  <2>1. ASSUME NEW i \in 1 .. N + 1, NEW j \in 1 .. N + 1, i < j
        PROVE  stack'[i].obj < stack'[j].obj
    <3>1. i \in 1 .. N  BY <1>7, <2>1
    <3>2. CASE j \in 1 .. N  BY <1>2, <1>7, <2>1, <3>1, <3>2 DEF EInv, FramesLinked
    <3>3. CASE j = N + 1
      <4>1. stack[i].obj \in Copies  BY <1>1, <1>7, <3>1, FrameFacts
      <4> QED  BY <1>5, <1>6, <1>7, <1>8, <3>1, <3>3, <4>1
    <3> QED  BY <1>7, <3>2, <3>3
  <2>2. ASSUME NEW i \in 1 .. N + 1, i < N + 1
        PROVE  /\ Wants(stack[i])' /\ stack'[i + 1].src = Wanted(stack[i])'
               /\ heap'[stack'[i + 1].obj].in = stack'[i].st
    <3>1. i \in 1 .. N  BY <1>7, <2>2
    <3>2. PICK f : f = stack[i]  OBVIOUS
    <3>3. f \in Frames /\ stack'[i] = f  BY <1>7, <3>1, <3>2
    <3>4. Wants(f)' = Wants(f) /\ Wanted(f)' = Wanted(f)  BY <1>1, <1>10, <3>3, SourceStays
    <3>5. CASE i < N
      <4>1. i + 1 \in 1 .. N  BY <1>7, <3>1, <3>5
      <4>2. /\ Wants(f) /\ stack[i + 1].src = Wanted(f)
            /\ heap[stack[i + 1].obj].in = f.st
        BY <1>2, <3>1, <3>2, <3>5 DEF EInv, FramesLinked
      <4>3. stack'[i + 1] = stack[i + 1] /\ stack[i + 1].obj \in Objects
        BY <1>1, <1>6, <1>7, <4>1, FrameFacts
      <4> QED  BY <1>5, <3>3, <3>4, <4>2, <4>3
    <3>6. CASE i = N
      <4>1. stack # << >>
        <5>1. Len(stack) # 0  BY <1>2, <1>7, <3>1
        <5> QED  BY <5>1, EmptySeq
      <4>2. f = Top /\ Wants(f) /\ src = Wanted(f) /\ st = f.st
        BY <1>1, <1>2, <3>2, <3>6, <4>1, StackFacts
      <4>3. stack'[i + 1] = g  BY <1>7, <3>6
      <4> QED  BY <1>3, <1>5, <1>8, <3>3, <3>4, <4>2, <4>3
    <3> QED  BY <1>7, <3>1, <3>5, <3>6
  <2> QED  BY <1>7, <2>1, <2>2 DEF FramesLinked
<1>18. \A c \in DOMAIN accessible' : TableIs(c)'
  <2>1. ASSUME NEW c \in DOMAIN accessible PROVE TableIs(c)'
    <3>1. c \in Copies  BY <1>1 DEF TInv, TablesTyped
    <3>2. c # n  BY <1>6, <3>1
    <3>3. accessible'[c] = accessible[c]  BY <1>4, <2>1, <3>2
    <3>4. TableIs(c)  BY <2>1 DEF EInv
    <3> QED  BY <1>1, <1>10, <2>1, <3>3, <3>4, TableStays
  <2>2. ASSUME heap[src].op = "context" PROVE TableIs(n)'
    <3>1. accessible'[n] = NoNames  BY <1>4, <2>2
    <3>2. heap'[n].op = "context"  BY <1>3, <1>5, <2>2
    <3>3. \A x \in Names : accessible'[n][x] = None  BY <3>1 DEF NoNames
    <3> QED  BY <3>2, <3>3 DEF TableIs
  <2>3. \A c \in DOMAIN accessible' :
          c \in DOMAIN accessible \/ (c = n /\ heap[src].op = "context")
    BY <1>4
  <2> QED  BY <2>1, <2>2, <2>3
<1>19. PlacesKept'
  <2> SUFFICES ASSUME NEW o \in Copies', NEW c, c = heap'[o].in, c # None,
                      CapturesCopied(c)' = {}
               PROVE  heap'[c].of = heap'[heap'[o].of].in
    BY DEF PlacesKept
  <2>1. CapturesCopied(c) = {}
    <3>1. Captures' = Captures  BY <1>6 DEF Captures
    <3>2. \A x \in Copies :
            x \in Copies' /\ heap'[x].of = heap[x].of /\ heap'[x].in = heap[x].in
      BY <1>5, <1>6
    <3> QED  BY <3>1, <3>2 DEF CapturesCopied
  <2>2. CASE o \in Copies
    <3>1. heap'[o] = heap[o] /\ o \in Objects  BY <1>5, <1>6, <2>2
    <3>2. heap[heap[o].in].of = heap[heap[o].of].in  BY <2>1, <2>2, <3>1 DEF EInv, PlacesKept
    <3>3. heap[o].in \in Copies  BY <2>2, <3>1 DEF EInv, CopyIs
    <3>4. heap[o].of \in Originals  BY <3>1 DEF EInv, ObjectIs
    <3> QED  BY <1>5, <1>6, <3>1, <3>2, <3>3, <3>4
  <2>3. CASE o = n
    <3>1. st # None  BY <1>3, <1>5, <2>3
    <3>2. Top \in Frames /\ FrameIs(Top) /\ st \in Copies /\ stack # << >>  BY <1>13, <3>1
    <3>3. Wants(Top) /\ src = Wanted(Top) /\ st = Top.st  BY <3>2
    <3>4. CapturesCopied(Top.st) = {}  BY <2>1, <2>3, <3>3, <1>3, <1>5
    <3>5. heap[st].of = heap[src].in  BY <3>2, <3>3, <3>4, PartPlace
    <3> QED  BY <1>3, <1>5, <1>6, <1>11, <2>3, <3>2, <3>5
  <2> QED  BY <1>6, <2>2, <2>3
<1>20. Founded'
  <2>1. Founded /\ Objects' \subseteq Objects \cup {n}  BY <1>6 DEF EInv
  <2>2. \A x \in Objects' : x # n => heap'[x] = heap[x]  BY <1>5, <1>6
  <2>3. ASSUME NEW x \in Objects' PROVE n \notin Elements(Dependencies(heap'[x]))
    <3>1. CASE x = n
      <4>1. Elements(Dependencies(b)) \subseteq Uses(b)  BY <1>3, DependenciesUsed
      <4> QED  BY <1>3, <1>5, <3>1, <4>1
    <3>2. CASE x \in Objects
      <4>1. heap[x] \in Expr  BY <1>1, <3>2, HeapFacts
      <4>2. \A k \in Elements(Dependencies(heap[x])) : k \in Objects
        BY <1>1, <3>2, <4>1, DependenciesUsed DEF Known, ObjectIs, Settled
      <4> QED  BY <1>5, <1>6, <3>2, <4>2
    <3> QED  BY <1>6, <3>1, <3>2
  <2> QED  BY <2>1, <2>2, <2>3, FoundedStays
<1> QED
  BY <1>12, <1>15, <1>16, <1>17, <1>18, <1>19, <1>20 DEF EInv

-----------------------------------------------------------------------------
LEMMA LinkedStays ==
  ASSUME TInv, FramesLinked, Steady, Len(stack') <= Len(stack), Len(stack') \in Nat,
         \A i \in 1 .. Len(stack') :
           /\ stack'[i].obj = stack[i].obj /\ stack'[i].st = stack[i].st
           /\ stack'[i].src = stack[i].src
           /\ i < Len(stack') => stack'[i] = stack[i]
  PROVE  FramesLinked'
<1>1. Len(stack) \in Nat /\ \A i \in 1 .. Len(stack) : stack[i] \in Frames
  BY LenProperties, ElementOfSeq DEF TInv
<1>2. \A i \in 1 .. Len(stack') : i \in 1 .. Len(stack)  BY <1>1
<1>3. \A i \in 1 .. Len(stack') : \A j \in 1 .. Len(stack') :
        i < j => stack'[i].obj < stack'[j].obj
  BY <1>2 DEF FramesLinked
<1>4. ASSUME NEW i \in 1 .. Len(stack'), i < Len(stack')
      PROVE  /\ Wants(stack[i])' /\ stack'[i + 1].src = Wanted(stack[i])'
             /\ heap'[stack'[i + 1].obj].in = stack'[i].st
  <2>1. i \in 1 .. Len(stack) /\ i < Len(stack) /\ i + 1 \in 1 .. Len(stack')
        /\ i + 1 \in 1 .. Len(stack)
    BY <1>1, <1>4
  <2>2. PICK f, o : f = stack[i] /\ o = stack[i + 1].obj  OBVIOUS
  <2>3. f \in Frames /\ stack'[i] = f /\ stack'[i + 1].src = stack[i + 1].src /\ stack'[i + 1].obj = o
    BY <1>1, <1>4, <2>1, <2>2
  <2>4. Wants(f) /\ stack[i + 1].src = Wanted(f) /\ heap[o].in = f.st
    BY <2>1, <2>2 DEF FramesLinked
  <2>5. Wants(f)' = Wants(f) /\ Wanted(f)' = Wanted(f)  BY <2>3, SourceStays
  <2>6. o \in Objects  BY <1>1, <2>1, <2>2, FrameFacts, HeapFacts
  <2>7. heap'[o].in = heap[o].in  BY <2>6 DEF Steady
  <2> QED  BY <2>3, <2>4, <2>5, <2>7
<1> QED  BY <1>3, <1>4 DEF FramesLinked

LEMMA PlacesStay ==
  ASSUME EInv, Steady, Copies' = Copies
  PROVE  PlacesKept'
<1> SUFFICES ASSUME NEW o \in Copies, NEW c, c = heap'[o].in, c # None, CapturesCopied(c)' = {}
             PROVE  heap'[c].of = heap'[heap'[o].of].in
  BY DEF PlacesKept
<1>1. TInv /\ Copies \subseteq Objects  BY HeapFacts DEF EInv, CInv
<1>2. CapturesCopied(c) = {}
  <2>1. Captures' = Captures  BY DEF Steady, Captures, Originals
  <2>2. \A x \in Copies : heap'[x].of = heap[x].of /\ heap'[x].in = heap[x].in
    BY <1>1 DEF Steady
  <2> QED  BY <2>1, <2>2 DEF CapturesCopied
<1>3. heap'[o].in = heap[o].in /\ heap'[o].of = heap[o].of  BY <1>1 DEF Steady
<1>4. heap[heap[o].in].of = heap[heap[o].of].in  BY <1>2, <1>3 DEF EInv, PlacesKept
<1>5. heap[o].in \in Objects  BY <1>1, <1>3 DEF EInv, CopyIs
<1>6. heap[o].of \in Objects
  <2>1. ObjectIs(o)  BY <1>1 DEF EInv
  <2> QED  BY <1>1, <2>1, StackedFacts DEF ObjectIs
<1> QED  BY <1>3, <1>4, <1>5, <1>6 DEF Steady

(* An activation gets its next part. *)
LEMMA FrameGoesOn ==
  ASSUME TInv, TInv', Known, Steady, NEW f \in Frames, FrameIs(f), Wants(f), NEW k,
         Settled(k)', k \in Local(f.st)', heap'[k].op = heap[Wanted(f)].op,
         Source(f).op = "context" => heap'[k].of = Wanted(f) /\ heap'[k].in = f.obj,
         NEW g, g.src = f.src, g.obj = f.obj, g.st = f.st, g.done = Append(f.done, k)
  PROVE  FrameIs(g)'
<1>1. PICK e, d : e = heap[f.src] /\ d = Append(f.done, k)  OBVIOUS
<1>2. /\ Source(f) = e /\ Source(f)' = e /\ f.done \in Seq(Objects) /\ Len(f.done) \in Nat
      /\ f.st \in Copies
  <2>1. Source(f) = e  BY <1>1 DEF Source
  <2> QED  BY <2>1, SourceStays, FrameFacts DEF TInv, TablesTyped
<1>3. Source(g)' = e /\ Parts(Source(g))' = Parts(e)
  <2>1. Source(g)' = Source(f)'  BY DEF Source
  <2> QED  BY <1>2, <2>1 DEF Parts, CalleeOf
<1>4. FrameIs(f)'  BY FrameStays
<1>5. Parts(Source(f))' = Parts(e)  BY <1>2 DEF Parts, CalleeOf
<1>6. /\ heap'[f.obj].of = f.src /\ heap'[f.st].op = "context"
      /\ f.st = IF e.op = "context" THEN f.obj ELSE heap'[f.obj].in
      /\ \A j \in 1 .. Len(f.done) :
           /\ Settled(f.done[j])' /\ f.done[j] \in Local(f.st)'
           /\ heap'[f.done[j]].op = heap'[Parts(e)[j]].op
           /\ e.op = "context" => heap'[f.done[j]].of = Parts(e)[j] /\ heap'[f.done[j]].in = f.obj
  BY <1>2, <1>4, <1>5 DEF FrameIs
<1>7. /\ Len(f.done) + 1 <= Len(Parts(e)) /\ Wanted(f) \in Originals
      /\ Wanted(f) = Parts(e)[Len(f.done) + 1]
  <2>1. Len(f.done) + 1 \in 1 .. Len(Parts(e)) /\ Wanted(f) \in Originals
    BY <1>2, WantedFacts
  <2> QED  BY <1>2, <2>1 DEF Wanted
<1>8. heap'[Wanted(f)] = heap[Wanted(f)]
  BY <1>7, StackedFacts DEF Steady
<1>9. /\ Len(d) = Len(f.done) + 1 /\ d[Len(f.done) + 1] = k
      /\ \A j \in 1 .. Len(f.done) : d[j] = f.done[j]
  <2>1. f.done \in Seq(Objects \cup {k})  BY <1>2, Monotone
  <2> QED  BY <1>1, <2>1, AppendProperties
<1>10. ASSUME NEW j \in 1 .. Len(d)
       PROVE  /\ Settled(d[j])' /\ d[j] \in Local(f.st)'
              /\ heap'[d[j]].op = heap'[Parts(e)[j]].op
              /\ e.op = "context" => heap'[d[j]].of = Parts(e)[j] /\ heap'[d[j]].in = f.obj
  <2>1. CASE j \in 1 .. Len(f.done)
    <3>1. PICK x : x = f.done[j]  OBVIOUS
    <3>2. d[j] = x  BY <1>9, <2>1, <3>1
    <3>3. /\ Settled(x)' /\ x \in Local(f.st)'
          /\ heap'[x].op = heap'[Parts(e)[j]].op
          /\ e.op = "context" => heap'[x].of = Parts(e)[j] /\ heap'[x].in = f.obj
      BY <1>6, <2>1, <3>1
    <3> QED  BY <3>2, <3>3
  <2>2. CASE j = Len(f.done) + 1
    <3>1. d[j] = k /\ Parts(e)[j] = Wanted(f)  BY <1>7, <1>9, <2>2
    <3> QED  BY <1>2, <1>8, <3>1
  <2> QED  BY <1>2, <1>9, <2>1, <2>2
<1>11. Local(g.st)' = Local(f.st)'  BY DEF Local
<1>12. \A j \in 1 .. Len(d) : Settled(d[j])' /\ d[j] \in Local(g.st)'
  BY <1>10, <1>11
<1>13. Len(d) <= Len(Parts(e))  BY <1>7, <1>9
<1>14. g.done = d  BY <1>1
<1> QED  BY <1>3, <1>6, <1>10, <1>12, <1>13, <1>14 DEF FrameIs

(* A step that changes no object. *)
LEMMA ObjectsStay ==
  ASSUME EInv, CInv', program' = program, heap' = heap, Stacked' \subseteq Stacked
  PROVE  /\ Steady /\ TInv' /\ Copies' = Copies
         /\ \A o \in Objects' : ObjectIs(o)'
         /\ \A o \in Copies' : CopyIs(o)'
         /\ PlacesKept' /\ Founded'
<1>1. TInv /\ TInv' /\ Known  BY DEF EInv, CInv, Known
<1>2. Objects' = Objects /\ Copies' = Copies  BY DEF Objects, Copies, Originals
<1>3. Steady  BY <1>2 DEF Steady
<1>4. \A o \in Objects' : ObjectIs(o)'  BY <1>1, <1>2, <1>3, ObjectStays
<1>5. ASSUME NEW o \in Copies PROVE CopyIs(o)'
  <2>1. CopyIs(o)  BY DEF EInv
  <2> QED  BY <1>1, <1>3, <2>1, CopyStays
<1>6. Founded'
  BY <1>2 DEF EInv, Founded, Dependencies, CalleeOf
<1> QED  BY <1>1, <1>2, <1>3, <1>4, <1>5, <1>6, PlacesStay

LEMMA StackedSame ==
  ASSUME Len(stack') <= Len(stack), Len(stack) \in Nat, Len(stack') \in Nat,
         \A i \in 1 .. Len(stack') : stack'[i].obj = stack[i].obj
  PROVE  Stacked' \subseteq Stacked
<1>1. \A i \in 1 .. Len(stack') : i \in 1 .. Len(stack)  OBVIOUS
<1> QED  BY <1>1 DEF Stacked

LEMMA ResolveKeeps == ASSUME EInv, CInv', Resolve PROVE EInv'
<1>1. TInv /\ TInv' /\ Known /\ stack # << >>  BY DEF EInv, CInv, Known, Resolve, Busy
<1>2. PICK f, k, a, N : f = Top /\ k = Lookup(Top) /\ a = Append(f.done, k) /\ N = Len(stack)
  OBVIOUS
<1>3. PICK g : g = [f EXCEPT !.done = a]  OBVIOUS
<1>4. /\ Wants(f) /\ ByName(f) /\ k # None /\ stack' = Update(g)
      /\ program' = program /\ heap' = heap /\ accessible' = accessible
  BY <1>2, <1>3 DEF Resolve
<1>5. f \in Frames /\ f.st \in DOMAIN accessible /\ Wanted(f) \in Originals /\ f.done \in Seq(Objects)
  BY <1>1, <1>2, <1>4, StackFacts, FrameFacts
<1>6. k = accessible[f.st][heap[Wanted(f)].name] /\ heap[Wanted(f)].name \in Names
      /\ heap[Wanted(f)].op = "symbol" /\ Source(f).op # "context"
  <2>1. heap[Wanted(f)].name \in Names  BY <1>1, <1>4, <1>5, SourceFacts DEF ByName
  <2> QED  BY <1>2, <1>4, <2>1 DEF Lookup, ByName
<1>7. Settled(k) /\ k \in Local(f.st) /\ heap[k].op = "symbol"
  <2>1. TableIs(f.st)  BY <1>5 DEF EInv
  <2> QED  BY <1>4, <1>6, <2>1 DEF TableIs
<1>8. a \in Seq(Objects)  BY <1>2, <1>5, <1>7, AppendProperties DEF Settled
<1>9. g \in Frames /\ g.src = f.src /\ g.obj = f.obj /\ g.st = f.st /\ g.done = a
  BY <1>3, <1>5, <1>8 DEF Frames, Frame
<1>10. /\ N \in Nat \ {0} /\ f = stack[N] /\ Len(stack') = N /\ stack'[N] = g
       /\ \A i \in 1 .. N - 1 : stack'[i] = stack[i]
  BY <1>1, <1>2, <1>4, <1>9, StackFacts, Updated
<1>11. \A i \in 1 .. N : /\ stack'[i].obj = stack[i].obj /\ stack'[i].st = stack[i].st
                         /\ stack'[i].src = stack[i].src
                         /\ i < N => stack'[i] = stack[i]
  <2>1. \A i \in 1 .. N : i = N \/ i \in 1 .. N - 1  BY <1>10
  <2> QED  BY <1>9, <1>10, <2>1
<1>12. Stacked' \subseteq Stacked  BY <1>2, <1>10, <1>11, StackedSame
<1>13. /\ Steady /\ \A o \in Objects' : ObjectIs(o)'
       /\ \A o \in Copies' : CopyIs(o)'
       /\ PlacesKept' /\ Founded'
  BY <1>4, <1>12, ObjectsStay
<1>14. FrameIs(g)'
  <2>1. FrameIs(f)  BY <1>2, <1>10 DEF EInv
  <2>2. f.st \in Objects  BY <1>1, <1>5, HeapFacts DEF TInv, TablesTyped
  <2>3. Settled(k)' /\ k \in Local(f.st)'
    BY <1>1, <1>7, <1>13, <2>2, SettledStays, LocalStays
  <2>4. heap'[k].op = heap[Wanted(f)].op  BY <1>4, <1>6, <1>7
  <2> QED  BY <1>1, <1>2, <1>4, <1>5, <1>6, <1>9, <1>13, <2>1, <2>3, <2>4, FrameGoesOn
<1>15. \A i \in 1 .. Len(stack') : FrameIs(stack[i])'
  <2>1. ASSUME NEW i \in 1 .. N - 1 PROVE FrameIs(stack[i])'
    <3>1. PICK x : x = stack[i]  OBVIOUS
    <3>2. i \in 1 .. N /\ stack'[i] = x /\ x \in Frames  BY <1>1, <1>2, <1>10, <2>1, <3>1, StackFacts
    <3>3. FrameIs(x)  BY <1>2, <3>1, <3>2 DEF EInv
    <3>4. FrameIs(x)'  BY <1>1, <1>13, <3>2, <3>3, FrameStays
    <3> QED  BY <3>2, <3>4
  <2>2. FrameIs(stack[N])'  BY <1>10, <1>14
  <2>3. \A i \in 1 .. N : i = N \/ i \in 1 .. N - 1  BY <1>10
  <2> QED  BY <1>10, <2>1, <2>2, <2>3
<1>16. FramesLinked'
  BY <1>1, <1>2, <1>10, <1>11, <1>13, LinkedStays DEF EInv
<1>17. \A c \in DOMAIN accessible' : TableIs(c)'
  BY <1>1, <1>4, <1>13, TableStays DEF EInv
<1> QED  BY <1>13, <1>15, <1>16, <1>17 DEF EInv

LEMMA UnresolvedKeeps == ASSUME EInv, CInv', Unresolved PROVE EInv'
<1>1. TInv /\ TInv' /\ Known /\ stack # << >>  BY DEF EInv, CInv, Known, Unresolved, Busy
<1>2. program' = program /\ heap' = heap /\ accessible' = accessible /\ stack' = << >>
  BY DEF Unresolved
<1>3. Len(stack') = 0 /\ Len(stack) \in Nat  BY <1>1, <1>2, EmptySeq, LenProperties DEF TInv
<1>4. 1 .. Len(stack') = {} /\ Len(stack') <= Len(stack) /\ Len(stack') \in Nat  BY <1>3
<1>5. Stacked' \subseteq Stacked  BY <1>4 DEF Stacked
<1>6. /\ Steady /\ \A o \in Objects' : ObjectIs(o)'
      /\ \A o \in Copies' : CopyIs(o)'
      /\ PlacesKept' /\ Founded'
  BY <1>2, <1>5, ObjectsStay
<1>7. FramesLinked'  BY <1>4 DEF FramesLinked
<1>8. \A c \in DOMAIN accessible' : TableIs(c)'
  BY <1>1, <1>2, <1>6, TableStays DEF EInv
<1> QED  BY <1>4, <1>6, <1>7, <1>8 DEF EInv

LEMMA ShareCapturesKeeps == ASSUME EInv, CInv', ShareCaptures PROVE EInv'
<1>1. TInv /\ TInv' /\ Known /\ stack # << >>  BY DEF EInv, CInv, Known, ShareCaptures, Busy
<1>2. PICK f, o, objs, names, N :
        /\ f = Top /\ o = f.obj /\ objs = Source(f).captures /\ names = NamesOf(objs)
        /\ N = Len(stack)
  OBVIOUS
<1>3. PICK g : g = [f EXCEPT !.shared = TRUE]  OBVIOUS
<1>4. /\ stack' = Update(g) /\ accessible' = [accessible EXCEPT ![o] = Enter(@, names, objs)]
      /\ program' = program /\ heap' = heap
  BY <1>2, <1>3 DEF ShareCaptures
<1>5. f \in Frames /\ f.src \in Originals /\ f.obj \in Copies /\ Source(f) = heap[f.src]
  BY <1>1, <1>2, StackFacts, FrameFacts DEF Source
<1>6. g \in Frames /\ g.src = f.src /\ g.obj = f.obj /\ g.st = f.st /\ g.done = f.done
  BY <1>3, <1>5 DEF Frames, Frame
<1>7. /\ N \in Nat \ {0} /\ f = stack[N] /\ Len(stack') = N /\ stack'[N] = g
      /\ \A i \in 1 .. N - 1 : stack'[i] = stack[i]
  BY <1>1, <1>2, <1>4, <1>6, StackFacts, Updated
<1>8. \A i \in 1 .. N : /\ stack'[i].obj = stack[i].obj /\ stack'[i].st = stack[i].st
                        /\ stack'[i].src = stack[i].src
                        /\ i < N => stack'[i] = stack[i]
  <2>1. \A i \in 1 .. N : i = N \/ i \in 1 .. N - 1  BY <1>7
  <2> QED  BY <1>6, <1>7, <2>1
<1>9. Stacked' \subseteq Stacked  BY <1>2, <1>7, <1>8, StackedSame
<1>10. /\ Steady /\ \A x \in Objects' : ObjectIs(x)'
       /\ \A x \in Copies' : CopyIs(x)'
       /\ PlacesKept' /\ Founded'
  BY <1>4, <1>9, ObjectsStay
<1>11. \A i \in 1 .. Len(stack') : FrameIs(stack[i])'
  <2>1. ASSUME NEW i \in 1 .. N PROVE FrameIs(stack[i])'
    <3>1. PICK x, y : x = stack[i] /\ y = stack'[i]  OBVIOUS
    <3>2. x \in Frames /\ FrameIs(x)  BY <1>1, <1>2, <2>1, <3>1, StackFacts DEF EInv
    <3>3. FrameIs(x)'  BY <1>1, <1>10, <3>2, FrameStays
    <3>4. y.src = x.src /\ y.obj = x.obj /\ y.st = x.st /\ y.done = x.done
      <4>1. i = N \/ i \in 1 .. N - 1  BY <1>7
      <4> QED  BY <1>6, <1>7, <3>1, <4>1
    <3>5. Source(y)' = Source(x)'  BY <3>4 DEF Source
    <3>6. FrameIs(y)'  BY <3>3, <3>4, <3>5 DEF FrameIs
    <3> QED  BY <3>1, <3>6
  <2> QED  BY <1>7, <2>1
<1>12. FramesLinked'
  BY <1>1, <1>2, <1>7, <1>8, <1>10, LinkedStays DEF EInv
<1>13. \A c \in DOMAIN accessible' : TableIs(c)'
  <2> SUFFICES ASSUME NEW c \in DOMAIN accessible PROVE TableIs(c)'
    BY <1>4
  <2>1. TableIs(c)  BY DEF EInv
  <2>2. CASE c # o
    <3>1. accessible'[c] = accessible[c]  BY <1>4, <2>2
    <3> QED  BY <1>1, <1>10, <2>1, <3>1, TableStays
  <2>3. CASE c = o
    <3>1. accessible'[o] = Enter(accessible[o], names, objs)  BY <1>4, <2>3
    <3>2. objs \in Seq(Originals) /\ \A k \in Elements(objs) : heap[k].op = "symbol"
      <4>1. objs = heap[f.src].captures  BY <1>2, <1>5
      <4>2. objs \in Seq(Originals)  BY <1>1, <1>5, <4>1, SourceFacts
      <4> QED  BY <1>1, <1>5, <4>1, <4>2, ScopeFacts
    <3>3. objs \in Seq(Elements(objs))  BY <3>2, InElements
    <3>4. Elements(objs) \subseteq Local(o)
      <4>1. FrameIs(f)  BY <1>2, <1>7 DEF EInv
      <4>2. heap[o].of = f.src  BY <1>2, <4>1 DEF FrameIs
      <4> QED  BY <1>2, <1>5, <4>2 DEF Local
    <3>5. o \in Objects  BY <1>1, <1>2, <1>5, HeapFacts
    <3>6. \A k \in Elements(objs) : Settled(k) /\ k \in Local(o) /\ heap[k].op = "symbol"
      <4> SUFFICES ASSUME NEW k \in Elements(objs) PROVE Settled(k)
        BY <3>2, <3>4
      <4>1. k \in Originals  BY <3>2, InElements
      <4>2. heap[k].of = k  BY <1>1, <4>1, ScopeFacts
      <4> QED  BY <1>1, <4>1, <4>2, StackedFacts DEF Settled
    <3>7. ASSUME NEW x \in Names, accessible'[o][x] # None
          PROVE  /\ Settled(accessible[o][x])' /\ accessible'[o][x] \in Local(o)'
                 /\ heap'[accessible'[o][x]].op = "symbol"
      <4>1. PICK k : k = accessible'[o][x]  OBVIOUS
      <4>2. k = accessible[o][x] \/ k \in Elements(objs)  BY <3>1, <3>3, <4>1, EnterFacts
      <4>3. Settled(k) /\ k \in Local(o) /\ heap[k].op = "symbol"
        BY <2>1, <2>3, <3>6, <3>7, <4>1, <4>2 DEF TableIs
      <4>4. Settled(k)' /\ k \in Local(o)' /\ heap'[k].op = "symbol"
        BY <1>1, <1>4, <1>10, <3>5, <4>3, SettledStays, LocalStays
      <4> QED  BY <4>1, <4>4
    <3>8. heap'[o].op = "context"  BY <1>4, <2>1, <2>3 DEF TableIs
    <3> QED  BY <2>3, <3>7, <3>8 DEF TableIs
  <2> QED  BY <2>2, <2>3
<1> QED  BY <1>10, <1>11, <1>12, <1>13 DEF EInv

-----------------------------------------------------------------------------
LEMMA CutElements ==
  ASSUME NEW S, NEW s \in Seq(S), NEW m \in Nat \ {0}, NEW n \in Nat, n <= Len(s)
  PROVE  Elements(SubSeq(s, m, n)) \subseteq Elements(s)
<1>1. s \in Seq(Elements(s))  BY InElements
<1> QED  BY <1>1, CutOut

(* What a copy consists of when it is finished. *)
LEMMA FilledIs ==
  ASSUME EInv, stack # << >>, ~Wants(Top), NEW b, b = Filled(Top),
         NEW h, h = heap[Top.obj], NEW e, e = heap[Top.src], NEW d, d = Top.done
  PROVE  /\ b.of = h.of /\ b.op = h.op /\ b.name = h.name /\ e.op = h.op
         /\ Uses(b) \subseteq Elements(d) \cup Uses(h) \cup Elements(e.captures)
         /\ \A k \in Elements(b.captures) \cup Elements(CalleeOf(b)) : heap[k].op = "symbol"
         /\ e.op = "context" =>
              /\ b.captures = e.captures
              /\ heap[b.kids[1]].op = "ret" /\ heap[b.kids[1]].in = Top.obj
              /\ \A q \in Elements(e.params) :
                   \E k \in Elements(b.params) : heap[k].name = heap[q].name
              /\ \A k \in Elements(b.params) : heap[k].op = "symbol"
         /\ e.op # "context" => Elements(b.kids) \cup Elements(CalleeOf(b)) \subseteq Elements(d)
         /\ b.op = "symbol" /\ b.kids = << >> => e.kids = << >>
<1>1. TInv /\ Known  BY DEF EInv, CInv, Known
<1>2. PICK f, P, o : f = Top /\ P = Parts(e) /\ o = f.obj  OBVIOUS
<1>3. /\ f \in Frames /\ f.src \in Originals /\ o \in Copies /\ o \in Objects
      /\ Source(f) = e /\ d \in Seq(Objects) /\ d = f.done
  BY <1>1, <1>2, StackFacts, FrameFacts, HeapFacts DEF Source
<1>4. FrameIs(f)
  <2>1. Len(stack) \in 1 .. Len(stack) /\ f = stack[Len(stack)]  BY <1>1, <1>2, StackFacts
  <2> QED  BY <2>1 DEF EInv
<1>5. /\ e \in Expr /\ h \in Expr
      /\ \A k \in Elements(e.params) \cup Elements(e.captures) \cup Elements(CalleeOf(e)) :
           heap[k].op = "symbol"
      /\ e.op = "context" => Len(e.kids) = 1 /\ heap[e.kids[1]].op = "ret"
  BY <1>1, <1>2, <1>3, ScopeFacts, HeapFacts
<1>6. /\ e.params \in Seq(Nat) /\ e.locals \in Seq(Nat) /\ e.kids \in Seq(Nat)
      /\ e.captures \in Seq(Nat) /\ CalleeOf(e) \in Seq(Nat) /\ P \in Seq(Nat)
      /\ Elements(CalleeOf(e)) = IF e.callee = None THEN {} ELSE {e.callee}
  BY <1>2, <1>5, LinksFacts, UsesFacts DEF Expr
<1>7. /\ Len(d) = Len(P) /\ Len(d) \in Nat
      /\ \A j \in 1 .. Len(d) :
           /\ heap[d[j]].op = heap[P[j]].op
           /\ e.op = "context" => heap[d[j]].of = P[j] /\ heap[d[j]].in = o
  <2>1. Len(d) <= Len(P)  BY <1>2, <1>3, <1>4 DEF FrameIs
  <2>2. ~(Len(d) < Len(P))  BY <1>2, <1>3 DEF Wants
  <2>3. Len(d) \in Nat /\ Len(P) \in Nat  BY <1>3, <1>6, LenProperties
  <2>4. \A j \in 1 .. Len(d) :
           /\ heap[d[j]].op = heap[P[j]].op
           /\ e.op = "context" => heap[d[j]].of = P[j] /\ heap[d[j]].in = o
    BY <1>2, <1>3, <1>4 DEF FrameIs
  <2> QED  BY <2>1, <2>2, <2>3, <2>4
<1>8. h.of = f.src /\ e.op = h.op
  <2>1. ObjectIs(o)  BY <1>1, <1>3 DEF Known
  <2>2. heap[o].of = f.src  BY <1>4, <1>2 DEF FrameIs
  <2> QED  BY <1>2, <2>1, <2>2 DEF ObjectIs
<1>9. \A k \in Elements(h.captures) \cup Elements(CalleeOf(h)) : heap[k].op = "symbol"
  <2>1. ObjectIs(o)  BY <1>1, <1>3 DEF Known
  <2> QED  BY <1>2, <2>1 DEF ObjectIs
<1>10. CASE e.op = "context"
  <2>1. PICK p, l, m : p = Len(e.params) /\ l = Len(e.locals) /\ m = p + l + 1  OBVIOUS
  <2>16. PICK im : im = (e.immediate \/ Rest = << >>)  OBVIOUS
  <2>2. PICK ps, ls, ks : ps = SubSeq(d, 1, p) /\ ls = SubSeq(d, p + 1, p + l) /\ ks = SubSeq(d, m, m)
    OBVIOUS
  <2>3. PICK x, y, z, a : x = e.params /\ y = e.locals /\ z = e.kids /\ a = x \o y  OBVIOUS
  <2>17. /\ x \in Seq(Nat) /\ y \in Seq(Nat) /\ z \in Seq(Nat) /\ Len(z) = 1
         /\ p = Len(x) /\ l = Len(y)
    BY <1>5, <1>6, <1>10, <2>1, <2>3
  <2>18. p \in Nat /\ l \in Nat /\ m = p + l + 1
    <3>1. Len(x) \in Nat /\ Len(y) \in Nat  BY <2>17, LenProperties
    <3>2. m = p + l + 1  BY <2>1
    <3> QED  BY <2>17, <3>1, <3>2
  <2>19. m \in Nat \ {0} /\ p <= m /\ p + l <= m /\ p + 1 \in Nat \ {0} /\ p + l \in Nat
    BY <2>18
  <2>4. /\ Len(d) = m /\ P[m] = e.kids[1] /\ \A j \in 1 .. p : P[j] = e.params[j]
    <3>1. /\ a \in Seq(Nat) /\ Len(a) = p + l
          /\ \A j \in 1 .. p + l : a[j] = IF j <= p THEN x[j] ELSE y[j - p]
      <4>1. a = x \o y /\ x \in Seq(Nat) /\ y \in Seq(Nat)  BY <2>3, <2>17
      <4>2. /\ a \in Seq(Nat) /\ Len(a) = Len(x) + Len(y)
            /\ \A j \in 1 .. Len(x) + Len(y) : a[j] = IF j <= Len(x) THEN x[j] ELSE y[j - Len(x)]
        BY <4>1, ConcatProperties
      <4> QED  BY <2>17, <4>2
    <3>2. P = a \o z  BY <1>2, <1>10, <2>3 DEF Parts
    <3>3. /\ Len(P) = Len(a) + Len(z)
          /\ \A j \in 1 .. Len(a) + Len(z) : P[j] = IF j <= Len(a) THEN a[j] ELSE z[j - Len(a)]
      <4>1. P = a \o z /\ a \in Seq(Nat) /\ z \in Seq(Nat)  BY <2>17, <3>1, <3>2
      <4> QED  BY <4>1, ConcatProperties
    <3>4. Len(a) = p + l /\ Len(z) = 1  BY <2>17, <3>1
    <3>5. Len(P) = m  BY <2>18, <3>3, <3>4
    <3>6. m \in 1 .. p + l + 1 /\ ~(m <= p + l) /\ m - (p + l) = 1  BY <2>18
    <3>7. P[m] = z[1]  BY <3>3, <3>4, <3>6
    <3>8. \A j \in 1 .. p : j \in 1 .. p + l + 1 /\ j <= p + l /\ j \in 1 .. p + l /\ j <= p
      BY <2>18
    <3>9. \A j \in 1 .. p : P[j] = x[j]  BY <3>1, <3>3, <3>4, <3>8
    <3>10. Len(d) = m  BY <1>7, <3>5
    <3> QED  BY <2>3, <3>7, <3>9, <3>10
  <2>5. /\ ps \in Seq(Objects) /\ ls \in Seq(Objects) /\ ks \in Seq(Objects)
        /\ Elements(ps) \subseteq Elements(d) /\ Elements(ls) \subseteq Elements(d)
        /\ Elements(ks) \subseteq Elements(d)
    <3>1. 1 \in Nat \ {0} /\ p \in Nat /\ p <= Len(d)  BY <2>4, <2>18, <2>19
    <3>2. ps \in Seq(Objects) /\ Elements(ps) \subseteq Elements(d)
      BY <1>3, <2>2, <3>1, CutOut, CutElements
    <3>3. p + 1 \in Nat \ {0} /\ p + l \in Nat /\ p + l <= Len(d)  BY <2>4, <2>19
    <3>4. ls \in Seq(Objects) /\ Elements(ls) \subseteq Elements(d)
      BY <1>3, <2>2, <3>3, CutOut, CutElements
    <3>5. m \in Nat \ {0} /\ m \in Nat /\ m <= Len(d)  BY <2>4, <2>19
    <3>6. ks \in Seq(Objects) /\ Elements(ks) \subseteq Elements(d)
      BY <1>3, <2>2, <3>5, CutOut, CutElements
    <3> QED  BY <3>2, <3>4, <3>6
  <2>6. /\ ks[1] = d[m] /\ \A j \in 1 .. p : j \in 1 .. Len(ps) /\ ps[j] = d[j]
        /\ \A j \in 1 .. Len(ps) : j \in 1 .. p
    <3>1. m \in 1 .. Len(d) /\ \A j \in 1 .. p : j \in 1 .. Len(d)  BY <2>4, <2>18
    <3>2. m \in Int /\ \A j \in m .. m : d[j] \in Objects
      <4>1. \A j \in m .. m : j = m  BY <2>19
      <4> QED  BY <1>3, <2>19, <3>1, <4>1, ElementOfSeq
    <3>3. /\ Len(ks) = IF m <= m THEN m - m + 1 ELSE 0
          /\ \A j \in 1 .. m - m + 1 : ks[j] = d[m + j - 1]
      BY <2>2, <3>2, SubSeqProperties
    <3>4. ks[1] = d[m]
      <4>1. 1 \in 1 .. m - m + 1 /\ m + 1 - 1 = m  BY <2>19
      <4> QED  BY <3>3, <4>1
    <3>5. \A j \in 1 .. p : d[j] \in Objects  BY <1>3, <3>1, ElementOfSeq
    <3>6. 1 \in Int /\ p \in Int  BY <2>18
    <3>7. /\ Len(ps) = IF 1 <= p THEN p - 1 + 1 ELSE 0
          /\ \A j \in 1 .. p - 1 + 1 : ps[j] = d[1 + j - 1]
      BY <2>2, <3>5, <3>6, SubSeqProperties
    <3>8. \A j \in 1 .. p : j \in 1 .. Len(ps) /\ j \in 1 .. p - 1 + 1 /\ 1 + j - 1 = j
      BY <2>18, <3>7
    <3>9. \A j \in 1 .. Len(ps) : j \in 1 .. p  BY <2>18, <3>7
    <3> QED  BY <3>4, <3>7, <3>8, <3>9
  <2>7. PICK cs : cs = e.captures  OBVIOUS
  <2>8. b = [h EXCEPT !.params = ps, !.captures = cs, !.locals = ls, !.kids = ks, !.immediate = im]
    BY <1>2, <1>3, <1>10, <2>1, <2>2, <2>7, <2>16 DEF Filled
  <2>9. /\ b.of = h.of /\ b.op = h.op /\ b.name = h.name /\ b.callee = h.callee
        /\ b.params = ps /\ b.captures = cs /\ b.kids = ks
    BY <1>5, <2>8 DEF Expr
  <2>10. CalleeOf(b) = CalleeOf(h)  BY <2>9 DEF CalleeOf
  <2>11. Uses(b) \subseteq Elements(d) \cup Uses(h) \cup Elements(e.captures)
    BY <2>5, <2>7, <2>9, <2>10 DEF Uses
  <2>12. heap[b.kids[1]].op = "ret" /\ heap[b.kids[1]].in = o
    <3>1. m \in 1 .. Len(d)  BY <2>4, <2>19
    <3>2. heap[d[m]].op = heap[P[m]].op /\ heap[d[m]].in = o  BY <1>7, <1>10, <3>1
    <3> QED  BY <1>5, <1>10, <2>4, <2>6, <2>9, <3>2
  <2>13. ASSUME NEW q \in Elements(e.params)
         PROVE  \E k \in Elements(b.params) : heap[k].name = heap[q].name
    <3>1. PICK j \in 1 .. p : q = e.params[j]  BY <2>1 DEF Elements
    <3>2. j \in 1 .. Len(d) /\ j \in 1 .. Len(ps) /\ ps[j] = d[j] /\ P[j] = q
      BY <2>4, <2>6, <2>18, <3>1
    <3>3. PICK k : k = d[j]  OBVIOUS
    <3>4. k \in Elements(b.params)  BY <2>9, <3>2, <3>3 DEF Elements
    <3>5. k \in Objects  BY <1>3, <3>2, <3>3, ElementOfSeq
    <3>6. heap[k].of = q  BY <1>7, <1>10, <3>2, <3>3
    <3>7. heap[k].name = heap[heap[k].of].name  BY <1>1, <3>5 DEF Known, ObjectIs
    <3> QED  BY <3>4, <3>6, <3>7
  <2>20. ASSUME NEW k \in Elements(b.params) PROVE heap[k].op = "symbol"
    <3>1. PICK j \in 1 .. Len(ps) : k = ps[j]  BY <2>9 DEF Elements
    <3>2. j \in 1 .. p /\ j \in 1 .. Len(d)  BY <2>4, <2>6, <2>18, <3>1
    <3>3. ps[j] = d[j] /\ P[j] = e.params[j]  BY <2>4, <2>6, <3>2
    <3>4. heap[d[j]].op = heap[P[j]].op  BY <1>7, <3>2
    <3>5. e.params[j] \in Elements(e.params)  BY <2>1, <3>2 DEF Elements
    <3> QED  BY <1>5, <3>1, <3>3, <3>4, <3>5
  <2>14. b.op # "symbol"  BY <1>8, <1>10, <2>9
  <2>15. \A k \in Elements(b.captures) \cup Elements(CalleeOf(b)) : heap[k].op = "symbol"
    BY <1>5, <1>9, <2>7, <2>9, <2>10
  <2> QED
    BY <1>2, <1>8, <1>10, <2>7, <2>9, <2>11, <2>12, <2>13, <2>14, <2>15, <2>20
<1>11. CASE e.op # "context"
  <2>1. PICK c, k : c = Len(CalleeOf(e)) /\ k = IF c = 0 THEN None ELSE d[1]  OBVIOUS
  <2>2. PICK ks : ks = SubSeq(d, c + 1, Len(d))  OBVIOUS
  <2>3. /\ c \in Nat /\ Len(e.kids) \in Nat /\ Len(d) = c + Len(e.kids)
        /\ c # 0 => P[1] \in Elements(CalleeOf(e))
    <3>1. P = CalleeOf(e) \o e.kids  BY <1>2, <1>11 DEF Parts
    <3>5. PICK x, y : x = CalleeOf(e) /\ y = e.kids  OBVIOUS
    <3>6. x \in Seq(Nat) /\ y \in Seq(Nat) /\ P = x \o y /\ Len(x) = c  BY <1>6, <2>1, <3>1, <3>5
    <3>7. /\ Len(P) = c + Len(y)
          /\ \A j \in 1 .. c + Len(y) : P[j] = IF j <= c THEN x[j] ELSE y[j - c]
      BY <3>6, ConcatProperties
    <3>2. /\ Len(P) = c + Len(e.kids)
          /\ \A j \in 1 .. c + Len(e.kids) :
               P[j] = IF j <= c THEN CalleeOf(e)[j] ELSE e.kids[j - c]
      BY <3>5, <3>7
    <3>3. c \in Nat /\ Len(e.kids) \in Nat  BY <1>6, <2>1, LenProperties
    <3>4. ASSUME c # 0 PROVE P[1] \in Elements(CalleeOf(e))
      <4>1. 1 \in 1 .. c /\ 1 \in 1 .. c + Len(e.kids) /\ 1 <= c  BY <3>3, <3>4
      <4>2. P[1] = CalleeOf(e)[1]  BY <3>2, <4>1
      <4> QED  BY <2>1, <4>1, <4>2 DEF Elements
    <3> QED  BY <1>7, <3>2, <3>3, <3>4
  <2>4. ks \in Seq(Objects) /\ Elements(ks) \subseteq Elements(d)
    <3>1. c + 1 \in Nat \ {0} /\ Len(d) <= Len(d)  BY <1>7, <2>3
    <3> QED  BY <1>3, <1>7, <2>2, <3>1, CutOut, CutElements
  <2>5. k # None => k \in Elements(d) /\ heap[k].op = "symbol"
    <3> SUFFICES ASSUME c # 0 PROVE d[1] \in Elements(d) /\ heap[d[1]].op = "symbol"
      BY <2>1
    <3>1. 1 \in 1 .. Len(d)  BY <2>3
    <3>2. heap[d[1]].op = heap[P[1]].op  BY <1>7, <3>1
    <3>3. heap[P[1]].op = "symbol"  BY <1>5, <2>3
    <3> QED  BY <3>1, <3>2, <3>3 DEF Elements
  <2>6. ks = << >> => e.kids = << >>
    <3> SUFFICES ASSUME ks = << >> PROVE e.kids = << >>  OBVIOUS
    <3>1. \A j \in c + 1 .. Len(d) : j \in 1 .. Len(d)  BY <2>3
    <3>2. \A j \in c + 1 .. Len(d) : d[j] \in Objects  BY <1>3, <3>1, ElementOfSeq
    <3>3. c + 1 \in Int /\ Len(d) \in Int  BY <2>3, <1>7
    <3>7. PICK x, y : x = c + 1 /\ y = Len(d)  OBVIOUS
    <3>8. x \in Int /\ y \in Int /\ ks = SubSeq(d, x, y) /\ \A j \in x .. y : d[j] \in Objects
      BY <2>2, <3>2, <3>3, <3>7
    <3>9. Len(ks) = IF x <= y THEN y - x + 1 ELSE 0
      BY <3>8, SubSeqProperties
    <3>4. Len(ks) = IF c + 1 <= Len(d) THEN Len(d) - (c + 1) + 1 ELSE 0
      BY <3>7, <3>9
    <3>5. Len(ks) = 0  BY EmptySeq
    <3>6. Len(e.kids) = 0  BY <2>3, <3>4, <3>5
    <3> QED  BY <1>6, <3>6, EmptySeq
  <2>7. b = [h EXCEPT !.callee = k, !.kids = ks]
    BY <1>2, <1>3, <1>11, <2>1, <2>2 DEF Filled
  <2>8. /\ b.of = h.of /\ b.op = h.op /\ b.name = h.name /\ b.callee = k
        /\ b.params = h.params /\ b.captures = h.captures /\ b.kids = ks
    BY <1>5, <2>7 DEF Expr
  <2>9. Elements(CalleeOf(b)) = IF k = None THEN {} ELSE {k}
    <3>1. CASE k = None  BY <2>8, <3>1, Nothing DEF CalleeOf
    <3>2. CASE k # None
      <4>1. CalleeOf(b) = << k >>  BY <2>8, <3>2 DEF CalleeOf
      <4>2. Len(<< k >>) = 1 /\ << k >>[1] = k  OBVIOUS
      <4>3. Elements(<< k >>) = {k}
        <5>1. \A i \in 1 .. Len(<< k >>) : i = 1  BY <4>2
        <5>2. 1 \in 1 .. Len(<< k >>)  BY <4>2
        <5> QED  BY <4>2, <5>1, <5>2 DEF Elements
      <4> QED  BY <3>2, <4>1, <4>3
    <3> QED  BY <3>1, <3>2
  <2>10. Elements(b.kids) \cup Elements(CalleeOf(b)) \subseteq Elements(d)
    BY <2>4, <2>5, <2>8, <2>9
  <2>11. Uses(b) \subseteq Elements(d) \cup Uses(h) \cup Elements(e.captures)
    BY <2>8, <2>10 DEF Uses
  <2>12. \A x \in Elements(b.captures) \cup Elements(CalleeOf(b)) : heap[x].op = "symbol"
    BY <1>9, <2>5, <2>8, <2>9
  <2> QED  BY <1>8, <1>11, <2>6, <2>8, <2>10, <2>11, <2>12
<1> QED  BY <1>10, <1>11

LEMMA Least ==
  ASSUME NEW S \in SUBSET Nat, S # {}
  PROVE  \E x \in S : \A y \in S : x <= y
<1>1. PICK x \in S : \A y \in S : ~ (<<y, x>> \in OpToRel(<, Nat))
  BY NatLessThanWellFounded, WFMin
<1>2. x \in Nat /\ \A y \in S : y \in Nat  OBVIOUS
<1>3. \A y \in S : ~ (y < x)  BY <1>1, <1>2 DEF OpToRel
<1>4. \A y \in S : x <= y  BY <1>2, <1>3
<1> QED  BY <1>4

-----------------------------------------------------------------------------
(* The finished copy is one more part of the copy around it. *)
LEMMA HandedBack ==
  ASSUME TInv, stack # << >>, Rest # << >>
  PROVE  LET u == [Rest EXCEPT ![Len(Rest)].done = Append(@, Top.obj)]
             n == Len(stack) - 1
         IN  /\ n \in Nat \ {0} /\ Len(u) = n /\ Rest[Len(Rest)] = stack[n]
             /\ u[n].src = stack[n].src /\ u[n].obj = stack[n].obj /\ u[n].st = stack[n].st
             /\ u[n].done = Append(stack[n].done, Top.obj)
             /\ \A i \in 1 .. n - 1 : u[i] = stack[i]
<1>1. PICK n, r, f, k, a :
        n = Len(stack) - 1 /\ r = Rest /\ f = r[n] /\ k = Top.obj /\ a = Append(f.done, k)
  OBVIOUS
<1>2. /\ r \in Seq(Frames) /\ Len(r) = n /\ r # << >> /\ Len(stack) \in Nat \ {0}
      /\ \A i \in 1 .. n : r[i] = stack[i]
  BY <1>1, StackFacts
<1>3. n \in 1 .. n /\ n \in Nat \ {0} /\ f = stack[n]
  <2>1. n \in Nat \ {0}  BY <1>2, EmptySeq
  <2> QED  BY <1>1, <1>2, <2>1
<1>4. f \in Frames /\ k \in Objects /\ f.done \in Seq(Objects)
  <2>1. f \in Frames  BY <1>1, <1>2, <1>3, ElementOfSeq
  <2>2. Top \in Frames  BY StackFacts
  <2>3. f.done \in Seq(Objects)  BY <2>1, FrameFacts
  <2>4. k \in Objects  BY <1>1, <2>2, FrameFacts, HeapFacts
  <2> QED  BY <2>1, <2>3, <2>4
<1>5. a \in Seq(Objects)  BY <1>1, <1>4, AppendProperties
<1>6. PICK g : g = [f EXCEPT !.done = a]  OBVIOUS
<1>7. g \in Frames /\ g.obj = f.obj /\ g.st = f.st /\ g.src = f.src /\ g.done = a
  BY <1>4, <1>5, <1>6 DEF Frames, Frame
<1>8. PICK u : u = [r EXCEPT ![n] = g]  OBVIOUS
<1>9. u = [Rest EXCEPT ![Len(Rest)].done = Append(@, Top.obj)]
  <2>1. [r EXCEPT ![n].done = Append(@, k)] = [r EXCEPT ![n] = g]
    BY <1>1, <1>4, <1>6 DEF Frames, Frame
  <2>2. Rest = r /\ Len(Rest) = n /\ Top.obj = k  BY <1>1, <1>2
  <2> QED  BY <1>8, <2>1, <2>2
<1>10. /\ Len(u) = n /\ \A i \in 1 .. n : u[i] = IF i = n THEN g ELSE r[i]
  BY <1>2, <1>3, <1>7, <1>8, ExceptSeq
<1>11. \A i \in 1 .. n - 1 : i \in 1 .. n /\ i # n  BY <1>3
<1>12. u[n] = g /\ \A i \in 1 .. n - 1 : u[i] = stack[i]  BY <1>2, <1>3, <1>10, <1>11
<1>13. Rest[Len(Rest)] = f  BY <1>1, <1>2
<1>14. u[n].done = Append(stack[n].done, Top.obj)  BY <1>1, <1>3, <1>7, <1>12
<1> QED  BY <1>1, <1>3, <1>7, <1>9, <1>10, <1>12, <1>13, <1>14

LEMMA FinishKeeps == ASSUME EInv, CInv', Finish PROVE EInv'
<1>1. TInv /\ TInv' /\ Known /\ stack # << >> /\ ~Wants(Top) /\ CInv
  BY DEF EInv, CInv, Known, Finish, Busy
<1>2. PICK f, o, b, N : f = Top /\ o = f.obj /\ b = Filled(Top) /\ N = Len(stack)  OBVIOUS
<1>3. PICK e, h, d : e = heap[f.src] /\ h = heap[o] /\ d = f.done  OBVIOUS
<1>4. /\ f \in Frames /\ N \in Nat \ {0} /\ N \in 1 .. N /\ f = stack[N]
      /\ \A i \in 1 .. N : stack[i] \in Frames
  BY <1>1, <1>2, StackFacts
<1>5. /\ f.src \in Originals /\ o \in Copies /\ o \in Objects /\ o \in Nat /\ d \in Seq(Objects)
      /\ Source(f) = e /\ Copies \subseteq Objects /\ Originals \subseteq Objects
      /\ f.src # o
  BY <1>1, <1>2, <1>3, <1>4, FrameFacts, HeapFacts DEF Source, Copies
<1>6. FrameIs(f)  BY <1>2, <1>4 DEF EInv
<1>7. /\ b \in Expr /\ b.in = h.in
  BY <1>1, <1>2, <1>3, FilledFacts
<1>8. /\ b.of = h.of /\ b.op = h.op /\ b.name = h.name /\ e.op = h.op
      /\ Uses(b) \subseteq Elements(d) \cup Uses(h) \cup Elements(e.captures)
      /\ \A k \in Elements(b.captures) \cup Elements(CalleeOf(b)) : heap[k].op = "symbol"
      /\ e.op = "context" =>
           /\ b.captures = e.captures
           /\ heap[b.kids[1]].op = "ret" /\ heap[b.kids[1]].in = o
           /\ \A q \in Elements(e.params) :
                \E k \in Elements(b.params) : heap[k].name = heap[q].name
           /\ \A k \in Elements(b.params) : heap[k].op = "symbol"
      /\ e.op # "context" => Elements(b.kids) \cup Elements(CalleeOf(b)) \subseteq Elements(d)
      /\ b.op = "symbol" /\ b.kids = << >> => e.kids = << >>
  <2>1. /\ b = Filled(Top) /\ h = heap[Top.obj] /\ e = heap[Top.src] /\ d = Top.done /\ o = Top.obj
    BY <1>2, <1>3
  <2> HIDE <1>2, <1>3
  <2> QED  BY <1>1, <2>1, FilledIs
<1>9. h.of = f.src /\ heap[f.st].op = "context"
      /\ f.st = (IF e.op = "context" THEN o ELSE h.in)
      /\ \A j \in 1 .. Len(d) : Settled(d[j]) /\ d[j] \in Local(f.st)
  BY <1>2, <1>3, <1>5, <1>6 DEF FrameIs
<1>10. /\ program' = program /\ Len(heap') = Len(heap)
       /\ heap'[o] = b /\ \A x \in Objects : x # o => heap'[x] = heap[x]
  <2>1. heap \in Seq(Expr) /\ o \in 1 .. Len(heap) /\ Objects = 1 .. Len(heap)
    BY <1>1, <1>5, HeapFacts DEF TInv
  <2>2. heap' = [heap EXCEPT ![o] = b] /\ program' = program
    BY <1>2 DEF Finish
  <2>3. /\ Len(heap') = Len(heap)
        /\ \A x \in 1 .. Len(heap) : heap'[x] = IF x = o THEN b ELSE heap[x]
    BY <1>7, <2>1, <2>2, ExceptSeq
  <2> QED  BY <1>5, <2>1, <2>2, <2>3
<1>11. Objects' = Objects /\ Originals' = Originals /\ Copies' = Copies
  BY <1>10 DEF Objects, Originals, Copies
(* The stack. *)
<1>12. PICK n, c, u : n = N - 1 /\ c = stack[n] /\ u = stack'  OBVIOUS
<1>13. \/ n = 0 /\ Rest = << >> /\ Len(u) = 0 /\ accessible' = accessible
       \/ /\ n \in Nat \ {0} /\ Len(u) = n /\ accessible' = Declare(c, o)
          /\ u[n].src = c.src /\ u[n].obj = c.obj /\ u[n].st = c.st
          /\ u[n].done = Append(c.done, o)
          /\ \A i \in 1 .. n - 1 : u[i] = stack[i]
  <2>1. CASE Rest = << >>
    <3>1. stack' = << >> /\ accessible' = accessible  BY <2>1 DEF Finish
    <3>2. Len(Rest) = N - 1 /\ Len(Rest) = 0  BY <1>1, <1>2, <2>1, StackFacts, EmptySeq
    <3> QED  BY <1>12, <2>1, <3>1, <3>2, EmptySeq
  <2>2. CASE Rest # << >>
    <3>1. /\ stack' = [Rest EXCEPT ![Len(Rest)].done = Append(@, Top.obj)]
          /\ accessible' = Declare(Rest[Len(Rest)], o)
      BY <1>2, <2>2 DEF Finish
    <3>2. /\ n \in Nat \ {0} /\ Len(u) = n /\ Rest[Len(Rest)] = stack[n]
          /\ u[n].src = stack[n].src /\ u[n].obj = stack[n].obj /\ u[n].st = stack[n].st
          /\ u[n].done = Append(stack[n].done, Top.obj)
          /\ \A i \in 1 .. n - 1 : u[i] = stack[i]
      <4>1. n = Len(stack) - 1 /\ u = [Rest EXCEPT ![Len(Rest)].done = Append(@, Top.obj)]
        BY <1>2, <1>12, <3>1
      <4> HIDE <1>12
      <4> QED  BY <1>1, <2>2, <4>1, HandedBack
    <3> QED  BY <1>2, <1>12, <3>1, <3>2
  <2> QED  BY <2>1, <2>2
<1>14. /\ n \in Nat /\ Len(u) = n /\ n <= N
       /\ \A i \in 1 .. n :
            /\ u[i].obj = stack[i].obj /\ u[i].st = stack[i].st /\ u[i].src = stack[i].src
            /\ i < n => u[i] = stack[i]
  <2>1. n \in Nat /\ Len(u) = n /\ n <= N  BY <1>4, <1>12, <1>13
  <2>2. ASSUME NEW i \in 1 .. n
        PROVE  /\ u[i].obj = stack[i].obj /\ u[i].st = stack[i].st /\ u[i].src = stack[i].src
               /\ i < n => u[i] = stack[i]
    <3>1. n # 0  BY <2>1
    <3>2. CASE i = n  BY <1>12, <1>13, <3>1, <3>2
    <3>3. CASE i # n
      <4>1. i \in 1 .. n - 1  BY <2>1, <3>3
      <4> QED  BY <1>13, <3>1, <4>1
    <3> QED  BY <3>2, <3>3
  <2> QED  BY <2>1, <2>2
<1>15. Stacked' \subseteq Stacked /\ o \in Stacked /\ o \notin Stacked'
  <2>1. Stacked' = {u[i].obj : i \in 1 .. n}  BY <1>12, <1>14 DEF Stacked
  <2>2. Stacked = {stack[i].obj : i \in 1 .. N}  BY <1>2 DEF Stacked
  <2>3. \A i \in 1 .. n : i \in 1 .. N /\ i < N  BY <1>4, <1>12, <1>14
  <2>4. \A i \in 1 .. n : stack[i].obj < o
    BY <1>2, <1>4, <2>3 DEF EInv, FramesLinked
  <2>5. \A i \in 1 .. n : stack[i].obj # o  BY <1>5, <2>4
  <2>6. Stacked' \subseteq Stacked  BY <1>14, <2>1, <2>2, <2>3
  <2>7. o \in Stacked  BY <1>2, <1>4, <2>2
  <2>8. o \notin Stacked'  BY <1>14, <2>1, <2>5
  <2> QED  BY <2>6, <2>7, <2>8
<1>16. Steady
  <2>1. ASSUME NEW x \in Objects
        PROVE  /\ heap'[x].of = heap[x].of /\ heap'[x].op = heap[x].op
               /\ heap'[x].name = heap[x].name /\ heap'[x].in = heap[x].in
               /\ x \notin Stacked => heap'[x] = heap[x] /\ x \notin Stacked'
    <3>1. CASE x = o  BY <1>3, <1>7, <1>8, <1>10, <1>15, <3>1
    <3>2. CASE x # o  BY <1>10, <1>15, <3>2
    <3> QED  BY <3>1, <3>2
  <2> QED  BY <1>10, <1>11, <2>1 DEF Steady
(* The object. *)
<1>17. \A k \in Uses(b) : Settled(k)
  <2>1. \A k \in Elements(d) : Settled(k)  BY <1>9 DEF Elements
  <2>2. \A k \in Uses(h) : Settled(k)  BY <1>1, <1>3, <1>5 DEF Known, ObjectIs
  <2>3. ASSUME NEW k \in Elements(e.captures) PROVE Settled(k)
    <3>1. k \in Originals  BY <1>1, <1>3, <1>5, ScopeFacts DEF Uses
    <3>2. heap[k].of = k  BY <1>1, <3>1, ScopeFacts
    <3> QED  BY <1>1, <3>1, <3>2, StackedFacts DEF Settled
  <2> QED  BY <1>8, <2>1, <2>2, <2>3
<1>18. heap'[f.src] = e /\ heap'[o].of = f.src  BY <1>3, <1>5, <1>8, <1>9, <1>10
<1>19. Settled(o)'
  <2>1. b.op = "symbol" /\ b.kids = << >> => heap'[heap'[o].of].kids = << >>
    BY <1>8, <1>18
  <2> QED  BY <1>5, <1>10, <1>11, <1>15, <2>1 DEF Settled
<1>20. Uses(heap[o])' = Uses(b) /\ CalleeOf(heap[o])' = CalleeOf(b)
  BY <1>10 DEF Uses, CalleeOf
<1>21. \A x \in Objects' : ObjectIs(x)'
  <2>1. ASSUME NEW x \in Objects, x # o PROVE ObjectIs(x)'
    BY <1>1, <1>10, <1>16, <2>1, ObjectStays
  <2>2. ObjectIs(o)'
    <3>1. \A k \in Uses(b) : Settled(k)' /\ k \in Objects
      BY <1>1, <1>16, <1>17, SettledStays DEF Settled
    <3>2. \A k \in Elements(b.captures) \cup Elements(CalleeOf(b)) : heap'[k].op = "symbol"
      <4>1. \A k \in Elements(b.captures) \cup Elements(CalleeOf(b)) : k \in Objects
        BY <3>1 DEF Uses
      <4> QED  BY <1>8, <1>16, <4>1 DEF Steady
    <3>3. h.op = e.op /\ h.name = e.name
      BY <1>1, <1>3, <1>5, <1>9 DEF Known, ObjectIs
    <3>4. heap'[o].op = heap'[heap'[o].of].op /\ heap'[o].name = heap'[heap'[o].of].name
      BY <1>8, <1>10, <1>18, <3>3
    <3>5. heap'[o].of \in Originals'  BY <1>5, <1>11, <1>18
    <3>6. \A k \in Uses(heap[o])' : Settled(k)'  BY <1>20, <3>1
    <3>7. \A k \in Elements(heap'[o].captures) \cup Elements(CalleeOf(heap[o]))' :
            heap'[k].op = "symbol"
      BY <1>10, <1>20, <3>2
    <3> QED  BY <3>4, <3>5, <3>6, <3>7 DEF ObjectIs
  <2> QED  BY <1>11, <2>1, <2>2
<1>22. \A x \in Copies' : CopyIs(x)'
  <2>1. ASSUME NEW x \in Copies, x # o PROVE CopyIs(x)'
    <3>1. CopyIs(x) /\ x \in Objects  BY <1>5 DEF EInv
    <3> QED  BY <1>1, <1>10, <1>16, <2>1, <3>1, CopyStays
  <2>2. CopyIs(o)'
    <3>1. CopyIs(o)  BY <1>5 DEF EInv
    <3>2. heap'[o].in = None \/ (heap'[o].in \in Copies' /\ heap'[heap'[o].in].op = "context")
      <4>1. h.in = None \/ (h.in \in Copies /\ heap[h.in].op = "context")  BY <1>3, <3>1 DEF CopyIs
      <4>2. h.in \in Copies => heap'[h.in].op = heap[h.in].op  BY <1>5, <1>16 DEF Steady
      <4> QED  BY <1>7, <1>10, <1>11, <4>1, <4>2
    <3>3. ASSUME b.op = "context", b.kids # << >> PROVE ContextIs(o)'
      <4>1. b.kids[1] \in Uses(b) /\ Elements(b.params) \subseteq Uses(b)
        BY <1>7, <3>3, FirstElement DEF Uses, Expr
      <4>2. \A k \in Uses(b) : k \in Objects  BY <1>17 DEF Settled
      <4>3. heap'[b.kids[1]].op = "ret" /\ heap'[b.kids[1]].in = o
        BY <1>8, <1>16, <3>3, <4>1, <4>2 DEF Steady
      <4>4. ASSUME NEW q \in Elements(e.params)
            PROVE  \E k \in Elements(b.params) : heap'[k].name = heap'[q].name
        <5>1. PICK k \in Elements(b.params) : heap[k].name = heap[q].name  BY <1>8, <3>3
        <5>2. q \in Originals  BY <1>1, <1>3, <1>5, ScopeFacts DEF Uses
        <5> QED  BY <1>5, <1>16, <4>1, <4>2, <5>1, <5>2 DEF Steady
      <4>5. b.captures = e.captures  BY <1>8, <3>3
      <4>6. \A k \in Elements(b.params) : heap'[k].op = "symbol"
        BY <1>8, <1>16, <3>3, <4>1, <4>2 DEF Steady
      <4> QED  BY <1>10, <1>18, <4>3, <4>4, <4>5, <4>6 DEF ContextIs
    <3>4. b.op = "context" => Elements(b.captures) \subseteq Elements(e.captures)  BY <1>8
    <3>5. ASSUME b.op # "context"
          PROVE  b.in # None /\ Elements(b.kids) \cup Elements(CalleeOf(b)) \subseteq Local(b.in)'
      <4>1. h.in # None  BY <1>3, <1>8, <3>1, <3>5 DEF CopyIs
      <4>2. f.st = h.in /\ h.in \in Objects
        <5>1. e.op # "context"  BY <1>8, <3>5
        <5>2. h.in \in Copies  BY <1>3, <3>1, <4>1 DEF CopyIs
        <5> QED  BY <1>5, <1>9, <5>1, <5>2
      <4>3. Elements(d) \subseteq Local(h.in)  BY <1>9, <4>2 DEF Elements
      <4>4. Local(h.in) \subseteq Local(h.in)'  BY <1>1, <1>16, <4>2, LocalStays
      <4>5. Elements(b.kids) \cup Elements(CalleeOf(b)) \subseteq Elements(d)  BY <1>8, <3>5
      <4>6. Local(h.in)' = Local(b.in)'  BY <1>7 DEF Local
      <4> QED  BY <1>7, <4>1, <4>3, <4>4, <4>5, <4>6
    <3>6. heap'[o] = b /\ heap'[heap'[o].of] = e  BY <1>10, <1>18
    <3>7. Local(heap[o].in)' = Local(b.in)'  BY <3>6 DEF Local
    <3> QED  BY <1>20, <3>2, <3>3, <3>4, <3>5, <3>6, <3>7 DEF CopyIs
  <2> QED  BY <1>11, <2>1, <2>2
<1>23. PlacesKept'  BY <1>11, <1>16, PlacesStay
<1>24. Founded'
  <2>1. ASSUME NEW x \in Objects' PROVE o \notin Elements(Dependencies(heap'[x]))
    <3>1. CASE x = o
      <4>1. Elements(Dependencies(b)) \subseteq Uses(b)  BY <1>7, DependenciesUsed
      <4>2. o \notin Uses(b)  BY <1>15, <1>17 DEF Settled
      <4> QED  BY <1>10, <3>1, <4>1, <4>2
    <3>2. CASE x # o
      <4>1. x \in Objects /\ heap'[x] = heap[x] /\ heap[x] \in Expr
        BY <1>1, <1>10, <1>11, <3>2, HeapFacts
      <4>2. Elements(Dependencies(heap[x])) \subseteq Uses(heap[x])  BY <4>1, DependenciesUsed
      <4>3. o \notin Uses(heap[x])  BY <1>1, <1>15, <4>1 DEF Known, ObjectIs, Settled
      <4> QED  BY <4>1, <4>2, <4>3
    <3> QED  BY <3>1, <3>2
  <2>2. Founded /\ Objects' \subseteq Objects \cup {o}  BY <1>11 DEF EInv
  <2>3. \A x \in Objects' : x # o => heap'[x] = heap[x]  BY <1>10, <1>11
  <2> QED  BY <2>1, <2>2, <2>3, FoundedStays
(* The activations that are left. *)
<1>25. n # 0 => /\ c \in Frames /\ FrameIs(c) /\ Wants(c) /\ f.src = Wanted(c)
                /\ h.in = c.st
  <2> SUFFICES ASSUME n # 0
               PROVE  /\ c \in Frames /\ FrameIs(c) /\ Wants(c) /\ f.src = Wanted(c)
                      /\ h.in = c.st
    OBVIOUS
  <2>1. n \in 1 .. N /\ n < N /\ n + 1 = N  BY <1>4, <1>12, <1>14
  <2>2. c \in Frames /\ FrameIs(c)  BY <1>2, <1>4, <1>12, <2>1 DEF EInv
  <2>3. Wants(c) /\ stack[n + 1].src = Wanted(c) /\ heap[stack[n + 1].obj].in = c.st
    BY <1>2, <1>12, <2>1 DEF EInv, FramesLinked
  <2> QED  BY <1>2, <1>3, <1>4, <2>1, <2>2, <2>3
<1>26. \A i \in 1 .. Len(stack') : FrameIs(stack[i])'
  <2>1. ASSUME NEW i \in 1 .. n PROVE FrameIs(stack[i])'
    <3>1. n # 0 /\ i \in 1 .. N  BY <1>4, <1>14
    <3>2. CASE i < n
      <4>1. PICK x : x = stack[i]  OBVIOUS
      <4>2. x \in Frames /\ FrameIs(x) /\ stack'[i] = x
        BY <1>2, <1>4, <1>12, <1>14, <3>1, <3>2, <4>1 DEF EInv
      <4>3. FrameIs(x)'  BY <1>1, <1>16, <4>2, FrameStays
      <4> QED  BY <4>2, <4>3
    <3>3. CASE i = n
      <4>1. PICK g : g = u[n]  OBVIOUS
      <4>2. g.src = c.src /\ g.obj = c.obj /\ g.st = c.st /\ g.done = Append(c.done, o)
        BY <1>13, <3>1, <4>1
      <4>3. c \in Frames /\ FrameIs(c) /\ Wants(c) /\ f.src = Wanted(c) /\ h.in = c.st
        BY <1>25, <3>1
      <4>4. o \in Local(c.st)'
        BY <1>5, <1>7, <1>10, <1>11, <4>3 DEF Local
      <4>5. heap'[o].op = heap[Wanted(c)].op  BY <1>3, <1>8, <1>10, <4>3
      <4>6. Source(c).op = "context" => heap'[o].of = Wanted(c) /\ heap'[o].in = c.obj
        <5>1. Source(c).op = "context" => c.st = c.obj  BY <4>3 DEF FrameIs
        <5> QED  BY <1>7, <1>10, <1>18, <4>3, <5>1
      <4>7. FrameIs(g)'
        BY <1>1, <1>16, <1>19, <4>2, <4>3, <4>4, <4>5, <4>6, FrameGoesOn
      <4> QED  BY <1>12, <3>3, <4>1, <4>7
    <3> QED  BY <1>14, <3>2, <3>3
  <2> QED  BY <1>12, <1>14, <2>1
<1>27. FramesLinked'
  <2>1. Len(stack') = n /\ Len(stack) = N /\ n \in Nat /\ n <= N  BY <1>2, <1>12, <1>14
  <2>2. \A i \in 1 .. Len(stack') :
           /\ stack'[i].obj = stack[i].obj /\ stack'[i].st = stack[i].st
           /\ stack'[i].src = stack[i].src
           /\ i < Len(stack') => stack'[i] = stack[i]
    BY <1>12, <1>14, <2>1
  <2> QED  BY <1>1, <1>16, <2>1, <2>2, LinkedStays DEF EInv
(* The tables. *)
<1>28. \A x \in DOMAIN accessible' : TableIs(x)'
  <2>1. CASE accessible' = accessible
    BY <1>1, <1>16, <2>1, TableStays DEF EInv
  <2>2. CASE accessible' # accessible
    <3>1. n # 0 /\ accessible' = Declare(c, o)  BY <1>13, <2>2
    <3>2. PICK objs, names : objs = << o >> /\ names = << heap[o].name >>  OBVIOUS
    <3>3. /\ Source(c).op = "context" /\ Wanted(c) \notin Elements(Source(c).kids)
          /\ accessible' = [accessible EXCEPT ![c.obj] = Enter(@, names, objs)]
      BY <2>2, <3>1, <3>2 DEF Declare
    <3>4. c \in Frames /\ FrameIs(c) /\ Wants(c) /\ f.src = Wanted(c) /\ h.in = c.st
      BY <1>25, <3>1
    <3>5. c.st = c.obj /\ heap[c.obj].op = "context" /\ c.obj \in Objects
      BY <1>1, <3>3, <3>4, FrameFacts, HeapFacts DEF FrameIs
    <3>6. e.op = "symbol"
      <4>1. PICK s, t : s = c.src /\ t = heap[s]  OBVIOUS
      <4>2. s \in Originals /\ Source(c) = t  BY <1>1, <3>4, <4>1, FrameFacts DEF Source
      <4>3. t \in Expr /\ \A k \in Elements(t.params) \cup Elements(t.locals) : heap[k].op = "symbol"
        BY <1>1, <4>1, <4>2, ScopeFacts
      <4>4. Wanted(c) \in Elements(Parts(t))  BY <1>1, <3>4, <4>2, WantedFacts
      <4>5. Wanted(c) \in Elements(t.params) \cup Elements(t.locals)
        BY <3>3, <4>2, <4>3, <4>4, UsesFacts
      <4> QED  BY <1>3, <3>4, <4>3, <4>5
    <3>7. o \in Local(c.obj)' /\ heap'[o].op = "symbol"
      BY <1>5, <1>7, <1>8, <1>10, <1>11, <3>4, <3>5, <3>6 DEF Local
    <3>8. objs \in Seq({o})  BY <3>2
    <3> SUFFICES ASSUME NEW x \in DOMAIN accessible PROVE TableIs(x)'
      BY <3>3
    <3>9. TableIs(x)  BY DEF EInv
    <3>10. CASE x # c.obj
      <4>1. accessible'[x] = accessible[x]  BY <3>3, <3>10
      <4> QED  BY <1>1, <1>16, <3>9, <4>1, TableStays
    <3>11. CASE x = c.obj
      <4>1. accessible'[x] = Enter(accessible[x], names, objs)  BY <3>3, <3>11
      <4>2. heap'[x].op = "context"  BY <1>16, <3>5, <3>11 DEF Steady
      <4>3. ASSUME NEW y \in Names, accessible'[x][y] # None
            PROVE  /\ Settled(accessible[x][y])' /\ accessible'[x][y] \in Local(x)'
                   /\ heap'[accessible'[x][y]].op = "symbol"
        <5>1. PICK k : k = accessible'[x][y]  OBVIOUS
        <5>2. k = accessible[x][y] \/ k \in {o}  BY <3>8, <4>1, <5>1, EnterFacts
        <5>3. Settled(k)' /\ k \in Local(x)' /\ heap'[k].op = "symbol"
          <6>1. CASE k = o  BY <1>19, <3>7, <3>11, <6>1
          <6>2. CASE k = accessible[x][y]
            <7>1. Settled(k) /\ k \in Local(x) /\ heap[k].op = "symbol"
              BY <3>9, <4>3, <5>1, <6>2 DEF TableIs
            <7>2. k \in Objects /\ x \in Objects  BY <3>5, <3>11, <7>1 DEF Settled
            <7> QED  BY <1>1, <1>16, <7>1, <7>2, SettledStays, LocalStays DEF Steady
          <6> QED  BY <5>2, <6>1, <6>2
        <5> QED  BY <5>1, <5>3
      <4> QED  BY <4>2, <4>3 DEF TableIs
    <3> QED  BY <3>10, <3>11
  <2> QED  BY <2>1, <2>2
<1> QED  BY <1>21, <1>22, <1>23, <1>24, <1>26, <1>27, <1>28 DEF EInv

LEMMA InstantiateKeeps == ASSUME EInv, CInv', Instantiate PROVE EInv'
<1>1. TInv /\ stack = << >> /\ Begin(stack, program.fn, None) /\ program' = program
  BY DEF EInv, CInv, Instantiate
<1>2. program.fn \in Originals /\ program.node[program.fn].op = "context"
  BY <1>1, ProgramsAssumption DEF TInv, ProgramOK, Originals
<1>3. heap[program.fn].op = "context"  BY <1>1, <1>2 DEF TInv, ProgramKept
<1>4. None \in Nat  BY DEF None
<1> QED  BY <1>1, <1>2, <1>3, <1>4, BeginKeeps

LEMMA DescendKeeps == ASSUME EInv, CInv', Descend PROVE EInv'
<1>1. /\ TInv /\ stack # << >> /\ Wants(Top) /\ program' = program
      /\ Begin(stack, Wanted(Top), Top.st)
  BY DEF EInv, CInv, Descend, Busy
<1>2. Top \in Frames  BY <1>1, StackFacts
<1>3. Wanted(Top) \in Originals  BY <1>1, <1>2, FrameFacts
<1>4. Top.st \in Nat  BY <1>1, <1>2, FrameFacts, HeapFacts DEF TInv, TablesTyped
<1> QED  BY <1>1, <1>3, <1>4, BeginKeeps

(* What a program consists of is numbered, so it has no loops. *)
LEMMA InitKeeps == DumpInit => EInv
<1> SUFFICES ASSUME DumpInit PROVE EInv  OBVIOUS
<1>1. CInv /\ TInv  BY InitOK DEF CInv
<1>2. heap = program.node /\ accessible = << >> /\ stack = << >>
  BY DEF DumpInit, Init
<1>3. Objects = Originals /\ Copies = {}  BY <1>2 DEF Objects, Originals, Copies
<1>4. Len(stack) = 0 /\ 1 .. Len(stack) = {} /\ Stacked = {}
  <2>1. Len(stack) = 0  BY <1>2, EmptySeq
  <2> QED  BY <2>1 DEF Stacked
<1>5. \A o \in Objects : heap[o].of = o  BY <1>1, <1>3, ScopeFacts
<1>6. \A o \in Objects : Settled(o)  BY <1>4, <1>5 DEF Settled
<1>7. ASSUME NEW o \in Objects PROVE ObjectIs(o)
  <2>1. PICK e : e = heap[o]  OBVIOUS
  <2>2. /\ Uses(e) \subseteq Originals
        /\ \A k \in Elements(e.captures) \cup Elements(CalleeOf(e)) : heap[k].op = "symbol"
    BY <1>1, <1>3, <2>1, ScopeFacts
  <2> QED  BY <1>3, <1>5, <1>6, <2>1, <2>2 DEF ObjectIs
<1>8. DOMAIN accessible = {}
  <2>1. << >> \in Seq({}) /\ Len(<< >>) = 0  BY EmptySeq
  <2>2. DOMAIN << >> = 1 .. 0  BY <2>1, LenProperties
  <2> QED  BY <1>2, <2>2
<1>9. Founded
  <2> SUFFICES ASSUME NEW S \in SUBSET Objects, S # {}
               PROVE  \E x \in S : Elements(Dependencies(heap[x])) \cap S = {}
    BY DEF Founded
  <2>1. PICK x \in S : \A y \in S : x <= y
    <3>1. S \subseteq Nat  BY <1>1, <1>3, HeapFacts
    <3> QED  BY <3>1, Least
  <2>2. \A k \in Uses(heap[x]) : k \in Nat /\ k < x
    BY <1>1, <1>3, ScopeFacts
  <2>3. Elements(Dependencies(heap[x])) \subseteq Uses(heap[x])
    BY <1>1, HeapFacts, DependenciesUsed
  <2>4. x \in Nat  BY <1>1, HeapFacts
  <2>5. \A k \in S : k \in Nat  BY <1>1, HeapFacts
  <2> QED  BY <2>1, <2>2, <2>3, <2>4, <2>5
<1> QED
  BY <1>1, <1>3, <1>4, <1>7, <1>8, <1>9 DEF EInv, FramesLinked, PlacesKept

LEMMA NextKeeps == EInv /\ CInv' /\ [DumpNext]_allVars => EInv'
<1> SUFFICES ASSUME EInv, CInv', [DumpNext]_allVars PROVE EInv'  OBVIOUS
<1>1. CASE Step
  BY <1>1, InstantiateKeeps, DescendKeeps, ResolveKeeps, UnresolvedKeeps,
     ShareCapturesKeeps, FinishKeeps DEF Step
<1>2. CASE UNCHANGED vars
  <2>1. /\ program' = program /\ heap' = heap /\ accessible' = accessible /\ stack' = stack
    BY <1>2 DEF vars
  <2>2. Stacked' \subseteq Stacked  BY <2>1 DEF Stacked
  <2>3. /\ Steady /\ TInv' /\ \A o \in Objects' : ObjectIs(o)'
        /\ \A o \in Copies' : CopyIs(o)'
        /\ PlacesKept' /\ Founded'
    BY <2>1, <2>2, ObjectsStay
  <2>4. TInv /\ Known /\ Len(stack) \in Nat /\ \A i \in 1 .. Len(stack) : stack[i] \in Frames
    BY LenProperties, ElementOfSeq DEF EInv, CInv, TInv, Known
  <2>5. ASSUME NEW i \in 1 .. Len(stack') PROVE FrameIs(stack[i])'
    <3>1. PICK x : x = stack[i]  OBVIOUS
    <3>2. x \in Frames /\ FrameIs(x) /\ stack'[i] = x  BY <2>1, <2>4, <3>1 DEF EInv
    <3>3. FrameIs(x)'  BY <2>3, <2>4, <3>2, FrameStays
    <3> QED  BY <3>2, <3>3
  <2>6. FramesLinked'
    <3>1. Len(stack') <= Len(stack) /\ Len(stack') \in Nat
          /\ \A i \in 1 .. Len(stack') :
               /\ stack'[i].obj = stack[i].obj /\ stack'[i].st = stack[i].st
               /\ stack'[i].src = stack[i].src
               /\ i < Len(stack') => stack'[i] = stack[i]
      BY <2>1, <2>4
    <3> QED  BY <2>3, <2>4, <3>1, LinkedStays DEF EInv
  <2>7. \A c \in DOMAIN accessible' : TableIs(c)'
    BY <2>1, <2>3, <2>4, TableStays DEF EInv
  <2> QED  BY <2>3, <2>5, <2>6, <2>7 DEF EInv
<1>3. Step \/ UNCHANGED vars
  BY DEF DumpNext, DumpStep, BeginDump, Dependency, PrintLine, EndDump, Done, allVars, vars
<1> QED  BY <1>1, <1>2, <1>3

LEMMA ObjectsInvariant == DumpSpec => []EInv
<1>1. DumpInit => EInv  BY InitKeeps
<1>2. EInv /\ [DumpNext]_allVars => EInv'
  <2>1. EInv => CInv  BY DEF EInv
  <2> QED  BY <2>1, NextOK, NextKeeps
<1> QED  BY <1>1, <1>2, PTL DEF DumpSpec

-----------------------------------------------------------------------------
(* What a text mentions. *)
LEMMA NamesAre ==
  ASSUME NEW S, NEW objs \in Seq(S)
  PROVE  Elements(NamesOf(objs)) = {heap[k].name : k \in Elements(objs)}
<1>1. PICK n, s : n = Len(objs) /\ s = NamesOf(objs)  OBVIOUS
<1>2. n \in Nat /\ DOMAIN objs = 1 .. n  BY <1>1, LenProperties
<1>3. s = [i \in 1 .. n |-> heap[objs[i]].name]  BY <1>1, <1>2 DEF NamesOf
<1>4. PICK T : T = {heap[objs[i]].name : i \in 1 .. n}  OBVIOUS
<1>5. s \in [1 .. n -> T]  BY <1>3, <1>4
<1>6. s \in Seq(T)  BY <1>2, <1>5, SeqDef
<1>7. Len(s) = n
  <2>1. Len(s) \in Nat /\ DOMAIN s = 1 .. Len(s)  BY <1>6, LenProperties
  <2>2. 1 .. Len(s) = 1 .. n  BY <1>5, <2>1
  <2>3. PICK a : a = Len(s)  OBVIOUS
  <2>4. a \in Nat /\ \A i : i \in 1 .. a <=> i \in 1 .. n  BY <2>1, <2>2, <2>3
  <2>5. ~ (a < n)
    <3>1. a < n => n \in 1 .. n /\ n \notin 1 .. a  BY <1>2, <2>4
    <3> QED  BY <2>4, <3>1
  <2>6. ~ (n < a)
    <3>1. n < a => a \in 1 .. a /\ a \notin 1 .. n  BY <1>2, <2>4
    <3> QED  BY <2>4, <3>1
  <2> QED  BY <1>2, <2>3, <2>4, <2>5, <2>6
<1>8. Elements(s) = T
  <2>1. \A i \in 1 .. n : s[i] = heap[objs[i]].name  BY <1>3
  <2> QED  BY <1>4, <1>7, <2>1 DEF Elements
<1>9. T = {heap[k].name : k \in Elements(objs)}
  <2>1. Elements(objs) = {objs[i] : i \in 1 .. n}  BY <1>1 DEF Elements
  <2> QED  BY <1>4, <2>1
<1> QED  BY <1>1, <1>8, <1>9

(* Objects whose texts lead to each other only, and to name n nowhere. *)
Silent(Z, n) ==
  \A z \in Z : n \notin Says(heap[z]) /\ Elements(Operands(heap[z])) \subseteq Z

Mentioning(m) ==
  m = [o \in Objects |-> Says(heap[o]) \cup UNION {m[k] : k \in Elements(Operands(heap[o]))}]

(* The definition of Mentions has a solution, whatever the objects are      *)
(* made of: a name is mentioned by all objects outside the silent sets.     *)
LEMMA MentionsAre ==
  ASSUME TInv, Known
  PROVE  \A o \in Objects :
           Mentions[o] = Says(heap[o]) \cup UNION {Mentions[k] : k \in Elements(Operands(heap[o]))}
<1>1. PICK A : A = UNION {Says(heap[o]) : o \in Objects}  OBVIOUS
<1>2. PICK m : m = [o \in Objects |-> {n \in A : \A Z \in SUBSET Objects : Silent(Z, n) => o \notin Z}]
  OBVIOUS
<1>3. \A o \in Objects : m[o] = {n \in A : \A Z \in SUBSET Objects : Silent(Z, n) => o \notin Z}
  BY <1>2
<1>4. \A o \in Objects : Elements(Operands(heap[o])) \subseteq Objects
  <2> SUFFICES ASSUME NEW o \in Objects PROVE Elements(Operands(heap[o])) \subseteq Objects
    OBVIOUS
  <2>1. \A k \in Uses(heap[o]) : k \in Objects  BY DEF Known, ObjectIs, Settled
  <2>2. CASE heap[o].op \in {"symbol", "context"}
    <3>1. Operands(heap[o]) = << >>  BY <2>2 DEF Operands
    <3> QED  BY <3>1, Nothing
  <2>3. CASE heap[o].op \notin {"symbol", "context"}
    <3>1. Operands(heap[o]) = heap[o].kids  BY <2>3 DEF Operands
    <3> QED  BY <2>1, <3>1 DEF Uses
  <2> QED  BY <2>2, <2>3
<1>5. ASSUME NEW o \in Objects
      PROVE  m[o] = Says(heap[o]) \cup UNION {m[k] : k \in Elements(Operands(heap[o]))}
  <2>1. PICK P : P = Elements(Operands(heap[o]))  OBVIOUS
  <2>2. P \subseteq Objects  BY <1>4, <2>1
  <2>3. ASSUME NEW n \in Says(heap[o]) PROVE n \in m[o]
    <3>1. n \in A  BY <1>1
    <3>2. \A Z \in SUBSET Objects : Silent(Z, n) => o \notin Z  BY DEF Silent
    <3> QED  BY <1>3, <3>1, <3>2
  <2>4. ASSUME NEW k \in P, NEW n \in m[k] PROVE n \in m[o]
    <3>1. n \in A /\ \A Z \in SUBSET Objects : Silent(Z, n) => k \notin Z  BY <1>3, <2>2, <2>4
    <3>2. \A Z \in SUBSET Objects : Silent(Z, n) => o \notin Z  BY <2>1, <3>1 DEF Silent
    <3> QED  BY <1>3, <3>1, <3>2
  <2>5. ASSUME NEW n \in m[o], n \notin Says(heap[o]), \A k \in P : n \notin m[k]
        PROVE  FALSE
    <3>1. n \in A /\ \A Z \in SUBSET Objects : Silent(Z, n) => o \notin Z  BY <1>3
    <3>2. PICK R : R = {Z \in SUBSET Objects : Silent(Z, n)}  OBVIOUS
    <3>3. PICK Y : Y = {o} \cup UNION R  OBVIOUS
    <3>4. Y \in SUBSET Objects  BY <3>2, <3>3
    <3>5. \A k \in P : k \in Y
      <4> SUFFICES ASSUME NEW k \in P PROVE k \in UNION R
        BY <3>3
      <4>1. \E Z \in SUBSET Objects : Silent(Z, n) /\ k \in Z  BY <1>3, <2>2, <2>5, <3>1
      <4> QED  BY <3>2, <4>1
    <3>6. ASSUME NEW z \in Y
          PROVE  n \notin Says(heap[z]) /\ Elements(Operands(heap[z])) \subseteq Y
      <4>1. CASE z = o  BY <2>1, <2>5, <3>5, <4>1
      <4>2. CASE z # o
        <5>1. PICK Z \in R : z \in Z  BY <3>3, <4>2
        <5>2. Silent(Z, n) /\ Z \subseteq Y  BY <3>2, <3>3
        <5> QED  BY <5>1, <5>2 DEF Silent
      <4> QED  BY <4>1, <4>2
    <3>7. Silent(Y, n)  BY <3>6 DEF Silent
    <3> QED  BY <3>1, <3>3, <3>4, <3>7
  <2>6. m[o] \subseteq Says(heap[o]) \cup UNION {m[k] : k \in P}  BY <2>5
  <2>7. Says(heap[o]) \cup UNION {m[k] : k \in P} \subseteq m[o]  BY <2>3, <2>4
  <2> QED  BY <2>1, <2>6, <2>7
<1>6. Mentioning(m)
  <2>1. m = [o \in Objects |-> m[o]]  BY <1>2
  <2> QED  BY <1>5, <2>1 DEF Mentioning
<1>7. Mentioning(Mentions)  BY <1>6, Zenon DEF Mentions, Mentioning
<1> QED  BY <1>7 DEF Mentioning

LEMMA SymbolMentions ==
  ASSUME TInv, Known, NEW o \in Objects, heap[o].op = "symbol"
  PROVE  Mentions[o] = {heap[o].name}
<1>1. Says(heap[o]) = {heap[o].name} /\ Operands(heap[o]) = << >>  BY DEF Says, Operands
<1>2. Elements(Operands(heap[o])) = {}  BY <1>1, Nothing
<1>3. Mentions[o] = Says(heap[o]) \cup UNION {Mentions[k] : k \in Elements(Operands(heap[o]))}
  BY MentionsAre
<1> QED  BY <1>1, <1>2, <1>3

(* All other texts mention what those they depend on do. *)
LEMMA OthersMention ==
  ASSUME TInv, Known, NEW o \in Objects, heap[o].op # "symbol"
  PROVE  Mentions[o] \subseteq UNION {Mentions[k] : k \in Elements(Dependencies(heap[o]))}
<1>1. PICK e, D : e = heap[o] /\ D = Elements(Dependencies(e))  OBVIOUS
<1>2. e \in Expr /\ ObjectIs(o)  BY <1>1, HeapFacts DEF Known
<1>3. D = IF e.op = "context" THEN Elements(e.captures) ELSE Elements(e.kids) \cup Elements(CalleeOf(e))
  BY <1>1, <1>2, UsesFacts
<1>4. \A k \in Elements(e.captures) \cup Elements(CalleeOf(e)) : k \in Objects /\ heap[k].op = "symbol"
  BY <1>1, <1>2 DEF ObjectIs, Uses, Settled
<1>5. PICK s : s = IF e.op = "context" THEN e.captures ELSE CalleeOf(e)  OBVIOUS
<1>6. s \in Seq(Nat) /\ Elements(s) \subseteq D
  BY <1>2, <1>3, <1>5, LinksFacts DEF Expr
<1>7. Says(e) = {heap[k].name : k \in Elements(s)}
  <2>1. Says(e) = Elements(NamesOf(s))  BY <1>1, <1>5 DEF Says
  <2> QED  BY <1>6, <2>1, NamesAre
<1>8. ASSUME NEW k \in Elements(s) PROVE Mentions[k] = {heap[k].name}
  <2>1. k \in Objects /\ heap[k].op = "symbol"  BY <1>4, <1>5
  <2> QED  BY <2>1, SymbolMentions
<1>9. Says(e) \subseteq UNION {Mentions[k] : k \in D}
  <2> SUFFICES ASSUME NEW n \in Says(e) PROVE \E k \in D : n \in Mentions[k]
    OBVIOUS
  <2>1. PICK k \in Elements(s) : n = heap[k].name  BY <1>7
  <2> QED  BY <1>6, <1>8, <2>1
<1>10. Elements(Operands(e)) \subseteq D
  <2>1. CASE e.op = "context"
    <3>1. Operands(e) = << >>  BY <2>1 DEF Operands
    <3> QED  BY <3>1, Nothing
  <2>2. CASE e.op # "context"
    <3>1. Operands(e) = e.kids  BY <1>1, <2>2 DEF Operands
    <3> QED  BY <1>3, <2>2, <3>1
  <2> QED  BY <2>1, <2>2
<1>11. Mentions[o] = Says(e) \cup UNION {Mentions[k] : k \in Elements(Operands(e))}
  BY <1>1, MentionsAre
<1>12. UNION {Mentions[k] : k \in Elements(Operands(e))} \subseteq UNION {Mentions[k] : k \in D}
  BY <1>10
<1> QED  BY <1>1, <1>9, <1>11, <1>12

LEMMA SymbolNamed ==
  ASSUME TInv, Known, NEW o \in Objects, heap[o].op = "symbol"
  PROVE  heap[o].name \in Names
<1>1. PICK s : s = heap[o].of  OBVIOUS
<1>2. s \in Originals /\ heap[s].op = "symbol" /\ heap[o].name = heap[s].name
  BY <1>1 DEF Known, ObjectIs
<1>3. heap[s].name \in Names  BY <1>2, SourceFacts
<1> QED  BY <1>2, <1>3

LEMMA OnlyNames ==
  ASSUME TInv, Known, Founded
  PROVE  \A o \in Objects : Mentions[o] \subseteq Names
<1>1. PICK S : S = {o \in Objects : ~(Mentions[o] \subseteq Names)}  OBVIOUS
<1> SUFFICES ASSUME S # {} PROVE FALSE
  BY <1>1
<1>2. PICK x \in S : Elements(Dependencies(heap[x])) \cap S = {}
  <2>1. S \in SUBSET Objects  BY <1>1
  <2> QED  BY <2>1 DEF Founded
<1>3. x \in Objects /\ ~(Mentions[x] \subseteq Names)  BY <1>1
<1>4. CASE heap[x].op = "symbol"  BY <1>3, <1>4, SymbolMentions, SymbolNamed
<1>5. CASE heap[x].op # "symbol"
  <2>1. Mentions[x] \subseteq UNION {Mentions[k] : k \in Elements(Dependencies(heap[x]))}
    BY <1>3, <1>5, OthersMention
  <2>2. \A k \in Elements(Dependencies(heap[x])) : k \in Objects
    <3>1. heap[x] \in Expr  BY <1>3, HeapFacts
    <3> QED  BY <1>3, <3>1, DependenciesUsed DEF Known, ObjectIs, Settled
  <2>3. \A k \in Elements(Dependencies(heap[x])) : Mentions[k] \subseteq Names
    BY <1>1, <1>2, <2>2
  <2> QED  BY <1>3, <2>1, <2>3
<1> QED  BY <1>4, <1>5

-----------------------------------------------------------------------------
Given(c) == heap[c].captures \o heap[c].params
GivenNames(c) == Elements(NamesOf(Given(c)))

(* The contexts whose text does not name what is outside of them. *)
Readable(c) == c \in Originals \/ CapturesCopied(c) = {}

(* Where the dump of c gets to.  The captures of a context inside are       *)
(* defined around it, those of a copied one in the original context.        *)
Reached(c) ==
  {o \in Copies : heap[o].in = c} \cup {o \in Originals : heap[o].in = heap[c].of}
  \cup {o \in Originals : \E s \in Originals :
          o \in Elements(heap[s].captures) /\ heap[s].in = heap[c].of}

LEMMA ContextFacts ==
  ASSUME EInv, NEW c \in Contexts, NEW s, s = heap[c].of, NEW r, r = heap[c].kids[1]
  PROVE  /\ c \in Objects /\ heap[c] \in Expr /\ heap[c].op = "context"
         /\ s \in Originals /\ heap[s].op = "context" /\ (c \in Originals => s = c)
         /\ heap[c].captures = heap[s].captures
         /\ \A q \in Elements(heap[s].params) :
              \E k \in Elements(heap[c].params) : heap[k].name = heap[q].name
         /\ Given(c) \in Seq(Nat)
         /\ Elements(Given(c)) = Elements(heap[c].captures) \cup Elements(heap[c].params)
         /\ \A k \in Elements(Given(c)) : k \in Objects /\ heap[k].op = "symbol"
         /\ r \in Elements(heap[c].kids) /\ r \in Objects /\ heap[r].op = "ret" /\ r \in Reached(c)
<1>1. TInv /\ Known  BY DEF EInv, CInv, Known
<1>2. PICK e, d : e = heap[c] /\ d = heap[s]  OBVIOUS
<1>3. c \in Originals \cup Copies /\ c \in Objects /\ e.op = "context" /\ e.kids # << >> /\ e \in Expr
  BY <1>1, <1>2, HeapFacts DEF Contexts, Complete
<1>4. /\ s \in Originals /\ d.op = "context" /\ \A k \in Uses(e) : k \in Objects
      /\ \A k \in Elements(e.captures) : heap[k].op = "symbol"
  <2>1. ObjectIs(c)  BY <1>1, <1>3 DEF Known
  <2> QED  BY <1>2, <1>3, <2>1 DEF ObjectIs, Settled
<1>5. e.captures \in Seq(Nat) /\ e.params \in Seq(Nat) /\ e.kids \in Seq(Nat)
  BY <1>3 DEF Expr
<1>6. r \in Elements(e.kids) /\ r \in Objects
  <2>1. r \in Elements(e.kids)  BY <1>2, <1>3, <1>5, FirstElement
  <2> QED  BY <1>4, <2>1 DEF Uses
<1>7. /\ Given(c) \in Seq(Nat)
      /\ Elements(Given(c)) = Elements(e.captures) \cup Elements(e.params)
  <2>1. PICK a, b : a = e.captures /\ b = e.params  OBVIOUS
  <2>2. a \in Seq(Nat) /\ b \in Seq(Nat) /\ Given(c) = a \o b  BY <1>2, <1>5, <2>1 DEF Given
  <2> QED  BY <2>1, <2>2, Joined
<1>8. \A k \in Elements(Given(c)) : k \in Objects  BY <1>4, <1>7 DEF Uses
<1>9. CASE c \in Originals
  <2>1. /\ s = c /\ heap[r].op = "ret"
        /\ \A k \in Elements(e.params) \cup Elements(e.captures) : heap[k].op = "symbol"
        /\ r \in Originals
    <3>1. /\ e.of = c /\ Uses(e) \subseteq Originals
          /\ \A k \in Elements(e.params) \cup Elements(e.captures) : heap[k].op = "symbol"
          /\ heap[e.kids[1]].op = "ret"
      BY <1>1, <1>2, <1>3, <1>9, ScopeFacts
    <3> QED  BY <1>2, <1>6, <3>1 DEF Uses
  <2>2. c \notin Captures
    <3> SUFFICES ASSUME NEW n \in Originals, c \in Elements(heap[n].captures) PROVE FALSE
      BY <1>1, <1>9 DEF Captures, TInv, ProgramKept
    <3>1. heap[c].op = "symbol"  BY <1>1, ScopeFacts
    <3> QED  BY <1>2, <1>3, <3>1
  <2>3. r \in Elements(Parts(e))  BY <1>3, <1>6, UsesFacts
  <2>4. heap[r].in = c  BY <1>1, <1>2, <1>3, <1>9, <2>2, <2>3, ScopeFacts
  <2>5. r \in Reached(c)  BY <2>1, <2>4 DEF Reached
  <2> QED  BY <1>2, <1>3, <1>4, <1>6, <1>7, <1>8, <1>9, <2>1, <2>5
<1>10. CASE c \in Copies
  <2>1. ContextIs(c)  BY <1>2, <1>3, <1>10 DEF EInv, CopyIs
  <2>2. /\ e.captures = d.captures /\ heap[r].op = "ret" /\ heap[r].in = c
        /\ \A q \in Elements(d.params) :
             \E k \in Elements(e.params) : heap[k].name = heap[q].name
        /\ \A k \in Elements(e.params) : heap[k].op = "symbol"
    BY <1>2, <2>1 DEF ContextIs
  <2>3. r \in Copies
    <3>1. r \in Originals => heap[r].in \in {None} \cup Originals  BY <1>1, ScopeFacts
    <3>2. c # None /\ c \notin Originals  BY <1>1, <1>10, HeapFacts DEF None
    <3> QED  BY <1>6, <2>2, <3>1, <3>2 DEF Copies
  <2>4. r \in Reached(c)  BY <2>2, <2>3 DEF Reached
  <2>5. c \notin Originals  BY <1>10 DEF Copies
  <2> QED  BY <1>2, <1>3, <1>4, <1>6, <1>7, <1>8, <2>2, <2>4, <2>5
<1> QED  BY <1>3, <1>9, <1>10

(* The dump goes on to what is reached, or to a capture. *)
LEMMA ReachedOn ==
  ASSUME EInv, NEW c \in Contexts, Readable(c), NEW o \in Reached(c),
         o \notin Elements(heap[c].captures), NEW k \in Elements(Dependencies(heap[o]))
  PROVE  k \in Reached(c) \cup Elements(heap[c].captures) /\ Settled(k)
<1>1. TInv /\ Known  BY DEF EInv, CInv, Known
<1>2. PICK e, s, cs : e = heap[o] /\ s = heap[c].of /\ cs = heap[c].captures  OBVIOUS
<1>3. /\ c \in Objects /\ s \in Originals /\ (c \in Originals => s = c)
      /\ cs = heap[s].captures
  BY <1>2, ContextFacts
<1>4. o \in Objects /\ e \in Expr
  BY <1>1, <1>2, HeapFacts DEF Reached
<1>5. k \in Uses(e) /\ Settled(k) /\ k \in Objects
  BY <1>1, <1>2, <1>4, DependenciesUsed DEF Known, ObjectIs, Settled
<1>6. /\ e.op = "context" => k \in Elements(e.captures)
      /\ e.op # "context" => k \in Elements(e.kids) \cup Elements(CalleeOf(e))
      /\ e.op # "context" => k \in Elements(Parts(e))
  BY <1>2, <1>4, UsesFacts
<1>7. CASE o \in Copies /\ e.in = c
  <2>1. CapturesCopied(c) = {} /\ c \in Copies
    <3>1. c \in Copies /\ c \notin Originals
      <4>1. CopyIs(o)  BY <1>7 DEF EInv
      <4>2. c \in Copies \/ c = None  BY <1>2, <1>7, <4>1 DEF CopyIs
      <4> QED  BY <1>1, <1>3, <4>2, HeapFacts DEF None, Copies
    <3> QED  BY <3>1 DEF Readable
  <2>2. CopyIs(o)  BY <1>7 DEF EInv
  <2>3. CASE e.op = "context"
    <3>1. PICK t : t = e.of  OBVIOUS
    <3>2. Elements(e.captures) \subseteq Elements(heap[t].captures)  BY <1>2, <2>2, <2>3, <3>1 DEF CopyIs
    <3>3. t \in Originals  BY <1>1, <1>2, <1>4, <3>1 DEF Known, ObjectIs
    <3>4. heap[t].in = s
      <4>1. e.in # None  BY <1>1, <1>7, <2>1, HeapFacts DEF None
      <4> QED  BY <1>2, <1>7, <2>1, <3>1, <4>1 DEF EInv, PlacesKept
    <3>5. k \in Originals /\ k \in Elements(heap[t].captures)
      <4>1. k \in Elements(heap[t].captures)  BY <1>6, <2>3, <3>2
      <4>2. Uses(heap[t]) \subseteq Originals  BY <1>1, <3>3, ScopeFacts
      <4> QED  BY <4>1, <4>2 DEF Uses
    <3> QED  BY <1>2, <1>5, <3>3, <3>4, <3>5 DEF Reached
  <2>4. CASE e.op # "context"
    <3>1. k \in Local(c)  BY <1>2, <1>6, <1>7, <2>2, <2>4 DEF CopyIs
    <3>2. CASE k \in Elements(heap[s].captures)  BY <1>2, <1>3, <1>5, <3>2
    <3>3. CASE heap[k].in = c
      <4>1. k \in Originals => heap[k].in \in {None} \cup Originals  BY <1>1, ScopeFacts
      <4>2. c # None /\ c \notin Originals  BY <1>1, <2>1, HeapFacts DEF None, Copies
      <4>3. k \in Copies  BY <1>5, <3>3, <4>1, <4>2 DEF Copies
      <4> QED  BY <1>5, <3>3, <4>3 DEF Reached
    <3> QED  BY <1>2, <3>1, <3>2, <3>3 DEF Local
  <2> QED  BY <2>3, <2>4
<1>8. CASE o \in Originals /\ e.in = s
  <2>1. o \notin Captures
    <3> SUFFICES ASSUME NEW n \in Originals, o \in Elements(heap[n].captures) PROVE FALSE
      BY <1>1, <1>8 DEF Captures, TInv, ProgramKept
    <3>1. e.in = n  BY <1>1, <1>2, <1>8, ScopeFacts
    <3> QED  BY <1>2, <1>3, <1>8, <3>1
  <2>2. Uses(e) \subseteq Originals  BY <1>1, <1>2, <1>8, ScopeFacts
  <2>3. k \in Originals  BY <1>5, <2>2
  <2>4. CASE e.op = "context"
    BY <1>2, <1>5, <1>6, <1>8, <2>3, <2>4 DEF Reached
  <2>5. CASE e.op # "context"
    <3>1. heap[k].in = s  BY <1>1, <1>2, <1>6, <1>8, <2>1, <2>5, ScopeFacts
    <3> QED  BY <1>2, <1>5, <2>3, <3>1 DEF Reached
  <2> QED  BY <2>4, <2>5
<1>9. CASE o \in Originals /\ \E t \in Originals : o \in Elements(heap[t].captures) /\ heap[t].in = s
  <2>1. PICK t \in Originals : o \in Elements(heap[t].captures) /\ heap[t].in = s  BY <1>9
  <2>2. heap[k].in = s  BY <1>1, <1>2, <1>9, <2>1, ScopeFacts
  <2>3. Uses(e) \subseteq Originals  BY <1>1, <1>2, <1>9, ScopeFacts
  <2> QED  BY <1>2, <1>5, <2>2, <2>3 DEF Reached
<1> QED  BY <1>2, <1>7, <1>8, <1>9 DEF Reached

(* A symbol without right hand side is a parameter. *)
LEMMA ReachedEnds ==
  ASSUME EInv, NEW c \in Contexts, Readable(c), NEW k \in Reached(c), Settled(k),
         heap[k].op = "symbol", heap[k].kids = << >>
  PROVE  \E q \in Elements(Given(c)) : heap[q].name = heap[k].name
<1>1. TInv /\ Known  BY DEF EInv, CInv, Known
<1>2. PICK e, s, ps : e = heap[k] /\ s = heap[c].of /\ ps = heap[c].params  OBVIOUS
<1>3. /\ c \in Objects /\ s \in Originals /\ (c \in Originals => s = c)
      /\ Elements(ps) \subseteq Elements(Given(c))
      /\ \A q \in Elements(heap[s].params) : \E p \in Elements(ps) : heap[p].name = heap[q].name
  BY <1>2, ContextFacts
<1>4. SUFFICES \E q \in Elements(heap[s].params) : heap[q].name = e.name
  BY <1>2, <1>3
<1>5. CASE k \in Copies /\ e.in = c
  <2>1. PICK t : t = e.of  OBVIOUS
  <2>2. heap[t].kids = << >>  BY <1>2, <2>1 DEF Settled
  <2>3. t \in Originals /\ heap[t].op = "symbol" /\ heap[t].name = e.name
    <3>1. k \in Objects  BY DEF Settled
    <3> QED  BY <1>1, <1>2, <2>1, <3>1 DEF Known, ObjectIs
  <2>4. CapturesCopied(c) = {} /\ c # None
    <3>1. CopyIs(k)  BY <1>5 DEF EInv
    <3>2. c # None /\ c \notin Originals
      <4>1. c \in Copies \/ c = None  BY <1>2, <1>5, <3>1 DEF CopyIs
      <4> QED  BY <1>1, <1>3, <4>1, HeapFacts DEF None, Copies
    <3> QED  BY <3>2 DEF Readable
  <2>5. heap[t].in = s  BY <1>2, <1>5, <2>1, <2>4 DEF EInv, PlacesKept
  <2>6. t \in Elements(heap[heap[t].in].params)  BY <1>1, <2>2, <2>3, ScopeFacts
  <2> QED  BY <2>3, <2>5, <2>6
<1>6. CASE k \in Originals /\ e.in = s
  <2>1. k \in Elements(heap[e.in].params)  BY <1>1, <1>2, <1>6, ScopeFacts
  <2> QED  BY <1>2, <1>6, <2>1
<1>7. CASE k \in Originals /\ \E t \in Originals : k \in Elements(heap[t].captures)
  <2>1. e.kids # << >>  BY <1>1, <1>2, <1>7, ScopeFacts
  <2> QED  BY <1>2, <2>1
<1> QED  BY <1>2, <1>5, <1>6, <1>7 DEF Reached

-----------------------------------------------------------------------------
(* A dump of c that is under way: its activations w, what it has dumped D   *)
(* and its lines L.                                                         *)
Visits == [expr: Objects, next: Nat \ {0}]
TextLine == [sym: Objects, name: Names \cup {""}, uses: SUBSET Names]
Needs(f) == Dependencies(heap[f.expr])

(* The names a reader has met. *)
Told(c, L) == GivenNames(c) \cup {L[i].name : i \in 1 .. Len(L)}

TextIs(c, text) ==
  \A i \in 1 .. Len(text) :
    /\ Readable(c) => text[i].uses \subseteq GivenNames(c) \cup {text[j].name : j \in 1 .. i - 1}
    /\ \A j \in 1 .. i - 1 : text[j].sym # text[i].sym

(* The walk is a path through the dependencies, from the return on. *)
WalkIs(c, w, D) ==
  /\ w # << >> => w[1].expr = heap[c].kids[1]
  /\ \A i \in 1 .. Len(w) :
       /\ w[i].next <= Len(Needs(w[i])) + 1
       /\ heap[w[i].expr].op = "symbol" => w[i].expr \notin D
       /\ Readable(c) => w[i].expr \in Reached(c)
       /\ i < Len(w) => w[i].next > 1 /\ w[i + 1].expr = Needs(w[i])[w[i].next - 1]

Accounted(c, D, L) ==
  /\ Elements(Given(c)) \subseteq D
  /\ \A o \in D : o \in Elements(Given(c)) \/ \E i \in 1 .. Len(L) : L[i].sym = o
  /\ \A i \in 1 .. Len(L) : /\ L[i].sym \in D /\ heap[L[i].sym].op = "symbol"
                            /\ L[i].name = heap[L[i].sym].name

(* How many of its dependencies activation i is done with. *)
Behind(w, i) == w[i].next - (IF i < Len(w) THEN 2 ELSE 1)

Explained(c, w, L) ==
  Readable(c) =>
    /\ \A i \in 1 .. Len(w) : \A j \in 1 .. Behind(w, i) :
         Mentions[Needs(w[i])[j]] \subseteq Told(c, L)
    /\ w = << >> =>
         \A k \in Elements(heap[heap[c].kids[1]].kids) : Mentions[k] \subseteq Told(c, L)

DumpIs(c, w, D, L) ==
  /\ w \in Seq(Visits) /\ D \subseteq Objects /\ L \in Seq(TextLine)
  /\ WalkIs(c, w, D) /\ Accounted(c, D, L) /\ TextIs(c, L) /\ Explained(c, w, L)

TextsAre(T) ==
  \A c \in DOMAIN T : c \in Contexts /\ T[c] \in Seq(TextLine) /\ TextIs(c, T[c])

DInv ==
  \/ subject = None /\ walk = << >> /\ dumped = {} /\ lines = << >> /\ DOMAIN texts = {}
  \/ /\ Cloned /\ TextsAre(texts)
     /\ \/ /\ subject = None /\ walk = << >>
           /\ dumped \subseteq Objects /\ lines \in Seq(TextLine)
        \/ subject \in Contexts /\ DumpIs(subject, walk, dumped, lines)

LEMMA NeedsFacts ==
  ASSUME TInv, Known, NEW f \in Visits
  PROVE  /\ f.expr \in Objects /\ f.next \in Nat \ {0} /\ heap[f.expr] \in Expr
         /\ Needs(f) \in Seq(Nat) /\ Len(Needs(f)) \in Nat
         /\ \A j \in 1 .. Len(Needs(f)) :
              Needs(f)[j] \in Elements(Needs(f)) /\ Needs(f)[j] \in Objects
         /\ Elements(Needs(f)) \subseteq Uses(heap[f.expr])
<1>1. f.expr \in Objects /\ f.next \in Nat \ {0}  BY DEF Visits
<1>2. PICK e, s : e = heap[f.expr] /\ s = Needs(f)  OBVIOUS
<1>3. e \in Expr  BY <1>1, <1>2, HeapFacts
<1>4. s \in Seq(Nat) /\ Elements(s) \subseteq Uses(e)
  <2>1. s = Dependencies(e)  BY <1>2 DEF Needs
  <2> QED  BY <1>3, <2>1, UsesFacts, DependenciesUsed
<1>5. \A k \in Uses(e) : k \in Objects  BY <1>1, <1>2 DEF Known, ObjectIs, Settled
<1>6. \A j \in 1 .. Len(s) : s[j] \in Elements(s)  BY DEF Elements
<1>7. Len(s) \in Nat  BY <1>4, LenProperties
<1> QED  BY <1>1, <1>2, <1>3, <1>4, <1>5, <1>6, <1>7

LEMMA WalkFacts ==
  ASSUME NEW w \in Seq(Visits), w # << >>
  PROVE  LET u == SubSeq(w, 1, Len(w) - 1)
         IN  /\ Len(w) \in Nat \ {0} /\ Len(w) \in 1 .. Len(w)
             /\ \A i \in 1 .. Len(w) : w[i] \in Visits
             /\ u \in Seq(Visits) /\ Len(u) = Len(w) - 1
             /\ \A i \in 1 .. Len(w) - 1 : u[i] = w[i]
<1>1. Len(w) \in Nat \ {0}  BY LenProperties, EmptySeq
<1>2. \A i \in 1 .. Len(w) : w[i] \in Visits  BY ElementOfSeq
<1>3. PICK n, u : n = Len(w) - 1 /\ u = SubSeq(w, 1, n)  OBVIOUS
<1>4. n \in Nat /\ 1 \in Int /\ n \in Int /\ \A i \in 1 .. n : w[i] \in Visits
  BY <1>1, <1>2, <1>3
<1>5. /\ u \in Seq(Visits) /\ Len(u) = IF 1 <= n THEN n - 1 + 1 ELSE 0
      /\ \A i \in 1 .. n - 1 + 1 : u[i] = w[1 + i - 1]
  BY <1>3, <1>4, SubSeqProperties
<1>6. Len(u) = n /\ \A i \in 1 .. n : u[i] = w[i]  BY <1>4, <1>5
<1>7. u \in Seq(Visits) /\ Len(u) = Len(w) - 1 /\ \A i \in 1 .. Len(w) - 1 : u[i] = w[i]
  BY <1>3, <1>5, <1>6
<1>8. u = SubSeq(w, 1, Len(w) - 1)  BY <1>3
<1>9. Len(w) \in 1 .. Len(w)  BY <1>1
<1> HIDE <1>3, <1>4, <1>5, <1>6
<1> QED  BY <1>1, <1>2, <1>7, <1>8, <1>9

(* The walk does not come back to where it is. *)
LEMMA NoWayBack ==
  ASSUME TInv, Known, Founded, NEW c, NEW w \in Seq(Visits), NEW D, WalkIs(c, w, D),
         NEW i \in 1 .. Len(w) - 1
  PROVE  w[i].expr # w[Len(w)].expr
<1>1. PICK N : N = Len(w)  OBVIOUS
<1>2. N \in Nat /\ \A j \in 1 .. N : w[j] \in Visits  BY <1>1, LenProperties, ElementOfSeq
<1> SUFFICES ASSUME w[i].expr = w[N].expr PROVE FALSE
  BY <1>1
<1>3. i \in Nat /\ i >= 1 /\ i <= N - 1  BY <1>1, <1>2
<1>4. PICK S : S = {w[j].expr : j \in i .. N - 1}  OBVIOUS
<1>5. \A j \in i .. N - 1 : j \in 1 .. N /\ j < N /\ (j + 1 \in i .. N - 1 \/ j + 1 = N)
  BY <1>2, <1>3
<1>6. S \in SUBSET Objects /\ w[i].expr \in S
  <2>1. \A j \in i .. N - 1 : w[j].expr \in Objects  BY <1>2, <1>5 DEF Visits
  <2>2. i \in i .. N - 1  BY <1>2, <1>3
  <2> QED  BY <1>4, <2>1, <2>2
<1>7. PICK x \in S : Elements(Dependencies(heap[x])) \cap S = {}  BY <1>6 DEF Founded
<1>8. PICK j \in i .. N - 1 : x = w[j].expr  BY <1>4
<1>9. PICK f, m : f = w[j] /\ m = f.next - 1  OBVIOUS
<1>10. /\ f \in Visits /\ f.next <= Len(Needs(f)) + 1 /\ f.next > 1
       /\ w[j + 1].expr = Needs(f)[m]
  BY <1>1, <1>2, <1>5, <1>9 DEF WalkIs
<1>11. m \in 1 .. Len(Needs(f))
  <2>1. f.next \in Nat \ {0} /\ Len(Needs(f)) \in Nat  BY <1>1, <1>10, NeedsFacts
  <2>2. m = f.next - 1 /\ f.next <= Len(Needs(f)) + 1 /\ f.next > 1  BY <1>9, <1>10
  <2> HIDE <1>9
  <2> QED  BY <2>1, <2>2
<1>12. w[j + 1].expr \in Elements(Dependencies(heap[x]))
  BY <1>8, <1>9, <1>10, <1>11, NeedsFacts DEF Needs
<1>13. w[j + 1].expr \in S  BY <1>4, <1>5, <1>6
<1> QED  BY <1>7, <1>12, <1>13

LEMMA LineFacts ==
  ASSUME TInv, Known, Founded, NEW o \in Objects
  PROVE  /\ Line(o) \in TextLine /\ Line(o).sym = o /\ Line(o).name = heap[o].name
         /\ Line(o).uses = UNION {Mentions[k] : k \in Elements(heap[o].kids)}
<1>1. PICK u, n : u = UNION {Mentions[k] : k \in Elements(heap[o].kids)} /\ n = heap[o].name
  OBVIOUS
<1>2. n \in Names \cup {""}  BY <1>1, HeapFacts DEF Expr
<1>3. u \subseteq Names
  <2>1. \A k \in Elements(heap[o].kids) : k \in Objects  BY DEF Known, ObjectIs, Settled, Uses
  <2> QED  BY <1>1, <2>1, OnlyNames
<1>4. Line(o) = [sym |-> o, name |-> n, uses |-> u]  BY <1>1 DEF Line
<1>5. Line(o) \in TextLine
  <2>1. PICK M, P : M = Names \cup {""} /\ P = SUBSET Names  OBVIOUS
  <2>2. n \in M /\ u \in P  BY <1>2, <1>3, <2>1
  <2>3. [sym |-> o, name |-> n, uses |-> u] \in [sym: Objects, name: M, uses: P]  BY <2>2
  <2> QED  BY <1>4, <2>1, <2>3 DEF TextLine
<1>6. Line(o).sym = o /\ Line(o).name = n /\ Line(o).uses = u  BY <1>4
<1> QED  BY <1>1, <1>5, <1>6

(* What is given to a reader are the names of what is given. *)
LEMMA GivenFacts ==
  ASSUME EInv, NEW c \in Contexts
  PROVE  GivenNames(c) = {heap[k].name : k \in Elements(Given(c))}
BY ContextFacts, NamesAre DEF GivenNames

-----------------------------------------------------------------------------
(* How the lines grow. *)
Longer(c, L, x, M) ==
  /\ M \in Seq(TextLine) /\ Len(L) \in Nat /\ Len(M) = Len(L) + 1
  /\ \A i \in 1 .. Len(L) : M[i] = L[i]
  /\ M[Len(L) + 1] = x
  /\ Told(c, L) \subseteq Told(c, M) /\ x.name \in Told(c, M)

LEMMA LinesGrow ==
  ASSUME NEW c, NEW L \in Seq(TextLine), NEW x \in TextLine
  PROVE  Longer(c, L, x, Append(L, x))
<1>1. PICK M, n : M = Append(L, x) /\ n = Len(L)  OBVIOUS
<1>2. n \in Nat  BY <1>1, LenProperties
<1>3. /\ M \in Seq(TextLine) /\ Len(M) = n + 1
      /\ \A i \in 1 .. n : M[i] = L[i]
      /\ M[n + 1] = x
  BY <1>1, AppendProperties
<1>4. \A i \in 1 .. n : i \in 1 .. n + 1  BY <1>2
<1>5. n + 1 \in 1 .. n + 1  BY <1>2
<1>6. Told(c, L) \subseteq Told(c, M) /\ x.name \in Told(c, M)
  <2>1. Told(c, L) = GivenNames(c) \cup {L[i].name : i \in 1 .. n}  BY <1>1 DEF Told
  <2>2. Told(c, M) = GivenNames(c) \cup {M[i].name : i \in 1 .. n + 1}  BY <1>3 DEF Told
  <2> QED  BY <1>3, <1>4, <1>5, <2>1, <2>2
<1>7. Longer(c, L, x, M)  BY <1>1, <1>2, <1>3, <1>6 DEF Longer
<1> QED  BY <1>1, <1>7

LEMMA TextGrows ==
  ASSUME NEW c, NEW L \in Seq(TextLine), NEW x \in TextLine, TextIs(c, L),
         Readable(c) => x.uses \subseteq Told(c, L),
         \A j \in 1 .. Len(L) : L[j].sym # x.sym
  PROVE  TextIs(c, Append(L, x))
<1>1. PICK M, n, G : M = Append(L, x) /\ n = Len(L) /\ G = GivenNames(c)  OBVIOUS
<1>2. n \in Nat /\ Len(M) = n + 1 /\ M[n + 1] = x /\ \A i \in 1 .. n : M[i] = L[i]
  <2>1. Longer(c, L, x, M)  BY <1>1, LinesGrow
  <2> QED  BY <1>1, <2>1 DEF Longer
<1>3. ASSUME NEW i \in 1 .. n + 1
      PROVE  /\ Readable(c) => M[i].uses \subseteq G \cup {M[j].name : j \in 1 .. i - 1}
             /\ \A j \in 1 .. i - 1 : M[j].sym # M[i].sym
  <2>1. \A j \in 1 .. i - 1 : j \in 1 .. n /\ M[j] = L[j]  BY <1>2
  <2>2. {M[j].name : j \in 1 .. i - 1} = {L[j].name : j \in 1 .. i - 1}  BY <2>1
  <2>3. CASE i = n + 1
    <3>1. M[i] = x /\ 1 .. i - 1 = 1 .. n  BY <1>2, <2>3
    <3>2. Readable(c) => x.uses \subseteq G \cup {L[j].name : j \in 1 .. n}
      BY <1>1 DEF Told
    <3>3. \A j \in 1 .. n : L[j].sym # x.sym  BY <1>1
    <3> HIDE <1>1
    <3> QED  BY <2>1, <2>2, <3>1, <3>2, <3>3
  <2>4. CASE i # n + 1
    <3>1. i \in 1 .. n /\ M[i] = L[i]  BY <1>2, <2>4
    <3>2. /\ Readable(c) => L[i].uses \subseteq G \cup {L[j].name : j \in 1 .. i - 1}
          /\ \A j \in 1 .. i - 1 : L[j].sym # L[i].sym
      BY <1>1, <3>1 DEF TextIs
    <3> HIDE <1>1
    <3> QED  BY <2>1, <2>2, <3>1, <3>2
  <2> QED  BY <2>3, <2>4
<1>4. TextIs(c, M)  BY <1>1, <1>2, <1>3 DEF TextIs
<1> QED  BY <1>1, <1>4

(* What counts as dumped has been named to the reader. *)
LEMMA DumpedTold ==
  ASSUME EInv, NEW c \in Contexts, NEW D \in SUBSET Objects, NEW L, Accounted(c, D, L),
         NEW d \in D
  PROVE  heap[d].op = "symbol" /\ Mentions[d] \subseteq Told(c, L)
<1>1. TInv /\ Known  BY DEF EInv, CInv, Known
<1>2. heap[d].op = "symbol" /\ heap[d].name \in Told(c, L)
  <2>1. CASE d \in Elements(Given(c))
    BY <2>1, ContextFacts, GivenFacts DEF Told
  <2>2. CASE \E i \in 1 .. Len(L) : L[i].sym = d
    BY <2>2 DEF Accounted, Told
  <2> QED  BY <2>1, <2>2 DEF Accounted
<1> QED  BY <1>1, <1>2, SymbolMentions

LEMMA BeginIs ==
  ASSUME EInv, NEW c \in Contexts
  PROVE  DumpIs(c, <<Visit(heap[c].kids[1])>>, Elements(Given(c)), << >>)
<1>1. TInv /\ Known  BY DEF EInv, CInv, Known
<1>2. PICK r, v, w : r = heap[c].kids[1] /\ v = Visit(r) /\ w = <<v>>  OBVIOUS
<1>3. /\ r \in Objects /\ heap[r].op = "ret" /\ r \in Reached(c)
      /\ Elements(Given(c)) \subseteq Objects
  BY <1>2, ContextFacts
<1>4. v \in Visits /\ v.expr = r /\ v.next = 1
  <2>1. v = [expr |-> r, next |-> 1]  BY <1>2 DEF Visit
  <2> QED  BY <1>3, <2>1 DEF Visits
<1>5. w \in Seq(Visits) /\ Len(w) = 1 /\ w[1] = v  BY <1>2, <1>4
<1>6. WalkIs(c, w, Elements(Given(c)))
  <2>1. Len(Needs(v)) \in Nat  BY <1>1, <1>4, NeedsFacts
  <2>2. heap[v.expr].op # "symbol" /\ v.expr \in Reached(c) /\ v.expr = heap[c].kids[1]
    BY <1>2, <1>3, <1>4
  <2>3. v.next <= Len(Needs(v)) + 1  BY <1>4, <2>1
  <2>4. \A i \in 1 .. Len(w) : w[i] = v /\ ~ (i < Len(w))  BY <1>5
  <2>5. w[1] = v  BY <1>5
  <2> HIDE <1>2
  <2> QED  BY <2>2, <2>3, <2>4, <2>5 DEF WalkIs
<1>7. << >> \in Seq(TextLine) /\ Len(<< >>) = 0 /\ 1 .. Len(<< >>) = {}
  BY EmptySeq
<1>8. Accounted(c, Elements(Given(c)), << >>)  BY <1>7 DEF Accounted
<1>9. TextIs(c, << >>)  BY <1>7 DEF TextIs
<1>10. Explained(c, w, << >>)
  <2>1. \A i \in 1 .. Len(w) : i = 1  BY <1>5
  <2>2. Behind(w, 1) = 0 /\ 1 .. Behind(w, 1) = {}  BY <1>4, <1>5 DEF Behind
  <2>3. w # << >>  BY <1>2
  <2> QED  BY <2>1, <2>2, <2>3 DEF Explained
<1> QED  BY <1>2, <1>3, <1>5, <1>6, <1>7, <1>8, <1>9, <1>10 DEF DumpIs

(* The innermost activation goes on to its next dependency. *)
Advances(w, v) ==
  /\ v \in Seq(Visits) /\ Len(v) = Len(w)
  /\ v[Len(w)] \in Visits
  /\ v[Len(w)].expr = w[Len(w)].expr /\ v[Len(w)].next = w[Len(w)].next + 1
  /\ \A i \in 1 .. Len(w) - 1 : v[i] = w[i]

LEMMA Goes ==
  ASSUME NEW w \in Seq(Visits), w # << >>
  PROVE  Advances(w, Append(SubSeq(w, 1, Len(w) - 1), [w[Len(w)] EXCEPT !.next = @ + 1]))
<1>1. PICK n, u, f : n = Len(w) - 1 /\ u = SubSeq(w, 1, Len(w) - 1) /\ f = w[Len(w)]  OBVIOUS
<1>2. /\ Len(w) = n + 1 /\ n \in Nat /\ f \in Visits
      /\ u \in Seq(Visits) /\ Len(u) = n /\ \A i \in 1 .. n : u[i] = w[i]
  <2>1. Len(w) \in Nat \ {0}  BY WalkFacts
  <2>2. Len(w) = n + 1 /\ n \in Nat  BY <1>1, <2>1
  <2> QED  BY <1>1, <2>2, WalkFacts
<1>3. PICK g : g = [f EXCEPT !.next = @ + 1]  OBVIOUS
<1>4. g \in Visits /\ g.expr = f.expr /\ g.next = f.next + 1
  BY <1>2, <1>3 DEF Visits
<1>5. PICK v : v = Append(u, g)  OBVIOUS
<1>6. /\ v \in Seq(Visits) /\ Len(v) = n + 1 /\ v[n + 1] = g
      /\ \A i \in 1 .. n : v[i] = u[i]
  BY <1>2, <1>4, <1>5, AppendProperties
<1>7. v = Append(SubSeq(w, 1, Len(w) - 1), [w[Len(w)] EXCEPT !.next = @ + 1])
  BY <1>1, <1>3, <1>5, Zenon
<1>8. Advances(w, v)
  <2>1. Len(v) = Len(w) /\ v[Len(w)] = g  BY <1>2, <1>6
  <2>2. \A i \in 1 .. Len(w) - 1 : v[i] = w[i]  BY <1>2, <1>6
  <2>3. f = w[Len(w)]  BY <1>1
  <2> HIDE <1>1
  <2> QED  BY <1>4, <1>6, <2>1, <2>2, <2>3 DEF Advances
<1> QED  BY <1>7, <1>8

MovedOn(w, v, N, f, g) ==
  /\ N \in Nat \ {0} /\ \A i \in 1 .. N : w[i] \in Visits
  /\ g \in Visits /\ g.expr = f.expr /\ g.next = f.next + 1 /\ f.next \in Nat \ {0}
  /\ Needs(g) = Needs(f)
  /\ v \in Seq(Visits) /\ Len(v) = N /\ v[N] = g
  /\ \A i \in 1 .. N - 1 : v[i] = w[i]

LEMMA AdvancedFacts ==
  ASSUME NEW w \in Seq(Visits), w # << >>, NEW v, Advances(w, v),
         NEW N, N = Len(w), NEW f, f = w[N], NEW g, g = v[N]
  PROVE  MovedOn(w, v, N, f, g)
<1>1. N \in Nat \ {0} /\ \A i \in 1 .. N : w[i] \in Visits  BY WalkFacts
<1>2. /\ v \in Seq(Visits) /\ Len(v) = N /\ g \in Visits
      /\ g.expr = f.expr /\ g.next = f.next + 1
      /\ \A i \in 1 .. N - 1 : v[i] = w[i]
  BY <1>1 DEF Advances
<1>3. Needs(g) = Needs(f)  BY <1>2 DEF Needs
<1>4. f.next \in Nat \ {0}  BY <1>1 DEF Visits
<1> QED  BY <1>1, <1>2, <1>3, <1>4 DEF MovedOn

(* What a dependency leads to, or that it need not be dumped. *)
LEMMA DependencyFacts ==
  ASSUME EInv, NEW c \in Contexts, NEW w, NEW D, NEW L, DumpIs(c, w, D, L), w # << >>,
         NEW f, f = w[Len(w)], f.next <= Len(Needs(f)), NEW d, d = Needs(f)[f.next],
         Readable(c)
  PROVE  /\ d \notin D => d \in Reached(c)
         /\ d \in D \/ Dependencies(heap[d]) = << >> => Mentions[d] \subseteq Told(c, L)
<1>1. TInv /\ Known  BY DEF EInv, CInv, Known
<1>2. PICK o : o = f.expr  OBVIOUS
<1>3. /\ w \in Seq(Visits) /\ D \in SUBSET Objects /\ WalkIs(c, w, D) /\ Accounted(c, D, L)
      /\ Len(w) \in 1 .. Len(w) /\ f \in Visits
  <2>1. /\ w \in Seq(Visits) /\ D \in SUBSET Objects /\ WalkIs(c, w, D) /\ Accounted(c, D, L)
    BY DEF DumpIs
  <2> QED  BY <2>1, WalkFacts
<1>4. /\ o \in Reached(c) /\ o \in Objects
      /\ heap[o].op = "symbol" => o \notin D
  BY <1>1, <1>2, <1>3, NeedsFacts DEF WalkIs
<1>5. /\ Elements(heap[c].captures) \subseteq D
      /\ \A k \in Elements(heap[c].captures) : heap[k].op = "symbol"
      /\ Elements(Given(c)) \subseteq D
  BY <1>3, ContextFacts DEF Accounted
<1>6. d \in Elements(Dependencies(heap[o])) /\ d \in Objects
  <2>1. f.next \in 1 .. Len(Needs(f))  BY <1>1, <1>3, NeedsFacts
  <2> QED  BY <1>1, <1>2, <1>3, <2>1, NeedsFacts DEF Needs
<1>7. d \in Reached(c) \cup Elements(heap[c].captures) /\ Settled(d)
  <2>1. o \notin Elements(heap[c].captures)  BY <1>4, <1>5
  <2> QED  BY <1>4, <1>6, <2>1, ReachedOn
<1>8. CASE d \in D
  BY <1>3, <1>8, DumpedTold
<1>9. CASE d \notin D
  <2>1. d \in Reached(c)  BY <1>5, <1>7, <1>9
  <2>2. ASSUME Dependencies(heap[d]) = << >> PROVE Mentions[d] \subseteq Told(c, L)
    <3>1. Elements(Dependencies(heap[d])) = {} /\ heap[d] \in Expr
      BY <1>1, <1>6, <2>2, Nothing, HeapFacts
    <3>2. CASE heap[d].op = "symbol"
      <4>1. Elements(heap[d].kids) = {}
        <5>1. PICK e : e = heap[d]  OBVIOUS
        <5>2. e \in Expr /\ e.op # "context" /\ Elements(Dependencies(e)) = {}
          BY <3>1, <3>2, <5>1
        <5>3. Elements(e.kids) = {}  BY <5>2, UsesFacts
        <5> QED  BY <5>1, <5>3
      <4>2. heap[d].kids = << >>
        <5>1. heap[d].kids \in Seq(Nat)  BY <3>1 DEF Expr
        <5>2. heap[d].kids # << >> => heap[d].kids[1] \in Elements(heap[d].kids)
          BY <5>1, FirstElement
        <5> QED  BY <4>1, <5>2
      <4>3. PICK q \in Elements(Given(c)) : heap[q].name = heap[d].name
        BY <1>7, <2>1, <3>2, <4>2, ReachedEnds
      <4>4. heap[d].name \in Told(c, L)  BY <4>3, GivenFacts DEF Told
      <4> QED  BY <1>1, <1>6, <3>2, <4>4, SymbolMentions
    <3>3. CASE heap[d].op # "symbol"
      <4>1. Mentions[d] \subseteq UNION {Mentions[k] : k \in Elements(Dependencies(heap[d]))}
        BY <1>1, <1>6, <3>3, OthersMention
      <4> QED  BY <3>1, <4>1
    <3> QED  BY <3>2, <3>3
  <2> QED  BY <1>9, <2>1, <2>2
<1> QED  BY <1>8, <1>9

(* A dependency that need not be dumped. *)
LEMMA PassedIs ==
  ASSUME EInv, NEW c \in Contexts, NEW w, NEW D, NEW L, DumpIs(c, w, D, L), w # << >>,
         NEW f, f = w[Len(w)], f.next <= Len(Needs(f)), NEW d, d = Needs(f)[f.next],
         NEW v, Advances(w, v),
         d \in D \/ Dependencies(heap[d]) = << >>
  PROVE  DumpIs(c, v, D, L)
<1>1. TInv /\ Known  BY DEF EInv, CInv, Known
<1>2. PICK N, g : N = Len(w) /\ g = v[N]  OBVIOUS
<1>3. w \in Seq(Visits) /\ WalkIs(c, w, D) /\ Explained(c, w, L)  BY DEF DumpIs
<1>4. N \in Nat \ {0} /\ \A i \in 1 .. N : w[i] \in Visits  BY <1>2, <1>3, WalkFacts
<1>5. /\ g \in Visits /\ g.expr = f.expr /\ g.next = f.next + 1 /\ f.next \in Nat \ {0}
      /\ Needs(g) = Needs(f)
      /\ v \in Seq(Visits) /\ Len(v) = N /\ v[N] = g
      /\ \A i \in 1 .. N - 1 : v[i] = w[i]
  <2>1. N = Len(w) /\ f = w[N] /\ g = v[N]  BY <1>2
  <2>2. MovedOn(w, v, N, f, g)  BY <1>3, <2>1, AdvancedFacts
  <2> QED  BY <2>2 DEF MovedOn
<1>6. w[N] = f /\ v # << >>
  <2>1. v # << >>  BY <1>4, <1>5, EmptySeq
  <2> QED  BY <1>2, <2>1
<1>7. \A i \in 1 .. N : v[i].expr = w[i].expr /\ Needs(v[i]) = Needs(w[i])
  <2> SUFFICES ASSUME NEW i \in 1 .. N PROVE v[i].expr = w[i].expr
    BY DEF Needs
  <2>1. i = N \/ i \in 1 .. N - 1  BY <1>4
  <2> QED  BY <1>5, <1>6, <2>1
<1>8. Len(Needs(f)) \in Nat
  <2>1. f \in Visits  BY <1>4, <1>6
  <2> QED  BY <1>1, <2>1, NeedsFacts
<1>9. WalkIs(c, v, D)
  <2>1. v[1].expr = heap[c].kids[1]
    <3>1. w[1].expr = heap[c].kids[1]  BY <1>3 DEF WalkIs
    <3> QED  BY <1>4, <1>7, <3>1
  <2>2. ASSUME NEW i \in 1 .. N
        PROVE  /\ v[i].next <= Len(Needs(v[i])) + 1
               /\ heap[v[i].expr].op = "symbol" => v[i].expr \notin D
               /\ Readable(c) => v[i].expr \in Reached(c)
               /\ i < N => v[i].next > 1 /\ v[i + 1].expr = Needs(v[i])[v[i].next - 1]
    <3>1. /\ w[i].next <= Len(Needs(w[i])) + 1
          /\ heap[w[i].expr].op = "symbol" => w[i].expr \notin D
          /\ Readable(c) => w[i].expr \in Reached(c)
          /\ i < N => w[i].next > 1 /\ w[i + 1].expr = Needs(w[i])[w[i].next - 1]
      BY <1>2, <1>3 DEF WalkIs
    <3>2. CASE i = N
      <4>1. v[i].next <= Len(Needs(v[i])) + 1  BY <1>5, <1>8, <3>2
      <4>2. ~ (i < N)  BY <1>4, <3>2
      <4> QED  BY <1>7, <3>1, <4>1, <4>2
    <3>3. CASE i # N
      <4>1. i \in 1 .. N - 1 /\ i + 1 \in 1 .. N  BY <1>4, <3>3
      <4>2. v[i] = w[i] /\ v[i + 1].expr = w[i + 1].expr  BY <1>5, <1>7, <4>1
      <4> QED  BY <3>1, <4>2
    <3> QED  BY <3>2, <3>3
  <2> QED  BY <1>5, <2>1, <2>2 DEF WalkIs
<1>10. Explained(c, v, L)
  <2> SUFFICES ASSUME Readable(c), NEW i \in 1 .. N, NEW j \in 1 .. Behind(v, i)
               PROVE  Mentions[Needs(v[i])[j]] \subseteq Told(c, L)
    BY <1>5, <1>6 DEF Explained
  <2>1. \A m \in 1 .. Behind(w, i) : Mentions[Needs(w[i])[m]] \subseteq Told(c, L)
    BY <1>2, <1>3 DEF Explained
  <2>2. CASE i # N
    <3>1. i \in 1 .. N - 1  BY <1>4, <2>2
    <3>2. Behind(v, i) = Behind(w, i)  BY <1>2, <1>5, <3>1 DEF Behind
    <3> QED  BY <1>7, <2>1, <3>2
  <2>3. CASE i = N
    <3>1. Behind(v, N) = f.next /\ Behind(w, N) = f.next - 1
      <4>1. Behind(v, N) = g.next - 1  BY <1>4, <1>5 DEF Behind
      <4>2. Behind(w, N) = f.next - 1  BY <1>2, <1>4, <1>6 DEF Behind
      <4> QED  BY <1>5, <4>1, <4>2
    <3>2. CASE j = f.next
      <4>1. Mentions[d] \subseteq Told(c, L)  BY DependencyFacts
      <4> QED  BY <1>5, <2>3, <3>2, <4>1
    <3>3. CASE j # f.next
      <4>1. j \in 1 .. Behind(w, i)  BY <1>5, <2>3, <3>1, <3>3
      <4> QED  BY <1>7, <2>1, <4>1
    <3> QED  BY <3>2, <3>3
  <2> QED  BY <2>2, <2>3
<1> QED  BY <1>5, <1>9, <1>10 DEF DumpIs

(* One that is dumped first. *)
LEMMA VisitIs ==
  ASSUME EInv, NEW c \in Contexts, NEW w, NEW D, NEW L, DumpIs(c, w, D, L), w # << >>,
         NEW f, f = w[Len(w)], f.next <= Len(Needs(f)), NEW d, d = Needs(f)[f.next],
         NEW v, Advances(w, v),
         d \notin D
  PROVE  DumpIs(c, Append(v, Visit(d)), D, L)
<1>1. TInv /\ Known  BY DEF EInv, CInv, Known
<1>2. PICK N, g, x, y : N = Len(w) /\ g = v[N] /\ x = Visit(d) /\ y = Append(v, x)  OBVIOUS
<1>3. w \in Seq(Visits) /\ WalkIs(c, w, D) /\ Explained(c, w, L)  BY DEF DumpIs
<1>4. N \in Nat \ {0} /\ \A i \in 1 .. N : w[i] \in Visits  BY <1>2, <1>3, WalkFacts
<1>5. /\ g \in Visits /\ g.expr = f.expr /\ g.next = f.next + 1 /\ f.next \in Nat \ {0}
      /\ Needs(g) = Needs(f)
      /\ v \in Seq(Visits) /\ Len(v) = N /\ v[N] = g
      /\ \A i \in 1 .. N - 1 : v[i] = w[i]
  <2>1. N = Len(w) /\ f = w[N] /\ g = v[N]  BY <1>2
  <2>2. MovedOn(w, v, N, f, g)  BY <1>3, <2>1, AdvancedFacts
  <2> QED  BY <2>2 DEF MovedOn
<1>6. w[N] = f /\ f \in Visits  BY <1>2, <1>4
<1>7. Len(Needs(f)) \in Nat /\ d \in Objects
  <2>1. Len(Needs(f)) \in Nat  BY <1>1, <1>6, NeedsFacts
  <2>2. f.next \in 1 .. Len(Needs(f))  BY <1>5, <2>1
  <2> QED  BY <1>1, <1>6, <2>1, <2>2, NeedsFacts
<1>8. x \in Visits /\ x.expr = d /\ x.next = 1
  <2>1. x = [expr |-> d, next |-> 1]  BY <1>2 DEF Visit
  <2> QED  BY <1>7, <2>1 DEF Visits
<1>9. /\ y \in Seq(Visits) /\ Len(y) = N + 1 /\ y # << >> /\ y[N + 1] = x /\ y[N] = g
      /\ \A i \in 1 .. N - 1 : y[i] = w[i]
  <2>1. /\ y \in Seq(Visits) /\ Len(y) = N + 1 /\ y # << >> /\ y[N + 1] = x
        /\ \A i \in 1 .. N : y[i] = v[i]
    BY <1>2, <1>5, <1>8, AppendProperties
  <2>2. N \in 1 .. N /\ \A i \in 1 .. N - 1 : i \in 1 .. N  BY <1>4
  <2> QED  BY <1>5, <2>1, <2>2
<1>10. \A i \in 1 .. N : y[i].expr = w[i].expr /\ Needs(y[i]) = Needs(w[i])
  <2> SUFFICES ASSUME NEW i \in 1 .. N PROVE y[i].expr = w[i].expr
    BY DEF Needs
  <2>1. i = N \/ i \in 1 .. N - 1  BY <1>4
  <2> QED  BY <1>5, <1>6, <1>9, <2>1
<1>11. WalkIs(c, y, D)
  <2>1. y[1].expr = heap[c].kids[1]
    <3>1. w[1].expr = heap[c].kids[1]  BY <1>3 DEF WalkIs
    <3> QED  BY <1>4, <1>10, <3>1
  <2>2. ASSUME NEW i \in 1 .. N + 1
        PROVE  /\ y[i].next <= Len(Needs(y[i])) + 1
               /\ heap[y[i].expr].op = "symbol" => y[i].expr \notin D
               /\ Readable(c) => y[i].expr \in Reached(c)
               /\ i < N + 1 => y[i].next > 1 /\ y[i + 1].expr = Needs(y[i])[y[i].next - 1]
    <3>1. CASE i = N + 1
      <4>1. Len(Needs(x)) \in Nat  BY <1>1, <1>8, NeedsFacts
      <4>2. ~ (i < N + 1)  BY <1>4, <3>1
      <4>3. y[i].next <= Len(Needs(y[i])) + 1  BY <1>8, <1>9, <3>1, <4>1
      <4>4. Readable(c) => d \in Reached(c)  BY DependencyFacts
      <4> QED  BY <1>8, <1>9, <3>1, <4>2, <4>3, <4>4
    <3>2. ASSUME i \in 1 .. N
          PROVE  /\ w[i].next <= Len(Needs(w[i])) + 1
                 /\ heap[w[i].expr].op = "symbol" => w[i].expr \notin D
                 /\ Readable(c) => w[i].expr \in Reached(c)
                 /\ i < N => w[i].next > 1 /\ w[i + 1].expr = Needs(w[i])[w[i].next - 1]
      BY <1>2, <1>3, <3>2 DEF WalkIs
    <3>3. CASE i = N
      <4>0. y[i] = g /\ g.next = f.next + 1 /\ f.next \in Nat \ {0} /\ Needs(g) = Needs(f)
        BY <1>5, <1>9, <3>3
      <4>1. y[i].next <= Len(Needs(y[i])) + 1
        <5>1. f.next <= Len(Needs(f))  OBVIOUS
        <5> QED  BY <1>7, <4>0, <5>1
      <4>2. y[i].next > 1  BY <4>0
      <4>3. y[i + 1].expr = d /\ Needs(y[i]) = Needs(f)  BY <1>8, <1>9, <3>3, <4>0
      <4>4. y[i].next - 1 = f.next  BY <4>0
      <4>5. i \in 1 .. N  BY <1>4, <3>3
      <4> QED  BY <1>10, <3>2, <4>1, <4>2, <4>3, <4>4, <4>5
    <3>4. CASE i # N /\ i # N + 1
      <4>1. i \in 1 .. N - 1 /\ i \in 1 .. N /\ i + 1 \in 1 .. N /\ i < N  BY <1>4, <3>4
      <4>2. y[i] = w[i] /\ y[i + 1].expr = w[i + 1].expr  BY <1>9, <1>10, <4>1
      <4> QED  BY <3>2, <4>1, <4>2
    <3> QED  BY <3>1, <3>3, <3>4
  <2> QED  BY <1>9, <2>1, <2>2 DEF WalkIs
<1>12. Explained(c, y, L)
  <2> SUFFICES ASSUME Readable(c), NEW i \in 1 .. N + 1, NEW j \in 1 .. Behind(y, i)
               PROVE  Mentions[Needs(y[i])[j]] \subseteq Told(c, L)
    BY <1>9 DEF Explained
  <2>1. \A k \in 1 .. N : \A m \in 1 .. Behind(w, k) : Mentions[Needs(w[k])[m]] \subseteq Told(c, L)
    BY <1>2, <1>3 DEF Explained
  <2>2. CASE i = N + 1
    <3>1. ~ (N + 1 < Len(y))  BY <1>4, <1>9
    <3>2. Behind(y, i) = 0  BY <1>8, <1>9, <2>2, <3>1 DEF Behind
    <3> QED  BY <3>2
  <2>3. CASE i = N
    <3>1. N < Len(y) /\ ~ (N < Len(w)) /\ N \in 1 .. N  BY <1>2, <1>4, <1>9
    <3>2. Behind(y, i) = g.next - 2  BY <1>9, <2>3, <3>1 DEF Behind
    <3>3. Behind(w, N) = f.next - 1  BY <1>6, <3>1 DEF Behind
    <3>4. j \in 1 .. Behind(w, N)  BY <1>5, <3>2, <3>3
    <3> QED  BY <1>10, <2>1, <2>3, <3>1, <3>4
  <2>4. CASE i # N /\ i # N + 1
    <3>1. i \in 1 .. N - 1 /\ i \in 1 .. N /\ i < Len(y) /\ i < Len(w)  BY <1>2, <1>4, <1>9, <2>4
    <3>2. Behind(y, i) = Behind(w, i)  BY <1>9, <3>1 DEF Behind
    <3> QED  BY <1>10, <2>1, <3>1, <3>2
  <2> QED  BY <2>2, <2>3, <2>4
<1> QED  BY <1>2, <1>9, <1>11, <1>12 DEF DumpIs

WalkGoesOn(c, w, D, L) == w \in Seq(Visits) /\ WalkIs(c, w, D) /\ Explained(c, w, L)

(* The innermost activation ends, when what it printed has been noted. *)
LEMMA EndedIs ==
  ASSUME EInv, NEW c \in Contexts, NEW w \in Seq(Visits), w # << >>, NEW D,
         WalkIs(c, w, D), NEW L, Explained(c, w, L),
         NEW f, f = w[Len(w)], f.next > Len(Needs(f)), NEW o, o = f.expr,
         NEW E, E \subseteq D \cup {o}, NEW M, Told(c, L) \subseteq Told(c, M),
         Readable(c) => Mentions[o] \subseteq Told(c, M),
         NEW u, u = SubSeq(w, 1, Len(w) - 1)
  PROVE  WalkGoesOn(c, u, E, M)
<1>1. TInv /\ Known /\ Founded  BY DEF EInv, CInv, Known
<1>2. PICK N : N = Len(w)  OBVIOUS
<1>3. /\ N \in Nat \ {0} /\ \A i \in 1 .. N : w[i] \in Visits
      /\ u \in Seq(Visits) /\ Len(u) = N - 1 /\ \A i \in 1 .. N - 1 : u[i] = w[i]
  <2>1. /\ Len(w) \in Nat \ {0} /\ \A i \in 1 .. Len(w) : w[i] \in Visits
        /\ u \in Seq(Visits) /\ Len(u) = Len(w) - 1
        /\ \A i \in 1 .. Len(w) - 1 : u[i] = w[i]
    BY WalkFacts
  <2> QED  BY <1>2, <2>1
<1>4. w[N] = f  BY <1>2
<1>5. ASSUME NEW i \in 1 .. N
      PROVE  /\ w[i].next <= Len(Needs(w[i])) + 1
             /\ heap[w[i].expr].op = "symbol" => w[i].expr \notin D
             /\ Readable(c) => w[i].expr \in Reached(c)
             /\ i < N => w[i].next > 1 /\ w[i + 1].expr = Needs(w[i])[w[i].next - 1]
  BY <1>2 DEF WalkIs
<1>6. u # << >> => 1 \in 1 .. N - 1
  <2>1. u # << >> => Len(u) # 0  BY <1>3, EmptySeq
  <2> QED  BY <1>3, <2>1
<1>7. w[1].expr = heap[c].kids[1]  BY DEF WalkIs
<1>8. WalkIs(c, u, E)
  <2>1. u # << >> => u[1].expr = heap[c].kids[1]  BY <1>3, <1>6, <1>7
  <2>2. ASSUME NEW i \in 1 .. N - 1
        PROVE  /\ u[i].next <= Len(Needs(u[i])) + 1
               /\ heap[u[i].expr].op = "symbol" => u[i].expr \notin E
               /\ Readable(c) => u[i].expr \in Reached(c)
               /\ i < N - 1 => u[i].next > 1 /\ u[i + 1].expr = Needs(u[i])[u[i].next - 1]
    <3>1. i \in 1 .. N /\ u[i] = w[i] /\ i < N  BY <1>3
    <3>2. w[i].expr # f.expr  BY <1>1, <1>2, NoWayBack
    <3>3. i < N - 1 => u[i + 1] = w[i + 1]
      <4>1. i < N - 1 => i + 1 \in 1 .. N - 1  BY <1>3
      <4> QED  BY <1>3, <4>1
    <3> QED  BY <1>5, <3>1, <3>2, <3>3
  <2> QED  BY <1>3, <2>1, <2>2 DEF WalkIs
<1>9. Explained(c, u, M)
  <2> SUFFICES ASSUME Readable(c)
               PROVE  /\ \A i \in 1 .. N - 1 : \A j \in 1 .. Behind(u, i) :
                           Mentions[Needs(u[i])[j]] \subseteq Told(c, M)
                      /\ u = << >> => \A k \in Elements(heap[heap[c].kids[1]].kids) :
                                        Mentions[k] \subseteq Told(c, M)
    BY <1>3 DEF Explained
  <2>1. ASSUME NEW i \in 1 .. N, NEW j \in 1 .. Behind(w, i)
        PROVE  Mentions[Needs(w[i])[j]] \subseteq Told(c, M)
    BY <1>2 DEF Explained
  <2>2. ASSUME NEW i \in 1 .. N - 1, NEW j \in 1 .. Behind(u, i)
        PROVE  Mentions[Needs(u[i])[j]] \subseteq Told(c, M)
    <3>1. i \in 1 .. N /\ u[i] = w[i] /\ i < N /\ i < Len(w) /\ w[i].next \in Nat \ {0}
      BY <1>2, <1>3 DEF Visits
    <3>2. Behind(w, i) = w[i].next - 2  BY <3>1 DEF Behind
    <3>3. CASE i < N - 1
      <4>1. Behind(u, i) = w[i].next - 2  BY <1>3, <3>1, <3>3 DEF Behind
      <4> QED  BY <2>1, <3>1, <3>2, <4>1
    <3>4. CASE i = N - 1
      <4>1. ~ (i < Len(u))  BY <1>3, <3>4
      <4>2. Behind(u, i) = w[i].next - 1  BY <3>1, <4>1 DEF Behind
      <4>3. CASE j = w[i].next - 1
        <5>1. w[i + 1] = f  BY <1>3, <1>4, <3>4
        <5>2. Needs(w[i])[j] = f.expr  BY <1>5, <3>1, <4>3, <5>1
        <5> QED  BY <3>1, <5>2
      <4>4. CASE j # w[i].next - 1
        <5>1. j \in 1 .. Behind(w, i)  BY <3>1, <3>2, <4>2, <4>4
        <5> QED  BY <2>1, <3>1, <5>1
      <4> QED  BY <4>3, <4>4
    <3>5. i < N - 1 \/ i = N - 1  BY <1>3
    <3> QED  BY <3>3, <3>4, <3>5
  <2>3. ASSUME u = << >>, NEW k \in Elements(heap[heap[c].kids[1]].kids)
        PROVE  Mentions[k] \subseteq Told(c, M)
    <3>1. N = 1 /\ w[N].expr = heap[c].kids[1]
      <4>1. Len(u) = 0  BY <2>3, EmptySeq
      <4>2. N = 1  BY <1>3, <4>1
      <4> QED  BY <1>7, <4>2
    <3>2. PICK r : r = heap[c].kids[1]  OBVIOUS
    <3>3. r \in Objects /\ heap[r].op = "ret" /\ f.expr = r /\ heap[r] \in Expr
      BY <1>1, <1>4, <3>1, <3>2, ContextFacts, HeapFacts
    <3>4. k \in Elements(Needs(f))
      <4>1. k \in Elements(heap[r].kids)  BY <2>3, <3>2
      <4> QED  BY <3>3, <4>1, UsesFacts DEF Needs
    <3>5. PICK j \in 1 .. Len(Needs(f)) : k = Needs(f)[j]  BY <3>4 DEF Elements
    <3>6. N \in 1 .. N /\ j \in 1 .. Behind(w, N)
      <4>1. f.next \in Nat \ {0} /\ Len(Needs(f)) \in Nat
        BY <1>1, <1>3, <1>4, NeedsFacts
      <4>2. ~ (N < Len(w)) /\ N \in 1 .. N  BY <1>2, <1>3
      <4>3. Behind(w, N) = f.next - 1  BY <1>4, <4>2 DEF Behind
      <4>4. f.next > Len(Needs(f))  OBVIOUS
      <4> QED  BY <4>1, <4>2, <4>3, <4>4
    <3> QED  BY <1>4, <2>1, <3>5, <3>6
  <2> QED  BY <2>2, <2>3
<1> QED  BY <1>3, <1>8, <1>9 DEF WalkGoesOn

(* Then all it depends on has been explained. *)
LEMMA AllExplained ==
  ASSUME EInv, NEW c, NEW w \in Seq(Visits), w # << >>, NEW L, Explained(c, w, L), Readable(c),
         NEW f, f = w[Len(w)], f.next > Len(Needs(f)),
         NEW k \in Elements(Dependencies(heap[f.expr]))
  PROVE  Mentions[k] \subseteq Told(c, L)
<1>1. TInv /\ Known  BY DEF EInv, CInv, Known
<1>2. PICK N : N = Len(w)  OBVIOUS
<1>3. N \in Nat \ {0} /\ \A i \in 1 .. N : w[i] \in Visits  BY <1>2, WalkFacts
<1>4. w[N] = f /\ N \in 1 .. N  BY <1>2, <1>3
<1>5. PICK j \in 1 .. Len(Needs(f)) : k = Needs(f)[j]  BY DEF Elements, Needs
<1>6. j \in 1 .. Behind(w, N)
  <2>1. f.next \in Nat \ {0} /\ Len(Needs(f)) \in Nat  BY <1>1, <1>3, <1>4, NeedsFacts
  <2>2. ~ (N < Len(w))  BY <1>2, <1>3
  <2>3. Behind(w, N) = f.next - 1  BY <1>4, <2>2 DEF Behind
  <2>4. f.next > Len(Needs(f))  OBVIOUS
  <2> QED  BY <2>1, <2>3, <2>4
<1>7. \A i \in 1 .. N : \A m \in 1 .. Behind(w, i) : Mentions[Needs(w[i])[m]] \subseteq Told(c, L)
  BY <1>2 DEF Explained
<1> QED  BY <1>4, <1>5, <1>6, <1>7

LEMMA SymbolPrinted ==
  ASSUME EInv, NEW c \in Contexts, NEW w, NEW D, NEW L, DumpIs(c, w, D, L), w # << >>,
         NEW f, f = w[Len(w)], f.next > Len(Needs(f)), NEW o, o = f.expr,
         heap[o].op = "symbol",
         NEW u, u = SubSeq(w, 1, Len(w) - 1)
  PROVE  DumpIs(c, u, D \cup {o}, Append(L, Line(o)))
<1>1. TInv /\ Known /\ Founded  BY DEF EInv, CInv, Known
<1>2. /\ w \in Seq(Visits) /\ D \subseteq Objects /\ L \in Seq(TextLine)
      /\ WalkIs(c, w, D) /\ Accounted(c, D, L) /\ TextIs(c, L) /\ Explained(c, w, L)
  BY DEF DumpIs
<1>3. f \in Visits /\ o \in Objects /\ o \notin D
  <2>1. Len(w) \in 1 .. Len(w) /\ f \in Visits  BY <1>2, WalkFacts
  <2> QED  BY <1>1, <1>2, <2>1, NeedsFacts DEF WalkIs
<1>4. PICK x, M, E, n : x = Line(o) /\ M = Append(L, x) /\ E = D \cup {o} /\ n = Len(L)
  OBVIOUS
<1>5. /\ x \in TextLine /\ x.sym = o /\ x.name = heap[o].name
      /\ x.uses = UNION {Mentions[k] : k \in Elements(heap[o].kids)}
  BY <1>1, <1>3, <1>4, LineFacts
<1>6. /\ M \in Seq(TextLine) /\ n \in Nat /\ Len(M) = n + 1
      /\ \A i \in 1 .. n : M[i] = L[i]
      /\ M[n + 1] = x
      /\ Told(c, L) \subseteq Told(c, M) /\ x.name \in Told(c, M)
  <2>1. Longer(c, L, x, M)  BY <1>2, <1>4, <1>5, LinesGrow
  <2>2. n = Len(L)  BY <1>4
  <2> QED  BY <2>1, <2>2 DEF Longer
<1>7. TextIs(c, M)
  <2>1. ASSUME Readable(c) PROVE x.uses \subseteq Told(c, L)
    <3>1. Elements(heap[o].kids) \subseteq Elements(Dependencies(heap[o]))
      <4>1. PICK e : e = heap[o]  OBVIOUS
      <4>2. e \in Expr /\ e.op # "context"  BY <1>1, <1>3, <4>1, HeapFacts
      <4>3. Elements(e.kids) \subseteq Elements(Dependencies(e))  BY <4>2, UsesFacts
      <4> QED  BY <4>1, <4>3
    <3>2. \A k \in Elements(Dependencies(heap[o])) : Mentions[k] \subseteq Told(c, L)
      BY <1>2, <2>1, AllExplained
    <3> QED  BY <1>5, <3>1, <3>2
  <2>2. \A j \in 1 .. Len(L) : L[j].sym # x.sym
    BY <1>2, <1>3, <1>5 DEF Accounted
  <2> QED  BY <1>2, <1>4, <1>5, <2>1, <2>2, TextGrows
<1>8. Accounted(c, E, M)
  <2>1. Elements(Given(c)) \subseteq E  BY <1>2, <1>4 DEF Accounted
  <2>2. ASSUME NEW d \in E
        PROVE  d \in Elements(Given(c)) \/ \E i \in 1 .. n + 1 : M[i].sym = d
    <3>1. CASE d = o
      <4>1. n + 1 \in 1 .. n + 1  BY <1>6
      <4> QED  BY <1>5, <1>6, <3>1, <4>1
    <3>2. CASE d \in D
      <4>1. d \in Elements(Given(c)) \/ \E i \in 1 .. n : L[i].sym = d
        BY <1>2, <1>4, <3>2 DEF Accounted
      <4>2. \A i \in 1 .. n : i \in 1 .. n + 1  BY <1>6
      <4> QED  BY <1>6, <4>1, <4>2
    <3> QED  BY <1>4, <3>1, <3>2
  <2>3. ASSUME NEW i \in 1 .. n + 1
        PROVE  M[i].sym \in E /\ heap[M[i].sym].op = "symbol" /\ M[i].name = heap[M[i].sym].name
    <3>1. CASE i = n + 1
      <4>1. M[i] = x  BY <1>6, <3>1
      <4>2. o \in E  BY <1>4
      <4> QED  BY <1>5, <4>1, <4>2
    <3>2. CASE i # n + 1
      <4>1. i \in 1 .. n /\ M[i] = L[i]  BY <1>6, <3>2
      <4>2. L[i].sym \in D /\ heap[L[i].sym].op = "symbol" /\ L[i].name = heap[L[i].sym].name
        BY <1>2, <1>4, <4>1 DEF Accounted
      <4>3. D \subseteq E  BY <1>4
      <4> QED  BY <4>1, <4>2, <4>3
    <3> QED  BY <3>1, <3>2
  <2> QED  BY <1>6, <2>1, <2>2, <2>3 DEF Accounted
<1>9. Mentions[o] \subseteq Told(c, M)
  <2>1. Mentions[o] = {heap[o].name}  BY <1>1, <1>3, SymbolMentions
  <2> QED  BY <1>5, <1>6, <2>1
<1>10. WalkGoesOn(c, u, E, M)
  <2>1. E \subseteq D \cup {o} /\ Told(c, L) \subseteq Told(c, M)  BY <1>4, <1>6
  <2>2. w \in Seq(Visits) /\ WalkIs(c, w, D) /\ Explained(c, w, L)  BY <1>2
  <2>3. Readable(c) => Mentions[o] \subseteq Told(c, M)  BY <1>9
  <2> QED  BY <2>1, <2>2, <2>3, EndedIs
<1>11. E \subseteq Objects  BY <1>2, <1>3, <1>4
<1>12. DumpIs(c, u, E, M)  BY <1>6, <1>7, <1>8, <1>10, <1>11 DEF DumpIs, WalkGoesOn
<1> QED  BY <1>4, <1>12

LEMMA OtherEnded ==
  ASSUME EInv, NEW c \in Contexts, NEW w, NEW D, NEW L, DumpIs(c, w, D, L), w # << >>,
         NEW f, f = w[Len(w)], f.next > Len(Needs(f)), NEW o, o = f.expr,
         heap[o].op # "symbol",
         NEW u, u = SubSeq(w, 1, Len(w) - 1)
  PROVE  DumpIs(c, u, D, L)
<1>1. TInv /\ Known  BY DEF EInv, CInv, Known
<1>2. w \in Seq(Visits) /\ WalkIs(c, w, D) /\ Explained(c, w, L)  BY DEF DumpIs
<1>3. o \in Objects
  <2>1. f \in Visits  BY <1>2, WalkFacts
  <2> QED  BY <1>1, <2>1, NeedsFacts
<1>4. ASSUME Readable(c) PROVE Mentions[o] \subseteq Told(c, L)
  <2>1. Mentions[o] \subseteq UNION {Mentions[k] : k \in Elements(Dependencies(heap[o]))}
    BY <1>1, <1>3, OthersMention
  <2>2. \A k \in Elements(Dependencies(heap[o])) : Mentions[k] \subseteq Told(c, L)
    BY <1>2, <1>4, AllExplained
  <2> QED  BY <2>1, <2>2
<1>5. WalkGoesOn(c, u, D, L)
  <2>1. D \subseteq D \cup {o} /\ Told(c, L) \subseteq Told(c, L)  OBVIOUS
  <2>2. Readable(c) => Mentions[o] \subseteq Told(c, L)  BY <1>4
  <2> QED  BY <1>2, <2>1, <2>2, EndedIs
<1> QED  BY <1>5 DEF DumpIs, WalkGoesOn

LEMMA TextEnded ==
  ASSUME EInv, NEW c \in Contexts, NEW D, NEW L, DumpIs(c, << >>, D, L)
  PROVE  LET M == Append(L, Line(heap[c].kids[1])) IN M \in Seq(TextLine) /\ TextIs(c, M)
<1>1. TInv /\ Known /\ Founded  BY DEF EInv, CInv, Known
<1>2. PICK r, x : r = heap[c].kids[1] /\ x = Line(r)  OBVIOUS
<1>3. r \in Objects /\ heap[r].op = "ret"  BY <1>2, ContextFacts
<1>4. /\ x \in TextLine /\ x.sym = r
      /\ x.uses = UNION {Mentions[k] : k \in Elements(heap[r].kids)}
  BY <1>1, <1>2, <1>3, LineFacts
<1>5. L \in Seq(TextLine) /\ Accounted(c, D, L) /\ TextIs(c, L) /\ Explained(c, << >>, L)
  BY DEF DumpIs
<1>6. Readable(c) => x.uses \subseteq Told(c, L)  BY <1>2, <1>4, <1>5 DEF Explained
<1>7. \A j \in 1 .. Len(L) : L[j].sym # x.sym  BY <1>3, <1>4, <1>5 DEF Accounted
<1>8. TextIs(c, Append(L, x))  BY <1>4, <1>5, <1>6, <1>7, TextGrows
<1>9. Append(L, x) \in Seq(TextLine)  BY <1>4, <1>5, LinesGrow DEF Longer
<1> QED  BY <1>2, <1>8, <1>9

-----------------------------------------------------------------------------
(* While contexts are dumped, the objects stay what they are. *)
LEMMA ObjectsKept ==
  ASSUME UNCHANGED vars
  PROVE  /\ Objects' = Objects /\ Originals' = Originals /\ Copies' = Copies
         /\ \A c : CapturesCopied(c)' = CapturesCopied(c)
         /\ Contexts' = Contexts /\ (Cloned <=> Cloned')
         /\ Mentions' = Mentions
<1>1. /\ program' = program /\ heap' = heap /\ stack' = stack
      /\ instances' = instances /\ outcome' = outcome
  BY DEF vars
<1>2. Objects' = Objects /\ Originals' = Originals  BY <1>1 DEF Objects, Originals
<1>3. Copies' = Copies  BY <1>1, <1>2 DEF Copies
<1>4. Captures' = Captures  BY <1>1, <1>2 DEF Captures, Elements
<1>5. \A c : CapturesCopied(c)' = CapturesCopied(c)
  BY <1>1, <1>3, <1>4 DEF CapturesCopied
<1>6. Stacked' = Stacked  BY <1>1 DEF Stacked
<1>7. Complete' = Complete  BY <1>1, <1>3, <1>6 DEF Complete
<1>8. Contexts' = Contexts  BY <1>1, <1>2, <1>7 DEF Contexts
<1>9. Cloned <=> Cloned'  BY <1>1 DEF Cloned
<1>10. Mentions' = Mentions
  BY <1>1, SMT DEF Mentions, Objects, Says, Operands, NamesOf, Elements, CalleeOf
<1> QED  BY <1>2, <1>3, <1>5, <1>8, <1>9, <1>10

LEMMA TextStays ==
  ASSUME UNCHANGED vars, NEW c, NEW T
  PROVE  /\ TextLine' = TextLine /\ Visits' = Visits /\ Given(c)' = Given(c)
         /\ GivenNames(c)' = GivenNames(c) /\ (Readable(c) <=> Readable(c)')
         /\ TextIs(c, T) => TextIs(c, T)'
<1>1. heap' = heap  BY DEF vars
<1>2. TextLine' = TextLine /\ Visits' = Visits  BY ObjectsKept DEF TextLine, Visits
<1>3. Given(c)' = Given(c)  BY <1>1 DEF Given
<1>4. GivenNames(c)' = GivenNames(c)  BY <1>1, <1>3 DEF GivenNames, NamesOf, Elements
<1>5. Readable(c) <=> Readable(c)'  BY ObjectsKept DEF Readable
<1>6. TextIs(c, T) => TextIs(c, T)'  BY <1>4, <1>5 DEF TextIs
<1> QED  BY <1>2, <1>3, <1>4, <1>5, <1>6

LEMMA DumpStays ==
  ASSUME UNCHANGED vars, NEW c, NEW w, NEW D, NEW L, DumpIs(c, w, D, L)
  PROVE  DumpIs(c, w, D, L)'
<1>1. heap' = heap  BY DEF vars
<1>2. /\ TextLine' = TextLine /\ Visits' = Visits /\ Given(c)' = Given(c)
      /\ GivenNames(c)' = GivenNames(c) /\ (Readable(c) <=> Readable(c)')
      /\ TextIs(c, L) => TextIs(c, L)'
  BY TextStays
<1>3. Reached(c)' = Reached(c)  BY <1>1, ObjectsKept DEF Reached, Elements
<1>4. \A f : Needs(f)' = Needs(f)
  BY <1>1 DEF Needs, Dependencies, CalleeOf
<1>5. Told(c, L)' = Told(c, L)  BY <1>2 DEF Told
<1>6. WalkIs(c, w, D)'  BY <1>1, <1>2, <1>3, <1>4 DEF DumpIs, WalkIs
<1>7. Accounted(c, D, L)'  BY <1>1, <1>2 DEF DumpIs, Accounted, Elements
<1>8. Explained(c, w, L)'
  BY <1>1, <1>2, <1>4, <1>5, ObjectsKept DEF DumpIs, Explained, Elements, Behind
<1> QED  BY <1>2, <1>6, <1>7, <1>8, ObjectsKept DEF DumpIs

LEMMA TextsStay ==
  ASSUME UNCHANGED vars, NEW T, TextsAre(T)
  PROVE  TextsAre(T)'
<1>1. Contexts' = Contexts  BY ObjectsKept
<1>2. ASSUME NEW c \in DOMAIN T PROVE c \in Contexts' /\ T[c] \in Seq(TextLine)' /\ TextIs(c, T[c])'
  <2>1. PICK t : t = T[c]  OBVIOUS
  <2>2. c \in Contexts /\ t \in Seq(TextLine) /\ TextIs(c, t)  BY <2>1 DEF TextsAre
  <2>3. TextLine' = TextLine /\ TextIs(c, t)'  BY <2>2, TextStays
  <2> QED  BY <1>1, <2>1, <2>2, <2>3
<1> QED  BY <1>2 DEF TextsAre

DumpGoesOn(c, w, D, L, T) ==
  Cloned /\ TextsAre(T) /\ c \in Contexts /\ DumpIs(c, w, D, L)

LEMMA GoesOnStays ==
  ASSUME UNCHANGED vars, NEW c, NEW w, NEW D, NEW L, NEW T, DumpGoesOn(c, w, D, L, T)
  PROVE  DumpGoesOn(c, w, D, L, T)'
BY ObjectsKept, TextsStay, DumpStays DEF DumpGoesOn

LEMMA GoesOn ==
  ASSUME UNCHANGED vars, NEW w, NEW D, NEW L, NEW c, NEW T, DumpGoesOn(c, w, D, L, T),
         subject' = c, walk' = w, dumped' = D, lines' = L, texts' = T
  PROVE  DInv'
<1>1. DumpGoesOn(c, w, D, L, T)'  BY GoesOnStays
<1>2. Cloned' /\ TextsAre(T)' /\ c \in Contexts' /\ DumpIs(c, w, D, L)'
  BY <1>1 DEF DumpGoesOn
<1>3. TextsAre(texts)' /\ DumpIs(subject, walk, dumped, lines)'
  BY <1>2 DEF TextsAre, DumpIs
<1> QED  BY <1>2, <1>3 DEF DInv

LEMMA NoTexts ==
  ASSUME NEW T, DOMAIN T = {}
  PROVE  TextsAre(T)
BY DEF TextsAre

LEMMA BeginDumps == ASSUME EInv, DInv, BeginDump PROVE DInv'
<1>1. UNCHANGED vars /\ Cloned /\ texts' = texts /\ lines' = << >>  BY DEF BeginDump
<1>2. PICK c \in Contexts :
        /\ subject' = c
        /\ dumped' = Elements(Given(c))
        /\ walk' = <<Visit(heap[c].kids[1])>>
  BY DEF BeginDump, Given
<1>3. PICK w, D, T : w = <<Visit(heap[c].kids[1])>> /\ D = Elements(Given(c)) /\ T = texts
  OBVIOUS
<1>4. TextsAre(T)
  <2>1. TextsAre(texts)  BY NoTexts DEF DInv
  <2> QED  BY <1>3, <2>1
<1>5. DumpIs(c, w, D, << >>)  BY <1>3, BeginIs
<1>6. DumpGoesOn(c, w, D, << >>, T)  BY <1>1, <1>4, <1>5 DEF DumpGoesOn
<1>7. walk' = w /\ dumped' = D /\ texts' = T  BY <1>1, <1>2, <1>3
<1> QED  BY <1>1, <1>2, <1>6, <1>7, GoesOn

(* A dump that is under way. *)
LEMMA UnderWay ==
  ASSUME DInv, walk # << >> \/ subject # None
  PROVE  DumpGoesOn(subject, walk, dumped, lines, texts)
BY DEF DInv, DumpGoesOn

LEMMA DependencyDumps == ASSUME EInv, DInv, Dependency PROVE DInv'
<1>1. PICK c, w, D, L, T : c = subject /\ w = walk /\ D = dumped /\ L = lines /\ T = texts
  OBVIOUS
<1>2. PICK f, d : f = w[Len(w)] /\ d = Needs(f)[f.next]  OBVIOUS
<1>3. PICK v : v = Append(SubSeq(w, 1, Len(w) - 1), [f EXCEPT !.next = @ + 1])  OBVIOUS
<1>4. /\ w # << >> /\ f.next <= Len(Needs(f)) /\ UNCHANGED vars
      /\ subject' = c /\ dumped' = D /\ lines' = L /\ texts' = T
      /\ walk' = IF d \in D \/ Dependencies(heap[d]) = << >> THEN v ELSE Append(v, Visit(d))
  BY <1>1, <1>2, <1>3, Zenon
     DEF Dependency, Walker, Deps, Needs, Callers, Advanced, NothingToDump
<1>5. Cloned /\ TextsAre(T) /\ c \in Contexts /\ DumpIs(c, w, D, L)
  <2>1. DumpGoesOn(subject, walk, dumped, lines, texts)  BY <1>1, <1>4, UnderWay
  <2>2. DumpGoesOn(c, w, D, L, T)  BY <1>1, <2>1
  <2> QED  BY <2>2 DEF DumpGoesOn
<1>6. Advances(w, v)
  <2>1. w \in Seq(Visits)  BY <1>5 DEF DumpIs
  <2>2. v = Append(SubSeq(w, 1, Len(w) - 1), [w[Len(w)] EXCEPT !.next = @ + 1])
    BY <1>2, <1>3, Zenon
  <2> QED  BY <1>4, <2>1, <2>2, Goes, Zenon
<1>7. f = w[Len(w)] /\ d = Needs(f)[f.next]  BY <1>2
<1> HIDE <1>1, <1>2, <1>3
<1>8. CASE d \in D \/ Dependencies(heap[d]) = << >>
  <2>1. DumpIs(c, v, D, L)  BY <1>4, <1>5, <1>6, <1>7, <1>8, PassedIs
  <2>2. DumpGoesOn(c, v, D, L, T) /\ walk' = v  BY <1>4, <1>5, <1>8, <2>1 DEF DumpGoesOn
  <2> QED  BY <1>4, <2>2, GoesOn
<1>9. CASE ~(d \in D \/ Dependencies(heap[d]) = << >>)
  <2>1. PICK y : y = Append(v, Visit(d))  OBVIOUS
  <2>2. DumpIs(c, y, D, L)  BY <1>4, <1>5, <1>6, <1>7, <1>9, <2>1, VisitIs
  <2>3. DumpGoesOn(c, y, D, L, T) /\ walk' = y  BY <1>4, <1>5, <1>9, <2>1, <2>2 DEF DumpGoesOn
  <2> QED  BY <1>4, <2>3, GoesOn
<1> QED  BY <1>8, <1>9

LEMMA LineDumps == ASSUME EInv, DInv, PrintLine PROVE DInv'
<1>1. PICK c, w, D, L, T : c = subject /\ w = walk /\ D = dumped /\ L = lines /\ T = texts
  OBVIOUS
<1>2. PICK f, o, u : f = w[Len(w)] /\ o = f.expr /\ u = SubSeq(w, 1, Len(w) - 1)  OBVIOUS
<1>3. /\ w # << >> /\ f.next > Len(Needs(f)) /\ UNCHANGED vars
      /\ subject' = c /\ texts' = T /\ walk' = u
      /\ heap[o].op = "symbol" => lines' = Append(L, Line(o)) /\ dumped' = D \cup {o}
      /\ heap[o].op # "symbol" => lines' = L /\ dumped' = D
  BY <1>1, <1>2 DEF PrintLine, Walker, Deps, Needs, Callers
<1>4. Cloned /\ TextsAre(T) /\ c \in Contexts /\ DumpIs(c, w, D, L)
  <2>1. DumpGoesOn(subject, walk, dumped, lines, texts)  BY <1>1, <1>3, UnderWay
  <2>2. DumpGoesOn(c, w, D, L, T)  BY <1>1, <2>1
  <2> QED  BY <2>2 DEF DumpGoesOn
<1>5. f = w[Len(w)] /\ o = f.expr /\ u = SubSeq(w, 1, Len(w) - 1)  BY <1>2
<1> HIDE <1>1, <1>2
<1>6. CASE heap[o].op = "symbol"
  <2>1. PICK E, M : E = D \cup {o} /\ M = Append(L, Line(o))  OBVIOUS
  <2>2. DumpIs(c, u, E, M)
    <3>1. w # << >> /\ f.next > Len(Needs(f))  BY <1>3
    <3>2. DumpIs(c, u, D \cup {o}, Append(L, Line(o)))
      BY <1>4, <1>5, <1>6, <3>1, SymbolPrinted
    <3> QED  BY <2>1, <3>2
  <2>3. DumpGoesOn(c, u, E, M, T) /\ lines' = M /\ dumped' = E
    BY <1>3, <1>4, <1>6, <2>1, <2>2 DEF DumpGoesOn
  <2> QED  BY <1>3, <2>3, GoesOn
<1>7. CASE heap[o].op # "symbol"
  <2>1. DumpIs(c, u, D, L)  BY <1>3, <1>4, <1>5, <1>7, OtherEnded
  <2>2. DumpGoesOn(c, u, D, L, T) /\ lines' = L /\ dumped' = D
    BY <1>3, <1>4, <1>7, <2>1 DEF DumpGoesOn
  <2> QED  BY <1>3, <2>2, GoesOn
<1> QED  BY <1>6, <1>7

LEMMA EndDumps == ASSUME EInv, DInv, EndDump PROVE DInv'
<1>1. PICK c, D, L, T : c = subject /\ D = dumped /\ L = lines /\ T = texts  OBVIOUS
<1>2. PICK M : M = Append(L, Line(heap[c].kids[1]))  OBVIOUS
<1>3. PICK R : R = [x \in DOMAIN T \cup {c} |-> IF x = c THEN M ELSE T[x]]  OBVIOUS
<1>4. /\ subject # None /\ walk = << >> /\ UNCHANGED vars
      /\ subject' = None /\ walk' = << >> /\ dumped' = D /\ lines' = L /\ texts' = R
  BY <1>1, <1>2, <1>3 DEF EndDump
<1>5. Cloned /\ TextsAre(T) /\ c \in Contexts /\ DumpIs(c, << >>, D, L)
  <2>1. DumpGoesOn(subject, walk, dumped, lines, texts)  BY <1>4, UnderWay
  <2>2. DumpGoesOn(c, << >>, D, L, T)  BY <1>1, <1>4, <2>1
  <2> QED  BY <2>2 DEF DumpGoesOn
<1>6. M \in Seq(TextLine) /\ TextIs(c, M)  BY <1>2, <1>5, TextEnded
<1>7. TextsAre(R)
  <2> SUFFICES ASSUME NEW x \in DOMAIN R
               PROVE  x \in Contexts /\ R[x] \in Seq(TextLine) /\ TextIs(x, R[x])
    BY DEF TextsAre
  <2>1. x \in DOMAIN T \cup {c} /\ R[x] = IF x = c THEN M ELSE T[x]  BY <1>3
  <2>2. CASE x = c  BY <1>5, <1>6, <2>1, <2>2
  <2>3. CASE x # c
    <3>1. x \in DOMAIN T /\ R[x] = T[x]  BY <2>1, <2>3
    <3> QED  BY <1>5, <3>1 DEF TextsAre
  <2> QED  BY <2>2, <2>3
<1>8. Cloned' /\ TextsAre(R)'  BY <1>4, <1>5, <1>7, ObjectsKept, TextsStay
<1>9. TextsAre(texts)'  BY <1>4, <1>8 DEF TextsAre
<1>10. D \subseteq Objects' /\ L \in Seq(TextLine')
  BY <1>4, <1>5, ObjectsKept DEF DumpIs, TextLine
<1>11. (dumped \subseteq Objects)' /\ (lines \in Seq(TextLine))'  BY <1>4, <1>10
<1> QED  BY <1>4, <1>8, <1>9, <1>11 DEF DInv

LEMMA DumpBegins == DumpInit => DInv
<1>1. DOMAIN << >> = {}
  <2>1. << >> \in Seq({}) /\ Len(<< >>) = 0  BY EmptySeq
  <2>2. DOMAIN << >> = 1 .. 0  BY <2>1, LenProperties
  <2> QED  BY <2>2
<1> QED  BY <1>1 DEF DumpInit, DInv

LEMMA DumpGoes == EInv /\ DInv /\ [DumpNext]_allVars => DInv'
<1> SUFFICES ASSUME EInv, DInv, [DumpNext]_allVars PROVE DInv'  OBVIOUS
<1>1. CASE Step /\ UNCHANGED dumpVars
  <2>1. ~Cloned
    <3> SUFFICES ASSUME Cloned PROVE FALSE  OBVIOUS
    <3>1. ~Busy  BY DEF Cloned, Busy
    <3>2. Instantiate  BY <1>1, <3>1 DEF Step, Descend, Resolve, Unresolved, ShareCaptures, Finish
    <3>3. Len(instances) = MaxInstances  BY <3>2 DEF Cloned, Instantiate, Running
    <3>4. MaxInstances \in Nat /\ Len(instances) < MaxInstances
      BY <3>2, ProgramsAssumption DEF Instantiate
    <3> QED  BY <3>3, <3>4
  <2>2. subject = None /\ walk = << >> /\ dumped = {} /\ lines = << >> /\ DOMAIN texts = {}
    BY <2>1 DEF DInv
  <2> QED  BY <1>1, <2>2 DEF DInv, dumpVars
<1>2. CASE UNCHANGED allVars
  <2>1. UNCHANGED vars /\ UNCHANGED dumpVars  BY <1>2 DEF allVars, vars, dumpVars
  <2>2. CASE subject # None
    <3>1. PICK c, w, D, L, T : c = subject /\ w = walk /\ D = dumped /\ L = lines /\ T = texts
      OBVIOUS
    <3>2. DumpGoesOn(c, w, D, L, T)  BY <2>2, <3>1, UnderWay
    <3>3. subject' = c /\ walk' = w /\ dumped' = D /\ lines' = L /\ texts' = T
      BY <2>1, <3>1 DEF dumpVars
    <3> QED  BY <2>1, <3>2, <3>3, GoesOn
  <2>3. CASE subject = None /\ ~Cloned
    <3>1. subject = None /\ walk = << >> /\ dumped = {} /\ lines = << >> /\ DOMAIN texts = {}
      BY <2>3 DEF DInv
    <3> QED  BY <2>1, <3>1 DEF DInv, dumpVars
  <2>4. CASE subject = None /\ Cloned
    <3>1. PICK T, D, L : T = texts /\ D = dumped /\ L = lines  OBVIOUS
    <3>2. TextsAre(T) /\ walk = << >> /\ D \subseteq Objects /\ L \in Seq(TextLine)
      <4>1. << >> \in Seq(TextLine)  BY EmptySeq
      <4>2. subject \notin Contexts
        <5>1. \A x \in Contexts : x \in Objects
          BY HeapFacts DEF EInv, CInv, Contexts, Complete
        <5>2. None \notin Objects  BY HeapFacts DEF EInv, CInv, None
        <5> QED  BY <2>4, <5>1, <5>2
      <4>3. TextsAre(texts) /\ walk = << >> /\ dumped \subseteq Objects /\ lines \in Seq(TextLine)
        BY <4>1, <4>2, NoTexts DEF DInv
      <4> QED  BY <3>1, <4>3
    <3>3. TextsAre(T)' /\ Cloned' /\ D \subseteq Objects' /\ L \in Seq(TextLine')
      BY <2>1, <2>4, <3>2, TextsStay, ObjectsKept DEF TextLine
    <3>4. subject' = None /\ walk' = << >> /\ dumped' = D /\ lines' = L /\ texts' = T
      BY <2>1, <2>4, <3>1, <3>2 DEF dumpVars
    <3>5. TextsAre(texts)' /\ (dumped \subseteq Objects)' /\ (lines \in Seq(TextLine))'
      BY <3>3, <3>4 DEF TextsAre
    <3> QED  BY <3>3, <3>4, <3>5 DEF DInv
  <2> QED  BY <2>2, <2>3, <2>4
<1> QED
  BY <1>1, <1>2, BeginDumps, DependencyDumps, LineDumps, EndDumps DEF DumpNext, DumpStep, Done

LEMMA DumpsInvariant == DumpSpec => []DInv
<1>1. DumpInit => DInv  BY DumpBegins
<1>2. EInv /\ DInv /\ [DumpNext]_allVars => DInv'  BY DumpGoes
<1> QED  BY <1>1, <1>2, ObjectsInvariant, PTL DEF DumpSpec

(* What a dump works on, and every text it has printed, is well typed, and  *)
(* only contexts that are finished are dumped.                              *)
THEOREM DumpsWellTyped == DumpSpec => []DumpTypeOK
<1>1. CloneTypeOK /\ DInv => DumpTypeOK
  <2> SUFFICES ASSUME CloneTypeOK, DInv PROVE DumpTypeOK  OBVIOUS
  <2>1. /\ subject \in {None} \cup Contexts /\ dumped \subseteq Objects
        /\ walk \in Seq(Visits) /\ lines \in Seq(TextLine) /\ TextsAre(texts)
    BY NoTexts, EmptySeq DEF DInv, DumpIs
  <2>2. ASSUME NEW T \in Seq(TextLine), NEW i \in DOMAIN T
        PROVE  T[i].sym \in Objects /\ T[i].uses \subseteq Names
    <3>1. T[i] \in TextLine  BY LenProperties, ElementOfSeq
    <3> QED  BY <3>1 DEF TextLine
  <2>3. \A c \in DOMAIN texts : c \in Contexts /\ texts[c] \in Seq(TextLine)
    BY <2>1 DEF TextsAre
  <2>4. \A text \in {lines} \cup {texts[c] : c \in DOMAIN texts} : text \in Seq(TextLine)
    BY <2>1, <2>3
  <2>5. walk \in Seq([expr: Objects, next: Nat \ {0}])  BY <2>1 DEF Visits
  <2> QED  BY <2>1, <2>2, <2>3, <2>4, <2>5 DEF DumpTypeOK
<1> QED  BY <1>1, ClonesWellTyped, DumpsInvariant, PTL

(* Whatever a context is made of, and whichever way its dump takes through  *)
(* what the return depends on, its text names nothing that is not given or  *)
(* defined above: of every context as it was analysed, and of every copy    *)
(* that copied no capture into itself, whatever other copies did.  A copy   *)
(* that did may name what is outside; its text too has one line for a       *)
(* symbol at most.                                                          *)
THEOREM NamesAreDefinedAbove == DumpSpec => []NamedBeforeUse
<1>1. DInv => NamedBeforeUse
  <2> SUFFICES ASSUME DInv, NEW c \in DOMAIN texts, NEW i \in DOMAIN texts[c]
               PROVE  /\ c \in Originals \/ CapturesCopied(c) = {} =>
                           texts[c][i].uses \subseteq
                             Elements(NamesOf(heap[c].captures \o heap[c].params))
                               \cup {texts[c][j].name : j \in 1 .. i - 1}
                      /\ \A j \in 1 .. i - 1 : texts[c][j].sym # texts[c][i].sym
    BY DEF NamedBeforeUse
  <2>1. TextsAre(texts)  BY NoTexts DEF DInv
  <2>2. texts[c] \in Seq(TextLine) /\ TextIs(c, texts[c])  BY <2>1 DEF TextsAre
  <2>3. i \in 1 .. Len(texts[c])  BY <2>2, LenProperties
  <2>4. /\ Readable(c) => texts[c][i].uses \subseteq
                            GivenNames(c) \cup {texts[c][j].name : j \in 1 .. i - 1}
        /\ \A j \in 1 .. i - 1 : texts[c][j].sym # texts[c][i].sym
    BY <2>2, <2>3 DEF TextIs
  <2> QED  BY <2>4 DEF Readable, GivenNames, Given
<1> QED  BY <1>1, DumpsInvariant, PTL
-----------------------------------------------------------------------------
(* What deep_clone reaches. *)
Inner(n) ==
  LET e == program.node[n] IN
  {x \in Elements(Parts(e)) : e.op # "apply" \/ program.node[x].op # "symbol"}

LEMMA InnerFacts ==
  ASSUME TInv, NEW n \in Originals
  PROVE  /\ \A k \in Inner(n) : /\ k \in Originals /\ k \in Nat /\ k < n
                                /\ ~ (heap[n].op = "apply" /\ heap[k].op = "symbol")
         /\ \A k \in Elements(Parts(heap[n])) :
              k \in Inner(n) \/ (heap[n].op = "apply" /\ heap[k].op = "symbol")
<1>1. PICK e, P : e = heap[n] /\ P = Parts(e)  OBVIOUS
<1>2. e = program.node[n] /\ P \in Seq(1 .. n - 1) /\ P \in Seq(Originals) /\ n \in Nat
  BY <1>1, SourceFacts, HeapFacts
<1>3. \A k \in Elements(P) : k \in Originals /\ k \in Nat /\ k < n
  <2>1. \A k \in Elements(P) : k \in 1 .. n - 1 /\ k \in Originals
    BY <1>2, ElementOfSeq DEF Elements
  <2> QED  BY <1>2, <2>1
<1>4. \A k \in Elements(P) : heap[k] = program.node[k]  BY <1>3, SourceFacts
<1>5. Inner(n) = {x \in Elements(P) : e.op # "apply" \/ program.node[x].op # "symbol"}
  BY <1>1, <1>2 DEF Inner
<1>6. \A k \in Inner(n) : /\ k \in Originals /\ k \in Nat /\ k < n
                          /\ ~ (e.op = "apply" /\ heap[k].op = "symbol")
  BY <1>3, <1>4, <1>5
<1>7. \A k \in Elements(P) : k \in Inner(n) \/ (e.op = "apply" /\ heap[k].op = "symbol")
  BY <1>4, <1>5
<1> QED  BY <1>1, <1>6, <1>7

(* Tree is defined: it is the least set that has n and what its members lead to. *)
LEMMA TreeIs ==
  ASSUME TInv
  PROVE  \A n \in Originals : Tree[n] = {n} \cup UNION {Tree[k] : k \in Inner(n)}
<1> DEFINE Of(t, n) == {n} \cup UNION {t[k] : k \in Inner(n)}
           Whole(Z) == \A x \in Z : Inner(x) \subseteq Z
           m == [n \in Originals |->
                   {x \in Originals : \A Z \in SUBSET Originals : n \in Z /\ Whole(Z) => x \in Z}]
<1>1. \A n \in Originals : Inner(n) \subseteq Originals  BY InnerFacts
<1>2. ASSUME NEW n \in Originals PROVE m[n] = Of(m, n)
  <2> HIDE DEF Whole
  <2>1. m[n] = {x \in Originals : \A Z \in SUBSET Originals : n \in Z /\ Whole(Z) => x \in Z}
    OBVIOUS
  <2>2. \A k \in Inner(n) :
          m[k] = {x \in Originals : \A Z \in SUBSET Originals : k \in Z /\ Whole(Z) => x \in Z}
    BY <1>1
  <2> HIDE DEF m
  <2>3. ASSUME NEW x \in Of(m, n) PROVE x \in m[n]
    <3>1. CASE x = n  BY <2>1, <3>1
    <3>2. ASSUME NEW k \in Inner(n), x \in m[k] PROVE x \in m[n]
      <4>1. \A Z : n \in Z /\ Whole(Z) => k \in Z  BY DEF Whole
      <4> QED  BY <2>1, <2>2, <3>2, <4>1
    <3> QED  BY <3>1, <3>2
  <2>4. ASSUME NEW x \in m[n] PROVE x \in Of(m, n)
    <3>1. PICK W : W = Of(m, n)  OBVIOUS
    <3>2. W \in SUBSET Originals /\ n \in W  BY <2>2, <3>1
    <3>3. ASSUME NEW y \in W PROVE Inner(y) \subseteq W
      <4>1. CASE y = n
        <5>1. \A k \in Inner(n) : k \in m[k]  BY <1>1, <2>2
        <5> QED  BY <3>1, <4>1, <5>1
      <4>2. ASSUME NEW k \in Inner(n), y \in m[k] PROVE Inner(y) \subseteq W
        <5>1. Inner(y) \subseteq Originals  BY <1>1, <2>2, <4>2
        <5>2. \A Z \in SUBSET Originals : k \in Z /\ Whole(Z) => Inner(y) \subseteq Z
          BY <2>2, <4>2 DEF Whole
        <5>3. Inner(y) \subseteq m[k]  BY <2>2, <5>1, <5>2
        <5> QED  BY <3>1, <5>3
      <4> QED  BY <3>1, <3>3, <4>1, <4>2
    <3>4. Whole(W)  BY <3>3 DEF Whole
    <3> QED  BY <2>1, <3>1, <3>2, <3>4
  <2> HIDE DEF Of
  <2> QED  BY <2>3, <2>4
<1>3. \E t : t = [n \in Originals |-> Of(t, n)]
  <2>1. m = [n \in Originals |-> m[n]]  OBVIOUS
  <2> HIDE DEF m, Of
  <2>2. m = [n \in Originals |-> Of(m, n)]  BY <1>2, <2>1
  <2> QED  BY <2>2
<1>4. Tree = CHOOSE t : t = [n \in Originals |-> Of(t, n)]  BY DEF Tree, Inner
<1>5. Tree = [n \in Originals |-> Of(Tree, n)]
  <2> HIDE DEF Of
  <2> QED  BY <1>3, <1>4
<1>6. \A n \in Originals : Tree[n] = Of(Tree, n)
  <2> HIDE DEF Of
  <2> QED  BY <1>5
<1> QED  BY <1>6

LEMMA BodyFacts ==
  ASSUME TInv
  PROVE  /\ program.fn \in Body /\ program.fn \in Originals /\ Body \subseteq Originals
         /\ \A n \in Body : Inner(n) \subseteq Body
<1> DEFINE Bad == {r \in Originals : ~ (/\ Tree[r] \subseteq Originals
                                        /\ \A x \in Tree[r] : Inner(x) \subseteq Tree[r])}
<1>1. \A n \in Originals : Tree[n] = {n} \cup UNION {Tree[k] : k \in Inner(n)}  BY TreeIs
<1>2. \A n \in Originals : n \in Nat /\ \A k \in Inner(n) : k \in Originals /\ k \in Nat /\ k < n
  BY InnerFacts, HeapFacts
<1>3. ASSUME Bad # {} PROVE FALSE
  <2>1. Bad \in SUBSET Nat  BY <1>2
  <2>2. PICK r \in Bad : \A y \in Bad : r <= y
    <3> HIDE DEF Bad
    <3> QED  BY <1>3, <2>1, Least
  <2>3. r \in Originals /\ r \in Nat  BY <1>2
  <2>4. \A k \in Inner(r) : k \in Originals /\ k \notin Bad
    <3> HIDE DEF Bad
    <3> QED  BY <1>2, <2>2, <2>3
  <2>5. \A k \in Inner(r) : /\ Tree[k] \subseteq Originals /\ k \in Tree[k]
                            /\ \A x \in Tree[k] : Inner(x) \subseteq Tree[k]
    BY <1>1, <2>4
  <2>6. Tree[r] = {r} \cup UNION {Tree[k] : k \in Inner(r)}  BY <1>1, <2>3
  <2>7. Tree[r] \subseteq Originals  BY <2>3, <2>5, <2>6
  <2>8. ASSUME NEW x \in Tree[r] PROVE Inner(x) \subseteq Tree[r]
    <3>1. CASE x = r  BY <2>5, <2>6, <3>1
    <3>2. ASSUME NEW k \in Inner(r), x \in Tree[k] PROVE Inner(x) \subseteq Tree[r]
      BY <2>5, <2>6, <3>2
    <3> QED  BY <2>6, <3>1, <3>2
  <2> QED  BY <2>7, <2>8
<1>4. program.fn \in Originals
  <2>1. ProgramOK(program)  BY ProgramsAssumption DEF TInv
  <2> QED  BY <2>1 DEF ProgramOK, Originals
<1>5. program.fn \in Tree[program.fn]  BY <1>1, <1>4
<1> QED  BY <1>3, <1>4, <1>5 DEF Body

(* What the tables have while a copy is made, unless a capture is copied.   *)
IsContext(f) == Source(f).op = "context"

(* The activation h copies the context that f is in. *)
WithinFrame(h, f) ==
  IsContext(h) /\ h.obj = f.st /\ heap[f.src].in = h.src /\ f.src <= Wanted(h)

(* What has been copied or shared has its entry. *)
EntriesMade(f) ==
  /\ \A j \in 1 .. Len(f.done) :
       LET k == Parts(Source(f))[j] IN
       heap[k].op = "symbol" => accessible[f.obj][heap[k].name] # None
  /\ f.shared => \A k \in Elements(Source(f).captures) : accessible[f.obj][heap[k].name] # None
  /\ Len(f.done) > Len(Source(f).params) => f.shared

FillsAt(i) ==
  LET f == stack[i] IN
  /\ f.src \in Body /\ f.src \notin Captures
  /\ IsContext(f) => EntriesMade(f)
  /\ ~IsContext(f) => \E h \in 1 .. i - 1 : WithinFrame(stack[h], f)

Filling ==
  \A i \in 1 .. Len(stack) : FillsAt(i) /\ (i < Len(stack) => ~CapturesDue(stack[i]))

GInv == References \cap Captures = {} => Filling /\ outcome = "running"

TablesGrow ==
  \A c \in DOMAIN accessible : \A x \in Names :
    accessible[c][x] # None => accessible'[c][x] # None

LEMMA SourcesKept ==
  ASSUME TInv, TInv', program' = program
  PROVE  /\ Originals' = Originals /\ Captures' = Captures /\ Body' = Body
         /\ References' = References
         /\ \A n \in Originals : heap'[n] = heap[n]
<1>1. Originals' = Originals /\ Captures' = Captures  BY DEF Originals, Captures
<1>2. \A n \in Originals : heap'[n] = heap[n]  BY <1>1 DEF TInv, ProgramKept
<1>3. Tree' = Tree  BY DEF Tree, Originals
<1>4. Body' = Body  BY <1>3 DEF Body
<1>5. References' = References  BY <1>1, <1>4 DEF References
<1> QED  BY <1>1, <1>2, <1>4, <1>5

LEMMA SourceSame ==
  ASSUME TInv, TInv', program' = program, NEW f \in Frames
  PROVE  /\ Source(f)' = Source(f) /\ Wants(f)' = Wants(f) /\ Wanted(f)' = Wanted(f)
         /\ CapturesDue(f)' = CapturesDue(f) /\ IsContext(f)' = IsContext(f)
         /\ Parts(Source(f))' = Parts(Source(f))
<1>1. heap'[f.src] = heap[f.src]  BY FrameFacts, SourcesKept
<1>2. Source(f)' = Source(f)  BY <1>1 DEF Source
<1> QED  BY <1>2 DEF Wants, Wanted, Parts, CalleeOf, CapturesDue, IsContext

LEMMA MadeStays ==
  ASSUME EInv, TInv', program' = program, TablesGrow, NEW f \in Frames, IsContext(f),
         FrameIs(f), EntriesMade(f)
  PROVE  EntriesMade(f)'
<1>1. TInv  BY DEF EInv, CInv
<1>2. PICK e, P, n : e = Source(f) /\ P = Parts(e) /\ n = Len(f.done)  OBVIOUS
<1>3. /\ Source(f)' = e /\ Parts(Source(f))' = P /\ f.src \in Originals /\ e = heap[f.src]
      /\ f.st \in DOMAIN accessible /\ P \in Seq(Originals) /\ n \in Nat /\ Len(P) \in Nat
  BY <1>1, <1>2, SourceSame, FrameFacts DEF Source
<1>4. f.obj = f.st /\ n <= Len(P)  BY <1>2 DEF FrameIs, IsContext
<1>5. \A k \in Originals : heap'[k] = heap[k] /\ (heap[k].op = "symbol" => heap[k].name \in Names)
  BY <1>1, SourcesKept, SourceFacts
<1>6. \A x \in Names : accessible[f.obj][x] # None => accessible'[f.obj][x] # None
  BY <1>3, <1>4 DEF TablesGrow
<1>7. ASSUME NEW j \in 1 .. n, heap'[P[j]].op = "symbol"
      PROVE  accessible'[f.obj][heap'[P[j]].name] # None
  <2>1. j \in 1 .. Len(P)  BY <1>3, <1>4
  <2>2. P[j] \in Originals  BY <1>3, <2>1, ElementOfSeq
  <2>3. heap[P[j]].op = "symbol"  BY <1>5, <1>7, <2>2
  <2>4. accessible[f.obj][heap[P[j]].name] # None  BY <1>2, <2>3 DEF EntriesMade
  <2> QED  BY <1>5, <1>6, <2>2, <2>3, <2>4
<1>8. ASSUME f.shared, NEW k \in Elements(e.captures)
      PROVE  accessible'[f.obj][heap'[k].name] # None
  <2>1. k \in Originals /\ heap[k].op = "symbol"  BY <1>1, <1>3, SourceFacts, ScopeFacts
  <2>2. accessible[f.obj][heap[k].name] # None  BY <1>2, <1>8 DEF EntriesMade
  <2> QED  BY <1>5, <1>6, <2>1, <2>2
<1>9. n > Len(e.params) => f.shared  BY <1>2 DEF EntriesMade
<1> QED  BY <1>2, <1>3, <1>7, <1>8, <1>9 DEF EntriesMade

LEMMA WithinStays ==
  ASSUME TInv, TInv', program' = program, NEW h \in Frames, NEW f \in Frames, WithinFrame(h, f)
  PROVE  WithinFrame(h, f)'
<1>1. Wanted(h)' = Wanted(h) /\ IsContext(h)' = IsContext(h)  BY SourceSame
<1>2. heap'[f.src] = heap[f.src]  BY FrameFacts, SourcesKept
<1> QED  BY <1>1, <1>2 DEF WithinFrame

(* The activations below the innermost. *)
LEMMA FillsStays ==
  ASSUME EInv, TInv', program' = program, TablesGrow, Filling,
         NEW i \in 1 .. Len(stack), \A h \in 1 .. i : stack'[h] = stack[h]
  PROVE  FillsAt(i)' /\ CapturesDue(stack[i])' = CapturesDue(stack[i])
<1>1. TInv /\ Len(stack) \in Nat /\ \A h \in 1 .. Len(stack) : stack[h] \in Frames
  BY LenProperties, ElementOfSeq DEF EInv, CInv, TInv
<1>2. PICK f : f = stack[i]  OBVIOUS
<1>3. f \in Frames /\ stack'[i] = f /\ FrameIs(f) /\ FillsAt(i)
  BY <1>1, <1>2 DEF EInv, Filling
<1>4. /\ f.src \in Body' /\ f.src \notin Captures'
  BY <1>1, <1>2, <1>3, SourcesKept DEF FillsAt
<1>5. IsContext(f)' = IsContext(f) /\ CapturesDue(f)' = CapturesDue(f)
  BY <1>1, <1>3, SourceSame
<1>6. IsContext(f) => EntriesMade(f)'
  <2>1. IsContext(f) => EntriesMade(f)  BY <1>2, <1>3 DEF FillsAt
  <2> QED  BY <1>3, <2>1, MadeStays
<1>7. ~IsContext(f) => \E h \in 1 .. i - 1 : WithinFrame(stack[h], f)'
  <2> SUFFICES ASSUME ~IsContext(f) PROVE \E h \in 1 .. i - 1 : WithinFrame(stack[h], f)'
    OBVIOUS
  <2>1. PICK h \in 1 .. i - 1 : WithinFrame(stack[h], f)  BY <1>2, <1>3 DEF FillsAt
  <2>2. PICK x : x = stack[h]  OBVIOUS
  <2>3. h \in 1 .. Len(stack) /\ h \in 1 .. i  BY <1>1
  <2>4. x \in Frames /\ stack'[h] = x  BY <1>1, <2>2, <2>3
  <2>5. WithinFrame(x, f)'  BY <1>1, <1>3, <2>1, <2>2, <2>4, WithinStays
  <2> QED  BY <2>2, <2>4, <2>5
<1>8. stack'[i] = f /\ CapturesDue(stack[i])' = CapturesDue(stack[i])  BY <1>2, <1>3, <1>5
<1> QED  BY <1>4, <1>5, <1>6, <1>7, <1>8 DEF FillsAt

LEMMA EntersNames ==
  ASSUME NEW S, NEW objs \in Seq(S), NEW table, NEW names, NEW i \in 1 .. Len(objs),
         names[i] \in Names
  PROVE  Enter(table, names, objs)[names[i]] \in S
<1> DEFINE x == names[i]
           at == {j \in DOMAIN objs : names[j] = x}
           i0 == CHOOSE j \in at : \A k \in at : k <= j
<1>1. Enter(table, names, objs)[x] = IF at = {} THEN table[x] ELSE objs[i0]
  BY DEF Enter
<1>2. Len(objs) \in Nat /\ DOMAIN objs = 1 .. Len(objs)  BY LenProperties
<1>3. at \in SUBSET (1 .. Len(objs)) /\ at # {}  BY <1>2
<1> HIDE DEF at
<1>4. \E j \in at : \A k \in at : k <= j  BY <1>2, <1>3, Greatest
<1>5. i0 \in at  BY <1>4
<1>6. objs[i0] \in S  BY <1>3, <1>5, ElementOfSeq
<1> QED  BY <1>1, <1>3, <1>6

LEMMA EnterGrows ==
  ASSUME EInv, NEW o, NEW S, NEW objs \in Seq(S), None \notin S, NEW names,
         accessible' = [accessible EXCEPT ![o] = Enter(@, names, objs)]
  PROVE  TablesGrow
<1> SUFFICES ASSUME NEW c \in DOMAIN accessible, NEW x \in Names, accessible[c][x] # None
             PROVE  accessible'[c][x] # None
  BY DEF TablesGrow
<1>1. c # o => accessible'[c] = accessible[c]  OBVIOUS
<1>2. c = o => accessible'[c] = Enter(accessible[c], names, objs)  OBVIOUS
<1>3. CASE c # o  BY <1>1, <1>3
<1>4. CASE c = o
  <2>1. PICK t : t = accessible[c]  OBVIOUS
  <2>2. Enter(t, names, objs)[x] = t[x] \/ Enter(t, names, objs)[x] \in S  BY EnterFacts
  <2> QED  BY <1>2, <1>4, <2>1, <2>2
<1> QED  BY <1>3, <1>4

(* The names that a context declares. *)
LEMMA DeclaredNames ==
  ASSUME TInv, NEW c \in Originals, NEW e, e = heap[c], e.op = "context"
  PROVE  /\ \A k \in Elements(e.locals) :
              \A q \in Elements(e.params) \cup Elements(e.captures) : heap[k].name # heap[q].name
         /\ \A i, j \in 1 .. Len(e.locals) :
              i < j => heap[e.locals[i]].name # heap[e.locals[j]].name
         /\ \A q \in Elements(e.params) : heap[q].kids = << >>
<1>1. /\ WellScoped(program) /\ Originals = 1 .. Len(program.node)
      /\ e = program.node[c] /\ e \in Expr /\ \A k \in Originals : heap[k] = program.node[k]
  BY SourceFacts, ScopesAssumption DEF TInv, Originals
<1>2. /\ e.params \in Seq(Nat) /\ e.captures \in Seq(Nat) /\ e.locals \in Seq(Nat)
      /\ DOMAIN e.locals = 1 .. Len(e.locals)
  BY <1>1, LenProperties DEF Expr
<1>3. Elements(e.params \o e.captures) = Elements(e.params) \cup Elements(e.captures)
  BY <1>2, Joined
<1>4. Elements(e.params) \cup Elements(e.captures) \cup Elements(e.locals) \subseteq Originals
  BY ScopeFacts DEF Uses
<1>5. /\ \A k \in Elements(e.locals), l \in Elements(e.params \o e.captures) :
            program.node[k].name # program.node[l].name
      /\ \A i, j \in DOMAIN e.locals : i < j =>
           program.node[e.locals[i]].name # program.node[e.locals[j]].name
      /\ \A q \in Elements(e.params) : program.node[q].kids = << >>
  BY <1>1 DEF WellScoped
<1>6. \A i \in 1 .. Len(e.locals) : e.locals[i] \in Originals  BY <1>4 DEF Elements
<1>7. ASSUME NEW i \in 1 .. Len(e.locals), NEW j \in 1 .. Len(e.locals), i < j
      PROVE  heap[e.locals[i]].name # heap[e.locals[j]].name
  <2>1. PICK k, l : k = e.locals[i] /\ l = e.locals[j]  OBVIOUS
  <2>2. program.node[k].name # program.node[l].name  BY <1>2, <1>5, <1>7, <2>1
  <2>3. heap[k] = program.node[k] /\ heap[l] = program.node[l]  BY <1>1, <1>6, <2>1
  <2> QED  BY <2>1, <2>2, <2>3
<1> QED  BY <1>1, <1>3, <1>4, <1>5, <1>7

(* What is copied is no capture, unless a capture is returned or renamed. *)
LEMMA InnerIn ==
  ASSUME TInv, References \cap Captures = {}, NEW n \in Body, n \notin Captures,
         NEW k \in Inner(n)
  PROVE  k \in Body /\ k \notin Captures
<1>1. PICK e : e = heap[n]  OBVIOUS
<1>2. n \in Originals /\ k \in Originals /\ k \in Body
      /\ ~ (e.op = "apply" /\ heap[k].op = "symbol")
  BY <1>1, BodyFacts, InnerFacts
<1>3. /\ e \in Expr /\ ProgramOK(program) /\ n \in 1 .. Len(program.node)
      /\ e = program.node[n] /\ heap[k] = program.node[k]
  BY <1>1, <1>2, SourceFacts, ProgramsAssumption DEF TInv, Originals
<1>4. k \in Elements(Parts(e))  BY <1>3 DEF Inner
<1> SUFFICES ASSUME k \in Captures PROVE FALSE  BY <1>2
<1>5. PICK c \in Originals : k \in Elements(heap[c].captures)  BY SourceFacts DEF Captures
<1>6. heap[k].op = "symbol" /\ heap[c].op = "context" /\ heap[k].in = c /\ heap[k].kids # << >>
  BY <1>2, <1>5, ScopeFacts
<1>7. CASE e.op = "context"
  <2>1. heap[k].in = n  BY <1>1, <1>2, <1>4, <1>7, ScopeFacts
  <2>2. k \notin Elements(e.params) /\ k \notin Elements(e.locals)
    BY <1>1, <1>2, <1>5, <1>6, <1>7, <2>1, DeclaredNames
  <2>3. k \notin Elements(e.kids)
    <3>1. Len(e.kids) = 1 /\ heap[e.kids[1]].op = "ret"  BY <1>1, <1>2, <1>7, ScopeFacts
    <3> QED  BY <1>6, <3>1 DEF Elements
  <2> QED  BY <1>3, <1>4, <1>7, <2>2, <2>3, UsesFacts
<1>8. CASE e.op \in {"symbol", "ret"}
  <2>1. e.callee = None  BY <1>3, <1>8 DEF ProgramOK
  <2>2. k \in Elements(e.kids)
    <3>1. CalleeOf(e) = << >>  BY <2>1 DEF CalleeOf
    <3> QED  BY <1>3, <1>4, <1>8, <3>1, UsesFacts, Nothing
  <2>3. k \in References  BY <1>2, <1>3, <1>6, <1>8, <2>2 DEF References
  <2> QED  BY <2>3
<1>9. CASE e.op = "const"
  <2>1. e.callee = None /\ e.kids = << >>  BY <1>3, <1>9 DEF ProgramOK
  <2>2. CalleeOf(e) = << >>  BY <2>1 DEF CalleeOf
  <2> QED  BY <1>3, <1>4, <1>9, <2>1, <2>2, UsesFacts, Nothing
<1>10. CASE e.op = "apply"  BY <1>2, <1>6, <1>10
<1> QED  BY <1>3, <1>7, <1>8, <1>9, <1>10 DEF Expr

LEMMA WantedIn ==
  ASSUME EInv, References \cap Captures = {}, Filling, stack # << >>, Wants(Top), ~ByName(Top)
  PROVE  /\ Wanted(Top) \in Inner(Top.src)
         /\ Wanted(Top) \in Body /\ Wanted(Top) \notin Captures
<1>1. TInv  BY DEF EInv, CInv
<1>2. PICK f, n, e, k : f = Top /\ n = f.src /\ e = heap[n] /\ k = Wanted(f)  OBVIOUS
<1>3. /\ f \in Frames /\ f = stack[Len(stack)] /\ Len(stack) \in 1 .. Len(stack)
  BY <1>1, <1>2, StackFacts
<1>4. n \in Originals /\ Source(f) = e  BY <1>1, <1>2, <1>3, FrameFacts DEF Source
<1>5. k \in Elements(Parts(e))  BY <1>1, <1>2, <1>3, <1>4, WantedFacts
<1>6. n \in Body /\ n \notin Captures  BY <1>2, <1>3 DEF Filling, FillsAt
<1>7. ~ (e.op = "apply" /\ heap[k].op = "symbol")  BY <1>2, <1>4 DEF ByName
<1>8. k \in Inner(n)  BY <1>1, <1>2, <1>4, <1>5, <1>7, InnerFacts
<1>9. k \in Body /\ k \notin Captures  BY <1>1, <1>6, <1>8, InnerIn
<1> QED  BY <1>2, <1>8, <1>9

(* Where the parts of a context are. *)
LEMMA OneAfterAnother ==
  ASSUME NEW s \in Seq(Nat), NEW t \in Seq(Nat), NEW u \in Seq(Nat)
  PROVE  /\ Len(s) \in Nat /\ Len(t) \in Nat /\ Len(u) \in Nat
         /\ Len(s \o t \o u) = Len(s) + Len(t) + Len(u)
         /\ \A j \in 1 .. Len(s) : (s \o t \o u)[j] = s[j]
         /\ \A j \in 1 .. Len(t) : (s \o t \o u)[Len(s) + j] = t[j]
         /\ \A j \in 1 .. Len(u) : (s \o t \o u)[Len(s) + Len(t) + j] = u[j]
<1>1. PICK p, l, k, a, P : /\ p = Len(s) /\ l = Len(t) /\ k = Len(u)
                           /\ a = s \o t /\ P = a \o u
  OBVIOUS
<1>2. p \in Nat /\ l \in Nat /\ k \in Nat  BY <1>1, LenProperties
<1>3. /\ a \in Seq(Nat) /\ Len(a) = p + l
      /\ \A j \in 1 .. p + l : a[j] = IF j <= p THEN s[j] ELSE t[j - p]
  BY <1>1, ConcatProperties
<1>4. /\ Len(P) = Len(a) + k
      /\ \A j \in 1 .. Len(a) + k : P[j] = IF j <= Len(a) THEN a[j] ELSE u[j - Len(a)]
  BY <1>1, <1>3, ConcatProperties
<1>5. ASSUME NEW j \in 1 .. p PROVE P[j] = s[j]
  <2>1. j \in 1 .. p + l /\ j \in 1 .. Len(a) + k /\ j <= p /\ j <= Len(a)  BY <1>2, <1>3
  <2> QED  BY <1>3, <1>4, <2>1
<1>6. ASSUME NEW j \in 1 .. l PROVE P[p + j] = t[j]
  <2>1. PICK i : i = p + j  OBVIOUS
  <2>2. i \in 1 .. p + l /\ i \in 1 .. Len(a) + k /\ ~ (i <= p) /\ i <= Len(a) /\ i - p = j
    BY <1>2, <1>3, <2>1
  <2>3. P[i] = a[i]  BY <1>4, <2>2
  <2>4. a[i] = t[i - p]  BY <1>3, <2>2
  <2> QED  BY <2>1, <2>2, <2>3, <2>4
<1>7. ASSUME NEW j \in 1 .. k PROVE P[p + l + j] = u[j]
  <2>1. PICK i : i = p + l + j  OBVIOUS
  <2>2. i \in 1 .. Len(a) + k /\ ~ (i <= Len(a)) /\ i - Len(a) = j
    BY <1>2, <1>3, <2>1
  <2> QED  BY <1>4, <2>1, <2>2
<1> QED  BY <1>1, <1>2, <1>3, <1>4, <1>5, <1>6, <1>7

LEMMA ContextParts ==
  ASSUME NEW e \in Expr, e.op = "context"
  PROVE  /\ Len(e.params) \in Nat /\ Len(e.locals) \in Nat
         /\ Len(Parts(e)) = Len(e.params) + Len(e.locals) + Len(e.kids)
         /\ \A j \in 1 .. Len(e.params) : Parts(e)[j] = e.params[j]
         /\ \A j \in 1 .. Len(e.locals) : Parts(e)[Len(e.params) + j] = e.locals[j]
         /\ \A j \in 1 .. Len(e.kids) : Parts(e)[Len(e.params) + Len(e.locals) + j] = e.kids[j]
<1>1. PICK s, t, u : s = e.params /\ t = e.locals /\ u = e.kids  OBVIOUS
<1>2. s \in Seq(Nat) /\ t \in Seq(Nat) /\ u \in Seq(Nat)  BY <1>1 DEF Expr
<1>3. PICK P : P = Parts(e)  OBVIOUS
<1>4. P = s \o t \o u  BY <1>1, <1>3 DEF Parts
<1>5. /\ Len(s) \in Nat /\ Len(t) \in Nat /\ Len(P) = Len(s) + Len(t) + Len(u)
      /\ \A j \in 1 .. Len(s) : P[j] = s[j]
      /\ \A j \in 1 .. Len(t) : P[Len(s) + j] = t[j]
      /\ \A j \in 1 .. Len(u) : P[Len(s) + Len(t) + j] = u[j]
  <2>1. /\ Len(s) \in Nat /\ Len(t) \in Nat /\ Len(s \o t \o u) = Len(s) + Len(t) + Len(u)
        /\ \A j \in 1 .. Len(s) : (s \o t \o u)[j] = s[j]
        /\ \A j \in 1 .. Len(t) : (s \o t \o u)[Len(s) + j] = t[j]
        /\ \A j \in 1 .. Len(u) : (s \o t \o u)[Len(s) + Len(t) + j] = u[j]
    BY <1>2, OneAfterAnother, Zenon
  <2> QED  BY <1>4, <2>1, Zenon
<1> QED  BY <1>1, <1>3, <1>5

(* What a context lists. *)
LEMMA ListFacts ==
  ASSUME TInv, NEW c \in Originals, NEW e, e = heap[c], e.op = "context"
  PROVE  /\ \A q \in Elements(e.params) :
              q \in Originals /\ heap[q].op = "symbol" /\ Parts(heap[q]) = << >>
         /\ \A k \in Originals : heap[k].op = "symbol" /\ heap[k].in = c =>
              k \in Elements(e.params) \cup Elements(e.captures) \cup Elements(e.locals)
         /\ \A i, j \in 1 .. Len(e.locals) : i < j => e.locals[i] < e.locals[j]
<1>1. /\ ProgramOK(program) /\ WellScoped(program) /\ Originals = 1 .. Len(program.node)
      /\ e = program.node[c] /\ e \in Expr /\ \A k \in Originals : heap[k] = program.node[k]
  BY SourceFacts, ProgramsAssumption, ScopesAssumption DEF TInv, Originals
<1>2. e.params \in Seq(Nat) /\ e.captures \in Seq(Nat) /\ e.locals \in Seq(Nat)
  BY <1>1 DEF Expr
<1>3. ASSUME NEW q \in Elements(e.params)
      PROVE  q \in Originals /\ heap[q].op = "symbol" /\ Parts(heap[q]) = << >>
  <2>1. q \in Originals /\ heap[q].op = "symbol"  BY ScopeFacts DEF Uses
  <2>2. program.node[q].kids = << >>  BY <1>1 DEF WellScoped
  <2>3. heap[q].kids = << >>  BY <1>1, <2>1, <2>2
  <2>4. heap[q].callee = None  BY <1>1, <2>1 DEF ProgramOK
  <2>5. PICK z : z = << >>  OBVIOUS
  <2>6. CalleeOf(heap[q]) = z  BY <2>4, <2>5 DEF CalleeOf
  <2>7. z \in Seq(Nat) /\ z \o << >> = z  BY <2>5, EmptySeq, ConcatEmptySeq
  <2>8. Parts(heap[q]) = z \o z  BY <2>1, <2>3, <2>5, <2>6 DEF Parts
  <2> QED  BY <2>1, <2>5, <2>7, <2>8
<1>4. ASSUME NEW k \in Originals, heap[k].op = "symbol", heap[k].in = c
      PROVE  k \in Elements(e.params) \cup Elements(e.captures) \cup Elements(e.locals)
  <2>1. /\ program.node[k].op = "symbol" /\ program.node[k].in = c /\ c # None
    BY <1>1, <1>4, HeapFacts DEF None
  <2>2. k \in Elements(e.params \o e.captures \o e.locals)
    BY <1>1, <2>1 DEF WellScoped
  <2>3. PICK a : a = e.params \o e.captures  OBVIOUS
  <2>4. a \in Seq(Nat) /\ Elements(a) = Elements(e.params) \cup Elements(e.captures)
    BY <1>2, <2>3, Joined
  <2>5. Elements(a \o e.locals) = Elements(a) \cup Elements(e.locals)
    BY <1>2, <2>4, Joined
  <2> QED  BY <2>2, <2>3, <2>4, <2>5
<1>5. \A i, j \in 1 .. Len(e.locals) : i < j => e.locals[i] < e.locals[j]
  <2>1. DOMAIN e.locals = 1 .. Len(e.locals)  BY <1>2, LenProperties
  <2>2. \A i, j \in DOMAIN e.locals : i < j => e.locals[i] < e.locals[j]
    BY <1>1 DEF WellScoped
  <2> QED  BY <2>1, <2>2
<1> QED  BY <1>3, <1>4, <1>5

(* An operation is in a local or in what is returned, when it is copied:    *)
(* the captures of the context around it have been entered.                 *)
LEMMA Around ==
  ASSUME EInv, Filling, stack # << >>, Wants(Top), ByName(Top)
  PROVE  \E h \in 1 .. Len(stack) - 1 :
           /\ WithinFrame(stack[h], Top) /\ stack[h].shared
           /\ Len(Source(stack[h]).params) <= Len(stack[h].done)
<1>1. TInv  BY DEF EInv, CInv
<1>2. PICK N, f, n : N = Len(stack) /\ f = Top /\ n = f.src  OBVIOUS
<1>3. /\ N \in Nat \ {0} /\ f = stack[N] /\ f \in Frames /\ N \in 1 .. N
      /\ \A i \in 1 .. N : stack[i] \in Frames
  BY <1>1, <1>2, StackFacts
<1>4. PICK h \in 1 .. N - 1 : WithinFrame(stack[h], f)
  <2>1. ~IsContext(f)  BY <1>2 DEF ByName, IsContext
  <2> QED  BY <1>2, <1>3, <2>1 DEF Filling, FillsAt
<1>5. PICK g, c, e, d : g = stack[h] /\ c = g.src /\ e = heap[c] /\ d = Len(g.done)  OBVIOUS
<1>6. h \in 1 .. N /\ h < N /\ h + 1 \in 1 .. N /\ h \in Nat  BY <1>3
<1>7. /\ g \in Frames /\ c \in Originals /\ Source(g) = e /\ e \in Expr /\ d \in Nat
  BY <1>1, <1>3, <1>5, <1>6, FrameFacts, SourceFacts DEF Source
<1>8. e.op = "context"  BY <1>4, <1>5, <1>7 DEF WithinFrame, IsContext
<1>9. /\ Wants(g) /\ Wanted(g) = stack[h + 1].src /\ ~CapturesDue(g) /\ EntriesMade(g)
  BY <1>2, <1>5, <1>6, <1>7, <1>8 DEF EInv, FramesLinked, Filling, FillsAt, IsContext
<1>10. PICK p, l, P : p = Len(e.params) /\ l = Len(e.locals) /\ P = Parts(e)  OBVIOUS
<1>11. /\ p \in Nat /\ l \in Nat /\ Wanted(g) = P[d + 1] /\ Len(P) = p + l + 1 /\ d < p + l + 1
       /\ \A j \in 1 .. p : P[j] = e.params[j]
       /\ \A j \in 1 .. l : P[p + j] = e.locals[j]
  <2>1. Len(e.kids) = 1  BY <1>1, <1>5, <1>7, <1>8, ScopeFacts
  <2>2. Wanted(g) = P[d + 1] /\ d < Len(P)  BY <1>5, <1>7, <1>9, <1>10 DEF Wanted, Wants
  <2> QED  BY <1>7, <1>8, <1>10, <2>1, <2>2, ContextParts
<1>12. p <= d
  <2> SUFFICES ASSUME d < p PROVE FALSE  BY <1>7, <1>11
  <2>1. d + 1 \in 1 .. p  BY <1>7, <1>11
  <2>2. PICK q : q = Wanted(g)  OBVIOUS
  <2>3. q \in Elements(e.params)  BY <1>10, <1>11, <2>1, <2>2 DEF Elements
  <2>4. heap[q].op = "symbol" /\ Parts(heap[q]) = << >>
    BY <1>1, <1>5, <1>7, <1>8, <2>3, ListFacts
  <2>5. PICK y : y = stack[h + 1]  OBVIOUS
  <2>6. y \in Frames /\ Source(y) = heap[q]  BY <1>3, <1>6, <1>9, <2>2, <2>5 DEF Source
  <2>7. ~Wants(y)
    <3>1. Len(y.done) \in Nat  BY <1>1, <2>6, FrameFacts
    <3>2. Len(Parts(Source(y))) = 0  BY <2>4, <2>6, EmptySeq
    <3> QED  BY <3>1, <3>2 DEF Wants
  <2>8. h + 1 # N  BY <1>2, <1>3, <2>5, <2>7
  <2>9. h + 1 < N  BY <1>3, <1>6, <2>8
  <2> QED  BY <1>2, <1>6, <2>5, <2>7, <2>9 DEF EInv, FramesLinked
<1>13. g.shared
  <2>1. CASE d = p  BY <1>5, <1>7, <1>8, <1>9, <1>10, <2>1 DEF CapturesDue
  <2>2. CASE d # p
    <3>1. d > p  BY <1>7, <1>11, <1>12, <2>2
    <3> QED  BY <1>5, <1>7, <1>9, <1>10, <3>1 DEF EntriesMade
  <2> QED  BY <2>1, <2>2
<1> QED  BY <1>2, <1>4, <1>5, <1>7, <1>10, <1>12, <1>13

(* The context that is being copied around an operation has the entries of  *)
(* all symbols that were defined before the operation.                      *)
LEMMA AlwaysFound ==
  ASSUME EInv, Filling, stack # << >>, Wants(Top), ByName(Top)
  PROVE  Lookup(Top) # None
<1>1. TInv  BY DEF EInv, CInv
<1>2. PICK N, f, n, k : N = Len(stack) /\ f = Top /\ n = f.src /\ k = Wanted(f)  OBVIOUS
<1>3. /\ N \in Nat \ {0} /\ f = stack[N] /\ f \in Frames /\ N \in 1 .. N
      /\ \A i \in 1 .. N : stack[i] \in Frames
  BY <1>1, <1>2, StackFacts
<1>4. n \in Originals /\ Source(f) = heap[n] /\ n \notin Captures /\ n \in Nat
  BY <1>1, <1>2, <1>3, FrameFacts, HeapFacts DEF Source, Filling, FillsAt
<1>5. k \in Originals /\ k \in Elements(Parts(heap[n]))  BY <1>1, <1>2, <1>3, <1>4, WantedFacts
<1>6. heap[n].op = "apply" /\ heap[k].op = "symbol" /\ heap[k].in = heap[n].in
  <2>1. heap[n].op = "apply" /\ heap[k].op = "symbol"  BY <1>2, <1>4 DEF ByName
  <2> QED  BY <1>1, <1>4, <1>5, <2>1, ScopeFacts
<1>7. k \in Nat /\ k < n
  <2>1. heap[n] \in Expr  BY <1>1, <1>4, SourceFacts
  <2>2. Elements(Parts(heap[n])) = Elements(CalleeOf(heap[n])) \cup Elements(heap[n].kids)
    BY <1>6, <2>1, UsesFacts
  <2> QED  BY <1>1, <1>4, <1>5, <2>2, ScopeFacts DEF Uses
<1>8. PICK h \in 1 .. N - 1 : /\ WithinFrame(stack[h], f) /\ stack[h].shared
                               /\ Len(Source(stack[h]).params) <= Len(stack[h].done)
  BY <1>2, Around
<1>9. PICK g, c, e, d : g = stack[h] /\ c = g.src /\ e = heap[c] /\ d = Len(g.done)  OBVIOUS
<1>10. h \in 1 .. N /\ h < N /\ h + 1 \in 1 .. N /\ h \in Nat  BY <1>3
<1>11. /\ g \in Frames /\ c \in Originals /\ Source(g) = e /\ e \in Expr /\ d \in Nat
  BY <1>1, <1>3, <1>9, <1>10, FrameFacts, SourceFacts DEF Source
<1>12. /\ e.op = "context" /\ g.obj = f.st /\ heap[k].in = c /\ n <= Wanted(g)
  BY <1>2, <1>6, <1>8, <1>9, <1>11 DEF WithinFrame, IsContext
<1>13. /\ Wants(g) /\ Wanted(g) = stack[h + 1].src /\ ~CapturesDue(g) /\ EntriesMade(g)
  BY <1>2, <1>9, <1>10, <1>11, <1>12 DEF EInv, FramesLinked, Filling, FillsAt, IsContext
<1>14. PICK p, l, P : p = Len(e.params) /\ l = Len(e.locals) /\ P = Parts(e)  OBVIOUS
<1>15. /\ p \in Nat /\ l \in Nat /\ Wanted(g) = P[d + 1] /\ Len(P) = p + l + 1 /\ d < p + l + 1
       /\ \A j \in 1 .. p : P[j] = e.params[j]
       /\ \A j \in 1 .. l : P[p + j] = e.locals[j]
  <2>1. Len(e.kids) = 1  BY <1>1, <1>9, <1>11, <1>12, ScopeFacts
  <2>2. Wanted(g) = P[d + 1] /\ d < Len(P)  BY <1>9, <1>11, <1>13, <1>14 DEF Wanted, Wants
  <2> QED  BY <1>11, <1>12, <1>14, <2>1, <2>2, ContextParts
<1>16. p <= d /\ g.shared  BY <1>8, <1>9, <1>11, <1>14
<1>17. k \in Elements(e.params) \cup Elements(e.captures) \cup Elements(e.locals)
  BY <1>1, <1>5, <1>6, <1>9, <1>11, <1>12, ListFacts
<1>18. \A j \in 1 .. d : P[j] = k => accessible[g.obj][heap[k].name] # None
  BY <1>6, <1>9, <1>11, <1>13, <1>14 DEF EntriesMade
<1>19. accessible[g.obj][heap[k].name] # None
  <2>1. CASE k \in Elements(e.captures)
    BY <1>11, <1>13, <1>16, <2>1 DEF EntriesMade
  <2>2. CASE k \in Elements(e.params)
    <3>1. PICK j \in 1 .. p : k = e.params[j]  BY <1>14, <2>2 DEF Elements
    <3>2. j \in 1 .. d  BY <1>11, <1>15, <1>16
    <3> QED  BY <1>15, <1>18, <3>1, <3>2
  <2>3. CASE k \in Elements(e.locals)
    <3>1. PICK j \in 1 .. l : k = e.locals[j]  BY <1>14, <2>3 DEF Elements
    <3>2. p + j <= d
      <4> SUFFICES ASSUME d < p + j PROVE FALSE  BY <1>11, <1>15
      <4>1. PICK i : i = d + 1 - p  OBVIOUS
      <4>2. i \in 1 .. l /\ i <= j /\ p + i = d + 1  BY <1>11, <1>15, <1>16, <4>1
      <4>3. Wanted(g) = e.locals[i]  BY <1>15, <4>2
      <4>4. i < j => e.locals[i] < e.locals[j]
        BY <1>1, <1>9, <1>11, <1>12, <1>14, <4>2, ListFacts
      <4>5. Wanted(g) \in Nat  BY <1>1, <1>11, <1>13, FrameFacts, HeapFacts
      <4>6. i = j \/ i < j  BY <1>15, <4>2
      <4>7. Wanted(g) <= k  BY <1>7, <3>1, <4>3, <4>4, <4>5, <4>6
      <4> QED  BY <1>4, <1>7, <1>12, <1>2, <4>5, <4>7
    <3>3. p + j \in 1 .. d  BY <1>11, <1>15, <3>2
    <3> QED  BY <1>15, <1>18, <3>1, <3>3
  <2> QED  BY <1>17, <2>1, <2>2, <2>3
<1> QED  BY <1>2, <1>12, <1>19 DEF Lookup

(* The stack, when the innermost activation goes on as g. *)
LEMMA GoesOnFilling ==
  ASSUME EInv, EInv', program' = program, TablesGrow, Filling, NEW n \in 1 .. Len(stack),
         Len(stack') = n, \A i \in 1 .. n - 1 : stack'[i] = stack[i],
         NEW g, g = stack'[n], g.src = stack[n].src, g.st = stack[n].st,
         IsContext(g)' => EntriesMade(g)'
  PROVE  Filling'
<1>1. TInv /\ TInv' /\ Len(stack) \in Nat /\ \A h \in 1 .. Len(stack) : stack[h] \in Frames
  BY LenProperties, ElementOfSeq DEF EInv, CInv, TInv
<1>2. n \in Nat /\ \A i \in 1 .. n - 1 : i \in 1 .. Len(stack) /\ i < Len(stack) /\ i < n
  BY <1>1
<1>3. ASSUME NEW i \in 1 .. n - 1
      PROVE  FillsAt(i)' /\ ~CapturesDue(stack[i])'
  <2>1. \A h \in 1 .. i : stack'[h] = stack[h]
    <3>1. \A h \in 1 .. i : h \in 1 .. n - 1  BY <1>2
    <3> QED  BY <3>1
  <2>2. i \in 1 .. Len(stack) /\ ~CapturesDue(stack[i])  BY <1>2 DEF Filling
  <2> QED  BY <1>1, <2>1, <2>2, FillsStays
<1>4. FillsAt(n)'
  <2>1. PICK f : f = stack[n]  OBVIOUS
  <2>2. /\ f \in Frames /\ f.src \in Originals /\ f.src \in Body /\ f.src \notin Captures
        /\ ~IsContext(f) => \E h \in 1 .. n - 1 : WithinFrame(stack[h], f)
    BY <1>1, <2>1, FrameFacts DEF Filling, FillsAt
  <2>3. heap'[f.src] = heap[f.src] /\ Body' = Body /\ Captures' = Captures
    BY <1>1, <2>2, SourcesKept
  <2>4. IsContext(g)' = IsContext(f)  BY <2>1, <2>3 DEF IsContext, Source
  <2>5. ~IsContext(g)' => \E h \in 1 .. n - 1 : WithinFrame(stack[h], g)'
    <3> SUFFICES ASSUME ~IsContext(f) PROVE \E h \in 1 .. n - 1 : WithinFrame(stack[h], g)'
      BY <2>4
    <3>1. PICK h \in 1 .. n - 1 : WithinFrame(stack[h], f)  BY <2>2
    <3>2. PICK x : x = stack[h]  OBVIOUS
    <3>3. x \in Frames /\ stack'[h] = x  BY <1>1, <1>2, <3>2
    <3>4. WithinFrame(x, f)'  BY <1>1, <2>2, <3>1, <3>2, <3>3, WithinStays
    <3>5. WithinFrame(x, g)'  BY <2>1, <3>4 DEF WithinFrame
    <3> QED  BY <3>3, <3>5
  <2> QED  BY <2>1, <2>2, <2>3, <2>5 DEF FillsAt
<1>5. \A i \in 1 .. n : i = n \/ i \in 1 .. n - 1  BY <1>2
<1> QED  BY <1>2, <1>3, <1>4, <1>5 DEF Filling

LEMMA ResolveFills == ASSUME EInv, EInv', Filling, Resolve PROVE Filling'
<1>1. TInv /\ TInv' /\ stack # << >>  BY DEF EInv, CInv, Resolve, Busy
<1>2. PICK f, N, g : f = Top /\ N = Len(stack) /\ g = [f EXCEPT !.done = Append(@, Lookup(Top))]
  OBVIOUS
<1>3. /\ f \in Frames /\ N \in Nat \ {0} /\ f = stack[N]  BY <1>1, <1>2, StackFacts
<1>4. stack' = Update(g) /\ program' = program /\ accessible' = accessible /\ ByName(f)
  BY <1>2 DEF Resolve
<1>5. Lookup(Top) \in Objects
  <2>1. PICK k : k = Wanted(f)  OBVIOUS
  <2>2. k \in Originals /\ f.st \in DOMAIN accessible /\ heap[k].op = "symbol"
    BY <1>1, <1>2, <1>3, <1>4, <2>1, FrameFacts DEF Resolve, ByName
  <2>3. heap[k].name \in Names  BY <1>1, <2>2, SourceFacts
  <2>4. TableIs(f.st) /\ Lookup(Top) # None /\ Lookup(Top) = accessible[f.st][heap[k].name]
    BY <1>2, <2>1, <2>2 DEF EInv, Resolve, Lookup
  <2> QED  BY <2>3, <2>4 DEF TableIs, Settled
<1>6. g \in Frames /\ g.src = f.src /\ g.st = f.st
  <2>1. PICK a : a = Append(f.done, Lookup(Top))  OBVIOUS
  <2>2. a \in Seq(Objects)  BY <1>1, <1>3, <1>5, <2>1, FrameFacts, AppendProperties
  <2>3. g = [f EXCEPT !.done = a]  BY <1>2, <2>1
  <2> QED  BY <1>3, <2>2, <2>3 DEF Frames, Frame
<1>7. Len(stack') = N /\ stack'[N] = g /\ \A i \in 1 .. N - 1 : stack'[i] = stack[i]
  BY <1>1, <1>2, <1>4, <1>6, Updated
<1>8. TablesGrow  BY <1>4 DEF TablesGrow
<1>9. ~IsContext(g)'
  <2>1. ~IsContext(f)  BY <1>4 DEF ByName, IsContext
  <2>2. IsContext(f)' = IsContext(f)  BY <1>1, <1>3, <1>4, SourceSame
  <2>3. IsContext(g)' = IsContext(f)'  BY <1>6 DEF IsContext, Source
  <2> QED  BY <2>1, <2>2, <2>3
<1>10. N \in 1 .. Len(stack)  BY <1>2, <1>3
<1> QED  BY <1>2, <1>3, <1>4, <1>6, <1>7, <1>8, <1>9, <1>10, GoesOnFilling

LEMMA ShareCapturesFills == ASSUME EInv, EInv', Filling, ShareCaptures PROVE Filling'
<1>1. TInv /\ TInv' /\ stack # << >>  BY DEF EInv, CInv, ShareCaptures, Busy
<1>2. PICK f, N, g, e, objs, names, o :
        /\ f = Top /\ N = Len(stack) /\ g = [f EXCEPT !.shared = TRUE]
        /\ e = Source(f) /\ objs = Source(f).captures /\ names = NamesOf(objs) /\ o = f.obj
  OBVIOUS
<1>3. /\ f \in Frames /\ N \in Nat \ {0} /\ f = stack[N] /\ FrameIs(f) /\ FillsAt(N)
  BY <1>1, <1>2, StackFacts DEF EInv, Filling
<1>4. /\ stack' = Update(g) /\ program' = program /\ CapturesDue(f)
      /\ accessible' = [accessible EXCEPT ![o] = Enter(@, names, objs)]
  BY <1>2 DEF ShareCaptures
<1>5. g \in Frames /\ g.src = f.src /\ g.st = f.st /\ g.obj = f.obj /\ g.done = f.done /\ g.shared
  BY <1>2, <1>3 DEF Frames, Frame
<1>6. Len(stack') = N /\ stack'[N] = g /\ \A i \in 1 .. N - 1 : stack'[i] = stack[i]
  BY <1>1, <1>2, <1>4, <1>5, Updated
<1>7. objs \in Seq(Originals) /\ None \notin Originals
  <2>1. f.src \in Originals /\ objs = heap[f.src].captures
    BY <1>1, <1>2, <1>3, FrameFacts DEF Source
  <2> QED  BY <1>1, <2>1, SourceFacts DEF None, Originals
<1>8. TablesGrow  BY <1>4, <1>7, EnterGrows
<1>9. IsContext(f)  BY <1>4 DEF CapturesDue, IsContext
<1>10. EntriesMade(f)'
  <2>1. EntriesMade(f)  BY <1>3, <1>9 DEF FillsAt
  <2> QED  BY <1>1, <1>3, <1>4, <1>8, <1>9, <2>1, MadeStays
<1>11. \A k \in Elements(objs) : accessible'[o][heap'[k].name] # None
  <2> SUFFICES ASSUME NEW i \in 1 .. Len(objs) PROVE accessible'[o][heap'[objs[i]].name] # None
    BY DEF Elements
  <2>1. PICK k, t : k = objs[i] /\ t = accessible[o]  OBVIOUS
  <2>2. k \in Originals  BY <1>7, <2>1, ElementOfSeq
  <2>3. heap'[k] = heap[k]  BY <1>1, <1>4, <2>2, SourcesKept
  <2>4. heap[k].op = "symbol"
    <3>1. k \in Elements(objs)  BY <2>1 DEF Elements
    <3>2. f.src \in Originals /\ objs = heap[f.src].captures
      BY <1>1, <1>2, <1>3, FrameFacts DEF Source
    <3> QED  BY <1>1, <3>1, <3>2, ScopeFacts
  <2>5. names[i] = heap[k].name /\ names[i] \in Names
    <3>1. DOMAIN objs = 1 .. Len(objs)  BY <1>7, LenProperties
    <3>2. names[i] = heap[k].name  BY <1>2, <2>1, <3>1 DEF NamesOf
    <3> QED  BY <1>1, <2>2, <2>4, <3>2, SourceFacts
  <2>6. o \in DOMAIN accessible  BY <1>2, <1>1, <1>3, <1>9, FrameFacts DEF FrameIs, IsContext
  <2>7. accessible'[o] = Enter(t, names, objs)  BY <1>4, <2>1, <2>6
  <2>8. Enter(t, names, objs)[names[i]] \in Originals  BY <1>7, <2>5, EntersNames
  <2> QED  BY <1>7, <2>1, <2>3, <2>5, <2>7, <2>8
<1>12. EntriesMade(g)'
  <2>1. Source(g)' = Source(f)' /\ Source(f)' = e
    BY <1>1, <1>2, <1>3, <1>4, <1>5, SourceSame DEF Source
  <2>2. Parts(Source(g))' = Parts(Source(f))'  BY <2>1 DEF Parts, CalleeOf
  <2>3. PICK P, d : P = Parts(Source(f))' /\ d = f.done  OBVIOUS
  <2>4. \A j \in 1 .. Len(d) :
          heap'[P[j]].op = "symbol" => accessible'[o][heap'[P[j]].name] # None
    BY <1>2, <1>10, <2>3 DEF EntriesMade
  <2>5. e.captures = objs  BY <1>2
  <2> HIDE <1>2, <1>10
  <2>6. g.obj = o /\ g.done = d /\ g.shared /\ Source(g)' = e /\ Parts(Source(g))' = P
    BY <1>2, <1>5, <2>1, <2>2, <2>3
  <2> QED  BY <1>11, <2>4, <2>5, <2>6 DEF EntriesMade
<1>13. /\ N \in 1 .. Len(stack) /\ program' = program /\ g = stack'[N]
       /\ g.src = stack[N].src /\ g.st = stack[N].st
  BY <1>2, <1>3, <1>4, <1>5, <1>6
<1> QED  BY <1>6, <1>8, <1>12, <1>13, GoesOnFilling

(* The context that gets one more part gets its entry. *)
LEMMA DeclareMakes ==
  ASSUME EInv, TInv', program' = program, TablesGrow, NEW f \in Frames, FrameIs(f), IsContext(f),
         EntriesMade(f), ~CapturesDue(f), Wants(f),
         NEW o \in Objects, heap[o].name = heap[Wanted(f)].name, accessible' = Declare(f, o),
         NEW g, g.src = f.src, g.obj = f.obj, g.shared = f.shared, g.done = Append(f.done, o)
  PROVE  EntriesMade(g)'
<1>1. TInv  BY DEF EInv, CInv
<1>2. PICK e, P, d, k : e = Source(f) /\ P = Parts(e) /\ d = Len(f.done) /\ k = Wanted(f)
  OBVIOUS
<1>3. /\ f.src \in Originals /\ e = heap[f.src] /\ e \in Expr /\ d \in Nat /\ e.op = "context"
      /\ f.done \in Seq(Objects) /\ f.obj \in DOMAIN accessible /\ P \in Seq(Originals)
  BY <1>1, <1>2, FrameFacts DEF Source, FrameIs, IsContext
<1>4. Source(f)' = e /\ Parts(Source(f))' = P
  BY <1>1, <1>2, SourceSame
<1>5. Source(g)' = e /\ Parts(Source(g))' = P
  <2>1. Source(g)' = Source(f)'  BY DEF Source
  <2> QED  BY <1>2, <1>4, <2>1 DEF Parts, CalleeOf
<1>6. k \in Originals /\ k = P[d + 1] /\ k \in Elements(P)
  BY <1>1, <1>2, WantedFacts DEF Wanted
<1>7. EntriesMade(f)'  BY <1>1, MadeStays
<1>8. heap[k].op = "symbol" => accessible'[f.obj][heap[k].name] # None
  <2> SUFFICES ASSUME heap[k].op = "symbol" PROVE accessible'[f.obj][heap[k].name] # None
    OBVIOUS
  <2>1. k \notin Elements(e.kids)
    <3>1. Len(e.kids) = 1 /\ heap[e.kids[1]].op = "ret"  BY <1>1, <1>3, ScopeFacts
    <3> QED  BY <3>1 DEF Elements
  <2>2. PICK t, x, ns, os : /\ t = accessible[f.obj] /\ x = heap[k].name
                            /\ ns = <<heap[o].name>> /\ os = <<o>>
    OBVIOUS
  <2>3. accessible' = [accessible EXCEPT ![f.obj] = Enter(@, ns, os)]
    BY <1>2, <1>3, <2>1, <2>2 DEF Declare
  <2>4. accessible'[f.obj] = Enter(t, ns, os)  BY <1>3, <2>2, <2>3
  <2>5. x \in Names  BY <1>1, <1>6, <2>2, SourceFacts
  <2>6. /\ os \in Seq(Objects) /\ Len(os) = 1 /\ 1 \in 1 .. Len(os) /\ ns[1] = x
    BY <1>2, <2>2
  <2>7. Enter(t, ns, os)[ns[1]] \in Objects  BY <2>5, <2>6, EntersNames
  <2>8. None \notin Objects  BY DEF None, Objects
  <2> QED  BY <2>2, <2>4, <2>6, <2>7, <2>8
<1>9. Len(g.done) = d + 1
  BY <1>2, <1>3, AppendProperties
<1>10. ASSUME NEW j \in 1 .. d + 1, heap'[P[j]].op = "symbol"
       PROVE  accessible'[g.obj][heap'[P[j]].name] # None
  <2>1. CASE j \in 1 .. d
    BY <1>2, <1>4, <1>7, <1>10, <2>1 DEF EntriesMade
  <2>2. CASE j = d + 1
    <3>1. heap'[k] = heap[k]  BY <1>1, <1>6, SourcesKept
    <3> QED  BY <1>6, <1>8, <1>10, <2>2, <3>1
  <2> QED  BY <1>3, <2>1, <2>2
<1>11. d + 1 > Len(e.params) => f.shared
  <2> SUFFICES ASSUME d + 1 > Len(e.params) PROVE f.shared  OBVIOUS
  <2>1. Len(e.params) \in Nat  BY <1>3, ContextParts
  <2>2. CASE d = Len(e.params)  BY <1>2, <1>3, <2>2 DEF CapturesDue
  <2>3. CASE d # Len(e.params)
    <3>1. d > Len(e.params)  BY <1>3, <2>1, <2>3
    <3> QED  BY <1>2, <3>1 DEF EntriesMade
  <2> QED  BY <2>2, <2>3
<1>12. f.shared => \A c \in Elements(e.captures) : accessible'[g.obj][heap'[c].name] # None
  BY <1>4, <1>7 DEF EntriesMade
<1> QED  BY <1>5, <1>9, <1>10, <1>11, <1>12 DEF EntriesMade

LEMMA FinishFills == ASSUME EInv, EInv', Filling, Finish PROVE Filling'
<1>1. TInv /\ TInv' /\ stack # << >>  BY DEF EInv, CInv, Finish, Busy
<1>2. PICK t, o, N, n : t = Top /\ o = Top.obj /\ N = Len(stack) /\ n = N - 1  OBVIOUS
<1>3. /\ t \in Frames /\ N \in Nat \ {0} /\ t = stack[N] /\ Len(Rest) = n /\ N \in 1 .. N
      /\ \A i \in 1 .. N : stack[i] \in Frames
  BY <1>1, <1>2, StackFacts
<1>4. program' = program  BY DEF Finish
<1>5. CASE Rest = << >>
  <2>1. stack' = << >>  BY <1>5 DEF Finish
  <2>2. 1 .. Len(stack') = {}  BY <2>1, EmptySeq
  <2> QED  BY <2>2 DEF Filling
<1>6. CASE Rest # << >>
  <2>1. PICK f, u : f = stack[n] /\ u = stack'  OBVIOUS
  <2>2. /\ n \in Nat \ {0} /\ Len(u) = n /\ Rest[Len(Rest)] = f
        /\ u[n].src = f.src /\ u[n].obj = f.obj /\ u[n].st = f.st
        /\ u[n].done = Append(f.done, o)
        /\ \A i \in 1 .. n - 1 : u[i] = stack[i]
    <3>1. u = [Rest EXCEPT ![Len(Rest)].done = Append(@, Top.obj)]
      BY <1>6, <2>1 DEF Finish
    <3>2. n = Len(stack) - 1 /\ o = Top.obj  BY <1>2
    <3> HIDE <1>2
    <3> QED  BY <1>1, <1>6, <2>1, <3>1, <3>2, HandedBack
  <2>3. u[n].shared = f.shared
    <3>1. u = [Rest EXCEPT ![Len(Rest)].done = Append(@, Top.obj)]
      BY <1>6, <2>1 DEF Finish
    <3>2. Rest \in Seq(Frames) /\ n \in 1 .. n /\ DOMAIN Rest = 1 .. n
      BY <1>1, <1>3, <2>2, StackFacts, LenProperties
    <3>3. u[n] = [f EXCEPT !.done = Append(@, Top.obj)]
      BY <1>3, <2>2, <3>1, <3>2
    <3>4. f \in Frames  BY <1>2, <1>3, <2>1, <2>2
    <3> QED  BY <3>3, <3>4 DEF Frames, Frame
  <2>4. accessible' = Declare(f, o)  BY <1>2, <1>6, <2>2 DEF Finish
  <2>5. n \in 1 .. Len(stack) /\ n < Len(stack) /\ n + 1 = N /\ f \in Frames
    BY <1>2, <1>3, <2>1, <2>2
  <2>6. /\ FrameIs(f) /\ Wants(f) /\ t.src = Wanted(f) /\ ~CapturesDue(f) /\ FillsAt(n)
    BY <1>3, <2>1, <2>5 DEF EInv, FramesLinked, Filling
  <2>7. o \in Objects /\ heap[o].name = heap[Wanted(f)].name
    <3>1. o \in Objects /\ FrameIs(t)  BY <1>1, <1>2, <1>3, FrameFacts, HeapFacts DEF EInv
    <3>2. heap[o].of = t.src  BY <1>2, <3>1 DEF FrameIs
    <3> QED  BY <2>6, <3>1, <3>2 DEF EInv, ObjectIs
  <2>8. TablesGrow
    <3>1. CASE accessible' = accessible  BY <3>1 DEF TablesGrow
    <3>2. CASE accessible' = [accessible EXCEPT ![f.obj] = Enter(@, <<heap[o].name>>, <<o>>)]
      <4>1. PICK ns, os : ns = <<heap[o].name>> /\ os = <<o>>  OBVIOUS
      <4>2. os \in Seq(Objects) /\ None \notin Objects  BY <2>7, <4>1 DEF None, Objects
      <4>3. accessible' = [accessible EXCEPT ![f.obj] = Enter(@, ns, os)]  BY <3>2, <4>1
      <4> QED  BY <4>2, <4>3, EnterGrows
    <3> QED  BY <2>4, <3>1, <3>2 DEF Declare
  <2>9. PICK g : g = u[n]  OBVIOUS
  <2>10. IsContext(g)' => EntriesMade(g)'
    <3> SUFFICES ASSUME IsContext(f) PROVE EntriesMade(g)'
      <4>1. IsContext(f)' = IsContext(f)  BY <1>1, <1>4, <2>5, SourceSame
      <4>2. IsContext(g)' = IsContext(f)'  BY <2>2, <2>9 DEF IsContext, Source
      <4> QED  BY <4>1, <4>2
    <3>1. EntriesMade(f)  BY <2>1, <2>6 DEF FillsAt
    <3>2. /\ g.src = f.src /\ g.obj = f.obj /\ g.shared = f.shared /\ g.done = Append(f.done, o)
      BY <2>2, <2>3, <2>9
    <3> QED  BY <1>1, <1>4, <2>4, <2>5, <2>6, <2>7, <2>8, <3>1, <3>2, DeclareMakes
  <2>11. /\ Len(stack') = n /\ \A i \in 1 .. n - 1 : stack'[i] = stack[i]
         /\ g = stack'[n] /\ g.src = stack[n].src /\ g.st = stack[n].st
    BY <2>1, <2>2, <2>9
  <2> QED  BY <1>4, <2>5, <2>8, <2>10, <2>11, GoesOnFilling
<1> QED  BY <1>5, <1>6

(* A copy is begun, of the function or of what is in a part of it. *)
LEMMA BeginFills ==
  ASSUME EInv, EInv', Filling, program' = program, NEW src \in Body, src \notin Captures,
         NEW st, Begin(stack, src, st),
         \/ stack = << >> /\ heap[src].op = "context"
         \/ stack # << >> /\ Wants(Top) /\ ~CapturesDue(Top) /\ src = Wanted(Top) /\ st = Top.st
  PROVE  Filling'
<1>1. TInv /\ TInv'  BY DEF EInv, CInv
<1>2. PICK N, own, g : /\ N = Len(stack) /\ own = IF heap[src].op = "context" THEN NewObj ELSE st
                       /\ g = Activation(src, NewObj, own)
  OBVIOUS
<1>3. /\ stack' = Append(stack, g)
      /\ accessible' = accessible \/
           accessible' = [c \in DOMAIN accessible \cup {NewObj} |->
                            IF c = NewObj THEN NoNames ELSE accessible[c]]
  BY <1>2 DEF Begin
<1>4. /\ g.src = src /\ g.st = own /\ g.done = << >> /\ ~g.shared
  BY <1>2 DEF Activation
<1>5. /\ N \in Nat /\ Len(stack') = N + 1 /\ stack'[N + 1] = g
      /\ \A i \in 1 .. N : stack'[i] = stack[i] /\ stack[i] \in Frames
  <2>1. stack \in Seq(Frames) /\ N \in Nat  BY <1>1, <1>2, LenProperties DEF TInv
  <2>2. \A i \in 1 .. N : stack[i] \in Frames  BY <1>2, <2>1, ElementOfSeq
  <2>3. stack \in Seq(Frames \cup {g})  BY <2>1, Monotone
  <2>4. /\ Len(Append(stack, g)) = N + 1 /\ Append(stack, g)[N + 1] = g
        /\ \A i \in 1 .. N : Append(stack, g)[i] = stack[i]
    BY <1>2, <2>3, AppendProperties
  <2> QED  BY <1>3, <2>1, <2>2, <2>4
<1>6. TablesGrow
  <2>1. NewObj \notin DOMAIN accessible
    <3>1. \A c \in DOMAIN accessible : c \in Nat /\ c <= Len(heap)
      BY <1>1, HeapFacts DEF TInv, TablesTyped
    <3>2. Len(heap) \in Nat  BY <1>1, HeapFacts
    <3> QED  BY <3>1, <3>2 DEF NewObj
  <2> QED  BY <1>3, <2>1 DEF TablesGrow
<1>7. src \in Originals /\ heap'[src] = heap[src] /\ Body' = Body /\ Captures' = Captures
  BY <1>1, BodyFacts, SourcesKept
<1>8. ASSUME NEW i \in 1 .. N PROVE FillsAt(i)' /\ ~CapturesDue(stack[i])'
  <2>1. \A h \in 1 .. i : stack'[h] = stack[h]
    <3>1. \A h \in 1 .. i : h \in 1 .. N  BY <1>5
    <3> QED  BY <1>5, <3>1
  <2>2. ~CapturesDue(stack[i])
    <3>1. CASE i = N
      <4>1. stack # << >>  BY <1>2, <1>5, <3>1, EmptySeq
      <4> QED  BY <1>1, <1>2, <3>1, <4>1, StackFacts
    <3>2. CASE i # N
      <4>1. i < N  BY <1>5, <3>2
      <4> QED  BY <1>2, <4>1 DEF Filling
    <3> QED  BY <3>1, <3>2
  <2>3. i \in 1 .. Len(stack)  BY <1>2
  <2> QED  BY <1>1, <1>6, <2>1, <2>2, <2>3, FillsStays
<1>9. IsContext(g)' <=> heap[src].op = "context"
  BY <1>4, <1>7 DEF IsContext, Source
<1>10. IsContext(g)' => EntriesMade(g)'
  <2> SUFFICES ASSUME heap[src].op = "context" PROVE EntriesMade(g)'  BY <1>9
  <2>1. Len(g.done) = 0 /\ 1 .. Len(g.done) = {}
    <3>1. Len(<< >>) = 0  BY EmptySeq
    <3> QED  BY <1>4, <3>1
  <2>2. Source(g)' = heap[src]  BY <1>4, <1>7 DEF Source
  <2>3. Len(heap[src].params) \in Nat
    <3>1. heap[src] \in Expr  BY <1>1, <1>7, SourceFacts
    <3> QED  BY <3>1, ContextParts
  <2> QED  BY <1>4, <2>1, <2>2, <2>3 DEF EntriesMade
<1>11. ~IsContext(g)' => \E h \in 1 .. N : WithinFrame(stack[h], g)'
  <2> SUFFICES ASSUME heap[src].op # "context"
               PROVE  \E h \in 1 .. N : WithinFrame(stack[h], g)'
    BY <1>9
  <2>1. /\ stack # << >> /\ Wants(Top) /\ src = Wanted(Top) /\ st = Top.st /\ own = st
    BY <1>2
  <2>2. PICK f : f = Top  OBVIOUS
  <2>3. /\ f \in Frames /\ f = stack[N] /\ N \in 1 .. N /\ FrameIs(f) /\ FillsAt(N)
    BY <1>1, <1>2, <2>1, <2>2, StackFacts DEF EInv, Filling
  <2>4. f.src \in Originals /\ f.src \notin Captures /\ Source(f) = heap[f.src]
    BY <1>1, <2>3, FrameFacts DEF FillsAt, Source
  <2>5. /\ heap[src].in = IF IsContext(f) THEN f.src ELSE heap[f.src].in
        /\ src \in Elements(Parts(heap[f.src]))
    <3>1. src \in Elements(Parts(heap[f.src]))  BY <1>1, <2>1, <2>2, <2>3, <2>4, WantedFacts
    <3> QED  BY <1>1, <2>4, <3>1, ScopeFacts DEF IsContext
  <2>6. CASE IsContext(f)
    <3>1. f.obj = f.st  BY <2>3, <2>6 DEF FrameIs, IsContext
    <3>2. IsContext(f)' /\ Wanted(f)' = Wanted(f)  BY <1>1, <2>3, <2>6, SourceSame
    <3>3. src \in Nat  BY <1>1, <1>7, HeapFacts
    <3>4. WithinFrame(f, g)'
      BY <1>4, <1>7, <2>1, <2>2, <2>5, <2>6, <3>1, <3>2, <3>3 DEF WithinFrame
    <3> QED  BY <1>5, <2>3, <3>4
  <2>7. CASE ~IsContext(f)
    <3>1. PICK h \in 1 .. N - 1 : WithinFrame(stack[h], f)  BY <2>3, <2>7 DEF FillsAt
    <3>2. PICK x : x = stack[h]  OBVIOUS
    <3>3. h \in 1 .. N /\ x \in Frames /\ stack'[h] = x  BY <1>5, <3>2
    <3>4. IsContext(x) /\ x.obj = f.st /\ heap[f.src].in = x.src /\ f.src <= Wanted(x)
      BY <3>1, <3>2 DEF WithinFrame
    <3>5. IsContext(x)' /\ Wanted(x)' = Wanted(x)  BY <1>1, <3>3, <3>4, SourceSame
    <3>6. src < f.src /\ src \in Nat /\ f.src \in Nat
      <4>1. heap[f.src] \in Expr /\ heap[f.src].op # "context"
        BY <1>1, <2>4, <2>7, SourceFacts DEF IsContext
      <4>2. src \in Elements(CalleeOf(heap[f.src])) \cup Elements(heap[f.src].kids)
        BY <2>5, <4>1, UsesFacts
      <4> QED  BY <1>1, <2>4, <4>2, ScopeFacts DEF Uses
    <3>7. Wanted(x) \in Nat
      <4>1. h \in 1 .. Len(stack) /\ h < Len(stack)  BY <1>2, <1>5, <3>1
      <4>2. Wants(x)  BY <3>2, <4>1 DEF EInv, FramesLinked
      <4> QED  BY <1>1, <3>3, <4>2, FrameFacts, HeapFacts
    <3>8. src <= Wanted(x)  BY <3>4, <3>6, <3>7
    <3>9. WithinFrame(x, g)'
      BY <1>4, <1>7, <2>1, <2>2, <2>5, <2>7, <3>4, <3>5, <3>8 DEF WithinFrame
    <3> QED  BY <3>3, <3>9
  <2> QED  BY <2>6, <2>7
<1>12. FillsAt(N + 1)'
  <2>1. PICK m : m = N + 1  OBVIOUS
  <2>2. stack'[m] = g /\ m - 1 = N  BY <1>5, <2>1
  <2>3. ~IsContext(g)' => \E h \in 1 .. m - 1 : WithinFrame(stack[h], g)'  BY <1>11, <2>2
  <2>4. g.src \in Body' /\ g.src \notin Captures'  BY <1>4, <1>7
  <2>5. FillsAt(m)'  BY <1>10, <2>2, <2>3, <2>4 DEF FillsAt
  <2> QED  BY <2>1, <2>5
<1>13. \A i \in 1 .. N + 1 : i = N + 1 \/ i \in 1 .. N  BY <1>5
<1> QED  BY <1>5, <1>8, <1>12, <1>13 DEF Filling

LEMMA StepFills == ASSUME EInv, EInv', GInv, Step PROVE GInv'
<1> SUFFICES ASSUME References' \cap Captures' = {} PROVE Filling' /\ outcome' = "running"
  BY DEF GInv
<1>1. TInv /\ TInv'  BY DEF EInv, CInv
<1>2. program' = program
  BY DEF Step, Instantiate, Descend, Resolve, Unresolved, ShareCaptures, Finish
<1>3. References \cap Captures = {}  BY <1>1, <1>2, SourcesKept
<1>4. Filling /\ outcome = "running"  BY <1>3 DEF GInv
<1>5. CASE Instantiate
  <2>1. stack = << >> /\ Begin(stack, program.fn, None) /\ outcome' = outcome
    BY <1>5 DEF Instantiate
  <2>2. program.fn \in Body /\ program.fn \in Originals  BY <1>1, BodyFacts
  <2>3. heap[program.fn].op = "context"
    <3>1. program.node[program.fn].op = "context"
      BY <1>1, ProgramsAssumption DEF TInv, ProgramOK
    <3> QED  BY <1>1, <2>2, <3>1, SourceFacts
  <2>4. program.fn \notin Captures
    <3>1. \A k \in Captures : \E c \in Originals : k \in Elements(heap[c].captures)
      BY <1>1, SourceFacts DEF Captures
    <3>2. \A k \in Captures : heap[k].op = "symbol"  BY <1>1, <3>1, ScopeFacts
    <3> QED  BY <2>3, <3>2
  <2>5. Filling'  BY <1>2, <1>4, <2>1, <2>2, <2>3, <2>4, BeginFills
  <2> QED  BY <1>4, <2>1, <2>5
<1>6. CASE Descend
  <2>1. /\ stack # << >> /\ Wants(Top) /\ ~CapturesDue(Top) /\ ~ByName(Top)
        /\ Begin(stack, Wanted(Top), Top.st) /\ outcome' = outcome
    BY <1>6 DEF Descend, Busy
  <2>2. Wanted(Top) \in Body /\ Wanted(Top) \notin Captures  BY <1>3, <1>4, <2>1, WantedIn
  <2>3. PICK k, st : k = Wanted(Top) /\ st = Top.st  OBVIOUS
  <2>4. Filling'  BY <1>2, <1>4, <2>1, <2>2, <2>3, BeginFills
  <2> QED  BY <1>4, <2>1, <2>4
<1>7. CASE Resolve  BY <1>4, <1>7, ResolveFills DEF Resolve
<1>8. CASE Unresolved  BY <1>4, <1>8, AlwaysFound DEF Unresolved, Busy
<1>9. CASE ShareCaptures  BY <1>4, <1>9, ShareCapturesFills DEF ShareCaptures
<1>10. CASE Finish  BY <1>4, <1>10, FinishFills DEF Finish
<1> QED  BY <1>5, <1>6, <1>7, <1>8, <1>9, <1>10 DEF Step

LEMMA StopsFill ==
  ASSUME EInv, EInv', GInv, UNCHANGED vars
  PROVE  GInv'
<1>1. /\ program' = program /\ heap' = heap /\ accessible' = accessible /\ stack' = stack
      /\ outcome' = outcome
  BY DEF vars
<1>2. TInv /\ TInv'  BY DEF EInv, CInv
<1> SUFFICES ASSUME References' \cap Captures' = {} PROVE Filling' /\ outcome' = "running"
  BY DEF GInv
<1>3. Filling /\ outcome = "running"  BY <1>1, <1>2, SourcesKept DEF GInv
<1>4. TablesGrow  BY <1>1 DEF TablesGrow
<1>5. ASSUME NEW i \in 1 .. Len(stack)
      PROVE  FillsAt(i)' /\ CapturesDue(stack[i])' = CapturesDue(stack[i])
  BY <1>1, <1>2, <1>3, <1>4, FillsStays
<1> QED  BY <1>1, <1>3, <1>5 DEF Filling

LEMMA TablesInvariant == DumpSpec => []GInv
<1>1. DumpInit => GInv
  <2> SUFFICES ASSUME DumpInit PROVE GInv  OBVIOUS
  <2>1. stack = << >> /\ outcome = "running"  BY DEF DumpInit, Init
  <2>2. 1 .. Len(stack) = {}  BY <2>1, EmptySeq
  <2> QED  BY <2>1, <2>2 DEF GInv, Filling
<1>2. EInv /\ EInv' /\ GInv /\ [DumpNext]_allVars => GInv'
  <2> SUFFICES ASSUME EInv, EInv', GInv, [DumpNext]_allVars PROVE GInv'  OBVIOUS
  <2>1. Step \/ UNCHANGED vars
    BY DEF DumpNext, DumpStep, BeginDump, Dependency, PrintLine, EndDump, Done, allVars, vars
  <2> QED  BY <2>1, StepFills, StopsFill
<1>3. DumpSpec => []EInv  BY ObjectsInvariant
<1> QED  BY <1>1, <1>2, <1>3, PTL DEF DumpSpec

(* deep_clone finds every name it looks up, and nothing throws, unless a    *)
(* capture is returned or renamed.  (functional_expr.cpp 117)               *)
THEOREM NamesAreFound == DumpSpec => []ThrowsBehindCaptures
<1>1. GInv => ThrowsBehindCaptures  BY DEF GInv, ThrowsBehindCaptures
<1> QED  BY <1>1, TablesInvariant, PTL
=============================================================================
