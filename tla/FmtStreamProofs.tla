-------------------------- MODULE FmtStreamProofs --------------------------
(***************************************************************************)
(* Proofs about FmtStream, for any characters, margins and buffer size.    *)
(*                                                                         *)
(* What write makes of a chunk, line by line, is what the printer makes of *)
(* it, character by character.  Both texts are recursive functions of the  *)
(* length, and the lemmas go from each length to the next.                 *)
(***************************************************************************)
EXTENDS FmtStream, SequenceTheorems, WellFoundedInduction, TLAPS

Texts == Seq(Chars \cup Symbols)

(* Induction, for the numbers up to n that are in a set. *)
LEMMA UpTo ==
  ASSUME NEW S, NEW n \in Nat, 0 \in S, \A i \in 1 .. n : i - 1 \in S => i \in S
  PROVE  \A i \in 0 .. n : i \in S
<1> DEFINE T == {i \in 0 .. n : i \notin S}
<1>1. SUFFICES ASSUME T # {} PROVE FALSE  OBVIOUS
<1>2. T \subseteq Nat  OBVIOUS
<1>3. PICK x \in T : \A y \in T : ~ (<<y, x>> \in OpToRel(<, Nat))
  <2> HIDE DEF T
  <2> QED  BY <1>1, <1>2, NatLessThanWellFounded, WFMin
<1>4. x # 0 /\ x \in 1 .. n /\ x - 1 \in 0 .. n  OBVIOUS
<1>5. <<x - 1, x>> \in OpToRel(<, Nat)  BY <1>4 DEF OpToRel
<1>6. x - 1 \in S  BY <1>3, <1>4, <1>5
<1> QED  BY <1>4, <1>6

(* The last line end before a character is the one just before it, or that  *)
(* of the character before.                                                 *)
LEMMA LastBegFacts ==
  ASSUME NEW s, NEW n \in Nat
  PROVE  \A i \in 1 .. n :
           /\ LastBeg(s, i) \in 0 .. i - 1
           /\ i = 1 => LastBeg(s, i) = 0
           /\ i > 1 => LastBeg(s, i) = IF s[i - 1] = delim THEN i - 1 ELSE LastBeg(s, i - 1)
<1> DEFINE E(i) == {0} \cup {j \in 1 .. i - 1 : s[j] = delim}
           M(i) == CHOOSE x \in E(i) : \A y \in E(i) : x >= y
           Has(i) == \E x \in E(i) : \A y \in E(i) : x >= y
           S == {i \in Nat : i > 0 => Has(i)}
<1>1. \A i \in Nat : LastBeg(s, i) = M(i)  BY DEF LastBeg, Max
<1>2. \A i \in Nat : i > 1 /\ s[i - 1] # delim => E(i) = E(i - 1)  OBVIOUS
<1>3. \A i \in Nat : i > 1 /\ s[i - 1] = delim =>
        i - 1 \in E(i) /\ \A y \in E(i) : y <= i - 1 /\ (y >= i - 1 => y = i - 1)
  OBVIOUS
<1>4. \A i \in 0 .. n : i \in S
  <2>1. 0 \in S  OBVIOUS
  <2>2. ASSUME NEW i \in 1 .. n, i - 1 \in S PROVE i \in S
    <3>1. CASE i = 1
      <4>1. E(1) = {0}  OBVIOUS
      <4> QED  BY <3>1, <4>1
    <3>2. CASE i > 1 /\ s[i - 1] = delim
      <4>1. i - 1 \in E(i) /\ \A y \in E(i) : i - 1 >= y  BY <3>2, <1>3
      <4> QED  BY <4>1
    <3>3. CASE i > 1 /\ s[i - 1] # delim  BY <3>3, <1>2, <2>2
    <3> QED  BY <3>1, <3>2, <3>3
  <2> HIDE DEF S
  <2> QED  BY <2>1, <2>2, UpTo
<1>5. ASSUME NEW i \in 1 .. n
      PROVE  M(i) \in E(i) /\ \A y \in E(i) : M(i) >= y
  <2>1. Has(i)  BY <1>4
  <2> QED  BY <2>1
<1>6. ASSUME NEW i \in 1 .. n
      PROVE  /\ LastBeg(s, i) \in 0 .. i - 1
             /\ i = 1 => LastBeg(s, i) = 0
             /\ i > 1 => LastBeg(s, i) = IF s[i - 1] = delim THEN i - 1 ELSE LastBeg(s, i - 1)
  <2>1. LastBeg(s, i) = M(i) /\ LastBeg(s, i - 1) = M(i - 1)
    <3>1. i \in Nat /\ i - 1 \in Nat  OBVIOUS
    <3> QED  BY <1>1, <3>1
  <2>2. M(i) \in E(i) /\ \A y \in E(i) : M(i) >= y  BY <1>5
  <2>3. E(i) \subseteq 0 .. i - 1  OBVIOUS
  <2>4. ASSUME i > 1, s[i - 1] = delim PROVE M(i) = i - 1
    <3> HIDE DEF M
    <3> QED  BY <2>2, <2>4, <1>3
  <2>5. ASSUME i > 1, s[i - 1] # delim PROVE M(i) = M(i - 1)
    <3>1. E(i) = E(i - 1)  BY <2>5, <1>2
    <3> QED  BY <3>1
  <2> HIDE DEF M, E
  <2> QED  BY <2>1, <2>2, <2>3, <2>4, <2>5
<1> QED  BY <1>6
-----------------------------------------------------------------------------
(* The recursive definitions have the values that their equations say.      *)
LineOf(g, s, i) ==
  IF i = 0 THEN << >>
  ELSE g[LastBeg(s, i)] \o (IF LastBeg(s, i) > 0 THEN WriteIndent ELSE << >>)
         \o SubSeq(s, LastBeg(s, i) + 1, i)

LEMMA LinesDefined ==
  ASSUME NEW s, Len(s) \in Nat
  PROVE  Lines(s) = [i \in 0 .. Len(s) |-> LineOf(Lines(s), s, i)]
<1> DEFINE n == Len(s)
           S == {m \in Nat : \E g : g = [i \in 0 .. m |-> LineOf(g, s, i)]}
<1>1. \A i \in 1 .. n : LastBeg(s, i) \in 0 .. i - 1  BY LastBegFacts
<1>2. \A i \in 0 .. n : i \in S
  <2>1. 0 \in S
    <3> DEFINE g == [i \in 0 .. 0 |-> << >>]
    <3>1. g = [i \in 0 .. 0 |-> LineOf(g, s, i)]  BY DEF LineOf
    <3> QED  BY <3>1
  <2>2. ASSUME NEW m \in 1 .. n, m - 1 \in S PROVE m \in S
    <3>1. PICK g : g = [i \in 0 .. m - 1 |-> LineOf(g, s, i)]  BY <2>2
    <3> DEFINE h == [i \in 0 .. m |-> IF i = m THEN LineOf(g, s, m) ELSE g[i]]
    <3>2. \A i \in 0 .. m : i > 0 => LastBeg(s, i) \in 0 .. m - 1  BY <1>1
    <3>3. \A i \in 0 .. m - 1 : h[i] = g[i]  OBVIOUS
    <3>4. \A i \in 0 .. m : LineOf(h, s, i) = LineOf(g, s, i)
      <4> HIDE DEF h
      <4> QED  BY <3>2, <3>3 DEF LineOf
    <3>5. \A i \in 0 .. m : h[i] = LineOf(g, s, i)  BY <3>1
    <3>6. h = [i \in 0 .. m |-> LineOf(h, s, i)]
      <4>1. h = [i \in 0 .. m |-> h[i]]  OBVIOUS
      <4> HIDE DEF h
      <4> QED  BY <3>4, <3>5, <4>1
    <3> HIDE DEF h
    <3> QED  BY <3>6
  <2> HIDE DEF S
  <2> QED  BY <2>1, <2>2, UpTo
<1>3. \E g : g = [i \in 0 .. n |-> LineOf(g, s, i)]  BY <1>2
<1>4. Lines(s) = CHOOSE g : g = [i \in 0 .. n |-> LineOf(g, s, i)]  BY DEF Lines, LineOf
<1> HIDE DEF n
<1>5. Lines(s) = [i \in 0 .. n |-> LineOf(Lines(s), s, i)]  BY <1>3, <1>4
<1> QED  BY <1>5 DEF n

(* One character more. *)
ShownOf(g, s, fresh, margin, d, i) ==
  IF i = 0 THEN << >>
  ELSE g[i - 1] \o (IF IF i = 1 THEN fresh ELSE s[i - 1] = d THEN margin ELSE << >>) \o <<s[i]>>

Shows(g, s, fresh, margin, d) ==
  \A i \in 0 .. Len(s) : g[i] = ShownOf(g, s, fresh, margin, d, i)

LEMMA ShownDefined ==
  ASSUME NEW s, Len(s) \in Nat, NEW fresh, NEW margin, NEW d
  PROVE  \E g : Shows(g, s, fresh, margin, d) /\ Shown(s, fresh, margin, d) = g[Len(s)]
<1> DEFINE n == Len(s)
           Of(g, i) == ShownOf(g, s, fresh, margin, d, i)
           S == {m \in Nat : \E g : g = [i \in 0 .. m |-> Of(g, i)]}
<1>1. \A i \in 0 .. n : i \in S
  <2>1. 0 \in S
    <3> DEFINE g == [i \in 0 .. 0 |-> << >>]
    <3>1. g = [i \in 0 .. 0 |-> Of(g, i)]  BY DEF ShownOf
    <3> QED  BY <3>1
  <2>2. ASSUME NEW m \in 1 .. n, m - 1 \in S PROVE m \in S
    <3>1. PICK g : g = [i \in 0 .. m - 1 |-> Of(g, i)]  BY <2>2
    <3> DEFINE h == [i \in 0 .. m |-> IF i = m THEN Of(g, m) ELSE g[i]]
    <3>2. \A i \in 0 .. m - 1 : h[i] = g[i]  OBVIOUS
    <3>3. \A i \in 0 .. m : Of(h, i) = Of(g, i)
      <4>1. \A i \in 0 .. m : i # 0 => i - 1 \in 0 .. m - 1  OBVIOUS
      <4> HIDE DEF h
      <4> QED  BY <3>2, <4>1 DEF ShownOf
    <3>4. \A i \in 0 .. m : h[i] = Of(g, i)  BY <3>1
    <3>5. h = [i \in 0 .. m |-> Of(h, i)]
      <4>1. h = [i \in 0 .. m |-> h[i]]  OBVIOUS
      <4> HIDE DEF h, Of
      <4> QED  BY <3>3, <3>4, <4>1
    <3> HIDE DEF h
    <3> QED  BY <3>5
  <2> HIDE DEF S
  <2> QED  BY <2>1, <2>2, UpTo
<1> DEFINE G == CHOOSE g : g = [i \in 0 .. n |-> Of(g, i)]
<1>2. \E g : g = [i \in 0 .. n |-> Of(g, i)]  BY <1>1
<1>3. Shown(s, fresh, margin, d) = G[n]  BY DEF Shown, ShownOf
<1>4. G = [i \in 0 .. n |-> Of(G, i)]
  <2> HIDE DEF Of, n
  <2> QED  BY <1>2
<1> HIDE DEF G
<1>5. \A i \in 0 .. n : G[i] = Of(G, i)
  <2> HIDE DEF Of
  <2> QED  BY <1>4
<1> QED  BY <1>3, <1>5 DEF Shows

-----------------------------------------------------------------------------
LEMMA OneCharacter ==
  ASSUME NEW S, NEW s \in Seq(S), NEW i \in 1 .. Len(s)
  PROVE  SubSeq(s, i, i) = <<s[i]>> /\ <<s[i]>> \in Seq(S)
<1>1. \A k \in i .. i : s[k] \in S  BY ElementOfSeq
<1>2. i \in Int  BY LenProperties
<1> DEFINE one == <<s[i]>>
<1>3. /\ SubSeq(s, i, i) \in Seq(S) /\ Len(SubSeq(s, i, i)) = 1
      /\ SubSeq(s, i, i)[1] = s[i]
  <2>1. /\ SubSeq(s, i, i) \in Seq(S)
        /\ Len(SubSeq(s, i, i)) = IF i <= i THEN i - i + 1 ELSE 0
        /\ \A k \in 1 .. i - i + 1 : SubSeq(s, i, i)[k] = s[i + k - 1]
    BY <1>1, <1>2, SubSeqProperties
  <2> QED  BY <2>1, <1>2
<1>4. one \in Seq(S) /\ Len(one) = 1 /\ one[1] = s[i]  BY <1>1, <1>2
<1>5. \A k \in 1 .. 1 : k = 1  OBVIOUS
<1> DEFINE sub == SubSeq(s, i, i)
<1>6. sub \in Seq(S) /\ Len(sub) = 1 /\ sub[1] = s[i]  BY <1>3
<1> HIDE DEF one, sub
<1>7. sub = one
  <2>1. \A k \in 1 .. Len(sub) : sub[k] = one[k]  BY <1>4, <1>5, <1>6
  <2> QED  BY <2>1, <1>4, <1>6, SeqEqual
<1> QED  BY <1>4, <1>7 DEF one, sub

(* What a chunk has become after a character is what it had become after    *)
(* the one before it, a margin if that ended a line, and the character.     *)
LEMMA LinesGrow ==
  ASSUME NEW s \in Seq(Chars), WriteIndent \in Texts
  PROVE  /\ \A i \in 0 .. Len(s) : Lines(s)[i] \in Texts
         /\ Lines(s)[0] = << >>
         /\ \A i \in 1 .. Len(s) :
              Lines(s)[i] = IF i = 1 THEN <<s[1]>>
                            ELSE Lines(s)[i - 1] \o (IF s[i - 1] = delim THEN WriteIndent ELSE << >>)
                                   \o <<s[i]>>
<1> DEFINE n == Len(s)
           T == Chars \cup Symbols
           L(i) == Lines(s)[i]
           M(i) == IF LastBeg(s, i) > 0 THEN WriteIndent ELSE << >>
           Line(i) == SubSeq(s, LastBeg(s, i) + 1, i)
<1>1. n \in Nat /\ \A i \in 1 .. n : s[i] \in T  BY LenProperties, ElementOfSeq
<1>2. L(0) = << >> /\ \A i \in 1 .. n : L(i) = L(LastBeg(s, i)) \o M(i) \o Line(i)
  <2>1. \A i \in 0 .. n : Lines(s)[i] = LineOf(Lines(s), s, i)
    <3> DEFINE F == Lines(s)
               E(i) == LineOf(F, s, i)
    <3>1. F = [i \in 0 .. n |-> E(i)]  BY <1>1, LinesDefined
    <3> HIDE DEF E
    <3>2. \A i \in 0 .. n : [j \in 0 .. n |-> E(j)][i] = E(i)  OBVIOUS
    <3>3. \A i \in 0 .. n : F[i] = E(i)  BY <3>1, <3>2
    <3> QED  BY <3>3 DEF E
  <2>2. 0 \in 0 .. n /\ \A i \in 1 .. n : i \in 0 .. n /\ i # 0  BY <1>1
  <2>3. Lines(s)[0] = << >>  BY <2>1, <2>2 DEF LineOf
  <2>4. ASSUME NEW i \in 1 .. n PROVE L(i) = L(LastBeg(s, i)) \o M(i) \o Line(i)
    <3>1. Lines(s)[i] = LineOf(Lines(s), s, i) /\ i # 0  BY <2>1, <2>2
    <3> QED  BY <3>1 DEF LineOf
  <2> QED  BY <2>3, <2>4
<1>3. \A i \in 1 .. n :
        /\ LastBeg(s, i) \in 0 .. i - 1
        /\ i = 1 => LastBeg(s, i) = 0
        /\ i > 1 => LastBeg(s, i) = IF s[i - 1] = delim THEN i - 1 ELSE LastBeg(s, i - 1)
  BY <1>1, LastBegFacts
<1>4. << >> \in Seq(T) /\ \A i \in 1 .. n : M(i) \in Seq(T)  BY EmptySeq DEF Texts
<1>5. ASSUME NEW b \in 0 .. n, NEW i \in 0 .. n PROVE SubSeq(s, b + 1, i) \in Seq(T)
  <2>1. b + 1 \in Int /\ i \in Int /\ \A k \in b + 1 .. i : s[k] \in T  BY <1>1
  <2> QED  BY <2>1, SubSeqProperties
<1>6. \A i \in 1 .. n : Line(i) \in Seq(T)
  <2> SUFFICES ASSUME NEW i \in 1 .. n PROVE Line(i) \in Seq(T)  OBVIOUS
  <2>1. LastBeg(s, i) \in 0 .. n /\ i \in 0 .. n  BY <1>1, <1>3
  <2> QED  BY <2>1, <1>5
<1>7. \A i \in 0 .. n : L(i) \in Seq(T)
  <2> DEFINE S == {m \in Nat : \A i \in 0 .. m : L(i) \in Seq(T)}
  <2>1. 0 \in S
    <3>1. \A i \in 0 .. 0 : i = 0  OBVIOUS
    <3> HIDE DEF L, T
    <3> QED  BY <3>1, <1>2, <1>4
  <2>2. ASSUME NEW m \in 1 .. n, m - 1 \in S PROVE m \in S
    <3>1. LastBeg(s, m) \in 0 .. m - 1  BY <1>3
    <3>2. L(LastBeg(s, m)) \in Seq(T)  BY <2>2, <3>1
    <3>3. M(m) \in Seq(T) /\ Line(m) \in Seq(T)  BY <1>4, <1>6
    <3> HIDE DEF L, M, Line, T
    <3>4. L(m) \in Seq(T)
      <4>1. L(LastBeg(s, m)) \o M(m) \in Seq(T)  BY <3>2, <3>3, ConcatProperties
      <4>2. L(LastBeg(s, m)) \o M(m) \o Line(m) \in Seq(T)  BY <3>3, <4>1, ConcatProperties
      <4> QED  BY <4>2, <1>2
    <3>5. \A i \in 0 .. m : i = m \/ i \in 0 .. m - 1  OBVIOUS
    <3> QED  BY <2>2, <3>4, <3>5
  <2>3. \A m \in 0 .. n : m \in S
    <3> HIDE DEF S
    <3> QED  BY <2>1, <2>2, <1>1, UpTo
  <2>4. \A m \in 0 .. n : m \in 0 .. m  OBVIOUS
  <2> HIDE DEF L, T
  <2> QED  BY <2>3, <2>4
<1>8. ASSUME NEW i \in 1 .. n
      PROVE  L(i) = IF i = 1 THEN <<s[1]>>
                    ELSE L(i - 1) \o (IF s[i - 1] = delim THEN WriteIndent ELSE << >>) \o <<s[i]>>
  <2>1. s \in Seq(T)  BY <1>1, SeqMonotonic
  <2>2. SubSeq(s, i, i) = <<s[i]>> /\ <<s[i]>> \in Seq(T)  BY <2>1, OneCharacter
  <2>3. CASE i = 1
    <3>1. LastBeg(s, 1) = 0  BY <2>3, <1>3
    <3>2. M(1) = << >> /\ Line(1) = SubSeq(s, 1, 1) /\ L(LastBeg(s, 1)) = << >>
      <4>1. M(1) = << >> /\ LastBeg(s, 1) + 1 = 1  BY <3>1
      <4>2. L(LastBeg(s, 1)) = << >>
        <5> HIDE DEF L
        <5> QED  BY <3>1, <1>2
      <4> HIDE DEF L, M
      <4> QED  BY <4>1, <4>2
    <3>3. L(1) = L(LastBeg(s, 1)) \o M(1) \o Line(1)  BY <2>3, <1>2
    <3>4. << >> \o << >> = << >> /\ << >> \o <<s[1]>> = <<s[1]>>
      BY <2>2, <2>3, <1>4, ConcatEmptySeq
    <3> HIDE DEF L, M, Line
    <3> QED  BY <3>2, <3>3, <3>4, <2>2, <2>3
  <2>4. CASE i > 1 /\ s[i - 1] = delim
    <3>1. LastBeg(s, i) = i - 1 /\ i - 1 > 0 /\ i - 1 + 1 = i  BY <2>4, <1>3
    <3>2. M(i) = WriteIndent /\ Line(i) = SubSeq(s, i, i)  BY <3>1
    <3> HIDE DEF L, M, Line
    <3>3. L(i) = L(i - 1) \o WriteIndent \o <<s[i]>>  BY <3>1, <3>2, <2>2, <1>2
    <3> QED  BY <3>3, <2>4
  <2>5. CASE i > 1 /\ s[i - 1] # delim
    <3> DEFINE b == LastBeg(s, i)
               X == L(b) \o M(i)
    <3>1. i - 1 \in 1 .. n /\ i - 1 \in 0 .. n  BY <2>5
    <3>2. b = LastBeg(s, i - 1) /\ b \in 0 .. i - 2 /\ b \in 0 .. n /\ M(i) = M(i - 1)
      BY <2>5, <3>1, <1>3
    <3>3. L(i) = X \o SubSeq(s, b + 1, i) /\ L(i - 1) = X \o SubSeq(s, b + 1, i - 1)
      <4>1. Line(i - 1) = SubSeq(s, b + 1, i - 1)  BY <3>2
      <4> HIDE DEF b, L, M
      <4>2. L(i - 1) = L(b) \o M(i) \o Line(i - 1)  BY <3>1, <3>2, <1>2
      <4>3. L(i) = L(b) \o M(i) \o SubSeq(s, b + 1, i)  BY <1>2 DEF b
      <4> QED  BY <4>1, <4>2, <4>3
    <3>4. SubSeq(s, b + 1, i) = SubSeq(s, b + 1, i - 1) \o <<s[i]>>
      <4> HIDE DEF b
      <4>1. b + 1 \in 1 .. i - 1 /\ i - 1 \in 1 .. n - 1 /\ i - 1 + 1 = i  BY <3>1, <3>2, <1>1
      <4>2. SubSeq(s, b + 1, i - 1) \o SubSeq(s, i - 1 + 1, i) = SubSeq(s, b + 1, i)
        BY <4>1, <2>1, <1>1, ConcatAdjacentSubSeq
      <4> QED  BY <4>1, <4>2, <2>2
    <3>5. X \in Seq(T) /\ SubSeq(s, b + 1, i - 1) \in Seq(T)
      <4>1. L(b) \in Seq(T) /\ M(i) \in Seq(T)  BY <3>2, <1>4, <1>7
      <4>2. SubSeq(s, b + 1, i - 1) \in Seq(T)  BY <3>1, <3>2, <1>5
      <4> QED  BY <4>1, <4>2, ConcatProperties
    <3> HIDE DEF X, b, L, T
    <3> DEFINE Y == SubSeq(s, b + 1, i - 1)
    <3>6. L(i) = L(i - 1) \o <<s[i]>>
      <4> HIDE DEF Y
      <4>1. L(i - 1) = X \o Y /\ L(i) = X \o (Y \o <<s[i]>>)  BY <3>3, <3>4 DEF Y
      <4>2. PICK one : one = <<s[i]>>  OBVIOUS
      <4>3. X \in Seq(T) /\ Y \in Seq(T) /\ one \in Seq(T)  BY <3>5, <2>2, <4>2 DEF Y
      <4>4. (X \o Y) \o one = X \o (Y \o one)  BY ONLY <4>3, ConcatAssociative
      <4> QED  BY <4>1, <4>2, <4>4
    <3>7. L(i - 1) \o << >> = L(i - 1)  BY <3>1, <1>7, ConcatEmptySeq
    <3> QED  BY <3>6, <3>7, <2>5
  <2> QED  BY <2>3, <2>4, <2>5
<1> HIDE DEF L
<1>9. /\ \A i \in 0 .. n : L(i) \in Texts
      /\ L(0) = << >>
      /\ \A i \in 1 .. n :
           L(i) = IF i = 1 THEN <<s[1]>>
                  ELSE L(i - 1) \o (IF s[i - 1] = delim THEN WriteIndent ELSE << >>) \o <<s[i]>>
  BY <1>2, <1>7, <1>8 DEF Texts
<1> QED  BY <1>9 DEF L

(* The same of the printer's text, with types, and when a character is put. *)
LEMMA ShowsTexts ==
  ASSUME NEW s \in Seq(Chars), NEW fresh, NEW margin \in Texts, NEW d, NEW g,
         Shows(g, s, fresh, margin, d)
  PROVE  /\ \A i \in 0 .. Len(s) : g[i] \in Texts
         /\ \A i \in 1 .. Len(s) : g[i] # << >> /\ g[i][Len(g[i])] \in Chars
<1> DEFINE n == Len(s)
           T == Chars \cup Symbols
           M(i) == IF IF i = 1 THEN fresh ELSE s[i - 1] = d THEN margin ELSE << >>
<1>1. n \in Nat /\ s \in Seq(T) /\ \A i \in 1 .. n : s[i] \in Chars /\ <<s[i]>> \in Seq(T)
  <2>1. s \in Seq(T)  BY SeqMonotonic
  <2> QED  BY <2>1, LenProperties, ElementOfSeq
<1>2. g[0] = << >> /\ \A i \in 1 .. n : g[i] = g[i - 1] \o M(i) \o <<s[i]>>
  <2>1. 0 \in 0 .. n /\ \A i \in 1 .. n : i \in 0 .. n /\ i # 0  BY <1>1
  <2>2. ASSUME NEW i \in 1 .. n PROVE g[i] = g[i - 1] \o M(i) \o <<s[i]>>
    <3>1. g[i] = ShownOf(g, s, fresh, margin, d, i)  BY <2>1 DEF Shows
    <3> QED  BY <3>1, <2>1 DEF ShownOf
  <2>3. g[0] = << >>  BY <2>1 DEF Shows, ShownOf
  <2> QED  BY <2>2, <2>3
<1>3. << >> \in Seq(T) /\ \A i \in 1 .. n : M(i) \in Seq(T)  BY EmptySeq DEF Texts
<1>4. ASSUME NEW i \in 1 .. n, g[i - 1] \in Seq(T)
      PROVE  g[i] \in Seq(T) /\ g[i] # << >> /\ g[i][Len(g[i])] = s[i]
  <2> DEFINE X == g[i - 1] \o M(i)
             one == <<s[i]>>
  <2>1. X \in Seq(T)  BY <1>3, <1>4, ConcatProperties
  <2>2. one \in Seq(T) /\ Len(one) = 1 /\ one[1] = s[i]  BY <1>1
  <2>3. g[i] = X \o one  BY <1>2
  <2> HIDE DEF X, one
  <2>4. /\ X \o one \in Seq(T) /\ Len(X \o one) = Len(X) + Len(one)
        /\ \A k \in 1 .. Len(X) + Len(one) :
             (X \o one)[k] = IF k <= Len(X) THEN X[k] ELSE one[k - Len(X)]
    BY <2>1, <2>2, ConcatProperties
  <2>5. Len(X) \in Nat  BY <2>1, LenProperties
  <2>6. Len(X) + 1 \in 1 .. Len(X) + Len(one) /\ Len(X) + 1 - Len(X) = 1  BY <2>2, <2>5
  <2>7. (X \o one)[Len(X) + 1] = one[1]  BY <2>4, <2>5, <2>6
  <2>8. X \o one # << >>  BY <2>2, <2>4, <2>5, EmptySeq
  <2> QED  BY <2>2, <2>3, <2>4, <2>7, <2>8
<1>5. \A i \in 0 .. n : g[i] \in Seq(T)
  <2> DEFINE S == {i \in Nat : g[i] \in Seq(T)}
  <2>1. 0 \in S  BY <1>2, <1>3
  <2>2. \A i \in 1 .. n : i - 1 \in S => i \in S  BY <1>4
  <2>3. \A i \in 0 .. n : i \in S
    <3> HIDE DEF S
    <3> QED  BY <2>1, <2>2, <1>1, UpTo
  <2> QED  BY <2>3
<1>6. \A i \in 1 .. n : g[i] # << >> /\ g[i][Len(g[i])] \in Chars
  <2>1. \A i \in 1 .. n : i - 1 \in 0 .. n  BY <1>1
  <2> QED  BY <2>1, <1>1, <1>4, <1>5
<1> QED  BY <1>5, <1>6 DEF Texts

LEMMA ShownText ==
  ASSUME NEW s \in Seq(Chars), NEW fresh, NEW margin \in Texts, NEW d
  PROVE  LET t == Shown(s, fresh, margin, d) IN
         /\ t \in Texts
         /\ s = << >> => t = << >>
         /\ s # << >> => t # << >> /\ t[Len(t)] \in Chars
<1>1. Len(s) \in Nat /\ (s = << >> <=> Len(s) = 0)  BY LenProperties, EmptySeq
<1>2. PICK g : Shows(g, s, fresh, margin, d) /\ Shown(s, fresh, margin, d) = g[Len(s)]
  BY <1>1, ShownDefined
<1>3. /\ \A i \in 0 .. Len(s) : g[i] \in Texts
      /\ \A i \in 1 .. Len(s) : g[i] # << >> /\ g[i][Len(g[i])] \in Chars
  BY <1>2, ShowsTexts
<1>4. g[0] = << >>
  <2>1. 0 \in 0 .. Len(s)  BY <1>1
  <2>2. g[0] = ShownOf(g, s, fresh, margin, d, 0)  BY <2>1, <1>2 DEF Shows
  <2> QED  BY <2>2 DEF ShownOf
<1> QED  BY <1>1, <1>2, <1>3, <1>4

LEMMA ShownGrows ==
  ASSUME NEW s \in Seq(Chars), NEW c \in Chars, NEW fresh, NEW margin, NEW d
  PROVE  Shown(Append(s, c), fresh, margin, d) =
           Shown(s, fresh, margin, d)
             \o (IF IF s = << >> THEN fresh ELSE s[Len(s)] = d THEN margin ELSE << >>) \o <<c>>
<1> DEFINE n == Len(s)
           a == Append(s, c)
<1>1. /\ n \in Nat /\ Len(a) = n + 1 /\ (s = << >> <=> n = 0)
      /\ \A i \in 1 .. n : a[i] = s[i]
      /\ a[n + 1] = c
  BY LenProperties, EmptySeq, AppendProperties
<1> HIDE DEF n, a
<1>2. PICK g : Shows(g, a, fresh, margin, d) /\ Shown(a, fresh, margin, d) = g[n + 1]
  <2>1. Len(a) \in Nat  BY <1>1
  <2> QED  BY <1>1, <2>1, ShownDefined
<1>3. PICK h : Shows(h, s, fresh, margin, d) /\ Shown(s, fresh, margin, d) = h[n]
  BY <1>1, ShownDefined DEF n
<1>4. \A i \in 0 .. n + 1 : g[i] = ShownOf(g, a, fresh, margin, d, i)  BY <1>1, <1>2 DEF Shows
<1>5. \A i \in 0 .. n : h[i] = ShownOf(h, s, fresh, margin, d, i)  BY <1>3 DEF Shows, n
<1>6. \A i \in 0 .. n : g[i] = h[i]
  <2> DEFINE S == {i \in Nat : g[i] = h[i]}
  <2>1. 0 \in S
    <3>1. 0 \in 0 .. n /\ 0 \in 0 .. n + 1  BY <1>1
    <3>2. g[0] = << >> /\ h[0] = << >>  BY <3>1, <1>4, <1>5 DEF ShownOf
    <3> QED  BY <3>2
  <2>2. ASSUME NEW i \in 1 .. n, i - 1 \in S PROVE i \in S
    <3>1. i \in 0 .. n /\ i \in 0 .. n + 1 /\ i # 0 /\ i \in Nat /\ (i # 1 => i - 1 \in 1 .. n)
      BY <1>1
    <3>2. a[i] = s[i] /\ (i # 1 => a[i - 1] = s[i - 1])  BY <3>1, <1>1
    <3>3. g[i - 1] = h[i - 1]  BY <2>2
    <3>4. ShownOf(g, a, fresh, margin, d, i) = ShownOf(h, s, fresh, margin, d, i)
      BY <3>1, <3>2, <3>3 DEF ShownOf
    <3> QED  BY <3>1, <3>4, <1>4, <1>5
  <2>3. \A i \in 0 .. n : i \in S
    <3> HIDE DEF S
    <3> QED  BY <2>1, <2>2, <1>1, UpTo
  <2> QED  BY <2>3
<1>7. g[n + 1] = g[n] \o (IF IF n + 1 = 1 THEN fresh ELSE a[n] = d THEN margin ELSE << >>) \o <<c>>
  <2>1. ASSUME NEW k, k = n + 1
        PROVE  g[k] = g[n] \o (IF IF k = 1 THEN fresh ELSE a[n] = d THEN margin ELSE << >>) \o <<c>>
    <3>1. k \in 0 .. n + 1 /\ k # 0 /\ k - 1 = n /\ a[k] = c  BY <2>1, <1>1
    <3>2. g[k] = ShownOf(g, a, fresh, margin, d, k)  BY <3>1, <1>4
    <3> HIDE <2>1
    <3> QED  BY <3>1, <3>2 DEF ShownOf
  <2> QED  BY <2>1
<1>8. g[n] = h[n] /\ (n + 1 = 1 <=> s = << >>) /\ (s # << >> => a[n] = s[n])
  BY <1>1, <1>6
<1>9. g[n + 1] = h[n] \o (IF IF s = << >> THEN fresh ELSE s[n] = d THEN margin ELSE << >>) \o <<c>>
  BY <1>7, <1>8
<1> QED  BY <1>2, <1>3, <1>9 DEF n, a

LEMMA ShownOne ==
  ASSUME NEW c \in Chars, NEW fresh, NEW margin \in Texts, NEW d
  PROVE  Shown(<<c>>, fresh, margin, d) = (IF fresh THEN margin ELSE << >>) \o <<c>>
<1> DEFINE e == << >>
           m == IF fresh THEN margin ELSE << >>
<1>1. e \in Seq(Chars) /\ Append(e, c) = <<c>> /\ << >> \in Texts  BY EmptySeq DEF Texts
<1>2. Shown(e, fresh, margin, d) = << >>
  <2> HIDE DEF e
  <2>1. e = << >> => Shown(e, fresh, margin, d) = << >>  BY <1>1, ShownText
  <2> QED  BY <2>1 DEF e
<1>3. Shown(Append(e, c), fresh, margin, d) =
        Shown(e, fresh, margin, d)
          \o (IF IF e = << >> THEN fresh ELSE e[Len(e)] = d THEN margin ELSE << >>) \o <<c>>
  <2> HIDE DEF e
  <2>1. e \in Seq(Chars)  BY <1>1
  <2> QED  BY <2>1, ShownGrows
<1>4. Shown(<<c>>, fresh, margin, d) = << >> \o m \o <<c>>  BY <1>1, <1>2, <1>3
<1>5. << >> \o m = m
  <2>1. m \in Texts  BY <1>1
  <2> HIDE DEF m
  <2> QED  BY <2>1, ConcatEmptySeq DEF Texts
<1> QED  BY <1>4, <1>5

(* A chunk is written as the printer would show it. *)
LEMMA WrittenIsShown ==
  ASSUME NEW s \in Seq(Chars), s # << >>, WriteIndent \in Texts
  PROVE  Written(s) = Shown(s, state = "NeedIndent", WriteIndent, delim)
<1> DEFINE n == Len(s)
           T == Chars \cup Symbols
           fresh == state = "NeedIndent"
           I == IF fresh THEN WriteIndent ELSE << >>
           L(i) == Lines(s)[i]
           M(i) == IF IF i = 1 THEN fresh ELSE s[i - 1] = delim THEN WriteIndent ELSE << >>
<1>1. n \in Nat \ {0} /\ \A i \in 1 .. n : <<s[i]>> \in Seq(T)
  <2>1. s \in Seq(T)  BY SeqMonotonic
  <2> QED  BY <2>1, LenProperties, EmptySeq, ElementOfSeq
<1>2. PICK g : Shows(g, s, fresh, WriteIndent, delim) /\ Shown(s, fresh, WriteIndent, delim) = g[n]
  BY <1>1, ShownDefined
<1>3. g[0] = << >> /\ \A i \in 1 .. n : g[i] = g[i - 1] \o M(i) \o <<s[i]>>
  <2>1. 0 \in 0 .. n /\ \A i \in 1 .. n : i \in 0 .. n /\ i # 0  BY <1>1
  <2>2. \A i \in 0 .. n : g[i] = ShownOf(g, s, fresh, WriteIndent, delim, i)  BY <1>2 DEF Shows
  <2> HIDE DEF fresh
  <2>3. ASSUME NEW i \in 1 .. n PROVE g[i] = g[i - 1] \o M(i) \o <<s[i]>>
    <3>1. g[i] = ShownOf(g, s, fresh, WriteIndent, delim, i) /\ i # 0  BY <2>1, <2>2
    <3> QED  BY <3>1 DEF ShownOf
  <2>4. g[0] = ShownOf(g, s, fresh, WriteIndent, delim, 0)  BY <2>1, <2>2
  <2>5. g[0] = << >>  BY <2>4 DEF ShownOf
  <2> QED  BY <2>3, <2>5
<1>4. /\ \A i \in 0 .. n : L(i) \in Seq(T)
      /\ L(1) = <<s[1]>>
      /\ \A i \in 1 .. n : i > 1 => L(i) = L(i - 1) \o M(i) \o <<s[i]>>
  <2>1. \A i \in 0 .. n : Lines(s)[i] \in Seq(T)  BY LinesGrow DEF Texts
  <2>2. \A i \in 1 .. n :
          Lines(s)[i] = IF i = 1 THEN <<s[1]>>
                        ELSE Lines(s)[i - 1] \o (IF s[i - 1] = delim THEN WriteIndent ELSE << >>)
                               \o <<s[i]>>
    BY LinesGrow
  <2>3. 1 \in 1 .. n /\ \A i \in 1 .. n : i > 1 => i # 1  BY <1>1
  <2> QED  BY <2>1, <2>2, <2>3
<1>5. << >> \in Seq(T) /\ I \in Seq(T) /\ \A i \in 1 .. n : M(i) \in Seq(T)
  BY EmptySeq DEF Texts
<1>6. g[1] = I \o L(1)
  <2>1. 1 \in 1 .. n /\ 1 - 1 = 0  BY <1>1
  <2>2. g[1] = << >> \o M(1) \o <<s[1]>>  BY <2>1, <1>3
  <2>3. M(1) = I  OBVIOUS
  <2>4. << >> \o I = I  BY <1>5, ConcatEmptySeq
  <2> QED  BY <2>2, <2>3, <2>4, <1>4
<1>7. ASSUME NEW i \in 1 .. n, i > 1, g[i - 1] = I \o L(i - 1)
      PROVE  g[i] = I \o L(i)
  <2> DEFINE K == L(i - 1)
             m == M(i)
             one == <<s[i]>>
  <2>1. i - 1 \in 0 .. n  BY <1>1
  <2>2. K \in Seq(T) /\ m \in Seq(T) /\ one \in Seq(T) /\ I \in Seq(T)
    BY <2>1, <1>1, <1>4, <1>5
  <2>3. g[i] = ((I \o K) \o m) \o one /\ L(i) = (K \o m) \o one  BY <1>3, <1>4, <1>7
  <2> HIDE DEF K, m, one, I, L, T
  <2>4. (I \o K) \o m = I \o (K \o m)  BY ONLY <2>2, ConcatAssociative
  <2>5. K \o m \in Seq(T)  BY <2>2, ConcatProperties
  <2>6. (I \o (K \o m)) \o one = I \o ((K \o m) \o one)
    <3>1. PICK x : x = K \o m  OBVIOUS
    <3>2. I \in Seq(T) /\ x \in Seq(T) /\ one \in Seq(T)  BY <2>2, <2>5, <3>1
    <3>3. (I \o x) \o one = I \o (x \o one)  BY ONLY <3>2, ConcatAssociative
    <3> QED  BY <3>1, <3>3
  <2> QED  BY <2>3, <2>4, <2>6
<1>8. g[n] = I \o L(n)
  <2> DEFINE S == {i \in Nat : i > 0 => g[i] = I \o L(i)}
  <2>1. 0 \in S  OBVIOUS
  <2>2. ASSUME NEW i \in 1 .. n, i - 1 \in S PROVE i \in S
    <3>1. CASE i = 1
      <4> HIDE DEF I, L
      <4> QED  BY <3>1, <1>6
    <3>2. CASE i > 1
      <4>1. g[i - 1] = I \o L(i - 1)
        <5> HIDE DEF I, L
        <5> QED  BY <2>2, <3>2
      <4> HIDE DEF I, L
      <4>2. g[i] = I \o L(i)  BY <3>2, <4>1, <1>7
      <4>3. i \in Nat  BY <1>1
      <4> QED  BY <4>2, <4>3
    <3>3. i = 1 \/ i > 1  BY <1>1
    <3> HIDE DEF S
    <3> QED  BY <3>1, <3>2, <3>3
  <2>3. \A i \in 0 .. n : i \in S
    <3> HIDE DEF S
    <3> QED  BY <2>1, <2>2, <1>1, UpTo
  <2>4. n \in 0 .. n /\ n > 0  BY <1>1
  <2> HIDE DEF I, L
  <2> QED  BY <2>3, <2>4
<1>9. Written(s) = I \o L(n)  BY DEF Written
<1> QED  BY <1>2, <1>8, <1>9
-----------------------------------------------------------------------------
(* The types, and that the device never stops behind a margin. *)
IInv == TypeOK /\ NoDanglingMargin

LEMMA IndentsAreTexts ==
  ASSUME NEW n \in Int, NEW s \in Symbols
  PROVE  (IF n > 0 THEN [i \in 1 .. n |-> s] ELSE << >>) \in Texts
<1>1. CASE n > 0
  <2> DEFINE w == [i \in 1 .. n |-> s]
  <2>1. w \in Seq(Chars \cup Symbols)
    <3>1. n \in Nat /\ \A i \in 1 .. n : s \in Chars \cup Symbols  BY <1>1
    <3> QED  BY <3>1, IsASeq
  <2> QED  BY <1>1, <2>1 DEF Texts
<1>2. CASE ~ (n > 0)  BY <1>2, EmptySeq DEF Texts
<1> QED  BY <1>1, <1>2

LEMMA MarginIsText == ASSUME TypeOK PROVE WriteIndent \in Texts
BY IndentsAreTexts DEF TypeOK, WriteIndent

LEMMA WriteFacts ==
  ASSUME IInv, buffer # << >>, Write(buffer)
  PROVE  /\ out' \in Texts /\ out'[Len(out')] \in Chars
         /\ state' \in {"DirectPrint", "NeedIndent"}
         /\ state' = "NeedIndent" <=> buffer[Len(buffer)] = delim
         /\ out' = out \o Pending
<1>1. buffer \in Seq(Chars) /\ out \in Texts /\ WriteIndent \in Texts
  BY MarginIsText DEF IInv, TypeOK, Texts
<1>2. out' = out \o Pending  BY <1>1, WrittenIsShown DEF Write, Pending
<1>3. Pending \in Texts /\ Pending[Len(Pending)] \in Chars
  BY <1>1, ShownText DEF Pending
<1> DEFINE p == Pending
<1>4. /\ out \o p \in Texts
      /\ Len(out \o p) = Len(out) + Len(p)
      /\ \A i \in 1 .. Len(out) + Len(p) :
           (out \o p)[i] = IF i <= Len(out) THEN out[i] ELSE p[i - Len(out)]
  <2> HIDE DEF p
  <2> QED  BY <1>1, <1>3, ConcatProperties DEF Texts, p
<1>5. Len(p) \in Nat \ {0} /\ Len(out) \in Nat
  <2>1. p # << >>
    BY <1>1, ShownText DEF Pending
  <2> QED  BY <2>1, <1>1, <1>3, LenProperties, EmptySeq DEF Texts
<1>6. (out \o p)[Len(out \o p)] = p[Len(p)]
  <2> HIDE DEF p
  <2>1. Len(out) + Len(p) \in 1 .. Len(out) + Len(p)  BY <1>5
  <2>2. ~ (Len(out) + Len(p) <= Len(out)) /\ Len(out) + Len(p) - Len(out) = Len(p)  BY <1>5
  <2> QED  BY <1>4, <2>1, <2>2
<1>7. Len(buffer) > 0  BY <1>1, LenProperties, EmptySeq
<1> QED  BY <1>2, <1>3, <1>4, <1>6, <1>7 DEF Write, StateAfter

LEMMA InitOK == Init => IInv
<1> SUFFICES ASSUME Init PROVE IInv  OBVIOUS
<1> USE DEF Init
<1>1. << >> \in Seq(Chars) /\ << >> \in Seq(Chars \cup Symbols) /\ Len(<< >>) = 0
  BY EmptySeq
<1>2. TypeOK  BY <1>1, StreamAssumption DEF TypeOK
<1>3. NoDanglingMargin  BY DEF NoDanglingMargin
<1> QED  BY <1>2, <1>3 DEF IInv

(* What is left when the buffer has been written, or had nothing in it. *)
LEMMA FlushFacts ==
  ASSUME IInv, FlushBuffer
  PROVE  /\ buffer' = << >> /\ out' \in Texts /\ NoDanglingMargin'
         /\ state' \in {"DirectPrint", "NeedIndent"}
         /\ out' = out \o Pending
         /\ state' = "NeedIndent" <=> PendingFresh
<1>1. CASE buffer # << >>
  <2>1. buffer' = << >> /\ Write(buffer)  BY <1>1 DEF FlushBuffer
  <2> QED  BY <1>1, <2>1, WriteFacts DEF NoDanglingMargin, PendingFresh
<1>2. CASE buffer = << >>
  <2>1. UNCHANGED <<buffer, out, state>>  BY <1>2 DEF FlushBuffer
  <2>2. buffer \in Seq(Chars) /\ out \in Texts /\ WriteIndent \in Texts
    BY MarginIsText DEF IInv, TypeOK, Texts
  <2>3. Pending = << >>
    <3>1. \A f : buffer = << >> => Shown(buffer, f, WriteIndent, delim) = << >>
      BY <2>2, ShownText
    <3> QED  BY <3>1, <1>2 DEF Pending
  <2>4. out \o << >> = out  BY <2>2, ConcatEmptySeq DEF Texts
  <2> QED  BY <1>2, <2>1, <2>2, <2>3, <2>4 DEF NoDanglingMargin, PendingFresh, IInv, TypeOK
<1> QED  BY <1>1, <1>2

LEMMA PutOK == ASSUME IInv, NEW c \in Chars, Put(c) PROVE IInv'
<1> USE DEF IInv
<1>1. /\ buffer \in Seq(Chars) /\ Len(buffer) \in Nat /\ BufferSize \in Nat \ {0}
      /\ MaxChars \in Nat /\ puts \in 0 .. MaxChars
  BY StreamAssumption, LenProperties DEF TypeOK
<1>2. puts' \in 0 .. MaxChars /\ UNCHANGED <<indent, symbol, delim>>  BY <1>1 DEF Put
<1>3. CASE Len(buffer) = BufferSize
  <2>1. Write(buffer) /\ buffer' = <<c>>  BY <1>3 DEF Put
  <2>2. buffer # << >>  BY <1>1, <1>3
  <2>3. buffer' \in Seq(Chars) /\ Len(buffer') = 1  BY <2>1
  <2>4. TypeOK'  BY <1>1, <1>2, <2>1, <2>2, <2>3, WriteFacts DEF TypeOK, Texts
  <2> QED  BY <2>1, <2>2, <2>4, WriteFacts DEF NoDanglingMargin
<1>4. CASE Len(buffer) # BufferSize
  <2>1. buffer' = Append(buffer, c) /\ UNCHANGED <<out, state>>  BY <1>4 DEF Put
  <2>2. buffer' \in Seq(Chars) /\ Len(buffer') = Len(buffer) + 1
    BY <1>1, <2>1, AppendProperties
  <2>3. Len(buffer') <= BufferSize  BY <1>1, <1>4, <2>2 DEF TypeOK
  <2> QED  BY <1>1, <1>2, <2>1, <2>2, <2>3 DEF TypeOK, NoDanglingMargin
<1> QED  BY <1>3, <1>4

(* A step of a caller that does not put a character writes the buffer. *)
Manipulates ==
  /\ FlushBuffer
  /\ puts' = puts
  /\ indent' \in Int /\ symbol' \in Symbols /\ delim' \in Chars

LEMMA ManipulatesOK == ASSUME IInv, Manipulates PROVE IInv'
<1>1. FlushBuffer  BY DEF Manipulates
<1>2. /\ buffer' = << >> /\ out' \in Texts /\ NoDanglingMargin'
      /\ state' \in {"DirectPrint", "NeedIndent"}
  BY <1>1, FlushFacts
<1>3. << >> \in Seq(Chars) /\ Len(<< >>) = 0 /\ BufferSize \in Nat
  BY EmptySeq, StreamAssumption
<1>4. TypeOK'  BY <1>2, <1>3 DEF Manipulates, IInv, TypeOK, Texts
<1> QED  BY <1>2, <1>4 DEF IInv

LEMMA StepShapes ==
  ASSUME IInv, Next
  PROVE  \/ \E c \in Chars : Put(c)
         \/ Manipulates /\ UNCHANGED <<symbol, delim>>
         \/ Manipulates /\ UNCHANGED <<indent, delim>>
         \/ Manipulates /\ UNCHANGED <<indent, symbol>>
<1> USE DEF Manipulates, ManipulatorFlushes
<1>1. indent \in Int /\ symbol \in Symbols /\ delim \in Chars /\ Margins \subseteq Nat
  BY StreamAssumption DEF IInv, TypeOK
<1>2. ASSUME NEW c \in Chars, SetLineDelim(c)
      PROVE  Manipulates /\ UNCHANGED <<indent, symbol>>
  BY <1>1, <1>2 DEF SetLineDelim
<1>3. CASE Flush  BY <1>1, <1>3 DEF Flush
<1>4. ASSUME NEW n \in Margins, SetIndent(n) \/ AddIndent(n) \/ SubIndent(n)
      PROVE  Manipulates /\ UNCHANGED <<symbol, delim>>
  BY <1>1, <1>4 DEF SetIndent, AddIndent, SubIndent
<1>5. ASSUME NEW s \in Symbols, SetIndentSymbol(s)
      PROVE  Manipulates /\ UNCHANGED <<indent, delim>>
  BY <1>1, <1>5 DEF SetIndentSymbol
<1> HIDE DEF Manipulates
<1> QED  BY <1>2, <1>3, <1>4, <1>5 DEF Next

LEMMA NextOK == IInv /\ [Next]_vars => IInv'
<1> SUFFICES ASSUME IInv, [Next]_vars PROVE IInv'  OBVIOUS
<1>1. CASE Next  BY <1>1, StepShapes, PutOK, ManipulatesOK
<1>2. CASE UNCHANGED vars  BY <1>2 DEF IInv, TypeOK, NoDanglingMargin, vars
<1> QED  BY <1>1, <1>2

(* The invariant the theorems follow from: the types, and that what is      *)
(* written ends with a character that was put.                              *)
THEOREM Invariant == Spec => []IInv
BY InitOK, NextOK, PTL DEF Spec

(* The buffer never holds more than its size, and what is in it and in out_ *)
(* is what was put and margins.                                             *)
THEOREM TypeCorrect == Spec => []TypeOK
<1>1. IInv => TypeOK  BY DEF IInv
<1> QED  BY <1>1, Invariant, PTL

(* The device never leaves a margin without its line: a chunk ends with a   *)
(* character that was put, and so does what is made of it.                  *)
THEOREM MarginsHaveLines == Spec => []NoDanglingMargin
<1>1. IInv => NoDanglingMargin  BY DEF IInv
<1> QED  BY <1>1, Invariant, PTL
-----------------------------------------------------------------------------
(* The refinement: a character that is put is printed then, and nothing     *)
(* else changes the text.                                                   *)
LEMMA EmptyPending ==
  ASSUME IInv', buffer' = << >>
  PROVE  Pending' = << >> /\ PendingFresh' = (state' = "NeedIndent")
<1>1. buffer' \in Seq(Chars) /\ TypeOK'  BY DEF IInv, TypeOK
<1>2. WriteIndent' \in Texts  BY <1>1, IndentsAreTexts DEF TypeOK, WriteIndent
<1>3. \A f : buffer' = << >> => Shown(buffer', f, WriteIndent', delim') = << >>
  BY <1>1, <1>2, ShownText
<1> QED  BY <1>3 DEF Pending, PendingFresh

LEMMA PutPrints ==
  ASSUME IInv, NEW c \in Chars, Put(c)
  PROVE  Printer!PutChar(c)
<1>1. /\ buffer \in Seq(Chars) /\ out \in Texts /\ WriteIndent \in Texts
      /\ Pending \in Texts /\ << >> \in Seq(Chars) /\ << >> \in Texts /\ <<c>> \in Texts
  <2>1. buffer \in Seq(Chars) /\ out \in Texts /\ WriteIndent \in Texts
    BY MarginIsText DEF IInv, TypeOK, Texts
  <2>2. Pending \in Texts  BY <2>1, ShownText DEF Pending
  <2> QED  BY <2>1, <2>2, EmptySeq DEF Texts
<1>2. UNCHANGED <<indent, symbol, delim>> /\ WriteIndent' = WriteIndent
  BY DEF Put, WriteIndent
<1> DEFINE m == IF PendingFresh THEN WriteIndent ELSE << >>
<1>3. m \in Texts  BY <1>1
<1>4. PendingFresh' = (c = delim) /\ (out \o Pending)' = (out \o Pending) \o m \o <<c>>
  <2>1. CASE Len(buffer) = BufferSize
    <3>1. Write(buffer) /\ buffer' = <<c>>  BY <2>1 DEF Put
    <3>2. buffer # << >>  BY <2>1, EmptySeq, StreamAssumption
    <3>3. /\ out' = out \o Pending /\ out' \in Texts
          /\ state' = "NeedIndent" <=> PendingFresh
      BY <3>1, <3>2, WriteFacts DEF PendingFresh
    <3>4. \A f : Shown(<<c>>, f, WriteIndent, delim) = (IF f THEN WriteIndent ELSE << >>) \o <<c>>
      BY <1>1, ShownOne
    <3>5. Pending' = m \o <<c>>
      <4>1. Pending' = Shown(<<c>>, state' = "NeedIndent", WriteIndent, delim)
        BY <1>2, <3>1 DEF Pending
      <4>2. @ = (IF state' = "NeedIndent" THEN WriteIndent ELSE << >>) \o <<c>>  BY <3>4
      <4>3. @ = m \o <<c>>  BY <3>3
      <4> QED  BY <4>1, <4>2, <4>3
    <3>6. PendingFresh' = (c = delim)  BY <1>2, <3>1 DEF PendingFresh
    <3>7. out' \o (m \o <<c>>) = (out' \o m) \o <<c>>
      <4> DEFINE o == <<c>>
      <4>1. out' \in Texts /\ m \in Texts /\ o \in Texts  BY <1>1, <1>3, <3>3
      <4> HIDE DEF m, o
      <4>2. out' \o (m \o o) = (out' \o m) \o o  BY <4>1, ConcatAssociative DEF Texts
      <4> QED  BY <4>2 DEF o
    <3> QED  BY <3>3, <3>5, <3>6, <3>7
  <2>2. CASE Len(buffer) # BufferSize
    <3>1. buffer' = Append(buffer, c) /\ UNCHANGED <<out, state>>  BY <2>2 DEF Put
    <3>2. Pending' = (Pending \o m) \o <<c>>
      <4>1. \A f : Shown(Append(buffer, c), f, WriteIndent, delim) =
              Shown(buffer, f, WriteIndent, delim)
                \o (IF IF buffer = << >> THEN f ELSE buffer[Len(buffer)] = delim
                    THEN WriteIndent ELSE << >>) \o <<c>>
        BY <1>1, ShownGrows
      <4>2. Pending' = Shown(Append(buffer, c), state = "NeedIndent", WriteIndent, delim)
        BY <1>2, <3>1 DEF Pending
      <4> QED  BY <4>1, <4>2 DEF Pending, PendingFresh
    <3>3. PendingFresh' = (c = delim)
      <4>1. /\ Len(Append(buffer, c)) = Len(buffer) + 1 /\ Append(buffer, c) # << >>
            /\ Append(buffer, c)[Len(buffer) + 1] = c
        BY <1>1, AppendProperties, EmptySeq, LenProperties
      <4> QED  BY <1>2, <3>1, <4>1 DEF PendingFresh
    <3>4. out \o ((Pending \o m) \o <<c>>) = ((out \o Pending) \o m) \o <<c>>
      <4> DEFINE p == Pending
                 o == <<c>>
                 pm == p \o m
      <4>1. pm \in Texts  BY <1>1, <1>3, ConcatProperties DEF Texts
      <4>2. out \o pm = (out \o p) \o m
        <5>1. out \in Texts /\ p \in Texts /\ m \in Texts  BY <1>1, <1>3
        <5> HIDE DEF p, m
        <5> QED  BY <5>1, ConcatAssociative DEF Texts
      <4>3. out \o (pm \o o) = (out \o pm) \o o
        <5> HIDE DEF pm, o
        <5> QED  BY <1>1, <4>1, ConcatAssociative DEF Texts, o
      <4> QED  BY <4>2, <4>3
    <3> QED  BY <3>1, <3>2, <3>3, <3>4
  <2> QED  BY <2>1, <2>2
<1> QED  BY <1>2, <1>4 DEF Printer!PutChar, Printer!Margin, WriteIndent

(* What is put appears in the order and with the margins of the printer     *)
(* that knows no buffer: FmtStream is an IndentPrinter.                     *)
THEOREM StreamRefinesPrinter == Spec => StreamIsPrinter
<1> USE DEF Printer!PrinterNext, Printer!printerVars
<1>1. Init => Printer!PrinterInit
  <2> SUFFICES ASSUME Init PROVE Printer!PrinterInit  OBVIOUS
  <2>1. IInv /\ buffer = << >> /\ out = << >> /\ state = "NeedIndent"  BY InitOK DEF Init
  <2>2. Pending = << >>
    <3>1. buffer \in Seq(Chars) /\ WriteIndent \in Texts  BY <2>1, MarginIsText DEF IInv, TypeOK
    <3>2. \A f : buffer = << >> => Shown(buffer, f, WriteIndent, delim) = << >>
      BY <3>1, ShownText
    <3> QED  BY <2>1, <3>2 DEF Pending
  <2>3. << >> \o << >> = << >>  BY EmptySeq, ConcatEmptySeq
  <2> QED  BY <2>1, <2>2, <2>3 DEF Init, Printer!PrinterInit, PendingFresh
<1>2. IInv /\ IInv' /\ [Next]_vars => [Printer!PrinterNext]_(Printer!printerVars)
  <2> SUFFICES ASSUME IInv, IInv', [Next]_vars
               PROVE  Printer!PrinterNext \/ UNCHANGED Printer!printerVars
    OBVIOUS
  <2>1. ASSUME NEW c \in Chars, Put(c) PROVE Printer!PrinterNext  BY <2>1, PutPrints
  <2>2. ASSUME Manipulates
        PROVE  UNCHANGED <<out \o Pending, PendingFresh>>
    <3>1. FlushBuffer  BY <2>2 DEF Manipulates
    <3>2. /\ buffer' = << >> /\ out' = out \o Pending
          /\ out' \in Texts
          /\ state' = "NeedIndent" <=> PendingFresh
      BY <3>1, FlushFacts
    <3>3. Pending' = << >> /\ PendingFresh' = (state' = "NeedIndent")
      BY <3>2, EmptyPending
    <3>4. out' \o << >> = out'  BY <3>2, ConcatEmptySeq DEF Texts
    <3>5. PendingFresh' = PendingFresh
      <4>1. PendingFresh \in BOOLEAN  BY DEF PendingFresh
      <4> QED  BY <3>2, <3>3, <4>1
    <3>6. out' \o Pending' = out \o Pending
      <4>1. out' \o Pending' = out'  BY <3>3, <3>4
      <4> QED  BY <3>2, <4>1
    <3> QED  BY <3>5, <3>6
  <2>3. ASSUME Manipulates, UNCHANGED <<symbol, delim>> PROVE Printer!ChangeIndent
    BY <2>2, <2>3 DEF Printer!ChangeIndent, Manipulates
  <2>4. ASSUME Manipulates, UNCHANGED <<indent, delim>> PROVE Printer!ChangeSymbol
    BY <2>2, <2>4 DEF Printer!ChangeSymbol, Manipulates
  <2>5. ASSUME Manipulates, UNCHANGED <<indent, symbol>> PROVE Printer!ChangeDelim
    BY <2>2, <2>5 DEF Printer!ChangeDelim, Manipulates
  <2>6. CASE UNCHANGED vars
    BY <2>6 DEF vars, Pending, PendingFresh, WriteIndent
  <2>7. CASE Next  BY <2>1, <2>3, <2>4, <2>5, <2>7, StepShapes
  <2> QED  BY <2>6, <2>7
<1> QED  BY <1>1, <1>2, Invariant, PTL DEF Spec, StreamIsPrinter, Printer!PrinterSpec
=============================================================================
