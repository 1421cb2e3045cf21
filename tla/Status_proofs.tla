----------------------------- MODULE Status_proofs -----------------------------
(***************************************************************************)
(* What metadata and statuses become in headers and back, for sequences of   *)
(* any length.                                                              *)
(***************************************************************************)
EXTENDS Status, SequenceTheorems, FiniteSetTheorems, WellFoundedInduction, TLAPS

-----------------------------------------------------------------------------
(* Induction, over sets. *)
(* A set with 0 and the successor of each of its numbers has every number.    *)
LEMMA NatInSet ==
    ASSUME NEW T, 0 \in T, \A n \in Nat : n \in T => n + 1 \in T
    PROVE  Nat \subseteq T
<1> DEFINE missing == Nat \ T
<1> SUFFICES ASSUME missing # {} PROVE FALSE
  OBVIOUS
<1>1. IsWellFoundedOn(OpToRel(<, Nat), Nat)
  BY NatLessThanWellFounded
<1>2. missing \in SUBSET Nat
  OBVIOUS
<1> HIDE DEF missing
<1>3. PICK n \in missing : \A m \in missing : ~(<<m, n>> \in OpToRel(<, Nat))
  BY <1>1, <1>2, WFMin
<1>4. n \in Nat /\ \A m \in missing : ~(m < n)
  BY <1>2, <1>3 DEF OpToRel
<1>5. n \in Nat /\ n # 0 /\ n \notin T
  BY <1>3 DEF missing
<1>6. n - 1 \in Nat /\ (n - 1) + 1 = n /\ n - 1 < n
  BY <1>5
<1>7. n - 1 \in T
  BY <1>4, <1>6 DEF missing
<1> QED BY <1>5, <1>6, <1>7

(* A set with the empty sequence, and what each of its sequences is appended to,
   has every sequence.                                                        *)
LEMMA SeqInSet ==
    ASSUME NEW S, NEW T, <<>> \in T,
           \A s \in Seq(S), e \in S : s \in T => Append(s, e) \in T
    PROVE  Seq(S) \subseteq T
<1> DEFINE Done == {n \in Nat : \A s \in Seq(S) : Len(s) = n => s \in T}
<1>1. 0 \in Done
  BY EmptySeq
<1>2. ASSUME NEW n \in Nat, n \in Done PROVE n + 1 \in Done
  <2> SUFFICES ASSUME NEW s \in Seq(S), Len(s) = n + 1 PROVE s \in T
    OBVIOUS
  <2>1. PICK r \in Seq(S), e \in S : s = Append(r, e)
    BY EmptySeq, SequenceEmptyOrAppend
  <2>2. Len(r) = n
    BY <2>1, AppendProperties, LenProperties
  <2> QED BY <1>2, <2>1, <2>2
<1> HIDE DEF Done
<1>3. Nat \subseteq Done
  BY <1>1, <1>2, NatInSet
<1> QED BY <1>3, LenProperties DEF Done

-----------------------------------------------------------------------------
(* Flattening. *)
(* How the parts up to each one are put together: FlattenSeq's recursion.       *)
Flattening(f, parts) ==
    f = [i \in 1..Len(parts) |-> IF i = 1 THEN parts[i] ELSE f[i - 1] \o parts[i]]

(* Each of its values. *)
LEMMA FlatteningAt ==
    ASSUME NEW f, NEW parts, Flattening(f, parts), NEW i \in 1..Len(parts)
    PROVE  f[i] = IF i = 1 THEN parts[i] ELSE f[i - 1] \o parts[i]
BY Zenon DEF Flattening

(* Such a function exists for every sequence of sequences. *)
LEMMA FlatteningExists ==
    ASSUME NEW S, NEW parts \in Seq(Seq(S))
    PROVE  \E f \in Seq(Seq(S)) : Flattening(f, parts)
<1> DEFINE T == {p \in Seq(Seq(S)) : \E f \in Seq(Seq(S)) : Flattening(f, p)}
<1>1. <<>> \in T
  <2>1. <<>> \in Seq(Seq(S))
    OBVIOUS
  <2>2. Flattening(<<>>, <<>>)
    BY DEF Flattening
  <2> QED BY <2>1, <2>2
<1>2. ASSUME NEW p \in Seq(Seq(S)), NEW x \in Seq(S), p \in T PROVE Append(p, x) \in T
  <2>1. PICK f \in Seq(Seq(S)) : Flattening(f, p)
    BY <1>2
  <2>2. Len(f) = Len(p) /\ DOMAIN f = 1..Len(p)
    BY <2>1, LenProperties DEF Flattening
  <2> DEFINE last == IF p = <<>> THEN x ELSE f[Len(p)] \o x
             g == Append(f, last)
             q == Append(p, x)
  <2>3. last \in Seq(S)
    BY <2>2, EmptySeq, ElementOfSeq, ConcatProperties
  <2>4. /\ g \in Seq(Seq(S)) /\ Len(g) = Len(p) + 1
        /\ \A i \in 1..Len(p) : g[i] = f[i]
        /\ g[Len(p) + 1] = last
    BY <2>2, <2>3, AppendProperties
  <2>5. /\ q \in Seq(Seq(S)) /\ Len(q) = Len(p) + 1 /\ Len(p) \in Nat
        /\ \A i \in 1..Len(p) : q[i] = p[i]
        /\ q[Len(p) + 1] = x
    BY AppendProperties, LenProperties
  <2>6. ASSUME NEW i \in 1..Len(q)
        PROVE  g[i] = IF i = 1 THEN q[i] ELSE g[i - 1] \o q[i]
    <3>1. CASE i \in 1..Len(p)
      <4>1. f[i] = IF i = 1 THEN p[i] ELSE f[i - 1] \o p[i]
        BY <2>1, <3>1, FlatteningAt
      <4>2. i # 1 => i - 1 \in 1..Len(p)
        BY <2>5, <3>1
      <4> HIDE DEF g, q
      <4> QED BY <2>4, <2>5, <3>1, <4>1, <4>2
    <3>2. CASE i = Len(p) + 1
      <4>1. p = <<>> <=> Len(p) = 0
        BY EmptySeq
      <4>2. i # 1 => i - 1 = Len(p) /\ i - 1 \in 1..Len(p)
        BY <2>5, <3>2
      <4>3. last = IF i = 1 THEN x ELSE f[i - 1] \o x
        BY <2>5, <3>2, <4>1, <4>2
      <4> HIDE DEF g, q, last
      <4> QED BY <2>4, <2>5, <3>2, <4>2, <4>3
    <3>3. i \in 1..Len(p) \/ i = Len(p) + 1
      <4> HIDE DEF q
      <4> QED BY <2>5
    <3> QED BY <3>1, <3>2, <3>3
  <2>7. Flattening(g, q)
    <3>1. DOMAIN g = 1..Len(q) /\ g = [i \in DOMAIN g |-> g[i]]
      BY <2>4, <2>5, LenProperties
    <3> HIDE DEF g, q
    <3> QED BY <2>6, <3>1 DEF Flattening
  <2> QED BY <2>4, <2>5, <2>7
<1> HIDE DEF T
<1>3. Seq(Seq(S)) \subseteq T
  BY <1>1, <1>2, SeqInSet
<1> QED BY <1>3 DEF T

(* It is one function alone. *)
LEMMA FlatteningIsOne ==
    ASSUME NEW S, NEW parts \in Seq(Seq(S)), NEW f, NEW g,
           Flattening(f, parts), Flattening(g, parts)
    PROVE  f = g
<1> DEFINE T == {n \in Nat : n \in 1..Len(parts) => f[n] = g[n]}
<1>0. Len(parts) \in Nat
  BY LenProperties
<1>1. 0 \in T
  OBVIOUS
<1>2. ASSUME NEW n \in Nat, n \in T PROVE n + 1 \in T
  <2> SUFFICES ASSUME n + 1 \in 1..Len(parts) PROVE f[n + 1] = g[n + 1]
    OBVIOUS
  <2>1. n # 0 => f[n] = g[n]
    BY <1>0, <1>2
  <2>2. /\ f[n + 1] = IF n + 1 = 1 THEN parts[n + 1] ELSE f[n + 1 - 1] \o parts[n + 1]
        /\ g[n + 1] = IF n + 1 = 1 THEN parts[n + 1] ELSE g[n + 1 - 1] \o parts[n + 1]
    BY FlatteningAt
  <2>3. n + 1 - 1 = n /\ (n + 1 = 1 <=> n = 0)
    OBVIOUS
  <2> QED BY <2>1, <2>2, <2>3
<1> HIDE DEF T
<1>3. Nat \subseteq T
  BY <1>1, <1>2, NatInSet
<1>4. \A n \in 1..Len(parts) : f[n] = g[n]
  BY <1>0, <1>3 DEF T
<1>5. /\ f = [n \in 1..Len(parts) |-> f[n]] /\ g = [n \in 1..Len(parts) |-> g[n]]
  BY Zenon DEF Flattening
<1> QED BY <1>4, <1>5

(* FlattenSeq is the last of them. *)
LEMMA FlattenIs ==
    ASSUME NEW S, NEW parts \in Seq(Seq(S)), parts # <<>>,
           NEW f, Flattening(f, parts)
    PROVE  FlattenSeq(parts) = f[Len(parts)]
<1> DEFINE chosen == CHOOSE g : Flattening(g, parts)
<1>1. Flattening(chosen, parts)
  BY Zenon
<1>2. chosen = f
  BY <1>1, FlatteningIsOne
<1>3. Len(parts) # 0
  BY EmptySeq
<1>4. FlattenSeq(parts) = chosen[Len(parts)]
  BY <1>3 DEF FlattenSeq, Flattening
<1> QED BY <1>2, <1>4

(* Nothing flattens to nothing. *)
LEMMA FlattenEmpty == FlattenSeq(<<>>) = <<>>
BY DEF FlattenSeq

(* One more part goes at the end. *)
LEMMA FlattenAppend ==
    ASSUME NEW S, NEW parts \in Seq(Seq(S)), NEW x \in Seq(S)
    PROVE  /\ FlattenSeq(parts) \in Seq(S)
           /\ FlattenSeq(Append(parts, x)) = FlattenSeq(parts) \o x
<1> DEFINE q == Append(parts, x)
<1>1. /\ q \in Seq(Seq(S)) /\ q # <<>> /\ Len(q) = Len(parts) + 1
      /\ \A i \in 1..Len(parts) : q[i] = parts[i]
      /\ q[Len(parts) + 1] = x /\ Len(parts) \in Nat
  BY AppendProperties, LenProperties
<1> HIDE DEF q
<1>2. PICK g \in Seq(Seq(S)) : Flattening(g, q)
  BY <1>1, FlatteningExists
<1>3. FlattenSeq(q) = g[Len(parts) + 1]
  BY <1>1, <1>2, FlattenIs
<1>4. CASE parts = <<>>
  <2>1. Len(parts) = 0 /\ FlattenSeq(parts) = <<>>
    BY <1>4, FlattenEmpty
  <2>2. g[1] = q[1]
    <3>1. 1 \in 1..Len(q)
      BY <1>1
    <3> QED BY <1>2, <3>1, FlatteningAt
  <2>3. FlattenSeq(q) = x
    BY <1>1, <1>3, <2>1, <2>2
  <2> QED BY <2>1, <2>3, ConcatEmptySeq, EmptySeq DEF q
<1>5. CASE parts # <<>>
  <2>1. Len(parts) \in Nat \ {0}
    BY <1>5, EmptySeq
  <2>2. PICK f \in Seq(Seq(S)) : Flattening(f, parts)
    BY FlatteningExists
  <2>3. FlattenSeq(parts) = f[Len(parts)]
    BY <1>5, <2>2, FlattenIs
  <2> DEFINE h == [i \in 1..Len(parts) |-> g[i]]
  <2>4. Flattening(h, parts)
    <3>1. ASSUME NEW i \in 1..Len(parts)
          PROVE  g[i] = IF i = 1 THEN parts[i] ELSE h[i - 1] \o parts[i]
      <4>1. i \in 1..Len(q) /\ (i # 1 => i - 1 \in 1..Len(parts))
        BY <1>1
      <4>2. g[i] = IF i = 1 THEN q[i] ELSE g[i - 1] \o q[i]
        BY <1>2, <4>1, FlatteningAt
      <4> QED BY <1>1, <4>1, <4>2
    <3> QED BY <3>1 DEF Flattening
  <2>5. f = h
    BY <2>2, <2>4, FlatteningIsOne
  <2>6. g[Len(parts)] = FlattenSeq(parts)
    BY <2>1, <2>3, <2>5
  <2>7. g[Len(parts) + 1] = g[Len(parts)] \o x
    <3>1. PICK i \in 1..Len(q) : i = Len(parts) + 1
      BY <1>1
    <3>2. i # 1 /\ i - 1 = Len(parts)
      BY <1>1, <2>1, <3>1
    <3>3. g[i] = g[i - 1] \o q[i]
      BY <1>2, <3>2, FlatteningAt
    <3> QED BY <1>1, <3>1, <3>2, <3>3
  <2>8. FlattenSeq(parts) \in Seq(S)
    BY <2>1, <2>2, <2>3, <2>5, <2>6, <1>1, ElementOfSeq, LenProperties
  <2> QED BY <1>3, <2>6, <2>7, <2>8 DEF q
<1> QED BY <1>4, <1>5

(* What a function makes of each element of a sequence. *)
Parts(f, s) == [i \in DOMAIN s |-> f[s[i]]]

(* Flattening what a function makes of each element: one more element adds its
   part at the end.                                                           *)
LEMMA FlatMap ==
    ASSUME NEW R, NEW S, NEW f \in [R -> Seq(S)], NEW s \in Seq(R), NEW e \in R
    PROVE  /\ FlattenSeq(Parts(f, s)) \in Seq(S)
           /\ FlattenSeq(Parts(f, Append(s, e))) = FlattenSeq(Parts(f, s)) \o f[e]
<1> DEFINE q == Append(s, e)
           parts == Parts(f, s)
           more == Parts(f, q)
<1>1. /\ DOMAIN s = 1..Len(s) /\ Len(s) \in Nat
      /\ \A i \in 1..Len(s) : s[i] \in R
  BY LenProperties, ElementOfSeq
<1>2. /\ q \in Seq(R) /\ Len(q) = Len(s) + 1 /\ DOMAIN q = 1..(Len(s) + 1)
      /\ \A i \in 1..Len(s) : q[i] = s[i]
      /\ q[Len(s) + 1] = e
  BY <1>1, AppendProperties, LenProperties
<1>0. f[e] \in Seq(S)
  OBVIOUS
<1>3. /\ parts \in Seq(Seq(S)) /\ Len(parts) = Len(s)
      /\ \A i \in 1..Len(s) : parts[i] = f[s[i]]
  BY <1>1 DEF Parts
<1> HIDE DEF q
<1>4. \A i \in 1..(Len(s) + 1) : q[i] \in R
  BY <1>2, ElementOfSeq
<1>5. /\ more \in Seq(Seq(S)) /\ Len(more) = Len(s) + 1
      /\ \A i \in 1..(Len(s) + 1) : more[i] = f[q[i]]
  BY <1>1, <1>2, <1>4 DEF Parts
<1> HIDE DEF parts, more
<1>6. more = Append(parts, f[e])
  <2>1. Append(parts, f[e]) \in Seq(Seq(S)) /\ Len(Append(parts, f[e])) = Len(s) + 1
    BY <1>0, <1>1, <1>3, AppendProperties
  <2>2. ASSUME NEW i \in Nat, i \in 1..(Len(s) + 1)
        PROVE  more[i] = Append(parts, f[e])[i]
    <3>1. CASE i \in 1..Len(s)
      <4>1. Append(parts, f[e])[i] = parts[i]
        BY <1>0, <1>3, <3>1, AppendProperties
      <4> QED BY <1>1, <1>2, <1>3, <1>5, <3>1, <4>1
    <3>2. CASE i = Len(s) + 1
      <4>1. Append(parts, f[e])[i] = f[e]
        BY <1>0, <1>3, <3>2, AppendProperties
      <4> QED BY <1>2, <1>5, <3>2, <4>1
    <3>3. i \in 1..Len(s) \/ i = Len(s) + 1
      BY <1>1, <2>2
    <3> QED BY <3>1, <3>2, <3>3
  <2> QED BY <1>5, <2>1, <2>2, SeqEqual
<1>7. FlattenSeq(more) = FlattenSeq(parts) \o f[e] /\ FlattenSeq(parts) \in Seq(S)
  BY <1>3, <1>6, FlattenAppend
<1> QED BY <1>7 DEF parts, more, q

(* The same of every such function and sequence of two sets. *)
FlatMaps(R, S) ==
    \A f \in [R -> Seq(S)], s \in Seq(R), e \in R :
        /\ FlattenSeq(Parts(f, s)) \in Seq(S)
        /\ FlattenSeq(Parts(f, Append(s, e))) = FlattenSeq(Parts(f, s)) \o f[e]

(* FlatMap, as a statement about both sets. *)
LEMMA FlatMapEach == ASSUME NEW R, NEW S PROVE FlatMaps(R, S)
BY FlatMap DEF FlatMaps

-----------------------------------------------------------------------------
(* The messages of statuses. *)
Byte == 0..255

(* What each digit stands for. *)
LEMMA HexValueSays ==
    ASSUME NEW b \in Byte
    PROVE  /\ b \in 48..57 => HexValue(b) = <<b - 48>>
           /\ b \in 97..102 => HexValue(b) = <<b - 97 + 10>>
           /\ b \in 65..70 => HexValue(b) = <<b - 65 + 10>>
           /\ b \notin 48..57 \cup 97..102 \cup 65..70 => HexValue(b) = <<>>
<1>1. CASE b \in 48..57
  <2>1. b \notin 97..102 /\ b \notin 65..70
    BY <1>1
  <2> QED BY <1>1, <2>1 DEF HexValue
<1>2. CASE b \in 97..102
  <2>1. b \notin 48..57 /\ b \notin 65..70
    BY <1>2
  <2> QED BY <1>2, <2>1 DEF HexValue
<1>3. CASE b \in 65..70
  <2>1. b \notin 48..57 /\ b \notin 97..102
    BY <1>3
  <2> QED BY <1>3, <2>1 DEF HexValue
<1>4. CASE b \notin 48..57 /\ b \notin 97..102 /\ b \notin 65..70
  BY <1>4 DEF HexValue
<1> QED BY <1>1, <1>2, <1>3, <1>4

(* A digit of four bits is a byte that stands for them. *)
LEMMA HexDigit ==
    ASSUME NEW n \in 0..15
    PROVE  HexNibble(n) \in Byte /\ HexValue(HexNibble(n)) = <<n>>
<1> DEFINE d == HexNibble(n)
<1>1. CASE n \in 0..9
  <2>1. d \in 48..57 /\ d - 48 = n
    BY <1>1 DEF HexNibble
  <2> HIDE DEF d
  <2>2. d \in Byte
    BY <2>1 DEF Byte
  <2>3. HexValue(d) = <<d - 48>>
    BY <2>1, <2>2, HexValueSays
  <2> QED BY <2>1, <2>2, <2>3 DEF d
<1>2. CASE n \in 10..15
  <2>1. d \in 65..70 /\ d - 65 + 10 = n
    BY <1>2 DEF HexNibble
  <2> HIDE DEF d
  <2>2. d \in Byte
    BY <2>1 DEF Byte
  <2>3. HexValue(d) = <<d - 65 + 10>>
    BY <2>1, <2>2, HexValueSays
  <2> QED BY <2>1, <2>2, <2>3 DEF d
<1> QED BY <1>1, <1>2

(* A byte stands for four bits or is no digit. *)
LEMMA HexValueType ==
    ASSUME NEW b \in Byte
    PROVE  HexValue(b) = <<>> \/ \E n \in 0..15 : HexValue(b) = <<n>>
<1>1. CASE b \in 48..57
  <2>1. HexValue(b) = <<b - 48>> /\ b - 48 \in 0..15
    BY <1>1, HexValueSays
  <2> QED BY <2>1
<1>2. CASE b \in 97..102
  <2>1. HexValue(b) = <<b - 97 + 10>> /\ b - 97 + 10 \in 0..15
    BY <1>2, HexValueSays
  <2> QED BY <2>1
<1>3. CASE b \in 65..70
  <2>1. HexValue(b) = <<b - 65 + 10>> /\ b - 65 + 10 \in 0..15
    BY <1>3, HexValueSays
  <2> QED BY <2>1
<1> QED BY <1>1, <1>2, <1>3, HexValueSays

(* A byte is encoded as itself, which is then no percent sign, or as an escape. *)
LEMMA EncodedSays ==
    ASSUME NEW b \in Byte
    PROVE  /\ Encoded(b) \in Seq(Byte)
           /\ \/ b # Percent /\ Encoded(b) = <<b>>
              \/ \E m, n \in 0..15 :
                     /\ Encoded(b) = <<Percent, HexNibble(m), HexNibble(n)>>
                     /\ m * 16 + n = b
<1>1. Percent \in Byte
  BY DEF Percent, Byte
<1>2. CASE b \in 32..126 /\ b # Percent
  <2>1. Encoded(b) = <<b>>
    BY <1>2 DEF Encoded
  <2> QED BY <1>2, <2>1
<1>3. CASE ~(b \in 32..126 /\ b # Percent)
  <2> DEFINE m == b \div 16
             n == b % 16
  <2>1. m \in 0..15 /\ n \in 0..15 /\ m * 16 + n = b
    BY DEF Byte
  <2>2. Encoded(b) = <<Percent, HexNibble(m), HexNibble(n)>>
    BY <1>3 DEF Encoded
  <2> HIDE DEF m, n
  <2>3. HexNibble(m) \in Byte /\ HexNibble(n) \in Byte
    BY <2>1, HexDigit
  <2> QED BY <1>1, <2>1, <2>2, <2>3
<1> QED BY <1>2, <1>3

(* An escape stands for a byte. *)
LEMMA EscapedType ==
    ASSUME NEW s \in Seq(Byte), NEW i \in 1..Len(s), IsEscape(s, i)
    PROVE  Escaped(s, i) \in Byte /\ i + 2 \in 1..Len(s)
<1>1. i + 1 \in 1..Len(s) /\ i + 2 \in 1..Len(s)
  BY LenProperties DEF IsEscape
<1>2. s[i + 1] \in Byte /\ s[i + 2] \in Byte
  BY <1>1, ElementOfSeq
<1>3. PICK m \in 0..15 : HexValue(s[i + 1]) = <<m>>
  BY <1>2, HexValueType DEF IsEscape
<1>4. PICK n \in 0..15 : HexValue(s[i + 2]) = <<n>>
  BY <1>2, HexValueType DEF IsEscape
<1>5. m * 16 + n \in 0..255
  OBVIOUS
<1> QED BY <1>1, <1>3, <1>4, <1>5 DEF Escaped, Byte

(* percent_decode's recursion, from the end: what the bytes from s[i] on say. *)
DecodeAt(h, s, i) ==
    IF i > Len(s) THEN <<>>
    ELSE IF IsEscape(s, i) THEN <<Escaped(s, i)>> \o h[i + 3]
    ELSE <<s[i]>> \o h[i + 1]
Decoding(h, s) == h = [i \in 1..(Len(s) + 1) |-> DecodeAt(h, s, i)]

(* A function that decodes a sequence from each of its bytes exists. *)
LEMMA DecodingExists ==
    ASSUME NEW s \in Seq(Byte)
    PROVE  \E h \in [1..(Len(s) + 1) -> Seq(Byte)] : Decoding(h, s)
<1> DEFINE last == Len(s) + 1
           From(k) == \E h \in [1..last -> Seq(Byte)] :
                          \A i \in 1..last : i >= last - k => h[i] = DecodeAt(h, s, i)
           T == {k \in Nat : k <= Len(s) => From(k)}
<1>0. Len(s) \in Nat /\ last \in Nat /\ last > Len(s)
  BY LenProperties
<1>1. 0 \in T
  <2> DEFINE h == [i \in 1..last |-> <<>>]
  <2>1. h \in [1..last -> Seq(Byte)]
    BY EmptySeq
  <2>2. ASSUME NEW i \in 1..last, i >= last - 0 PROVE h[i] = DecodeAt(h, s, i)
    <3>1. i > Len(s)
      BY <1>0, <2>2
    <3> QED BY <3>1 DEF DecodeAt
  <2> QED BY <2>1, <2>2
<1>2. ASSUME NEW k \in Nat, k \in T PROVE k + 1 \in T
  <2> SUFFICES ASSUME k + 1 <= Len(s) PROVE From(k + 1)
    OBVIOUS
  <2> DEFINE m == last - (k + 1)
  <2>1. /\ m \in 1..Len(s) /\ m \in 1..last
        /\ \A i \in 1..last : i >= m => i = m \/ i >= last - k
    BY <1>0
  <2>2. PICK h \in [1..last -> Seq(Byte)] :
            \A i \in 1..last : i >= last - k => h[i] = DecodeAt(h, s, i)
    BY <1>0, <1>2
  <2> DEFINE g == [h EXCEPT ![m] = DecodeAt(h, s, m)]
  <2>3. ASSUME NEW i \in 1..Len(s)
        PROVE  /\ DecodeAt(h, s, i) \in Seq(Byte) /\ i + 1 \in 1..last
               /\ IsEscape(s, i) => i + 3 \in 1..last
    <3>1. s[i] \in Byte /\ i + 1 \in 1..last
      BY <1>0, ElementOfSeq
    <3>2. CASE IsEscape(s, i)
      <4>1. Escaped(s, i) \in Byte /\ i + 3 \in 1..last
        BY <1>0, <3>2, EscapedType
      <4>2. DecodeAt(h, s, i) = <<Escaped(s, i)>> \o h[i + 3]
        BY <1>0, <3>2 DEF DecodeAt
      <4>3. h[i + 3] \in Seq(Byte) /\ <<Escaped(s, i)>> \in Seq(Byte)
        BY <4>1
      <4> QED BY <3>1, <4>1, <4>2, <4>3, ConcatProperties
    <3>3. CASE ~IsEscape(s, i)
      <4>1. DecodeAt(h, s, i) = <<s[i]>> \o h[i + 1]
        BY <1>0, <3>3 DEF DecodeAt
      <4>2. h[i + 1] \in Seq(Byte) /\ <<s[i]>> \in Seq(Byte)
        BY <3>1
      <4> QED BY <3>1, <3>3, <4>1, <4>2, ConcatProperties
    <3> QED BY <3>2, <3>3
  <2>4. /\ g \in [1..last -> Seq(Byte)] /\ g[m] = DecodeAt(h, s, m)
        /\ \A i \in 1..last : i # m => g[i] = h[i]
    BY <2>1, <2>3
  <2>5. ASSUME NEW i \in 1..last, i >= m PROVE DecodeAt(g, s, i) = DecodeAt(h, s, i)
    <3>1. CASE i > Len(s)
      BY <3>1 DEF DecodeAt
    <3>2. CASE i \in 1..Len(s)
      <4>1. i + 1 \in 1..last /\ (IsEscape(s, i) => i + 3 \in 1..last)
        BY <2>3, <3>2
      <4>2. i + 1 # m /\ i + 3 # m
        BY <1>0, <2>1, <2>5
      <4>3. g[i + 1] = h[i + 1] /\ (IsEscape(s, i) => g[i + 3] = h[i + 3])
        BY <2>4, <4>1, <4>2
      <4> HIDE DEF g
      <4> QED BY <4>3, Zenon DEF DecodeAt
    <3> QED BY <1>0, <3>1, <3>2
  <2> HIDE DEF g, m
  <2>6. ASSUME NEW i \in 1..last, i >= m PROVE g[i] = DecodeAt(g, s, i)
    <3>1. CASE i = m
      BY <2>4, <2>5, <2>6, <3>1
    <3>2. CASE i # m
      BY <2>1, <2>2, <2>4, <2>5, <2>6, <3>2
    <3> QED BY <3>1, <3>2
  <2> QED BY <2>4, <2>6 DEF m
<1> HIDE DEF T
<1>3. Nat \subseteq T
  BY <1>1, <1>2, NatInSet
<1>4. PICK h \in [1..last -> Seq(Byte)] :
          \A i \in 1..last : i >= last - Len(s) => h[i] = DecodeAt(h, s, i)
  BY <1>0, <1>3 DEF T
<1>5. \A i \in 1..last : h[i] = DecodeAt(h, s, i)
  BY <1>0, <1>4
<1>6. h = [i \in 1..last |-> DecodeAt(h, s, i)]
  BY <1>5
<1> QED BY <1>6 DEF Decoding

(* DecodeFrom is one. *)
LEMMA DecodeFromSays ==
    ASSUME NEW s \in Seq(Byte), NEW i \in 1..(Len(s) + 1)
    PROVE  DecodeFrom(s)[i] = DecodeAt(DecodeFrom(s), s, i)
<1>1. PICK h : Decoding(h, s)
  BY DecodingExists
<1>2. Decoding(DecodeFrom(s), s)
  BY <1>1, Zenon DEF DecodeFrom, Decoding, DecodeAt
<1> QED BY <1>2, Zenon DEF Decoding

(* Only what follows a byte decides what it and they say. *)
LEMMA DecodeSuffix ==
    ASSUME NEW u \in Seq(Byte), NEW t \in Seq(Byte)
    PROVE  /\ DecodeFrom(u \o t)[Len(u) + 1] = DecodeFrom(t)[1]
           /\ DecodeFrom(t)[1] \in Seq(Byte)
<1> DEFINE s == u \o t
           last == Len(t) + 1
           Same(j) == /\ DecodeFrom(s)[Len(u) + j] = DecodeFrom(t)[j]
                      /\ DecodeFrom(t)[j] \in Seq(Byte)
           T == {k \in Nat : \A j \in 1..last : j >= last - k => Same(j)}
<1>0. /\ s \in Seq(Byte) /\ Len(u) \in Nat /\ Len(t) \in Nat
      /\ Len(s) = Len(u) + Len(t)
      /\ \A j \in 1..Len(t) : s[Len(u) + j] = t[j]
  BY ConcatProperties, LenProperties
<1> HIDE DEF s
<1>1. ASSUME NEW j \in 1..Len(t), Same(j + 1), IsEscape(t, j) => Same(j + 3)
      PROVE  Same(j)
  <2> DEFINE i == Len(u) + j
  <2>1. /\ i \in 1..Len(s) /\ i \in 1..(Len(s) + 1) /\ j \in 1..(Len(t) + 1)
        /\ i + 1 = Len(u) + (j + 1) /\ i + 2 = Len(u) + (j + 2)
        /\ i + 3 = Len(u) + (j + 3) /\ ~(i > Len(s)) /\ ~(j > Len(t))
        /\ i + 2 <= Len(s) <=> j + 2 <= Len(t)
        /\ j + 2 <= Len(t) => j + 1 \in 1..Len(t) /\ j + 2 \in 1..Len(t)
    BY <1>0
  <2>2. /\ s[i] = t[j]
        /\ j + 2 <= Len(t) => s[i + 1] = t[j + 1] /\ s[i + 2] = t[j + 2]
    BY <1>0, <2>1
  <2> HIDE DEF i
  <2>3. /\ IsEscape(s, i) <=> IsEscape(t, j)
        /\ IsEscape(t, j) => Escaped(s, i) = Escaped(t, j)
    BY <2>1, <2>2 DEF IsEscape, Escaped
  <2>4. /\ DecodeFrom(s)[i] = DecodeAt(DecodeFrom(s), s, i)
        /\ DecodeFrom(t)[j] = DecodeAt(DecodeFrom(t), t, j)
    BY <1>0, <2>1, DecodeFromSays
  <2>5. CASE IsEscape(t, j)
    <3>1. /\ DecodeFrom(s)[i] = <<Escaped(t, j)>> \o DecodeFrom(s)[i + 3]
          /\ DecodeFrom(t)[j] = <<Escaped(t, j)>> \o DecodeFrom(t)[j + 3]
      BY <2>1, <2>3, <2>4, <2>5, Zenon DEF DecodeAt
    <3>2. <<Escaped(t, j)>> \in Seq(Byte)
      BY <2>5, EscapedType
    <3>3. /\ DecodeFrom(s)[i + 3] = DecodeFrom(t)[j + 3]
          /\ DecodeFrom(t)[j + 3] \in Seq(Byte)
      BY <1>1, <2>1, <2>5
    <3>4. DecodeFrom(t)[j] \in Seq(Byte)
      BY <3>1, <3>2, <3>3, ConcatProperties
    <3> QED BY <3>1, <3>3, <3>4 DEF i
  <2>6. CASE ~IsEscape(t, j)
    <3>1. /\ DecodeFrom(s)[i] = <<t[j]>> \o DecodeFrom(s)[i + 1]
          /\ DecodeFrom(t)[j] = <<t[j]>> \o DecodeFrom(t)[j + 1]
      BY <2>1, <2>2, <2>3, <2>4, <2>6, Zenon DEF DecodeAt
    <3>2. <<t[j]>> \in Seq(Byte)
      <4>1. t[j] \in Byte
        BY ElementOfSeq
      <4> QED BY <4>1
    <3>3. /\ DecodeFrom(s)[i + 1] = DecodeFrom(t)[j + 1]
          /\ DecodeFrom(t)[j + 1] \in Seq(Byte)
      BY <1>1, <2>1
    <3>4. DecodeFrom(t)[j] \in Seq(Byte)
      BY <3>1, <3>2, <3>3, ConcatProperties
    <3> QED BY <3>1, <3>3, <3>4 DEF i
  <2> QED BY <2>5, <2>6
<1>2. 0 \in T
  <2>1. DecodeFrom(s)[Len(u) + last] = DecodeAt(DecodeFrom(s), s, Len(u) + last)
    <3>1. Len(u) + last \in 1..(Len(s) + 1)
      BY <1>0
    <3> QED BY <1>0, <3>1, DecodeFromSays
  <2>2. DecodeFrom(t)[last] = DecodeAt(DecodeFrom(t), t, last)
    <3>1. last \in 1..(Len(t) + 1)
      BY <1>0
    <3> QED BY <3>1, DecodeFromSays
  <2>3. Len(u) + last > Len(s) /\ last > Len(t)
    BY <1>0
  <2>4. DecodeFrom(s)[Len(u) + last] = <<>> /\ DecodeFrom(t)[last] = <<>>
    BY <2>1, <2>2, <2>3, Zenon DEF DecodeAt
  <2>5. Same(last)
    BY <2>4, EmptySeq
  <2>6. \A j \in 1..last : j >= last - 0 => j = last
    BY <1>0
  <2> HIDE DEF Same
  <2> QED BY <2>5, <2>6
<1>3. ASSUME NEW k \in Nat, k \in T PROVE k + 1 \in T
  <2> SUFFICES ASSUME NEW j \in 1..last, j >= last - (k + 1) PROVE Same(j)
    OBVIOUS
  <2>1. \A i \in 1..last : i >= last - k => Same(i)
    BY <1>3
  <2> HIDE DEF Same, T
  <2>2. CASE j >= last - k
    BY <2>1, <2>2
  <2>3. CASE ~(j >= last - k)
    <3>1. /\ j \in 1..Len(t) /\ j + 1 \in 1..last /\ j + 1 >= last - k
          /\ j + 3 >= last - k
      BY <1>0, <2>3
    <3>2. Same(j + 1)
      BY <2>1, <3>1
    <3>3. ASSUME IsEscape(t, j) PROVE Same(j + 3)
      <4>1. j + 3 \in 1..last
        BY <1>0, <3>1, <3>3 DEF IsEscape
      <4> QED BY <2>1, <3>1, <4>1
    <3> QED BY <1>1, <3>1, <3>2, <3>3
  <2> QED BY <2>2, <2>3
<1> HIDE DEF T
<1>4. Nat \subseteq T
  BY <1>2, <1>3, NatInSet
<1>5. Same(1)
  <2>1. Len(t) \in T /\ 1 \in 1..last /\ 1 >= last - Len(t)
    BY <1>0, <1>4
  <2> HIDE DEF Same
  <2> QED BY <2>1 DEF T
<1> QED BY <1>5 DEF s

(* The bytes that encode one byte say it, and then what follows them says. *)
LEMMA EncodedIsHeard ==
    ASSUME NEW b \in Byte, NEW t \in Seq(Byte)
    PROVE  DecodeFrom(Encoded(b) \o t)[1] = <<b>> \o DecodeFrom(t)[1]
<1> DEFINE u == Encoded(b)
           s == u \o t
<1>0. /\ u \in Seq(Byte) /\ s \in Seq(Byte) /\ Len(u) \in Nat /\ Len(t) \in Nat
      /\ Len(s) = Len(u) + Len(t) /\ \A i \in 1..Len(u) : s[i] = u[i]
  BY EncodedSays, ConcatProperties, LenProperties
<1> HIDE DEF s, u
<1>1. DecodeFrom(s)[1] = DecodeAt(DecodeFrom(s), s, 1)
  BY <1>0, DecodeFromSays
<1>2. DecodeFrom(s)[Len(u) + 1] = DecodeFrom(t)[1]
  BY <1>0, DecodeSuffix DEF s
<1>3. CASE b # Percent /\ u = <<b>>
  <2>1. Len(u) = 1 /\ s[1] = b /\ ~(1 > Len(s)) /\ ~IsEscape(s, 1)
    BY <1>0, <1>3 DEF IsEscape
  <2>2. DecodeFrom(s)[1] = <<b>> \o DecodeFrom(s)[1 + 1]
    BY <1>1, <2>1, Zenon DEF DecodeAt
  <2> QED BY <1>2, <2>1, <2>2 DEF s, u
<1>4. ASSUME NEW m \in 0..15, NEW n \in 0..15, m * 16 + n = b,
             u = <<Percent, HexNibble(m), HexNibble(n)>>
      PROVE  DecodeFrom(s)[1] = <<b>> \o DecodeFrom(t)[1]
  <2>1. /\ Len(u) = 3 /\ s[1] = Percent /\ s[1 + 1] = HexNibble(m)
        /\ s[1 + 2] = HexNibble(n) /\ 1 + 2 <= Len(s) /\ ~(1 > Len(s))
    BY <1>0, <1>4
  <2>2. HexValue(s[1 + 1]) = <<m>> /\ HexValue(s[1 + 2]) = <<n>>
    BY <2>1, HexDigit
  <2>3. IsEscape(s, 1) /\ Escaped(s, 1) = b
    BY <1>4, <2>1, <2>2 DEF IsEscape, Escaped
  <2>4. DecodeFrom(s)[1] = <<b>> \o DecodeFrom(s)[1 + 3]
    BY <1>1, <2>1, <2>3, Zenon DEF DecodeAt
  <2> QED BY <1>2, <2>1, <2>4
<1> QED BY <1>3, <1>4, EncodedSays DEF s, u

(* percent_encode, a byte at a time. *)
LEMMA PercentEncodeAppend ==
    ASSUME NEW m \in Seq(Byte), NEW b \in Byte
    PROVE  /\ PercentEncode(m) \in Seq(Byte)
           /\ PercentEncode(Append(m, b)) = PercentEncode(m) \o Encoded(b)
<1> DEFINE q == Append(m, b)
<1>1. PICK f \in [Byte -> Seq(Byte)] : \A c \in Byte : f[c] = Encoded(c)
  <2>1. [c \in Byte |-> Encoded(c)] \in [Byte -> Seq(Byte)]
    BY EncodedSays
  <2> QED BY <2>1
<1>2. \A i \in DOMAIN m : f[m[i]] = Encoded(m[i])
  BY <1>1, LenProperties, ElementOfSeq
<1>3. q \in Seq(Byte)
  BY AppendProperties
<1> HIDE DEF q
<1>4. \A i \in DOMAIN q : f[q[i]] = Encoded(q[i])
  BY <1>1, <1>3, LenProperties, ElementOfSeq
<1>5. /\ PercentEncode(m) = FlattenSeq(Parts(f, m))
      /\ PercentEncode(q) = FlattenSeq(Parts(f, q))
  <2>1. Parts(f, m) = [i \in DOMAIN m |-> Encoded(m[i])]
    BY <1>2 DEF Parts
  <2>2. Parts(f, q) = [i \in DOMAIN q |-> Encoded(q[i])]
    BY <1>4 DEF Parts
  <2> QED BY <2>1, <2>2 DEF PercentEncode
<1>6. /\ FlattenSeq(Parts(f, m)) \in Seq(Byte)
      /\ FlattenSeq(Parts(f, q)) = FlattenSeq(Parts(f, m)) \o f[b]
  <2>1. FlatMaps(Byte, Byte)
    BY FlatMapEach
  <2> QED BY <2>1 DEF FlatMaps, q
<1> QED BY <1>1, <1>5, <1>6 DEF q

(* Concatenation of bytes associates. *)
LEMMA BytesAssociate ==
    \A a, b, c \in Seq(Byte) : (a \o b) \o c = a \o (b \o c)
BY ConcatAssociative

(* The encoded message, and whatever follows it, say the message and that. *)
LEMMA EncodedMessageIsHeard ==
    ASSUME NEW m \in Seq(Byte), NEW t \in Seq(Byte)
    PROVE  DecodeFrom(PercentEncode(m) \o t)[1] = m \o DecodeFrom(t)[1]
<1> DEFINE Heard(p, r) == DecodeFrom(PercentEncode(p) \o r)[1] = p \o DecodeFrom(r)[1]
           T == {p \in Seq(Byte) : \A r \in Seq(Byte) : Heard(p, r)}
<1>0. ASSUME NEW r \in Seq(Byte) PROVE DecodeFrom(r)[1] \in Seq(Byte)
  BY DecodeSuffix
<1>1. <<>> \in T
  <2>1. PercentEncode(<<>>) = <<>>
    BY FlattenEmpty DEF PercentEncode
  <2>2. ASSUME NEW r \in Seq(Byte) PROVE Heard(<<>>, r)
    <3>1. PercentEncode(<<>>) \o r = r
      BY <2>1, ConcatEmptySeq
    <3>2. <<>> \o DecodeFrom(r)[1] = DecodeFrom(r)[1]
      BY <1>0, ConcatEmptySeq
    <3> QED BY <3>1, <3>2
  <2> HIDE DEF Heard
  <2> QED BY <2>2, EmptySeq
<1>2. ASSUME NEW p \in Seq(Byte), NEW b \in Byte, p \in T PROVE Append(p, b) \in T
  <2>1. Append(p, b) \in Seq(Byte) /\ Append(p, b) = p \o <<b>> /\ <<b>> \in Seq(Byte)
    BY AppendProperties, AppendIsConcat
  <2>2. ASSUME NEW r \in Seq(Byte) PROVE Heard(Append(p, b), r)
    <3>1. /\ Encoded(b) \in Seq(Byte) /\ PercentEncode(p) \in Seq(Byte)
          /\ PercentEncode(Append(p, b)) = PercentEncode(p) \o Encoded(b)
      BY EncodedSays, PercentEncodeAppend
    <3>2. PercentEncode(Append(p, b)) \o r = PercentEncode(p) \o (Encoded(b) \o r)
      <4>1. PICK c \in Seq(Byte) : c = PercentEncode(p)
        BY <3>1
      <4>2. PICK d \in Seq(Byte) : d = Encoded(b)
        BY <3>1
      <4>3. (c \o d) \o r = c \o (d \o r)
        BY BytesAssociate
      <4> QED BY <3>1, <4>1, <4>2, <4>3, Zenon
    <3>3. Encoded(b) \o r \in Seq(Byte)
      BY <3>1, ConcatProperties
    <3>4. DecodeFrom(PercentEncode(p) \o (Encoded(b) \o r))[1] =
              p \o DecodeFrom(Encoded(b) \o r)[1]
      BY <1>2, <3>3
    <3>5. DecodeFrom(Encoded(b) \o r)[1] = <<b>> \o DecodeFrom(r)[1]
      BY EncodedIsHeard
    <3>6. p \o (<<b>> \o DecodeFrom(r)[1]) = (p \o <<b>>) \o DecodeFrom(r)[1]
      <4>1. PICK c \in Seq(Byte) : c = <<b>>
        BY <2>1
      <4>2. PICK d \in Seq(Byte) : d = DecodeFrom(r)[1]
        BY <1>0
      <4>3. (p \o c) \o d = p \o (c \o d)
        BY BytesAssociate
      <4> QED BY <4>1, <4>2, <4>3, Zenon
    <3> QED BY <2>1, <3>2, <3>4, <3>5, <3>6
  <2> HIDE DEF Heard
  <2> QED BY <2>1, <2>2
<1> HIDE DEF T
<1>3. Seq(Byte) \subseteq T
  BY <1>1, <1>2, SeqInSet
<1> QED BY <1>3 DEF T

(* Every message survives the header it is written into: percent_decode undoes
   percent_encode on any bytes of UTF-8, percent signs, controls and escapes of
   its own included.                                                          *)
THEOREM MessageRoundTrips ==
    ASSUME NEW m \in Utf8
    PROVE  PercentDecode(PercentEncode(m)) = m
<1>0. m \in Seq(Byte)
  BY Utf8Assumption DEF Byte
<1>1. <<>> \in Seq(Byte) /\ Len(<<>>) = 0
  BY EmptySeq
<1>2. PercentEncode(m) \in Seq(Byte)
  <2>1. 0 \in Byte
    BY DEF Byte
  <2> QED BY <1>0, <2>1, PercentEncodeAppend
<1>3. DecodeFrom(<<>>)[1] = <<>>
  <2>1. DecodeFrom(<<>>)[1] = DecodeAt(DecodeFrom(<<>>), <<>>, 1)
    <3>1. 1 \in 1..(Len(<<>>) + 1)
      BY <1>1
    <3> QED BY <1>1, <3>1, DecodeFromSays
  <2>2. 1 > Len(<<>>)
    BY <1>1
  <2> QED BY <2>1, <2>2, Zenon DEF DecodeAt
<1>4. DecodeFrom(PercentEncode(m))[1] = m
  <2>1. DecodeFrom(PercentEncode(m) \o <<>>)[1] = m \o DecodeFrom(<<>>)[1]
    BY <1>0, <1>1, EncodedMessageIsHeard
  <2> QED BY <1>0, <1>2, <1>3, <2>1, ConcatEmptySeq
<1> QED BY <1>4 DEF PercentDecode

-----------------------------------------------------------------------------
(* Metadata. *)
(* What an entry appends to a name, and what a value of a name says. *)
Share(n, e) == IF e.key = n THEN <<Wire(e)>> ELSE <<>>
Said(n, v) == IF Readable(n, v) THEN <<Entry(n, v)>> ELSE <<>>

(* write_into, an entry at a time. *)
LEMMA AppendedAppend ==
    ASSUME NEW es \in Seq(Held), NEW e \in Held, NEW n
    PROVE  /\ Appended(es, n) \in Seq(WireValues)
           /\ Appended(Append(es, e), n) = Appended(es, n) \o Share(n, e)
<1> DEFINE q == Append(es, e)
<1>1. PICK f \in [Held -> Seq(WireValues)] : \A h \in Held : f[h] = Share(n, h)
  <2>1. ASSUME NEW h \in Held PROVE Share(n, h) \in Seq(WireValues)
    <3>1. Wire(h) \in WireValues
      BY DEF Held, EntryValues, Wire, WireValues
    <3> QED BY <3>1 DEF Share
  <2>2. [h \in Held |-> Share(n, h)] \in [Held -> Seq(WireValues)]
    BY <2>1
  <2> QED BY <2>2
<1>2. \A i \in DOMAIN es : f[es[i]] = Share(n, es[i])
  BY <1>1, LenProperties, ElementOfSeq
<1>3. q \in Seq(Held)
  BY AppendProperties
<1> HIDE DEF q
<1>4. \A i \in DOMAIN q : f[q[i]] = Share(n, q[i])
  BY <1>1, <1>3, LenProperties, ElementOfSeq
<1>5. /\ Appended(es, n) = FlattenSeq(Parts(f, es))
      /\ Appended(q, n) = FlattenSeq(Parts(f, q))
  <2>1. Parts(f, es) = [i \in DOMAIN es |-> Share(n, es[i])]
    BY <1>2 DEF Parts
  <2>2. Parts(f, q) = [i \in DOMAIN q |-> Share(n, q[i])]
    BY <1>4 DEF Parts
  <2> QED BY <2>1, <2>2 DEF Appended, Share
<1>6. /\ FlattenSeq(Parts(f, es)) \in Seq(WireValues)
      /\ FlattenSeq(Parts(f, q)) = FlattenSeq(Parts(f, es)) \o f[e]
  <2>1. FlatMaps(Held, WireValues)
    BY FlatMapEach
  <2> QED BY <2>1 DEF FlatMaps, q
<1> QED BY <1>1, <1>5, <1>6 DEF q

(* from_headers, a value at a time. *)
LEMMA DecodedAppend ==
    ASSUME NEW vs \in Seq(WireValues), NEW v \in WireValues, NEW n \in Names
    PROVE  /\ Decoded(n, vs) \in Seq(EntryValues) /\ Said(n, v) \in Seq(EntryValues)
           /\ Decoded(n, Append(vs, v)) = Decoded(n, vs) \o Said(n, v)
<1> DEFINE q == Append(vs, v)
<1>0. ASSUME NEW w \in WireValues PROVE Said(n, w) \in Seq(EntryValues)
  <2>1. Entry(n, w) \in EntryValues
    BY DEF WireValues, Entry, EntryValues, Spellings
  <2> QED BY <2>1 DEF Said
<1>1. PICK f \in [WireValues -> Seq(EntryValues)] :
          \A w \in WireValues : f[w] = Said(n, w)
  <2>1. [w \in WireValues |-> Said(n, w)] \in [WireValues -> Seq(EntryValues)]
    BY <1>0
  <2> QED BY <2>1
<1>2. \A i \in DOMAIN vs : f[vs[i]] = Said(n, vs[i])
  BY <1>1, LenProperties, ElementOfSeq
<1>3. q \in Seq(WireValues)
  BY AppendProperties
<1> HIDE DEF q
<1>4. \A i \in DOMAIN q : f[q[i]] = Said(n, q[i])
  BY <1>1, <1>3, LenProperties, ElementOfSeq
<1>5. /\ Decoded(n, vs) = FlattenSeq(Parts(f, vs))
      /\ Decoded(n, q) = FlattenSeq(Parts(f, q))
  <2>1. Parts(f, vs) = [i \in DOMAIN vs |-> Said(n, vs[i])]
    BY <1>2 DEF Parts
  <2>2. Parts(f, q) = [i \in DOMAIN q |-> Said(n, q[i])]
    BY <1>4 DEF Parts
  <2> QED BY <2>1, <2>2 DEF Decoded, Said
<1>6. /\ FlattenSeq(Parts(f, vs)) \in Seq(EntryValues)
      /\ FlattenSeq(Parts(f, q)) = FlattenSeq(Parts(f, vs)) \o f[v]
  <2>1. FlatMaps(WireValues, EntryValues)
    BY FlatMapEach
  <2> QED BY <2>1 DEF FlatMaps, q
<1> QED BY <1>0, <1>1, <1>5, <1>6 DEF q

(* Nothing appends nothing, and says nothing. *)
LEMMA NothingSaid ==
    ASSUME NEW n
    PROVE  Appended(<<>>, n) = <<>> /\ Decoded(n, <<>>) = <<>>
BY FlattenEmpty DEF Appended, Decoded

(* What entries append are values, and what values say are entries. *)
LEMMA SaidTypes ==
    /\ \A n : \A es \in Seq(Held) : Appended(es, n) \in Seq(WireValues)
    /\ \A vs \in Seq(WireValues), n \in Names : Decoded(n, vs) \in Seq(EntryValues)
<1>1. ASSUME NEW es \in Seq(Held), NEW n PROVE Appended(es, n) \in Seq(WireValues)
  <2>1. CASE es = <<>>
    BY <2>1, NothingSaid, EmptySeq
  <2>2. CASE es # <<>>
    <3>1. es[1] \in Held
      BY <2>2, EmptySeq, ElementOfSeq
    <3> QED BY <3>1, AppendedAppend
  <2> QED BY <2>1, <2>2
<1>2. ASSUME NEW vs \in Seq(WireValues), NEW n \in Names
      PROVE  Decoded(n, vs) \in Seq(EntryValues)
  <2>1. CASE vs = <<>>
    BY <2>1, NothingSaid, EmptySeq
  <2>2. CASE vs # <<>>
    <3>1. vs[1] \in WireValues
      BY <2>2, EmptySeq, ElementOfSeq
    <3> QED BY <3>1, DecodedAppend
  <2> QED BY <2>1, <2>2
<1> QED BY <1>1, <1>2

(* What was there says what it said, before what comes after it. *)
LEMMA DecodedConcat ==
    ASSUME NEW vs \in Seq(WireValues), NEW ws \in Seq(WireValues), NEW n \in Names
    PROVE  Decoded(n, vs \o ws) = Decoded(n, vs) \o Decoded(n, ws)
<1> DEFINE T == {r \in Seq(WireValues) :
                     Decoded(n, vs \o r) = Decoded(n, vs) \o Decoded(n, r)}
<1>0. \A s \in Seq(WireValues), v \in WireValues :
          /\ Decoded(n, s) \in Seq(EntryValues) /\ Said(n, v) \in Seq(EntryValues)
          /\ Decoded(n, Append(s, v)) = Decoded(n, s) \o Said(n, v)
  BY DecodedAppend
<1>1. <<>> \in T
  <2>1. Decoded(n, <<>>) = <<>> /\ <<>> \in Seq(WireValues)
    BY NothingSaid
  <2>2. vs \o <<>> = vs
    BY ConcatEmptySeq
  <2>3. Decoded(n, vs) \in Seq(EntryValues)
    BY SaidTypes
  <2>4. Decoded(n, vs) \o <<>> = Decoded(n, vs)
    BY <2>3, ConcatEmptySeq
  <2> QED BY <2>1, <2>2, <2>4
<1>2. ASSUME NEW r \in Seq(WireValues), NEW v \in WireValues, r \in T
      PROVE  Append(r, v) \in T
  <2>1. vs \o r \in Seq(WireValues) /\ Append(r, v) \in Seq(WireValues)
    BY ConcatProperties, AppendProperties
  <2>2. vs \o Append(r, v) = Append(vs \o r, v)
    <3>1. vs \o Append(r, v) \in Seq(WireValues) /\ Append(vs \o r, v) \in Seq(WireValues)
      BY <2>1, ConcatProperties, AppendProperties
    <3>2. Append(r, v) = r \o <<v>> /\ Append(vs \o r, v) = (vs \o r) \o <<v>>
      BY <2>1, AppendIsConcat
    <3>3. <<v>> \in Seq(WireValues)
      OBVIOUS
    <3>4. PICK c \in Seq(WireValues) : c = <<v>>
      BY <3>3
    <3>5. (vs \o r) \o c = vs \o (r \o c)
      BY ConcatAssociative
    <3> QED BY <3>2, <3>4, <3>5, Zenon
  <2>3. Decoded(n, Append(vs \o r, v)) = Decoded(n, vs \o r) \o Said(n, v)
    BY <1>0, <2>1
  <2>4. Decoded(n, Append(r, v)) = Decoded(n, r) \o Said(n, v)
    BY <1>0
  <2>5. PICK a, b, c \in Seq(EntryValues) :
            a = Decoded(n, vs) /\ b = Decoded(n, r) /\ c = Said(n, v)
    BY <1>0
  <2>6. (a \o b) \o c = a \o (b \o c)
    BY ConcatAssociative
  <2>7. Decoded(n, vs \o r) = Decoded(n, vs) \o Decoded(n, r)
    BY <1>2
  <2>8. Decoded(n, vs \o Append(r, v)) = Decoded(n, vs) \o Decoded(n, Append(r, v))
    BY <2>2, <2>3, <2>4, <2>5, <2>6, <2>7, Zenon
  <2> QED BY <2>1, <2>8
<1> HIDE DEF T
<1>3. Seq(WireValues) \subseteq T
  BY <1>1, <1>2, SeqInSet
<1> QED BY <1>3 DEF T

(* Counting the entries of a key up to a place. *)
Upto(es, n, k) == {i \in 1..n : es[i].key = k}

(* It is finite, and the next entry adds one if it has the key. *)
LEMMA UptoFinite ==
    ASSUME NEW es, NEW n \in Nat, NEW k
    PROVE  /\ IsFiniteSet(Upto(es, n, k)) /\ Cardinality(Upto(es, n, k)) \in Nat
           /\ IsFiniteSet(Upto(es, n + 1, k))
           /\ Cardinality(Upto(es, n + 1, k)) =
                  Cardinality(Upto(es, n, k)) + (IF es[n + 1].key = k THEN 1 ELSE 0)
<1> DEFINE S == Upto(es, n, k)
           R == Upto(es, n + 1, k)
<1>1. IsFiniteSet(1..n) /\ S \subseteq 1..n
  BY FS_Interval DEF Upto
<1>2. IsFiniteSet(S) /\ Cardinality(S) \in Nat
  BY <1>1, FS_Subset, FS_CardinalityType
<1>3. n + 1 \notin S
  BY DEF Upto
<1>4. R = IF es[n + 1].key = k THEN S \cup {n + 1} ELSE S
  <2>1. ASSUME NEW i PROVE i \in 1..(n + 1) <=> i \in 1..n \/ i = n + 1
    OBVIOUS
  <2> QED BY <2>1 DEF Upto
<1> HIDE DEF S, R
<1>5. IsFiniteSet(S \cup {n + 1}) /\ Cardinality(S \cup {n + 1}) = Cardinality(S) + 1
  BY <1>2, <1>3, FS_AddElement
<1> QED BY <1>2, <1>4, <1>5 DEF S, R

(* One more entry has the next place of its key, and moves no other. *)
LEMMA CountAppend ==
    ASSUME NEW S, NEW es \in Seq(S), NEW e \in S, NEW k
    PROVE  /\ Amount(es, k) \in Nat
           /\ Amount(Append(es, e), k) = Amount(es, k) + (IF e.key = k THEN 1 ELSE 0)
           /\ \A i \in 1..Len(es) : Place(Append(es, e), i) = Place(es, i)
           /\ Place(Append(es, e), Len(es) + 1) = Amount(es, e.key) + 1
<1> DEFINE q == Append(es, e)
           last == Len(es)
<1>1. /\ last \in Nat /\ DOMAIN es = 1..last /\ DOMAIN q = 1..(last + 1)
      /\ \A i \in 1..last : q[i] = es[i]
      /\ q[last + 1] = e
  BY AppendProperties, LenProperties
<1> HIDE DEF q, last
<1>2. \A c : \A n \in 0..last : Upto(q, n, c) = Upto(es, n, c)
  BY <1>1 DEF Upto
<1>3. ASSUME NEW c
      PROVE  Amount(es, c) \in Nat /\ Cardinality(Upto(q, last + 1, c)) =
                                          Amount(es, c) + (IF e.key = c THEN 1 ELSE 0)
  <2>1. Amount(es, c) = Cardinality(Upto(es, last, c))
    BY <1>1 DEF Amount, Upto
  <2>2. Upto(q, last, c) = Upto(es, last, c)
    BY <1>1, <1>2
  <2> QED BY <1>1, <2>1, <2>2, UptoFinite
<1>4. Amount(q, k) = Cardinality(Upto(q, last + 1, k))
  BY <1>1 DEF Amount, Upto
<1>5. ASSUME NEW i \in 1..last PROVE Place(q, i) = Place(es, i)
  <2>1. Place(q, i) = Cardinality(Upto(q, i, q[i].key))
    BY DEF Place, Upto
  <2>2. Place(es, i) = Cardinality(Upto(es, i, es[i].key))
    BY DEF Place, Upto
  <2>3. q[i] = es[i] /\ i \in 0..last
    BY <1>1
  <2> QED BY <1>2, <2>1, <2>2, <2>3
<1>6. Place(q, last + 1) = Cardinality(Upto(q, last + 1, q[last + 1].key))
  BY DEF Place, Upto
<1>7. Place(q, last + 1) = Amount(es, e.key) + 1
  BY <1>1, <1>3, <1>6
<1> QED BY <1>3, <1>4, <1>5, <1>7 DEF q, last

(* Entries come back from what they append, each in its place. *)
LEMMA OwnArrives ==
    ASSUME NEW es \in Seq(Held), NEW k \in Keys
    PROVE  LET got == Decoded(k, Appended(es, k))
           IN  /\ Len(got) = Amount(es, k) /\ Amount(es, k) \in Nat
               /\ \A i \in DOMAIN es : es[i].key = k =>
                      Place(es, i) \in 1..Amount(es, k) /\ got[Place(es, i)] = es[i]
<1> DEFINE Got(s) == Decoded(k, Appended(s, k))
           Back(s) == /\ Len(Got(s)) = Amount(s, k)
                      /\ \A i \in DOMAIN s : s[i].key = k =>
                             /\ Place(s, i) \in 1..Amount(s, k)
                             /\ Got(s)[Place(s, i)] = s[i]
           T == {s \in Seq(Held) : Back(s)}
<1>0. k \in Names
  BY DEF Names
<1>1. <<>> \in T
  <2>1. Got(<<>>) = <<>> /\ <<>> \in Seq(Held) /\ DOMAIN <<>> = {}
    BY NothingSaid
  <2>2. Amount(<<>>, k) = 0
    BY <2>1, FS_EmptySet DEF Amount
  <2> QED BY <2>1, <2>2
<1>2. ASSUME NEW s \in Seq(Held), NEW e \in Held, s \in T PROVE Append(s, e) \in T
  <2> DEFINE q == Append(s, e)
             last == Len(s)
  <2>1. /\ last \in Nat /\ q \in Seq(Held) /\ DOMAIN s = 1..last
        /\ DOMAIN q = 1..(last + 1) /\ \A i \in 1..last : q[i] = s[i]
        /\ q[last + 1] = e
    BY AppendProperties, LenProperties
  <2>2. /\ Amount(s, k) \in Nat
        /\ Amount(q, k) = Amount(s, k) + (IF e.key = k THEN 1 ELSE 0)
        /\ \A i \in 1..last : Place(q, i) = Place(s, i)
        /\ Place(q, last + 1) = Amount(s, e.key) + 1
    BY CountAppend
  <2>3. Appended(s, k) \in Seq(WireValues) /\ Appended(q, k) = Appended(s, k) \o Share(k, e)
    BY AppendedAppend
  <2> HIDE DEF q, last
  <2>4. CASE e.key # k
    <3>1. Got(q) = Got(s)
      <4>1. Appended(q, k) = Appended(s, k)
        BY <2>3, <2>4, ConcatEmptySeq DEF Share
      <4> QED BY <4>1
    <3>2. ASSUME NEW i \in DOMAIN q, q[i].key = k
          PROVE  i \in 1..last /\ q[i] = s[i] /\ Place(q, i) = Place(s, i)
      BY <2>1, <2>2, <2>4, <3>2
    <3>3. Back(s) /\ Amount(q, k) = Amount(s, k)
      BY <1>2, <2>2, <2>4
    <3>4. Back(q)
      <4> HIDE DEF Got
      <4> QED BY <2>1, <3>1, <3>2, <3>3
    <3> HIDE DEF Back
    <3> QED BY <2>1, <3>4 DEF q
  <2>5. CASE e.key = k
    <3>1. Wire(e) \in WireValues /\ Said(k, Wire(e)) = <<e>>
      <4>1. e = [key |-> e.key, binary |-> e.binary, value |-> e.value]
        BY DEF Held, EntryValues
      <4>2. e.binary <=> k \in BinKeys
        BY <2>5 DEF Held
      <4>3. Entry(k, Wire(e)) = e
        BY <2>5, <4>1, <4>2 DEF Entry, Wire, Held, EntryValues
      <4>4. Wire(e) \in WireValues /\ Readable(k, Wire(e))
        BY <4>2 DEF Held, EntryValues, Wire, WireValues, Readable
      <4> QED BY <4>3, <4>4 DEF Said
    <3>2. Appended(q, k) = Append(Appended(s, k), Wire(e))
      BY <2>3, <2>5, <3>1, AppendIsConcat DEF Share
    <3>3. /\ Got(s) \in Seq(EntryValues) /\ <<e>> \in Seq(EntryValues)
          /\ Got(q) = Got(s) \o <<e>>
      BY <1>0, <2>3, <3>1, <3>2, DecodedAppend
    <3>4. /\ Back(s) /\ Amount(q, k) = Amount(s, k) + 1
          /\ Place(q, last + 1) = Amount(s, k) + 1
      BY <1>2, <2>2, <2>5
    <3> DEFINE a == Amount(s, k)
    <3>5. /\ Len(Got(q)) = a + 1 /\ Got(q)[a + 1] = e
          /\ \A j \in 1..a : Got(q)[j] = Got(s)[j]
      <4>1. Len(Got(s)) = a /\ a \in Nat /\ e \in EntryValues
        BY <2>2, <3>4 DEF Held
      <4>2. PICK g \in Seq(EntryValues) : g = Got(s)
        BY <3>3
      <4>3. Got(q) = Append(g, e) /\ Len(g) = a
        BY <3>3, <4>1, <4>2, AppendIsConcat
      <4> HIDE DEF a, Got
      <4> QED BY <4>1, <4>2, <4>3, AppendProperties
    <3>6. ASSUME NEW i \in DOMAIN q, q[i].key = k
          PROVE  Place(q, i) \in 1..(a + 1) /\ Got(q)[Place(q, i)] = q[i]
      <4> HIDE DEF Got, a
      <4>1. CASE i = last + 1
        BY <2>1, <2>2, <3>4, <3>5, <4>1 DEF a
      <4>2. CASE i \in 1..last
        <5>1. q[i] = s[i] /\ Place(q, i) = Place(s, i) /\ i \in DOMAIN s
          BY <2>1, <2>2, <4>2
        <5>2. Place(s, i) \in 1..a /\ Got(s)[Place(s, i)] = s[i]
          BY <3>4, <3>6, <5>1 DEF a
        <5> QED BY <2>2, <3>5, <5>1, <5>2 DEF a
      <4> QED BY <2>1, <4>1, <4>2
    <3>7. Back(q)
      <4> HIDE DEF Got
      <4> QED BY <3>4, <3>5, <3>6
    <3> HIDE DEF Back
    <3> QED BY <2>1, <3>7 DEF q
  <2> QED BY <2>4, <2>5
<1> HIDE DEF T
<1>3. Seq(Held) \subseteq T
  BY <1>1, <1>2, SeqInSet
<1>4. Amount(es, k) \in Nat
  <2>1. Amount(es, k) = Cardinality(Upto(es, Len(es), k))
    BY LenProperties DEF Amount, Upto
  <2> QED BY <2>1, UptoFinite, LenProperties
<1> QED BY <1>3, <1>4 DEF T

(* Metadata of any length arrives: a key's entries are what from_headers makes of
   its last values, each in its turn, behind what was written under the key first,
   which says what it said.                                                     *)
THEOREM MetadataKept ==
    ASSUME NEW es \in Seq(Held), NEW k \in Keys, NEW prior \in Seq(WireValues)
    PROVE  LET got == Decoded(k, prior \o Appended(es, k))
           IN  /\ Len(got) = Len(Decoded(k, prior)) + Amount(es, k)
               /\ SubSeq(got, 1, Len(got) - Amount(es, k)) = Decoded(k, prior)
               /\ EndsWith(got, es, k)
<1> DEFINE first == Decoded(k, prior)
           own == Decoded(k, Appended(es, k))
           got == Decoded(k, prior \o Appended(es, k))
           amount == Amount(es, k)
<1>0. k \in Names
  BY DEF Names
<1>1. \A vs \in Seq(WireValues) : Decoded(k, vs) \in Seq(EntryValues)
  BY <1>0, SaidTypes
<1>2. Appended(es, k) \in Seq(WireValues)
  BY SaidTypes
<1>3. /\ first \in Seq(EntryValues) /\ own \in Seq(EntryValues)
      /\ got = first \o own
  BY <1>0, <1>1, <1>2, DecodedConcat
<1>4. /\ Len(own) = amount /\ amount \in Nat
      /\ \A i \in DOMAIN es : es[i].key = k =>
             Place(es, i) \in 1..amount /\ own[Place(es, i)] = es[i]
  BY OwnArrives
<1> HIDE DEF first, own, got, amount
<1>5. /\ got \in Seq(EntryValues) /\ Len(got) = Len(first) + amount /\ Len(first) \in Nat
      /\ \A i \in 1..(Len(first) + amount) :
             got[i] = IF i <= Len(first) THEN first[i] ELSE own[i - Len(first)]
  BY <1>3, <1>4, ConcatProperties, LenProperties
<1>6. SubSeq(got, 1, Len(got) - amount) = first
  <2>1. Len(got) - amount = Len(first)
    BY <1>4, <1>5
  <2>2. \A i \in 1..Len(first) : got[i] \in EntryValues
    BY <1>4, <1>5, ElementOfSeq
  <2>3. /\ SubSeq(got, 1, Len(first)) \in Seq(EntryValues)
        /\ Len(SubSeq(got, 1, Len(first))) = Len(first)
        /\ \A i \in 1..Len(first) : SubSeq(got, 1, Len(first))[i] = got[i]
    BY <1>5, <2>2, SubSeqProperties
  <2>4. \A i \in 1..Len(first) : got[i] = first[i]
    BY <1>4, <1>5
  <2>5. SubSeq(got, 1, Len(first)) = first
    BY <1>3, <2>3, <2>4, SeqEqual
  <2> QED BY <2>1, <2>5
<1>7. ASSUME NEW i \in DOMAIN es, es[i].key = k
      PROVE  got[Len(got) - amount + Place(es, i)] = es[i]
  <2>1. Place(es, i) \in 1..amount /\ own[Place(es, i)] = es[i]
    BY <1>4, <1>7
  <2>2. PICK p \in 1..amount : p = Place(es, i)
    BY <2>1
  <2>3. Len(got) - amount + p = Len(first) + p
    BY <1>4, <1>5
  <2>4. /\ Len(first) + p \in 1..(Len(first) + amount) /\ ~(Len(first) + p <= Len(first))
        /\ Len(first) + p - Len(first) = p
    BY <1>4, <1>5
  <2>5. got[Len(first) + p] = own[p]
    BY <1>5, <2>4
  <2> QED BY <2>1, <2>2, <2>3, <2>5
<1> QED BY <1>5, <1>6, <1>7 DEF EndsWith, first, got, amount

(* write_into leaves the values of a key before those it appends. *)
LEMMA WriteIntoSays ==
    ASSUME NEW es \in Seq(Held), NEW h, NEW k \in Names, h[k] \in Seq(WireValues)
    PROVE  WriteInto(es, h)[k] = h[k] \o Appended(es, k)
<1> DEFINE T == {s \in Seq(Held) : k \notin KeysOf(s) => Appended(s, k) = <<>>}
<1>1. <<>> \in T
  BY NothingSaid
<1>2. ASSUME NEW s \in Seq(Held), NEW e \in Held, s \in T PROVE Append(s, e) \in T
  <2> DEFINE q == Append(s, e)
  <2>1. /\ q \in Seq(Held) /\ DOMAIN s = 1..Len(s) /\ DOMAIN q = 1..(Len(s) + 1)
        /\ \A i \in 1..Len(s) : q[i] = s[i]
        /\ q[Len(s) + 1] = e /\ Len(s) \in Nat
    BY AppendProperties, LenProperties
  <2>2. Appended(q, k) = Appended(s, k) \o Share(k, e)
    BY AppendedAppend
  <2> HIDE DEF q
  <2>3. ASSUME k \notin KeysOf(q) PROVE k \notin KeysOf(s) /\ e.key # k
    BY <2>1, <2>3 DEF KeysOf
  <2>4. ASSUME k \notin KeysOf(q) PROVE Appended(q, k) = <<>>
    BY <1>2, <2>2, <2>3, <2>4 DEF Share
  <2> QED BY <2>1, <2>4 DEF q
<1> HIDE DEF T
<1>3. Seq(Held) \subseteq T
  BY <1>1, <1>2, SeqInSet
<1>4. CASE k \in KeysOf(es)
  BY <1>4 DEF WriteInto
<1>5. CASE k \notin KeysOf(es)
  <2>1. Appended(es, k) = <<>>
    BY <1>3, <1>5 DEF T
  <2> QED BY <1>5, <2>1, ConcatEmptySeq DEF WriteInto
<1> QED BY <1>4, <1>5

(* A key belongs to the application. *)
LEMMA KeysApart ==
    ASSUME NEW k \in Keys
    PROVE  k \in Names /\ IsValidKey(k) /\ ~IsReserved(k)
BY KeysAssumption DEF Names, Keys, IsValidKey, IsReserved
===============================================================================
