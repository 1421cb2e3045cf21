-------------------------- MODULE GrpcTimeout_proofs --------------------------
(* What the grpc-timeout codec does to any duration, for any table of units. *)
EXTENDS GrpcTimeout, WellFoundedInduction, TLAPS

(* Rounding up to a unit covers the duration, by less than one unit. *)
LEMMA DivCeilBounds ==
    ASSUME NEW n \in Nat, NEW unit \in Nat \ {0}
    PROVE  /\ DivCeil(n, unit) \in Nat
           /\ n <= DivCeil(n, unit) * unit
           /\ DivCeil(n, unit) * unit < n + unit
<1> DEFINE q == (n + unit - 1) \div unit
<1>1. /\ q \in Int
      /\ (n + unit - 1) = unit * q + ((n + unit - 1) % unit)
      /\ (n + unit - 1) % unit \in 0..(unit - 1)
  OBVIOUS
<1> QED BY <1>1 DEF DivCeil

(* A product is monotonic in its first factor. *)
LEMMA TimesMonotone ==
    ASSUME NEW m \in Nat, NEW n \in Nat, NEW k \in Nat, m <= n
    PROVE  m * k <= n * k
<1>1. n * k = m * k + (n - m) * k
  OBVIOUS
<1>2. (n - m) * k >= 0
  OBVIOUS
<1>3. m * k \in Int /\ n * k \in Int /\ (n - m) * k \in Int
  OBVIOUS
<1> QED BY <1>1, <1>2, <1>3

(* So is a quotient in its dividend. *)
LEMMA DivMonotone ==
    ASSUME NEW m \in Nat, NEW n \in Nat, NEW k \in Nat \ {0}, m <= n
    PROVE  m \div k <= n \div k
<1> DEFINE p == m \div k
           q == n \div k
<1>1. p \in Int /\ q \in Int /\ k * p <= m /\ n < k * q + k
  OBVIOUS
<1>2. SUFFICES ASSUME q + 1 <= p PROVE FALSE
  BY <1>1
<1>3. k * (p - (q + 1)) >= 0
  BY <1>1, <1>2
<1>4. k * (p - (q + 1)) = k * p - k * q - k
  BY <1>1
<1>5. k * p \in Int /\ k * q \in Int
  BY <1>1
<1> QED BY <1>1, <1>3, <1>4, <1>5

(* A nonempty set of numbers has a smallest one. *)
LEMMA FirstFit ==
    ASSUME NEW T \in SUBSET Nat, T # {}
    PROVE  \E i \in T : \A j \in T : i <= j
<1>1. IsWellFoundedOn(OpToRel(<, Nat), Nat)
  BY NatLessThanWellFounded
<1>2. PICK i \in T : \A j \in T : ~(<<j, i>> \in OpToRel(<, Nat))
  BY <1>1, WFMin
<1>3. \A j \in T : ~(j < i)
  BY <1>2 DEF OpToRel
<1> QED BY <1>3

(* The table is what UNITS is. *)
LEMMA UnitsFacts ==
    /\ Len(Units) \in Nat \ {0} /\ DOMAIN Units = 1..Len(Units)
    /\ \A i \in DOMAIN Units : Units[i] \in Nat \ {0}
    /\ \A i \in DOMAIN Units : Units[i] <= Units[Len(Units)]
    /\ Longest \in Nat
<1>1. Units \in Seq(Nat \ {0}) /\ Units # <<>>
  BY UnitsAssumption
<1>2. Len(Units) \in Nat \ {0} /\ DOMAIN Units = 1..Len(Units)
  BY <1>1
<1>3. \A i \in DOMAIN Units : Units[i] \in Nat \ {0}
  BY <1>1
<1>4. \A i \in DOMAIN Units : Units[i] <= Units[Len(Units)]
  BY <1>2, <1>3, UnitsAssumption
<1>5. Longest \in Nat
  BY <1>2, <1>3, WidthAssumption DEF Longest
<1> QED BY <1>2, <1>3, <1>4, <1>5

(* What fits a unit is no longer than the longest duration. *)
LEMMA FitsIsSayable ==
    ASSUME NEW d \in Nat, NEW i \in DOMAIN Units, Fits(d, i)
    PROVE  DivCeil(d, Units[i]) * Units[i] <= Longest
<1> DEFINE v == DivCeil(d, Units[i])
           u == Units[i]
           w == Units[Len(Units)]
<1>1. u \in Nat \ {0} /\ w \in Nat /\ u <= w
  BY UnitsFacts
<1>2. v \in Nat /\ v <= MaxValue /\ MaxValue \in Nat
  BY <1>1, DivCeilBounds, WidthAssumption DEF Fits
<1>3. Longest = MaxValue * w
  BY DEF Longest
<1> HIDE DEF u, v, w
<1>4. v * u <= MaxValue * u /\ u * MaxValue <= w * MaxValue
  BY <1>1, <1>2, TimesMonotone
<1>5. u * MaxValue = MaxValue * u /\ w * MaxValue = MaxValue * w
  BY <1>1, <1>2
<1>6. v * u \in Int /\ MaxValue * u \in Int /\ MaxValue * w \in Int
  BY <1>1, <1>2
<1>7. v * u <= Longest
  BY <1>3, <1>4, <1>5, <1>6
<1> QED BY <1>7 DEF u, v

(* Every duration up to the longest fits the largest unit. *)
LEMMA SayableFits ==
    ASSUME NEW d \in Nat, d <= Longest
    PROVE  Fits(d, Len(Units))
<1> DEFINE u == Units[Len(Units)]
           v == DivCeil(d, u)
<1>1. u \in Nat \ {0} /\ MaxValue \in Nat
  BY UnitsFacts, WidthAssumption
<1>2. v \in Nat /\ v * u < d + u /\ d <= MaxValue * u
  BY <1>1, DivCeilBounds DEF Longest
<1>3. SUFFICES ASSUME MaxValue + 1 <= v PROVE FALSE
  BY <1>1, <1>2 DEF Fits
<1> HIDE DEF u, v
<1>4. (MaxValue + 1) * u <= v * u
  BY <1>1, <1>2, <1>3, TimesMonotone
<1>5. (MaxValue + 1) * u = MaxValue * u + u
  BY <1>1
<1>6. v * u \in Int /\ MaxValue * u \in Int
  BY <1>1, <1>2
<1> QED BY <1>1, <1>2, <1>4, <1>5, <1>6

(* format_grpc_timeout never says less than it was given, nor a unit more, and  *)
(* saturates only what no header can say; what it writes has at most the digits *)
(* the protocol allows.                                                         *)
THEOREM FormatCovers ==
    ASSUME NEW d \in Nat
    PROVE  LET h == Format(d)
           IN  /\ h.unit \in DOMAIN Units /\ h.value \in 0..MaxValue
               /\ h.value * Units[h.unit] \in 0..Longest
               /\ d <= Longest => /\ d <= h.value * Units[h.unit]
                                  /\ h.value * Units[h.unit] < d + Units[h.unit]
               /\ d > Longest => h.value * Units[h.unit] = Longest
<1> DEFINE S == {i \in DOMAIN Units : Fits(d, i)}
           First(i) == Fits(d, i) /\ \A j \in 1..(i - 1) : ~Fits(d, j)
<1>1. CASE S = {}
  <2>1. Format(d) = [value |-> MaxValue, unit |-> Len(Units)]
    BY <1>1 DEF Format
  <2>2. ~(d <= Longest)
    BY <1>1, SayableFits, UnitsFacts
  <2>3. Len(Units) \in DOMAIN Units /\ MaxValue \in Nat /\ Longest \in Nat
    BY UnitsFacts, WidthAssumption
  <2>4. MaxValue * Units[Len(Units)] = Longest
    BY DEF Longest
  <2> QED BY <2>1, <2>2, <2>3, <2>4
<1>2. CASE S # {}
  <2>1. PICK i \in S : \A j \in S : i <= j
    <3>1. S \in SUBSET Nat
      BY UnitsFacts
    <3> HIDE DEF S
    <3> QED BY <1>2, <3>1, FirstFit
  <2>2. First(i)
    BY <2>1, UnitsFacts
  <2> DEFINE f == CHOOSE k \in DOMAIN Units : First(k)
             v == DivCeil(d, Units[f])
  <2>3. f \in DOMAIN Units /\ First(f)
    BY <2>1, <2>2
  <2>4. Format(d) = [value |-> v, unit |-> f]
    BY <1>2 DEF Format
  <2>5. Units[f] \in Nat \ {0} /\ Longest \in Nat
    BY <2>3, UnitsFacts
  <2>6. /\ v \in Nat /\ d <= v * Units[f] /\ v * Units[f] < d + Units[f]
        /\ v <= MaxValue /\ v * Units[f] <= Longest
    BY <2>3, <2>5, DivCeilBounds, FitsIsSayable DEF Fits
  <2>7. v * Units[f] \in Nat
    BY <2>5, <2>6
  <2> HIDE DEF v, f
  <2> QED BY <2>3, <2>4, <2>5, <2>6, <2>7, WidthAssumption
<1> QED BY <1>1, <1>2

(* parse_grpc_timeout reads whatever format_grpc_timeout writes. *)
THEOREM ParseFormat ==
    ASSUME NEW d \in Nat
    PROVE  Parse(Format(d)) = <<Format(d).value * Units[Format(d).unit]>>
<1> DEFINE h == Format(d)
           t == h.value * Units[h.unit]
<1>1. h.unit \in DOMAIN Units /\ h.value \in 0..MaxValue /\ t \in 0..Longest
  BY FormatCovers
<1>2. t \in Nat /\ Longest \in Nat /\ Second \in Nat \ {0} /\ t <= Longest
  BY <1>1, UnitsFacts, WidthAssumption
<1>3. t \div Second <= Longest \div Second
  <2> HIDE DEF t
  <2> QED BY <1>2, DivMonotone
<1>4. Longest \div Second <= MaxU64
  BY WidthAssumption DEF Longest
<1>5. t \div Second \in Int /\ Longest \div Second \in Int
  <2> HIDE DEF t
  <2> QED BY <1>2
<1>6. h.value <= MaxU64 /\ t \div Second <= MaxU64
  BY <1>1, <1>3, <1>4, <1>5, WidthAssumption
<1> QED BY <1>1, <1>6 DEF Parse
=============================================================================
