----------------------------- MODULE GrpcTimeout -----------------------------
(***************************************************************************)
(* The grpc-timeout header of src/src/timeout.rs.  A duration is a number of *)
(* nanoseconds; a header value is its digits, as a number, and its suffix,   *)
(* as an index into Units, 0 for one that is not in the table.  An Option is *)
(* a sequence of at most one element.                                       *)
(***************************************************************************)
EXTENDS Integers, Sequences

CONSTANTS
    Units,       \* UNITS: the nanoseconds of each unit, smallest first
    MaxValue,    \* MAX_VALUE: the largest number of eight digits
    Second,      \* nanoseconds in a second
    MaxU64       \* u64::MAX

ASSUME UnitsAssumption ==
    /\ Units \in Seq(Nat \ {0}) /\ Units # <<>> /\ Units[1] = 1
    /\ \A i, j \in DOMAIN Units : i < j => Units[i] < Units[j]
ASSUME WidthAssumption ==
    /\ MaxValue \in Nat /\ MaxU64 \in Nat /\ Second \in Nat \ {0}
    /\ MaxValue <= MaxU64
    /\ (MaxValue * Units[Len(Units)]) \div Second <= MaxU64

(* u128::div_ceil *)
DivCeil(n, unit) == (n + unit - 1) \div unit

Fits(nanos, i) == DivCeil(nanos, Units[i]) <= MaxValue

(* Mutation: the value is rounded down. *)
FormatRoundsDown(nanos) ==
    IF \E i \in DOMAIN Units : Fits(nanos, i)
    THEN LET i == CHOOSE i \in DOMAIN Units :
                      Fits(nanos, i) /\ \A j \in 1..(i - 1) : ~Fits(nanos, j)
         IN  [value |-> nanos \div Units[i], unit |-> i]
    ELSE [value |-> MaxValue, unit |-> Len(Units)]

(* format_grpc_timeout: the first unit in which the value fits. *)
Format(nanos) ==
    IF \E i \in DOMAIN Units : Fits(nanos, i)
    THEN LET i == CHOOSE i \in DOMAIN Units :
                      Fits(nanos, i) /\ \A j \in 1..(i - 1) : ~Fits(nanos, j)
         IN  [value |-> DivCeil(nanos, Units[i]), unit |-> i]
    ELSE [value |-> MaxValue, unit |-> Len(Units)]

(* parse_grpc_timeout: any u64 before the suffix, and seconds that fit a u64. *)
Parse(header) ==
    IF /\ header.value <= MaxU64 /\ header.unit \in DOMAIN Units
       /\ (header.value * Units[header.unit]) \div Second <= MaxU64
    THEN <<header.value * Units[header.unit]>>
    ELSE <<>>

(* The longest duration that can be said. *)
Longest == MaxValue * Units[Len(Units)]
=============================================================================
