------------------------------- MODULE Metadata -------------------------------
(***************************************************************************)
(* src/src/metadata.rs over trillium's Headers.  A map of headers gives      *)
(* every name its values in order, none for an absent one.  Two spellings of *)
(* a name that differ in case are one name there and on the wire, which is   *)
(* here its lowercase, as from_headers makes it.  Only the order of a key's  *)
(* own values is kept: the order of the names of a Headers is nobody's.      *)
(***************************************************************************)
EXTENDS SequencesExt

CONSTANTS
    AsciiKeys,     \* valid keys that belong to the application,
    BinKeys,       \* those of them that end in -bin,
    BadKeys,       \* lowercase names with a character outside of [0-9a-z_\-.]
    Capitals,      \* the lowercase of each name that is not
    Values,        \* what the value of an entry or a header may be,
    Texts,         \* those of them that are UTF-8,
    Printable      \* and those that are texts of bytes 0x20 to 0x7E

Reserved == {"content-type", "te", "grpc-accept-encoding", "grpc-encoding",
             "grpc-timeout", "grpc-status", "grpc-message"}
Keys == AsciiKeys \cup BinKeys
Names == Reserved \cup Keys \cup BadKeys
ASSUME KeysAssumption ==
    /\ AsciiKeys \cap BinKeys = {} /\ Keys \cap BadKeys = {}
    /\ Reserved \cap (Keys \cup BadKeys) = {}
    /\ DOMAIN Capitals \cap Names = {} /\ \A n \in DOMAIN Capitals : Capitals[n] \in Names
    /\ Printable \subseteq Texts /\ Texts \subseteq Values
Spellings == Names \cup DOMAIN Capitals
Lowercase(n) == IF n \in DOMAIN Capitals THEN Capitals[n] ELSE n

(* trillium's Headers: insert replaces, append adds, get_str wants one value. *)
NoHeaders == [n \in Names |-> <<>>]
Insert(headers, n, value) == [headers EXCEPT ![n] = <<value>>]
AppendTo(headers, n, value) == [headers EXCEPT ![n] = Append(@, value)]
GetStr(headers, n) == IF Len(headers[n]) = 1 THEN headers[n] ELSE <<>>

IsValidKey(key) == key \notin BadKeys \cup DOMAIN Capitals
IsReserved(key) == key \in Reserved

(* insert_ascii and insert_binary: what they accept; they push it at the end. *)
AcceptsAscii(key, value) ==
    /\ IsValidKey(key) /\ ~IsReserved(key) /\ key \notin BinKeys
    /\ value \in Printable
AcceptsBinary(key) == IsValidKey(key) /\ ~IsReserved(key) /\ key \in BinKeys
Ascii(key, value) == [key |-> key, binary |-> FALSE, value |-> value]
Binary(key, value) == [key |-> key, binary |-> TRUE, value |-> value]
Accepts(e) == IF e.binary THEN AcceptsBinary(e.key) ELSE AcceptsAscii(e.key, e.value)

(* What a Metadata holds: what they accept, or from_headers keeps. *)
EntryValues == [key : Spellings, binary : BOOLEAN, value : Values]
Held == {e \in EntryValues : /\ IsValidKey(e.key) /\ ~IsReserved(e.key)
                             /\ e.binary <=> e.key \in BinKeys
                             /\ e.binary \/ e.value \in Texts}

(* A value on the wire: text, which is or is not the base64 of some bytes. *)
Wire(e) == [base64 |-> e.binary, value |-> e.value]
WireValues == [base64 : BOOLEAN, value : Values]

(* What entries append to the name n, each in its turn. *)
Appended(entries, n) ==
    FlattenSeq([i \in DOMAIN entries |->
        IF entries[i].key = n THEN <<Wire(entries[i])>> ELSE <<>>])
KeysOf(entries) == {entries[i].key : i \in DOMAIN entries}

(* Mutation: the entries replace the earlier values of their key. *)
WriteIntoReplaces(entries, headers) ==
    [n \in Names |-> IF n \in KeysOf(entries) THEN Appended(entries, n) ELSE headers[n]]

(* write_into *)
WriteInto(entries, headers) ==
    [n \in Names |-> IF n \in KeysOf(entries) THEN headers[n] \o Appended(entries, n)
                     ELSE headers[n]]

(* from_headers: what a name's values say, those it cannot decode left out. *)
Entry(n, v) == [key |-> n, binary |-> n \in BinKeys, value |-> v.value]
Readable(n, v) == v.base64 \/ (n \notin BinKeys /\ v.value \in Texts)
Decoded(n, values) ==
    FlattenSeq([i \in DOMAIN values |->
        IF Readable(n, values[i]) THEN <<Entry(n, values[i])>> ELSE <<>>])
FromHeaders(headers) ==
    [n \in {m \in Names : IsValidKey(m) /\ ~IsReserved(m)} |-> Decoded(n, headers[n])]

-----------------------------------------------------------------------------
(* That the last values of a key are the entries given for it, in their order. *)
Amount(entries, k) == Cardinality({i \in DOMAIN entries : entries[i].key = k})
Place(entries, i) == Cardinality({j \in 1..i : entries[j].key = entries[i].key})
EndsWith(values, entries, k) ==
    \A i \in DOMAIN entries : entries[i].key = k =>
        values[Len(values) - Amount(entries, k) + Place(entries, i)] = entries[i]
===============================================================================
