-------------------------------- MODULE Status --------------------------------
(***************************************************************************)
(* src/src/status.rs: a status as the trailers carry it.  A message is its   *)
(* bytes of UTF-8, which Utf8 tells from other bytes; a grpc-status header   *)
(* is the name of its code, or any other text.                              *)
(***************************************************************************)
EXTENDS Metadata

CONSTANTS
    Utf8,          \* the sequences of bytes that are UTF-8
    Replacement    \* what from_utf8_lossy makes of any other
ASSUME Utf8Assumption == <<>> \in Utf8 /\ Utf8 \subseteq Seq(0..255)

Codes == {"Ok", "Cancelled", "Unknown", "InvalidArgument", "DeadlineExceeded",
          "NotFound", "AlreadyExists", "PermissionDenied", "ResourceExhausted",
          "FailedPrecondition", "Aborted", "OutOfRange", "Unimplemented", "Internal",
          "Unavailable", "DataLoss", "Unauthenticated"}

(* Status::new, with_metadata and the constructors named for a code. *)
NewStatus(code, message, entries) ==
    [code |-> code, message |-> message, metadata |-> entries]
StatusValues == [code : Codes, message : Utf8, metadata : Seq(Held)]

Percent == 37                                        \* b'%'
HexNibble(n) == IF n <= 9 THEN 48 + n ELSE 65 + n - 10
HexValue(b) ==
    CASE b \in 48..57  -> <<b - 48>>
      [] b \in 97..102 -> <<b - 97 + 10>>
      [] b \in 65..70  -> <<b - 65 + 10>>
      [] OTHER         -> <<>>

(* percent_encode *)
Encoded(b) == IF b \in 32..126 /\ b # Percent THEN <<b>>
              ELSE <<Percent, HexNibble(b \div 16), HexNibble(b % 16)>>
PercentEncode(message) == FlattenSeq([i \in DOMAIN message |-> Encoded(message[i])])

(* percent_decode: the byte that an escape at s[i] stands for, and what the bytes   *)
(* from each one on say.                                                          *)
IsEscape(s, i) ==
    /\ s[i] = Percent /\ i + 2 <= Len(s)
    /\ HexValue(s[i + 1]) # <<>> /\ HexValue(s[i + 2]) # <<>>
Escaped(s, i) == HexValue(s[i + 1])[1] * 16 + HexValue(s[i + 2])[1]
DecodeFrom(s) ==
    LET decode[i \in 1..(Len(s) + 1)] ==
            IF i > Len(s) THEN <<>>
            ELSE IF IsEscape(s, i) THEN <<Escaped(s, i)>> \o decode[i + 3]
            ELSE <<s[i]>> \o decode[i + 1]
    IN  decode
PercentDecode(s) ==
    LET bytes == DecodeFrom(s)[1]
    IN  IF bytes \in Utf8 THEN bytes ELSE Replacement

(* Mutation: the status is added to what the handler wrote. *)
StatusWriteIntoAppends(status, headers) ==
    LET coded == AppendTo(headers, "grpc-status", status.code)
    IN  WriteInto(status.metadata,
            IF status.message = <<>> THEN coded
            ELSE AppendTo(coded, "grpc-message", PercentEncode(status.message)))

(* write_into *)
StatusWriteInto(status, headers) ==
    LET coded == Insert(headers, "grpc-status", status.code)
    IN  WriteInto(status.metadata,
            IF status.message = <<>> THEN coded
            ELSE Insert(coded, "grpc-message", PercentEncode(status.message)))

(* from_trailers: Ok says nothing else; no code, or none we know, is Unknown. *)
FromTrailers(headers) ==
    LET said == GetStr(headers, "grpc-status")
        code == IF said # <<>> /\ said[1] \in Codes THEN said[1] ELSE "Unknown"
        text == GetStr(headers, "grpc-message")
    IN  IF code = "Ok" THEN NewStatus("Ok", <<>>, FromHeaders(NoHeaders))
        ELSE NewStatus(code, IF text = <<>> THEN <<>> ELSE PercentDecode(text[1]),
                       FromHeaders(headers))
===============================================================================
