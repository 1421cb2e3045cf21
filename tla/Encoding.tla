------------------------------- MODULE Encoding -------------------------------
(***************************************************************************)
(* The per-message codecs of src/src/encoding.rs and the frame a message is  *)
(* put into.  A build is the set of codecs its Cargo features compiled in;   *)
(* a list of tokens is the set of them, as the code only searches it.  A     *)
(* message is its size, a frame the codec its payload went through, its      *)
(* length on the wire and the size it expands to.                           *)
(***************************************************************************)
EXTENDS Integers

CONSTANT MaxSize    \* DEFAULT_MAX_MESSAGE_SIZE
ASSUME SizeAssumption == MaxSize \in Nat

Codecs == {"gzip", "deflate", "zstd"}

(* Encoding::ALL, the tokens of accepted_encodings. *)
All(build) == {"identity"} \cup build

(* from_grpc_encoding: no encoding for a token that the build does not know. *)
FromGrpcEncoding(build, token) == IF token \in All(build) THEN <<token>> ELSE <<>>

(* The order of Encoding::ALL after Identity. *)
Rank == [gzip |-> 1, deflate |-> 2, zstd |-> 3]
Preferred(common) ==
    IF common = {} THEN "identity"
    ELSE CHOOSE e \in common : \A f \in common : Rank[e] <= Rank[f]

(* encode_payload: compress expands or shrinks size bytes to length bytes. *)
EncodePayload(size, encoding, length) ==
    [compressed |-> encoding # "identity", codec |-> encoding,
     length |-> IF encoding = "identity" THEN size ELSE length, size |-> size]

(* What comes out of a frame: a code, and the size of the message if it is Ok. *)
Bytes(size) == [code |-> "Ok", size |-> size]
Refused(code) == [code |-> code, size |-> 0]

(* Mutation: a byte less is read, so that a long message is cut, not refused. *)
ReadCappedShort(size) ==
    LET out == IF size > MaxSize THEN MaxSize ELSE size
    IN  IF out > MaxSize THEN Refused("ResourceExhausted") ELSE Bytes(out)

(* read_capped: at most MaxSize + 1 bytes are read. *)
ReadCapped(size) ==
    LET out == IF size > MaxSize + 1 THEN MaxSize + 1 ELSE size
    IN  IF out > MaxSize THEN Refused("ResourceExhausted") ELSE Bytes(out)

(* decompress: the codec reads only what it has written. *)
Decompress(frame, encoding) ==
    IF frame.codec # encoding THEN Refused("Internal") ELSE ReadCapped(frame.size)

(* poll_read_message, from the prefix of a frame that has arrived whole. *)
ReadMessage(frame, encoding) ==
    CASE frame.length > MaxSize -> Refused("ResourceExhausted")
      [] frame.length <= MaxSize /\ ~frame.compressed -> Bytes(frame.size)
      [] frame.length <= MaxSize /\ frame.compressed /\ encoding = "identity" ->
             Refused("Internal")
      [] OTHER -> Decompress(frame, encoding)
===============================================================================
