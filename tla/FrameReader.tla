----------------------------- MODULE FrameReader -----------------------------
(***************************************************************************)
(* The length-prefixed message reader of src/src/frame/reader.rs: the      *)
(* ReadState machine that poll_read_message drives over an AsyncRead, as   *)
(* used by MessageStream, RequestStream, Channel and GrpcClientConn.       *)
(*                                                                         *)
(* The peer writes a sequence of frames (src/src/frame/writer.rs); the     *)
(* byte stream may be cut anywhere, by END_STREAM or by an I/O error.  A   *)
(* byte is only a position: `cur' and `off' say which frame the transport  *)
(* is in and how many of its bytes were handed over; `filled' is what the  *)
(* reader believes.  One step is one poll_read that returned Ready, with   *)
(* everything the loop does before its next poll_read or its return; a     *)
(* poll_read that returns Pending changes nothing.                         *)
(***************************************************************************)
EXTENDS Integers, Sequences

CONSTANTS
    PrefixLen,        \* bytes of the frame prefix (5 in the code)
    MaxMessageSize,   \* max_message_size
    Frames,           \* the frames a peer may write
    MaxFrames         \* bound: frames in one stream

Content == {"message", "undecodable", "corrupt", "oversized"}

(* A frame as it is on the wire: the Compressed-Flag, the length of the
   payload, and what the payload turns out to be once inflated and decoded. *)
Frame == [compressed : BOOLEAN, len : Nat, content : Content]

(* encode_payload: one frame per message; the flag is set exactly when an
   encoding other than Identity is in use.                                  *)
EncodedFrame(len, identity) ==
    [compressed |-> ~identity, len |-> len, content |-> "message"]

ASSUME PrefixAssumption == PrefixLen \in Nat \ {0}
ASSUME SizeAssumption == MaxMessageSize \in Nat
ASSUME FramesAssumption == Frames \subseteq Frame
ASSUME MaxFramesAssumption == MaxFrames \in Nat

VARIABLES
    frames,       \* the frames of this stream, in order
    lastSent,     \* how many bytes of the last frame were sent
    ending,       \* how the byte stream ends: "eof" or "error"
    encoded,      \* the encoding negotiated for the stream is not Identity
    cur, off,     \* transport: next unread byte is byte off of frame cur
    phase,        \* ReadState: its variant
    filled,       \* ReadState: bytes in the prefix or payload buffer
    payloadLen,   \* ReadState::ReadingPayload: payload.len()
    compressed,   \* ReadState::ReadingPayload: compressed
    items,        \* history: the Some(..) results, in order
    ended         \* history: the caller was told None

wire == <<frames, lastSent, ending, encoded>>
readState == <<phase, filled, payloadLen, compressed>>
vars == <<wire, cur, off, readState, items, ended>>

FrameSize(f) == PrefixLen + f.len

(* How many bytes of frame i were sent before the stream ended. *)
Sent(i) == IF i = Len(frames) THEN lastSent ELSE FrameSize(frames[i])

(* No unread byte is left: poll_read reports how the stream ended. *)
Drained == cur <= Len(frames) => off = Sent(cur)

Codes == {"Internal", "InvalidArgument", "ResourceExhausted", "Unavailable"}
Results == {"Ok"} \cup Codes

(* Mutation: the wrong code for a payload that cannot be inflated. *)
WrongInflateCode(f, flag) ==
    CASE flag /\ ~encoded -> "Unimplemented"
      [] flag /\ encoded /\ f.content = "corrupt" -> "DataLoss"
      [] OTHER -> "Ok"

(* decompress and decode of a complete payload (the tail of the loop). *)
PayloadResult(f, flag) ==
    CASE flag /\ ~encoded -> "Internal"
      [] flag /\ encoded /\ f.content = "corrupt" -> "Internal"
      [] flag /\ encoded /\ f.content = "oversized" -> "ResourceExhausted"
      [] flag /\ encoded /\ f.content = "undecodable" -> "InvalidArgument"
      [] ~flag /\ f.content # "message" -> "InvalidArgument"
      [] OTHER -> "Ok"

Init ==
    /\ frames \in UNION {[1..n -> Frames] : n \in 0..MaxFrames}
    /\ lastSent \in IF frames = <<>> THEN {0}
                    ELSE 1..FrameSize(frames[Len(frames)])
    /\ ending \in {"eof", "error"} /\ encoded \in BOOLEAN
    /\ cur = 1 /\ off = 0
    /\ phase = "ReadingPrefix" /\ filled = 0
    /\ payloadLen = 0 /\ compressed = FALSE
    /\ items = <<>> /\ ended = FALSE

-----------------------------------------------------------------------------
(* The transport hands n bytes over; a frame's last byte moves on to the next. *)
Consume(n) ==
    IF off + n = FrameSize(frames[cur])
    THEN cur' = cur + 1 /\ off' = 0
    ELSE cur' = cur /\ off' = off + n

Yield(result) == items' = Append(items, [of |-> cur, res |-> result])

(* Mutation: the next prefix is read from where the last payload ended. *)
ResetKeepsFilled ==
    /\ phase' = "ReadingPrefix" /\ filled' = filled
    /\ payloadLen' = 0 /\ compressed' = FALSE

(* ReadState::new() *)
ResetReadState ==
    /\ phase' = "ReadingPrefix" /\ filled' = 0
    /\ payloadLen' = 0 /\ compressed' = FALSE

Finish ==
    /\ phase' = "Done" /\ filled' = 0
    /\ payloadLen' = 0 /\ compressed' = FALSE

(* A complete payload: the state is reset before the payload is looked at. *)
Deliver(f, flag) == ResetReadState /\ Yield(PayloadResult(f, flag))

(* Mutation: >= for > in the size check. *)
ParsePrefixOffByOne(f) ==
    \/ f.len >= MaxMessageSize /\ Finish /\ Yield("ResourceExhausted")
    \/ f.len = 0 /\ 0 < MaxMessageSize /\ Deliver(f, f.compressed)
    \/ /\ f.len \in 1..(MaxMessageSize - 1)
       /\ phase' = "ReadingPayload" /\ filled' = 0
       /\ payloadLen' = f.len /\ compressed' = f.compressed
       /\ UNCHANGED items

(* The five prefix bytes are in: reject, deliver an empty message, or go on
   to the payload.                                                          *)
ParsePrefix(f) ==
    \/ /\ f.len > MaxMessageSize
       /\ Finish
       /\ Yield("ResourceExhausted")
    \/ /\ f.len = 0
       /\ Deliver(f, f.compressed)
    \/ /\ f.len \in 1..MaxMessageSize
       /\ phase' = "ReadingPayload" /\ filled' = 0
       /\ payloadLen' = f.len /\ compressed' = f.compressed
       /\ UNCHANGED items

ReadPrefix(n) ==
    /\ phase = "ReadingPrefix" /\ ~Drained
    /\ n \in 1..(PrefixLen - filled) /\ off + n <= Sent(cur)
    /\ Consume(n)
    /\ \/ /\ filled + n < PrefixLen
          /\ filled' = filled + n
          /\ UNCHANGED <<phase, payloadLen, compressed, items>>
       \/ /\ filled + n = PrefixLen
          /\ ParsePrefix(frames[cur])
    /\ UNCHANGED <<wire, ended>>

ReadPayload(n) ==
    /\ phase = "ReadingPayload" /\ ~Drained
    /\ n \in 1..(payloadLen - filled) /\ off + n <= Sent(cur)
    /\ Consume(n)
    /\ \/ /\ filled + n < payloadLen
          /\ filled' = filled + n
          /\ UNCHANGED <<phase, payloadLen, compressed, items>>
       \/ /\ filled + n = payloadLen
          /\ Deliver(frames[cur], compressed)
    /\ UNCHANGED <<wire, ended>>

(* Mutation: a Done reader polls the transport again. *)
ReadErrorWhenDone ==
    /\ Drained /\ ending = "error" /\ Len(items) <= MaxFrames + 1
    /\ Finish
    /\ Yield("Unavailable")
    /\ UNCHANGED <<wire, cur, off, ended>>

(* poll_read fails, while reading a prefix or a payload. *)
ReadError ==
    /\ phase # "Done" /\ Drained /\ ending = "error"
    /\ Finish
    /\ Yield("Unavailable")
    /\ UNCHANGED <<wire, cur, off, ended>>

(* Mutation: any end of file before the payload is a clean one. *)
EofInPrefixIsClean ==
    /\ phase = "ReadingPrefix" /\ Drained /\ ending = "eof"
    /\ Finish
    /\ ended' = TRUE
    /\ UNCHANGED <<wire, cur, off, items>>

(* poll_read returns 0 before the first byte of a prefix: a clean end. *)
CleanEof ==
    /\ phase = "ReadingPrefix" /\ filled = 0 /\ Drained /\ ending = "eof"
    /\ Finish
    /\ ended' = TRUE
    /\ UNCHANGED <<wire, cur, off, items>>

(* poll_read returns 0 anywhere else. *)
TruncatedEof ==
    /\ \/ phase = "ReadingPrefix" /\ filled > 0
       \/ phase = "ReadingPayload"
    /\ Drained /\ ending = "eof"
    /\ Finish
    /\ Yield("Internal")
    /\ UNCHANGED <<wire, cur, off, ended>>

(* Mutation: Done answers Pending. *)
PollDoneIsPending == phase = "Done" /\ UNCHANGED vars

(* A poll once Done: Ready(None). *)
PollDone ==
    /\ phase = "Done"
    /\ ended' = TRUE
    /\ UNCHANGED <<wire, cur, off, readState, items>>

Read == \E n \in 1..(PrefixLen + MaxMessageSize) : ReadPrefix(n) \/ ReadPayload(n)

Next == Read \/ ReadError \/ CleanEof \/ TruncatedEof \/ PollDone

(* The caller polls again whenever it is woken, and the transport neither
   withholds a byte nor the end of the stream for ever.                     *)
Spec == Init /\ [][Next]_vars /\ WF_vars(Next)

-----------------------------------------------------------------------------
Item == [of : Nat \ {0}, res : Results]

TypeOK ==
    /\ frames \in Seq(Frames) /\ lastSent \in Nat
    /\ ending \in {"eof", "error"} /\ encoded \in BOOLEAN
    /\ cur \in Nat \ {0} /\ off \in Nat
    /\ phase \in {"ReadingPrefix", "ReadingPayload", "Done"}
    /\ filled \in Nat /\ payloadLen \in Nat /\ compressed \in BOOLEAN
    /\ items \in Seq(Item) /\ ended \in BOOLEAN

(* The reader never loses its place: however poll_read splits the bytes, what
   it takes for the next bytes of a prefix or a payload are those bytes of the
   frame the transport is in (no ReadState field survives into the wrong frame). *)
InSync ==
    /\ phase = "ReadingPrefix" => off = filled /\ filled < PrefixLen
    /\ phase = "ReadingPayload" =>
          /\ cur <= Len(frames)
          /\ off = PrefixLen + filled /\ filled < payloadLen
          /\ payloadLen = frames[cur].len /\ compressed = frames[cur].compressed
          /\ payloadLen <= MaxMessageSize

(* What the wire alone says item i has to be, whatever the split of its bytes:
   frame i's own result, or how the stream breaks there.                     *)
TooBig(i) ==
    /\ i <= Len(frames) /\ frames[i].len > MaxMessageSize
    /\ Sent(i) >= PrefixLen
Whole(i) == i <= Len(frames) /\ Sent(i) = FrameSize(frames[i])
BreaksAt(i) == TooBig(i) \/ ~Whole(i)
Expected(i) ==
    CASE TooBig(i) -> "ResourceExhausted"
      [] ~TooBig(i) /\ Whole(i) -> PayloadResult(frames[i], frames[i].compressed)
      [] ~TooBig(i) /\ ~Whole(i) ->
            IF ending = "error" THEN "Unavailable" ELSE "Internal"

(* No item before the i-th is an error: what comes after an error is nobody's
   to rely on, the stream is documented as over then.                        *)
Reliable(i) == \A j \in 1..(i - 1) : items[j].res = "Ok"

(* Up to and including the first error, items and frames correspond one to one
   and in order, and each item is what the wire says it must be: no split of
   the bytes by poll_read_message's poll_reads drops, repeats, reorders or
   alters a message, or moves an error to another one's place.               *)
OneItemPerFrame ==
    /\ \A i \in 1..Len(items) :
          Reliable(i) => items[i] = [of |-> i, res |-> Expected(i)]
    /\ phase # "Done" /\ Reliable(Len(items) + 1) => Len(items) = cur - 1

(* A caller that is told None has either seen every frame the peer wrote, of a
   stream that ended cleanly, or was given the error that broke the stream:
   truncation (reader.rs, Ok(0) with a partial prefix or payload) never looks
   like a clean end, even after messages that failed to decode.              *)
NoSilentTruncation ==
    ended => \/ /\ ending = "eof" /\ Len(items) = Len(frames)
                /\ \A i \in 1..Len(frames) : ~BreaksAt(i)
             \/ items # <<>> /\ BreaksAt(Len(items))

(* Once the state is Done nothing more comes out of the stream. *)
DoneIsFinal == [][phase = "Done" => phase' = "Done" /\ UNCHANGED items]_vars

(* Every stream is read to its end, and the caller is told so. *)
EveryStreamEnds == <>ended

-----------------------------------------------------------------------------
(* "`Poll::Ready(Some(Err))` for a per-message error (state transitions to
   `Done` afterwards)" (poll_read_message, reader.rs:110-112).               *)
ErrLeavesDone ==
    items # <<>> /\ items[Len(items)].res # "Ok" => phase = "Done"
=============================================================================
