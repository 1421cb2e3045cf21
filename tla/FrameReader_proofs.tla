-------------------------- MODULE FrameReader_proofs --------------------------
(* Proofs about FrameReader, for every prefix length, limit, set of frames and *)
(* number of frames, and so for every split of the bytes.                      *)
EXTENDS FrameReader, TLAPS

(* The wire chosen by Init: the last frame was cut somewhere, none is empty. *)
WireOK ==
    frames # <<>> => lastSent \in 1..FrameSize(frames[Len(frames)])

(* The transport is at a byte it was sent, and every frame behind it is whole
   and was small enough while the reader is still reading.                    *)
PositionOK ==
    /\ cur <= Len(frames) + 1
    /\ cur <= Len(frames) => off <= Sent(cur) /\ off < FrameSize(frames[cur])
    /\ cur = Len(frames) + 1 => off = 0
    /\ phase # "Done" => \A i \in 1..(cur - 1) : ~BreaksAt(i)

(* Why the reader stopped. *)
DoneOK ==
    /\ ended => phase = "Done"
    /\ phase = "Done" =>
          \/ /\ ending = "eof" /\ Len(items) = Len(frames)
             /\ \A i \in 1..Len(frames) : ~BreaksAt(i)
          \/ items # <<>> /\ BreaksAt(Len(items))

(* What the code does with every item, those after a payload it could not decode
   too: ReadState is reset, not Done, so the next frame is the next item.     *)
ItemsMatch ==
    /\ \A i \in 1..Len(items) : items[i] = [of |-> i, res |-> Expected(i)]
    /\ phase # "Done" => Len(items) = cur - 1

(* The inductive invariant. *)
IInv == TypeOK /\ InSync /\ WireOK /\ PositionOK /\ ItemsMatch /\ DoneOK

-----------------------------------------------------------------------------
(* What was sent of a frame is at least one byte and at most the frame. *)
LEMMA SentBounds ==
    ASSUME TypeOK, WireOK, NEW i \in 1..Len(frames)
    PROVE  /\ frames[i] \in Frame /\ FrameSize(frames[i]) \in Nat \ {0}
           /\ Sent(i) \in 1..FrameSize(frames[i])
<1>1. frames[i] \in Frame
  BY FramesAssumption DEF TypeOK
<1>2. FrameSize(frames[i]) \in Nat \ {0}
  BY <1>1, PrefixAssumption DEF FrameSize, Frame
<1>3. Sent(i) \in 1..FrameSize(frames[i])
  <2>1. frames # <<>> /\ Len(frames) \in Nat
    BY DEF TypeOK
  <2> QED BY <1>2, <2>1 DEF Sent, WireOK
<1> QED BY <1>1, <1>2, <1>3

(* What decoding a payload gives is a result. *)
LEMMA ResultType ==
    ASSUME NEW f \in Frame, NEW flag \in BOOLEAN, encoded \in BOOLEAN
    PROVE  PayloadResult(f, flag) \in Results
BY DEF PayloadResult, Results, Codes, Frame, Content

(* Reading n more bytes of frame cur that the transport has. *)
LEMMA ConsumeLemma ==
    ASSUME TypeOK, WireOK, PositionOK, NEW n \in Nat \ {0}, cur \in 1..Len(frames),
           off + n <= Sent(cur), Consume(n)
    PROVE  \/ /\ off + n = FrameSize(frames[cur]) /\ Whole(cur)
              /\ cur' = cur + 1 /\ off' = 0
           \/ /\ off + n < FrameSize(frames[cur])
              /\ cur' = cur /\ off' = off + n
<1>1. /\ FrameSize(frames[cur]) \in Nat /\ Sent(cur) \in Nat
      /\ Sent(cur) <= FrameSize(frames[cur])
  BY SentBounds
<1>2. cur \in Nat /\ off \in Nat
  BY DEF TypeOK
<1>3. CASE off + n = FrameSize(frames[cur])
  BY <1>1, <1>2, <1>3 DEF Consume, Whole
<1>4. CASE off + n # FrameSize(frames[cur])
  BY <1>1, <1>2, <1>4 DEF Consume
<1> QED BY <1>3, <1>4

(* A new FrameReader satisfies the invariant. *)
LEMMA InitIInv == Init => IInv
<1> SUFFICES ASSUME Init PROVE IInv
  OBVIOUS
<1>1. PICK m \in 0..MaxFrames : frames \in [1..m -> Frames]
  BY DEF Init
<1>2. frames \in Seq(Frames) /\ Len(frames) = m
  BY <1>1, MaxFramesAssumption
<1>3. WireOK /\ lastSent \in Nat
  BY <1>2 DEF Init, WireOK
<1>4. TypeOK
  <2>1. items \in Seq(Item)
    BY DEF Init
  <2>2. /\ ending \in {"eof", "error"} /\ cur \in Nat \ {0} /\ off \in Nat
        /\ phase \in {"ReadingPrefix", "ReadingPayload", "Done"}
        /\ filled \in Nat /\ payloadLen \in Nat
    BY DEF Init
  <2>3. compressed \in BOOLEAN /\ ended \in BOOLEAN /\ encoded \in BOOLEAN
    BY DEF Init
  <2> QED BY <1>2, <1>3, <2>1, <2>2, <2>3 DEF TypeOK
<1>5. PositionOK
  <2>1. CASE frames = <<>>
    BY <2>1 DEF Init, PositionOK
  <2>2. CASE frames # <<>>
    <3>1. 1 \in 1..Len(frames)
      BY <1>2, <2>2, MaxFramesAssumption
    <3>2. FrameSize(frames[1]) \in Nat \ {0} /\ Sent(1) \in 1..FrameSize(frames[1])
      BY <3>1, <1>3, <1>4, SentBounds
    <3> QED BY <3>1, <3>2, <1>2 DEF Init, PositionOK
  <2> QED BY <2>1, <2>2
<1>6. InSync /\ ItemsMatch /\ DoneOK
  BY PrefixAssumption DEF Init, InSync, ItemsMatch, DoneOK
<1> QED BY <1>3, <1>4, <1>5, <1>6 DEF IInv

-----------------------------------------------------------------------------
(* What the wire says does not change. *)
LEMMA WireLemma ==
    ASSUME UNCHANGED wire
    PROVE  \A i \in Nat : /\ Sent(i)' = Sent(i)
                          /\ BreaksAt(i)' <=> BreaksAt(i)
                          /\ Expected(i)' = Expected(i)
<1> TAKE i \in Nat
<1>1. frames' = frames /\ lastSent' = lastSent /\ ending' = ending /\ encoded' = encoded
  BY DEF wire
<1>2. Sent(i)' = Sent(i)
  BY <1>1 DEF Sent, FrameSize
<1>3. (TooBig(i)' <=> TooBig(i)) /\ (Whole(i)' <=> Whole(i))
  BY <1>1, <1>2 DEF TooBig, Whole, FrameSize
<1>4. PayloadResult(frames[i], frames[i].compressed)'
        = PayloadResult(frames[i], frames[i].compressed)
  BY <1>1 DEF PayloadResult
<1> QED BY <1>1, <1>2, <1>3, <1>4 DEF BreaksAt, Expected

(* What the wire carries stays legal while it does not change. *)
LEMMA WireOKStable ==
    ASSUME WireOK, UNCHANGED wire PROVE WireOK'
BY DEF WireOK, wire, FrameSize

(* Yielding what the wire expects keeps items and frames in step. *)
LEMMA YieldLemma ==
    ASSUME IInv, UNCHANGED wire, phase # "Done", NEW r \in Results,
           r = Expected(cur), Yield(r)
    PROVE  /\ items' \in Seq(Item) /\ Len(items') = cur /\ items' # <<>>
           /\ \A i \in 1..Len(items') : items'[i] = [of |-> i, res |-> Expected(i)']
<1> DEFINE it == [of |-> cur, res |-> r]
<1>1. cur \in Nat \ {0} /\ items \in Seq(Item) /\ Len(items) = cur - 1
  BY DEF IInv, TypeOK, ItemsMatch
<1>2. it \in Item
  BY <1>1 DEF Item
<1>3. /\ items' \in Seq(Item) /\ Len(items') = cur
      /\ \A i \in 1..Len(items) : items'[i] = items[i]
      /\ items'[cur] = it
  <2>1. items' = Append(items, it)
    BY DEF Yield
  <2> HIDE DEF it
  <2> QED BY <1>1, <1>2, <2>1
<1>4. ASSUME NEW i \in 1..Len(items')
      PROVE items'[i] = [of |-> i, res |-> Expected(i)']
  <2>1. Expected(i)' = Expected(i)
    BY <1>1, <1>3, <1>4, WireLemma
  <2>2. CASE i < cur
    <3>1. items'[i] = items[i] /\ i \in 1..Len(items)
      BY <1>1, <1>3, <1>4, <2>2
    <3>2. items[i] = [of |-> i, res |-> Expected(i)]
      BY <3>1 DEF IInv, ItemsMatch
    <3> QED BY <2>1, <3>1, <3>2
  <2>3. CASE i = cur
    BY <1>3, <2>1, <2>3
  <2> QED BY <1>1, <1>3, <1>4, <2>2, <2>3
<1>5. items' # <<>>
  BY <1>1, <1>3
<1> QED BY <1>3, <1>4, <1>5

(* The items do not change, nor does what the wire expects of them. *)
LEMMA ItemsStable ==
    ASSUME IInv, UNCHANGED <<wire, items>>
    PROVE  /\ items' \in Seq(Item)
           /\ \A i \in 1..Len(items') : items'[i] = [of |-> i, res |-> Expected(i)']
<1>1. items \in Seq(Item) /\ Len(items) \in Nat
  BY DEF IInv, TypeOK
<1>2. \A i \in 1..Len(items) : Expected(i)' = Expected(i)
  BY <1>1, WireLemma
<1> QED BY <1>1, <1>2 DEF IInv, ItemsMatch

(* After the last byte of a whole frame that was not too big, the transport
   stands before the next one and nothing behind it breaks the stream.       *)
LEMMA PastFrame ==
    ASSUME IInv, UNCHANGED wire, phase # "Done", cur \in 1..Len(frames),
           ~BreaksAt(cur), cur' = cur + 1, off' = 0
    PROVE  PositionOK'
<1>1. frames' = frames /\ cur \in Nat /\ Len(frames) \in Nat
  BY DEF wire, IInv, TypeOK
<1>2. \A i \in 1..cur : ~BreaksAt(i)
  BY <1>1 DEF IInv, PositionOK
<1>3. \A i \in 1..cur : ~BreaksAt(i)'
  BY <1>1, <1>2, WireLemma
<1>4. ASSUME NEW i \in 1..Len(frames)
      PROVE  Sent(i)' \in Nat /\ FrameSize(frames'[i]) \in Nat \ {0}
  <2>1. Sent(i) \in Nat /\ FrameSize(frames[i]) \in Nat \ {0}
    BY SentBounds DEF IInv
  <2> QED BY <1>1, <2>1, WireLemma
<1>5. (\A i \in 1..(cur - 1) : ~BreaksAt(i))'
  BY <1>1, <1>3
<1>6. cur' <= Len(frames') + 1
  BY <1>1
<1>7. cur' <= Len(frames') => off' <= Sent(cur)' /\ off' < FrameSize(frames'[cur'])
  <2> SUFFICES ASSUME cur' <= Len(frames')
               PROVE  Sent(cur)' \in Nat /\ FrameSize(frames'[cur']) \in Nat \ {0}
    OBVIOUS
  <2>1. cur' \in 1..Len(frames)
    BY <1>1
  <2> QED BY <1>4, <2>1 DEF Sent
<1> QED BY <1>5, <1>6, <1>7 DEF PositionOK, FrameSize

-----------------------------------------------------------------------------
(* A read that leaves its buffer short of full. *)
LEMMA PartialRead ==
    ASSUME IInv, UNCHANGED <<wire, ended, phase, payloadLen, compressed, items>>,
           phase # "Done", cur \in 1..Len(frames), NEW n \in Nat \ {0},
           off + n <= Sent(cur), off + n < FrameSize(frames[cur]), Consume(n),
           filled' = filled + n,
           phase = "ReadingPrefix" => filled + n < PrefixLen,
           phase = "ReadingPayload" => filled + n < payloadLen
    PROVE  IInv'
<1>1. frames' = frames /\ lastSent' = lastSent /\ ending' = ending /\ encoded' = encoded
  BY DEF wire
<1>2. /\ cur \in Nat /\ off \in Nat /\ filled \in Nat
      /\ FrameSize(frames[cur]) \in Nat
  BY SentBounds DEF IInv, TypeOK
<1>3. cur' = cur /\ off' = off + n
  BY <1>2, ConsumeLemma DEF IInv
<1>4. TypeOK'
  BY <1>1, <1>2, <1>3 DEF IInv, TypeOK
<1>5. InSync'
  BY <1>1, <1>2, <1>3, PrefixAssumption DEF IInv, InSync, TypeOK
<1>6. PositionOK'
  <2>1. \A i \in 1..(cur - 1) : BreaksAt(i)' <=> BreaksAt(i)
    BY <1>2, WireLemma
  <2>2. Sent(cur)' = Sent(cur)
    BY <1>1, <1>3 DEF Sent, FrameSize
  <2> QED BY <1>1, <1>2, <1>3, <2>1, <2>2 DEF IInv, PositionOK, FrameSize
<1>7. ItemsMatch'
  BY <1>2, <1>3, ItemsStable DEF IInv, ItemsMatch
<1>8. DoneOK'
  BY DEF IInv, DoneOK
<1> QED BY <1>4, <1>5, <1>6, <1>7, <1>8, WireOKStable DEF IInv

(* A whole message of frame cur is delivered and the state reset. *)
LEMMA DeliverStep ==
    ASSUME IInv, UNCHANGED <<wire, ended>>, phase # "Done", cur \in 1..Len(frames),
           Whole(cur), ~TooBig(cur), cur' = cur + 1, off' = 0,
           Deliver(frames[cur], frames[cur].compressed)
    PROVE  IInv'
<1>1. frames' = frames /\ lastSent' = lastSent /\ ending' = ending /\ encoded' = encoded
  BY DEF wire
<1> DEFINE r == PayloadResult(frames[cur], frames[cur].compressed)
<1>2. r \in Results /\ r = Expected(cur)
  <2>1. frames[cur] \in Frame
    BY SentBounds DEF IInv
  <2>2. frames[cur].compressed \in BOOLEAN /\ encoded \in BOOLEAN
    BY <2>1 DEF Frame, IInv, TypeOK
  <2> QED BY <2>1, <2>2, ResultType DEF Expected
<1>3. Yield(r) /\ ResetReadState
  BY DEF Deliver
<1>4. /\ items' \in Seq(Item) /\ Len(items') = cur /\ items' # <<>>
      /\ \A i \in 1..Len(items') : items'[i] = [of |-> i, res |-> Expected(i)']
  <2> HIDE DEF r
  <2> QED BY <1>2, <1>3, YieldLemma
<1>5. TypeOK'
  <2>1. compressed' \in BOOLEAN /\ ended' \in BOOLEAN /\ encoded' \in BOOLEAN
    BY <1>1, <1>3 DEF IInv, TypeOK, ResetReadState
  <2>2. /\ frames' \in Seq(Frames) /\ lastSent' \in Nat
        /\ ending' \in {"eof", "error"} /\ cur' \in Nat \ {0} /\ off' \in Nat
    BY <1>1 DEF IInv, TypeOK
  <2>3. /\ phase' \in {"ReadingPrefix", "ReadingPayload", "Done"}
        /\ filled' \in Nat /\ payloadLen' \in Nat
    BY <1>3 DEF ResetReadState
  <2> QED BY <1>4, <2>1, <2>2, <2>3 DEF TypeOK
<1>6. InSync'
  BY <1>3, PrefixAssumption DEF InSync, ResetReadState
<1>7. PositionOK'
  BY PastFrame DEF BreaksAt
<1>8. ItemsMatch'
  BY <1>3, <1>4, <1>5 DEF IInv, TypeOK, ItemsMatch, ResetReadState
<1>9. DoneOK'
  BY <1>3 DEF IInv, DoneOK, ResetReadState
<1> QED BY <1>5, <1>6, <1>7, <1>8, <1>9, WireOKStable DEF IInv

(* The stream breaks: the reader stops and says why. *)
LEMMA BreakStep ==
    ASSUME IInv, UNCHANGED <<wire, ended>>, phase # "Done", BreaksAt(cur),
           Finish, cur' \in Nat \ {0}, off' \in Nat,
           cur' <= Len(frames) + 1,
           cur' <= Len(frames) => off' <= Sent(cur)' /\ off' < FrameSize(frames[cur']),
           cur' = Len(frames) + 1 => off' = 0,
           NEW r \in Results, r = Expected(cur), Yield(r)
    PROVE  IInv'
<1>1. frames' = frames /\ lastSent' = lastSent /\ ending' = ending /\ encoded' = encoded
  BY DEF wire
<1>2. /\ items' \in Seq(Item) /\ Len(items') = cur /\ items' # <<>>
      /\ \A i \in 1..Len(items') : items'[i] = [of |-> i, res |-> Expected(i)']
  BY YieldLemma
<1>3. TypeOK'
  BY <1>1, <1>2 DEF IInv, TypeOK, Finish
<1>4. InSync'
  BY DEF InSync, Finish
<1>5. PositionOK'
  BY <1>1 DEF PositionOK, Finish, FrameSize
<1>6. ItemsMatch'
  BY <1>2 DEF ItemsMatch, Finish
<1>7. DoneOK'
  <2>1. cur \in Nat
    BY DEF IInv, TypeOK
  <2>2. Len(items') = cur /\ (\A i \in Nat : BreaksAt(i)' <=> BreaksAt(i))
    BY <1>2, WireLemma
  <2>3. BreaksAt(Len(items))'
    <3>1. \A i \in Nat : BreaksAt(i)' = (\/ /\ i <= Len(frames') /\ frames'[i].len > MaxMessageSize
                                            /\ Sent(i)' >= PrefixLen
                                         \/ ~(i <= Len(frames') /\ Sent(i)' = FrameSize(frames'[i])))
      BY DEF BreaksAt, TooBig, Whole, FrameSize
    <3> QED BY <2>1, <2>2, <3>1 DEF BreaksAt, TooBig, Whole, FrameSize, Sent
  <2> QED BY <1>2, <2>3 DEF IInv, DoneOK, Finish
<1> QED BY <1>3, <1>4, <1>5, <1>6, <1>7, WireOKStable DEF IInv

-----------------------------------------------------------------------------
(* A poll that reads prefix bytes keeps the invariant. *)
LEMMA ReadPrefixStep ==
    ASSUME IInv, NEW n \in Nat \ {0}, ReadPrefix(n) PROVE IInv'
<1>1. cur \in 1..Len(frames) /\ off + n <= Sent(cur) /\ UNCHANGED <<wire, ended>>
  BY DEF ReadPrefix, Drained, IInv, TypeOK
<1>2. /\ phase = "ReadingPrefix" /\ off = filled /\ filled \in Nat /\ cur \in Nat
      /\ frames[cur] \in Frame /\ Sent(cur) <= FrameSize(frames[cur])
      /\ frames[cur].len \in Nat /\ Sent(cur) \in Nat
  BY <1>1, SentBounds DEF ReadPrefix, IInv, InSync, TypeOK, Frame
<1>3. CASE filled + n < PrefixLen
  <2>1. off + n < FrameSize(frames[cur])
    BY <1>2, <1>3, PrefixAssumption DEF FrameSize
  <2>2. UNCHANGED <<phase, payloadLen, compressed, items>> /\ filled' = filled + n
    BY <1>2, <1>3, PrefixAssumption DEF ReadPrefix
  <2> QED BY <1>1, <1>2, <1>3, <2>1, <2>2, PartialRead DEF ReadPrefix
<1>4. CASE filled + n = PrefixLen
  <2>1. ParsePrefix(frames[cur]) /\ Consume(n)
    BY <1>2, <1>4, PrefixAssumption DEF ReadPrefix
  <2>2. \/ /\ off + n = FrameSize(frames[cur]) /\ Whole(cur)
           /\ cur' = cur + 1 /\ off' = 0
        \/ /\ off + n < FrameSize(frames[cur])
           /\ cur' = cur /\ off' = off + n
    BY <1>1, <2>1, ConsumeLemma DEF IInv
  <2>3. CASE frames[cur].len > MaxMessageSize
    <3>1. Finish /\ Yield("ResourceExhausted")
      BY <1>2, <2>1, <2>3, SizeAssumption DEF ParsePrefix
    <3>2. TooBig(cur)
      BY <1>1, <1>2, <1>4, <2>3, PrefixAssumption DEF TooBig
    <3>3. off + n < FrameSize(frames[cur])
      BY <1>2, <1>4, <2>3, SizeAssumption, PrefixAssumption DEF FrameSize
    <3>4. cur' = cur /\ off' = off + n /\ Sent(cur)' = Sent(cur)
      BY <1>1, <1>2, <2>2, <3>3 DEF Sent, wire, FrameSize
    <3>5. "ResourceExhausted" \in Results /\ Expected(cur) = "ResourceExhausted"
      BY <3>2 DEF Results, Codes, Expected
    <3>6. /\ cur' \in Nat \ {0} /\ off' \in Nat /\ cur' <= Len(frames) + 1
          /\ cur' <= Len(frames) => off' <= Sent(cur)' /\ off' < FrameSize(frames[cur'])
          /\ cur' = Len(frames) + 1 => off' = 0
      BY <1>1, <1>2, <3>3, <3>4 DEF IInv, TypeOK
    <3>7. BreaksAt(cur)
      BY <3>2 DEF BreaksAt
    <3> QED BY <1>1, <1>2, <3>1, <3>5, <3>6, <3>7, BreakStep
  <2>4. CASE frames[cur].len = 0
    <3>1. Deliver(frames[cur], frames[cur].compressed) /\ ~TooBig(cur)
      BY <1>2, <2>1, <2>4, SizeAssumption DEF ParsePrefix, TooBig
    <3>2. off + n = FrameSize(frames[cur])
      BY <1>2, <1>4, <2>4, PrefixAssumption DEF FrameSize
    <3>3. Whole(cur) /\ cur' = cur + 1 /\ off' = 0
      BY <1>2, <2>2, <3>2
    <3> QED BY <1>1, <1>2, <3>1, <3>3, DeliverStep
  <2>5. CASE frames[cur].len \in 1..MaxMessageSize
    <3>1. /\ phase' = "ReadingPayload" /\ filled' = 0 /\ items' = items
          /\ payloadLen' = frames[cur].len /\ compressed' = frames[cur].compressed
      BY <1>2, <2>1, <2>5, SizeAssumption DEF ParsePrefix
    <3>2. off + n = PrefixLen /\ off + n < FrameSize(frames[cur])
      BY <1>2, <1>4, <2>5, PrefixAssumption DEF FrameSize
    <3>3. cur' = cur /\ off' = PrefixLen
      BY <1>2, <2>2, <3>2
    <3>4. /\ frames' = frames /\ lastSent' = lastSent /\ ending' = ending
          /\ encoded' = encoded /\ ended' = ended
      BY <1>1 DEF wire
    <3>5. TypeOK'
      <4>1. compressed' \in BOOLEAN /\ ended' \in BOOLEAN /\ encoded' \in BOOLEAN
        BY <1>2, <3>1, <3>4 DEF Frame, IInv, TypeOK
      <4>2. /\ frames' \in Seq(Frames) /\ lastSent' \in Nat /\ ending' \in {"eof", "error"}
            /\ cur' \in Nat \ {0} /\ off' \in Nat /\ items' \in Seq(Item)
        BY <3>1, <3>3, <3>4, PrefixAssumption DEF IInv, TypeOK
      <4>3. /\ phase' \in {"ReadingPrefix", "ReadingPayload", "Done"}
            /\ filled' \in Nat /\ payloadLen' \in Nat
        BY <1>2, <3>1
      <4> QED BY <4>1, <4>2, <4>3 DEF TypeOK
    <3>6. InSync'
      BY <1>1, <2>5, <3>1, <3>3, <3>4, PrefixAssumption DEF InSync
    <3>7. PositionOK'
      <4>1. \A i \in 1..(cur - 1) : BreaksAt(i)' <=> BreaksAt(i)
        BY <1>1, <1>2, WireLemma
      <4>2. Sent(cur)' = Sent(cur)
        BY <3>3, <3>4 DEF Sent, FrameSize
      <4> QED BY <1>1, <1>2, <3>1, <3>2, <3>3, <3>4, <4>1, <4>2
              DEF IInv, PositionOK, FrameSize
    <3>8. ItemsMatch'
      BY <1>1, <1>2, <3>1, <3>3, ItemsStable DEF IInv, ItemsMatch
    <3>9. DoneOK'
      BY <1>2, <3>1, <3>4 DEF IInv, DoneOK
    <3> QED BY <1>1, <3>5, <3>6, <3>7, <3>8, <3>9, WireOKStable DEF IInv
  <2> QED BY <1>2, <2>3, <2>4, <2>5, SizeAssumption
<1> QED BY <1>3, <1>4 DEF ReadPrefix

(* A poll that reads payload bytes keeps the invariant. *)
LEMMA ReadPayloadStep ==
    ASSUME IInv, NEW n \in Nat \ {0}, ReadPayload(n) PROVE IInv'
<1>1. /\ cur \in 1..Len(frames) /\ off + n <= Sent(cur) /\ UNCHANGED <<wire, ended>>
      /\ phase = "ReadingPayload" /\ Consume(n)
  BY DEF ReadPayload, IInv, InSync, Drained, TypeOK
<1>2. /\ off = PrefixLen + filled /\ filled \in Nat /\ filled < payloadLen
      /\ payloadLen = frames[cur].len /\ compressed = frames[cur].compressed
      /\ payloadLen <= MaxMessageSize /\ payloadLen \in Nat
      /\ FrameSize(frames[cur]) = PrefixLen + payloadLen
  BY <1>1 DEF IInv, InSync, TypeOK, FrameSize
<1>3. CASE filled + n < payloadLen
  <2>1. off + n < FrameSize(frames[cur])
    BY <1>2, <1>3, PrefixAssumption
  <2>2. UNCHANGED <<phase, payloadLen, compressed, items>> /\ filled' = filled + n
    BY <1>1, <1>2, <1>3 DEF ReadPayload
  <2> QED BY <1>1, <1>3, <2>1, <2>2, PartialRead
<1>4. CASE filled + n = payloadLen
  <2>1. Deliver(frames[cur], frames[cur].compressed)
    BY <1>1, <1>2, <1>4 DEF ReadPayload
  <2>2. off + n = FrameSize(frames[cur])
    BY <1>2, <1>4, PrefixAssumption
  <2>3. Whole(cur) /\ cur' = cur + 1 /\ off' = 0
    <3>1. \/ /\ off + n = FrameSize(frames[cur]) /\ Whole(cur)
             /\ cur' = cur + 1 /\ off' = 0
          \/ /\ off + n < FrameSize(frames[cur])
             /\ cur' = cur /\ off' = off + n
      BY <1>1, ConsumeLemma DEF IInv
    <3> QED BY <1>2, <2>2, <3>1, PrefixAssumption
  <2>4. ~TooBig(cur)
    BY <1>2, SizeAssumption DEF TooBig
  <2> QED BY <1>1, <2>1, <2>3, <2>4, DeliverStep
<1> QED BY <1>3, <1>4 DEF ReadPayload

(* With no byte left and the reader still reading, the frame the transport is
   in, if any, was cut.                                                      *)
LEMMA DrainedBreaks ==
    ASSUME IInv, Drained,
           phase = "ReadingPayload" \/ filled > 0 \/ ending = "error",
           phase # "Done"
    PROVE  BreaksAt(cur) /\ ~TooBig(cur) /\ ~Whole(cur)
<1>1. CASE cur <= Len(frames)
  <2>1. cur \in 1..Len(frames) /\ off = Sent(cur) /\ off < FrameSize(frames[cur])
    BY <1>1 DEF IInv, TypeOK, Drained, PositionOK
  <2>2. /\ Sent(cur) \in 1..FrameSize(frames[cur]) /\ frames[cur].len \in Nat
        /\ filled \in Nat
    BY <2>1, SentBounds DEF IInv, TypeOK, Frame
  <2>3. ~Whole(cur)
    BY <2>1, <2>2 DEF Whole, FrameSize
  <2>4. ~TooBig(cur)
    BY <2>1, <2>2, PrefixAssumption, SizeAssumption DEF IInv, InSync, TooBig, TypeOK
  <2> QED BY <2>3, <2>4 DEF BreaksAt
<1>2. CASE ~(cur <= Len(frames))
  BY <1>2 DEF BreaksAt, Whole, TooBig
<1> QED BY <1>1, <1>2

(* A poll that meets the end or an error keeps the invariant. *)
LEMMA EndStep ==
    ASSUME IInv, Drained, UNCHANGED <<wire, cur, off, ended>>, Finish,
           phase = "ReadingPayload" \/ filled > 0 \/ ending = "error",
           phase # "Done",
           Yield(IF ending = "error" THEN "Unavailable" ELSE "Internal")
    PROVE  IInv'
<1> DEFINE r == IF ending = "error" THEN "Unavailable" ELSE "Internal"
<1>1. r \in Results /\ r = Expected(cur) /\ BreaksAt(cur)
  BY DrainedBreaks DEF Results, Codes, Expected
<1>2. /\ cur' \in Nat \ {0} /\ off' \in Nat /\ cur' <= Len(frames) + 1
      /\ cur' = Len(frames) + 1 => off' = 0
  BY DEF IInv, TypeOK, PositionOK
<1>3. cur' <= Len(frames) => off' <= Sent(cur)' /\ off' < FrameSize(frames[cur'])
  <2>1. Sent(cur)' = Sent(cur)
    BY DEF Sent, wire, FrameSize
  <2> QED BY <2>1 DEF IInv, PositionOK
<1> HIDE DEF r
<1>4. Yield(r)
  BY DEF r
<1> QED BY <1>1, <1>2, <1>3, <1>4, BreakStep

(* The end between frames keeps the invariant. *)
LEMMA CleanEofStep ==
    ASSUME IInv, CleanEof PROVE IInv'
<1>1. /\ frames' = frames /\ lastSent' = lastSent /\ ending' = ending /\ encoded' = encoded
      /\ cur' = cur /\ off' = off /\ items' = items /\ ended' = TRUE
      /\ phase' = "Done" /\ filled' = 0 /\ payloadLen' = 0 /\ compressed' = FALSE
      /\ phase = "ReadingPrefix" /\ filled = 0 /\ Drained /\ ending = "eof"
  BY DEF CleanEof, wire, Finish
<1>2. cur \in Nat \ {0} /\ off = 0 /\ Len(frames) \in Nat
  BY <1>1 DEF IInv, TypeOK, InSync
<1>3. cur = Len(frames) + 1
  <2> SUFFICES ASSUME cur <= Len(frames) PROVE FALSE
    BY <1>2 DEF IInv, PositionOK
  <2>1. cur \in 1..Len(frames) /\ Sent(cur) = 0
    BY <1>1, <1>2 DEF Drained
  <2>2. Sent(cur) \in 1..FrameSize(frames[cur])
    BY <2>1, SentBounds DEF IInv
  <2> QED BY <2>1, <2>2
<1>4. TypeOK'
  BY <1>1 DEF IInv, TypeOK
<1>5. InSync' /\ ItemsMatch'
  BY <1>1, ItemsStable DEF InSync, ItemsMatch, CleanEof
<1>6. PositionOK'
  BY <1>1, <1>2, <1>3 DEF PositionOK
<1>7. DoneOK'
  <2>1. Len(items') = Len(frames') /\ ending' = "eof"
    BY <1>1, <1>2, <1>3 DEF IInv, ItemsMatch
  <2>2. \A i \in 1..Len(frames) : ~BreaksAt(i)
    BY <1>1, <1>2, <1>3 DEF IInv, PositionOK
  <2>3. \A i \in 1..Len(frames') : ~BreaksAt(i)'
    BY <1>1, <1>2, <2>2, WireLemma DEF CleanEof
  <2> QED BY <1>1, <2>1, <2>3 DEF DoneOK
<1> QED BY <1>4, <1>5, <1>6, <1>7, WireOKStable DEF IInv, CleanEof

(* Polling a finished reader keeps the invariant. *)
LEMMA PollDoneStep ==
    ASSUME IInv, UNCHANGED <<wire, cur, off, readState, items>>,
           ended' \in BOOLEAN, ended' => phase = "Done"
    PROVE  IInv'
<1>1. /\ frames' = frames /\ lastSent' = lastSent /\ ending' = ending /\ encoded' = encoded
      /\ cur' = cur /\ off' = off /\ items' = items
      /\ phase' = phase /\ filled' = filled /\ payloadLen' = payloadLen
      /\ compressed' = compressed
  BY DEF wire, readState
<1>2. TypeOK'
  BY <1>1 DEF IInv, TypeOK
<1>3. InSync' /\ WireOK'
  BY <1>1 DEF IInv, InSync, WireOK, FrameSize
<1>4. PositionOK'
  BY <1>1 DEF IInv, PositionOK, BreaksAt, TooBig, Whole, Sent, FrameSize
<1>5. ItemsMatch'
  BY <1>1, ItemsStable DEF IInv, ItemsMatch
<1>6. DoneOK'
  BY <1>1 DEF IInv, DoneOK, BreaksAt, TooBig, Whole, Sent, FrameSize
<1> QED BY <1>2, <1>3, <1>4, <1>5, <1>6 DEF IInv

(* Every step keeps the invariant. *)
LEMMA StepIInv == IInv /\ [Next]_vars => IInv'
<1> SUFFICES ASSUME IInv, [Next]_vars PROVE IInv'
  OBVIOUS
<1>1. ASSUME NEW n \in 1..(PrefixLen + MaxMessageSize), ReadPrefix(n) PROVE IInv'
  BY <1>1, ReadPrefixStep, PrefixAssumption, SizeAssumption
<1>2. ASSUME NEW n \in 1..(PrefixLen + MaxMessageSize), ReadPayload(n) PROVE IInv'
  BY <1>2, ReadPayloadStep, PrefixAssumption, SizeAssumption
<1>3. CASE ReadError
  <2>1. Yield(IF ending = "error" THEN "Unavailable" ELSE "Internal")
    BY <1>3 DEF ReadError
  <2> QED BY <1>3, <2>1, EndStep DEF ReadError
<1>4. CASE CleanEof
  BY <1>4, CleanEofStep
<1>5. CASE TruncatedEof
  <2>1. /\ phase = "ReadingPayload" \/ filled > 0
        /\ phase # "Done" /\ Drained /\ ending = "eof"
    BY <1>5 DEF TruncatedEof
  <2>2. Yield(IF ending = "error" THEN "Unavailable" ELSE "Internal")
    BY <1>5, <2>1 DEF TruncatedEof
  <2> QED BY <1>5, <2>1, <2>2, EndStep DEF TruncatedEof
<1>6. CASE PollDone
  BY <1>6, PollDoneStep DEF PollDone
<1>7. CASE UNCHANGED vars
  <2>1. UNCHANGED <<wire, cur, off, readState, items>>
    BY <1>7 DEF vars
  <2>2. ended' \in BOOLEAN /\ (ended' => phase = "Done")
    BY <1>7 DEF vars, IInv, TypeOK, DoneOK
  <2> QED BY <2>1, <2>2, PollDoneStep
<1> QED BY <1>1, <1>2, <1>3, <1>4, <1>5, <1>6, <1>7 DEF Next, Read

(* The invariant holds of every reader on every stream. *)
THEOREM InvariantHolds == Spec => []IInv
BY InitIInv, StepIInv, PTL DEF Spec

-----------------------------------------------------------------------------
(* Type correctness of the ReadState machine. *)
THEOREM TypeCorrect == Spec => []TypeOK
<1>1. IInv => TypeOK
  BY DEF IInv
<1> QED BY <1>1, InvariantHolds, PTL

(* However the bytes are split, ReadState stays aligned with the frames. *)
THEOREM StaysInSync == Spec => []InSync
<1>1. IInv => InSync
  BY DEF IInv
<1> QED BY <1>1, InvariantHolds, PTL

(* Whatever the split of the bytes, poll_read_message yields exactly one item
   per frame up to its first error, in order, and it is the one the wire alone
   determines.                                                               *)
THEOREM DeliversFaithfully == Spec => []OneItemPerFrame
<1>1. IInv => OneItemPerFrame
  BY DEF IInv, ItemsMatch, OneItemPerFrame
<1> QED BY <1>1, InvariantHolds, PTL

(* poll_read_message never reports a truncated stream as a clean end. *)
THEOREM NeverTruncatesSilently == Spec => []NoSilentTruncation
<1>1. IInv => NoSilentTruncation
  BY DEF IInv, DoneOK, NoSilentTruncation
<1> QED BY <1>1, InvariantHolds, PTL

(* A ReadState that is Done stays Done and yields nothing more. *)
THEOREM DoneStaysDone == Spec => DoneIsFinal
<1>1. [Next]_vars => [phase = "Done" => phase' = "Done" /\ UNCHANGED items]_vars
  BY DEF Next, Read, ReadPrefix, ReadPayload, ReadError, CleanEof, TruncatedEof,
         PollDone, vars, readState
<1> QED BY <1>1, PTL DEF Spec, DoneIsFinal
=============================================================================
