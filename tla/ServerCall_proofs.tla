--------------------------- MODULE ServerCall_proofs ---------------------------
(* Proofs about ServerCall, for every set of shapes, heads, request frames and *)
(* handler statuses, every frame length and every bound.                       *)
EXTENDS ServerCall, TLAPS

(* The parts of the inductive invariant.  First the types; the Boolean flags   *)
(* apart from the rest, as the provers take them best.                         *)
Flags ==
    /\ fresh \in BOOLEAN /\ shutdown \in BOOLEAN /\ arriving \in BOOLEAN
    /\ inEnd \in BOOLEAN /\ broken \in BOOLEAN /\ half \in BOOLEAN
    /\ lost \in BOOLEAN /\ torn \in BOOLEAN /\ garbled \in BOOLEAN
    /\ abandoned \in BOOLEAN

Values ==
    /\ shape \in Shapes /\ req \in Heads
    /\ phase \in {"new", "run", "body", "stream", "seam", "loop", "closing", "ended"}
    /\ step \in {"none", "first", "second", "user"}
    /\ deadline \in {"none", "armed", "past"}
    /\ connDeadline \in {"none", "armed", "past"}
    /\ inbox \in Seq(Items) /\ taken \in Nat /\ reader \in {"none", "open", "done"}
    /\ produced \in Nat /\ left \in 0..FrameLen /\ out \in Nat
    /\ status \in {"none"} \cup Statuses
    /\ result \in {"none", "Ok"} \cup HandlerStatuses

(* What each phase says about the rest: which shapes come there, and that the
   response begins, gets its status and ends in this order.                    *)
Position ==
    /\ phase = "new" => /\ step = "none" /\ reader = "none" /\ deadline = "none"
                        /\ connDeadline = "none" /\ taken = 0 /\ ~half /\ ~lost
    /\ phase \in {"new", "run"} => produced = 0 /\ left = 0 /\ out = 0 /\ ~torn
    /\ phase \in {"new", "run", "seam", "loop"} => status = "none"
    /\ status = "none" => result = "none"
    /\ phase = "run" => step # "none" /\ (step # "user" => shape \in ReadsOne)
    /\ phase \in {"stream", "seam", "loop", "closing"} => step = "user"
    /\ phase = "stream" => shape = "server_streaming"
    /\ phase \in {"seam", "loop", "closing"} => shape = "bidi"
    /\ phase \in {"body", "closing"} => status # "none"
    /\ phase \in {"seam", "closing"} => left = 0
    /\ status # "none" /\ phase # "body" /\ phase # "ended" => left = 0
    /\ phase # "ended" => reply = NoReply

(* How far read_one has come. *)
OneRead ==
    shape \in ReadsOne =>
       /\ phase = "run" /\ step = "first" => reader = "open" /\ taken = 0 /\ ~lost
       /\ phase = "run" /\ step = "second" =>
             /\ reader = "open" /\ taken = 1 /\ ~lost
             /\ Len(inbox) >= 1 /\ inbox[1] = "Message"
       /\ step = "user" =>
             taken = 1 /\ Len(inbox) = 1 /\ inbox[1] = "Message" /\ inEnd

(* The responses produced are out, or one is under way; a half-duplex body is
   never torn, and a Channel only once the stream is broken.                   *)
UnderWay == IF left > 0 THEN 1 ELSE 0
Count ==
    /\ left > 0 => phase \in {"body", "stream", "loop"}
    /\ shape # "bidi" /\ reply.status # "lost" => ~torn /\ produced = out + UnderWay
    /\ shape \in SingleReply /\ phase = "body" =>
          produced \in {0, 1} /\ (produced = 1 <=> status = "OK" /\ result # "OK")
    /\ ~abandoned /\ shape = "bidi" /\ phase # "ended" /\ ~broken =>
          /\ phase # "closing" => ~torn /\ produced = out + UnderWay
          /\ phase = "closing" /\ status = "OK" => produced = out

(* Why the status is what it is. *)
Truth ==
    /\ status = "OK" => result \in {"Ok", "OK"}
    /\ status \in HandlerStatuses \ {"OK"} => result = status
    /\ status = "DeadlineExceeded" => req.timeout = "valid" /\ deadline = "past"
    /\ status = "Cancelled" => shutdown
    /\ deadline # "none" \/ connDeadline # "none" => req.timeout = "valid"

(* Where the trailing metadata is: whoever has the call has all that was set. *)
Carried ==
    /\ meta \in [Owners -> SUBSET {"run", "loop"}]
    /\ phase \in {"new", "run"} => meta.conn = meta.set
    /\ phase \in {"body", "stream"} => meta.body = meta.set
    /\ phase \in {"seam", "loop", "closing"} => meta.loop = meta.set

(* What has been said to the client. *)
Said ==
    /\ reply \in [http : {0, 200, 400, 415}, status : {"none", "lost"} \cup Statuses,
                  meta : SUBSET {"run", "loop"}]
    /\ reply.status \in {"none", "lost"} \/ (reply.status = status /\ reply.meta = meta.set)
    /\ ~abandoned /\ reply.status = "OK" => out = produced

(* Where the readers stand, if none is dropped inside a frame or goes on after
   one that is too big.                                                        *)
SkippedOne == \E i \in 1..taken : inbox[i] = "TooBig"
OnAFrame ==
    /\ taken <= Len(inbox)
    /\ ~abandoned /\ ~SkippedOne =>
          ~garbled /\ (phase \in {"new", "run", "seam", "loop"} => ~lost)

Types == Flags /\ Values
IInv ==
    /\ Types /\ Position /\ OneRead /\ Count /\ Truth /\ Carried /\ Said
    /\ OnAFrame

-----------------------------------------------------------------------------
(* A request that has just come in satisfies the invariant. *)
LEMMA InitIInv == Init => IInv
<1> SUFFICES ASSUME Init PROVE IInv
  OBVIOUS
<1>1. Flags
  BY DEF Init, Flags
<1>2. Values
  BY FrameAssumption DEF Init, Values
<1>3. Position
  BY DEF Init, Position
<1>4. OneRead
  BY DEF Init, OneRead
<1>5. Count /\ Truth
  BY StatusesAssumption DEF Init, Count, Truth, UnderWay, NoReply
<1>6. Carried /\ Said
  BY DEF Init, Carried, Said, NoReply, NoMetadata, Owners
<1>7. OnAFrame
  BY DEF Init, OnAFrame
<1> QED BY <1>1, <1>2, <1>3, <1>4, <1>5, <1>6, <1>7 DEF IInv, Types

(* What a recv leaves behind, by what it found. *)
LEMMA YieldsLemma ==
    ASSUME Types, NEW r \in Results, Yields(r)
    PROVE  /\ taken' \in Nat
           /\ taken' = taken \/ (taken' = taken + 1 /\ taken < Len(inbox))
           /\ lost' => \/ lost
                       \/ /\ taken' = taken + 1 /\ taken < Len(inbox)
                          /\ inbox[taken + 1] = "TooBig"
           /\ garbled' => garbled \/ (lost /\ reader = "open")
           /\ r = "Message" /\ reader = "open" /\ ~lost =>
                 /\ taken < Len(inbox) /\ inbox[taken + 1] = "Message"
                 /\ taken' = taken + 1 /\ ~lost'
           /\ r = "None" /\ reader = "open" /\ ~lost =>
                 taken = Len(inbox) /\ inEnd /\ taken' = taken /\ ~lost'
<1>1. taken \in Nat /\ Len(inbox) \in Nat
  BY DEF Types, Values
<1>2. taken < Len(inbox) => inbox[taken + 1] \in Items
  BY <1>1 DEF Types, Values
<1>3. CASE reader = "done" /\ r = "None" /\ UNCHANGED <<arriving, taken, lost, garbled>>
  BY <1>1, <1>3
<1>4. CASE reader = "open" /\ lost /\ UNCHANGED <<arriving, taken, lost>>
  BY <1>1, <1>4
<1>5. CASE /\ reader = "open" /\ ~lost /\ taken < Len(inbox)
           /\ CASE inbox[taken + 1] = "Message" -> r = "Message"
                [] inbox[taken + 1] = "Undecodable" -> r = "InvalidArgument"
                [] inbox[taken + 1] = "TooBig" -> r = "ResourceExhausted"
           /\ taken' = taken + 1
           /\ lost' = (r = "ResourceExhausted")
           /\ UNCHANGED <<arriving, garbled>>
  <2>1. inbox[taken + 1] \in {"Message", "Undecodable", "TooBig"} \cap Items
    BY <1>2, <1>5, ItemsAssumption
  <2>2. CASE inbox[taken + 1] = "Message"
    <3>1. r = "Message" /\ ~lost'
      BY <1>5, <2>2
    <3> QED BY <1>1, <1>5, <2>2, <3>1
  <2>3. CASE inbox[taken + 1] = "Undecodable"
    <3>1. r = "InvalidArgument" /\ ~lost'
      BY <1>5, <2>3
    <3> QED BY <1>1, <1>5, <3>1
  <2>4. CASE inbox[taken + 1] = "TooBig"
    <3>1. r = "ResourceExhausted"
      BY <1>5, <2>4
    <3> QED BY <1>1, <1>5, <2>4, <3>1
  <2> QED BY <2>1, <2>2, <2>3, <2>4
<1>6. CASE /\ reader = "open" /\ ~lost /\ taken = Len(inbox) /\ inEnd
           /\ r = IF arriving THEN "Internal" ELSE "None"
           /\ UNCHANGED <<taken, lost, garbled>>
  BY <1>1, <1>6
<1>7. CASE /\ reader = "open" /\ broken /\ r = "Unavailable"
           /\ UNCHANGED <<arriving, taken, lost, garbled>>
  BY <1>1, <1>7
<1> QED BY <1>3, <1>4, <1>5, <1>6, <1>7 DEF Yields

(* One step, part by part of the invariant. *)
LEMMA FlagsStep ==
    ASSUME Types, [Next]_vars PROVE Flags'
<1>1. CASE Accept
  <2>1. fresh' \in BOOLEAN
    BY <1>1 DEF Types, Flags, Accept, ErrorResponse
  <2>2. UNCHANGED <<shutdown, wire, half, lost, torn, garbled, abandoned>>
    BY <1>1 DEF Accept
  <2> QED BY <2>1, <2>2 DEF Types, Flags, wire
<1>2. CASE RaceShutdown
  BY <1>2 DEF Types, Flags, RaceShutdown, Reject, ErrorResponse, EndLoop,
     DropReader, Abandon, clock, wire
<1>3. CASE RaceDeadline
  BY <1>3 DEF Types, Flags, RaceDeadline, Reject, ErrorResponse, EndLoop,
     DropReader, Abandon, clock, wire
<1>4. CASE Suspend
  BY <1>4 DEF Types, Flags, Suspend, clock, wire, reading, writing
<1>5. CASE ReadFirst
  BY <1>5 DEF Types, Flags, ReadFirst, ReadOne, Yields, Results,
     ErrorResponse, clock
<1>6. CASE ReadSecond
  BY <1>6 DEF Types, Flags, ReadSecond, ReadOne, Yields, Results,
     ErrorResponse, clock
<1>7. CASE Upgrade
  BY <1>7 DEF Types, Flags, Upgrade, wire, writing
<1>8. CASE OpenRequests
  BY <1>8 DEF Types, Flags, OpenRequests, clock, wire, writing
<1>9. CASE DropRequests
  BY <1>9 DEF Types, Flags, DropRequests, UserDropsReader,
     DropReader, clock, wire, writing
<1>10. CASE Recv
  BY <1>10 DEF Types, Flags, Recv, Yields, Results, ReaderAfter, clock,
     writing
<1>11. CASE SetTrailers
  BY <1>11 DEF Types, Flags, SetTrailers, clock, wire, reading, writing
<1>12. CASE HandlerFails
  BY <1>12 DEF Types, Flags, HandlerFails, UserDropsReader,
     DropReader, ErrorResponse, clock,
     wire
<1>13. CASE HandlerReturns
  BY <1>13 DEF Types, Flags, HandlerReturns, UserDropsReader,
     DropReader, ErrorResponse, clock,
     wire
<1>14. CASE Send
  BY <1>14 DEF Types, Flags, Send, clock, wire, reading
<1>15. CASE AbandonSend
  BY <1>15 DEF Types, Flags, AbandonSend, Abandon, clock, wire, reading
<1>16. CASE ResponderReturns
  BY <1>16 DEF Types, Flags, ResponderReturns, UserDropsReader,
     DropReader, EndLoop, Abandon,
     clock, wire
<1>17. CASE ReplyLost
  BY <1>17 DEF Types, Flags, ReplyLost, Abandon, clock, wire, reading
<1>18. CASE ReadPart
  BY <1>18 DEF Types, Flags, ReadPart, clock, wire, writing
<1>19. CASE SendFails
  BY <1>19 DEF Types, Flags, SendFails, Abandon, clock, wire, reading
<1>20. CASE StreamItem
  BY <1>20 DEF Types, Flags, StreamItem, clock, wire, reading
<1>21. CASE WriteBytes
  BY <1>21 DEF Types, Flags, WriteBytes, clock, wire, reading
<1>22. CASE ClientSends
  BY <1>22 DEF Types, Flags, ClientSends, clock, reading, writing
<1>23. CASE ClientEnds
  BY <1>23 DEF Types, Flags, ClientEnds, clock, reading, writing
<1>24. CASE StreamBreaks
  BY <1>24 DEF Types, Flags, StreamBreaks, clock, reading, writing
<1>25. CASE Shutdown
  BY <1>25 DEF Types, Flags, Shutdown, wire, reading, writing
<1>26. CASE UNCHANGED <<fresh, shutdown, arriving, inEnd, broken, half, lost, torn,
                        garbled, abandoned>>
  BY <1>26 DEF Types, Flags
<1> QED BY <1>1, <1>2, <1>3, <1>4, <1>5, <1>6, <1>7, <1>8, <1>9, <1>10, <1>11,
   <1>12, <1>13, <1>14, <1>15, <1>16, <1>17, <1>18, <1>19, <1>20, <1>21,
   <1>22, <1>23, <1>24, <1>25, <1>26 DEF vars, Next, Framework, UserCode,
   Response, Client, call, clock, wire, reading, writing, StreamCut, Trailers,
   DeadlinePasses, DropReader, Abandon

(* The values keep their types. *)
LEMMA ValuesStep ==
    ASSUME Types, [Next]_vars PROVE Values'
<1>1. CASE Accept
  BY <1>1 DEF Types, Values, Accept, ErrorResponse, Statuses, Own, call, wire,
     ending
<1>2. CASE RaceShutdown
  BY <1>2, FrameAssumption DEF Types, Values, RaceShutdown, Reject,
     ErrorResponse, EndLoop, DropReader, Abandon, Statuses, Own, call, clock,
     wire
<1>3. CASE RaceDeadline
  BY <1>3, FrameAssumption DEF Types, Values, RaceDeadline, Reject,
     ErrorResponse, EndLoop, DropReader, Abandon, Statuses, Own, call, clock,
     wire
<1>4. CASE ReadFirst
  <2>1. PICK r \in Results : ReadOne(r, "Message")
    BY <1>4 DEF ReadFirst
  <2>2. taken' \in Nat
    BY <2>1, YieldsLemma DEF ReadOne
  <2>3. status' \in {"none"} \cup Statuses
    BY <2>1 DEF Types, Values, ReadOne, ErrorResponse, Results, Statuses, Own
  <2>4. /\ phase' \in {phase, "body"} /\ step' \in {step, "second", "user"}
        /\ reader' \in {"none", "open", "done"} /\ UNCHANGED <<produced, left>>
    BY <2>1 DEF ReadOne, ErrorResponse
  <2>5. UNCHANGED <<call, clock, inbox, out, result>>
    BY <2>1 DEF ReadOne
  <2> QED BY <2>2, <2>3, <2>4, <2>5 DEF Types, Values, call, clock
<1>5. CASE ReadSecond
  <2>1. PICK r \in Results : ReadOne(r, "None")
    BY <1>5 DEF ReadSecond
  <2>2. taken' \in Nat
    BY <2>1, YieldsLemma DEF ReadOne
  <2>3. status' \in {"none"} \cup Statuses
    BY <2>1 DEF Types, Values, ReadOne, ErrorResponse, Results, Statuses, Own
  <2>4. /\ phase' \in {phase, "body"} /\ step' \in {step, "second", "user"}
        /\ reader' \in {"none", "open", "done"} /\ UNCHANGED <<produced, left>>
    BY <2>1 DEF ReadOne, ErrorResponse
  <2>5. UNCHANGED <<call, clock, inbox, out, result>>
    BY <2>1 DEF ReadOne
  <2> QED BY <2>2, <2>3, <2>4, <2>5 DEF Types, Values, call, clock
<1>6. CASE Upgrade
  BY <1>6 DEF Types, Values, Upgrade, call, wire, writing, ending
<1>7. CASE OpenRequests
  BY <1>7 DEF Types, Values, OpenRequests, call, clock, wire, writing, ending
<1>8. CASE DropRequests
  BY <1>8 DEF Types, Values, DropRequests, UserDropsReader,
     DropReader, call, clock, wire,
     writing, ending
<1>9. CASE Recv
  <2>1. PICK r \in Results : Yields(r) /\ reader' = ReaderAfter(r)
    BY <1>9 DEF Recv
  <2> QED BY <1>9, <2>1, YieldsLemma DEF Types, Values, Recv, ReaderAfter,
       call, clock, writing, ending
<1>10. CASE HandlerFails
  BY <1>10 DEF Types, Values, HandlerFails, UserDropsReader,
     DropReader, ErrorResponse,
     Statuses, call, clock, wire
<1>11. CASE HandlerReturns
  BY <1>11, FrameAssumption DEF Types, Values, HandlerReturns, UserDropsReader,
     DropReader,
     ErrorResponse, Frame, Statuses, Own, call, clock, wire
<1>12. CASE Send
  BY <1>12, FrameAssumption DEF Types, Values, Send, Frame, call, clock, wire,
     reading, ending
<1>13. CASE AbandonSend
  BY <1>13, FrameAssumption DEF Types, Values, AbandonSend, Abandon, call,
     clock, wire, reading, ending
<1>14. CASE ResponderReturns
  BY <1>14 DEF Types, Values, ResponderReturns, UserDropsReader,
     DropReader, EndLoop, Abandon,
     Statuses, call, clock, wire
<1>15. CASE StreamCut
  BY <1>15 DEF Types, Values, StreamCut, Statuses, Own, call, clock, wire,
     reading, writing
<1>16. CASE Trailers
  BY <1>16 DEF Types, Values, Trailers, call, clock, wire, reading, writing
<1>17. CASE ReplyLost
  BY <1>17, FrameAssumption DEF Types, Values, ReplyLost, Abandon, call,
     clock, wire, reading
<1>18. CASE SendFails
  BY <1>18, FrameAssumption DEF Types, Values, SendFails, Abandon, call,
     clock, wire, reading, ending
<1>19. CASE StreamItem
  BY <1>19, FrameAssumption DEF Types, Values, StreamItem, Frame, Statuses,
     Own, call, clock, wire, reading
<1>20. CASE WriteBytes
  BY <1>20, FrameAssumption DEF Types, Values, WriteBytes, call, clock, wire,
     reading, ending
<1>21. CASE ClientSends
  BY <1>21 DEF Types, Values, ClientSends, call, clock, reading, writing,
     ending
<1>22. CASE DeadlinePasses
  BY <1>22 DEF Types, Values, DeadlinePasses, call, wire, reading, writing,
     ending
<1>23. CASE UNCHANGED <<call, phase, step, deadline, connDeadline, inbox, taken,
                        reader, produced, left, out, status, result>>
  BY <1>23 DEF Types, Values, call
<1> QED BY <1>1, <1>2, <1>3, <1>4, <1>5, <1>6, <1>7, <1>8, <1>9, <1>10, <1>11,
   <1>12, <1>13, <1>14, <1>15, <1>16, <1>17, <1>18, <1>19, <1>20, <1>21,
   <1>22, <1>23 DEF vars, Next, Framework, UserCode, Response, Client, call,
   clock, wire, reading, writing, ending, Suspend, SetTrailers, ReadPart,
   ClientEnds, StreamBreaks, Shutdown, DropReader, Abandon

(* Phases follow one another as Position says. *)
LEMMA PositionStep ==
    ASSUME Types, Position, [Next]_vars PROVE Position'
<1>1. CASE Accept
  BY <1>1 DEF Position, Accept, ErrorResponse, ReadsOne, call, ending
<1>2. CASE RaceShutdown
  BY <1>2 DEF Position, RaceShutdown, Reject, ErrorResponse, EndLoop,
     DropReader, Abandon, ReadsOne, call
<1>3. CASE RaceDeadline
  BY <1>3 DEF Position, RaceDeadline, Reject, ErrorResponse, EndLoop,
     DropReader, Abandon, ReadsOne, call
<1>4. CASE ReadFirst
  BY <1>4 DEF Position, ReadFirst, ReadOne, Yields, Results, ErrorResponse,
     ReadsOne, call
<1>5. CASE ReadSecond
  BY <1>5 DEF Position, ReadSecond, ReadOne, Yields, Results, ErrorResponse
<1>6. CASE Upgrade
  BY <1>6 DEF Position, Upgrade, ReadsOne, call, ending
<1>7. CASE OpenRequests
  BY <1>7 DEF Position, OpenRequests, ReadsOne, call, writing, ending
<1>8. CASE DropRequests
  BY <1>8 DEF Position, DropRequests, UserDropsReader,
     DropReader, ReadsOne, call, writing,
     ending
<1>9. CASE Recv
  BY <1>9 DEF Position, Recv, ReadsOne, call, writing, ending
<1>10. CASE HandlerFails
  BY <1>10, StatusesAssumption DEF Position, HandlerFails, UserDropsReader,
     DropReader,
     ErrorResponse, ReadsOne
<1>11. CASE HandlerReturns
  BY <1>11, ShapesAssumption DEF Types, Values, Position, HandlerReturns, UserDropsReader,
     DropReader, ErrorResponse, InUserCode, SingleReply, ReadsOne, AllShapes,
     call
<1>12. CASE Send
  BY <1>12 DEF Position, Send, ReadsOne, call, ending
<1>13. CASE AbandonSend
  BY <1>13 DEF Position, AbandonSend, Abandon, ReadsOne, call, ending
<1>14. CASE ResponderReturns
  BY <1>14, StatusesAssumption DEF Position, ResponderReturns, UserDropsReader,
     DropReader,
     EndLoop, Abandon, ReadsOne, call
<1>15. CASE StreamCut
  BY <1>15 DEF Position, StreamCut, Pulls, ReadsOne, call, writing
<1>16. CASE Trailers
  BY <1>16 DEF Position, Trailers
<1>17. CASE ReplyLost
  BY <1>17 DEF Position, ReplyLost, Abandon
<1>18. CASE ReadPart
  BY <1>18 DEF Position, ReadPart, ReadsOne, call, writing, ending
<1>19. CASE SendFails
  BY <1>19 DEF Position, SendFails, Abandon, ReadsOne, call, ending
<1>20. CASE StreamItem
  BY <1>20 DEF Position, StreamItem, Pulls, ReadsOne, call
<1>21. CASE WriteBytes
  BY <1>21 DEF Position, WriteBytes, ReadsOne, call, ending
<1>22. CASE DeadlinePasses
  BY <1>22 DEF Position, DeadlinePasses, ReadsOne, call, writing, ending
<1>23. CASE UNCHANGED <<shape, phase, step, reading, deadline, connDeadline,
                        writing, ending, result>>
  BY <1>23 DEF Position, reading, writing, ending
<1> QED BY <1>1, <1>2, <1>3, <1>4, <1>5, <1>6, <1>7, <1>8, <1>9, <1>10, <1>11,
   <1>12, <1>13, <1>14, <1>15, <1>16, <1>17, <1>18, <1>19, <1>20, <1>21,
   <1>22, <1>23 DEF vars, Next, Framework, UserCode, Response, Client, call,
   clock, Suspend, SetTrailers, ClientSends, ClientEnds, StreamBreaks,
   Shutdown, DropReader, Abandon

(* read_one hands one request to the handler, and nothing changes it after. *)
LEMMA OneReadStep ==
    ASSUME Types, Position, OneRead, [Next]_vars PROVE OneRead'
<1>1. CASE Accept
  BY <1>1 DEF Position, OneRead, Accept, ErrorResponse, ReadsOne, call
<1>2. CASE RaceShutdown
  BY <1>2 DEF OneRead, RaceShutdown, Reject, ErrorResponse, EndLoop,
     DropReader, Abandon, ReadsOne, call, wire
<1>3. CASE RaceDeadline
  BY <1>3 DEF OneRead, RaceDeadline, Reject, ErrorResponse, EndLoop,
     DropReader, Abandon, ReadsOne, call, wire
<1>4. CASE ReadFirst
  <2>1. PICK r \in Results : ReadOne(r, "Message")
    BY <1>4 DEF ReadFirst
  <2>2. step = "first" /\ phase = "run" /\ inbox' = inbox /\ shape' = shape
    BY <1>4, <2>1 DEF ReadFirst, ReadOne, call
  <2>3. CASE r = "Message"
    BY <2>1, <2>2, <2>3, YieldsLemma DEF Types, Values, OneRead, ReadOne
  <2>4. CASE r # "Message"
    BY <2>1, <2>2, <2>4 DEF OneRead, ReadOne, ErrorResponse
  <2> QED BY <2>3, <2>4
<1>5. CASE ReadSecond
  <2>1. PICK r \in Results : ReadOne(r, "None")
    BY <1>5 DEF ReadSecond
  <2>2. /\ step = "second" /\ phase = "run" /\ inbox' = inbox /\ shape' = shape
        /\ inEnd' = inEnd
    BY <1>5, <2>1 DEF ReadSecond, ReadOne, call
  <2>3. CASE r = "None"
    BY <2>1, <2>2, <2>3, YieldsLemma DEF Types, Values, OneRead, ReadOne
  <2>4. CASE r # "None"
    BY <2>1, <2>2, <2>4 DEF OneRead, ReadOne, ErrorResponse
  <2> QED BY <2>3, <2>4
<1>6. CASE Upgrade
  BY <1>6 DEF Position, OneRead, Upgrade, ReadsOne, call
<1>7. CASE OpenRequests
  BY <1>7 DEF OneRead, OpenRequests, ReadsOne, call, wire
<1>8. CASE DropRequests
  BY <1>8 DEF OneRead, DropRequests, UserDropsReader,
     DropReader, InUserCode, ReadsOne, call,
     wire
<1>9. CASE Recv
  <2>1. PICK r \in Results : Yields(r)
    BY <1>9 DEF Recv
  <2>2. UNCHANGED <<call, phase, step, inbox, inEnd>> /\ step = "user"
    BY <1>9 DEF Recv, InUserCode
  <2>3. taken' = taken \/ (taken' = taken + 1 /\ taken < Len(inbox))
    BY <2>1, YieldsLemma
  <2> QED BY <2>2, <2>3 DEF OneRead, call
<1>10. CASE HandlerFails
  BY <1>10 DEF OneRead, HandlerFails, UserDropsReader,
     DropReader, ErrorResponse, ReadsOne,
     call, wire
<1>11. CASE HandlerReturns
  BY <1>11 DEF OneRead, HandlerReturns, UserDropsReader,
     DropReader, ErrorResponse, ReadsOne,
     call, wire
<1>12. CASE ResponderReturns
  BY <1>12 DEF Position, OneRead, ResponderReturns, UserDropsReader,
     DropReader, EndLoop,
     Abandon, ReadsOne, call
<1>13. CASE Trailers
  BY <1>13 DEF OneRead, Trailers, ReadsOne, call, wire, reading
<1>14. CASE ReplyLost
  BY <1>14 DEF OneRead, ReplyLost, Abandon, ReadsOne, call, wire, reading
<1>15. CASE ClientSends
  BY <1>15 DEF OneRead, ClientSends, ReadsOne, call, reading
<1>16. CASE ClientEnds
  BY <1>16 DEF OneRead, ClientEnds, ReadsOne, call, reading
<1>17. CASE UNCHANGED <<shape, phase, step, reader, taken, lost, inbox, inEnd>>
  BY <1>17 DEF OneRead
<1> QED BY <1>1, <1>2, <1>3, <1>4, <1>5, <1>6, <1>7, <1>8, <1>9, <1>10, <1>11,
   <1>12, <1>13, <1>14, <1>15, <1>16, <1>17 DEF vars, Next, Framework,
   UserCode, Response, Client, call, wire, reading, Suspend, SetTrailers,
   Send, AbandonSend, StreamCut, ReadPart, SendFails, StreamItem, WriteBytes,
   StreamBreaks, Shutdown, DeadlinePasses, DropReader, Abandon

(* That user code gave something up is not forgotten. *)
LEMMA AbandonedStays ==
    ASSUME Types, [Next]_vars PROVE abandoned => abandoned'
<1>1. abandoned \in BOOLEAN
  BY DEF Types, Flags
<1>2. CASE UserDropsReader \/ abandoned' = TRUE
  BY <1>1, <1>2 DEF UserDropsReader
<1>3. CASE abandoned' = abandoned
  BY <1>3
<1>4. CASE Framework
  BY <1>3, <1>4 DEF Framework, Accept, RaceShutdown, RaceDeadline, Suspend, ReadFirst,
     ReadSecond, ReadOne, Upgrade
<1>5. CASE UserCode
  BY <1>2, <1>3, <1>5 DEF UserCode, OpenRequests, DropRequests, Recv, SetTrailers,
     HandlerFails, HandlerReturns, Send, AbandonSend, ResponderReturns
<1>6. CASE Response
  BY <1>3, <1>6 DEF Response, StreamCut, Trailers, ReplyLost
<1>7. CASE ReadPart \/ SendFails \/ StreamItem \/ WriteBytes
  BY <1>3, <1>7 DEF ReadPart, SendFails, StreamItem, WriteBytes
<1>8. CASE Client \/ StreamBreaks \/ Shutdown \/ DeadlinePasses
  BY <1>3, <1>8 DEF Client, ClientSends, ClientEnds, StreamBreaks, Shutdown, DeadlinePasses
<1>9. CASE UNCHANGED vars
  BY <1>3, <1>9 DEF vars
<1> QED BY <1>4, <1>5, <1>6, <1>7, <1>8, <1>9 DEF Next

(* Frames produced are frames written, or under way. *)
LEMMA CountStep ==
    ASSUME Types, Position, Count, [Next]_vars PROVE Count'
<1>1. CASE Accept
  BY <1>1 DEF Position, Count, Accept, ErrorResponse, UnderWay
<1>2. CASE RaceShutdown
  BY <1>2 DEF Position, Count, RaceShutdown, Reject, ErrorResponse, EndLoop,
     DropReader, Abandon, UnderWay, call
<1>3. CASE RaceDeadline
  BY <1>3 DEF Position, Count, RaceDeadline, Reject, ErrorResponse, EndLoop,
     DropReader, Abandon, UnderWay, call
<1>4. CASE ReadFirst
  BY <1>4 DEF Position, Count, ReadFirst, ReadOne, Yields, Results,
     ErrorResponse, UnderWay
<1>5. CASE ReadSecond
  BY <1>5 DEF Position, Count, ReadSecond, ReadOne, Yields, Results,
     ErrorResponse, UnderWay
<1>6. CASE Upgrade
  BY <1>6 DEF Position, Count, Upgrade, UnderWay, call, wire, writing
<1>7. CASE HandlerFails
  BY <1>7, StatusesAssumption DEF Position, Count, HandlerFails, UserDropsReader,
     DropReader,
     ErrorResponse, UnderWay
<1>8. CASE HandlerReturns
  BY <1>8, FrameAssumption DEF Position, Count, HandlerReturns, UserDropsReader,
     DropReader,
     ErrorResponse, Frame, UnderWay
<1>9. CASE Send
  BY <1>9, FrameAssumption DEF Types, Values, Position, Count, Send, Frame,
     UnderWay, call, wire
<1>10. CASE AbandonSend
  BY <1>10 DEF Position, Count, AbandonSend, Abandon, UnderWay, call
<1>11. CASE ResponderReturns
  BY <1>11 DEF Types, Flags, Values, Count, ResponderReturns, UserDropsReader,
     DropReader,
     EndLoop, Abandon, UnderWay, call, wire
<1>12. CASE StreamCut
  BY <1>12 DEF Position, Count, StreamCut, Pulls, UnderWay,
     call, writing
<1>13. CASE Trailers
  BY <1>13 DEF Position, Count, Trailers, UnderWay, NoReply, call, writing
<1>14. CASE ReplyLost
  BY <1>14 DEF Count, ReplyLost, Abandon, Lost
<1>15. CASE SendFails
  BY <1>15 DEF Position, Count, SendFails, Abandon, UnderWay, call, wire
<1>16. CASE StreamItem
  BY <1>16, FrameAssumption DEF Types, Values, Position, Count, StreamItem,
     Pulls, Frame, UnderWay, call
<1>17. CASE WriteBytes
  BY <1>17 DEF Types, Values, Count, WriteBytes, UnderWay, call, ending
<1>18. CASE StreamBreaks
  BY <1>18 DEF Count, StreamBreaks, UnderWay, call, writing, ending
<1>19. CASE UNCHANGED <<shape, phase, ending, writing, broken, result>>
  BY <1>19, AbandonedStays DEF Count, UnderWay, writing, ending
<1> QED BY <1>1, <1>2, <1>3, <1>4, <1>5, <1>6, <1>7, <1>8, <1>9, <1>10, <1>11,
   <1>12, <1>13, <1>14, <1>15, <1>16, <1>17, <1>18, <1>19 DEF vars, Next,
   Framework, UserCode, Response, Client, call, wire, Suspend, OpenRequests,
   DropRequests, Recv, SetTrailers, ReadPart, ClientSends, ClientEnds,
   Shutdown, DeadlinePasses, DropReader, UserDropsReader, Abandon

(* Every status has its reason. *)
LEMMA TruthStep ==
    ASSUME Types, Position, Truth, [Next]_vars PROVE Truth'
<1>1. CASE Accept
  BY <1>1, StatusesAssumption DEF Position, Truth, Accept, ErrorResponse, Own,
     call, ending
<1>2. CASE RaceShutdown
  BY <1>2, StatusesAssumption DEF Truth, RaceShutdown, Reject, ErrorResponse,
     EndLoop, DropReader, Abandon, Own, call, clock
<1>3. CASE RaceDeadline
  BY <1>3, StatusesAssumption DEF Truth, RaceDeadline, Reject, ErrorResponse,
     EndLoop, DropReader, Abandon, Own, call, clock
<1>4. CASE ReadFirst
  BY <1>4, StatusesAssumption DEF Truth, ReadFirst, ReadOne, Yields, Results,
     ErrorResponse, Own, call, clock
<1>5. CASE ReadSecond
  BY <1>5, StatusesAssumption DEF Truth, ReadSecond, ReadOne, Yields, Results,
     ErrorResponse, Own, call, clock
<1>6. CASE Upgrade
  BY <1>6 DEF Position, Truth, Upgrade, call, ending
<1>7. CASE HandlerFails
  BY <1>7, StatusesAssumption DEF Truth, HandlerFails, UserDropsReader,
     DropReader,
     ErrorResponse, Own, call, clock
<1>8. CASE HandlerReturns
  BY <1>8, StatusesAssumption DEF Truth, HandlerReturns, UserDropsReader,
     DropReader,
     ErrorResponse, Own, call, clock
<1>9. CASE ResponderReturns
  BY <1>9, StatusesAssumption DEF Truth, ResponderReturns, UserDropsReader,
     DropReader,
     EndLoop, Abandon, Own, call, clock
<1>10. CASE StreamCut
  BY <1>10, StatusesAssumption DEF Truth, StreamCut, Own, call, clock
<1>11. CASE StreamItem
  BY <1>11, StatusesAssumption DEF Truth, StreamItem, Own, call, clock
<1>12. CASE Shutdown
  BY <1>12 DEF Truth, Shutdown, call, ending
<1>13. CASE DeadlinePasses
  BY <1>13 DEF Truth, DeadlinePasses, call, ending
<1>14. CASE UNCHANGED <<req, status, result, clock>>
  BY <1>14 DEF Truth, clock
<1> QED BY <1>1, <1>2, <1>3, <1>4, <1>5, <1>6, <1>7, <1>8, <1>9, <1>10, <1>11,
   <1>12, <1>13, <1>14 DEF vars, Next, Framework, UserCode, Response, Client,
   call, ending, Suspend, OpenRequests, DropRequests, Recv, SetTrailers, Send,
   AbandonSend, Trailers, ReplyLost, ReadPart, SendFails, WriteBytes,
   ClientSends, ClientEnds, StreamBreaks, DropReader, Abandon

(* into_parts hands all of the metadata on. *)
LEMMA HandOnLemma ==
    ASSUME Carried, phase \in {"new", "run"}, NEW owner \in {"body", "loop"}, HandOn(owner)
    PROVE  /\ meta' \in [Owners -> SUBSET {"run", "loop"}]
           /\ meta'[owner] = meta'.set
BY DEF Carried, HandOn, Owners

(* Whoever has the call has the metadata, and so has whoever it goes to. *)
LEMMA CarriedStep ==
    ASSUME Position, Carried, [Next]_vars PROVE Carried'
<1>1. CASE HandOn("body") /\ phase \in {"new", "run"} /\ phase' \in {"body", "stream"}
  BY <1>1, HandOnLemma DEF Carried
<1>2. CASE HandOn("loop") /\ phase \in {"new", "run"} /\ phase' = "seam"
  BY <1>2, HandOnLemma DEF Carried
<1>3. CASE SetTrailers
  <2>1. CASE phase = "run" /\ meta' = [meta EXCEPT !.set = @ \cup {phase}, !.conn = @ \cup {phase}]
    BY <1>3, <2>1 DEF Carried, Owners, SetTrailers
  <2>2. CASE phase = "loop" /\ meta' = [meta EXCEPT !.set = @ \cup {phase}, !.loop = @ \cup {phase}]
    BY <1>3, <2>2 DEF Carried, Owners, SetTrailers
  <2> QED BY <1>3, <2>1, <2>2 DEF SetTrailers
<1>4. CASE meta' = meta /\ (phase' = phase \/ phase' = "ended")
  BY <1>4 DEF Carried
<1>5. CASE meta' = meta /\ phase = "new" /\ phase' = "run"
  BY <1>5 DEF Carried
<1>6. CASE meta' = meta /\ phase \in {"seam", "loop"} /\ phase' \in {"loop", "closing"}
  BY <1>6 DEF Carried
<1>7. CASE Framework
  BY <1>1, <1>4, <1>5, <1>6, <1>7 DEF Framework, Accept, RaceShutdown, RaceDeadline, Reject,
     ErrorResponse, EndLoop, Suspend, ReadFirst, ReadSecond, ReadOne, Upgrade
<1>8. CASE UserCode
  BY <1>1, <1>2, <1>3, <1>4, <1>6, <1>8 DEF UserCode, OpenRequests, DropRequests, Recv,
     HandlerFails, HandlerReturns, ErrorResponse, Send, AbandonSend, ResponderReturns, EndLoop
<1>9. CASE Response
  BY <1>4, <1>9 DEF Response, StreamCut, Trailers, ReplyLost
<1>10. CASE ReadPart \/ SendFails \/ StreamItem \/ WriteBytes
  BY <1>4, <1>10 DEF ReadPart, SendFails, StreamItem, WriteBytes
<1>11. CASE Client \/ StreamBreaks \/ Shutdown \/ DeadlinePasses
  BY <1>4, <1>11 DEF Client, ClientSends, ClientEnds, StreamBreaks, Shutdown, DeadlinePasses
<1>12. CASE UNCHANGED vars
  BY <1>4, <1>12 DEF vars
<1> QED BY <1>7, <1>8, <1>9, <1>10, <1>11, <1>12 DEF Next

(* The client is told once, and what is so. *)
LEMMA SaidStep ==
    ASSUME Types, Position, Count, Carried, Said, [Next]_vars PROVE Said'
<1>1. CASE Accept
  <2>1. reply' \in {NoReply, Lost} \cup
                  [http : {400, 415}, status : {"none"}, meta : {{}}]
    BY <1>1 DEF Position, Accept, ending
  <2>2. /\ reply' \in [http : {0, 200, 400, 415},
                       status : {"none", "lost"} \cup Statuses,
                       meta : SUBSET {"run", "loop"}]
        /\ reply'.status \in {"none", "lost"}
    BY <2>1 DEF NoReply, Lost
  <2> QED BY <2>2 DEF Said
<1>2. CASE RaceShutdown
  BY <1>2 DEF Position, Said, RaceShutdown, Reject, EndLoop, DropReader,
     Abandon
<1>3. CASE RaceDeadline
  BY <1>3 DEF Position, Said, RaceDeadline, Reject, EndLoop, DropReader,
     Abandon
<1>4. CASE ReadFirst
  BY <1>4 DEF Position, Said, ReadFirst, ReadOne
<1>5. CASE ReadSecond
  BY <1>5 DEF Position, Said, ReadSecond, ReadOne
<1>6. CASE SetTrailers
  BY <1>6 DEF Position, Said, SetTrailers, InUserCode, Racing, UnderWay, ending
<1>7. CASE HandlerFails
  BY <1>7 DEF Position, Said, HandlerFails, UserDropsReader,
     DropReader
<1>8. CASE HandlerReturns
  BY <1>8 DEF Position, Said, HandlerReturns, UserDropsReader,
     DropReader
<1>9. CASE Send
  BY <1>9 DEF Position, Said, Send, ending
<1>10. CASE ResponderReturns
  BY <1>10 DEF Position, Said, ResponderReturns, UserDropsReader,
     DropReader, EndLoop, Abandon
<1>11. CASE StreamCut
  BY <1>11 DEF Said, StreamCut, Pulls
<1>12. CASE Trailers
  <2>1. /\ reply' = [http |-> 200, status |-> status, meta |-> meta.set]
        /\ UNCHANGED <<status, meta, out, produced, abandoned>>
    BY <1>12 DEF Trailers, Carried, writing
  <2>2. status \in Statuses /\ meta.set \in SUBSET {"run", "loop"}
    BY <1>12 DEF Types, Values, Carried, Owners, Trailers
  <2>3. reply' \in [http : {0, 200, 400, 415}, status : {"none", "lost"} \cup Statuses,
                   meta : SUBSET {"run", "loop"}]
    BY <2>1, <2>2
  <2>4. reply'.status = status' /\ reply'.meta = meta'.set
    BY <2>1
  <2>5. ~abandoned /\ status = "OK" => out = produced
    BY <1>12, StatusesAssumption DEF Types, Values, Position, Count, Trailers, UnderWay,
       NoReply, ReadsOne
  <2> QED BY <2>1, <2>3, <2>4, <2>5 DEF Said
<1>13. CASE ReplyLost
  BY <1>13 DEF Said, ReplyLost, Abandon, Lost
<1>14. CASE StreamItem
  BY <1>14 DEF Said, StreamItem, Pulls
<1>15. CASE WriteBytes
  BY <1>15 DEF Count, Said, WriteBytes, UnderWay, ending
<1>16. CASE UNCHANGED <<ending, meta, out, produced>>
  BY <1>16, AbandonedStays DEF Said, ending
<1> QED BY <1>1, <1>2, <1>3, <1>4, <1>5, <1>6, <1>7, <1>8, <1>9, <1>10, <1>11,
   <1>12, <1>13, <1>14, <1>15, <1>16 DEF vars, Next, Framework, UserCode,
   Response, Client, writing, Suspend, Upgrade, OpenRequests, DropRequests,
   Recv, AbandonSend, ReadPart, SendFails, ClientSends, ClientEnds,
   StreamBreaks, Shutdown, DeadlinePasses, DropReader, UserDropsReader

(* Frames stay read, and a frame too big among them. *)
LEMMA SkippedStep ==
    ASSUME Types, OnAFrame, [Next]_vars
    PROVE  taken' <= Len(inbox') /\ (SkippedOne => SkippedOne')
<1>1. taken \in Nat /\ Len(inbox) \in Nat /\ taken <= Len(inbox) /\ inbox \in Seq(Items)
  BY DEF Types, Values, OnAFrame
<1>2. CASE UNCHANGED <<taken, inbox>>
  BY <1>1, <1>2 DEF SkippedOne
<1>3. ASSUME NEW r \in Results, Yields(r), inbox' = inbox
      PROVE  taken' <= Len(inbox') /\ (SkippedOne => SkippedOne')
  <2>1. taken' = taken \/ (taken' = taken + 1 /\ taken < Len(inbox))
    BY <1>3, YieldsLemma
  <2> QED BY <1>1, <1>3, <2>1 DEF SkippedOne
<1>4. CASE ReadFirst \/ ReadSecond \/ Recv
  <2>1. (\E r \in Results : Yields(r)) /\ inbox' = inbox
    BY <1>4 DEF ReadFirst, ReadSecond, ReadOne, Recv
  <2> QED BY <2>1, <1>3
<1>5. CASE ClientSends
  <2>1. taken' = taken
    BY <1>5 DEF ClientSends, reading
  <2>2. inbox' = inbox \/ \E item \in Items : inbox' = Append(inbox, item)
    BY <1>5 DEF ClientSends
  <2>3. ASSUME NEW item \in Items, inbox' = Append(inbox, item)
        PROVE  /\ taken' <= Len(inbox')
               /\ \A i \in 1..taken : inbox'[i] = inbox[i]
    BY <1>1, <2>1, <2>3
  <2> QED BY <1>1, <1>2, <2>1, <2>2, <2>3 DEF SkippedOne
<1> QED BY <1>2, <1>4, <1>5 DEF vars, Next, Framework, UserCode, Response, Client, Accept,
   RaceShutdown, RaceDeadline, Reject, Suspend, Upgrade, OpenRequests, DropRequests,
   UserDropsReader, DropReader, SetTrailers, HandlerFails, HandlerReturns, Send,
   AbandonSend, ResponderReturns, StreamCut, Trailers, ReplyLost, ReadPart, SendFails,
   StreamItem, WriteBytes, ClientEnds, StreamBreaks, Shutdown, DeadlinePasses, wire, reading

(* A recv loses a frame only if it is too big, and reads nonsense only after. *)
LEMMA YieldsOnAFrame ==
    ASSUME Types, taken <= Len(inbox), NEW r \in Results, Yields(r), inbox' = inbox
    PROVE  /\ lost' => lost \/ SkippedOne'
           /\ garbled' => garbled \/ lost
<1>1. taken \in Nat
  BY DEF Types, Values
<1>2. ASSUME lost', ~lost PROVE SkippedOne'
  <2>1. taken' = taken + 1 /\ inbox[taken + 1] = "TooBig"
    BY <1>2, YieldsLemma
  <2> QED BY <1>1, <2>1 DEF SkippedOne
<1> QED BY <1>2, YieldsLemma

(* No reader starts inside a frame. *)
LEMMA OnAFrameStep ==
    ASSUME Types, Position, OnAFrame, [Next]_vars PROVE OnAFrame'
<1> USE SkippedStep
<1>1. CASE Accept
  BY <1>1 DEF Position, OnAFrame, Accept
<1>2. CASE RaceShutdown \/ RaceDeadline
  BY <1>2 DEF OnAFrame, RaceShutdown, RaceDeadline, Reject, ErrorResponse, EndLoop,
     DropReader
<1>3. CASE ReadFirst \/ ReadSecond
  <2>1. PICK r \in Results : Yields(r) /\ inbox' = inbox
    BY <1>3 DEF ReadFirst, ReadSecond, ReadOne
  <2>2. phase = "run" /\ abandoned' = abandoned
    BY <1>3 DEF ReadFirst, ReadSecond, ReadOne
  <2> QED BY <2>1, <2>2, YieldsOnAFrame DEF OnAFrame
<1>4. CASE Recv
  <2>1. PICK r \in Results : Yields(r) /\ inbox' = inbox
    BY <1>4 DEF Recv
  <2>2. phase \in {"run", "loop"} /\ abandoned' = abandoned /\ phase' = phase
    BY <1>4 DEF Recv, InUserCode, Racing
  <2> QED BY <2>1, <2>2, YieldsOnAFrame DEF OnAFrame
<1>5. CASE DropRequests \/ HandlerFails \/ HandlerReturns \/ ResponderReturns
  <2>1. garbled' = garbled /\ (lost' => lost \/ half) /\ (abandoned \/ half => abandoned')
    BY <1>5 DEF Types, Flags, DropRequests, HandlerFails, HandlerReturns,
       ResponderReturns, UserDropsReader, DropReader
  <2>2. phase \in {"run", "loop"}
    BY <1>5 DEF DropRequests, HandlerFails, HandlerReturns, ResponderReturns
  <2> QED BY <2>1, <2>2 DEF OnAFrame
<1>6. CASE Upgrade
  BY <1>6 DEF OnAFrame, Upgrade
<1>7. CASE UNCHANGED <<garbled, lost>> /\ phase' \in {phase, "ended"}
  BY <1>7, AbandonedStays DEF OnAFrame
<1> QED BY <1>1, <1>2, <1>3, <1>4, <1>5, <1>6, <1>7 DEF vars, Next, Framework, UserCode,
   Response, Client, reading, Suspend, OpenRequests, SetTrailers, Send, AbandonSend,
   StreamCut, Trailers, ReplyLost, ReadPart, SendFails, StreamItem, WriteBytes,
   ClientSends, ClientEnds, StreamBreaks, Shutdown, DeadlinePasses

-----------------------------------------------------------------------------
(* Every step keeps the invariant. *)
LEMMA StepIInv == IInv /\ [Next]_vars => IInv'
<1> SUFFICES ASSUME IInv, [Next]_vars PROVE IInv'
  OBVIOUS
<1> USE DEF IInv
<1>1. Types'
  BY FlagsStep, ValuesStep DEF Types
<1>2. Position' /\ OneRead'
  BY PositionStep, OneReadStep
<1>3. Count' /\ Truth' /\ Carried' /\ Said'
  BY CountStep, TruthStep, CarriedStep, SaidStep
<1>4. OnAFrame'
  BY OnAFrameStep
<1> QED BY <1>1, <1>2, <1>3, <1>4

(* The invariant holds of every call, whatever user code does. *)
THEOREM InvariantHolds == Spec => []IInv
BY InitIInv, StepIInv, PTL DEF Spec

-----------------------------------------------------------------------------
(* The variables of a call keep their types. *)
THEOREM TypeCorrect == Spec => []TypeOK
<1>1. IInv => TypeOK
  BY DEF IInv, Types, Flags, Values, Carried, Said, TypeOK
<1> QED BY <1>1, InvariantHolds, PTL

(* A unary or server-streaming handler runs only for exactly one request,
   complete and followed by END_STREAM (read_one): for any request frames.   *)
THEOREM HandlerSeesOneRequest == Spec => []ExactlyOneRequest
<1>1. IInv => ExactlyOneRequest
  <2> SUFFICES ASSUME IInv, shape \in ReadsOne, step = "user"
               PROVE  taken = 1 /\ inbox = <<"Message">> /\ inEnd
    BY DEF ExactlyOneRequest
  <2>1. /\ taken = 1 /\ Len(inbox) = 1 /\ inbox[1] = "Message" /\ inEnd
        /\ inbox \in Seq(Items)
    BY DEF IInv, OneRead, Types, Values
  <2>2. inbox = <<"Message">>
    BY <2>1
  <2> QED BY <2>1, <2>2
<1> QED BY <1>1, InvariantHolds, PTL

(* The status sent is the true one: OK only after user code said so, with Ok or
   with an Err, and all it produced is out, DeadlineExceeded and Cancelled only
   after a deadline and a shutdown, user code's others only if it said so.    *)
THEOREM StatusIsHonest == Spec => []HonestStatus
<1>1. IInv => HonestStatus
  BY StatusesAssumption DEF IInv, Said, Truth, HonestStatus, Own
<1> QED BY <1>1, InvariantHolds, PTL

(* A half-duplex response with trailers is whole frames, all of them. *)
THEOREM HalfDuplexIsWhole == Spec => []WholeFrames
<1>1. IInv => WholeFrames
  BY FrameAssumption DEF IInv, Types, Values, Position, Count, Said, WholeFrames,
     UnderWay, NoReply
<1> QED BY <1>1, InvariantHolds, PTL

(* The trailing metadata user code set, before the seam and after it, comes by way
   of into_parts, the response body or the BidiState into the trailers, whoever
   ended the call.                                                            *)
THEOREM MetadataIsSent == Spec => []MetadataRides
<1>1. IInv => MetadataRides
  BY DEF IInv, Said, MetadataRides
<1> QED BY <1>1, InvariantHolds, PTL

(* No reader hands user code anything but frames the client sent, until user code
   gives up a recv or a request is too big.                                  *)
THEOREM ReadersStayOnFrames == Spec => []ReadsFrames
<1>1. IInv => ReadsFrames
  BY DEF IInv, OnAFrame, SkippedOne, ReadsFrames
<1> QED BY <1>1, InvariantHolds, PTL

-----------------------------------------------------------------------------
(* Once the server shuts down no further response is produced: race and
   CancelSignal look at the swansong before they poll user code.             *)
THEOREM ShutdownIsQuiet == Spec => QuietOnShutdown
<1>1. [Next]_vars => [shutdown => UNCHANGED produced]_vars
  <2> SUFFICES ASSUME [Next]_vars, shutdown PROVE UNCHANGED produced
    OBVIOUS
  <2> USE DEF writing
  <2>1. CASE Framework
    BY <2>1 DEF Framework, Accept, RaceShutdown, RaceDeadline, Suspend, ReadFirst,
       ReadSecond, ReadOne, Upgrade, ErrorResponse, Reject, EndLoop
  <2>2. CASE UserCode
    BY <2>2 DEF UserCode, OpenRequests, DropRequests, Recv, SetTrailers, HandlerFails,
       HandlerReturns, Send, AbandonSend, ResponderReturns, MayProceed, ErrorResponse,
       EndLoop
  <2>3. CASE Response
    BY <2>3 DEF Response, StreamCut, Trailers, ReplyLost
  <2>4. CASE ReadPart \/ SendFails \/ StreamItem \/ WriteBytes
    BY <2>4 DEF ReadPart, SendFails, StreamItem, WriteBytes, MayProceed
  <2>5. CASE Client \/ StreamBreaks \/ Shutdown \/ DeadlinePasses
    BY <2>5 DEF Client, ClientSends, ClientEnds, StreamBreaks, Shutdown, DeadlinePasses
  <2>6. CASE UNCHANGED vars
    BY <2>6 DEF vars
  <2> QED BY <2>1, <2>2, <2>3, <2>4, <2>5, <2>6 DEF Next
<1> QED BY <1>1, PTL DEF Spec, QuietOnShutdown

(* What a step can do to the frames that are out. *)
LEMMA OutStep ==
    ASSUME [Next]_vars
    PROVE  out' = out \/ WriteBytes
<1> USE DEF writing
<1>1. CASE Framework
  BY <1>1 DEF Framework, Accept, RaceShutdown, RaceDeadline, Suspend, ReadFirst,
     ReadSecond, ReadOne, Upgrade, Reject
<1>2. CASE UserCode
  BY <1>2 DEF UserCode, OpenRequests, DropRequests, Recv, SetTrailers, HandlerFails,
     HandlerReturns, Send, AbandonSend, ResponderReturns
<1>3. CASE Response
  BY <1>3 DEF Response, StreamCut, Trailers, ReplyLost
<1>4. CASE ReadPart \/ SendFails \/ StreamItem
  BY <1>4 DEF ReadPart, SendFails, StreamItem
<1>5. CASE Client \/ StreamBreaks \/ Shutdown \/ DeadlinePasses
  BY <1>5 DEF Client, ClientSends, ClientEnds, StreamBreaks, Shutdown, DeadlinePasses
<1>6. CASE UNCHANGED vars
  BY <1>6 DEF vars
<1> QED BY <1>1, <1>2, <1>3, <1>4, <1>5, <1>6 DEF Next

(* Nothing but the trailers follows a frame that was cut off, unless user code
   dropped the send it was part of.                                          *)
THEOREM TornEndsTheResponse == Spec => TornIsLast
<1>1. IInv /\ [Next]_vars => [torn /\ ~abandoned => UNCHANGED out]_vars
  <2> SUFFICES ASSUME IInv, torn, ~abandoned, WriteBytes PROVE FALSE
    BY OutStep
  <2>1. /\ phase \in {"body", "stream", "loop"} /\ ~broken /\ reply = NoReply
        /\ shape \in Shapes
    BY DEF WriteBytes, IInv, Types, Values, Position
  <2>2. CASE shape # "bidi"
    BY <2>1, <2>2 DEF IInv, Count, NoReply
  <2>3. CASE shape = "bidi"
    BY <2>1, <2>3 DEF IInv, Count
  <2> QED BY <2>2, <2>3
<1> QED BY <1>1, InvariantHolds, PTL DEF Spec, TornIsLast

-----------------------------------------------------------------------------
(* ServerCall implements Reply.                                            *)
LEMMA PromiseInit == Init => Promise!Start
BY DEF Init, NoReply, Promise!Start

(* The only steps that show: to the client, or as an Err whose code is OK. *)
LEMMA ReplyStep ==
    ASSUME Position, [Next]_vars
    PROVE  \/ (WriteBytes \/ Trailers \/ ReplyLost \/ Accept) /\ result' = result
           \/ /\ UNCHANGED <<shape, out, reply>>
              /\ result' = result \/ (result = "none" /\ reply = NoReply)
<1> USE DEF writing, call, ending
<1>1. CASE Framework
  BY <1>1 DEF Framework, Accept, RaceShutdown, RaceDeadline, Suspend, ReadFirst,
     ReadSecond, ReadOne, Upgrade, Reject
<1>2. CASE UserCode
  BY <1>2 DEF Position, UserCode, OpenRequests, DropRequests, Recv, SetTrailers,
     HandlerFails, HandlerReturns, Send, AbandonSend, ResponderReturns
<1>3. CASE Response
  BY <1>3 DEF Response, StreamCut, Trailers, ReplyLost
<1>4. CASE ReadPart \/ SendFails \/ StreamItem \/ WriteBytes
  BY <1>4 DEF Position, ReadPart, SendFails, StreamItem, Pulls, WriteBytes
<1>5. CASE Client \/ StreamBreaks \/ Shutdown \/ DeadlinePasses
  BY <1>5 DEF Client, ClientSends, ClientEnds, StreamBreaks, Shutdown, DeadlinePasses
<1>6. CASE UNCHANGED vars
  BY <1>6 DEF vars
<1> QED BY <1>1, <1>2, <1>3, <1>4, <1>5, <1>6 DEF Next

(* Every step of a call is a step of its promise, or unseen by the client. *)
LEMMA PromiseStep == IInv /\ [Next]_vars => [Promise!Step]_Promise!replyVars
<1> SUFFICES ASSUME IInv, [Next]_vars PROVE Promise!Step \/ UNCHANGED Promise!replyVars
  OBVIOUS
<1>1. CASE WriteBytes
  <2>1. /\ reply = NoReply /\ reply' = reply /\ shape' = shape /\ left > 0
        /\ result' = result
    BY <1>1 DEF WriteBytes, IInv, Position, ending, call
  <2>2. shape \in SingleReply => out = 0
    <3>1. ASSUME shape \in SingleReply PROVE phase = "body"
      BY <1>1, <3>1 DEF WriteBytes, IInv, Position, SingleReply
    <3>2. ASSUME shape \in SingleReply PROVE out = 0
      BY <2>1, <3>1, <3>2 DEF IInv, Count, UnderWay, NoReply, SingleReply, Types, Values
    <3> QED BY <3>2
  <2>3. out' = out + 1 \/ out' = out
    BY <1>1 DEF WriteBytes
  <2>4. CASE out' = out + 1
    BY <2>1, <2>2, <2>4 DEF Promise!Step, Promise!Message, NoReply
  <2>5. CASE out' = out
    BY <2>1, <2>5 DEF Promise!replyVars
  <2> QED BY <2>3, <2>4, <2>5
<1>2. CASE Trailers
  <2>1. /\ reply'.http = 200 /\ reply'.status = status
        /\ shape' = shape /\ out' = out /\ left = 0 /\ result' = result
        /\ phase \in {"body", "stream", "closing"} /\ status # "none"
    BY <1>2 DEF Trailers, call, writing
  <2>2. reply = NoReply /\ status \in Statuses
    BY <2>1 DEF IInv, Position, Types, Values
  <2>3. shape \in SingleReply => (out = 1 <=> status = "OK" /\ result # "OK")
    <3>1. ASSUME shape \in SingleReply PROVE phase = "body"
      BY <2>1, <3>1 DEF IInv, Position, SingleReply
    <3>2. ASSUME shape \in SingleReply PROVE out = 1 <=> status = "OK" /\ result # "OK"
      BY <2>1, <2>2, <3>1, <3>2 DEF IInv, Count, UnderWay, NoReply, SingleReply,
         Types, Values
    <3> QED BY <3>2
  <2>4. Promise!End(status)
    BY <2>1, <2>2, <2>3 DEF Promise!End, NoReply
  <2> QED BY <2>2, <2>4 DEF Promise!Step
<1>3. CASE ReplyLost
  <2>1. /\ reply = NoReply /\ reply' = Lost /\ shape' = shape /\ out' = out
        /\ result' = result
    BY <1>3 DEF ReplyLost, IInv, Position, call
  <2> QED BY <2>1 DEF Promise!Step, Promise!Lose, NoReply, Lost
<1>4. CASE Accept
  <2>1. reply = NoReply /\ shape' = shape /\ out' = out /\ result' = result
    BY <1>4 DEF Accept, IInv, Position, call
  <2>2. CASE reply' = reply
    BY <2>1, <2>2 DEF Promise!replyVars
  <2>3. CASE reply' # reply
    <3>1. reply'.http \in {400, 415} \/ reply'.status = "lost"
      BY <1>4, <2>3 DEF Accept, ending, Lost
    <3> QED BY <2>1, <3>1 DEF Promise!Step, Promise!Lose, NoReply
  <2> QED BY <2>2, <2>3
<1>5. CASE UNCHANGED <<shape, out, reply>> /\ result' = result
  BY <1>5 DEF Promise!replyVars
<1>6. CASE UNCHANGED <<shape, out, reply>> /\ result = "none" /\ reply = NoReply
  BY <1>6 DEF Promise!replyVars, Promise!Step, Promise!FailWithOk, NoReply
<1> QED BY <1>1, <1>2, <1>3, <1>4, <1>5, <1>6, ReplyStep DEF IInv

(* Whatever interrupts a call, its reply is one that Reply allows: messages,
   then one status; for a single response, a message exactly when that is OK
   and user code did not fail with an error whose code is OK.                *)
THEOREM ImplementsReply == Spec => KeepsPromise
<1>1. Init => Promise!Start
  BY PromiseInit
<1>2. IInv /\ [Next]_vars => [Promise!Step]_Promise!replyVars
  BY PromiseStep
<1> QED BY <1>1, <1>2, InvariantHolds, PTL DEF Spec, KeepsPromise, Promise!ReplySpec
=============================================================================
