------------------------------ MODULE ServerCall ------------------------------
(***************************************************************************)
(* One RPC on the server: the preflight and the four shapes of             *)
(* src/src/server/dispatch.rs, the cancellation race around user code, the *)
(* response bodies of body.rs, GrpcServerConn with its RequestStreams, and *)
(* the bidi seam and loop of bidi.rs over a Channel (streaming.rs).        *)
(*                                                                         *)
(* User code is whatever the API lets it be: at each poll it may use its   *)
(* GrpcServerConn or Channel, return, or stay pending.  `phase' says who   *)
(* has the call:                                                           *)
(*   "new"     the request head is in, Handler::run not yet called         *)
(*   "run"     Cancellation::race around read_one and the handler, or the  *)
(*             bidi prologue                                               *)
(*   "body"    a OneShotBody is being written                              *)
(*   "stream"  a StreamBody is being pulled                                *)
(*   "seam"    a BidiUpgrade is stashed, Handler::upgrade not yet called   *)
(*   "loop"    Cancellation::race around BidiResponder::respond            *)
(*   "closing" the loop is over, send_trailers is to come                  *)
(*   "ended"                                                               *)
(* A request frame is complete (in `inbox') or `arriving': the reader of   *)
(* module FrameReader may hold a part of it.                               *)
(***************************************************************************)
EXTENDS Integers, Sequences

CONSTANTS
    Shapes,           \* the shapes of the methods called
    Heads,            \* request heads, as far as they are looked at
    Items,            \* request frames, by what reading them yields
    HandlerStatuses,  \* the statuses user code fails with; "OK" may be one
    FrameLen,         \* bytes of a response frame
    MaxItems,         \* bound: request frames
    MaxReplies,       \* bound: responses user code produces
    MaxFrames         \* bound: both together

SingleReply == {"unary", "client_streaming"}
ReadsOne == {"unary", "server_streaming"}
AllShapes == {"unary", "client_streaming", "server_streaming", "bidi"}

Own == {"Cancelled", "DeadlineExceeded", "InvalidArgument", "ResourceExhausted",
        "Unimplemented", "Internal", "Unavailable"}
Statuses == {"OK"} \cup Own \cup HandlerStatuses

RequestHead == [contentType : BOOLEAN, te : BOOLEAN,
                encoding : {"absent", "known", "unknown"},
                timeout : {"absent", "valid", "huge", "malformed"}]

ASSUME ShapesAssumption == Shapes \subseteq AllShapes
ASSUME HeadsAssumption == Heads \subseteq RequestHead
ASSUME ItemsAssumption == Items \subseteq {"Message", "Undecodable", "TooBig"}
ASSUME StatusesAssumption ==
    HandlerStatuses \cap (Own \cup {"Ok", "none", "lost"}) = {}
ASSUME FrameAssumption == FrameLen \in Nat \ {0}
ASSUME BoundsAssumption == {MaxItems, MaxReplies, MaxFrames} \subseteq Nat

VARIABLES
    shape, req,     \* the method's shape, the request head
    phase, step,    \* step: read_one's "first" and "second" recv, then "user"
    fresh,          \* the race, or the CancelSignal, has not been polled yet
    deadline,       \* Cancellation.deadline: "none", "armed" or, elapsed, "past"
    connDeadline,   \* GrpcServerConn.deadline, taken a moment later
    shutdown,       \* the connection's swansong
    \* the request
    inbox,          \* request frames the client has sent
    arriving,       \* a part of one more is there
    inEnd,          \* the client half-closed
    broken,         \* the stream failed
    taken,          \* request frames read
    reader,         \* the RequestStream or Channel: "none", "open", "done"
    half,           \* its ReadState holds a part of the next frame
    lost,           \* bytes of a frame went with a reader that was dropped
    \* the response
    produced,       \* responses encoded into a frame
    left,           \* bytes of the last one still to be written
    out,            \* frames written whole
    torn,           \* a frame was left unfinished
    meta,           \* trailing metadata: what user code has set, and what each of
                    \* the places it is handed on between holds (Owners)
    status,         \* the grpc-status the trailers will have, or "none"
    reply,          \* how the response ended
    \* history
    result,         \* how user code ended: "none", "Ok" or its Err's status
    garbled,        \* a reader yielded what no client sent
    abandoned       \* user code gave up a recv or send it had begun

call == <<shape, req>>
clock == <<deadline, connDeadline, shutdown>>
wire == <<inbox, arriving, inEnd, broken>>
reading == <<taken, reader, half, lost>>
writing == <<produced, left, out, torn>>
ending == <<status, reply>>
vars == <<call, phase, step, fresh, clock, wire, reading, writing, meta,
          ending, result, garbled, abandoned>>

NoReply == [http |-> 0, status |-> "none", meta |-> {}]
Lost == [http |-> 200, status |-> "lost", meta |-> {}]

(* GrpcServerConn.response_trailers, the trailers of the body that answers
   (base_trailers of a StreamBody), BidiState.base_trailers.                 *)
Owners == {"set", "conn", "body", "loop"}
NoMetadata == [o \in Owners |-> {}]

Room == Len(inbox) + produced < MaxFrames

Init ==
    /\ shape \in Shapes /\ req \in Heads
    /\ phase = "new" /\ step = "none" /\ fresh = FALSE
    /\ deadline = "none" /\ connDeadline = "none" /\ shutdown = FALSE
    /\ inbox = <<>> /\ arriving = FALSE /\ inEnd = FALSE /\ broken = FALSE
    /\ taken = 0 /\ reader = "none" /\ half = FALSE /\ lost = FALSE
    /\ produced = 0 /\ left = 0 /\ out = 0 /\ torn = FALSE
    /\ meta = NoMetadata /\ status = "none" /\ reply = NoReply
    /\ result = "none" /\ garbled = FALSE /\ abandoned = FALSE

-----------------------------------------------------------------------------
(* Mutation: the reader has read ahead, and its buffer goes with it. *)
DropReadAhead ==
    /\ reader' = "none" /\ half' = FALSE
    /\ lost' = (lost \/ half \/ taken < Len(inbox))
    /\ UNCHANGED taken

(* Dropping a RequestStream drops its ReadState, and with it what that holds. *)
DropReader ==
    /\ reader' = "none" /\ half' = FALSE
    /\ lost' = (lost \/ half)
    /\ UNCHANGED taken

(* ... and user code may do so in the middle of a recv. *)
UserDropsReader == DropReader /\ abandoned' = (abandoned \/ half)

(* GrpcServerConn::into_parts: the metadata goes on with the conn. *)
HandOn(owner) ==
    meta' = [meta EXCEPT !.conn = {}, ![owner] = meta.conn]

(* Mutation: error_response where error_response_with_trailers belongs. *)
ErrorResponseWithoutMetadata(code) ==
    /\ phase' = "body" /\ status' = code
    /\ fresh' = FALSE
    /\ meta' = [meta EXCEPT !.conn = {}]
    /\ UNCHANGED <<step, produced, left>>

(* error_response_with_trailers: a OneShotBody with no frame in it, and what
   metadata the conn has.  (error_response, before the handler: none.)       *)
ErrorResponse(code) ==
    /\ phase' = "body" /\ status' = code
    /\ fresh' = FALSE
    /\ HandOn("body")
    /\ UNCHANGED <<step, produced, left>>

(* Mutations: a length off by one; the frame never put into the body. *)
FrameTooLong == produced' = produced + 1 /\ left' = FrameLen + 1
FrameForgotten == produced' = produced + 1 /\ left' = 0

(* A response encoded into a frame that is still to be written. *)
Frame ==
    /\ produced' = produced + 1
    /\ left' = FrameLen

(* The frame being written is given up. *)
Abandon ==
    /\ left' = 0
    /\ torn' = (torn \/ left \in 1..(FrameLen - 1))

(* The responder is done, or was cut off: bidi's drive goes on to the trailers. *)
EndLoop(code) ==
    /\ phase' = "closing" /\ status' = code /\ fresh' = FALSE
    /\ Abandon
    /\ UNCHANGED <<step, produced, meta>>

(* The race is lost: into_parts and the error response, or the trailers. *)
Reject(code) ==
    /\ DropReader
    /\ \/ /\ phase = "run"
          /\ ErrorResponse(code)
          /\ UNCHANGED torn
       \/ /\ phase = "loop"
          /\ EndLoop(code)
    /\ UNCHANGED <<out, reply>>

(* prepare_grpc_conn, then each shape's beginning up to its race:
   extract_request_encoding and Cancellation::from_conn, which panics if no
   Instant is that far away.                                                 *)
Accept ==
    /\ phase = "new"
    /\ \/ /\ ~req.contentType \/ ~req.te
          /\ phase' = "ended"
          /\ reply' = [http |-> IF req.contentType THEN 400 ELSE 415,
                        status |-> "none", meta |-> {}]
          /\ UNCHANGED <<step, fresh, reader, deadline, connDeadline, produced,
                         left, meta, status>>
       \/ /\ req.contentType /\ req.te /\ req.encoding = "unknown"
          /\ ErrorResponse("Unimplemented")
          /\ UNCHANGED <<reader, deadline, connDeadline, reply>>
       \/ /\ req.contentType /\ req.te /\ req.encoding # "unknown"
          /\ req.timeout = "malformed"
          /\ ErrorResponse("InvalidArgument")
          /\ UNCHANGED <<reader, deadline, connDeadline, reply>>
       \/ /\ req.contentType /\ req.te /\ req.encoding # "unknown"
          /\ req.timeout = "huge"
          /\ phase' = "ended" /\ reply' = Lost
          /\ UNCHANGED <<step, fresh, reader, deadline, connDeadline, produced,
                         left, meta, status>>
       \/ /\ req.contentType /\ req.te /\ req.encoding # "unknown"
          /\ req.timeout \in {"absent", "valid"}
          /\ phase' = "run" /\ fresh' = TRUE
          /\ step' = IF shape \in ReadsOne THEN "first" ELSE "user"
          /\ reader' = IF shape \in ReadsOne THEN "open" ELSE "none"
          /\ deadline' = IF req.timeout = "valid" THEN "armed" ELSE "none"
          /\ connDeadline' = deadline'
          /\ UNCHANGED <<produced, left, meta, ending>>
    /\ UNCHANGED <<call, shutdown, wire, taken, half, lost, out, torn, result,
                   garbled, abandoned>>

-----------------------------------------------------------------------------
(* Cancellation::race and Cancellation::signal.                            *)

Racing == phase \in {"run", "loop"}
InUserCode == Racing /\ step = "user"

(* Mutation: the swansong is looked at last. *)
ProceedsInShutdown == ~(fresh /\ deadline = "past")

(* race looks at the clock once, before its first poll; from then on each poll
   looks at the swansong, then the future, and only then at the timer.        *)
MayProceed == ~shutdown /\ ~(fresh /\ deadline = "past")

(* The next recv has something to return. *)
ReadReady ==
    \/ lost \/ reader = "done" \/ broken
    \/ taken < Len(inbox) \/ inEnd

RaceShutdown ==
    /\ Racing /\ shutdown /\ ~(fresh /\ deadline = "past")
    /\ Reject("Cancelled")
    /\ UNCHANGED <<call, clock, wire, result, garbled, abandoned>>

RaceDeadline ==
    /\ Racing /\ deadline = "past" /\ (shutdown => fresh)
    /\ fresh \/ InUserCode \/ ~ReadReady
    /\ Reject("DeadlineExceeded")
    /\ UNCHANGED <<call, clock, wire, result, garbled, abandoned>>

(* A first poll, of a race or a CancelSignal, that found nothing to do yet. *)
Suspend ==
    /\ Racing \/ phase = "stream"
    /\ fresh /\ MayProceed
    /\ fresh' = FALSE
    /\ UNCHANGED <<call, phase, step, clock, wire, reading, writing, meta,
                   ending, result, garbled, abandoned>>

-----------------------------------------------------------------------------
(* poll_read_message, as RequestStream::recv and Channel::recv call it.    *)

(* The poll takes what there is of the next frame and stays pending. *)
ReadPart ==
    /\ Racing /\ MayProceed
    /\ reader = "open" /\ ~ReadReady /\ arriving /\ ~half
    /\ half' = TRUE /\ fresh' = FALSE
    /\ UNCHANGED <<call, phase, step, clock, wire, taken, reader, lost, writing,
                   meta, ending, result, garbled, abandoned>>

(* The recv returns r: a message, None, or an error.  When a reader that was
   dropped has left the stream inside a frame, r is whatever the bytes there
   amount to.                                                                *)
Yields(r) ==
    /\ half' = FALSE
    /\ \/ /\ reader = "done" /\ r = "None"
          /\ UNCHANGED <<arriving, taken, lost, garbled>>
       \/ /\ reader = "open" /\ lost
          /\ r \in {"Message", "None", "InvalidArgument", "ResourceExhausted", "Internal"}
          /\ garbled' = TRUE
          /\ UNCHANGED <<arriving, taken, lost>>
       \/ /\ reader = "open" /\ ~lost /\ taken < Len(inbox)
          /\ CASE inbox[taken + 1] = "Message" -> r = "Message"
               [] inbox[taken + 1] = "Undecodable" -> r = "InvalidArgument"
               [] inbox[taken + 1] = "TooBig" -> r = "ResourceExhausted"
          /\ taken' = taken + 1
          /\ lost' = (r = "ResourceExhausted")
          /\ UNCHANGED <<arriving, garbled>>
       \/ /\ reader = "open" /\ ~lost /\ taken = Len(inbox) /\ inEnd
          /\ r = IF arriving THEN "Internal" ELSE "None"
          /\ arriving' = FALSE
          /\ UNCHANGED <<taken, lost, garbled>>
       \/ /\ reader = "open" /\ broken /\ r = "Unavailable"
          /\ UNCHANGED <<arriving, taken, lost, garbled>>

Results == {"Message", "None", "InvalidArgument", "ResourceExhausted",
            "Internal", "Unavailable"}

(* The ReadState after r: only a message that would not decode leaves it on. *)
ReaderAfter(r) == IF r \in {"Message", "InvalidArgument"} THEN "open" ELSE "done"

(* read_one: exactly one request and the end of the stream, then the handler;
   the RequestStream goes when it is done.                                   *)
ReadOne(r, expected) ==
    /\ phase = "run" /\ MayProceed
    /\ Yields(r)
    /\ reader' = IF r = expected /\ step = "first" THEN "open" ELSE "none"
    /\ \/ /\ r = expected
          /\ step' = IF step = "first" THEN "second" ELSE "user"
          /\ fresh' = FALSE
          /\ UNCHANGED <<phase, produced, left, meta, status>>
       \/ /\ r # expected
          /\ ErrorResponse(IF r \in {"Message", "None"} THEN "Unimplemented" ELSE r)
    /\ UNCHANGED <<call, clock, inbox, inEnd, broken, out, torn, reply, result,
                   abandoned>>

ReadFirst == step = "first" /\ \E r \in Results : ReadOne(r, "Message")

(* Mutation: more messages are left for the handler to ignore. *)
ReadSecondAllowsMore ==
    step = "second" /\ \E r \in {"None", "Message"} : ReadOne(r, r)

ReadSecond == step = "second" /\ \E r \in Results : ReadOne(r, "None")

-----------------------------------------------------------------------------
(* What user code may do with its GrpcServerConn.                          *)

(* GrpcServerConn::requests borrows the conn until the stream is dropped. *)
OpenRequests ==
    /\ phase = "run" /\ InUserCode /\ MayProceed /\ reader = "none"
    /\ reader' = "open" /\ fresh' = FALSE
    /\ UNCHANGED <<call, phase, step, clock, wire, taken, half, lost, writing,
                   meta, ending, result, garbled, abandoned>>

DropRequests ==
    /\ phase = "run" /\ InUserCode /\ MayProceed /\ reader # "none"
    /\ UserDropsReader
    /\ UNCHANGED <<call, phase, step, fresh, clock, wire, writing, meta, ending,
                   result, garbled>>

(* RequestStream::recv, Channel::recv. *)
Recv ==
    /\ InUserCode /\ MayProceed /\ reader # "none" /\ left = 0
    /\ \E r \in Results : Yields(r) /\ reader' = ReaderAfter(r)
    /\ fresh' = FALSE
    /\ UNCHANGED <<call, phase, step, clock, inbox, inEnd, broken, writing, meta,
                   ending, result, abandoned>>

(* response_trailers_mut, of the conn or, on top of the prologue's, the Channel. *)
SetTrailers ==
    /\ InUserCode /\ MayProceed /\ phase \notin meta.set
    /\ \/ /\ phase = "run" /\ reader = "none"
          /\ meta' = [meta EXCEPT !.set = @ \cup {phase}, !.conn = @ \cup {phase}]
       \/ /\ phase = "loop" /\ left = 0
          /\ meta' = [meta EXCEPT !.set = @ \cup {phase}, !.loop = @ \cup {phase}]
    /\ fresh' = FALSE
    /\ UNCHANGED <<call, phase, step, clock, wire, reading, writing, ending,
                   result, garbled, abandoned>>

(* The handler or the prologue returns: finish_unary, a StreamBody with its
   own CancelSignal, a BidiUpgrade, or the error response.                   *)
HandlerFails ==
    /\ phase = "run" /\ InUserCode /\ MayProceed
    /\ UserDropsReader
    /\ \E s \in HandlerStatuses : ErrorResponse(s) /\ result' = s
    /\ UNCHANGED <<call, clock, wire, out, torn, reply, garbled>>

HandlerReturns ==
    /\ phase = "run" /\ InUserCode /\ MayProceed
    /\ UserDropsReader
    /\ \/ /\ shape \in SingleReply
          /\ result' = "Ok"
          /\ \/ /\ Frame
                /\ phase' = "body" /\ status' = "OK" /\ fresh' = FALSE
                /\ HandOn("body")
                /\ UNCHANGED step
             \/ ErrorResponse("Internal")
       \/ /\ shape \notin SingleReply
          /\ \/ shape = "bidi" /\ phase' = "seam" /\ HandOn("loop")
             \/ shape # "bidi" /\ phase' = "stream" /\ HandOn("body")
          /\ fresh' = TRUE
          /\ UNCHANGED <<step, produced, left, status, result>>
    /\ UNCHANGED <<call, clock, wire, out, torn, reply, garbled>>

-----------------------------------------------------------------------------
(* The response on the wire; poll_read is called as the transport has room. *)

(* OneShotBody, StreamBody and write_all hand out some bytes of the frame. *)
WriteBytes ==
    /\ phase \in {"body", "stream", "loop"} /\ left > 0 /\ ~broken
    /\ phase = "loop" => MayProceed
    /\ \E n \in 1..left :
          /\ left' = left - n
          /\ out' = IF n = left THEN out + 1 ELSE out
    /\ fresh' = IF phase = "loop" THEN FALSE ELSE fresh
    /\ UNCHANGED <<call, phase, step, clock, wire, reading, produced, torn, meta,
                   ending, result, garbled, abandoned>>

(* StreamBody::poll_read with no frame under way: the CancelSignal first. *)
Pulls == phase = "stream" /\ left = 0 /\ status = "none"

(* Mutations: a cut stream ends without a status of its own, so with OK; the
   signal is polled before the bytes of the frame; it has no deadline.       *)
StreamCutIsOk ==
    /\ Pulls /\ (shutdown \/ deadline = "past")
    /\ status' = "OK"
    /\ UNCHANGED <<call, phase, step, fresh, clock, wire, reading, writing, meta,
                   reply, result, garbled, abandoned>>

StreamCutInFrame ==
    /\ phase = "stream" /\ status = "none" /\ (shutdown \/ deadline = "past")
    /\ status' = IF shutdown THEN "Cancelled" ELSE "DeadlineExceeded"
    /\ Abandon
    /\ UNCHANGED <<call, phase, step, fresh, clock, wire, reading, produced, out,
                   meta, reply, result, garbled, abandoned>>

StreamCutByShutdown ==
    /\ Pulls /\ shutdown
    /\ status' = "Cancelled"
    /\ UNCHANGED <<call, phase, step, fresh, clock, wire, reading, writing, meta,
                   reply, result, garbled, abandoned>>

StreamCut ==
    /\ Pulls /\ (shutdown \/ deadline = "past")
    /\ status' = IF shutdown THEN "Cancelled" ELSE "DeadlineExceeded"
    /\ UNCHANGED <<call, phase, step, fresh, clock, wire, reading, writing, meta,
                   reply, result, garbled, abandoned>>

StreamItem ==
    /\ Pulls /\ MayProceed
    /\ fresh' = FALSE
    /\ \/ /\ produced < MaxReplies /\ Room
          /\ Frame
          /\ UNCHANGED <<status, result>>
       \/ /\ status' = "Internal"
          /\ UNCHANGED <<produced, left, result>>
       \/ /\ \E s \in HandlerStatuses : status' = s /\ result' = s
          /\ UNCHANGED <<produced, left>>
       \/ /\ status' = "OK" /\ result' = "Ok"
          /\ UNCHANGED <<produced, left>>
    /\ UNCHANGED <<call, phase, step, clock, wire, reading, out, torn, meta, reply,
                   garbled, abandoned>>

(* poll_read returned 0: trillium takes the trailers, and they are sent;
   or drive calls send_trailers.                                             *)
Trailers ==
    /\ phase \in {"body", "stream", "closing"} /\ left = 0 /\ status # "none"
    /\ ~broken
    /\ phase' = "ended"
    /\ reply' = [http |-> 200, status |-> status,
                  meta |-> IF phase = "closing" THEN meta.loop ELSE meta.body]
    /\ UNCHANGED <<call, step, fresh, clock, wire, reading, writing, meta, status,
                   result, garbled, abandoned>>

(* The stream has failed, and with it what was left of the response. *)
ReplyLost ==
    /\ phase \in {"body", "stream", "seam", "closing"} /\ broken
    /\ phase' = "ended" /\ reply' = Lost
    /\ Abandon
    /\ UNCHANGED <<call, step, fresh, clock, wire, reading, produced, out, meta,
                   status, result, garbled, abandoned>>

-----------------------------------------------------------------------------
(* The bidi loop.                                                          *)

(* Mutation: the deadline does not cross the seam. *)
UpgradeForgetsDeadline ==
    /\ phase = "seam"
    /\ phase' = "loop" /\ fresh' = TRUE
    /\ deadline' = "none"
    /\ reader' = "open"
    /\ UNCHANGED <<call, step, connDeadline, shutdown, wire, taken, half, lost,
                   writing, meta, ending, result, garbled, abandoned>>

(* The head is flushed and Handler::upgrade calls drive_bidi_upgrade: a
   Cancellation::for_upgrade with GrpcServerConn's deadline, a fresh Channel. *)
Upgrade ==
    /\ phase = "seam"
    /\ phase' = "loop" /\ fresh' = TRUE
    /\ deadline' = connDeadline /\ connDeadline' = "none"
    /\ reader' = "open"
    /\ UNCHANGED <<call, step, shutdown, wire, taken, half, lost,
                   writing, meta, ending, result, garbled, abandoned>>

(* Channel::send of a response that encodes; of one that does not, the only
   effect is its Err.                                                        *)
Send ==
    /\ phase = "loop" /\ MayProceed /\ left = 0 /\ ~half
    /\ produced < MaxReplies /\ Room
    /\ Frame
    /\ fresh' = FALSE
    /\ UNCHANGED <<call, phase, step, clock, wire, reading, out, torn, meta, ending,
                   result, garbled, abandoned>>

(* Mutation: a write that makes no progress is an error. *)
SendFailsWhenSlow ==
    /\ phase = "loop" /\ MayProceed /\ left > 0
    /\ Abandon
    /\ fresh' = FALSE
    /\ UNCHANGED <<call, phase, step, clock, wire, reading, produced, out, meta,
                   ending, result, garbled, abandoned>>

SendFails ==
    /\ phase = "loop" /\ MayProceed /\ left > 0 /\ broken
    /\ Abandon
    /\ fresh' = FALSE
    /\ UNCHANGED <<call, phase, step, clock, wire, reading, produced, out, meta,
                   ending, result, garbled, abandoned>>

(* The responder drops the send it is in. *)
AbandonSend ==
    /\ phase = "loop" /\ MayProceed /\ left > 0
    /\ Abandon /\ abandoned' = TRUE
    /\ UNCHANGED <<call, phase, step, fresh, clock, wire, reading, produced, out,
                   meta, ending, result, garbled>>

ResponderReturns ==
    /\ phase = "loop" /\ MayProceed /\ left = 0
    /\ UserDropsReader
    /\ \/ EndLoop("OK") /\ result' = "Ok"
       \/ \E s \in HandlerStatuses : EndLoop(s) /\ result' = s
    /\ UNCHANGED <<call, clock, wire, out, reply, garbled>>

-----------------------------------------------------------------------------
(* The client, the clock and whoever shuts the server down.                *)

ClientSends ==
    /\ phase \notin {"new", "ended"} /\ ~inEnd /\ ~broken
    /\ Len(inbox) < MaxItems /\ Room
    /\ \/ /\ ~arriving
          /\ arriving' = TRUE
          /\ UNCHANGED inbox
       \/ /\ \E i \in Items : inbox' = Append(inbox, i)
          /\ arriving' = FALSE
    /\ UNCHANGED <<call, phase, step, fresh, clock, inEnd, broken, reading, writing,
                   meta, ending, result, garbled, abandoned>>

ClientEnds ==
    /\ phase \notin {"new", "ended"} /\ ~inEnd /\ ~broken
    /\ inEnd' = TRUE
    /\ UNCHANGED <<call, phase, step, fresh, clock, inbox, arriving, broken,
                   reading, writing, meta, ending, result, garbled, abandoned>>

StreamBreaks ==
    /\ phase \notin {"new", "ended"} /\ ~broken
    /\ broken' = TRUE
    /\ UNCHANGED <<call, phase, step, fresh, clock, inbox, arriving, inEnd, reading,
                   writing, meta, ending, result, garbled, abandoned>>

Shutdown ==
    /\ phase # "ended" /\ ~shutdown
    /\ shutdown' = TRUE
    /\ UNCHANGED <<call, phase, step, fresh, deadline, connDeadline, wire, reading,
                   writing, meta, ending, result, garbled, abandoned>>

(* The two Instants are taken one after the other. *)
DeadlinePasses ==
    /\ phase # "ended"
    /\ \/ deadline = "armed" /\ deadline' = "past" /\ UNCHANGED connDeadline
       \/ connDeadline = "armed" /\ deadline = "past"
             /\ connDeadline' = "past" /\ UNCHANGED deadline
    /\ UNCHANGED <<call, phase, step, fresh, shutdown, wire, reading, writing, meta,
                   ending, result, garbled, abandoned>>

(* What the runtime and the server's own code take care of. *)
Framework == Accept \/ RaceShutdown \/ RaceDeadline \/ Suspend \/ ReadFirst \/ ReadSecond \/ Upgrade
UserCode == OpenRequests \/ DropRequests \/ Recv \/ SetTrailers
            \/ HandlerFails \/ HandlerReturns \/ Send \/ AbandonSend \/ ResponderReturns
Response == StreamCut \/ Trailers \/ ReplyLost
Client == ClientSends \/ ClientEnds

Next ==
    \/ Framework \/ UserCode \/ Response
    \/ ReadPart \/ SendFails \/ StreamItem \/ WriteBytes
    \/ Client \/ StreamBreaks \/ Shutdown \/ DeadlinePasses

(* A woken task is polled, time passes, and the transport takes the response
   off the body while the stream lives.  Nothing is assumed of user code, of
   its response stream or of the client.                                     *)
Spec ==
    /\ Init /\ [][Next]_vars
    /\ WF_vars(Framework) /\ WF_vars(DeadlinePasses)
    /\ WF_vars(WriteBytes) /\ WF_vars(Response)

-----------------------------------------------------------------------------
TypeOK ==
    /\ shape \in Shapes /\ req \in Heads
    /\ phase \in {"new", "run", "body", "stream", "seam", "loop", "closing", "ended"}
    /\ step \in {"none", "first", "second", "user"} /\ fresh \in BOOLEAN
    /\ deadline \in {"none", "armed", "past"} /\ connDeadline \in {"none", "armed", "past"}
    /\ shutdown \in BOOLEAN
    /\ inbox \in Seq(Items) /\ arriving \in BOOLEAN /\ inEnd \in BOOLEAN
    /\ broken \in BOOLEAN
    /\ taken \in Nat /\ reader \in {"none", "open", "done"}
    /\ half \in BOOLEAN /\ lost \in BOOLEAN
    /\ produced \in Nat /\ left \in 0..FrameLen /\ out \in Nat /\ torn \in BOOLEAN
    /\ meta \in [Owners -> SUBSET {"run", "loop"}]
    /\ status \in {"none"} \cup Statuses
    /\ reply \in [http : {0, 200, 400, 415}, status : {"none", "lost"} \cup Statuses,
                  meta : SUBSET {"run", "loop"}]
    /\ result \in {"none", "Ok"} \cup HandlerStatuses
    /\ garbled \in BOOLEAN /\ abandoned \in BOOLEAN

(* The server keeps the promise of module Reply: whatever interrupts the
   handler, the stream or the loop, its messages come before one status, and a
   single-response shape has its message exactly when that is OK and user code
   did not fail with an OK of its own (server/dispatch.rs:253-255).          *)
Promise == INSTANCE Reply WITH
    many <- shape \notin SingleReply,
    okError <- result = "OK",
    ending <- IF reply.http \in {415, 400} THEN "lost" ELSE reply.status

KeepsPromise == Promise!ReplySpec

(* The handler of a unary or server-streaming method runs only for a request
   that is exactly one message, all of it there and the client done: read_one
   leaves no second message, truncated frame or failed stream behind.        *)
ExactlyOneRequest ==
    shape \in ReadsOne /\ step = "user" => taken = 1 /\ inbox = <<"Message">> /\ inEnd

(* The status the client is sent is the true one: OK only if user code said so,
   with an Ok or with an Err whose code is OK, and - unless it gave up a send -
   every response it produced is out whole; the deadline's and the shutdown's
   only after theirs; any other of user code's only if it said so.           *)
HonestStatus ==
    /\ reply.status = "OK" => result \in {"Ok", "OK"} /\ (~abandoned => out = produced)
    /\ reply.status = "DeadlineExceeded" => req.timeout = "valid" /\ deadline = "past"
    /\ reply.status = "Cancelled" => shutdown
    /\ reply.status \in HandlerStatuses \ {"OK"} => result = reply.status

(* A half-duplex response that got its trailers is whole frames: cancellation
   cuts a StreamBody between frames, never inside one.                       *)
WholeFrames ==
    shape # "bidi" /\ reply.status \notin {"none", "lost"} => left = 0 /\ ~torn /\ out = produced

(* Trailing metadata "still rides the error trailers" (docs/serving.md:122): all
   that user code has set, before the seam and after it, reaches the trailers by
   way of into_parts and the body or the BidiState, whoever ends the call.   *)
MetadataRides == reply.status \notin {"none", "lost"} => reply.meta = meta.set

(* Until user code gives up a recv half-way or goes on past a TooBig frame, it
   is handed messages the client sent and nothing else, across read_one, any
   number of RequestStreams and the seam: a new ReadState starts on a frame. *)
ReadsFrames ==
    garbled => abandoned \/ \E i \in 1..taken : inbox[i] = "TooBig"

(* Once the server is shutting down, no call produces another response: the
   race and the CancelSignal look at the swansong first.                     *)
QuietOnShutdown == [][shutdown => UNCHANGED produced]_vars

(* A torn frame is the last thing of the response but the trailers, unless user
   code dropped the send that tore it.                                       *)
TornIsLast == [][torn /\ ~abandoned => UNCHANGED out]_vars

(* A shutdown, or a deadline - the bidi loop's carried over the seam - ends
   every race, with no help from the client or from user code.               *)
RacesResolve == (Racing /\ (shutdown \/ req.timeout = "valid")) ~> ~Racing

(* After a shutdown or a deadline every call is answered, or lost. *)
CallsEnd == (phase # "new" /\ (shutdown \/ req.timeout = "valid")) ~> (phase = "ended")

-----------------------------------------------------------------------------
(* "the responder's Channel continues reading at the next frame after whatever
   the prologue consumed" (server/bidi.rs:31-33).                            *)
ContinuesAtNextFrame == [][phase = "seam" /\ phase' = "loop" => ~lost]_vars
=============================================================================
