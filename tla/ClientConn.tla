------------------------------ MODULE ClientConn ------------------------------
(***************************************************************************)
(* GrpcClientConn, the client engine of src/src/client/conn.rs: one RPC    *)
(* from open() to Done, its deadline and cancellation race, and the peer   *)
(* and HTTP/2 stream it talks to (external: trillium-client).              *)
(*                                                                         *)
(* The calls take &mut self, so at most one is in flight (`op').  A call    *)
(* that awaits is a start and the polls that follow; between two polls the  *)
(* deadline may pass, a CancelHandle may fire and the peer may act.  `op'   *)
(* says at which await the call stands:                                     *)
(*   "head"      request.await / request.upgrade().await, raced             *)
(*   "write"     live.reader.write_all, raced, nothing of the frame written *)
(*   "midwrite"  the same, part of the frame written                        *)
(*   "read"      poll_read_message (module FrameReader), raced              *)
(*   "close"     live.reader.close(), not raced                             *)
(* and `fresh' marks the first poll of a race, which looks at the clock      *)
(* before anything else.                                                    *)
(***************************************************************************)
EXTENDS Integers, Sequences

CONSTANTS
    Transports,     \* the values full_duplex may have: TRUE is the Upgrade transport
    Requests,       \* request messages
    Encodable,      \* those whose encode and compress succeed
    Deadlines,      \* how a call may start out: "none", "armed"
    Heads,          \* the response heads the peer may send
    Items,          \* what reading one response frame may yield
    Trailers,       \* how the peer may end the response
    ReadsToEnd,     \* the peer withholds its head until END_STREAM
    Droppable,      \* the awaits at which the caller drops a future in flight
    MayRearm,       \* with_timeout is called on a call that is live
    MaxSends,       \* bound: request messages accepted
    MaxResponses,   \* bound: response frames
    MaxRequests     \* bound: requests fired before the caller stops dropping

(* Status codes that can appear: what the client makes up, the mapping of HTTP
   statuses, and "Aborted", which only a peer says.                          *)
Errors == {"Cancelled", "Unknown", "InvalidArgument", "DeadlineExceeded",
           "PermissionDenied", "ResourceExhausted", "Aborted", "Unimplemented",
           "Internal", "Unavailable", "Unauthenticated"}
Statuses == {"OK"} \cup Errors

(* A response head, as far as process_head looks at it. *)
ResponseHead == [http : Nat, grpcType : BOOLEAN, encoding : BOOLEAN,
                 status : {"absent"} \cup Statuses]
NoHead == [http |-> 0, grpcType |-> FALSE, encoding |-> FALSE, status |-> "absent"]

ASSUME ModeAssumption ==
    Transports \subseteq BOOLEAN /\ ReadsToEnd \in BOOLEAN
    /\ MayRearm \in BOOLEAN
    /\ Droppable \subseteq {"head", "write", "midwrite", "read", "close"}
ASSUME DeadlinesAssumption == Deadlines \subseteq {"none", "armed"}
ASSUME EncodableAssumption == Encodable \subseteq Requests
ASSUME PeerAssumption ==
    /\ Heads \subseteq ResponseHead /\ NoHead \notin Heads
    /\ Items \subseteq {"Message"} \cup Errors
    /\ Trailers \subseteq {"absent", "nostatus"} \cup Statuses
ASSUME BoundsAssumption ==
    MaxSends \in Nat /\ MaxResponses \in Nat /\ MaxRequests \in Nat

VARIABLES
    fullDuplex,   \* full_duplex
    inner,        \* Inner: its variant
    body,         \* Pending.body, as the messages framed in it
    sendClosed,   \* Pending.send_closed
    initError,    \* init_error, or "none"
    failed,       \* the status in Inner::Failed, or "none"
    headers,      \* what headers() shows: "none", the "head"'s, or "empty"
    trailers,     \* what trailers() shows: "none", "empty", "head" or "wire"
    deadline,     \* deadline: "none", "armed" or, once elapsed, "past"
    cancelled,    \* cancel_tx was closed
    op,           \* the call in flight
    \* the stream and the peer
    fired,        \* the requests put on the wire, each as its whole messages
    eos,          \* END_STREAM was sent on the last one
    torn,         \* a frame was left unfinished on it
    head,         \* the peer's response head
    resp,         \* its response frames, by what reading them yields
    trailer,      \* "open", then how it ended the response
    broken,       \* the stream failed
    consumed,     \* response frames read
    \* history
    accepted,     \* request messages taken with Ok
    delivered,    \* response messages returned
    outcome,      \* what recv last answered but for messages, "none" at first
    result        \* what the last call returned, "none" while one is in flight

pending == <<body, sendClosed, initError>>
control == <<fullDuplex, deadline, cancelled>>
request == <<fired, eos, torn>>
peer == <<head, resp, trailer, broken>>
vars == <<inner, pending, failed, headers, trailers, control, op, request,
          peer, consumed, accepted, delivered, outcome, result>>

Idle == [call |-> "idle", stage |-> "none", fresh |-> FALSE, data |-> <<>>]

(* Mutation: the request buffer keeps only what followed its first frame. *)
CallingWithTail(call, stage, data) ==
    [call |-> call, stage |-> stage, fresh |-> TRUE,
     data |-> IF Len(data) > 1 THEN Tail(data) ELSE data]

Calling(call, stage, data) ==
    [call |-> call, stage |-> stage, fresh |-> TRUE, data |-> data]

Raced == {"head", "write", "midwrite", "read"}

(* process_head with http_to_grpc_status: why a head is refused, or "OK". *)
HttpCode(http) ==
    CASE http = 400 -> "Internal"
      [] http = 401 -> "Unauthenticated"
      [] http = 403 -> "PermissionDenied"
      [] http = 404 -> "Unimplemented"
      [] http \in {429, 502, 503, 504} -> "Unavailable"
      [] OTHER -> "Unknown"

(* Mutation: the head's own grpc-status taken for its verdict. *)
VerdictIsHeadStatus(h) ==
    IF h.http # 200 THEN HttpCode(h.http)
    ELSE IF ~h.grpcType THEN "Unknown"
    ELSE IF ~h.encoding THEN "Internal"
    ELSE h.status

HeadVerdict(h) ==
    IF h.http # 200 THEN HttpCode(h.http)
    ELSE IF ~h.grpcType THEN "Unknown"
    ELSE IF ~h.encoding THEN "Internal"
    ELSE "OK"

(* The status finish_from_trailers finds at the end of the body: a grpc-status
   in the trailers, else one in the head, else Unknown.                      *)
FinalStatus ==
    IF trailer \in Statuses THEN trailer
    ELSE IF head.status \in Statuses THEN head.status
    ELSE "Unknown"

Init ==
    /\ fullDuplex \in Transports
    /\ inner = "Pending" /\ body = <<>> /\ sendClosed = FALSE
    /\ initError = "none" /\ failed = "none"
    /\ headers = "none" /\ trailers = "none"
    /\ deadline \in Deadlines /\ cancelled = FALSE
    /\ op = Idle
    /\ fired = <<>> /\ eos = FALSE /\ torn = FALSE
    /\ head = NoHead /\ resp = <<>> /\ trailer = "open" /\ broken = FALSE
    /\ consumed = 0
    /\ accepted = <<>> /\ delivered = 0 /\ outcome = "none"
    /\ result = "none"

-----------------------------------------------------------------------------
(* None says that the call ended with OK, but after an error only that it is over. *)
Told(res) ==
    IF res = "None" /\ outcome \notin {"none", "None"} THEN "over" ELSE res

(* How a call ends. *)
Return(call, res) ==
    /\ op' = Idle
    /\ outcome' = IF call = "recv" /\ res \notin {"Message", "Dropped"}
                  THEN Told(res) ELSE outcome
    /\ result' = res

Await(call, stage, data) ==
    /\ op' = Calling(call, stage, data)
    /\ result' = "none"
    /\ UNCHANGED outcome

(* Mutation: an open error is returned, and the conn stays as it was. *)
FailStaysPending(call, status) == Return(call, status) /\ UNCHANGED <<inner, failed>>

(* fail: record a fatal open error as Failed and return it. *)
Fail(call, status) ==
    /\ inner' = "Failed" /\ failed' = status
    /\ Return(call, status)

(* Mutation: finish_from_trailers leaves the conn live. *)
FinishStaysLive(atEnd) ==
    /\ inner' = inner
    /\ trailers' = IF atEnd /\ trailer \in Statuses THEN "wire" ELSE "empty"

(* finish_from_trailers; at the end of the body the trailers have arrived. *)
Finish(atEnd) ==
    /\ inner' = "Done"
    /\ trailers' = IF atEnd /\ trailer \in Statuses THEN "wire"
                   ELSE IF head.status \in Statuses THEN "head"
                   ELSE IF atEnd /\ trailer = "nostatus" THEN "wire"
                   ELSE "empty"

(* ... and on an error: they may have, as when the body ended inside a frame. *)
FinishEarly == \E atEnd \in BOOLEAN : (atEnd => trailer # "open") /\ Finish(atEnd)

-----------------------------------------------------------------------------
(* The calls: what each does up to its first await. *)

(* materialize_reading, materialize_duplex: a deferred construction error ends
   the call; otherwise the body is taken out of Pending before the await.    *)
Materialize(call) ==
    /\ inner = "Pending"
    /\ \/ /\ initError # "none"
          /\ initError' = "none"
          /\ Fail(call, initError)
          /\ UNCHANGED body
       \/ /\ initError = "none"
          /\ body' = <<>>
          /\ Await(call, "head", body)
          /\ UNCHANGED <<initError, inner, failed>>

Send(m) ==
    /\ op = Idle /\ Len(accepted) < MaxSends
    /\ \/ /\ m \notin Encodable
          /\ Return("send", "Internal")
          /\ UNCHANGED <<body, accepted>>
       \/ /\ m \in Encodable /\ inner = "Pending" /\ sendClosed
          /\ Return("send", "Internal")
          /\ UNCHANGED <<body, accepted>>
       \/ /\ m \in Encodable /\ inner = "Pending" /\ ~sendClosed
          /\ body' = Append(body, m)
          /\ accepted' = Append(accepted, m)
          /\ Return("send", "Ok")
       \/ /\ m \in Encodable /\ inner = "Duplex"
          /\ Await("send", "write", <<m>>)
          /\ UNCHANGED <<body, accepted>>
       \/ /\ m \in Encodable /\ inner \in {"Reading", "Done", "Failed"}
          /\ Return("send", "Internal")
          /\ UNCHANGED <<body, accepted>>
    /\ UNCHANGED <<inner, sendClosed, initError, failed, headers, trailers,
                   control, request, peer, consumed, delivered>>

CloseSend ==
    /\ op = Idle
    /\ \/ /\ sendClosed' = TRUE
          /\ Materialize("close_send")
       \/ /\ inner = "Duplex"
          /\ Await("close_send", "close", <<>>)
          /\ UNCHANGED <<inner, failed, pending>>
       \/ /\ inner \in {"Reading", "Done", "Failed"}
          /\ Return("close_send", "Ok")
          /\ UNCHANGED <<inner, failed, pending>>
    /\ UNCHANGED <<headers, trailers, control, request, peer, consumed,
                   accepted, delivered>>

Recv ==
    /\ op = Idle
    /\ \/ /\ Materialize("recv")
          /\ UNCHANGED <<sendClosed, headers, trailers>>
       \/ /\ inner \in {"Reading", "Duplex"}
          /\ Await("recv", "read", <<>>)
          /\ UNCHANGED <<inner, pending, failed, headers, trailers>>
       \/ /\ inner = "Done"
          /\ Return("recv", "None")
          /\ UNCHANGED <<inner, pending, failed, headers, trailers>>
       \/ /\ inner = "Failed"
          /\ inner' = "Done" /\ headers' = "empty" /\ trailers' = "empty"
          /\ failed' = "none"
          /\ Return("recv", failed)
          /\ UNCHANGED pending
    /\ UNCHANGED <<control, request, peer, consumed, accepted, delivered>>

(* open_head: fire the request early, for the response's initial metadata. *)
OpenHead ==
    /\ op = Idle
    /\ \/ Materialize("open_head")
       \/ /\ inner # "Pending"
          /\ Return("open_head", "Ok")
          /\ UNCHANGED <<inner, failed, body, initError>>
    /\ UNCHANGED <<sendClosed, headers, trailers, control, request, peer,
                   consumed, accepted, delivered>>

(* add_ascii_metadata, add_binary_metadata with an entry Metadata rejects: the
   first error is kept for materialize.                                      *)
AddInvalidMetadata ==
    /\ op = Idle /\ inner = "Pending" /\ initError = "none"
    /\ initError' = "InvalidArgument"
    /\ UNCHANGED <<inner, body, sendClosed, failed, headers, trailers, control,
                   op, request, peer, consumed, accepted, delivered, outcome, result>>

(* buffer_request, as the typed conns' constructors and setters call it. *)
BufferRequest(m) ==
    /\ op = Idle /\ inner = "Pending" /\ Len(accepted) < MaxSends
    /\ \/ /\ m \in Encodable
          /\ body' = Append(body, m)
          /\ accepted' = Append(accepted, m)
          /\ UNCHANGED initError
       \/ /\ m \notin Encodable
          /\ initError' = IF initError = "none" THEN "Internal" ELSE initError
          /\ UNCHANGED <<body, accepted>>
    /\ UNCHANGED <<inner, sendClosed, failed, headers, trailers, control, op,
                   request, peer, consumed, delivered, outcome, result>>

(* set_deadline_from_now; its doc says "before the call fires". *)
SetDeadline ==
    /\ op = Idle /\ deadline # "armed"
    /\ inner = "Pending" \/ MayRearm
    /\ deadline' = "armed"
    /\ UNCHANGED <<fullDuplex, inner, pending, failed, headers, trailers, cancelled, op,
                   request, peer, consumed, accepted, delivered, outcome, result>>

-----------------------------------------------------------------------------
(* The polls of the call in flight.                                        *)

(* Mutations: no look at the clock before the first poll; cancel polled last. *)
ProceedsAfterDeadline == ~cancelled
ProceedsAfterCancel == op.fresh => deadline # "past"

(* race: on its first poll the elapsed deadline wins outright; then cancel is
   polled first, then the timer (which may fire late), then the future.      *)
MayProceed == ~cancelled /\ (op.fresh => deadline # "past")

RaceErrors == {"Cancelled", "DeadlineExceeded"}

RaceError ==
    IF op.fresh /\ deadline = "past" THEN "DeadlineExceeded"
    ELSE IF cancelled THEN "Cancelled"
    ELSE "DeadlineExceeded"

(* Whatever leaves a call in the middle of a frame leaves the frame torn. *)
Abandon == torn' = (torn \/ op.stage = "midwrite")

(* Mutation: recv's read is raced with the cancellation only. *)
ReadHasNoDeadline ==
    /\ op.stage \in Raced
    /\ cancelled \/ (deadline = "past" /\ op.stage # "read")
    /\ \/ op.stage = "head" /\ Fail(op.call, RaceError)
       \/ /\ op.stage # "head" /\ Return(op.call, RaceError)
          /\ UNCHANGED <<inner, failed>>
    /\ Abandon
    /\ UNCHANGED <<pending, headers, trailers, control, fired, eos, peer,
                   consumed, accepted, delivered>>

RaceLost ==
    /\ op.stage \in Raced /\ (cancelled \/ deadline = "past")
    /\ \/ op.stage = "head" /\ Fail(op.call, RaceError)
       \/ /\ op.stage # "head" /\ Return(op.call, RaceError)
          /\ UNCHANGED <<inner, failed>>
    /\ Abandon
    /\ UNCHANGED <<pending, headers, trailers, control, fired, eos, peer,
                   consumed, accepted, delivered>>

(* The first poll of the request future puts the request on the wire: with
   END_STREAM, or as the prelude of an upgrade.                              *)
FireRequest ==
    /\ op.stage = "head" /\ op.fresh /\ MayProceed
    /\ fired' = Append(fired, op.data)
    /\ eos' = ~fullDuplex /\ torn' = FALSE
    /\ head' = NoHead /\ resp' = <<>> /\ trailer' = "open" /\ broken' = FALSE
    /\ op' = [op EXCEPT !.fresh = FALSE, !.data = <<>>]
    /\ UNCHANGED <<inner, pending, failed, headers, trailers, control,
                   consumed, accepted, delivered, outcome, result>>

(* transport_error *)
HeadError ==
    /\ op.stage = "head" /\ ~op.fresh /\ MayProceed /\ broken
    /\ Fail(op.call, "Unavailable")
    /\ UNCHANGED <<pending, headers, trailers, control, request, peer,
                   consumed, accepted, delivered>>

(* The head is in: refuse it, or go live and on to the rest of the call. *)
HeadArrives ==
    /\ op.stage = "head" /\ ~op.fresh /\ MayProceed /\ head # NoHead
    /\ \/ /\ HeadVerdict(head) # "OK"
          /\ Fail(op.call, HeadVerdict(head))
          /\ UNCHANGED headers
       \/ /\ HeadVerdict(head) = "OK"
          /\ inner' = IF fullDuplex THEN "Duplex" ELSE "Reading"
          /\ headers' = "head"
          /\ \/ op.call = "recv" /\ Await("recv", "read", <<>>)
             \/ op.call = "close_send" /\ fullDuplex
                  /\ Await("close_send", "close", <<>>)
             \/ op.call = "close_send" /\ ~fullDuplex /\ Return(op.call, "Ok")
             \/ op.call = "open_head" /\ Return(op.call, "Ok")
          /\ UNCHANGED failed
    /\ UNCHANGED <<pending, trailers, control, request, peer, consumed,
                   accepted, delivered>>

(* The first poll of a read or a write found nothing to do yet. *)
Suspend ==
    /\ op.stage \in {"read", "write"} /\ op.fresh /\ MayProceed
    /\ op' = [op EXCEPT !.fresh = FALSE]
    /\ UNCHANGED <<inner, pending, failed, headers, trailers, control, request,
                   peer, consumed, accepted, delivered, outcome, result>>

(* write_all: flow control lets part of the frame out, or all of it. *)
WriteSome ==
    /\ op.stage = "write" /\ MayProceed /\ ~broken
    /\ op' = [op EXCEPT !.stage = "midwrite", !.fresh = FALSE]
    /\ UNCHANGED <<inner, pending, failed, headers, trailers, control, request,
                   peer, consumed, accepted, delivered, outcome, result>>

WriteDone ==
    /\ op.stage \in {"write", "midwrite"} /\ MayProceed /\ ~broken
    /\ fired' = [fired EXCEPT ![Len(fired)] = @ \o op.data]
    /\ accepted' = accepted \o op.data
    /\ Return("send", "Ok")
    /\ UNCHANGED <<inner, pending, failed, headers, trailers, control, eos,
                   torn, peer, consumed, delivered>>

WriteError ==
    /\ op.stage \in {"write", "midwrite"} /\ MayProceed /\ broken
    /\ Abandon
    /\ Return("send", "Unavailable")
    /\ UNCHANGED <<inner, pending, failed, headers, trailers, control, fired,
                   eos, peer, consumed, accepted, delivered>>

CloseDone ==
    /\ op.stage = "close" /\ ~broken
    /\ eos' = TRUE
    /\ Return("close_send", "Ok")
    /\ UNCHANGED <<inner, pending, failed, headers, trailers, control, fired,
                   torn, peer, consumed, accepted, delivered>>

CloseError ==
    /\ op.stage = "close" /\ broken
    /\ Return("close_send", "Unavailable")
    /\ UNCHANGED <<inner, pending, failed, headers, trailers, control, request,
                   peer, consumed, accepted, delivered>>

(* Mutation: the frame read stays in the buffer. *)
ReadItemAgain ==
    /\ op.stage = "read" /\ MayProceed /\ consumed < Len(resp)
    /\ resp[consumed + 1] = "Message" /\ head.status = "absent"
    /\ consumed' \in {consumed, consumed + 1} /\ delivered' = delivered + 1
    /\ Return("recv", "Message")
    /\ UNCHANGED <<inner, trailers, pending, failed, headers, control, request, peer,
                   accepted>>

(* read_one: the next frame.  A message on a Trailers-Only response is dropped
   and ends the call, and so does a frame that cannot be read.               *)
ReadItem ==
    /\ op.stage = "read" /\ MayProceed /\ consumed < Len(resp)
    /\ consumed' = consumed + 1
    /\ LET item == resp[consumed + 1] IN
       \/ /\ item = "Message" /\ head.status = "absent"
          /\ delivered' = delivered + 1
          /\ Return("recv", "Message")
          /\ UNCHANGED <<inner, trailers>>
       \/ /\ item = "Message" /\ head.status # "absent"
          /\ FinishEarly
          /\ Return("recv", "Internal")
          /\ UNCHANGED delivered
       \/ /\ item # "Message"
          /\ FinishEarly
          /\ Return("recv", item)
          /\ UNCHANGED delivered
    /\ UNCHANGED <<pending, failed, headers, control, request, peer, accepted>>

ReadEnd ==
    /\ op.stage = "read" /\ MayProceed
    /\ consumed = Len(resp) /\ trailer # "open"
    /\ Finish(TRUE)
    /\ Return("recv", IF FinalStatus = "OK" THEN "None" ELSE FinalStatus)
    /\ UNCHANGED <<pending, failed, headers, control, request, peer, consumed,
                   accepted, delivered>>

(* Mutation: a transport error is taken for the end of the body. *)
ReadErrorIsEnd ==
    /\ op.stage = "read" /\ MayProceed /\ broken
    /\ Finish(FALSE)
    /\ Return("recv", "None")
    /\ UNCHANGED <<pending, failed, headers, control, request, peer, consumed,
                   accepted, delivered>>

ReadError ==
    /\ op.stage = "read" /\ MayProceed /\ broken
    /\ FinishEarly
    /\ Return("recv", "Unavailable")
    /\ UNCHANGED <<pending, failed, headers, control, request, peer, consumed,
                   accepted, delivered>>

(* The caller drops the future between two polls; what it had taken out of the
   conn is gone, and a request it had fired is reset.                        *)
DropCall ==
    /\ op.stage \in Droppable /\ Len(fired) < MaxRequests
    /\ ~op.fresh \/ op.stage = "close"
    /\ Abandon
    /\ Return(op.call, "Dropped")
    /\ UNCHANGED <<inner, pending, failed, headers, trailers, control, fired,
                   eos, peer, consumed, accepted, delivered>>

-----------------------------------------------------------------------------
(* The rest of the world. *)

(* CancelHandle::cancel, from any task at any time. *)
Cancel ==
    /\ ~cancelled
    /\ cancelled' = TRUE
    /\ UNCHANGED <<fullDuplex, inner, pending, failed, headers, trailers, deadline, op,
                   request, peer, consumed, accepted, delivered, outcome, result>>

DeadlinePasses ==
    /\ deadline = "armed"
    /\ deadline' = "past"
    /\ UNCHANGED <<fullDuplex, inner, pending, failed, headers, trailers, cancelled, op,
                   request, peer, consumed, accepted, delivered, outcome, result>>

(* The conn holds a stream: awaiting its head, or live. *)
StreamOpen ==
    \/ op.stage = "head" /\ ~op.fresh
    \/ inner \in {"Reading", "Duplex"}

PeerSends ==
    /\ StreamOpen /\ ~broken
    /\ UNCHANGED <<inner, pending, failed, headers, trailers, control, op,
                   request, broken, consumed, accepted, delivered, outcome, result>>

PeerHead ==
    /\ PeerSends /\ head = NoHead /\ (ReadsToEnd => eos)
    /\ head' \in Heads
    /\ UNCHANGED <<resp, trailer>>

PeerItem ==
    /\ PeerSends /\ head # NoHead /\ trailer = "open" /\ Len(resp) < MaxResponses
    /\ \E i \in Items : resp' = Append(resp, i)
    /\ UNCHANGED <<head, trailer>>

PeerEnd ==
    /\ PeerSends /\ head # NoHead /\ trailer = "open"
    /\ trailer' \in Trailers
    /\ UNCHANGED <<head, resp>>

StreamBreaks ==
    /\ StreamOpen /\ ~broken
    /\ broken' = TRUE
    /\ UNCHANGED <<inner, pending, failed, headers, trailers, control, op,
                   request, head, resp, trailer, consumed, accepted, delivered,
                   outcome, result>>

Calls ==
    \/ \E m \in Requests : Send(m) \/ BufferRequest(m)
    \/ CloseSend \/ Recv \/ OpenHead \/ AddInvalidMetadata \/ SetDeadline

(* A poll that needs nothing further from the peer or the transport. *)
Poll ==
    \/ RaceLost \/ FireRequest \/ HeadError \/ HeadArrives \/ Suspend
    \/ WriteError \/ CloseError \/ ReadItem \/ ReadEnd \/ ReadError

Transport == WriteSome \/ WriteDone \/ CloseDone
Peer == PeerHead \/ PeerItem \/ PeerEnd

Next ==
    Calls \/ Poll \/ Transport \/ DropCall \/ Cancel \/ DeadlinePasses
    \/ Peer \/ StreamBreaks

(* The runtime polls a task it has woken, and time passes.  Nothing is assumed
   of the peer, the transport, the caller or who holds the CancelHandle.     *)
Spec == Init /\ [][Next]_vars /\ WF_vars(Poll) /\ WF_vars(DeadlinePasses)

(* ... and with a peer that answers and a transport that lets writes out. *)
FairPeerSpec ==
    Spec /\ WF_vars(WriteDone \/ CloseDone) /\ WF_vars(PeerHead) /\ WF_vars(PeerEnd)

-----------------------------------------------------------------------------
Call == {"send", "close_send", "recv", "open_head"}

TypeOK ==
    /\ fullDuplex \in BOOLEAN
    /\ inner \in {"Pending", "Reading", "Duplex", "Done", "Failed"}
    /\ body \in Seq(Requests) /\ sendClosed \in BOOLEAN
    /\ initError \in {"none", "InvalidArgument", "Internal"}
    /\ failed \in {"none"} \cup Errors
    /\ headers \in {"none", "head", "empty"}
    /\ trailers \in {"none", "empty", "head", "wire"}
    /\ deadline \in {"none", "armed", "past"} /\ cancelled \in BOOLEAN
    /\ op \in [call : Call \cup {"idle"}, stage : Raced \cup {"close", "none"},
               fresh : BOOLEAN, data : Seq(Requests)]
    /\ fired \in Seq(Seq(Requests)) /\ eos \in BOOLEAN /\ torn \in BOOLEAN
    /\ head \in Heads \cup {NoHead} /\ resp \in Seq(Items)
    /\ trailer \in Trailers \cup {"open"} /\ broken \in BOOLEAN
    /\ consumed \in Nat /\ accepted \in Seq(Requests) /\ delivered \in Nat
    /\ outcome \in {"none", "None", "over"} \cup Errors
    /\ result \in {"none", "Ok", "Message", "None", "Dropped"} \cup Errors

(* One call is one request on the wire, however recv, close_send and open_head
   come to fire it and whatever they fail on.                                *)
OneRequest == Len(fired) <= 1

(* The peer gets exactly the messages the caller was told are sent, in order:
   the body buffered in Pending, then what is written live.                  *)
SentIsFired == fired # <<>> => fired[1] = accepted

(* A call that recv reports as over, cleanly or with a status only the peer
   can have given, is over: the peer said exactly that at the end of its
   response, and every message before it was returned.                       *)
HonestOutcome ==
    outcome \in {"None", "Aborted"} =>
        /\ trailer # "open"
        /\ FinalStatus = IF outcome = "None" THEN "OK" ELSE "Aborted"
        /\ delivered = Len(resp)

(* The client keeps the promise of module Received: however the call was opened
   and whichever await fails, expires or is cancelled, its caller is handed the
   peer's messages one by one and then a verdict, no success but the peer's, and
   from then on recv answers that it is over, or with the race's errors again. *)
Promised == INSTANCE Received WITH
    PeersOwn <- {"OK", "Aborted"},
    Recurring <- RaceErrors,
    sent <- Len(resp),
    said <- IF trailer = "open" THEN "open" ELSE FinalStatus,
    given <- delivered,
    verdict <- IF outcome = "None" THEN "OK" ELSE outcome

KeepsPromise == Promised!ReceivedSpec

(* After recv has returned an error or None, no later recv returns a message:
   although a deadline or a cancellation leaves the conn live (read_one), the
   race keeps losing.                                                        *)
ErrIsFinal == [][outcome # "none" => UNCHANGED delivered]_vars

(* Once cancelled, a call fires no request and returns no message, whichever
   await it is in and whatever is already buffered: cancel is polled first.  *)
QuietOnceCancelled == [][cancelled => UNCHANGED <<fired, delivered>>]_vars

(* A frame cut off in write_all, by the race or by an error, is the last thing
   on the request stream: no later send writes after half a frame.           *)
TornIsLast == [][torn => UNCHANGED fired]_vars

(* Response metadata, once there, stays what it was: headers() and trailers()
   do not change under the caller, on the error path either.                 *)
MetadataKept ==
    [][/\ headers = "head" => headers' = "head"
       /\ trailers # "none" => UNCHANGED trailers]_vars

(* A deadline or a cancellation resolves every raced call, with no help from
   the peer, the transport or the caller.                                    *)
RacedCallsResolve ==
    (op.stage \in Raced /\ (deadline # "none" \/ cancelled)) ~> (op.stage \notin Raced)

-----------------------------------------------------------------------------
(* What the documentation says.                                            *)

(* Inner::Pending (conn.rs:88): "Accumulating request frames; no network I/O
   yet."                                                                     *)
PendingMeansNoIO == inner = "Pending" /\ op = Idle => fired = <<>>

(* Inner::Failed (conn.rs:99-101): "The error is delivered once on the next
   `recv`, then becomes `Done`."                                             *)
FailedToldOnce == [][inner = "Failed" /\ inner' = "Done" => outcome = "none"]_vars

(* close_send (conn.rs:355): "Half-close the request side (sends END_STREAM)";
   also BidiConn::close_send.                                                *)
CloseSendHalfCloses ==
    (op.call = "close_send") ~> (eos \/ op.call # "close_send")
=============================================================================
