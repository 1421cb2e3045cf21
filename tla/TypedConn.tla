------------------------------ MODULE TypedConn ------------------------------
(***************************************************************************)
(* The typed call handles of src/src/client/typed.rs over the engine of     *)
(* module ClientConn: UnaryConn (unary and client-streaming calls),         *)
(* StreamingConn and BidiConn.                                              *)
(*                                                                         *)
(* A handle's own IntoFuture is a sequence of engine calls; `await' says    *)
(* which of them it has come to:                                            *)
(*   "drain"   requests.next().await, which no race covers                  *)
(*   "close"   engine.close_send().await                                    *)
(*   "first", "second"   the two engine.recv().await of read_unary          *)
(*   "head"    engine.open_head().await of StreamingConn                    *)
(* StreamingConn and BidiConn are also Streams.  poll_next moves the engine  *)
(* into a recv future kept in `in_flight', which a next() that is dropped   *)
(* leaves there for the next one; `inFlight' says whether somebody polls it. *)
(***************************************************************************)
EXTENDS ClientConn

CONSTANTS
    Shapes,     \* the shapes of call there are
    MayReawait  \* a UnaryConn that has its outcome is awaited again

AllShapes == {"unary", "client_streaming", "server_streaming", "bidi"}
ASSUME ShapesAssumption == Shapes \subseteq AllShapes /\ MayReawait \in BOOLEAN

VARIABLES
    shape,      \* which constructor made the handle
    handle,     \* "new", "held", "gone" (consumed or dropped), "panicked"
    await,      \* where the handle's IntoFuture stands, or "none"
    requests,   \* UnaryConn.requests is Some
    inFlight,   \* in_flight: "no", "polled", or "dropped" by who polled it
    message,    \* outcome: its message is Some
    verdict,    \* outcome: its verdict, "none" before there is one
    dropped     \* history: a method's future was dropped

engine == vars
future == <<await, inFlight>>
answer == <<message, verdict>>
handleVars == <<shape, dropped, handle, await, requests, inFlight, message, verdict>>
typedVars == <<engine, handleVars>>

OneResponse == shape \in {"unary", "client_streaming"}
IsStream == shape \in {"server_streaming", "bidi"}

(* into_message *)
IntoMessage ==
    IF verdict = "none" THEN "Internal"
    ELSE IF verdict # "OK" THEN verdict
    ELSE IF message THEN "Message" ELSE "Internal"

TypedInit ==
    /\ Init
    /\ shape \in Shapes /\ fullDuplex = (shape = "bidi")
    /\ handle = "new" /\ await = "none" /\ requests = FALSE
    /\ inFlight = "no" /\ message = FALSE /\ verdict = "none" /\ dropped = FALSE

(* The constructors: the request of a one-request shape is buffered at once.  *)
Construct ==
    /\ handle = "new" /\ handle' = "held"
    /\ requests' = (shape = "client_streaming")
    /\ \/ /\ shape \in {"unary", "server_streaming"}
          /\ \E m \in Requests : BufferRequest(m)
       \/ /\ shape \in {"client_streaming", "bidi"}
          /\ UNCHANGED engine
    /\ UNCHANGED <<shape, dropped, future, answer>>

-----------------------------------------------------------------------------
(* The caller holds the handle, and the engine is in it. *)
AtRest == handle = "held" /\ await = "none" /\ inFlight = "no" /\ op = Idle

(* with_ascii_metadata, with_binary_metadata, with_timeout *)
With ==
    /\ AtRest
    /\ AddInvalidMetadata \/ SetDeadline
    /\ UNCHANGED handleVars

(* StreamingConn::recv; BidiConn::recv, send and close_send. *)
Method ==
    /\ AtRest
    /\ \/ IsStream /\ Recv
       \/ shape = "bidi" /\ (CloseSend \/ \E m \in Requests : Send(m))
    /\ UNCHANGED handleVars

(* The future of a method is dropped, and with it the engine's call: the engine
   is the handle's all along.                                                *)
DropMethod ==
    /\ handle = "held" /\ await = "none" /\ inFlight = "no"
    /\ DropCall
    /\ dropped' = TRUE
    /\ UNCHANGED <<shape, handle, future, requests, answer>>

(* UnaryConn::into_future, which the conn it returns has again. *)
AwaitUnary ==
    /\ AtRest /\ OneResponse
    /\ verdict = "none" \/ MayReawait
    /\ requests' = FALSE
    /\ \/ requests /\ await' = "drain" /\ UNCHANGED engine
       \/ ~requests /\ await' = "close" /\ CloseSend
    /\ UNCHANGED <<shape, dropped, handle, inFlight, answer>>

(* The `?' of into_future: the await returns Err and the conn is dropped. *)
Fails == handle' = "gone" /\ await' = "none" /\ UNCHANGED <<engine, answer>>

SourceYields ==
    /\ await = "drain"
    /\ \E m \in Requests : Send(m)
    /\ \/ result' = "Ok" /\ UNCHANGED <<handle, await>>
       \/ result' # "Ok" /\ handle' = "gone" /\ await' = "none"
    /\ UNCHANGED <<shape, dropped, requests, inFlight, answer>>

SourceEnds ==
    /\ await = "drain" /\ await' = "close"
    /\ CloseSend
    /\ UNCHANGED <<shape, dropped, handle, requests, inFlight, answer>>

AfterCloseSend ==
    /\ await = "close" /\ op = Idle
    /\ \/ /\ result = "Ok" /\ await' = "first"
          /\ Recv
          /\ UNCHANGED <<handle, answer>>
       \/ result # "Ok" /\ Fails
    /\ UNCHANGED <<shape, dropped, requests, inFlight>>

Answer(kept, status) ==
    /\ await' = "none" /\ message' = kept /\ verdict' = status
    /\ UNCHANGED engine

(* Mutation: the end of a response without a message is handed on as it is. *)
AfterFirstRecvAsIs ==
    /\ await = "first" /\ op = Idle
    /\ \/ result = "Message" /\ await' = "second" /\ Recv /\ UNCHANGED answer
       \/ result # "Message" /\ Answer(FALSE, result)
    /\ UNCHANGED <<shape, dropped, handle, requests, inFlight>>

(* read_unary *)
AfterFirstRecv ==
    /\ await = "first" /\ op = Idle
    /\ \/ result = "Message" /\ await' = "second" /\ Recv /\ UNCHANGED answer
       \/ result = "None" /\ Answer(FALSE, "Internal")
       \/ result \in Errors /\ Answer(FALSE, result)
    /\ UNCHANGED <<shape, dropped, handle, requests, inFlight>>

(* Mutation: the second recv is taken to have found the end. *)
AfterSecondRecvIsEnd ==
    /\ await = "second" /\ op = Idle
    /\ \/ result \in {"None", "Message"} /\ Answer(TRUE, "OK")
       \/ result \in Errors /\ Answer(TRUE, result)
    /\ UNCHANGED <<shape, dropped, handle, requests, inFlight>>

AfterSecondRecv ==
    /\ await = "second" /\ op = Idle
    /\ \/ result = "None" /\ Answer(TRUE, "OK")
       \/ result = "Message" /\ Answer(FALSE, "Internal")
       \/ result \in Errors /\ Answer(TRUE, result)
    /\ UNCHANGED <<shape, dropped, handle, requests, inFlight>>

(* StreamingConn::into_future: only the head. *)
AwaitHead ==
    /\ AtRest /\ shape = "server_streaming"
    /\ await' = "head"
    /\ OpenHead
    /\ UNCHANGED <<shape, dropped, handle, requests, inFlight, answer>>

AfterHead ==
    /\ await = "head" /\ op = Idle
    /\ \/ result = "Ok" /\ await' = "none" /\ UNCHANGED <<engine, handle, answer>>
       \/ result # "Ok" /\ Fails
    /\ UNCHANGED <<shape, dropped, requests, inFlight>>

(* Dropping an IntoFuture drops the handle it has consumed. *)
DropAwait ==
    /\ await # "none" /\ (await # "drain" => op # Idle) /\ ~op.fresh
    /\ handle' = "gone" /\ await' = "none"
    /\ UNCHANGED <<engine, shape, dropped, requests, inFlight, answer>>

-----------------------------------------------------------------------------
(* poll_next, polled first: with the engine in hand, or with the future an
   earlier next() has left.                                                  *)
PollNext ==
    /\ handle = "held" /\ await = "none" /\ IsStream
    /\ \/ /\ inFlight = "no" /\ Recv
          /\ inFlight' = IF op' = Idle THEN "no" ELSE "polled"
       \/ /\ inFlight = "dropped" /\ inFlight' = "polled"
          /\ UNCHANGED engine
    /\ UNCHANGED <<shape, dropped, handle, await, requests, answer>>

(* Mutation: the recv future goes with the next() that made it. *)
DropNextWithRecv ==
    /\ inFlight = "polled" /\ ~op.fresh
    /\ inFlight' = "no" /\ op' = Idle
    /\ UNCHANGED <<inner, pending, failed, headers, trailers, control, request,
                   peer, consumed, accepted, delivered, outcome, result>>
    /\ UNCHANGED <<shape, dropped, handle, await, requests, answer>>

(* A pending next() is dropped: the recv future stays, and the engine in it. *)
DropNext ==
    /\ inFlight = "polled" /\ ~op.fresh
    /\ inFlight' = "dropped"
    /\ UNCHANGED <<engine, shape, dropped, handle, await, requests, answer>>

(* Every accessor and setter, and recv, send, close_send and .await:
   engine() and engine_mut() find no engine.                                 *)
WithoutEngine ==
    /\ handle = "held" /\ inFlight = "dropped"
    /\ handle' = "panicked"
    /\ UNCHANGED <<engine, shape, dropped, requests, future, answer>>

(* A poll of the engine call under way, which hands the engine back at its end. *)
Polled(step) ==
    /\ handle = "held" /\ inFlight # "dropped"
    /\ step
    /\ inFlight' = IF op' = Idle THEN "no" ELSE inFlight
    /\ UNCHANGED <<shape, dropped, handle, await, requests, answer>>

World ==
    /\ handle = "held"
    /\ Cancel \/ DeadlinePasses \/ Peer \/ StreamBreaks
    /\ UNCHANGED handleVars

(* What an awaited handle does next of itself, once an engine call returned. *)
Continue == AfterCloseSend \/ AfterFirstRecv \/ AfterSecondRecv \/ AfterHead

TypedNext ==
    \/ Construct \/ With \/ Method \/ DropMethod
    \/ AwaitUnary \/ SourceYields \/ SourceEnds \/ AwaitHead \/ Continue \/ DropAwait
    \/ PollNext \/ DropNext \/ WithoutEngine
    \/ Polled(Poll) \/ Polled(Transport) \/ World

(* The task that awaits is polled when woken, a client-streaming call's request
   stream comes to its end, and time passes.                                 *)
TypedSpec ==
    /\ TypedInit /\ [][TypedNext]_typedVars
    /\ WF_typedVars(Polled(Poll)) /\ WF_typedVars(Continue)
    /\ WF_typedVars(SourceEnds)
    /\ WF_typedVars(handle = "held" /\ DeadlinePasses /\ UNCHANGED handleVars)

-----------------------------------------------------------------------------
HandleTypeOK ==
    /\ TypeOK
    /\ shape \in Shapes /\ handle \in {"new", "held", "gone", "panicked"}
    /\ await \in {"none", "drain", "close", "first", "second", "head"}
    /\ requests \in BOOLEAN /\ inFlight \in {"no", "polled", "dropped"}
    /\ message \in BOOLEAN /\ verdict \in {"none", "OK"} \cup Errors
    /\ dropped \in BOOLEAN

(* "exactly one response out", "enforces the one-response cardinality"
   (typed.rs:51-56): a unary or client-streaming call succeeds for its caller
   only if the peer sent one response message, and OK after it.              *)
OneResponseVerdict ==
    IntoMessage = "Message" =>
        /\ Len(resp) = 1 /\ delivered = 1
        /\ trailer # "open" /\ FinalStatus = "OK"

(* The one request of a call holds what its shape says it does: the message it
   was made with, all of what the request stream yielded, or, live, what send
   took; and neither an .await nor a next() dropped and taken up again makes
   it two.  (A dropped recv, send or close_send does: PendingMeansNoIO.)     *)
RequestFitsShape ==
    fired # <<>> /\ ~dropped =>
        /\ fired = <<accepted>>
        /\ shape \in {"unary", "server_streaming"} => Len(accepted) = 1
        /\ shape # "bidi" => eos
        /\ ~requests /\ await # "drain"

(* A status the peer gave comes with its metadata and its trailers. *)
AnswerHasMetadata ==
    verdict \in {"OK", "Aborted"} =>
        headers = "head" /\ trailers \in {"head", "wire"}

Waiting == await # "none" \/ inFlight = "polled"

(* A deadline or a cancellation ends whatever the caller awaits, next() and a
   taken-up next() too, if the request stream it may have to drain first ends.  *)
AwaitedCallsEnd == (Waiting /\ (deadline # "none" \/ cancelled)) ~> ~Waiting

-----------------------------------------------------------------------------
(* engine() (typed.rs:283-285) "Panics only if called while a poll is in
   flight, which `&self`/`&mut self` borrow rules make unreachable."          *)
EnginePresent == handle # "panicked"
=============================================================================
