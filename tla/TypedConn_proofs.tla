-------------------------- MODULE TypedConn_proofs --------------------------
(* Proofs about TypedConn, for every shape, message, head, item and bound:    *)
(* the handles drive the engine as its own module says it may be driven, so   *)
(* that what is proved of the engine holds under them, and what they make of  *)
(* its answers is right.                                                     *)
EXTENDS TypedConn, ClientConn_proofs

(* Making a handle makes a fresh engine. *)
LEMMA TypedInitInit == TypedInit => Init
BY DEF TypedInit

(* Whatever a handle does is a step of the engine, or none: poll_next, the    *)
(* two IntoFutures and the methods only make the calls the engine has.        *)
LEMMA TypedStepStep == [TypedNext]_typedVars => [Next]_vars
<1> SUFFICES ASSUME TypedNext PROVE [Next]_vars
  BY DEF typedVars, engine
<1>1. CASE Construct \/ With \/ Method \/ DropMethod
  BY <1>1 DEF Construct, With, Method, DropMethod, Next, Calls, engine
<1>2. CASE AwaitUnary \/ SourceYields \/ SourceEnds \/ AwaitHead \/ DropAwait
  BY <1>2 DEF AwaitUnary, SourceYields, SourceEnds, AwaitHead, DropAwait, Next, Calls,
     engine
<1>3. CASE Continue
  BY <1>3 DEF Continue, AfterCloseSend, AfterFirstRecv, AfterSecondRecv, AfterHead,
     Answer, Fails, Next, Calls, engine
<1>4. CASE PollNext \/ DropNext \/ WithoutEngine
  BY <1>4 DEF PollNext, DropNext, WithoutEngine, Next, Calls, engine
<1>5. CASE Polled(Poll) \/ Polled(Transport) \/ World
  BY <1>5 DEF Polled, World, Next
<1> QED BY <1>1, <1>2, <1>3, <1>4, <1>5 DEF TypedNext

(* A step that drops no method's future drops no engine call: not even one that
   drops an .await or a next() does.                                          *)
LEMMA UndroppedStep ==
    ASSUME [TypedNext]_typedVars, ~dropped' PROVE ~dropped /\ Undropped
<1>1. CASE UNCHANGED typedVars
  BY <1>1 DEF Undropped, typedVars, handleVars, engine
<1>2. CASE Construct \/ With \/ Method
  BY <1>2 DEF Construct, With, Method, Undropped, Calls, engine, handleVars
<1>3. CASE AwaitUnary \/ SourceYields \/ SourceEnds \/ AwaitHead \/ DropAwait
  BY <1>3 DEF AwaitUnary, SourceYields, SourceEnds, AwaitHead, DropAwait, Undropped,
     Calls, engine
<1>4. CASE Continue
  BY <1>4 DEF Continue, AfterCloseSend, AfterFirstRecv, AfterSecondRecv, AfterHead,
     Answer, Fails, Undropped, Calls, engine
<1>5. CASE PollNext \/ DropNext \/ WithoutEngine
  BY <1>5 DEF PollNext, DropNext, WithoutEngine, Undropped, Calls, engine
<1>6. CASE Polled(Poll) \/ Polled(Transport) \/ World
  BY <1>6 DEF Polled, World, Undropped, handleVars
<1>7. CASE DropMethod
  BY <1>7 DEF DropMethod
<1> QED BY <1>1, <1>2, <1>3, <1>4, <1>5, <1>6, <1>7 DEF TypedNext

-----------------------------------------------------------------------------
HandleTypes ==
    /\ shape \in Shapes /\ handle \in {"new", "held", "gone", "panicked"}
    /\ await \in {"none", "drain", "close", "first", "second", "head"}
    /\ requests \in BOOLEAN /\ inFlight \in {"no", "polled", "dropped"}
    /\ message \in BOOLEAN /\ verdict \in {"none", "OK"} \cup Errors
    /\ dropped \in BOOLEAN

(* Who may be in the middle of what. *)
PlaceOK ==
    /\ fullDuplex = (shape = "bidi")
    /\ inner = "Duplex" => shape = "bidi"
    /\ handle = "new" => /\ op = Idle /\ inner = "Pending" /\ accepted = <<>>
                         /\ fired = <<>> /\ await = "none" /\ inFlight = "no" /\ ~requests
    /\ await # "none" => handle = "held" /\ inFlight = "no"
    /\ await \in {"drain", "close", "first", "second"} => OneResponse
    /\ await = "head" => shape = "server_streaming"
    /\ inFlight # "no" => IsStream

(* A one-request call whose message could not be encoded never goes out. *)
Unsendable ==
    /\ accepted = <<>> /\ fired = <<>> /\ op = Idle
    /\ inner \in {"Pending", "Failed", "Done"}
    /\ inner = "Pending" => initError # "none"

RequestOK ==
    /\ fired # <<>> /\ shape # "bidi" => eos
    /\ await # "none" => ~requests
    /\ requests \/ await = "drain" =>
           shape = "client_streaming" /\ inner = "Pending" /\ op = Idle
    /\ shape \in {"unary", "server_streaming"} /\ handle # "new" =>
           Len(accepted) = 1 \/ Unsendable

HInv == IInv /\ HandleTypes /\ PlaceOK /\ RequestOK

(* As long as no method's future was dropped, the request is whole. *)
WholeOK == ~dropped => Whole

(* A fresh handle satisfies the invariant. *)
LEMMA TypedInitHInv == TypedInit => HInv
<1> SUFFICES ASSUME TypedInit PROVE HInv
  OBVIOUS
<1>1. IInv
  BY TypedInitInit, InitIInv
<1>2. HandleTypes /\ PlaceOK /\ RequestOK
  BY DEF TypedInit, Init, HandleTypes, PlaceOK, RequestOK
<1> QED BY <1>1, <1>2 DEF HInv

(* What the start of an engine call does to the request. *)
LEMMA StartFacts ==
    ASSUME IInv, Recv \/ CloseSend \/ OpenHead
    PROVE  /\ accepted' = accepted /\ fired' = fired /\ eos' = eos
           /\ fullDuplex' = fullDuplex /\ delivered' = delivered
           /\ inner' = "Duplex" => inner = "Duplex"
           /\ Unsendable => Unsendable'
<1>1. /\ accepted' = accepted /\ fired' = fired /\ eos' = eos
      /\ fullDuplex' = fullDuplex /\ delivered' = delivered
  BY DEF Recv, CloseSend, OpenHead, request, control
<1>2. inner' = "Duplex" => inner = "Duplex"
  BY DEF Recv, CloseSend, OpenHead, Materialize, Fail
<1>3. ASSUME Unsendable PROVE Unsendable'
  BY <1>1, <1>3 DEF Unsendable, Recv, CloseSend, OpenHead, Materialize, Fail, Return
<1> QED BY <1>1, <1>2, <1>3

(* What a poll of a call that is not full-duplex does to the request. *)
LEMMA PollFacts ==
    ASSUME IInv, Poll \/ Transport
    PROVE  /\ op # Idle /\ fullDuplex' = fullDuplex
           /\ inner' = "Duplex" => inner = "Duplex" \/ fullDuplex
           /\ inner # "Duplex" =>
                 /\ accepted' = accepted
                 /\ (fired' = fired /\ eos' = eos) \/ fullDuplex \/ eos'
<1>1. op # Idle
  BY IdleFields DEF Poll, Transport, RaceLost, FireRequest, HeadError, HeadArrives,
     Suspend, WriteError, CloseError, ReadItem, ReadEnd, ReadError, WriteSome,
     WriteDone, CloseDone, Raced
<1>2. fullDuplex' = fullDuplex
  BY DEF Poll, Transport, RaceLost, FireRequest, HeadError, HeadArrives,
     Suspend, WriteError, CloseError, ReadItem, ReadEnd, ReadError, WriteSome,
     WriteDone, CloseDone, control
<1>3. inner' = "Duplex" => inner = "Duplex" \/ fullDuplex
  BY DEF Poll, Transport, RaceLost, FireRequest, HeadError, HeadArrives,
     Suspend, WriteError, CloseError, ReadItem, ReadEnd, ReadError, WriteSome,
     WriteDone, CloseDone, Fail, Finish, FinishEarly
<1>4. ASSUME inner # "Duplex"
      PROVE  /\ accepted' = accepted
             /\ (fired' = fired /\ eos' = eos) \/ fullDuplex \/ eos'
  <2>1. ~WriteDone /\ ~CloseDone
    BY <1>4 DEF WriteDone, CloseDone, IInv, OpOK
  <2> QED BY <2>1 DEF Poll, Transport, RaceLost, FireRequest, HeadError, HeadArrives,
     Suspend, WriteError, CloseError, ReadItem, ReadEnd, ReadError, WriteSome, request
<1> QED BY <1>1, <1>2, <1>3, <1>4

-----------------------------------------------------------------------------
(* Types of the handle, which every action keeps. *)
LEMMA HandleTypesStep == ASSUME HInv, TypedNext PROVE HandleTypes'
<1>1. result \in {"none", "Ok", "Message", "None", "Dropped"} \cup Errors
  BY DEF HInv, IInv, TypeOK
<1>2. "Internal" \in Errors
  BY DEF Errors
<1>3. CASE Continue
  <2>1. /\ shape' = shape /\ requests' = requests /\ inFlight' = inFlight
        /\ dropped' = dropped /\ handle' \in {handle, "gone"}
        /\ await' \in {"none", "first", "second"}
    BY <1>3 DEF Continue, AfterCloseSend, AfterFirstRecv, AfterSecondRecv, AfterHead,
       Answer, Fails
  <2>2. message' \in {message, TRUE, FALSE}
    BY <1>3 DEF Continue, AfterCloseSend, AfterFirstRecv, AfterSecondRecv, AfterHead,
       Answer, Fails, answer
  <2>3. verdict' \in {verdict, "OK"} \cup Errors
    BY <1>2, <1>3 DEF Continue, AfterCloseSend, AfterFirstRecv, AfterSecondRecv,
       AfterHead, Answer, Fails, answer
  <2> QED BY <2>1, <2>2, <2>3 DEF HInv, HandleTypes
<1>4. CASE Construct
  <2>1. requests' \in BOOLEAN
    BY <1>4 DEF Construct
  <2> QED BY <1>4, <2>1 DEF HInv, HandleTypes, Construct, future, answer
<1>5. CASE With \/ Method \/ World
  BY <1>5 DEF HInv, HandleTypes, With, Method, World, handleVars
<1>6. CASE AwaitUnary \/ SourceYields \/ SourceEnds \/ AwaitHead \/ DropAwait
  BY <1>6 DEF HInv, HandleTypes, AwaitUnary, SourceYields, SourceEnds, AwaitHead,
     DropAwait, answer
<1>7. CASE PollNext \/ DropNext \/ WithoutEngine
  BY <1>7 DEF HInv, HandleTypes, PollNext, DropNext, WithoutEngine, future, answer
<1>8. CASE Polled(Poll) \/ Polled(Transport)
  BY <1>8 DEF HInv, HandleTypes, Polled, answer
<1>9. CASE DropMethod
  BY <1>9 DEF HInv, HandleTypes, DropMethod, future, answer
<1> QED BY <1>3, <1>4, <1>5, <1>6, <1>7, <1>8, <1>9 DEF TypedNext

(* An engine call is started. *)
LEMMA StartStep ==
    ASSUME HInv, IInv', Recv \/ CloseSend \/ OpenHead, HandleTypes', shape' = shape,
           handle = "held", handle' = handle, requests' \in {FALSE, requests},
           requests' => ~(Recv \/ CloseSend \/ OpenHead), await' # "drain",
           await' \in {"close", "first", "second"} => OneResponse,
           await' = "head" => shape = "server_streaming",
           await' # "none" => inFlight' = "no",
           inFlight' # "no" => IsStream
    PROVE  PlaceOK' /\ RequestOK'
<1>1. IInv /\ PlaceOK /\ RequestOK
  BY DEF HInv
<1>2. PlaceOK'
  BY <1>1, StartFacts DEF PlaceOK, OneResponse, IsStream, HandleTypes
<1>3. RequestOK'
  BY <1>1, StartFacts DEF RequestOK
<1> QED BY <1>2, <1>3

(* The engine is left alone. *)
LEMMA AloneStep ==
    ASSUME HInv, UNCHANGED engine, shape' = shape, HandleTypes',
           handle' = "new" => handle = "new" /\ await' = await /\ inFlight' = inFlight,
           requests' = requests, handle # "new",
           await' # "none" => await' = await /\ handle' = handle /\ inFlight' = "no",
           inFlight' # "no" => IsStream
    PROVE  PlaceOK' /\ RequestOK'
<1>1. PlaceOK /\ RequestOK
  BY DEF HInv
<1>2. /\ op' = op /\ inner' = inner /\ accepted' = accepted /\ fired' = fired
      /\ eos' = eos /\ fullDuplex' = fullDuplex /\ initError' = initError
  BY DEF engine, vars, request, control, pending
<1>3. PlaceOK'
  BY <1>1, <1>2 DEF PlaceOK, OneResponse, IsStream
<1>4. RequestOK'
  BY <1>1, <1>2 DEF RequestOK, Unsendable
<1> QED BY <1>3, <1>4

(* Making the handle buffers the request of a one-request call. *)
LEMMA ConstructStep == ASSUME HInv, Construct PROVE PlaceOK' /\ RequestOK'
<1>1. /\ handle = "new" /\ handle' = "held" /\ shape' = shape /\ op = Idle
      /\ inner = "Pending" /\ accepted = <<>> /\ await' = "none" /\ inFlight' = "no"
      /\ requests' = (shape = "client_streaming") /\ fullDuplex = (shape = "bidi")
      /\ fired = <<>>
  BY DEF HInv, PlaceOK, Construct, future
<1>2. CASE shape \in {"unary", "server_streaming"}
  <2>1. PICK m \in Requests : BufferRequest(m)
    BY <1>2 DEF Construct
  <2>2. /\ inner' = inner /\ op' = op /\ fullDuplex' = fullDuplex /\ fired' = fired
        /\ \/ accepted' = <<m>>
           \/ accepted' = <<>> /\ initError' # "none"
    BY <1>1, <2>1 DEF BufferRequest, control, request
  <2>3. Len(accepted') = 1 \/ Unsendable'
    BY <1>1, <2>2 DEF Unsendable
  <2> QED BY <1>1, <1>2, <2>2, <2>3 DEF PlaceOK, RequestOK
<1>3. CASE shape \notin {"unary", "server_streaming"}
  <2>1. UNCHANGED engine
    BY <1>3 DEF Construct
  <2>2. inner' = inner /\ op' = op /\ fullDuplex' = fullDuplex /\ fired' = fired
    BY <2>1 DEF engine, vars, control, request
  <2> QED BY <1>1, <1>3, <2>2 DEF PlaceOK, RequestOK
<1> QED BY <1>2, <1>3

(* The builders. *)
LEMMA WithStep == ASSUME HInv, With PROVE PlaceOK' /\ RequestOK'
<1>1. /\ UNCHANGED handleVars /\ op' = op /\ inner' = inner /\ accepted' = accepted
      /\ fired' = fired /\ eos' = eos /\ fullDuplex' = fullDuplex
      /\ initError' \in {initError, "InvalidArgument"}
  BY DEF With, AddInvalidMetadata, SetDeadline, request, control, pending
<1>2. PlaceOK /\ RequestOK
  BY DEF HInv
<1> QED BY <1>1, <1>2 DEF PlaceOK, RequestOK, Unsendable, handleVars, OneResponse,
           IsStream

(* send, live or before the call has fired. *)
LEMMA SendFacts ==
    ASSUME HInv, NEW m \in Requests, Send(m)
    PROVE  /\ fullDuplex' = fullDuplex /\ inner' = inner /\ fired' = fired
           /\ eos' = eos /\ (inner = "Pending" => op' = Idle)
BY DEF Send, request, control, Return

(* The methods of the streaming handles. *)
LEMMA MethodStep == ASSUME HInv, IInv', Method PROVE PlaceOK' /\ RequestOK'
<1>1. /\ AtRest /\ UNCHANGED handleVars /\ shape' = shape /\ handle' = handle
      /\ await' = await /\ requests' = requests /\ inFlight' = inFlight
      /\ await = "none" /\ handle = "held" /\ inFlight = "no"
  BY DEF Method, AtRest, handleVars, future
<1>2. IsStream /\ ~requests
  BY DEF Method, HInv, RequestOK, IsStream
<1>3. HandleTypes'
  BY <1>1 DEF HInv, HandleTypes, handleVars, answer
<1>4. CASE Recv \/ CloseSend
  BY <1>1, <1>2, <1>3, <1>4, StartStep
<1>5. CASE shape = "bidi" /\ \E m \in Requests : Send(m)
  <2>1. fullDuplex' = fullDuplex /\ inner' = inner
    BY <1>5, SendFacts
  <2> QED BY <1>1, <1>2, <1>5, <2>1 DEF HInv, PlaceOK, RequestOK, IsStream, OneResponse
<1> QED BY <1>4, <1>5 DEF Method

(* The steps of an .await. *)
LEMMA AwaitStep ==
    ASSUME HInv, IInv', HandleTypes',
           AwaitUnary \/ SourceYields \/ SourceEnds \/ AwaitHead \/ DropAwait
    PROVE  PlaceOK' /\ RequestOK'
<1>1. PlaceOK /\ RequestOK
  BY DEF HInv
<1>2. CASE AwaitUnary
  <2>1. CASE requests
    <3>1. /\ UNCHANGED engine /\ shape' = shape /\ handle' = handle /\ handle = "held"
          /\ await' = "drain" /\ ~requests' /\ inFlight' = "no" /\ OneResponse
      BY <1>2, <2>1 DEF AwaitUnary, AtRest
    <3>2. /\ op' = op /\ inner' = inner /\ accepted' = accepted /\ fired' = fired
          /\ eos' = eos /\ fullDuplex' = fullDuplex
      BY <3>1 DEF engine, vars, request, control
    <3> QED BY <1>1, <2>1, <3>1, <3>2 DEF PlaceOK, RequestOK, OneResponse
  <2>2. CASE ~requests
    BY <1>2, <2>2, StartStep DEF AwaitUnary, AtRest
  <2> QED BY <2>1, <2>2
<1>3. CASE SourceYields
  <2>1. PICK m \in Requests : Send(m)
    BY <1>3 DEF SourceYields
  <2>2. /\ shape = "client_streaming" /\ inner = "Pending" /\ handle = "held"
        /\ shape' = shape /\ requests' = requests /\ inFlight' = "no"
        /\ await' \in {"drain", "none"}
        /\ await' # "none" => handle' = "held"
        /\ handle' # "new" /\ ~requests
    BY <1>1, <1>3 DEF SourceYields, PlaceOK, RequestOK
  <2>3. fullDuplex' = fullDuplex /\ inner' = inner /\ op' = Idle /\ fired' = fired
        /\ eos' = eos
    BY <2>1, <2>2, SendFacts
  <2> QED BY <1>1, <2>2, <2>3 DEF PlaceOK, RequestOK, OneResponse, IsStream
<1>4. CASE SourceEnds
  <2>1. /\ CloseSend /\ await' = "close" /\ shape' = shape /\ handle' = handle
        /\ requests' = requests /\ inFlight' = inFlight /\ await = "drain"
    BY <1>4 DEF SourceEnds
  <2>2. handle = "held" /\ inFlight = "no" /\ OneResponse
    BY <1>1, <2>1 DEF PlaceOK
  <2>3. ~requests
    BY <1>1, <2>1 DEF RequestOK
  <2> QED BY <2>1, <2>2, <2>3, StartStep
<1>5. CASE AwaitHead
  <2>1. /\ OpenHead /\ await' = "head" /\ shape' = shape /\ handle' = handle
        /\ requests' = requests /\ inFlight' = inFlight
        /\ handle = "held" /\ inFlight = "no" /\ shape = "server_streaming"
    BY <1>5 DEF AwaitHead, AtRest
  <2>2. ~requests
    BY <1>1, <2>1 DEF RequestOK
  <2> QED BY <2>1, <2>2, StartStep
<1>6. CASE DropAwait
  <2>1. handle = "held" /\ inFlight = "no"
    BY <1>1, <1>6 DEF DropAwait, PlaceOK
  <2> QED BY <1>6, <2>1, AloneStep DEF DropAwait
<1> QED BY <1>2, <1>3, <1>4, <1>5, <1>6

(* What the handle does of itself once an engine call has returned. *)
LEMMA GoOnStep ==
    ASSUME HInv, IInv', HandleTypes', Continue PROVE PlaceOK' /\ RequestOK'
<1>1. PlaceOK /\ RequestOK
  BY DEF HInv
<1>2. /\ await # "none" /\ shape' = shape /\ requests' = requests
      /\ inFlight' = inFlight
  BY DEF Continue, AfterCloseSend, AfterFirstRecv, AfterSecondRecv, AfterHead
<1>3. handle = "held" /\ inFlight = "no" /\ ~requests
  BY <1>1, <1>2 DEF PlaceOK, RequestOK
<1>4. CASE Recv /\ handle' = handle /\ await' \in {"first", "second"}
  <2>1. OneResponse
    BY <1>1, <1>4 DEF Continue, AfterCloseSend, AfterFirstRecv, AfterSecondRecv,
       AfterHead, Fails, Answer, PlaceOK
  <2> QED BY <1>2, <1>3, <1>4, <2>1, StartStep
<1>5. CASE UNCHANGED engine /\ await' = "none" /\ handle' \in {handle, "gone"}
  BY <1>2, <1>3, <1>5, AloneStep
<1>6. \/ Recv /\ handle' = handle /\ await' \in {"first", "second"}
      \/ UNCHANGED engine /\ await' = "none" /\ handle' \in {handle, "gone"}
  BY DEF Continue, AfterCloseSend, AfterFirstRecv, AfterSecondRecv, AfterHead, Answer,
     Fails
<1> QED BY <1>4, <1>5, <1>6

(* next(), polled first, dropped, or found without its engine. *)
LEMMA NextItemStep ==
    ASSUME HInv, IInv', HandleTypes', PollNext \/ DropNext \/ WithoutEngine
    PROVE  PlaceOK' /\ RequestOK'
<1>1. PlaceOK /\ RequestOK
  BY DEF HInv
<1>2. CASE PollNext
  <2>1. /\ handle = "held" /\ handle' = handle /\ await = "none" /\ await' = await
        /\ IsStream /\ shape' = shape /\ requests' = requests
    BY <1>2 DEF PollNext
  <2>2. ~requests
    BY <1>1, <2>1 DEF RequestOK, IsStream
  <2>3. CASE Recv
    BY <2>1, <2>2, <2>3, StartStep
  <2>4. CASE UNCHANGED engine
    BY <2>1, <2>4, AloneStep
  <2> QED BY <1>2, <2>3, <2>4 DEF PollNext
<1>3. CASE DropNext
  BY <1>1, <1>3, AloneStep DEF DropNext, PlaceOK
<1>4. CASE WithoutEngine
  BY <1>1, <1>4, AloneStep DEF WithoutEngine, PlaceOK, future
<1> QED BY <1>2, <1>3, <1>4

(* A poll of the engine call under way. *)
LEMMA PolledStep ==
    ASSUME HInv, IInv', Polled(Poll) \/ Polled(Transport)
    PROVE  PlaceOK' /\ RequestOK'
<1>1. IInv /\ PlaceOK /\ RequestOK
  BY DEF HInv
<1>2. /\ handle = "held" /\ handle' = handle /\ shape' = shape /\ await' = await
      /\ requests' = requests /\ inFlight' \in {"no", inFlight}
      /\ Poll \/ Transport
  BY DEF Polled
<1>3. /\ op # Idle /\ fullDuplex' = fullDuplex
      /\ inner' = "Duplex" => inner = "Duplex" \/ fullDuplex
      /\ inner # "Duplex" => /\ accepted' = accepted
                             /\ \/ fired' = fired /\ eos' = eos
                                \/ fullDuplex \/ eos'
  BY <1>1, <1>2, PollFacts
<1>4. PlaceOK'
  BY <1>1, <1>2, <1>3 DEF PlaceOK, OneResponse, IsStream
<1>5. CASE shape = "bidi"
  BY <1>1, <1>2, <1>3, <1>4, <1>5 DEF RequestOK
<1>6. CASE shape # "bidi"
  <2>1. inner # "Duplex" /\ ~fullDuplex
    BY <1>1, <1>6 DEF PlaceOK
  <2>2. accepted' = accepted
    BY <1>3, <2>1
  <2>3. fired' # <<>> => eos'
    BY <1>1, <1>3, <1>6, <2>1 DEF RequestOK
  <2>4. ~Unsendable /\ ~requests /\ await # "drain"
    BY <1>1, <1>3 DEF Unsendable, RequestOK
  <2> QED BY <1>1, <1>2, <1>4, <2>2, <2>3, <2>4 DEF RequestOK
<1> QED BY <1>5, <1>6

(* Time, the peer and the stream. *)
LEMMA WorldStep == ASSUME HInv, World PROVE PlaceOK' /\ RequestOK'
<1>1. /\ UNCHANGED handleVars /\ op' = op /\ inner' = inner /\ accepted' = accepted
      /\ fired' = fired /\ eos' = eos /\ fullDuplex' = fullDuplex
      /\ initError' = initError
  BY DEF World, Cancel, DeadlinePasses, Peer, PeerSends, PeerHead, PeerItem, PeerEnd,
     StreamBreaks, request, control, pending
<1>2. PlaceOK /\ RequestOK
  BY DEF HInv
<1> QED BY <1>1, <1>2 DEF PlaceOK, RequestOK, Unsendable, handleVars, OneResponse,
           IsStream

(* The future of a method is dropped. *)
LEMMA DropMethodStep ==
    ASSUME HInv, DropMethod PROVE PlaceOK' /\ RequestOK'
<1>1. PlaceOK /\ RequestOK
  BY DEF HInv
<1>2. /\ op # Idle /\ op' = Idle /\ handle = "held" /\ handle' = handle
      /\ shape' = shape /\ await' = await /\ inFlight' = inFlight
      /\ requests' = requests /\ await = "none" /\ inFlight = "no"
      /\ UNCHANGED <<inner, accepted, fired, eos, fullDuplex>>
  BY DropsACall DEF DropMethod, DropCall, Return, future, control
<1>3. ~Unsendable /\ ~requests
  BY <1>1, <1>2 DEF Unsendable, RequestOK
<1> QED BY <1>1, <1>2, <1>3 DEF PlaceOK, RequestOK

(* The invariant is inductive. *)
LEMMA TypedStepHInv ==
    ASSUME AbortedIsThePeers
    PROVE  HInv /\ [TypedNext]_typedVars => HInv'
<1> SUFFICES ASSUME HInv, [TypedNext]_typedVars PROVE HInv'
  OBVIOUS
<1>1. IInv'
  BY TypedStepStep, StepIInv DEF HInv
<1>2. CASE TypedNext
  <2>1. HandleTypes'
    BY <1>2, HandleTypesStep
  <2>2. PlaceOK' /\ RequestOK'
    BY <1>1, <1>2, <2>1, ConstructStep, WithStep, MethodStep, AwaitStep, GoOnStep,
       NextItemStep, PolledStep, WorldStep, DropMethodStep DEF TypedNext
  <2> QED BY <1>1, <2>1, <2>2 DEF HInv
<1>3. CASE UNCHANGED typedVars
  <2>1. HandleTypes'
    BY <1>3 DEF HInv, HandleTypes, typedVars, handleVars
  <2>2. PlaceOK' /\ RequestOK'
    BY <1>3 DEF HInv, PlaceOK, RequestOK, Unsendable, typedVars, handleVars, engine,
       vars, request, control, pending, OneResponse, IsStream
  <2> QED BY <1>1, <2>1, <2>2 DEF HInv
<1> QED BY <1>2, <1>3

-----------------------------------------------------------------------------
(* What recv has told a call of one response, at every point of its .await. *)
Unanswered == outcome = "none" /\ delivered = 0

WhileHeld ==
    OneResponse /\ handle \in {"new", "held"} =>
        /\ await \in {"none", "drain"} => op = Idle
        /\ await # "none" => verdict = "none"
        /\ await \in {"none", "drain"} /\ verdict = "none" => Unanswered
        /\ await = "close" => Unanswered /\ op.call # "recv"
        /\ await = "first" /\ op # Idle => Unanswered
        /\ await = "first" /\ op = Idle /\ result = "Message" =>
               outcome = "none" /\ delivered = 1
        /\ await = "second" /\ op # Idle => outcome = "none" /\ delivered = 1
        /\ await = "second" /\ op = Idle /\ result = "None" =>
               outcome = "None" /\ delivered = 1

OnceOK ==
    verdict = "OK" => /\ OneResponse /\ op = Idle /\ await = "none"
                      /\ outcome = "None" /\ delivered = 1

AnswerOK == WhileHeld /\ OnceOK

(* Closing the request side answers nothing. *)
LEMMA CloseSendAnswer ==
    ASSUME IInv, CloseSend
    PROVE  delivered' = delivered /\ outcome' = outcome /\ op'.call # "recv"
<1>1. delivered' = delivered /\ outcome' = outcome
  BY DEF CloseSend, Materialize, Fail, Return, Await
<1>2. op' = Idle \/ op'.call = "close_send"
  BY DEF CloseSend, Materialize, Fail, Return, Await, Calling
<1> QED BY <1>1, <1>2, IdleFields

(* What recv answers without an await: an error, or the end once more. *)
LEMMA RecvAnswer ==
    ASSUME IInv, Recv
    PROVE  /\ delivered' = delivered
           /\ op' # Idle => outcome' = outcome
           /\ op' = Idle => result' # "Message"
           /\ op' = Idle /\ result' = "None" /\ outcome = "none" => outcome' = "None"
<1>1. /\ initError \in {"none", "InvalidArgument", "Internal"}
      /\ inner = "Failed" => failed \in Errors
  BY DEF IInv, TypeOK, HonestOK
<1>2. "Message" \notin Errors /\ "None" \notin Errors
  BY DEF Errors
<1>3. delivered' = delivered /\ (op' # Idle => outcome' = outcome)
  BY DEF Recv, Materialize, Fail, Return, Await
<1>4. ASSUME NEW call, NEW stage, NEW data, Await(call, stage, data), stage # "none"
      PROVE  op' # Idle
  BY <1>4 DEF Await, Calling, Idle
<1>5. op' = Idle => result' # "Message"
  BY <1>1, <1>2, <1>4 DEF Recv, Materialize, Fail, Return
<1>6. ASSUME op' = Idle, result' = "None", outcome = "none" PROVE outcome' = "None"
  BY <1>4, <1>6 DEF Recv, Materialize, Fail, Return, Told
<1> QED BY <1>3, <1>5, <1>6

(* What a poll of a call answers. *)
LEMMA PollAnswer ==
    ASSUME IInv, Poll \/ Transport
    PROVE  /\ op # Idle
           /\ op.call # "recv" =>
                  delivered' = delivered /\ outcome' = outcome /\ op'.call # "recv"
           /\ op' # Idle => delivered' = delivered /\ outcome' = outcome
           /\ op' = Idle /\ result' = "Message" =>
                  delivered' = delivered + 1 /\ outcome' = outcome
           /\ op' = Idle /\ result' = "None" /\ outcome = "none" =>
                  delivered' = delivered /\ outcome' = "None"
<1>1. op # Idle
  BY PollFacts
<1>2. "Message" \notin Errors /\ "None" \notin Errors /\ RaceError \in Errors
  BY DEF Errors, RaceError
<1>3. CASE RaceLost \/ WriteError \/ CloseError \/ HeadError
  BY <1>1, <1>2, <1>3, IdleFields DEF RaceLost, WriteError, CloseError, HeadError, Fail,
     Return, Errors
<1>4. CASE FireRequest \/ Suspend \/ WriteSome
  <2>1. op'.call = op.call /\ op'.stage # "none" /\ op' # Idle
    BY <1>4, IdleFields DEF FireRequest, Suspend, WriteSome, IInv, TypeOK
  <2>2. delivered' = delivered /\ outcome' = outcome
    BY <1>4 DEF FireRequest, Suspend, WriteSome
  <2> QED BY <1>1, <2>1, <2>2
<1>5. CASE WriteDone \/ CloseDone
  BY <1>1, <1>5, IdleFields DEF WriteDone, CloseDone, Return
<1>6. CASE ReadItem
  <2>1. op.call = "recv" /\ op' = Idle
    BY <1>6 DEF ReadItem, IInv, OpOK, Return
  <2>2. result' = "Message" => delivered' = delivered + 1 /\ outcome' = outcome
    BY <1>6 DEF ReadItem, Return
  <2>3. result' # "None"
    <3>1. resp[consumed + 1] \in Items
      BY <1>6 DEF ReadItem, IInv, TypeOK
    <3>2. result' \in {"Message", "Internal", resp[consumed + 1]}
      BY <1>6 DEF ReadItem, Return
    <3> QED BY <1>2, <3>1, <3>2, PeerAssumption DEF Errors
  <2> QED BY <1>1, <2>1, <2>2, <2>3
<1>7. CASE ReadEnd \/ ReadError
  <2>1. op.call = "recv" /\ op' = Idle /\ delivered' = delivered
    BY <1>7 DEF ReadEnd, ReadError, IInv, OpOK, Return
  <2>2. result' # "Message"
    BY <1>7 DEF ReadEnd, ReadError, Return, FinalStatus, Statuses, Errors
  <2>3. result' = "None" /\ outcome = "none" => outcome' = "None"
    BY <1>7 DEF ReadEnd, ReadError, Return, Told
  <2> QED BY <1>1, <2>1, <2>2, <2>3
<1>8. CASE HeadArrives
  <2>1. HeadVerdict(head) \in {"OK"} \cup Errors
    BY DEF HeadVerdict, HttpCode, Errors
  <2>2. ASSUME NEW call, NEW stage, NEW data, Await(call, stage, data), stage # "none"
        PROVE  op' # Idle /\ op'.call = call
    BY <2>2 DEF Await, Calling, Idle
  <2>3. delivered' = delivered
    BY <1>8 DEF HeadArrives
  <2>4. result' # "Message" \/ op' # Idle
    BY <1>2, <1>8, <2>1, <2>2 DEF HeadArrives, Fail, Return
  <2>5. op' # Idle => outcome' = outcome
    BY <1>8 DEF HeadArrives, Fail, Return, Await
  <2>6. op' = Idle => result' # "None"
    BY <1>2, <1>8, <2>1, <2>2 DEF HeadArrives, Fail, Return
  <2>7. op.call # "recv" => outcome' = outcome /\ op'.call # "recv"
    BY <1>8, <2>2, IdleFields DEF HeadArrives, Fail, Return, Await
  <2> QED BY <1>1, <2>3, <2>4, <2>5, <2>6, <2>7
<1> QED BY <1>3, <1>4, <1>5, <1>6, <1>7, <1>8 DEF Poll, Transport

(* The first answer stands: each action of a handle keeps what recv has told. *)
LEMMA AnswerStep ==
    ASSUME HInv, ~MayReawait, AnswerOK, TypedNext
    PROVE  AnswerOK'
<1>1. IInv /\ HandleTypes /\ PlaceOK /\ RequestOK /\ WhileHeld /\ OnceOK
  BY DEF HInv, AnswerOK
<1>2. CASE Construct
  <2>1. /\ shape' = shape /\ op' = op /\ outcome' = outcome /\ delivered' = delivered
        /\ await' = await /\ verdict' = verdict /\ handle = "new" /\ await = "none"
    BY <1>1, <1>2 DEF Construct, BufferRequest, engine, vars, future, answer, PlaceOK
  <2> QED BY <1>1, <2>1 DEF AnswerOK, WhileHeld, OnceOK, OneResponse, Unanswered
<1>3. CASE With \/ World
  <2>1. /\ UNCHANGED handleVars /\ op' = op /\ outcome' = outcome
        /\ delivered' = delivered /\ result' = result
    BY <1>3 DEF With, AddInvalidMetadata, SetDeadline, World, Cancel, DeadlinePasses,
       Peer, PeerSends, PeerHead, PeerItem, PeerEnd, StreamBreaks
  <2> QED BY <1>1, <2>1 DEF AnswerOK, WhileHeld, OnceOK, OneResponse, Unanswered,
             handleVars
<1>4. CASE Method \/ DropMethod \/ PollNext \/ AwaitHead \/ AfterHead
  <2>1. ~OneResponse /\ shape' = shape /\ verdict' = verdict
    BY <1>1, <1>4, DropsACall DEF Method, DropMethod, WhileHeld, PollNext, AwaitHead,
       AfterHead, Fails, IsStream, OneResponse, PlaceOK, handleVars, answer
  <2> QED BY <1>1, <2>1 DEF AnswerOK, WhileHeld, OnceOK, OneResponse
<1>5. CASE DropNext \/ WithoutEngine
  <2>1. /\ shape' = shape /\ verdict' = verdict /\ IsStream
    BY <1>1, <1>5 DEF DropNext, WithoutEngine, PlaceOK, answer
  <2> QED BY <1>1, <2>1 DEF AnswerOK, WhileHeld, OnceOK, OneResponse, IsStream
<1>6. CASE DropAwait
  <2>1. shape' = shape /\ verdict' = verdict /\ await # "none" /\ handle' = "gone"
    BY <1>6 DEF DropAwait, answer
  <2> QED BY <1>1, <2>1 DEF AnswerOK, WhileHeld, OnceOK
<1>7. CASE AwaitUnary
  <2>1. /\ shape' = shape /\ verdict' = verdict /\ verdict = "none" /\ handle = "held"
        /\ handle' = handle /\ await = "none" /\ OneResponse /\ op = Idle
        /\ \/ await' = "drain" /\ UNCHANGED engine
           \/ await' = "close" /\ CloseSend
    BY <1>7 DEF AwaitUnary, AtRest, answer
  <2>2. Unanswered /\ Unanswered'
    BY <1>1, <2>1, CloseSendAnswer DEF WhileHeld, Unanswered, engine, vars
  <2>3. await' = "drain" => op' = Idle
    BY <2>1 DEF engine, vars
  <2>4. await' = "close" => op'.call # "recv"
    BY <1>1, <2>1, CloseSendAnswer
  <2> QED BY <2>1, <2>2, <2>3, <2>4 DEF AnswerOK, WhileHeld, OnceOK
<1>8. CASE SourceYields
  <2>1. PICK m \in Requests : Send(m)
    BY <1>8 DEF SourceYields
  <2>2. /\ await = "drain" /\ handle = "held" /\ OneResponse /\ inner = "Pending"
        /\ shape' = shape /\ verdict' = verdict /\ await' \in {"drain", "none"}
    BY <1>1, <1>8 DEF SourceYields, PlaceOK, RequestOK, answer
  <2>3. /\ op' = Idle /\ outcome' = outcome /\ delivered' = delivered
    BY <2>1, <2>2 DEF Send, Return
  <2> QED BY <1>1, <2>2, <2>3 DEF AnswerOK, WhileHeld, OnceOK, Unanswered
<1>9. CASE SourceEnds
  <2>1. /\ await = "drain" /\ await' = "close" /\ CloseSend /\ shape' = shape
        /\ handle' = handle /\ handle = "held" /\ OneResponse /\ verdict' = verdict
    BY <1>1, <1>9 DEF SourceEnds, PlaceOK, answer
  <2>2. Unanswered' /\ op'.call # "recv"
    BY <1>1, <2>1, CloseSendAnswer DEF WhileHeld, Unanswered
  <2> QED BY <1>1, <2>1, <2>2 DEF AnswerOK, WhileHeld, OnceOK
<1>10. CASE AfterCloseSend
  <2>1. /\ await = "close" /\ handle = "held" /\ OneResponse /\ verdict = "none"
        /\ shape' = shape /\ verdict' = verdict
        /\ \/ await' = "first" /\ Recv /\ handle' = handle
           \/ await' = "none" /\ handle' = "gone"
    BY <1>1, <1>10 DEF AfterCloseSend, Fails, PlaceOK, WhileHeld, answer
  <2>2. CASE await' = "first" /\ Recv
    BY <1>1, <2>1, <2>2, RecvAnswer DEF AnswerOK, WhileHeld, OnceOK, Unanswered
  <2> QED BY <2>1, <2>2 DEF AnswerOK, WhileHeld, OnceOK
<1>11. CASE AfterFirstRecv
  <2>1. /\ await = "first" /\ op = Idle /\ handle = "held" /\ OneResponse
        /\ verdict = "none" /\ shape' = shape /\ handle' = handle
    BY <1>1, <1>11 DEF AfterFirstRecv, PlaceOK, WhileHeld
  <2>2. CASE result = "Message" /\ await' = "second" /\ Recv /\ UNCHANGED answer
    BY <1>1, <2>1, <2>2, RecvAnswer DEF AnswerOK, WhileHeld, OnceOK, Unanswered, answer
  <2>3. CASE await' = "none" /\ verdict' \in Errors /\ UNCHANGED engine
    BY <2>1, <2>3 DEF AnswerOK, WhileHeld, OnceOK, engine, vars, Errors
  <2> QED BY <1>11, <2>2, <2>3 DEF AfterFirstRecv, Answer, Errors
<1>12. CASE AfterSecondRecv
  <2>1. /\ await = "second" /\ op = Idle /\ handle = "held" /\ OneResponse
        /\ shape' = shape /\ handle' = handle /\ await' = "none" /\ UNCHANGED engine
        /\ verdict' = "OK" => result = "None"
        /\ verdict' # "none"
    BY <1>1, <1>12 DEF AfterSecondRecv, PlaceOK, Answer, Errors
  <2> QED BY <1>1, <2>1 DEF AnswerOK, WhileHeld, OnceOK, OneResponse, engine, vars
<1>13. CASE Polled(Poll) \/ Polled(Transport)
  <2>1. /\ shape' = shape /\ handle' = handle /\ await' = await /\ verdict' = verdict
        /\ Poll \/ Transport
    BY <1>13 DEF Polled, answer
  <2> QED BY <1>1, <2>1, PollAnswer DEF AnswerOK, WhileHeld, OnceOK, OneResponse,
             Unanswered, HandleTypes, IInv, TypeOK
<1> QED BY <1>2, <1>3, <1>4, <1>5, <1>6, <1>7, <1>8, <1>9, <1>10, <1>11, <1>12, <1>13
           DEF TypedNext, Continue

-----------------------------------------------------------------------------
(* Everything a handle does is a behaviour of the engine it holds: whatever is
   proved of an engine that any caller drives holds of the one in a handle.   *)
THEOREM HandlesDriveTheEngine == TypedSpec => Init /\ [][Next]_vars
BY TypedInitInit, TypedStepStep, PTL DEF TypedSpec

(* The invariant holds of every handle, whatever futures its caller drops and
   however it moves the deadline.                                             *)
THEOREM TypedInvariantHolds == ASSUME AbortedIsThePeers PROVE TypedSpec => []HInv
BY TypedInitHInv, TypedStepHInv, PTL DEF TypedSpec

(* Type correctness of the handles. *)
THEOREM HandleTypesCorrect ==
    ASSUME AbortedIsThePeers PROVE TypedSpec => []HandleTypeOK
<1>1. HInv => HandleTypeOK
  BY DEF HInv, IInv, HandleTypes, HandleTypeOK
<1> QED BY <1>1, TypedInvariantHolds, PTL

(* Every handle puts one request on the wire, and in it exactly what its shape
   of call takes, closed unless it is live: a next() that is dropped and taken
   up again and an .await that drains a stream first included; the future of a
   method that is dropped while it waits for the head is the only way to another.  *)
THEOREM RequestsFitTheirShape ==
    ASSUME AbortedIsThePeers PROVE TypedSpec => []RequestFitsShape
<1>1. HInv /\ WholeOK => RequestFitsShape
  <2> SUFFICES ASSUME HInv, Whole, fired # <<>>
               PROVE  /\ fired = <<accepted>>
                      /\ shape \in {"unary", "server_streaming"} => Len(accepted) = 1
                      /\ shape # "bidi" => eos
                      /\ ~requests /\ await # "drain"
    BY DEF RequestFitsShape, WholeOK
  <2>1. ~(inner = "Pending" /\ op = Idle) /\ fired = <<accepted>>
    BY DEF Whole
  <2>2. handle # "new" /\ ~requests /\ await # "drain" /\ ~Unsendable
    BY <2>1 DEF HInv, PlaceOK, RequestOK, Unsendable
  <2> QED BY <2>1, <2>2 DEF HInv, RequestOK
<1>2. TypedInit => WholeOK
  BY IdleFields, TypedInitInit DEF Init, Whole, WholeOK
<1>3. HInv /\ WholeOK /\ [TypedNext]_typedVars => WholeOK'
  <2> SUFFICES ASSUME IInv, WholeOK, [TypedNext]_typedVars, ~dropped' PROVE Whole'
    BY DEF HInv, WholeOK
  <2>1. ~dropped /\ Undropped
    BY UndroppedStep
  <2> QED BY <2>1, WholeStep DEF WholeOK
<1> QED BY <1>1, <1>2, <1>3, TypedInvariantHolds, PTL DEF TypedSpec

(* A unary or a client-streaming call that hands its caller a message has read
   a response of one message that the peer ended with OK, as long as no UnaryConn
   is awaited a second time.                                                  *)
THEOREM OneResponseForOneCall ==
    ASSUME AbortedIsThePeers, ~MayReawait
    PROVE  TypedSpec => []OneResponseVerdict
<1>1. TypedInit => AnswerOK
  BY DEF TypedInit, Init, AnswerOK, WhileHeld, OnceOK, Unanswered
<1>2. HInv /\ AnswerOK /\ [TypedNext]_typedVars => AnswerOK'
  <2> SUFFICES ASSUME HInv, AnswerOK, UNCHANGED typedVars PROVE AnswerOK'
    BY AnswerStep
  <2> QED BY DEF AnswerOK, WhileHeld, OnceOK, Unanswered, OneResponse, typedVars,
             handleVars, engine, vars
<1>3. HInv /\ AnswerOK => OneResponseVerdict
  <2> SUFFICES ASSUME HInv, AnswerOK, IntoMessage = "Message" PROVE OneResponseVerdict
    BY DEF OneResponseVerdict
  <2>1. verdict = "OK"
    BY DEF IntoMessage, HInv, HandleTypes, Errors
  <2>2. outcome = "None" /\ delivered = 1
    BY <2>1 DEF AnswerOK, OnceOK
  <2>3. trailer # "open" /\ FinalStatus = "OK" /\ delivered = Len(resp)
    BY <2>2 DEF HInv, IInv, HonestOK, HonestOutcome
  <2> QED BY <2>2, <2>3 DEF OneResponseVerdict
<1> QED BY <1>1, <1>2, <1>3, TypedInvariantHolds, PTL DEF TypedSpec

(* The engine keeps the promise of Received in a handle too: an .await or a next()
   that is dropped hands nothing over twice and says nothing of its own, nor does a
   method's future, unless it is dropped while it awaits the head.            *)
THEOREM HandlesKeepThePromise ==
    ASSUME OpensOnce, ~MayRearm, AbortedIsThePeers PROVE TypedSpec => KeepsPromise
<1>1. TypedInit => Promised!Start /\ PeerOK /\ Whole
  BY TypedInitInit, InitPromise, IdleFields DEF Init, Whole
<1>2. HInv /\ Whole /\ PeerOK /\ [TypedNext]_typedVars =>
          Whole' /\ PeerOK' /\ [Promised!Step]_(Promised!receivedVars)
  <2> SUFFICES ASSUME IInv, Whole, PeerOK, [Next]_vars
               PROVE  Whole' /\ PeerOK' /\ [Promised!Step]_(Promised!receivedVars)
    BY TypedStepStep DEF HInv
  <2> QED BY WholeNext, PromiseStep
<1> QED BY <1>1, <1>2, TypedInvariantHolds, PTL
           DEF TypedSpec, KeepsPromise, Promised!ReceivedSpec

-----------------------------------------------------------------------------
(* What recv shows with a status: the head's metadata, and trailers. *)
Shown == headers = "head" /\ trailers \in {"head", "wire"}

(* The engine answers with a status only the peer gives when both are there, and  *)
(* with a message only while it is live.                                        *)
EngineShows ==
    /\ KeptOK
    /\ resp \in Seq(Items) /\ consumed \in Nat
    /\ initError \in {"none", "InvalidArgument", "Internal"}
    /\ failed \notin {"Aborted", "Message"}
    /\ inner \in {"Reading", "Duplex"} => headers = "head"
    /\ result = "Message" => inner \in {"Reading", "Duplex"}
    /\ result = "Aborted" => Shown

(* The second recv of read_unary starts on a live engine, so that its None is the  *)
(* peer's OK, not the end of a response that was over before.                    *)
HandleShows ==
    /\ handle = "new" => await = "none"
    /\ await = "second" => op.stage = "read" \/ (op = Idle /\ (result = "None" => Shown))
    /\ verdict \in {"OK", "Aborted"} => Shown

(* The status at the end of a response is in its trailers or in its head.         *)
LEMMA EndShows ==
    ASSUME Finish(TRUE), FinalStatus \in {"OK", "Aborted"}
    PROVE  trailers' \in {"head", "wire"}
BY DEF Finish, FinalStatus, Statuses

(* The next response frame is one of Items, so neither Aborted nor None.          *)
LEMMA NextItem ==
    ASSUME EngineShows, AbortedIsThePeers, consumed < Len(resp)
    PROVE  resp[consumed + 1] \notin {"Aborted", "None"}
<1>1. resp[consumed + 1] \in Items
  BY DEF EngineShows
<1> QED BY <1>1, PeerAssumption DEF AbortedIsThePeers, Errors

(* Each step of the engine keeps EngineShows.                                    *)
LEMMA EngineShowsStep ==
    EngineShows /\ AbortedIsThePeers /\ [Next]_vars => EngineShows' /\ Keeps
<1> SUFFICES ASSUME EngineShows, AbortedIsThePeers, [Next]_vars
             PROVE  EngineShows' /\ Keeps
  OBVIOUS
<1>1. KeptOK' /\ Keeps
  BY KeptStep DEF EngineShows
<1> USE IdleFields, <1>1 DEF EngineShows, Shown, Keeps
<1>2. CASE \E m \in Requests : Send(m) \/ BufferRequest(m)
  BY <1>2 DEF Send, BufferRequest, Return, Await, peer
<1>3. CASE CloseSend \/ OpenHead \/ Recv
  BY <1>3 DEF CloseSend, OpenHead, Recv, Materialize, Fail, Return, Await, peer, pending,
     KeptOK
<1>4. CASE AddInvalidMetadata \/ SetDeadline \/ Cancel \/ DeadlinePasses \/ StreamBreaks
  BY <1>4 DEF AddInvalidMetadata, SetDeadline, Cancel, DeadlinePasses, StreamBreaks, peer,
     pending
<1>5. CASE Peer
  <2>1. resp' \in Seq(Items)
    BY <1>5 DEF Peer, PeerHead, PeerItem, PeerEnd
  <2> QED BY <1>5, <2>1 DEF Peer, PeerHead, PeerItem, PeerEnd, PeerSends, pending
<1>6. CASE RaceLost \/ HeadError \/ DropCall
  <2>1. RaceError \in {"Cancelled", "DeadlineExceeded"}
    BY DEF RaceError
  <2>2. CASE RaceLost
    BY <2>1, <2>2 DEF RaceLost, Fail, Return, peer, pending, KeptOK
  <2>3. CASE HeadError
    BY <2>3 DEF HeadError, Fail, Return, peer, pending, KeptOK
  <2>4. CASE DropCall
    BY <2>4 DEF DropCall, Return, peer, pending, KeptOK
  <2> QED BY <1>6, <2>2, <2>3, <2>4
<1>7. CASE HeadArrives
  BY <1>7, CodesTheClientMakes
     DEF HeadArrives, HeadVerdict, HttpCode, Fail, Return, Await, peer, pending
<1>8. CASE FireRequest \/ Suspend \/ WriteSome
  BY <1>8 DEF FireRequest, Suspend, WriteSome, peer, pending
<1>9. CASE WriteDone \/ WriteError \/ CloseDone \/ CloseError
  BY <1>9 DEF WriteDone, WriteError, CloseDone, CloseError, Return, peer, pending
<1>10. CASE ReadItem
  BY <1>10, NextItem DEF ReadItem, Finish, FinishEarly, Return, peer, pending, KeptOK
<1>11. CASE ReadEnd
  <2>1. FinalStatus = "Aborted" => trailers' \in {"head", "wire"}
    BY <1>11, EndShows DEF ReadEnd
  <2>2. FinalStatus # "Message"
    BY DEF FinalStatus, Statuses, Errors
  <2> QED BY <1>11, <2>1, <2>2 DEF ReadEnd, Finish, Return, peer, pending, KeptOK
<1>12. CASE ReadError
  BY <1>12 DEF ReadError, Finish, FinishEarly, Return, peer, pending
<1>13. CASE UNCHANGED vars
  BY <1>13 DEF vars, peer, pending
<1> QED
  BY <1>2, <1>3, <1>4, <1>5, <1>6, <1>7, <1>8, <1>9, <1>10, <1>11, <1>12, <1>13
     DEF Next, Calls, Poll, Transport

(* A poll of the second recv either goes on with it or ends it as HandleShows says. *)
LEMMA SecondPoll ==
    ASSUME EngineShows, AbortedIsThePeers, HandleShows, await = "second",
           Poll \/ Transport
    PROVE  op'.stage = "read" \/ (op' = Idle /\ (result' = "None" => Shown'))
<1>1. op.stage = "read"
  BY IdleFields DEF HandleShows, Poll, Transport, RaceLost, FireRequest, HeadError,
     HeadArrives, Suspend, WriteError, CloseError, ReadItem, ReadEnd, ReadError, WriteSome,
     WriteDone, CloseDone, Raced
<1>2. /\ "stage" \in DOMAIN op /\ headers = "head"
      /\ RaceLost \/ Suspend \/ ReadItem \/ ReadEnd \/ ReadError
  BY <1>1 DEF EngineShows, KeptOK, Poll, Transport, FireRequest, HeadError,
     HeadArrives, WriteError, CloseError, WriteSome, WriteDone, CloseDone
<1>3. CASE RaceLost
  BY <1>1, <1>3 DEF RaceLost, Return, RaceError
<1>4. CASE Suspend
  BY <1>1, <1>2, <1>4 DEF Suspend
<1>5. CASE ReadItem
  BY <1>5, NextItem DEF ReadItem, Return
<1>6. CASE ReadEnd
  <2>1. FinalStatus = "OK" => trailers' \in {"head", "wire"}
    BY <1>6, EndShows DEF ReadEnd
  <2>2. FinalStatus # "None"
    BY DEF FinalStatus, Statuses, Errors
  <2> QED BY <1>2, <1>6, <2>1, <2>2 DEF ReadEnd, Return, Shown
<1>7. CASE ReadError
  BY <1>7 DEF ReadError, Return
<1> QED BY <1>2, <1>3, <1>4, <1>5, <1>6, <1>7

(* Each action of a handle keeps HandleShows.                                    *)
LEMMA HandleShowsStep ==
    ASSUME EngineShows, AbortedIsThePeers, HandleShows, [TypedNext]_typedVars
    PROVE  HandleShows'
<1>0. Shown => Shown'
  BY TypedStepStep, EngineShowsStep DEF Keeps, Shown
<1>1. CASE Construct
  BY <1>0, <1>1 DEF HandleShows, Construct, future, answer
<1>2. CASE With \/ Method \/ DropMethod \/ PollNext
  BY <1>0, <1>2 DEF HandleShows, With, Method, AtRest, DropMethod, PollNext, handleVars,
     future, answer
<1>3. CASE AwaitUnary \/ SourceYields \/ SourceEnds \/ AwaitHead \/ DropAwait
  BY <1>0, <1>3 DEF HandleShows, AwaitUnary, AtRest, SourceYields, SourceEnds, AwaitHead,
     DropAwait, answer
<1>4. CASE AfterCloseSend \/ AfterHead
  BY <1>0, <1>4 DEF HandleShows, AfterCloseSend, AfterHead, Fails, answer
<1>5. CASE AfterFirstRecv
  <2>1. CASE result = "Message" /\ await' = "second" /\ Recv /\ UNCHANGED answer
    <3>1. op'.stage = "read"
      BY <2>1 DEF EngineShows, Recv, Materialize, Await, Calling
    <3> QED BY <1>0, <1>5, <2>1, <3>1 DEF HandleShows, AfterFirstRecv, answer
  <2>2. CASE result = "None" /\ Answer(FALSE, "Internal")
    BY <1>5, <2>2 DEF HandleShows, AfterFirstRecv, Answer
  <2>3. CASE result \in Errors /\ Answer(FALSE, result)
    BY <1>0, <1>5, <2>3 DEF HandleShows, AfterFirstRecv, Answer, EngineShows, Errors
  <2> QED BY <1>5, <2>1, <2>2, <2>3 DEF AfterFirstRecv
<1>6. CASE AfterSecondRecv
  <2>1. result = "None" => Shown
    BY <1>6, IdleFields DEF HandleShows, AfterSecondRecv
  <2> QED BY <1>0, <1>6, <2>1 DEF HandleShows, AfterSecondRecv, Answer, EngineShows, Errors
<1>7. CASE DropNext \/ WithoutEngine
  BY <1>0, <1>7 DEF HandleShows, DropNext, WithoutEngine, engine, vars, future, answer
<1>8. CASE Polled(Poll) \/ Polled(Transport)
  <2>1. /\ handle' = handle /\ await' = await /\ verdict' = verdict
        /\ Poll \/ Transport
    BY <1>8 DEF Polled, answer
  <2>2. await = "second" =>
            op'.stage = "read" \/ (op' = Idle /\ (result' = "None" => Shown'))
    BY <2>1, SecondPoll
  <2> QED BY <1>0, <2>1, <2>2 DEF HandleShows
<1>9. CASE World
  <2>1. UNCHANGED handleVars /\ op' = op /\ result' = result
    BY <1>9 DEF World, Cancel, DeadlinePasses, Peer, PeerSends, PeerHead, PeerItem,
       PeerEnd, StreamBreaks
  <2> QED BY <1>0, <2>1 DEF HandleShows, handleVars
<1>10. CASE UNCHANGED typedVars
  BY <1>0, <1>10 DEF HandleShows, typedVars, handleVars, engine, vars
<1> QED BY <1>1, <1>2, <1>3, <1>4, <1>5, <1>6, <1>7, <1>8, <1>9, <1>10
           DEF TypedNext, Continue

(* A unary or client-streaming call that ends with OK, or with a status only the  *)
(* peer can have given, has the head's metadata and the trailers to show for it,  *)
(* whatever futures are dropped and however often the UnaryConn is awaited.       *)
THEOREM AnswersComeWithMetadata ==
    ASSUME AbortedIsThePeers PROVE TypedSpec => []AnswerHasMetadata
<1>1. TypedInit => EngineShows /\ HandleShows
  BY IdleFields DEF TypedInit, Init, EngineShows, HandleShows, KeptOK, Idle
<1>2. EngineShows /\ HandleShows /\ [TypedNext]_typedVars =>
          EngineShows' /\ HandleShows'
  BY EngineShowsStep, HandleShowsStep, TypedStepStep
<1>3. HandleShows => AnswerHasMetadata
  BY DEF HandleShows, AnswerHasMetadata, Shown
<1> QED BY <1>1, <1>2, <1>3, PTL DEF TypedSpec
=============================================================================
