-------------------------- MODULE ClientConn_proofs --------------------------
(* Proofs about ClientConn, for every set of messages, heads, items and       *)
(* trailers, every bound and whatever transports.  What the documentation leaves  *)
(* to the caller is assumed only where it is needed: that it drops no call that  *)
(* awaits its head, no send with part of its frame written, and, ~MayRearm, that *)
(* it sets the deadline before the call fires.                                 *)
EXTENDS ClientConn, TLAPS

OpensOnce == "head" \notin Droppable

WellBehavedCaller == OpensOnce /\ "midwrite" \notin Droppable /\ ~MayRearm

(* "Aborted" stands for a status only the peer can report. *)
AbortedIsThePeers == "Aborted" \notin Items

(* At which await a call stands, and in which variant of Inner. *)
OpOK ==
    /\ op.stage = "none" <=> op = Idle
    /\ op.stage = "head" => inner = "Pending" /\ body = <<>>
    /\ op.stage = "head" => op.call \in {"recv", "close_send", "open_head"}
    /\ op.stage \in {"write", "midwrite"} => inner = "Duplex" /\ op.call = "send"
    /\ op.stage = "read" => inner \in {"Reading", "Duplex"} /\ op.call = "recv"
    /\ op.stage = "close" => inner = "Duplex" /\ op.call = "close_send"
    /\ op.stage = "midwrite" => ~op.fresh

(* A call that waits for its head, or has it, has fired. *)
FiredOK ==
    /\ op.stage = "head" /\ ~op.fresh => fired # <<>>
    /\ inner \in {"Reading", "Duplex"} => fired # <<>>

(* The messages accepted are in exactly one place: Pending.body, the future
   that fires the request, or the wire; as long as that future is not dropped.  *)
Whole ==
    /\ inner = "Pending" /\ op = Idle => fired = <<>> /\ body = accepted
    /\ op.stage = "head" /\ op.fresh => fired = <<>> /\ op.data = accepted
    /\ fired # <<>> => fired = <<accepted>>

(* No race a call can still run would be won. *)
Blocked == cancelled \/ (deadline = "past" /\ (op # Idle => op.fresh))

OutcomeOK ==
    /\ inner = "Pending" => outcome = "none"
    /\ inner = "Done" => outcome # "none"
    /\ inner = "Failed" => outcome \in {"none", failed}
    /\ inner \in {"Reading", "Duplex"} => outcome \in {"none"} \cup RaceErrors
    /\ ~MayRearm /\ outcome # "none" =>
         /\ inner \in {"Done", "Failed"} \/ op.stage # "read" \/ Blocked
         /\ inner \in {"Done", "Failed"} \/ cancelled \/ deadline = "past"

(* Nothing can be written after half a frame, by a caller that leaves none itself. *)
TornOK == WellBehavedCaller =>
    /\ torn => inner # "Pending" /\ op.stage # "midwrite"
    /\ torn => inner \in {"Done", "Failed"} \/ broken \/ cancelled \/ deadline = "past"
    /\ torn /\ op.stage = "write" => broken \/ Blocked

HonestOK ==
    /\ inner \in {"Pending", "Reading", "Duplex"} => delivered = consumed
    /\ failed # "Aborted"
    /\ inner = "Failed" => failed \in Errors
    /\ consumed <= Len(resp)
    /\ inner = "Pending" => consumed = 0
    /\ outcome \in {"None", "Aborted"} => inner = "Done"
    /\ HonestOutcome

IInv == TypeOK /\ OpOK /\ FiredOK /\ OutcomeOK /\ TornOK /\ HonestOK

-----------------------------------------------------------------------------
(* A fresh Conn (new_internal) satisfies the invariant. *)
LEMMA InitIInv == Init => IInv
<1> SUFFICES ASSUME Init PROVE IInv
  OBVIOUS
<1>1. /\ Idle.call = "idle" /\ Idle.stage = "none" /\ ~Idle.fresh /\ Idle.data = <<>>
      /\ Idle \in [call : Call \cup {"idle"}, stage : Raced \cup {"close", "none"},
                   fresh : BOOLEAN, data : Seq(Requests)]
  BY DEF Idle, Call, Raced
<1>2. TypeOK
  <2>1. deadline \in {"none", "armed", "past"}
    BY DeadlinesAssumption DEF Init
  <2>2. /\ <<>> \in Seq(Requests) /\ <<>> \in Seq(Seq(Requests)) /\ <<>> \in Seq(Items)
    OBVIOUS
  <2>3. op \in [call : Call \cup {"idle"}, stage : Raced \cup {"close", "none"},
               fresh : BOOLEAN, data : Seq(Requests)]
    BY <1>1 DEF Init
  <2>4. /\ sendClosed \in BOOLEAN /\ cancelled \in BOOLEAN /\ eos \in BOOLEAN
        /\ torn \in BOOLEAN /\ broken \in BOOLEAN /\ fullDuplex \in BOOLEAN
    BY ModeAssumption DEF Init
  <2>5. /\ body \in Seq(Requests) /\ fired \in Seq(Seq(Requests))
        /\ resp \in Seq(Items) /\ accepted \in Seq(Requests)
    BY <2>2 DEF Init
  <2> QED BY <2>1, <2>3, <2>4, <2>5 DEF Init, TypeOK
<1>3. OpOK /\ FiredOK /\ OutcomeOK /\ TornOK
  BY <1>1 DEF Init, OpOK, FiredOK, OutcomeOK, TornOK, Blocked
<1>4. HonestOK
  BY DEF Init, HonestOK, HonestOutcome
<1> QED BY <1>2, <1>3, <1>4 DEF IInv

-----------------------------------------------------------------------------
(* What op and outcome can be: the parts of TypeOK that a return or a new await *)
(* changes.                                                                    *)
CallType ==
    /\ op \in [call : Call \cup {"idle"}, stage : Raced \cup {"close", "none"},
               fresh : BOOLEAN, data : Seq(Requests)]
    /\ outcome \in {"none", "None", "over"} \cup Errors
    /\ result \in {"none", "Ok", "Message", "None", "Dropped"} \cup Errors

(* What op holds while no engine call is in flight. *)
LEMMA IdleFields ==
    /\ Idle.call = "idle" /\ Idle.stage = "none" /\ Idle.fresh = FALSE
    /\ Idle.data = <<>>
    /\ Idle \in [call : Call \cup {"idle"}, stage : Raced \cup {"close", "none"},
                 fresh : BOOLEAN, data : Seq(Requests)]
BY DEF Idle, Call, Raced

(* An empty data argument is a sequence of requests. *)
LEMMA EmptySeq == <<>> \in Seq(Requests)
OBVIOUS

(* What an engine call leaves behind when it returns. *)
LEMMA ReturnLemma ==
    ASSUME IInv, NEW call \in Call,
           NEW res \in {"Ok", "None", "Message", "Dropped"} \cup Errors,
           call = "recv" => res # "Ok", Return(call, res)
    PROVE  /\ CallType' /\ op' = Idle
           /\ op'.stage = "none" /\ op'.fresh = FALSE
           /\ outcome' = IF call = "recv" /\ res \notin {"Message", "Dropped"}
                         THEN Told(res) ELSE outcome
           /\ res # "None" => outcome' \in {outcome, res}
           /\ call = "recv" /\ res \notin {"Message", "Dropped", "None"} => outcome' = res
           /\ outcome # "none" => outcome' # "none"
<1>1. op' = Idle
  BY DEF Return
<1>2. outcome' = IF call = "recv" /\ res \notin {"Message", "Dropped"}
                 THEN Told(res) ELSE outcome
  BY DEF Return
<1>3. outcome' \in {"none", "None", "over"} \cup Errors
  BY <1>2 DEF IInv, TypeOK, Told
<1>4. result' \in {"none", "Ok", "Message", "None", "Dropped"} \cup Errors
  BY DEF Return
<1>5. outcome # "none" => outcome' # "none"
  BY <1>2 DEF Told, Errors
<1> QED BY <1>1, <1>2, <1>3, <1>4, <1>5, IdleFields DEF CallType, Told

(* What an engine call leaves behind when it suspends. *)
LEMMA AwaitLemma ==
    ASSUME IInv, NEW call \in Call, NEW stage \in Raced \cup {"close"},
           NEW data \in Seq(Requests), Await(call, stage, data)
    PROVE  /\ CallType' /\ op' # Idle /\ outcome' = outcome
           /\ op'.call = call /\ op'.stage = stage /\ op'.fresh = TRUE
           /\ op'.data = data
<1>1. op' = [call |-> call, stage |-> stage, fresh |-> TRUE, data |-> data]
  BY DEF Await, Calling
<1>2. stage # "none"
  BY DEF Raced
<1>3. op'.stage # "none" /\ op' # Idle
  BY <1>1, <1>2, IdleFields
<1> QED BY <1>1, <1>3 DEF CallType, Await, IInv, TypeOK

(* IInv carries over a change of op alone that leaves the call where it is, or
   no change at all.                                                         *)
LEMMA StutterStep == ASSUME IInv, UNCHANGED vars PROVE IInv'
<1>1. TypeOK'
  BY DEF IInv, TypeOK, vars, pending, control, request, peer
<1>2. OpOK' /\ FiredOK' /\ OutcomeOK' /\ TornOK'
  BY DEF IInv, OpOK, FiredOK, OutcomeOK, TornOK, Blocked, vars, pending, control,
         request, peer
<1>3. HonestOK'
  BY DEF IInv, HonestOK, HonestOutcome, FinalStatus, vars, pending, control, request,
         peer
<1> QED BY <1>1, <1>2, <1>3 DEF IInv

-----------------------------------------------------------------------------
(* The calls. *)

(* TypeOK in the part a call's start or return leaves to be shown. *)
LEMMA TypeByParts ==
    ASSUME IInv, CallType', UNCHANGED <<headers, trailers, control, request, peer>>,
           inner' \in {"Pending", "Reading", "Duplex", "Done", "Failed"},
           body' \in Seq(Requests), sendClosed' \in BOOLEAN,
           initError' \in {"none", "InvalidArgument", "Internal"},
           failed' \in {"none"} \cup Errors, consumed' \in Nat,
           accepted' \in Seq(Requests), delivered' \in Nat
    PROVE  TypeOK'
<1>1. /\ fired' \in Seq(Seq(Requests)) /\ eos' \in BOOLEAN /\ torn' \in BOOLEAN
      /\ deadline' \in {"none", "armed", "past"} /\ cancelled' \in BOOLEAN
      /\ fullDuplex' \in BOOLEAN
      /\ headers' \in {"none", "head", "empty"}
      /\ trailers' \in {"none", "empty", "head", "wire"}
  BY DEF IInv, TypeOK, control, request
<1>2. /\ head' \in Heads \cup {NoHead} /\ resp' \in Seq(Items)
      /\ trailer' \in Trailers \cup {"open"} /\ broken' \in BOOLEAN
  BY DEF IInv, TypeOK, peer
<1> QED BY <1>1, <1>2 DEF TypeOK, CallType

(* send keeps the invariant, in each arm of its match on inner. *)
LEMMA SendStep == ASSUME IInv, NEW m \in Requests, Send(m) PROVE IInv'
<1>1. /\ op = Idle /\ op.stage = "none"
      /\ inner' = inner /\ sendClosed' = sendClosed /\ initError' = initError
      /\ failed' = failed /\ headers' = headers /\ trailers' = trailers
      /\ deadline' = deadline /\ cancelled' = cancelled
      /\ fullDuplex' = fullDuplex /\ fired' = fired
      /\ eos' = eos /\ torn' = torn /\ head' = head /\ resp' = resp
      /\ trailer' = trailer /\ broken' = broken /\ consumed' = consumed
      /\ delivered' = delivered
  BY IdleFields DEF Send, control, request, peer
<1>2. body \in Seq(Requests) /\ accepted \in Seq(Requests) /\ <<m>> \in Seq(Requests)
  BY DEF IInv, TypeOK
<1>3. \/ UNCHANGED <<body, accepted>>
      \/ inner = "Pending" /\ body' = Append(body, m) /\ accepted' = Append(accepted, m)
  BY DEF Send
<1>4. body' \in Seq(Requests) /\ accepted' \in Seq(Requests)
  <2>1. CASE UNCHANGED <<body, accepted>>
    BY <1>2, <2>1
  <2>2. CASE body' = Append(body, m) /\ accepted' = Append(accepted, m)
    BY <1>2, <2>2
  <2> QED BY <1>3, <2>1, <2>2
<1>5. /\ CallType' /\ outcome' = outcome
      /\ \/ op' = Idle /\ op'.stage = "none"
         \/ /\ op' # Idle /\ op'.stage = "write" /\ op'.fresh = TRUE
            /\ op'.call = "send"
            /\ inner = "Duplex" /\ UNCHANGED <<body, accepted>>
  <2>1. CASE Return("send", "Internal")
    BY <2>1, ReturnLemma DEF Call, Errors
  <2>2. CASE Return("send", "Ok")
    BY <2>2, ReturnLemma DEF Call
  <2>3. CASE /\ inner = "Duplex" /\ Await("send", "write", <<m>>)
             /\ UNCHANGED <<body, accepted>>
    BY <1>2, <2>3, AwaitLemma DEF Call, Raced
  <2> QED BY <2>1, <2>2, <2>3 DEF Send
<1>6. TypeOK'
  <2>1. UNCHANGED <<headers, trailers, control, request, peer>>
    BY DEF Send
  <2>2. /\ inner' \in {"Pending", "Reading", "Duplex", "Done", "Failed"}
        /\ sendClosed' \in BOOLEAN /\ failed' \in {"none"} \cup Errors
        /\ initError' \in {"none", "InvalidArgument", "Internal"}
        /\ consumed' \in Nat /\ delivered' \in Nat
    BY <1>1 DEF IInv, TypeOK
  <2> QED BY <1>4, <1>5, <2>1, <2>2, TypeByParts
<1>7. OpOK'
  BY <1>1, <1>5 DEF OpOK
<1>8. FiredOK'
  BY <1>1, <1>5 DEF IInv, FiredOK
<1>9. OutcomeOK'
  BY <1>1, <1>5 DEF IInv, OutcomeOK, Blocked
<1>10. TornOK'
  BY <1>1, <1>5 DEF IInv, TornOK, Blocked
<1>11. HonestOK'
  BY <1>1, <1>5 DEF IInv, HonestOK, HonestOutcome, FinalStatus
<1> QED BY <1>6, <1>7, <1>8, <1>9, <1>10, <1>11 DEF IInv

(* materialize, up to its await. *)
LEMMA MaterializeLemma ==
    ASSUME IInv, op = Idle, NEW call \in {"recv", "close_send", "open_head"},
           Materialize(call)
    PROVE  /\ inner = "Pending" /\ CallType'
           /\ body' \in Seq(Requests)
           /\ initError' \in {"none", "InvalidArgument", "Internal"}
           /\ \/ /\ inner' = "Failed" /\ failed' \in {"InvalidArgument", "Internal"}
                 /\ op' = Idle /\ outcome' \in {outcome, failed'}
                 /\ op'.stage = "none"
              \/ /\ inner' = inner /\ failed' = failed /\ body' = <<>>
                 /\ op' # Idle /\ op'.stage = "head" /\ op'.fresh = TRUE
                 /\ op'.data = body
                 /\ op'.call = call /\ outcome' = outcome
<1>1. inner = "Pending" /\ body \in Seq(Requests)
      /\ initError \in {"none", "InvalidArgument", "Internal"}
  BY DEF Materialize, IInv, TypeOK
<1>2. CASE /\ initError # "none" /\ initError' = "none" /\ Fail(call, initError)
           /\ UNCHANGED body
  <2>1. /\ inner' = "Failed" /\ failed' = initError /\ initError' = "none"
        /\ body' = body /\ Return(call, initError)
    BY <1>2 DEF Fail
  <2>2. initError \in {"InvalidArgument", "Internal"} /\ initError \in Errors
    BY <1>1, <1>2 DEF Errors
  <2>3. /\ CallType' /\ op' = Idle /\ op'.stage = "none"
        /\ outcome' \in {outcome, initError}
    BY <2>1, <2>2, ReturnLemma DEF Call
  <2> QED BY <1>1, <2>1, <2>2, <2>3
<1>3. CASE /\ initError = "none" /\ body' = <<>> /\ Await(call, "head", body)
           /\ UNCHANGED <<initError, inner, failed>>
  <2>1. /\ inner' = inner /\ failed' = failed /\ initError' = initError
        /\ body' = <<>> /\ Await(call, "head", body)
    BY <1>3
  <2>2. /\ CallType' /\ op' # Idle /\ outcome' = outcome
        /\ op'.call = call /\ op'.stage = "head" /\ op'.fresh = TRUE /\ op'.data = body
    BY <1>1, <2>1, AwaitLemma DEF Call, Raced
  <2> QED BY <1>1, <2>1, <2>2, EmptySeq
<1> QED BY <1>2, <1>3 DEF Materialize

(* A call that starts to open the stream keeps the invariant. *)
LEMMA MaterializeStep ==
    ASSUME IInv, op = Idle, NEW call \in {"recv", "close_send", "open_head"},
           Materialize(call), sendClosed' \in BOOLEAN,
           UNCHANGED <<headers, trailers, control, request, peer, consumed,
                       accepted, delivered>>
    PROVE  IInv'
<1>1. /\ headers' = headers /\ trailers' = trailers
      /\ deadline' = deadline /\ cancelled' = cancelled
      /\ fullDuplex' = fullDuplex /\ fired' = fired
      /\ eos' = eos /\ torn' = torn /\ head' = head /\ resp' = resp
      /\ trailer' = trailer /\ broken' = broken /\ consumed' = consumed
      /\ delivered' = delivered /\ accepted' = accepted
  BY DEF control, request, peer
<1>2. /\ inner = "Pending" /\ CallType' /\ body' \in Seq(Requests)
      /\ initError' \in {"none", "InvalidArgument", "Internal"}
      /\ \/ /\ inner' = "Failed" /\ failed' \in {"InvalidArgument", "Internal"}
            /\ op' = Idle /\ outcome' \in {outcome, failed'}
            /\ op'.stage = "none"
         \/ /\ inner' = inner /\ failed' = failed /\ body' = <<>>
            /\ op' # Idle /\ op'.stage = "head" /\ op'.fresh = TRUE /\ op'.data = body
            /\ op'.call = call /\ outcome' = outcome
  BY MaterializeLemma
<1>3. TypeOK'
  <2>1. /\ inner' \in {"Pending", "Reading", "Duplex", "Done", "Failed"}
        /\ failed' \in {"none"} \cup Errors
    BY <1>2 DEF Errors, IInv, TypeOK
  <2>2. consumed' \in Nat /\ accepted' \in Seq(Requests) /\ delivered' \in Nat
    BY <1>1 DEF IInv, TypeOK
  <2> QED BY <1>2, <2>1, <2>2, TypeByParts
<1>4. OpOK'
  BY <1>2 DEF OpOK
<1>5. FiredOK'
  BY <1>1, <1>2 DEF IInv, FiredOK
<1>6. OutcomeOK'
  BY <1>1, <1>2 DEF IInv, OutcomeOK, Blocked
<1>7. TornOK'
  BY <1>1, <1>2 DEF IInv, TornOK, Blocked
<1>8. HonestOK'
  BY <1>1, <1>2 DEF IInv, OutcomeOK, HonestOK, HonestOutcome, FinalStatus, Errors
<1> QED BY <1>3, <1>4, <1>5, <1>6, <1>7, <1>8 DEF IInv

(* close_send keeps the invariant. *)
LEMMA CloseSendStep == ASSUME IInv, CloseSend PROVE IInv'
<1>1. CASE sendClosed' = TRUE /\ Materialize("close_send")
  BY <1>1, MaterializeStep DEF CloseSend
<1>2. CASE ~(sendClosed' = TRUE /\ Materialize("close_send"))
  <2>1. /\ op = Idle /\ op.stage = "none" /\ inner # "Pending"
        /\ inner' = inner /\ failed' = failed /\ body' = body
        /\ sendClosed' = sendClosed /\ initError' = initError
        /\ UNCHANGED <<headers, trailers, control, request, peer>>
        /\ deadline' = deadline /\ cancelled' = cancelled
        /\ fullDuplex' = fullDuplex /\ fired' = fired
        /\ torn' = torn /\ head' = head /\ resp' = resp
        /\ trailer' = trailer /\ broken' = broken /\ consumed' = consumed
        /\ delivered' = delivered /\ accepted' = accepted
    BY <1>2, IdleFields DEF CloseSend, pending, control, request, peer
  <2>2. /\ CallType' /\ outcome' = outcome
        /\ \/ op' = Idle /\ op'.stage = "none"
           \/ /\ op' # Idle /\ op'.stage = "close" /\ op'.call = "close_send"
              /\ inner = "Duplex"
    <3>1. CASE inner = "Duplex" /\ Await("close_send", "close", <<>>)
      BY <3>1, EmptySeq, AwaitLemma DEF Call, Raced
    <3>2. CASE Return("close_send", "Ok")
      BY <3>2, ReturnLemma DEF Call
    <3> QED BY <1>2, <3>1, <3>2 DEF CloseSend
  <2>3. TypeOK'
    BY <2>1, <2>2, TypeByParts DEF IInv, TypeOK
  <2>4. OpOK'
    BY <2>1, <2>2 DEF OpOK
  <2>5. FiredOK'
    BY <2>1, <2>2 DEF IInv, FiredOK
  <2>6. OutcomeOK'
    BY <2>1, <2>2 DEF IInv, OutcomeOK, Blocked
  <2>7. TornOK'
    BY <2>1, <2>2 DEF IInv, TornOK, Blocked
  <2>8. HonestOK'
    BY <2>1, <2>2 DEF IInv, HonestOK, HonestOutcome, FinalStatus
  <2> QED BY <2>3, <2>4, <2>5, <2>6, <2>7, <2>8 DEF IInv
<1> QED BY <1>1, <1>2

(* recv keeps the invariant. *)
LEMMA RecvStep == ASSUME IInv, Recv PROVE IInv'
<1>1. CASE Materialize("recv") /\ UNCHANGED <<sendClosed, headers, trailers>>
  <2>1. sendClosed' \in BOOLEAN
    BY <1>1 DEF IInv, TypeOK
  <2> QED BY <1>1, <2>1, MaterializeStep DEF Recv
<1>2. CASE /\ inner \in {"Reading", "Duplex"} /\ Await("recv", "read", <<>>)
           /\ UNCHANGED <<inner, pending, failed, headers, trailers>>
  <2>1. /\ op = Idle /\ inner' = inner /\ failed' = failed /\ body' = body
        /\ sendClosed' = sendClosed /\ initError' = initError
        /\ UNCHANGED <<headers, trailers, control, request, peer>>
        /\ deadline' = deadline /\ cancelled' = cancelled
        /\ fullDuplex' = fullDuplex /\ fired' = fired
        /\ torn' = torn /\ head' = head /\ resp' = resp
        /\ trailer' = trailer /\ broken' = broken /\ consumed' = consumed
        /\ delivered' = delivered /\ accepted' = accepted
    BY <1>2 DEF Recv, pending, control, request, peer
  <2>2. /\ CallType' /\ outcome' = outcome /\ op' # Idle /\ op'.stage = "read"
        /\ op'.fresh = TRUE /\ op'.call = "recv"
    BY <1>2, EmptySeq, AwaitLemma DEF Call, Raced
  <2>3. TypeOK'
    BY <2>1, <2>2, TypeByParts DEF IInv, TypeOK
  <2>4. OpOK' /\ FiredOK'
    BY <1>2, <2>1, <2>2 DEF IInv, OpOK, FiredOK
  <2>5. OutcomeOK'
    BY <1>2, <2>1, <2>2 DEF IInv, OutcomeOK, Blocked
  <2>6. TornOK'
    BY <1>2, <2>1, <2>2 DEF IInv, TornOK
  <2>7. HonestOK'
    BY <2>1, <2>2 DEF IInv, HonestOK, HonestOutcome, FinalStatus
  <2> QED BY <2>3, <2>4, <2>5, <2>6, <2>7 DEF IInv
<1>3. CASE /\ inner \in {"Done", "Failed"} /\ inner' = "Done"
           /\ UNCHANGED <<pending, control, request, peer, consumed, accepted,
                          delivered>>
           /\ headers' \in {headers, "empty"} /\ trailers' \in {trailers, "empty"}
           /\ failed' \in {failed, "none"}
           /\ Return("recv", IF inner = "Done" THEN "None" ELSE failed)
  <2>1. /\ body' = body
        /\ sendClosed' = sendClosed /\ initError' = initError
        /\ deadline' = deadline /\ cancelled' = cancelled
        /\ fullDuplex' = fullDuplex /\ fired' = fired
        /\ eos' = eos
        /\ torn' = torn /\ head' = head /\ resp' = resp
        /\ trailer' = trailer /\ broken' = broken /\ consumed' = consumed
        /\ delivered' = delivered /\ accepted' = accepted
    BY <1>3 DEF pending, control, request, peer
  <2> DEFINE res == IF inner = "Done" THEN "None" ELSE failed
  <2>2. /\ res \in {"None"} \cup Errors /\ res # "Aborted" /\ Return("recv", res)
        /\ inner # "Done" => res \in Errors
    BY <1>3 DEF IInv, HonestOK
  <2>3. /\ CallType' /\ op' = Idle /\ op'.stage = "none"
        /\ outcome' = Told(res)
    <3> HIDE DEF res
    <3>1. res \notin {"Message", "Dropped", "Ok"}
      BY <2>2 DEF Errors
    <3> QED BY <2>2, <3>1, ReturnLemma DEF Call
  <2>4. TypeOK'
    <3>1. /\ inner' \in {"Pending", "Reading", "Duplex", "Done", "Failed"}
          /\ body' \in Seq(Requests) /\ sendClosed' \in BOOLEAN
          /\ initError' \in {"none", "InvalidArgument", "Internal"}
          /\ failed' \in {"none"} \cup Errors
          /\ headers' \in {"none", "head", "empty"}
          /\ trailers' \in {"none", "empty", "head", "wire"}
      BY <1>3, <2>1 DEF IInv, TypeOK
    <3>2. /\ deadline' \in {"none", "armed", "past"} /\ cancelled' \in BOOLEAN
          /\ fullDuplex' \in BOOLEAN
          /\ fired' \in Seq(Seq(Requests)) /\ eos' \in BOOLEAN /\ torn' \in BOOLEAN
          /\ head' \in Heads \cup {NoHead} /\ resp' \in Seq(Items)
          /\ trailer' \in Trailers \cup {"open"} /\ broken' \in BOOLEAN
          /\ consumed' \in Nat /\ accepted' \in Seq(Requests) /\ delivered' \in Nat
      BY <2>1 DEF IInv, TypeOK
    <3> QED BY <2>3, <3>1, <3>2 DEF TypeOK, CallType
  <2>5. OpOK' /\ FiredOK'
    BY <1>3, <2>1, <2>3 DEF IInv, OpOK, FiredOK
  <2>6. OutcomeOK'
    BY <1>3, <2>1, <2>2, <2>3 DEF IInv, OutcomeOK, Errors, Told
  <2>7. TornOK'
    BY <1>3, <2>1, <2>3 DEF IInv, TornOK
  <2>8. HonestOK'
    <3>1. inner # "Done" => res \notin {"None", "Aborted", "none"}
      BY <2>2 DEF Errors
    <3>2. inner = "Done" => outcome # "none"
      BY DEF IInv, OutcomeOK
    <3>3. outcome' \in {"None", "Aborted"} => outcome' = outcome
      BY <2>3, <3>1, <3>2 DEF Told
    <3> QED BY <1>3, <2>1, <3>3 DEF IInv, HonestOK, HonestOutcome, FinalStatus
  <2> QED BY <2>4, <2>5, <2>6, <2>7, <2>8 DEF IInv
<1> QED BY <1>1, <1>2, <1>3 DEF Recv

(* open_head keeps the invariant. *)
LEMMA OpenHeadStep == ASSUME IInv, OpenHead PROVE IInv'
<1>1. CASE Materialize("open_head")
  <2>1. sendClosed' \in BOOLEAN
    BY DEF OpenHead, IInv, TypeOK
  <2> QED BY <1>1, <2>1, MaterializeStep DEF OpenHead
<1>2. CASE inner # "Pending" /\ Return("open_head", "Ok")
           /\ UNCHANGED <<inner, failed, body, initError>>
  <2>1. /\ op = Idle /\ UNCHANGED <<headers, trailers, control, request, peer>>
        /\ inner' = inner /\ failed' = failed /\ body' = body
        /\ sendClosed' = sendClosed /\ initError' = initError
        /\ deadline' = deadline /\ cancelled' = cancelled
        /\ fullDuplex' = fullDuplex /\ fired' = fired
        /\ torn' = torn /\ head' = head /\ resp' = resp
        /\ trailer' = trailer /\ broken' = broken /\ consumed' = consumed
        /\ delivered' = delivered /\ accepted' = accepted
    BY <1>2 DEF OpenHead, control, request, peer
  <2>2. CallType' /\ op' = Idle /\ outcome' = outcome
    BY <1>2, ReturnLemma DEF Call
  <2>3. TypeOK'
    BY <2>1, <2>2, TypeByParts DEF IInv, TypeOK
  <2>4. op' = op
    BY <2>1, <2>2
  <2>5. OpOK' /\ FiredOK' /\ OutcomeOK' /\ TornOK'
    BY <2>1, <2>2, <2>4 DEF IInv, OpOK, FiredOK, OutcomeOK, TornOK, Blocked
  <2>6. HonestOK'
    BY <2>1, <2>2 DEF IInv, HonestOK, HonestOutcome, FinalStatus
  <2> QED BY <2>3, <2>5, <2>6 DEF IInv
<1> QED BY <1>1, <1>2 DEF OpenHead

(* The builders: only Pending.body, the messages accepted and init_error. *)
LEMMA BuilderStep ==
    ASSUME IInv, op = Idle, inner = "Pending",
           initError' \in {"none", "InvalidArgument", "Internal"},
           body' \in Seq(Requests), accepted' \in Seq(Requests),
           \/ UNCHANGED <<body, accepted>>
           \/ \E m \in Requests :
                 body' = Append(body, m) /\ accepted' = Append(accepted, m),
           UNCHANGED <<inner, sendClosed, failed, headers, trailers, control, op,
                       request, peer, consumed, delivered, outcome, result>>
    PROVE  IInv'
<1>1. /\ deadline' = deadline /\ cancelled' = cancelled
      /\ fullDuplex' = fullDuplex /\ fired' = fired
      /\ torn' = torn /\ head' = head /\ resp' = resp
      /\ trailer' = trailer /\ broken' = broken
  BY DEF control, request, peer
<1>2. TypeOK'
  <2>1. CallType'
    BY DEF CallType, IInv, TypeOK
  <2> QED BY <2>1, TypeByParts DEF IInv, TypeOK
<1>3. OpOK' /\ OutcomeOK' /\ TornOK'
  BY <1>1, IdleFields DEF IInv, OpOK, OutcomeOK, TornOK, Blocked
<1>4. FiredOK'
  BY <1>1, IdleFields DEF IInv, FiredOK
<1>5. HonestOK'
  BY <1>1 DEF IInv, HonestOK, HonestOutcome, FinalStatus
<1> QED BY <1>2, <1>3, <1>4, <1>5 DEF IInv

(* A metadata entry that is refused keeps the invariant. *)
LEMMA AddInvalidMetadataStep == ASSUME IInv, AddInvalidMetadata PROVE IInv'
<1>1. body' \in Seq(Requests) /\ accepted' \in Seq(Requests)
      /\ initError' \in {"none", "InvalidArgument", "Internal"}
  BY DEF AddInvalidMetadata, IInv, TypeOK
<1> QED BY <1>1, BuilderStep DEF AddInvalidMetadata

(* buffer_request keeps the invariant. *)
LEMMA BufferRequestStep ==
    ASSUME IInv, NEW m \in Requests, BufferRequest(m) PROVE IInv'
<1>1. body \in Seq(Requests) /\ accepted \in Seq(Requests)
      /\ initError \in {"none", "InvalidArgument", "Internal"}
  BY DEF IInv, TypeOK
<1>2. CASE UNCHANGED <<body, accepted>>
  <2>1. initError' \in {"none", "InvalidArgument", "Internal"}
    BY <1>1 DEF BufferRequest
  <2> QED BY <1>1, <1>2, <2>1, BuilderStep DEF BufferRequest
<1>3. CASE body' = Append(body, m) /\ accepted' = Append(accepted, m)
  <2>1. body' \in Seq(Requests) /\ accepted' \in Seq(Requests)
    BY <1>1, <1>3
  <2>2. initError' \in {"none", "InvalidArgument", "Internal"}
    BY <1>1 DEF BufferRequest
  <2> QED BY <1>3, <2>1, <2>2, BuilderStep DEF BufferRequest
<1> QED BY <1>2, <1>3 DEF BufferRequest

(* Time, the CancelHandle and a new deadline: only the control variables. *)
LEMMA ControlStep ==
    ASSUME IInv, deadline' \in {"none", "armed", "past"}, cancelled' \in BOOLEAN,
           cancelled => cancelled',
           ~MayRearm =>
               /\ deadline' = "armed" => inner = "Pending" \/ deadline = "armed"
               /\ deadline = "past" /\ inner # "Pending" => deadline' = "past",
           UNCHANGED <<fullDuplex, inner, pending, failed, headers, trailers, op,
                       request, peer, consumed, accepted, delivered, outcome, result>>
    PROVE  IInv'
<1>1. /\ body' = body /\ sendClosed' = sendClosed /\ initError' = initError
      /\ fired' = fired /\ eos' = eos /\ torn' = torn /\ head' = head /\ resp' = resp
      /\ trailer' = trailer /\ broken' = broken
  BY DEF pending, request, peer
<1>2. TypeOK'
  BY <1>1 DEF IInv, TypeOK
<1>3. OpOK' /\ FiredOK'
  BY <1>1 DEF IInv, OpOK, FiredOK
<1>4. OutcomeOK'
  BY <1>1 DEF IInv, OutcomeOK, Blocked
<1>5. TornOK'
  BY <1>1 DEF IInv, TornOK, Blocked, WellBehavedCaller
<1>6. HonestOK'
  BY <1>1 DEF IInv, HonestOK, HonestOutcome, FinalStatus
<1> QED BY <1>2, <1>3, <1>4, <1>5, <1>6 DEF IInv

(* set_deadline keeps the invariant. *)
LEMMA SetDeadlineStep == ASSUME IInv, SetDeadline PROVE IInv'
<1>1. /\ deadline' = "armed" /\ cancelled' = cancelled
      /\ ~MayRearm => inner = "Pending"
  BY DEF SetDeadline
<1>2. cancelled' \in BOOLEAN /\ (cancelled => cancelled')
  BY <1>1 DEF IInv, TypeOK
<1> QED BY <1>1, <1>2, ControlStep DEF SetDeadline

(* cancel keeps the invariant. *)
LEMMA CancelStep == ASSUME IInv, Cancel PROVE IInv'
<1>1. /\ cancelled' = TRUE /\ deadline' = deadline
      /\ deadline' \in {"none", "armed", "past"}
  BY DEF Cancel, IInv, TypeOK
<1> QED BY <1>1, ControlStep DEF Cancel

(* The deadline's passing keeps the invariant. *)
LEMMA DeadlinePassesStep == ASSUME IInv, DeadlinePasses PROVE IInv'
<1>1. /\ deadline' = "past" /\ cancelled' = cancelled
      /\ cancelled' \in BOOLEAN
  BY DEF DeadlinePasses, IInv, TypeOK
<1> QED BY <1>1, ControlStep DEF DeadlinePasses

-----------------------------------------------------------------------------
(* The polls. *)

(* Neither race nor the head's checks can make the peer's Aborted. *)
LEMMA CodesTheClientMakes ==
    /\ RaceError \in Errors /\ RaceError # "Aborted"
    /\ \A h \in ResponseHead : HeadVerdict(h) # "OK" =>
          HeadVerdict(h) \in Errors /\ HeadVerdict(h) # "Aborted"
<1>1. RaceError \in Errors /\ RaceError # "Aborted"
  BY DEF RaceError, Errors
<1>2. ASSUME NEW n
      PROVE  HttpCode(n) \in Errors /\ HttpCode(n) # "Aborted"
  BY DEF HttpCode, Errors
<1>3. ASSUME NEW h \in ResponseHead, HeadVerdict(h) # "OK"
      PROVE  HeadVerdict(h) \in Errors /\ HeadVerdict(h) # "Aborted"
  <2>1. "Unknown" \in Errors /\ "Internal" \in Errors
    BY DEF Errors
  <2> QED BY <1>2, <1>3, <2>1 DEF HeadVerdict
<1> QED BY <1>1, <1>3

(* A suspended call is one of the four that suspend. *)
LEMMA OpCall == ASSUME IInv, op.stage # "none"
                PROVE  op # Idle /\ op.call \in Call
BY IdleFields DEF IInv, OpOK, Call, Raced, TypeOK

(* An open that fails. *)
LEMMA FailStep ==
    ASSUME IInv, op.stage = "head", NEW status \in Errors, status # "Aborted",
           Fail(op.call, status), torn' = torn,
           UNCHANGED <<pending, headers, trailers, control, fired, eos, peer,
                       consumed, accepted, delivered>>
    PROVE  IInv'
<1>1. /\ inner' = "Failed" /\ failed' = status /\ Return(op.call, status)
      /\ body' = body /\ sendClosed' = sendClosed /\ initError' = initError
      /\ headers' = headers /\ trailers' = trailers
      /\ deadline' = deadline /\ cancelled' = cancelled
      /\ fullDuplex' = fullDuplex /\ fired' = fired
      /\ eos' = eos /\ torn' = torn /\ head' = head /\ resp' = resp
      /\ trailer' = trailer /\ broken' = broken /\ consumed' = consumed
      /\ delivered' = delivered /\ accepted' = accepted
  BY DEF Fail, pending, control, peer
<1>2. op.call \in Call /\ inner = "Pending" /\ outcome = "none"
  BY OpCall DEF IInv, OpOK, OutcomeOK
<1>3. /\ CallType' /\ op' = Idle /\ op'.stage = "none"
      /\ outcome' \in {outcome, status}
  <2>1. status \notin {"Ok", "Message", "Dropped"}
    BY DEF Errors
  <2>2. status # "None"
    BY DEF Errors
  <2> QED BY <1>1, <1>2, <2>1, <2>2, ReturnLemma
<1>4. TypeOK'
  <2>1. UNCHANGED <<headers, trailers, control, request, peer>>
    BY <1>1 DEF control, request, peer
  <2> QED BY <1>1, <1>3, <2>1, TypeByParts DEF IInv, TypeOK
<1>5. OpOK' /\ FiredOK'
  BY <1>1, <1>2, <1>3 DEF IInv, OpOK, FiredOK
<1>6. OutcomeOK' /\ TornOK'
  BY <1>1, <1>2, <1>3 DEF IInv, OutcomeOK, TornOK
<1>7. HonestOK'
  <2>1. outcome' \notin {"None", "Aborted"}
    BY <1>2, <1>3 DEF Errors
  <2> QED BY <1>1, <1>2, <2>1 DEF IInv, HonestOK, HonestOutcome
<1> QED BY <1>4, <1>5, <1>6, <1>7 DEF IInv

(* A call on a live conn that returns and leaves the conn live. *)
LEMMA LiveReturnStep ==
    ASSUME IInv, op.stage \in {"read", "write", "midwrite", "close"},
           NEW res \in {"Ok", "Message", "Dropped"} \cup Errors, Return(op.call, res),
           op.stage = "read" => res # "Ok", res = "Aborted" => op.stage # "read",
           res \in Errors /\ op.stage = "read" =>
               res \in RaceErrors /\ (cancelled \/ deadline = "past"),
           torn' \in BOOLEAN, eos' \in BOOLEAN,
           WellBehavedCaller /\ torn' =>
               torn \/ broken \/ cancelled \/ deadline = "past",
           fired' \in Seq(Seq(Requests)), accepted' \in Seq(Requests), fired' # <<>>,
           delivered' \in Nat, consumed' \in Nat, delivered' = consumed',
           consumed' <= Len(resp),
           UNCHANGED <<inner, pending, failed, headers, trailers, control, peer>>
    PROVE  IInv'
<1>1. /\ inner' = inner /\ failed' = failed
      /\ body' = body /\ sendClosed' = sendClosed /\ initError' = initError
      /\ headers' = headers /\ trailers' = trailers
      /\ deadline' = deadline /\ cancelled' = cancelled
      /\ fullDuplex' = fullDuplex
      /\ head' = head /\ resp' = resp
      /\ trailer' = trailer /\ broken' = broken
  BY DEF pending, control, peer
<1>2. inner \in {"Reading", "Duplex"} /\ op.call \in Call
  BY OpCall DEF IInv, OpOK
<1>3. /\ CallType' /\ op' = Idle /\ op'.stage = "none"
      /\ outcome' = IF op.call = "recv" /\ res \notin {"Message", "Dropped"}
                    THEN res ELSE outcome
  <2>1. op.call = "recv" => res # "Ok"
    BY DEF IInv, OpOK
  <2>2. Told(res) = res
    BY DEF Told, Errors
  <2> QED BY <1>2, <2>1, <2>2, ReturnLemma
<1>4. TypeOK'
  <2>1. /\ inner' \in {"Pending", "Reading", "Duplex", "Done", "Failed"}
        /\ body' \in Seq(Requests) /\ sendClosed' \in BOOLEAN
        /\ initError' \in {"none", "InvalidArgument", "Internal"}
        /\ failed' \in {"none"} \cup Errors
        /\ headers' \in {"none", "head", "empty"}
        /\ trailers' \in {"none", "empty", "head", "wire"}
    BY <1>1 DEF IInv, TypeOK
  <2>2. /\ deadline' \in {"none", "armed", "past"} /\ cancelled' \in BOOLEAN
        /\ fullDuplex' \in BOOLEAN
        /\ head' \in Heads \cup {NoHead} /\ resp' \in Seq(Items)
        /\ trailer' \in Trailers \cup {"open"} /\ broken' \in BOOLEAN
    BY <1>1 DEF IInv, TypeOK
  <2> QED BY <1>3, <2>1, <2>2 DEF TypeOK, CallType
<1>5. OpOK'
  BY <1>1, <1>2, <1>3 DEF OpOK
<1>6. FiredOK'
  BY <1>1, <1>2, <1>3 DEF IInv, FiredOK
<1>7. outcome' # outcome => op.stage = "read" /\ res \in RaceErrors /\ outcome' = res
  BY <1>2, <1>3 DEF IInv, OpOK
<1>8. OutcomeOK'
  BY <1>1, <1>2, <1>3, <1>7 DEF IInv, OutcomeOK, RaceErrors
<1>9. TornOK'
  BY <1>1, <1>2, <1>3 DEF IInv, TornOK
<1>10. HonestOK'
  <2>1. outcome' \notin {"None", "Aborted"}
    BY <1>2, <1>3, <1>7 DEF IInv, HonestOK, RaceErrors
  <2> QED BY <1>1, <1>2, <2>1 DEF IInv, HonestOK, HonestOutcome
<1> QED BY <1>4, <1>5, <1>6, <1>8, <1>9, <1>10 DEF IInv

(* On an open stream the request is fired once, whole, and no frame is lost. *)
LEMMA LiveFacts ==
    ASSUME IInv, inner \in {"Reading", "Duplex"}
    PROVE  /\ delivered = consumed /\ consumed \in Nat /\ delivered \in Nat
           /\ fired # <<>>
BY DEF IInv, FiredOK, HonestOK, TypeOK

(* race giving up keeps the invariant: what it drops is torn. *)
LEMMA RaceLostStep == ASSUME IInv, RaceLost PROVE IInv'
<1>1. RaceError \in Errors /\ RaceError # "Aborted" /\ RaceError # "Ok"
  BY CodesTheClientMakes DEF Errors
<1>2. CASE op.stage = "head"
  <2>1. torn' = torn
    BY <1>2 DEF RaceLost, Abandon, IInv, TypeOK
  <2> QED BY <1>1, <1>2, <2>1, FailStep DEF RaceLost
<1>3. CASE op.stage # "head"
  <2>1. /\ op.stage \in {"read", "write", "midwrite"} /\ Return(op.call, RaceError)
        /\ cancelled \/ deadline = "past"
        /\ UNCHANGED <<inner, failed>> /\ Abandon
        /\ UNCHANGED <<pending, headers, trailers, control, fired, eos, peer,
                       consumed, accepted, delivered>>
    BY <1>3 DEF RaceLost, Raced
  <2>2. torn' \in BOOLEAN /\ eos' \in BOOLEAN
    BY <2>1 DEF Abandon, IInv, TypeOK
  <2>3. torn' => torn \/ broken \/ cancelled \/ deadline = "past"
    BY <2>1
  <2>4. inner \in {"Reading", "Duplex"}
    BY <2>1 DEF IInv, OpOK
  <2>5. /\ fired' \in Seq(Seq(Requests)) /\ accepted' \in Seq(Requests) /\ fired' # <<>>
        /\ delivered' \in Nat /\ consumed' \in Nat /\ delivered' = consumed'
        /\ consumed' <= Len(resp)
    BY <2>1, <2>4, LiveFacts DEF IInv, TypeOK, HonestOK
  <2>6. RaceError \in RaceErrors
    BY DEF RaceError, RaceErrors
  <2> QED BY <1>1, <2>1, <2>2, <2>3, <2>5, <2>6, LiveReturnStep
<1> QED BY <1>2, <1>3

(* An open that the transport fails keeps the invariant. *)
LEMMA HeadErrorStep == ASSUME IInv, HeadError PROVE IInv'
<1>1. "Unavailable" \in Errors
  BY DEF Errors
<1> QED BY <1>1, FailStep DEF HeadError, request

(* Sending the request head and buffered body keeps the invariant. *)
LEMMA FireRequestStep == ASSUME IInv, FireRequest PROVE IInv'
<1>1. /\ op.stage = "head" /\ op.fresh /\ inner = "Pending" /\ op.data \in Seq(Requests)
      /\ accepted \in Seq(Requests) /\ consumed = 0
      /\ op.call \in {"recv", "close_send", "open_head"} /\ body = <<>>
      /\ outcome = "none" /\ op # Idle /\ fired \in Seq(Seq(Requests))
  BY IdleFields DEF FireRequest, IInv, OpOK, FiredOK, OutcomeOK, HonestOK, TypeOK
<1>2. /\ fired' = Append(fired, op.data) /\ eos' = ~fullDuplex /\ torn' = FALSE
      /\ head' = NoHead /\ resp' = <<>> /\ trailer' = "open" /\ broken' = FALSE
      /\ inner' = inner /\ failed' = failed /\ body' = body
      /\ sendClosed' = sendClosed /\ initError' = initError
      /\ headers' = headers /\ trailers' = trailers
      /\ deadline' = deadline /\ cancelled' = cancelled
      /\ fullDuplex' = fullDuplex
      /\ consumed' = consumed /\ accepted' = accepted /\ delivered' = delivered
      /\ outcome' = outcome /\ result' = result
  BY <1>1 DEF FireRequest, pending, control
<1>3. /\ op' \in [call : Call \cup {"idle"}, stage : Raced \cup {"close", "none"},
                  fresh : BOOLEAN, data : Seq(Requests)]
      /\ op'.stage = "head" /\ op'.call = op.call /\ ~op'.fresh
  BY EmptySeq DEF FireRequest, IInv, TypeOK
<1>4. op' # Idle
  BY <1>3, IdleFields
<1>5. TypeOK'
  <2>1. /\ fired' \in Seq(Seq(Requests)) /\ eos' \in BOOLEAN /\ torn' \in BOOLEAN
        /\ broken' \in BOOLEAN /\ resp' \in Seq(Items)
    <3>1. fired' \in Seq(Seq(Requests))
      BY <1>1, <1>2
    <3>2. eos' \in BOOLEAN /\ torn' \in BOOLEAN /\ broken' \in BOOLEAN
      BY <1>2, ModeAssumption
    <3>3. resp' \in Seq(Items)
      BY <1>2
    <3> QED BY <1>2, <3>1, <3>2, <3>3
  <2>2. head' \in Heads \cup {NoHead} /\ trailer' \in Trailers \cup {"open"}
    BY <1>2
  <2> QED BY <1>2, <1>3, <2>1, <2>2 DEF IInv, TypeOK
<1>6. OpOK'
  BY <1>1, <1>2, <1>3, <1>4 DEF OpOK
<1>7. FiredOK'
  BY <1>1, <1>2, <1>3, <1>4 DEF FiredOK
<1>8. OutcomeOK' /\ TornOK'
  BY <1>1, <1>2, <1>3 DEF OutcomeOK, TornOK
<1>9. HonestOK'
  BY <1>1, <1>2 DEF IInv, HonestOK, HonestOutcome
<1> QED BY <1>5, <1>6, <1>7, <1>8, <1>9 DEF IInv

(* Accepting or refusing the response head keeps the invariant. *)
LEMMA HeadArrivesStep == ASSUME IInv, HeadArrives PROVE IInv'
<1>1. /\ op.stage = "head" /\ ~op.fresh /\ inner = "Pending" /\ op # Idle
      /\ op.call \in {"recv", "close_send", "open_head"} /\ outcome = "none"
      /\ consumed = 0 /\ delivered = 0 /\ fired # <<>>
  BY IdleFields DEF HeadArrives, IInv, OpOK, OutcomeOK, HonestOK, FiredOK
<1>2. head \in ResponseHead
  BY PeerAssumption DEF HeadArrives, IInv, TypeOK
<1>3. CASE HeadVerdict(head) # "OK"
  <2>1. HeadVerdict(head) \in Errors /\ HeadVerdict(head) # "Aborted"
    BY <1>2, <1>3, CodesTheClientMakes
  <2>2. Fail(op.call, HeadVerdict(head)) /\ headers' = headers
    BY <1>3 DEF HeadArrives
  <2> QED BY <1>1, <2>1, <2>2, FailStep DEF HeadArrives, request
<1>4. CASE HeadVerdict(head) = "OK"
  <2>1. /\ inner' \in {"Reading", "Duplex"} /\ (fullDuplex <=> inner' = "Duplex")
        /\ headers' = "head" /\ failed' = failed /\ body' = body
        /\ sendClosed' = sendClosed /\ initError' = initError
        /\ trailers' = trailers /\ deadline' = deadline /\ cancelled' = cancelled
        /\ fullDuplex' = fullDuplex
        /\ fired' = fired /\ eos' = eos /\ torn' = torn
        /\ head' = head /\ resp' = resp /\ trailer' = trailer /\ broken' = broken
        /\ consumed' = consumed /\ accepted' = accepted /\ delivered' = delivered
    BY <1>4, ModeAssumption DEF HeadArrives, pending, control, request, peer
  <2>2. /\ CallType' /\ outcome' = outcome
        /\ \/ op' = Idle /\ op'.stage = "none"
           \/ /\ op' # Idle /\ op'.stage = "read" /\ op'.call = "recv"
           \/ /\ op' # Idle /\ op'.stage = "close" /\ op'.call = "close_send"
              /\ fullDuplex
    <3>1. CASE op.call = "recv" /\ Await("recv", "read", <<>>)
      BY <3>1, EmptySeq, AwaitLemma DEF Call, Raced
    <3>2. CASE /\ op.call = "close_send" /\ fullDuplex
               /\ Await("close_send", "close", <<>>)
      BY <3>2, EmptySeq, AwaitLemma DEF Call
    <3>3. CASE op.call \in {"close_send", "open_head"} /\ Return(op.call, "Ok")
      BY <3>3, ReturnLemma DEF Call
    <3> QED BY <1>4, <3>1, <3>2, <3>3 DEF HeadArrives
  <2>3. TypeOK'
    <3>1. /\ inner' \in {"Pending", "Reading", "Duplex", "Done", "Failed"}
          /\ body' \in Seq(Requests) /\ sendClosed' \in BOOLEAN
          /\ initError' \in {"none", "InvalidArgument", "Internal"}
          /\ failed' \in {"none"} \cup Errors
          /\ headers' \in {"none", "head", "empty"}
          /\ trailers' \in {"none", "empty", "head", "wire"}
      BY <2>1 DEF IInv, TypeOK
    <3>2. /\ deadline' \in {"none", "armed", "past"} /\ cancelled' \in BOOLEAN
          /\ fullDuplex' \in BOOLEAN
          /\ fired' \in Seq(Seq(Requests)) /\ eos' \in BOOLEAN /\ torn' \in BOOLEAN
          /\ head' \in Heads \cup {NoHead} /\ resp' \in Seq(Items)
          /\ trailer' \in Trailers \cup {"open"} /\ broken' \in BOOLEAN
          /\ consumed' \in Nat /\ accepted' \in Seq(Requests) /\ delivered' \in Nat
      BY <2>1 DEF IInv, TypeOK
    <3> QED BY <2>2, <3>1, <3>2 DEF TypeOK, CallType
  <2>4. OpOK'
    BY <2>1, <2>2 DEF OpOK
  <2>6. FiredOK'
    BY <1>1, <2>1, <2>2 DEF FiredOK
  <2>7. OutcomeOK' /\ TornOK'
    BY <1>1, <2>1, <2>2 DEF IInv, OutcomeOK, TornOK
  <2>8. HonestOK'
    BY <1>1, <2>1, <2>2 DEF IInv, HonestOK, HonestOutcome
  <2> QED BY <2>3, <2>4, <2>6, <2>7, <2>8 DEF IInv
<1> QED BY <1>3, <1>4

(* A poll that goes on with the same call. *)
LEMMA ContinueStep ==
    ASSUME IInv, op.stage \in {"read", "write"}, MayProceed,
           op' \in [call : Call \cup {"idle"}, stage : Raced \cup {"close", "none"},
                    fresh : BOOLEAN, data : Seq(Requests)],
           op'.call = op.call, op'.fresh = FALSE,
           op'.stage # op.stage =>
               op'.stage = "midwrite" /\ op.stage = "write" /\ ~broken,
           UNCHANGED <<inner, pending, failed, headers, trailers, control, request,
                       peer, consumed, accepted, delivered, outcome, result>>
    PROVE  IInv'
<1>1. /\ inner' = inner /\ failed' = failed /\ body' = body
      /\ sendClosed' = sendClosed /\ initError' = initError
      /\ headers' = headers /\ trailers' = trailers
      /\ deadline' = deadline /\ cancelled' = cancelled
      /\ fullDuplex' = fullDuplex
      /\ fired' = fired /\ eos' = eos /\ torn' = torn
      /\ head' = head /\ resp' = resp /\ trailer' = trailer /\ broken' = broken
  BY DEF pending, control, request, peer
<1>2. /\ op' \in [call : Call \cup {"idle"}, stage : Raced \cup {"close", "none"},
                  fresh : BOOLEAN, data : Seq(Requests)]
      /\ op'.stage \in {"read", "write", "midwrite"}
      /\ op'.call = op.call /\ ~op'.fresh
      /\ op'.stage # op.stage =>
               op'.stage = "midwrite" /\ op.stage = "write" /\ ~broken
  OBVIOUS
<1>3. op' # Idle /\ op # Idle
  BY <1>2, IdleFields
<1>4. TypeOK'
  BY <1>1, <1>2 DEF IInv, TypeOK
<1>5. OpOK' /\ FiredOK'
  BY <1>1, <1>2, <1>3 DEF IInv, OpOK, FiredOK
<1>6. OutcomeOK'
  BY <1>1, <1>2, <1>3 DEF IInv, OutcomeOK, Blocked, MayProceed
<1>7. TornOK'
  BY <1>1, <1>2, <1>3 DEF IInv, TornOK, Blocked, MayProceed, OpOK
<1>8. HonestOK'
  BY <1>1 DEF IInv, HonestOK, HonestOutcome, FinalStatus
<1> QED BY <1>4, <1>5, <1>6, <1>7, <1>8 DEF IInv

(* A poll that finds nothing keeps the invariant. *)
LEMMA SuspendStep == ASSUME IInv, Suspend PROVE IInv'
<1>1. /\ op' \in [call : Call \cup {"idle"}, stage : Raced \cup {"close", "none"},
                  fresh : BOOLEAN, data : Seq(Requests)]
      /\ op'.call = op.call /\ op'.stage = op.stage /\ op'.fresh = FALSE
  BY DEF Suspend, IInv, TypeOK
<1> QED BY <1>1, ContinueStep DEF Suspend

(* A write that takes a part of a frame keeps the invariant. *)
LEMMA WriteSomeStep == ASSUME IInv, WriteSome PROVE IInv'
<1>1. /\ op' \in [call : Call \cup {"idle"}, stage : Raced \cup {"close", "none"},
                  fresh : BOOLEAN, data : Seq(Requests)]
      /\ op'.call = op.call /\ op'.stage = "midwrite" /\ op'.fresh = FALSE
  BY DEF WriteSome, IInv, TypeOK, Raced
<1> QED BY <1>1, ContinueStep DEF WriteSome

(* A write that takes the rest of a frame keeps the invariant. *)
LEMMA WriteDoneStep == ASSUME IInv, WriteDone PROVE IInv'
<1>1. /\ op.stage \in {"write", "midwrite"} /\ Return("send", "Ok")
      /\ fired' = [fired EXCEPT ![Len(fired)] = @ \o op.data]
      /\ accepted' = accepted \o op.data /\ eos' = eos /\ torn' = torn
      /\ consumed' = consumed /\ delivered' = delivered
      /\ UNCHANGED <<inner, pending, failed, headers, trailers, control, peer>>
  BY DEF WriteDone
<1>2. inner \in {"Reading", "Duplex"} /\ op.call = "send"
  BY <1>1 DEF IInv, OpOK
<1>3. /\ fired # <<>> /\ consumed = delivered
      /\ consumed \in Nat /\ consumed <= Len(resp)
  BY <1>2, LiveFacts DEF IInv, HonestOK
<1>4. /\ accepted \in Seq(Requests) /\ op.data \in Seq(Requests)
      /\ fired \in Seq(Seq(Requests))
  BY DEF IInv, TypeOK
<1>5. accepted' \in Seq(Requests)
  BY <1>1, <1>4
<1>6. fired' \in Seq(Seq(Requests)) /\ fired' # <<>>
  <2>1. Len(fired) \in DOMAIN fired
    BY <1>3, <1>4
  <2>2. fired[Len(fired)] \in Seq(Requests)
    BY <1>4, <2>1
  <2>3. fired[Len(fired)] \o op.data \in Seq(Requests)
    BY <1>4, <2>2
  <2> QED BY <1>1, <1>3, <1>4, <2>1, <2>3
<1>7. /\ torn' \in BOOLEAN /\ eos' \in BOOLEAN
      /\ torn' => torn \/ broken \/ cancelled \/ deadline = "past"
  BY <1>1 DEF IInv, TypeOK
<1>8. Return(op.call, "Ok") /\ op.stage # "read" /\ "Ok" \notin Errors
  BY <1>1, <1>2 DEF Errors
<1> QED BY <1>1, <1>3, <1>5, <1>6, <1>7, <1>8, LiveReturnStep

(* A call that only returns. *)
LEMMA JustReturnStep ==
    ASSUME IInv, op.stage \in {"write", "midwrite", "close"},
           NEW res \in {"Ok", "Unavailable"}, Return(op.call, res),
           torn' \in BOOLEAN, eos' \in BOOLEAN, torn' => torn \/ broken,
           UNCHANGED <<fired, accepted, delivered, consumed>>,
           UNCHANGED <<inner, pending, failed, headers, trailers, control, peer>>
    PROVE  IInv'
<1>1. inner \in {"Reading", "Duplex"}
  BY DEF IInv, OpOK
<1>2. /\ fired' \in Seq(Seq(Requests)) /\ accepted' \in Seq(Requests) /\ fired' # <<>>
      /\ delivered' \in Nat /\ consumed' \in Nat /\ delivered' = consumed'
      /\ consumed' <= Len(resp)
  BY <1>1, LiveFacts DEF IInv, TypeOK, HonestOK
<1>3. res \in {"Ok", "Message"} \cup Errors /\ res # "Aborted"
  BY DEF Errors
<1> QED BY <1>2, <1>3, LiveReturnStep

(* A failed write keeps the invariant. *)
LEMMA WriteErrorStep == ASSUME IInv, WriteError PROVE IInv'
<1>1. op.call = "send" /\ op.stage \in {"write", "midwrite"} /\ broken
  BY DEF WriteError, IInv, OpOK
<1>2. torn' \in BOOLEAN /\ eos' \in BOOLEAN
  BY DEF WriteError, Abandon, IInv, TypeOK
<1> QED BY <1>1, <1>2, JustReturnStep DEF WriteError

(* The END_STREAM going out keeps the invariant. *)
LEMMA CloseDoneStep == ASSUME IInv, CloseDone PROVE IInv'
<1>1. op.call = "close_send" /\ op.stage = "close"
  BY DEF CloseDone, IInv, OpOK
<1>2. torn' \in BOOLEAN /\ eos' \in BOOLEAN /\ torn' = torn
  BY DEF CloseDone, IInv, TypeOK
<1> QED BY <1>1, <1>2, JustReturnStep DEF CloseDone

(* A failed close keeps the invariant. *)
LEMMA CloseErrorStep == ASSUME IInv, CloseError PROVE IInv'
<1>1. op.call = "close_send" /\ op.stage = "close"
  BY DEF CloseError, IInv, OpOK
<1>2. /\ torn' \in BOOLEAN /\ eos' \in BOOLEAN /\ torn' = torn /\ fired' = fired
  BY DEF CloseError, request, IInv, TypeOK
<1> QED BY <1>1, <1>2, JustReturnStep DEF CloseError

(* A recv that ends the response. *)
LEMMA FinishStep ==
    ASSUME IInv, op.stage = "read", MayProceed, NEW atEnd \in BOOLEAN, Finish(atEnd),
           NEW res \in {"None"} \cup Errors, Return("recv", res),
           consumed' \in Nat, consumed' <= Len(resp), delivered' = delivered,
           res \in {"None", "Aborted"} =>
               /\ trailer # "open" /\ delivered = Len(resp)
               /\ FinalStatus = IF res = "None" THEN "OK" ELSE "Aborted",
           UNCHANGED <<pending, failed, headers, control, request, peer, accepted>>
    PROVE  IInv'
<1>1. /\ inner' = "Done" /\ failed' = failed /\ body' = body
      /\ sendClosed' = sendClosed /\ initError' = initError /\ headers' = headers
      /\ deadline' = deadline /\ cancelled' = cancelled
      /\ fullDuplex' = fullDuplex
      /\ fired' = fired /\ eos' = eos /\ torn' = torn
      /\ head' = head /\ resp' = resp /\ trailer' = trailer /\ broken' = broken
      /\ delivered' = delivered /\ accepted' = accepted
  BY DEF Finish, pending, control, request, peer
<1>2. trailers' \in {"none", "empty", "head", "wire"}
  BY DEF Finish
<1>3. inner \in {"Reading", "Duplex"} /\ op # Idle
  BY IdleFields DEF IInv, OpOK
<1>4. outcome \in {"none"} \cup RaceErrors
  BY <1>3 DEF IInv, OutcomeOK
<1>5. /\ CallType' /\ op' = Idle /\ op'.stage = "none"
      /\ outcome' \in {res, "over"}
  <2>1. res \notin {"Ok", "Message", "Dropped"}
    BY DEF Errors
  <2> QED BY <2>1, ReturnLemma DEF Call, Told
<1>6. TypeOK'
  <2>1. /\ body' \in Seq(Requests) /\ sendClosed' \in BOOLEAN
        /\ initError' \in {"none", "InvalidArgument", "Internal"}
        /\ failed' \in {"none"} \cup Errors
        /\ headers' \in {"none", "head", "empty"}
        /\ deadline' \in {"none", "armed", "past"} /\ cancelled' \in BOOLEAN
        /\ fullDuplex' \in BOOLEAN
    BY <1>1 DEF IInv, TypeOK
  <2>2. /\ fired' \in Seq(Seq(Requests)) /\ eos' \in BOOLEAN /\ torn' \in BOOLEAN
        /\ head' \in Heads \cup {NoHead} /\ resp' \in Seq(Items)
        /\ trailer' \in Trailers \cup {"open"} /\ broken' \in BOOLEAN
        /\ accepted' \in Seq(Requests) /\ delivered' \in Nat
    BY <1>1 DEF IInv, TypeOK
  <2> QED BY <1>1, <1>2, <1>5, <2>1, <2>2 DEF TypeOK, CallType
<1>7. OpOK' /\ FiredOK'
  BY <1>1, <1>5 DEF IInv, OpOK, FiredOK
<1>8. OutcomeOK' /\ TornOK'
  <2>1. res # "none"
    BY DEF Errors
  <2> QED BY <1>1, <1>3, <1>5, <2>1 DEF IInv, OutcomeOK, TornOK
<1>9. FinalStatus' = FinalStatus
  BY <1>1 DEF FinalStatus
<1>10. HonestOK'
  BY <1>1, <1>4, <1>5, <1>9 DEF IInv, HonestOK, HonestOutcome
<1> QED BY <1>6, <1>7, <1>8, <1>10 DEF IInv

(* Reading a response frame keeps the invariant. *)
LEMMA ReadItemStep == ASSUME IInv, AbortedIsThePeers, ReadItem PROVE IInv'
<1> DEFINE item == resp[consumed + 1]
<1> USE DEF FinishEarly
<1>1. /\ op.stage = "read" /\ MayProceed /\ consumed < Len(resp)
      /\ consumed' = consumed + 1 /\ consumed \in Nat /\ Len(resp) \in Nat
      /\ UNCHANGED <<pending, failed, headers, control, request, peer, accepted>>
      /\ inner \in {"Reading", "Duplex"} /\ op.call = "recv"
  BY DEF ReadItem, IInv, OpOK, TypeOK
<1>2. consumed' \in Nat /\ consumed' <= Len(resp)
  BY <1>1
<1>3. item \in Items
  BY <1>1 DEF IInv, TypeOK
<1>4. CASE item = "Message" /\ head.status = "absent"
  <2>1. delivered' = delivered + 1 /\ Return(op.call, "Message")
        /\ UNCHANGED <<inner, trailers>>
    BY <1>1, <1>4 DEF ReadItem
  <2>2. /\ fired' = fired /\ eos' = eos /\ torn' = torn /\ accepted' = accepted
    BY <1>1 DEF request
  <2>3. /\ torn' \in BOOLEAN /\ eos' \in BOOLEAN /\ fired' \in Seq(Seq(Requests))
        /\ accepted' \in Seq(Requests) /\ fired' # <<>>
    BY <1>1, <2>2, LiveFacts DEF IInv, TypeOK
  <2>4. delivered' = consumed' /\ delivered' \in Nat
    BY <1>1, <2>1, LiveFacts
  <2>5. "Message" \notin Errors /\ "Message" # "Ok" /\ "Message" # "Aborted"
    BY DEF Errors
  <2> QED BY <1>1, <1>2, <2>1, <2>2, <2>3, <2>4, <2>5, LiveReturnStep
<1>5. CASE item = "Message" /\ head.status # "absent"
  <2>1. FinishEarly /\ Return("recv", "Internal") /\ delivered' = delivered
    BY <1>5 DEF ReadItem
  <2>2. "Internal" \in Errors
    BY DEF Errors
  <2> QED BY <1>1, <1>2, <2>1, <2>2, FinishStep
<1>6. CASE item # "Message"
  <2>1. FinishEarly /\ Return("recv", item) /\ delivered' = delivered
    BY <1>6 DEF ReadItem
  <2>2. item \in Errors /\ item \notin {"None", "Aborted"}
    BY <1>3, <1>6, PeerAssumption DEF AbortedIsThePeers, Errors
  <2> HIDE DEF item
  <2> QED BY <1>1, <1>2, <2>1, <2>2, FinishStep
<1> QED BY <1>4, <1>5, <1>6

(* Reading the end of the response keeps the invariant. *)
LEMMA ReadEndStep == ASSUME IInv, ReadEnd PROVE IInv'
<1> DEFINE res == IF FinalStatus = "OK" THEN "None" ELSE FinalStatus
<1>1. /\ op.stage = "read" /\ MayProceed /\ consumed = Len(resp) /\ trailer # "open"
      /\ Finish(TRUE) /\ Return("recv", res) /\ consumed' = consumed
      /\ delivered' = delivered
      /\ UNCHANGED <<pending, failed, headers, control, request, peer, accepted>>
      /\ inner \in {"Reading", "Duplex"}
  BY DEF ReadEnd, IInv, OpOK
<1>2. res \in {"None"} \cup Errors
  BY DEF FinalStatus, Statuses, Errors
<1>3. res \in {"None", "Aborted"} =>
         FinalStatus = IF res = "None" THEN "OK" ELSE "Aborted"
  BY DEF FinalStatus, Statuses, Errors
<1>4. delivered = Len(resp) /\ consumed' \in Nat /\ consumed' <= Len(resp)
  BY <1>1, LiveFacts DEF IInv, HonestOK
<1> HIDE DEF res
<1> QED BY <1>1, <1>2, <1>3, <1>4, FinishStep

(* A failed read keeps the invariant. *)
LEMMA ReadErrorStep == ASSUME IInv, ReadError PROVE IInv'
<1>1. "Unavailable" \in Errors
  BY DEF Errors
<1>2. consumed' \in Nat /\ consumed' <= Len(resp)
  BY DEF ReadError, IInv, HonestOK, TypeOK
<1>3. PICK atEnd \in BOOLEAN : Finish(atEnd)
  BY DEF ReadError, FinishEarly
<1> QED BY <1>1, <1>2, <1>3, FinishStep DEF ReadError

(* Only a call in flight is dropped. *)
LEMMA DropsACall == ASSUME DropCall PROVE op # Idle /\ op.stage # "none"
BY ModeAssumption, IdleFields DEF DropCall

(* A future dropped keeps the invariant: what it had taken is gone, and what it had
   fired is never answered.                                                    *)
LEMMA DropCallStep == ASSUME IInv, DropCall PROVE IInv'
<1>1. /\ op.stage \in Droppable /\ op.stage # "none" /\ Return(op.call, "Dropped")
      /\ UNCHANGED <<inner, pending, failed, headers, trailers, control, fired, eos,
                     peer, consumed, accepted, delivered>>
      /\ torn' \in BOOLEAN
  BY ModeAssumption DEF DropCall, Abandon, IInv, TypeOK
<1>2. /\ fired' = fired /\ eos' = eos /\ accepted' = accepted /\ delivered' = delivered
      /\ consumed' = consumed /\ inner' = inner /\ failed' = failed
  BY <1>1
<1>3. CASE op.stage = "head"
  <2>1. /\ inner = "Pending" /\ op.call \in Call /\ torn' = torn
    BY <1>3, OpCall DEF DropCall, Abandon, IInv, OpOK, TypeOK
  <2>2. CallType' /\ op' = Idle /\ op'.stage = "none" /\ outcome' = outcome
    BY <1>1, <2>1, ReturnLemma
  <2>3. UNCHANGED <<headers, trailers, control, request, peer>>
    BY <1>1, <1>2, <2>1 DEF request
  <2>4. /\ body' = body /\ sendClosed' = sendClosed /\ initError' = initError
    BY <1>1 DEF pending
  <2>5. TypeOK'
    BY <1>2, <2>2, <2>3, <2>4, TypeByParts DEF IInv, TypeOK
  <2>6. OpOK' /\ FiredOK'
    BY <1>1, <1>2, <2>1, <2>2 DEF OpOK, FiredOK
  <2>7. OutcomeOK' /\ TornOK'
    BY <1>1, <1>2, <1>3, <2>1, <2>2
       DEF IInv, OutcomeOK, TornOK, WellBehavedCaller, OpensOnce
  <2>8. HonestOK'
    BY <1>1, <1>2, <2>1, <2>2, <2>3
       DEF IInv, HonestOK, HonestOutcome, FinalStatus, peer
  <2> QED BY <2>5, <2>6, <2>7, <2>8 DEF IInv
<1>4. CASE op.stage # "head"
  <2>1. op.stage \in {"read", "write", "midwrite", "close"}
    BY <1>1, <1>4 DEF IInv, TypeOK, Raced
  <2>2. inner \in {"Reading", "Duplex"}
    BY <2>1 DEF IInv, OpOK
  <2>3. /\ fired' \in Seq(Seq(Requests)) /\ accepted' \in Seq(Requests) /\ fired' # <<>>
        /\ delivered' \in Nat /\ consumed' \in Nat /\ delivered' = consumed'
        /\ consumed' <= Len(resp) /\ eos' \in BOOLEAN
    BY <1>2, <2>2, LiveFacts DEF IInv, TypeOK, HonestOK
  <2>4. "Dropped" \notin Errors /\ "Dropped" \notin {"Ok", "Aborted"}
    BY DEF Errors
  <2>5. WellBehavedCaller => torn' = torn
    <3>1. WellBehavedCaller => op.stage # "midwrite"
      BY <1>1 DEF WellBehavedCaller
    <3> QED BY <3>1 DEF DropCall, Abandon, IInv, TypeOK
  <2> QED BY <1>1, <2>1, <2>3, <2>4, <2>5, LiveReturnStep
<1> QED BY <1>3, <1>4

-----------------------------------------------------------------------------
(* The peer and the stream. *)
LEMMA PeerStep ==
    ASSUME IInv, StreamOpen, head' \in Heads \cup {NoHead}, resp' \in Seq(Items),
           trailer' \in Trailers \cup {"open"}, broken' \in BOOLEAN,
           broken => broken', Len(resp) <= Len(resp'),
           UNCHANGED <<inner, pending, failed, headers, trailers, control, op,
                       request, consumed, accepted, delivered, outcome, result>>
    PROVE  IInv'
<1>1. /\ inner' = inner /\ failed' = failed /\ body' = body /\ headers' = headers
      /\ sendClosed' = sendClosed /\ initError' = initError
      /\ trailers' = trailers /\ deadline' = deadline /\ cancelled' = cancelled
      /\ fullDuplex' = fullDuplex
      /\ fired' = fired /\ eos' = eos /\ torn' = torn
  BY DEF pending, control, request
<1>2. TypeOK'
  BY <1>1 DEF IInv, TypeOK
<1>3. OpOK' /\ FiredOK' /\ OutcomeOK' /\ TornOK'
  BY <1>1 DEF IInv, OpOK, FiredOK, OutcomeOK, TornOK, Blocked
<1>4. HonestOK'
  <2>1. outcome \notin {"None", "Aborted"}
    BY DEF StreamOpen, IInv, OpOK, HonestOK
  <2>2. consumed \in Nat /\ Len(resp) \in Nat /\ Len(resp') \in Nat
    BY DEF IInv, TypeOK
  <2> QED BY <1>1, <2>1, <2>2 DEF IInv, HonestOK, HonestOutcome
<1> QED BY <1>2, <1>3, <1>4 DEF IInv

(* Every step keeps the invariant. *)
LEMMA StepIInv ==
    ASSUME AbortedIsThePeers
    PROVE  IInv /\ [Next]_vars => IInv'
<1> SUFFICES ASSUME IInv, [Next]_vars PROVE IInv'
  OBVIOUS
<1>1. CASE Calls
  BY <1>1, SendStep, BufferRequestStep, CloseSendStep, RecvStep, OpenHeadStep,
     AddInvalidMetadataStep, SetDeadlineStep DEF Calls
<1>2. CASE Poll
  BY <1>2, RaceLostStep, FireRequestStep, HeadErrorStep, HeadArrivesStep, SuspendStep,
     WriteErrorStep, CloseErrorStep, ReadItemStep, ReadEndStep, ReadErrorStep DEF Poll
<1>3. CASE Transport
  BY <1>3, WriteSomeStep, WriteDoneStep, CloseDoneStep DEF Transport
<1>4. CASE DropCall
  BY <1>4, DropCallStep
<1>5. CASE Cancel \/ DeadlinePasses
  BY <1>5, CancelStep, DeadlinePassesStep
<1>6. CASE PeerHead
  <2>1. head' \in Heads /\ resp' = resp /\ trailer' = trailer /\ broken' = broken
    BY <1>6 DEF PeerHead, PeerSends
  <2> QED BY <1>6, <2>1, PeerStep DEF PeerHead, PeerSends, IInv, TypeOK
<1>7. CASE PeerItem
  <2>1. PICK i \in Items : resp' = Append(resp, i)
    BY <1>7 DEF PeerItem
  <2>2. resp \in Seq(Items)
    BY DEF IInv, TypeOK
  <2>3. resp' \in Seq(Items) /\ Len(resp) <= Len(resp')
    BY <2>1, <2>2
  <2> QED BY <1>7, <2>3, PeerStep DEF PeerItem, PeerSends, IInv, TypeOK
<1>8. CASE PeerEnd
  <2>1. head' = head /\ resp' = resp /\ trailer' \in Trailers /\ broken' = broken
    BY <1>8 DEF PeerEnd, PeerSends
  <2> QED BY <1>8, <2>1, PeerStep DEF PeerEnd, PeerSends, IInv, TypeOK
<1>9. CASE StreamBreaks
  <2>1. head' = head /\ resp' = resp /\ trailer' = trailer /\ broken' = TRUE
    BY <1>9 DEF StreamBreaks
  <2> QED BY <1>9, <2>1, PeerStep DEF StreamBreaks, IInv, TypeOK
<1>10. CASE UNCHANGED vars
  BY <1>10, StutterStep
<1> QED BY <1>1, <1>2, <1>3, <1>4, <1>5, <1>6, <1>7, <1>8, <1>9, <1>10 DEF Next, Peer

(* The invariant holds of every call, whatever its caller does. *)
THEOREM InvariantHolds == ASSUME AbortedIsThePeers PROVE Spec => []IInv
BY InitIInv, StepIInv, PTL DEF Spec

-----------------------------------------------------------------------------
(* Every step of the engine but the drop of a future. *)
Undropped ==
    \/ Calls \/ Poll \/ Transport
    \/ Cancel \/ DeadlinePasses \/ Peer \/ StreamBreaks \/ UNCHANGED vars

(* What goes out is all that was accepted and goes out once: each step but the
   drop of a future keeps it so.                                              *)
LEMMA WholeStep == ASSUME IInv, Whole, Undropped PROVE Whole'
<1> USE IdleFields DEF Whole
<1>1. CASE \E m \in Requests : Send(m) \/ BufferRequest(m)
  <2>1. PICK m \in Requests : Send(m) \/ BufferRequest(m)
    BY <1>1
  <2>2. /\ op = Idle /\ inner' = inner /\ fired' = fired
        /\ op' # Idle => inner = "Duplex" /\ op'.stage = "write"
        /\ \/ UNCHANGED <<body, accepted>>
           \/ /\ inner = "Pending" /\ op' = Idle
              /\ body' = Append(body, m) /\ accepted' = Append(accepted, m)
    BY <2>1 DEF Send, BufferRequest, Return, Await, Calling, request
  <2> QED BY <2>2
<1>2. CASE CloseSend \/ Recv \/ OpenHead
  BY <1>2 DEF CloseSend, Recv, OpenHead, Materialize, Fail, Return, Await, Calling,
     request, pending
<1>3. CASE \/ AddInvalidMetadata \/ SetDeadline \/ Cancel \/ DeadlinePasses
           \/ Peer \/ StreamBreaks
  BY <1>3 DEF AddInvalidMetadata, SetDeadline, Cancel, DeadlinePasses, Peer, PeerHead,
     PeerItem, PeerEnd, PeerSends, StreamBreaks, request, pending
<1>4. CASE FireRequest
  <2>1. fired' = <<accepted>> /\ accepted' = accepted
    BY <1>4 DEF FireRequest
  <2>2. op'.stage = "head" /\ ~op'.fresh /\ op' # Idle
    BY <1>4 DEF FireRequest, IInv, TypeOK
  <2> QED BY <2>1, <2>2
<1>5. CASE RaceLost \/ HeadError
  <2>1. op' = Idle /\ UNCHANGED <<fired, accepted>>
    BY <1>5 DEF RaceLost, HeadError, Fail, Return, request
  <2>2. inner' # "Pending"
    <3>1. CASE op.stage = "head"
      BY <1>5, <3>1 DEF RaceLost, HeadError, Fail
    <3>2. CASE op.stage # "head"
      BY <1>5, <3>2 DEF RaceLost, HeadError, Raced, IInv, OpOK
    <3> QED BY <3>1, <3>2
  <2> QED BY <2>1, <2>2
<1>6. CASE HeadArrives
  <2>1. /\ UNCHANGED <<fired, accepted>>
        /\ inner' # "Pending" /\ (op' = Idle \/ op'.stage # "head")
    BY <1>6 DEF HeadArrives, Fail, Return, Await, Calling, request
  <2> QED BY <2>1
<1>7. CASE Suspend \/ WriteSome
  <2>1. /\ op'.stage \in {"read", "write", "midwrite"} /\ op' # Idle
        /\ UNCHANGED <<fired, accepted>>
    BY <1>7 DEF Suspend, WriteSome, IInv, TypeOK, request
  <2> QED BY <2>1
<1>8. CASE WriteDone
  <2>1. inner = "Duplex" /\ inner' = inner /\ op' = Idle
    BY <1>8 DEF WriteDone, Return, IInv, OpOK
  <2>2. fired = <<accepted>>
    BY <2>1 DEF IInv, FiredOK
  <2>3. fired' = <<accepted'>>
    BY <1>8, <2>2 DEF WriteDone
  <2> QED BY <2>1, <2>3
<1>9. CASE \/ WriteError \/ CloseDone \/ CloseError
           \/ ReadItem \/ ReadEnd \/ ReadError
  BY <1>9 DEF WriteError, CloseDone, CloseError, ReadItem, ReadEnd, ReadError, Finish,
     FinishEarly, Return, IInv, OpOK, request
<1>10. CASE UNCHANGED vars
  BY <1>10 DEF vars, request, pending
<1> QED BY <1>1, <1>2, <1>3, <1>4, <1>5, <1>6, <1>7, <1>8, <1>9, <1>10
           DEF Undropped, Calls, Poll, Transport

(* A future dropped after its call has its head takes nothing with it but itself. *)
LEMMA DropLater ==
    ASSUME IInv, OpensOnce, DropCall
    PROVE  /\ inner # "Pending" /\ op' = Idle /\ Return(op.call, "Dropped")
           /\ UNCHANGED <<inner, fired, accepted, delivered, peer>>
<1>1. op.stage \in {"write", "midwrite", "read", "close"}
  BY ModeAssumption DEF DropCall, OpensOnce
<1> QED BY <1>1 DEF DropCall, Return, IInv, OpOK

(* So the request stays whole, unless the call that awaits its head is dropped. *)
LEMMA WholeNext == ASSUME IInv, Whole, OpensOnce, [Next]_vars PROVE Whole'
<1>1. CASE DropCall
  BY <1>1, DropLater, IdleFields DEF Whole
<1>2. CASE Undropped
  BY <1>2, WholeStep
<1> QED BY <1>1, <1>2 DEF Next, Undropped

(* A call that is not dropped while it awaits its head keeps its request whole. *)
LEMMA WholeHolds == ASSUME OpensOnce, AbortedIsThePeers PROVE Spec => []Whole
<1>1. Init => Whole
  BY IdleFields DEF Init, Whole
<1>2. IInv /\ Whole /\ [Next]_vars => Whole'
  BY WholeNext
<1> QED BY <1>1, <1>2, InvariantHolds, PTL DEF Spec

(* Type correctness of the engine. *)
THEOREM TypeCorrect == ASSUME AbortedIsThePeers PROVE Spec => []TypeOK
<1>1. IInv => TypeOK
  BY DEF IInv
<1> QED BY <1>1, InvariantHolds, PTL

(* However a call comes to be materialized, by recv, close_send or open_head,
   and whatever it fails on, it fires at most one request.                   *)
THEOREM FiresOneRequest ==
    ASSUME OpensOnce, AbortedIsThePeers PROVE Spec => []OneRequest
<1>1. Whole => OneRequest
  <2> SUFFICES ASSUME Whole, fired # <<>> PROVE Len(fired) <= 1
    BY DEF OneRequest
  <2>1. fired = <<accepted>>
    BY DEF Whole
  <2> QED BY <2>1
<1> QED BY <1>1, WholeHolds, PTL

(* What is on the wire is what send and the builders accepted, in order. *)
THEOREM FiresWhatWasSent ==
    ASSUME OpensOnce, AbortedIsThePeers PROVE Spec => []SentIsFired
<1>1. Whole => SentIsFired
  BY DEF Whole, SentIsFired
<1> QED BY <1>1, WholeHolds, PTL

(* recv never invents success, nor a status that is the peer's to give, whatever
   futures its caller drops and however it moves the deadline.                *)
THEOREM OutcomeIsHonest == ASSUME AbortedIsThePeers PROVE Spec => []HonestOutcome
<1>1. IInv => HonestOutcome
  BY DEF IInv, HonestOK
<1> QED BY <1>1, InvariantHolds, PTL

(* After recv has reported the end or an error, it returns no more messages,
   although read_one leaves a conn that lost its race live: unless the caller
   gives a live call a new deadline.                                         *)
THEOREM ErrorIsFinal ==
    ASSUME ~MayRearm, AbortedIsThePeers PROVE Spec => ErrIsFinal
<1>1. IInv /\ [Next]_vars => [outcome # "none" => UNCHANGED delivered]_vars
  <2> SUFFICES ASSUME IInv, Next, outcome # "none", delivered' # delivered
               PROVE  FALSE
    BY DEF vars
  <2>1. ReadItem
    BY DEF Next, Calls, Poll, Transport, Peer, Send, CloseSend, Recv, OpenHead,
       AddInvalidMetadata, BufferRequest, SetDeadline, RaceLost, FireRequest,
       HeadError, HeadArrives, Suspend, WriteSome, WriteDone, WriteError, CloseDone,
       CloseError, ReadEnd, ReadError, DropCall, Cancel, DeadlinePasses, PeerHead,
       PeerItem, PeerEnd, PeerSends, StreamBreaks
  <2>2. op.stage = "read" /\ MayProceed /\ inner \in {"Reading", "Duplex"} /\ op # Idle
    BY <2>1, IdleFields DEF ReadItem, IInv, OpOK
  <2> QED BY <2>2 DEF IInv, OutcomeOK, Blocked, MayProceed
<1> QED BY <1>1, InvariantHolds, PTL DEF Spec, ErrIsFinal

(* Nothing is written to the request stream after half a frame. *)
THEOREM TornFrameIsLast ==
    ASSUME WellBehavedCaller, AbortedIsThePeers PROVE Spec => TornIsLast
<1>1. IInv /\ [Next]_vars => [torn => UNCHANGED fired]_vars
  <2> SUFFICES ASSUME IInv, Next, torn, fired' # fired PROVE FALSE
    BY DEF vars
  <2>1. FireRequest \/ WriteDone
    BY DEF Next, Calls, Poll, Transport, Peer, Send, CloseSend, Recv, OpenHead,
       AddInvalidMetadata, BufferRequest, SetDeadline, RaceLost, HeadError,
       HeadArrives, Suspend, WriteSome, WriteError, CloseDone, CloseError, ReadItem,
       ReadEnd, ReadError, DropCall, Cancel, DeadlinePasses, PeerHead, PeerItem,
       PeerEnd, PeerSends, StreamBreaks, request
  <2>2. CASE FireRequest
    BY <2>2 DEF FireRequest, IInv, OpOK, TornOK
  <2>3. CASE WriteDone
    <3>1. op.stage \in {"write", "midwrite"} /\ MayProceed /\ ~broken /\ op # Idle
      BY <2>3, IdleFields DEF WriteDone
    <3> QED BY <3>1 DEF IInv, TornOK, Blocked, MayProceed
  <2> QED BY <2>1, <2>2, <2>3
<1> QED BY <1>1, InvariantHolds, PTL DEF Spec, TornIsLast

(* A cancelled call is quiet: it fires nothing and returns no message.  This
   needs no invariant and no assumption: it is the order of polls in race.   *)
THEOREM CancelledIsQuiet == Spec => QuietOnceCancelled
<1>1. [Next]_vars => [cancelled => UNCHANGED <<fired, delivered>>]_vars
  <2> SUFFICES ASSUME Next, cancelled PROVE UNCHANGED <<fired, delivered>>
    BY DEF vars
  <2>1. CASE Calls
    BY <2>1 DEF Calls, Send, CloseSend, Recv, OpenHead, AddInvalidMetadata,
       BufferRequest, SetDeadline, request
  <2>2. CASE Poll
    BY <2>2 DEF Poll, MayProceed, RaceLost, FireRequest, HeadError, HeadArrives,
       Suspend, WriteError, CloseError, ReadItem, ReadEnd, ReadError, request
  <2>3. CASE Transport
    BY <2>3 DEF Transport, MayProceed, WriteSome, WriteDone, CloseDone, request
  <2>4. CASE DropCall \/ Cancel \/ DeadlinePasses \/ Peer \/ StreamBreaks
    BY <2>4 DEF DropCall, Cancel, DeadlinePasses, Peer, PeerHead, PeerItem,
       PeerEnd, PeerSends, StreamBreaks, request
  <2> QED BY <2>1, <2>2, <2>3, <2>4 DEF Next
<1> QED BY <1>1, PTL DEF Spec, QuietOnceCancelled

-----------------------------------------------------------------------------
(* What the peer has said belongs to the one request, and starts with a head. *)
PeerOK ==
    /\ fired = <<>> => resp = <<>> /\ trailer = "open"
    /\ trailer # "open" => head # NoHead

(* What recv's caller is told without the peer: nothing new, a first error, one of
   the race's errors after another, or that the call it had an error of is over.  *)
Says ==
    \/ outcome' = outcome
    \/ outcome = "none" /\ outcome' \in Errors \ {"Aborted"}
    \/ outcome \in RaceErrors /\ outcome' \in RaceErrors
    \/ outcome \in Errors /\ outcome' = "over"

(* A step of the engine that hands nothing over, leaves the peer alone and says no
   more than that is a step of the promise.                                     *)
LEMMA TellStep ==
    ASSUME delivered' = delivered, UNCHANGED <<head, resp, trailer>>,
           Says
    PROVE  [Promised!Step]_(Promised!receivedVars)
<1>1. resp' = resp /\ trailer' = trailer /\ FinalStatus' = FinalStatus
  BY DEF FinalStatus
<1>2. CASE outcome' = outcome
  BY <1>1, <1>2 DEF Promised!receivedVars
<1>3. CASE outcome = "none" /\ outcome' \in Errors \ {"Aborted"}
  <2>1. /\ outcome' \in Statuses /\ outcome' \notin {"None", "OK", "Aborted"}
    BY <1>3 DEF Errors, Statuses
  <2>2. Promised!Tell(outcome')
    BY <1>1, <1>3, <2>1 DEF Promised!Tell
  <2> QED BY <2>1, <2>2 DEF Promised!Step
<1>4. CASE outcome \in RaceErrors /\ outcome' \in RaceErrors
  BY <1>1, <1>4 DEF RaceErrors, Promised!TellAnother, Promised!Step
<1>5. CASE outcome \in Errors /\ outcome' = "over"
  <2>1. outcome \notin {"None", "OK"} /\ outcome \in Statuses
    BY <1>5 DEF Errors, Statuses
  <2> QED BY <1>1, <1>5, <2>1 DEF Promised!Over, Promised!Step
<1> QED BY <1>2, <1>3, <1>4, <1>5 DEF Says

(* A call that a read is under way in has no verdict, and has handed over all it
   has read: for a deadline or a cancellation it had lost would win this race too. *)
LEMMA ReadFacts ==
    ASSUME ~MayRearm, IInv, op.stage = "read", MayProceed
    PROVE  outcome = "none" /\ delivered = consumed /\ op.call = "recv"
BY IdleFields DEF IInv, OpOK, OutcomeOK, HonestOK, Blocked, MayProceed

(* The calls, and the polls that end one without the peer's word. *)
LEMMA QuietStep ==
    ASSUME ~MayRearm, IInv,
           \/ Calls \/ RaceLost \/ HeadError \/ HeadArrives \/ Suspend
           \/ WriteSome \/ WriteDone \/ WriteError \/ CloseDone \/ CloseError
           \/ ReadError \/ Cancel \/ DeadlinePasses \/ StreamBreaks
    PROVE  /\ delivered' = delivered /\ UNCHANGED <<head, resp, trailer>>
           /\ fired' = <<>> => fired = <<>>
           /\ Says
<1> USE DEF peer, request, Says
<1>1. CASE \E m \in Requests : Send(m) \/ BufferRequest(m)
  BY <1>1 DEF Send, BufferRequest, Return, Await
<1>2. CASE CloseSend \/ OpenHead
  BY <1>2 DEF CloseSend, OpenHead, Materialize, Fail, Return, Await
<1>3. CASE Recv
  <2>1. /\ initError \in {"none", "InvalidArgument", "Internal"}
        /\ inner = "Failed" => failed \in Errors \ {"Aborted"}
        /\ inner = "Failed" => outcome \in {"none", failed}
        /\ inner = "Done" => outcome # "none"
        /\ inner = "Pending" => outcome = "none"
        /\ outcome \in {"none", "None", "over"} \cup Errors
    BY DEF IInv, TypeOK, HonestOK, OutcomeOK
  <2>2. CASE Materialize("recv")
    BY <1>3, <2>1, <2>2 DEF Recv, Materialize, Fail, Return, Await, Errors, Told
  <2>3. CASE inner = "Failed" /\ Return("recv", failed)
    BY <1>3, <2>1, <2>3 DEF Recv, Return, Errors, Told
  <2>4. CASE inner = "Done" /\ Return("recv", "None")
    BY <1>3, <2>1, <2>4 DEF Recv, Return, Told
  <2>5. CASE Await("recv", "read", <<>>)
    BY <1>3, <2>5 DEF Recv, Await
  <2> QED BY <1>3, <2>2, <2>3, <2>4, <2>5 DEF Recv
<1>4. CASE \/ AddInvalidMetadata \/ SetDeadline \/ Cancel \/ DeadlinePasses
           \/ StreamBreaks \/ Suspend \/ WriteSome
  BY <1>4 DEF AddInvalidMetadata, SetDeadline, Cancel, DeadlinePasses, StreamBreaks,
     Suspend, WriteSome
<1>5. CASE RaceLost \/ HeadError
  <2>1. RaceError \in RaceErrors /\ RaceErrors \subseteq Errors \ {"Aborted"}
    BY DEF RaceError, RaceErrors, Errors
  <2>2. CASE op.stage = "head"
    <3>1. outcome = "none"
      BY <2>2 DEF IInv, OpOK, OutcomeOK
    <3>2. \E r \in Errors \ {"Aborted"} : Return(op.call, r)
      BY <1>5, <2>1, <2>2 DEF RaceLost, HeadError, Fail, Errors
    <3> QED BY <1>5, <3>1, <3>2 DEF RaceLost, HeadError, Return, Told, Errors
  <2>3. CASE op.stage # "head"
    <3>1. RaceLost /\ Return(op.call, RaceError)
      BY <1>5, <2>3 DEF RaceLost, HeadError
    <3>2. outcome \in {"none"} \cup RaceErrors
      BY <2>3, <3>1 DEF RaceLost, Raced, IInv, OpOK, OutcomeOK
    <3>3. RaceError # "None"
      BY <2>1 DEF Errors
    <3> QED BY <2>1, <3>1, <3>2, <3>3 DEF RaceLost, Return, Told
  <2> QED BY <2>2, <2>3
<1>6. CASE HeadArrives
  <2>1. HeadVerdict(head) # "OK" => HeadVerdict(head) \in Errors \ {"Aborted"}
    BY DEF HeadVerdict, HttpCode, Errors
  <2>2. outcome = "none"
    BY <1>6 DEF HeadArrives, IInv, OpOK, OutcomeOK
  <2>3. "Ok" # "None" /\ "None" \notin Errors
    BY DEF Errors
  <2> QED BY <1>6, <2>1, <2>2, <2>3 DEF HeadArrives, Fail, Return, Await, Told
<1>7. CASE WriteDone \/ WriteError \/ CloseDone \/ CloseError
  <2>1. ASSUME WriteDone PROVE fired' # <<>>
    <3>1. fired # <<>> /\ fired \in Seq(Seq(Requests))
      BY <2>1 DEF WriteDone, IInv, TypeOK, OpOK, FiredOK
    <3>2. 1 \in DOMAIN fired /\ DOMAIN fired' = DOMAIN fired
      BY <2>1, <3>1 DEF WriteDone
    <3> QED BY <3>2
  <2> QED BY <1>7, <2>1 DEF WriteDone, WriteError, CloseDone, CloseError, Return
<1>8. CASE ReadError
  <2>1. outcome = "none"
    BY <1>8, ReadFacts DEF ReadError
  <2> QED BY <1>8, <2>1 DEF ReadError, Return, Errors, Told
<1> QED BY <1>1, <1>2, <1>3, <1>4, <1>5, <1>6, <1>7, <1>8 DEF Calls

(* The peer's own steps. *)
LEMMA PeerPromiseStep ==
    ASSUME IInv, PeerOK, Peer
    PROVE  [Promised!Step]_(Promised!receivedVars) /\ PeerOK'
<1>1. /\ fired # <<>> /\ fired' = fired /\ delivered' = delivered
      /\ outcome' = outcome /\ resp \in Seq(Items)
  BY DEF Peer, PeerHead, PeerItem, PeerEnd, PeerSends, StreamOpen, request, IInv,
     TypeOK, FiredOK
<1>2. CASE PeerHead
  <2>1. trailer = "open" /\ trailer' = trailer /\ resp' = resp
    BY <1>2 DEF PeerHead, PeerOK
  <2> QED BY <1>1, <2>1 DEF PeerOK, Promised!receivedVars
<1>3. CASE PeerItem
  <2>1. PICK i \in Items : resp' = Append(resp, i)
    BY <1>3 DEF PeerItem
  <2>2. trailer = "open" /\ trailer' = trailer /\ head' = head
    BY <1>3 DEF PeerItem
  <2>3. Len(resp') = Len(resp) + 1
    BY <1>1, <2>1
  <2>4. Promised!PeerSent
    BY <1>1, <2>2, <2>3 DEF Promised!PeerSent
  <2> QED BY <1>1, <2>2, <2>4 DEF PeerOK, Promised!Step
<1>4. CASE PeerEnd
  <2>1. /\ trailer = "open" /\ trailer' # "open" /\ resp' = resp
        /\ head' = head /\ head # NoHead
    BY <1>4, PeerAssumption DEF PeerEnd, Statuses, Errors
  <2>2. FinalStatus' \in Statuses
    BY DEF FinalStatus, Statuses, Errors
  <2>3. Promised!PeerSaid
    BY <1>1, <2>1, <2>2 DEF Promised!PeerSaid
  <2> QED BY <1>1, <2>1, <2>3 DEF PeerOK, Promised!Step
<1> QED BY <1>2, <1>3, <1>4 DEF Peer

(* A response frame that is read: a message handed over, or the end. *)
LEMMA ReadItemPromise ==
    ASSUME ~MayRearm, AbortedIsThePeers, IInv, ReadItem
    PROVE  [Promised!Step]_(Promised!receivedVars)
<1>1. /\ outcome = "none" /\ delivered = consumed /\ consumed < Len(resp)
      /\ UNCHANGED <<head, resp, trailer>>
  BY ReadFacts DEF ReadItem, peer
<1>2. CASE Return("recv", "Message") /\ delivered' = delivered + 1
  <2>1. outcome' = outcome /\ FinalStatus' = FinalStatus
    BY <1>1, <1>2 DEF Return, FinalStatus
  <2>2. Promised!HandOver
    BY <1>1, <1>2, <2>1 DEF Promised!HandOver
  <2> QED BY <2>2 DEF Promised!Step
<1>3. CASE /\ Return("recv", "Internal") \/ Return("recv", resp[consumed + 1])
           /\ resp[consumed + 1] # "Message" \/ Return("recv", "Internal")
           /\ delivered' = delivered
  <2>1. resp[consumed + 1] \in Items
    BY <1>1 DEF IInv, TypeOK
  <2>2. resp[consumed + 1] # "Message" => resp[consumed + 1] \in Errors \ {"Aborted"}
    BY <2>1, PeerAssumption DEF AbortedIsThePeers
  <2>3. outcome' \in Errors \ {"Aborted"}
    BY <1>1, <1>3, <2>2 DEF Return, Errors, Told
  <2> QED BY <1>1, <1>3, <2>3, TellStep DEF Says
<1> QED BY <1>2, <1>3 DEF ReadItem

(* The end of the response: the verdict is the one the peer gave. *)
LEMMA ReadEndPromise ==
    ASSUME ~MayRearm, IInv, ReadEnd
    PROVE  [Promised!Step]_(Promised!receivedVars)
<1>1. /\ outcome = "none" /\ delivered = Len(resp) /\ delivered' = delivered
      /\ trailer # "open" /\ UNCHANGED <<head, resp, trailer>>
      /\ outcome' = IF FinalStatus = "OK" THEN "None" ELSE FinalStatus
  BY ReadFacts DEF ReadEnd, Return, Told, peer, FinalStatus, Statuses, Errors
<1>2. FinalStatus' = FinalStatus /\ FinalStatus \in Statuses
  BY <1>1 DEF FinalStatus, Statuses, Errors
<1>3. FinalStatus # "None"
  BY <1>2 DEF Statuses, Errors
<1>4. Promised!Tell(FinalStatus)
  BY <1>1, <1>2, <1>3 DEF Promised!Tell
<1> QED BY <1>2, <1>4 DEF Promised!Step

(* The first poll of the request: the peer starts from nothing, as it did. *)
LEMMA FirePromise ==
    ASSUME Whole, PeerOK, FireRequest
    PROVE  [Promised!Step]_(Promised!receivedVars) /\ PeerOK'
<1>1. /\ resp = <<>> /\ trailer = "open" /\ resp' = <<>> /\ trailer' = "open"
      /\ delivered' = delivered /\ outcome' = outcome
  BY DEF Whole, PeerOK, FireRequest
<1> QED BY <1>1 DEF PeerOK, Promised!receivedVars

(* Every step of a call maps to a step of Received or to none. *)
LEMMA PromiseStep ==
    ASSUME OpensOnce, ~MayRearm, AbortedIsThePeers, IInv, Whole, PeerOK, [Next]_vars
    PROVE  [Promised!Step]_(Promised!receivedVars) /\ PeerOK'
<1>1. CASE \/ Calls \/ RaceLost \/ HeadError \/ HeadArrives \/ Suspend
           \/ WriteSome \/ WriteDone \/ WriteError \/ CloseDone \/ CloseError
           \/ ReadError \/ Cancel \/ DeadlinePasses \/ StreamBreaks
  <2>1. PeerOK'
    BY <1>1, QuietStep DEF PeerOK
  <2> QED BY <1>1, <2>1, QuietStep, TellStep
<1>2. CASE Peer
  BY <1>2, PeerPromiseStep
<1>3. CASE FireRequest
  BY <1>3, FirePromise
<1>4. CASE ReadItem \/ ReadEnd
  <2>1. UNCHANGED <<fired, head, resp, trailer>>
    BY <1>4 DEF ReadItem, ReadEnd, request, peer
  <2> QED BY <1>4, <2>1, ReadItemPromise, ReadEndPromise DEF PeerOK
<1>5. CASE UNCHANGED vars
  <2>1. UNCHANGED <<fired, head, resp, trailer, delivered, outcome>>
    BY <1>5 DEF vars, request, peer
  <2> QED BY <2>1, TellStep DEF PeerOK, Says
<1>6. CASE DropCall
  <2>1. UNCHANGED <<fired, head, resp, trailer, delivered, outcome>>
    BY <1>6, DropLater DEF Return, peer
  <2> QED BY <2>1, TellStep DEF PeerOK, Says
<1> QED BY <1>1, <1>2, <1>3, <1>4, <1>5, <1>6 DEF Next, Poll, Transport

(* A fresh engine has promised nothing yet. *)
LEMMA InitPromise == Init => Promised!Start /\ PeerOK
BY DEF Init, Promised!Start, PeerOK

(* KeepsPromise: a client implements Received, if its caller drops no call that
   awaits its head and moves no deadline of a live one.                       *)
THEOREM ImplementsReceived ==
    ASSUME OpensOnce, ~MayRearm, AbortedIsThePeers PROVE Spec => KeepsPromise
<1>1. Init => Promised!Start /\ PeerOK
  BY InitPromise
<1>2. /\ OpensOnce /\ ~MayRearm /\ AbortedIsThePeers
      /\ IInv /\ Whole /\ PeerOK /\ [Next]_vars =>
          [Promised!Step]_(Promised!receivedVars) /\ PeerOK'
  BY PromiseStep
<1>3. Spec => []IInv /\ []Whole
  BY InvariantHolds, WholeHolds
<1> QED BY <1>1, <1>2, <1>3, PTL DEF Spec, KeepsPromise, Promised!ReceivedSpec

-----------------------------------------------------------------------------
(* Who may write headers and trailers: an open once, before either is there, and *)
(* the end of the response.                                                    *)
KeptOK ==
    /\ DOMAIN op = {"call", "stage", "fresh", "data"}
    /\ op.stage = "head" => inner = "Pending"
    /\ op.stage \in {"write", "midwrite", "close"} => inner = "Duplex"
    /\ op.stage = "read" => inner \in {"Reading", "Duplex"}
    /\ inner \in {"Pending", "Failed"} => headers = "none"
    /\ trailers # "none" => inner = "Done"

(* What a step may do to the metadata that is there.                           *)
Keeps ==
    /\ headers = "head" => headers' = "head"
    /\ trailers # "none" => UNCHANGED trailers

(* The fields of a call that starts an await.                                  *)
LEMMA AwaitedFields ==
    ASSUME NEW call, NEW stage, NEW data
    PROVE  /\ DOMAIN Calling(call, stage, data) = {"call", "stage", "fresh", "data"}
           /\ Calling(call, stage, data).stage = stage
BY DEF Calling

(* KeptOK is inductive whatever the caller does, and a step that keeps it keeps  *)
(* the metadata.                                                               *)
LEMMA KeptStep == KeptOK /\ [Next]_vars => KeptOK' /\ Keeps
<1> SUFFICES ASSUME KeptOK, [Next]_vars PROVE KeptOK' /\ Keeps
  OBVIOUS
<1> USE IdleFields DEF KeptOK, Keeps
<1>0. DOMAIN Idle = {"call", "stage", "fresh", "data"}
  BY DEF Idle
<1>1. CASE \E m \in Requests : Send(m) \/ BufferRequest(m)
  BY <1>0, <1>1, AwaitedFields DEF Send, BufferRequest, Return, Await
<1>2. CASE CloseSend \/ OpenHead \/ Recv
  BY <1>0, <1>2, AwaitedFields
     DEF CloseSend, OpenHead, Recv, Materialize, Fail, Return, Await
<1>3. CASE AddInvalidMetadata \/ SetDeadline \/ Cancel \/ DeadlinePasses \/ StreamBreaks
  BY <1>3 DEF AddInvalidMetadata, SetDeadline, Cancel, DeadlinePasses, StreamBreaks
<1>4. CASE Peer
  BY <1>4 DEF Peer, PeerHead, PeerItem, PeerEnd, PeerSends
<1>5. CASE RaceLost \/ HeadError \/ DropCall
  BY <1>0, <1>5 DEF RaceLost, HeadError, DropCall, Fail, Return, Raced
<1>6. CASE HeadArrives
  BY <1>0, <1>6, AwaitedFields DEF HeadArrives, Fail, Return, Await
<1>7. CASE FireRequest \/ Suspend \/ WriteSome
  BY <1>7 DEF FireRequest, Suspend, WriteSome
<1>8. CASE WriteDone \/ WriteError \/ CloseDone \/ CloseError
  BY <1>0, <1>8 DEF WriteDone, WriteError, CloseDone, CloseError, Return
<1>9. CASE ReadItem \/ ReadEnd \/ ReadError
  BY <1>0, <1>9 DEF ReadItem, ReadEnd, ReadError, FinishEarly, Finish, Return
<1>10. CASE UNCHANGED vars
  BY <1>10 DEF vars
<1> QED
  BY <1>1, <1>2, <1>3, <1>4, <1>5, <1>6, <1>7, <1>8, <1>9, <1>10
     DEF Next, Calls, Poll, Transport

(* MetadataKept, whatever the caller does: headers() and trailers(), once they    *)
(* show something, go on showing it, on the error paths of recv too.             *)
THEOREM MetadataStays == Spec => MetadataKept
<1>1. Init => KeptOK
  BY IdleFields DEF Init, KeptOK, Idle
<1>2. KeptOK /\ [Next]_vars => KeptOK'
  BY KeptStep
<1>3. KeptOK /\ [Next]_vars =>
        [/\ headers = "head" => headers' = "head"
         /\ trailers # "none" => UNCHANGED trailers]_vars
  BY KeptStep DEF Keeps
<1> QED BY <1>1, <1>2, <1>3, PTL DEF Spec, MetadataKept
=============================================================================
