-------------------------- MODULE CallHeaders_proofs --------------------------
(***************************************************************************)
(* What the headers of one call say is read as it was meant, for every pair  *)
(* of builds, table of units, duration, size and foreign peer.               *)
(***************************************************************************)
EXTENDS CallHeaders, GrpcTimeout_proofs, Status_proofs

-----------------------------------------------------------------------------
(* The inductive invariant. *)
Option(o) == o = <<>> \/ \E n \in Nat : o = <<n>>
CallFields == {"deadline", "encoding", "entries", "initError", "frame", "default",
               "asked", "sent", "foreign"}
ServerFields == {"encoding", "race", "conn", "message", "head", "raw", "accepted",
                 "verdict", "status", "wrote"}

(* What TypeOK says, field by field. *)
Typed ==
    /\ scope \in Scopes /\ now \in 0..scope.maxNow
    /\ stage \in {"config", "pending", "sent", "accepted", "handling", "replied",
                  "done"}
    /\ DOMAIN call = CallFields /\ DOMAIN server = ServerFields
    /\ HeaderMap(defaults) /\ HeaderMap(request)
    /\ HeaderMap(server.head) /\ HeaderMap(server.raw)
    /\ HeaderMap(reply.head) /\ HeaderMap(reply.trailers)
    /\ Option(call.default) /\ Option(call.asked) /\ Option(call.deadline)
    /\ Option(server.race) /\ Option(server.conn)
    /\ call.encoding \in All(scope.client) /\ server.encoding \in All(scope.server)
    /\ call.entries \in Seq(Held) /\ call.foreign \in BOOLEAN
    /\ stage \in {"pending", "sent"} => Len(call.frame) = 1
    /\ stage = "handling" => Len(server.message) = 1
    /\ stage = "done" <=> outcome # <<>>

(* Who has come how far. *)
Progress ==
    /\ stage = "config" => call.asked = <<>> /\ call.deadline = <<>>
    /\ stage \in {"config", "pending"} => ~call.foreign
    /\ call.foreign => call.asked = <<>>
    /\ stage \in {"config", "pending", "sent"} => server = NoServer
    /\ stage \in {"accepted", "handling"} => server.verdict = "ok"
    /\ server.verdict = "ok" => stage \in {"accepted", "handling", "replied", "done"}
    /\ server.message # <<>> \/ server.conn # <<>> =>
           server.verdict = "ok" /\ stage # "accepted"

(* The defaults are what the setters were given, and a call is made of them. *)
Configured ==
    ~call.foreign =>
      /\ defaults["grpc-timeout"] =
             IF call.default = <<>> THEN <<>> ELSE <<Format(call.default[1])>>
      /\ defaults["grpc-encoding"] = <<>>
             \/ \E e \in scope.client : defaults["grpc-encoding"] = <<e>>
      /\ call.asked # <<>> =>
             call.deadline # <<>> /\ call.asked[1] <= call.deadline[1]
      /\ stage # "config" =>
           /\ defaults["grpc-encoding"] =
                  IF call.encoding = "identity" THEN <<>> ELSE <<call.encoding>>
           /\ call.deadline = <<>> => call.default = <<>>
           /\ \E s, l \in Nat : call.frame = <<EncodePayload(s, call.encoding, l)>>

(* Our request on the wire. *)
Fired ==
    ~call.foreign
    /\ (stage \in {"sent", "accepted", "handling"} \/ server.verdict # "none")
LegibleTimeout ==
    \/ TimeoutHeader = <<>>
    \/ \E h \in [value : Nat, unit : Nat] : TimeoutHeader = <<h>>
Written ==
    /\ LegibleTimeout
    /\ Fired =>
         /\ request["content-type"] = <<scope.suffix>> /\ HasTeTrailers(request)
         /\ request["grpc-accept-encoding"] = <<All(scope.client)>>
         /\ request["grpc-encoding"] =
                IF call.encoding = "identity" THEN <<>> ELSE <<call.encoding>>
         /\ request["grpc-timeout"] =
                IF call.deadline = <<>> THEN <<>>
                ELSE <<Format(call.deadline[1] - call.sent)>>
         /\ call.deadline # <<>> => call.sent \in Nat /\ call.sent <= call.deadline[1]

(* What the server made of the request. *)
Taken ==
    /\ server.verdict = "ok" =>
         /\ server.accepted \in Nat /\ server.accepted <= now
         /\ TimeoutHeader # <<>> => Timeout # <<>>
         /\ server.race =
                IF Timeout = <<>> THEN <<>> ELSE <<server.accepted + Timeout[1]>>
         /\ RequestEncoding = <<server.encoding>>
    /\ server.conn # <<>> => server.race # <<>> /\ server.race[1] <= server.conn[1]
    /\ Fired /\ server.verdict # "none" =>
         server.verdict = IF scope.suffix # scope.served THEN "415"
                          ELSE IF call.encoding \notin All(scope.server)
                          THEN "Unimplemented" ELSE "ok"
    /\ ~call.foreign /\ server.message # <<>> =>
         server.message[1] = ReadMessage(call.frame[1], server.encoding)

(* A head that says what the server negotiated. *)
Says(h) ==
    /\ h["content-type"] = <<scope.served>>
    /\ h["grpc-encoding"] = IF Negotiated = "identity" THEN <<>> ELSE <<Negotiated>>
Answered ==
    /\ server.verdict = "ok" /\ Untouched => Says(server.head)
    /\ server.verdict # "none" /\ stage = "replied" /\ reply.http = 200 /\ Untouched =>
         Says(reply.head)
    /\ server.verdict = "ok" /\ stage = "replied" =>
         \/ reply.frame = <<>>
         \/ \E s, l \in Nat : reply.frame = <<EncodePayload(s, Negotiated, l)>>

(* The metadata of our request, which the defaults have no part in. *)
Carried ==
    /\ \A n \in Names \ {"grpc-encoding", "grpc-timeout"} : defaults[n] = <<>>
    /\ stage \in {"config", "pending"} => request = NoHeaders
    /\ ~call.foreign /\ request # NoHeaders =>
         /\ \A k \in Keys : request[k] = Appended(call.entries, k)
         /\ \A n \in Reserved : Len(request[n]) <= 1

(* The status the server ends a call with is in the trailers, over what the handler
   wrote there; and only an Ok has a message.                                 *)
Told ==
    /\ \A k \in Keys : server.raw[k] \in Seq(WireValues)
    /\ server.message # <<>> => server.message[1].code \in Codes
    /\ server.status # <<>> =>
         /\ stage \in {"replied", "done"} /\ server.verdict # "none"
         /\ server.status[1] \in StatusValues /\ reply.http = 200
         /\ reply.trailers = StatusWriteInto(server.status[1], server.raw)
         /\ server.status[1].code # "Ok" \/ server.verdict # "ok" => reply.frame = <<>>

(* What the caller of a call that was answered has read. *)
MetadataHeard ==
    stage = "done" /\ server.status # <<>> /\ server.status[1].code # "Ok" /\ Untouched =>
        \A k \in Keys :
            LET got == outcome[1].metadata[k]
                own == Amount(server.status[1].metadata, k)
            IN  /\ SubSeq(got, 1, Len(got) - own) = Decoded(k, server.raw[k])
                /\ EndsWith(got, server.status[1].metadata, k)
Heard == StatusSurvives /\ MetadataHeard

IInv == Typed /\ Progress /\ Configured /\ Written /\ Taken

-----------------------------------------------------------------------------
(* What is said once in a map of headers is read back.                          *)
LEMMA Reserveds ==
    /\ "content-type" \in Names /\ "te" \in Names /\ "grpc-accept-encoding" \in Names
    /\ "grpc-encoding" \in Names /\ "grpc-timeout" \in Names
BY DEF Names, Reserved

(* Insert leaves exactly its value under its name, and the other names alone. *)
LEMMA InsertSays ==
    ASSUME NEW h, HeaderMap(h), NEW n \in Names, NEW value
    PROVE  /\ HeaderMap(Insert(h, n, value)) /\ Insert(h, n, value)[n] = <<value>>
           /\ \A m \in Names \ {n} : Insert(h, n, value)[m] = h[m]
BY DEF Insert, HeaderMap

(* A name inserted once is heard as its value. *)
LEMMA GetStrOne ==
    ASSUME NEW h, NEW n, NEW value, h[n] = <<value>>
    PROVE  GetStr(h, n) = <<value>>
BY DEF GetStr

(* A sequence of length one is its one element. *)
LEMMA OnlyElement ==
    ASSUME NEW S, NEW q \in Seq(S), Len(q) = 1
    PROVE  q[1] \in S /\ q = <<q[1]>>
<1>1. q[1] \in S
  BY ElementOfSeq
<1>2. <<q[1]>> \in Seq(S) /\ Len(<<q[1]>>) = 1 /\ <<q[1]>>[1] = q[1]
  BY <1>1
<1>3. q = <<q[1]>>
  BY <1>2, SeqEqual
<1> QED BY <1>1, <1>3

(* A name with no value is heard as none. *)
LEMMA GetStrNone ==
    ASSUME NEW h, NEW n, h[n] = <<>>
    PROVE  GetStr(h, n) = <<>>
BY DEF GetStr

(* Metadata leaves the headers of the framework alone.                          *)
LEMMA MetadataIsApart ==
    ASSUME NEW entries \in Seq(Held), NEW h, HeaderMap(h)
    PROVE  /\ HeaderMap(WriteInto(entries, h))
           /\ \A n \in Reserved : WriteInto(entries, h)[n] = h[n]
<1>1. HeaderMap(WriteInto(entries, h))
  BY DEF HeaderMap, WriteInto
<1>2. ASSUME NEW n \in Reserved PROVE WriteInto(entries, h)[n] = h[n]
  <2>1. \A e \in Held : e.key \notin Reserved
    BY DEF Held, IsReserved
  <2>2. n \notin KeysOf(entries)
    BY <2>1 DEF KeysOf
  <2>3. n \in Names
    BY DEF Names
  <2> QED BY <2>2, <2>3 DEF WriteInto
<1> QED BY <1>1, <1>2

(* parse_grpc_timeout yields a duration or nothing.                             *)
LEMMA ParseOption ==
    ASSUME NEW h \in [value : Nat, unit : Nat] PROVE Option(Parse(h))
<1>1. CASE h.unit \in DOMAIN Units
  <2>1. Units[h.unit] \in Nat /\ h.value \in Nat
    BY <1>1, UnitsFacts
  <2>2. h.value * Units[h.unit] \in Nat
    BY <2>1
  <2> QED BY <2>2 DEF Parse, Option
<1>2. CASE h.unit \notin DOMAIN Units
  BY <1>2 DEF Parse, Option
<1> QED BY <1>1, <1>2

(* What Format writes has the shape Parse takes. *)
LEMMA FormatType ==
    ASSUME NEW d \in Nat PROVE Format(d) \in [value : Nat, unit : Nat]
<1>1. /\ Format(d).unit \in DOMAIN Units /\ Format(d).value \in 0..MaxValue
  BY FormatCovers
<1>2. Format(d).unit \in Nat /\ Format(d).value \in Nat
  BY <1>1, UnitsFacts, WidthAssumption
<1>3. \E v, u : Format(d) = [value |-> v, unit |-> u]
  BY DEF Format
<1> QED BY <1>2, <1>3

(* What the server makes of the timeout header is an Option. *)
LEMMA TimeoutOption == ASSUME Written PROVE Option(Timeout)
BY ParseOption DEF Written, LegibleTimeout, Timeout, Option

(* What a call hears of its default timeout: no less than can be said.          *)
LEMMA DefaultHeard ==
    ASSUME Typed, Configured, ~call.foreign
    PROVE  /\ Option(DefaultTimeout)
           /\ DefaultTimeout = <<>> <=> call.default = <<>>
           /\ call.default # <<>> => Sayable(call.default[1]) <= DefaultTimeout[1]
<1>1. CASE call.default = <<>>
  BY <1>1, GetStrNone DEF Configured, DefaultTimeout, Option
<1>2. ASSUME NEW d \in Nat, call.default = <<d>>
      PROVE  /\ Option(DefaultTimeout) /\ DefaultTimeout # <<>>
             /\ Sayable(d) <= DefaultTimeout[1]
  <2> DEFINE t == Format(d).value * Units[Format(d).unit]
  <2>1. defaults["grpc-timeout"] = <<Format(d)>>
    BY <1>2 DEF Configured
  <2>2. DefaultTimeout = Parse(Format(d))
    BY <2>1, GetStrOne DEF DefaultTimeout
  <2>3. DefaultTimeout = <<t>>
    BY <2>2, ParseFormat
  <2>4. /\ t \in 0..Longest
        /\ d <= Longest => d <= t
        /\ d > Longest => t = Longest
    BY FormatCovers
  <2>5. Longest \in Nat
    BY UnitsFacts
  <2> HIDE DEF t
  <2> QED BY <2>3, <2>4, <2>5 DEF Option, Sayable
<1> QED BY <1>1, <1>2 DEF Typed, Option

-----------------------------------------------------------------------------
(* The initial states. *)
LEMMA InitIInv == Init => IInv /\ Answered
<1> SUFFICES ASSUME Init PROVE IInv /\ Answered
  OBVIOUS
<1>1. HeaderMap(NoHeaders) /\ \A n \in Names : NoHeaders[n] = <<>>
  BY DEF HeaderMap, NoHeaders
<1>2. scope.maxNow \in Nat
  BY ScopesAssumption DEF Init
<1>3. Typed
  BY <1>1, <1>2 DEF Init, Typed, NoCall, NoServer, NoReply, Option, CallFields,
                    ServerFields, All
<1>4. Progress
  BY DEF Init, Progress, NoCall, NoServer
<1>5. Configured
  BY <1>1, Reserveds DEF Init, Configured, NoCall
<1>6. Written
  BY <1>1, Reserveds, GetStrNone DEF Init, Written, LegibleTimeout, TimeoutHeader,
                                         Fired, NoServer
<1>7. Taken
  BY DEF Init, Taken, NoServer
<1>8. Answered
  BY DEF Init, Answered, NoServer
<1> QED BY <1>3, <1>4, <1>5, <1>6, <1>7, <1>8 DEF IInv

(* Every step keeps the types. *)
LEMMA TypedStep == IInv /\ [Next]_vars => Typed'
<1> SUFFICES ASSUME IInv, [Next]_vars PROVE Typed'
  OBVIOUS
<1> USE DEF IInv
<1>0. /\ scope.maxNow \in Nat /\ scope.defaultTimeouts \subseteq Nat
      /\ scope.timeouts \subseteq Nat
  BY ScopesAssumption DEF Typed
<1>1. CASE Tick
  BY <1>0, <1>1 DEF Tick, Typed
<1>2. ASSUME NEW e \in scope.encodings, SetOutboundCompression(e) PROVE Typed'
  BY <1>2, Reserveds, InsertSays DEF SetOutboundCompression, Typed, HeaderMap
<1>3. ASSUME NEW d \in scope.defaultTimeouts, SetDefaultTimeout(d) PROVE Typed'
  <2>1. DOMAIN call' = CallFields /\ Option(call'.default)
    BY <1>0, <1>3 DEF SetDefaultTimeout, Typed, CallFields, Option
  <2>2. HeaderMap(defaults')
    BY <1>3, Reserveds, InsertSays DEF SetDefaultTimeout, Typed, HeaderMap
  <2> QED BY <1>3, <2>1, <2>2 DEF SetDefaultTimeout, Typed, CallFields
<1>4. ASSUME NEW s \in scope.sizes, NEW l \in scope.lengths, Construct(s, l)
      PROVE  Typed'
  <2>1. ~call.foreign
    BY <1>4 DEF Construct, Progress
  <2>2. Option(call'.asked) /\ Option(call'.deadline)
    <3>1. now \in Nat
      BY <1>0 DEF Typed
    <3>2. Longest \in Nat
      BY UnitsFacts
    <3>3. Option(DefaultTimeout)
      BY <2>1, DefaultHeard
    <3> QED BY <1>4, <3>1, <3>2, <3>3 DEF Construct, Typed, CallFields, Option, Sayable
  <2>3. call'.encoding \in All(scope.client)
    BY <1>4 DEF Construct, Typed, CallFields, FromGrpcEncoding, All
  <2>4. Len(call'.frame) = 1
    BY <1>4 DEF Construct, Typed, CallFields
  <2> QED BY <1>4, <2>2, <2>3, <2>4 DEF Construct, Typed, CallFields
<1>5. ASSUME NEW e \in scope.entries, WithMetadata(e) PROVE Typed'
  <2>1. Accepts(e) => e \in Held
    <3>1. e \in EntryValues
      BY ScopesAssumption DEF Typed
    <3> QED BY <3>1, KeysAssumption
               DEF EntryValues, Accepts, AcceptsAscii, AcceptsBinary, Held
  <2> QED BY <1>5, <2>1 DEF WithMetadata, Typed, CallFields
<1>6. ASSUME NEW d \in scope.timeouts, WithTimeout(d) PROVE Typed'
  <2>1. now \in Nat
    BY <1>0 DEF Typed
  <2> QED BY <1>0, <1>6, <2>1 DEF WithTimeout, Typed, CallFields, Option
<1>7. CASE Misused \/ TooLate
  <2>1. PICK code : stage = "pending" /\ Ends(code)
    BY <1>7 DEF Misused, TooLate
  <2>2. stage' = "done" /\ outcome' # <<>>
    BY <2>1 DEF Ends
  <2> QED BY <2>1, <2>2 DEF Ends, Typed
<1>8. CASE Fire
  <2>1. HeaderMap(defaults) /\ call.entries \in Seq(Held)
    BY DEF Typed
  <2>2. HeaderMap(request')
    BY <1>8, <2>1, Reserveds, InsertSays, MetadataIsApart DEF Fire, BuildRequest
  <2> QED BY <1>8, <2>2 DEF Fire, Typed, CallFields
<1>9. ASSUME NEW h \in scope.foreignRequests, NEW f \in scope.foreignFrames,
             ForeignRequest(h, f)
      PROVE  Typed'
  <2>1. HeaderMap(h)
    BY ScopesAssumption DEF Typed
  <2> QED BY <1>9, <2>1 DEF ForeignRequest, Typed, NoCall, CallFields, Option, All
<1>10. CASE RefuseHttp
  <2>1. HeaderMap(NoHeaders)
    BY DEF HeaderMap, NoHeaders
  <2> QED BY <1>10, <2>1 DEF RefuseHttp, Typed, ServerFields, NoReply
<1>11. \A status, raw : HeaderMap(raw) => HeaderMap(StatusWriteInto(status, raw))
  BY DEF StatusWriteInto, WriteInto, HeaderMap
<1>12. CASE RefuseCall
  <2>1. HeaderMap(NoHeaders) /\ HeaderMap(Head200)
    BY Reserveds, InsertSays DEF HeaderMap, NoHeaders, Head200
  <2> QED BY <1>11, <1>12, <2>1 DEF RefuseCall, Prepared, Answer, Typed, ServerFields
<1>13. CASE Accept
  <2>1. HeaderMap(NoHeaders) /\ HeaderMap(Head200)
    BY Reserveds, InsertSays DEF HeaderMap, NoHeaders, Head200
  <2>2. now \in Nat /\ Option(Timeout)
    BY <1>0, TimeoutOption DEF Typed
  <2>3. RequestEncoding[1] \in All(scope.server)
    BY <1>13 DEF Accept, Acceptable, RequestEncoding, FromGrpcEncoding, All
  <2> QED BY <1>13, <2>1, <2>2, <2>3
             DEF Accept, Acceptable, Prepared, Typed, ServerFields, Option
<1>14. CASE NewServerConn
  <2>1. now \in Nat /\ Option(Timeout)
    BY <1>0, TimeoutOption DEF Typed
  <2> QED BY <1>14, <2>1 DEF NewServerConn, Typed, ServerFields, Option
<1>15. CASE RequestUnread
  BY <1>11, <1>15 DEF RequestUnread, Answer, Typed, ServerFields
<1>16. ASSUME NEW h \in scope.headers, WriteHeader(h[1], h[2]) PROVE Typed'
  BY <1>16 DEF WriteHeader, Handling, Typed, ServerFields, HeaderMap
<1>17. ASSUME NEW t \in scope.trailers, WriteTrailer(t[1], t[2]) PROVE Typed'
  BY <1>17 DEF WriteTrailer, AppendTo, Handling, Typed, ServerFields, HeaderMap
<1>18. ASSUME NEW s \in scope.sizes, NEW l \in scope.lengths, Respond(s, l)
       PROVE  Typed'
  BY <1>11, <1>18 DEF Respond, Handling, Answer, Typed, ServerFields
<1>19. ASSUME NEW s \in scope.statuses, FailCall(s) PROVE Typed'
  BY <1>11, <1>19 DEF FailCall, Handling, Answer, Typed, ServerFields
<1>20. ASSUME NEW a \in scope.foreignReplies, ForeignReply(a) PROVE Typed'
  <2>1. HeaderMap(a.head) /\ HeaderMap(a.trailers)
    BY ScopesAssumption DEF Typed
  <2> QED BY <1>20, <2>1 DEF ForeignReply, Typed
<1>21. CASE ReadReply
  BY <1>21 DEF ReadReply, Typed
<1>22. CASE UNCHANGED vars
  BY <1>22 DEF vars, Typed
<1>23. CASE Panics
  BY <1>23 DEF Panics, Acceptable, Prepared, Typed, ServerFields
<1> QED BY <1>1, <1>2, <1>3, <1>4, <1>5, <1>6, <1>7, <1>8, <1>9, <1>10, <1>12, <1>13,
           <1>14, <1>15, <1>16, <1>17, <1>18, <1>19, <1>20, <1>21, <1>22, <1>23 DEF Next

(* The server is at work only from the acceptance to the reply. *)
LEMMA ProgressStep == IInv /\ [Next]_vars => Progress'
<1> SUFFICES ASSUME IInv, [Next]_vars PROVE Progress'
  OBVIOUS
<1>0. DOMAIN server = ServerFields /\ DOMAIN call = CallFields /\ Progress
  BY DEF IInv, Typed
<1>1. CASE Tick
  BY <1>0, <1>1 DEF Tick, Progress
<1>2. ASSUME NEW e, SetOutboundCompression(e) PROVE Progress'
  BY <1>0, <1>2 DEF SetOutboundCompression, Progress
<1>3. ASSUME NEW d, SetDefaultTimeout(d) PROVE Progress'
  BY <1>0, <1>3 DEF SetDefaultTimeout, Progress, CallFields
<1>4. ASSUME NEW s, NEW l, Construct(s, l) PROVE Progress'
  BY <1>0, <1>4 DEF Construct, Progress, NoServer
<1>5. ASSUME NEW e, WithMetadata(e) PROVE Progress'
  BY <1>0, <1>5 DEF WithMetadata, Progress, NoServer
<1>6. ASSUME NEW d, WithTimeout(d) PROVE Progress'
  BY <1>0, <1>6 DEF WithTimeout, Progress, NoServer
<1>7. CASE Misused \/ TooLate
  BY <1>0, <1>7 DEF Misused, TooLate, Ends, Progress, NoServer
<1>8. CASE Fire
  BY <1>0, <1>8 DEF Fire, Progress, NoServer
<1>9. ASSUME NEW h, NEW f, ForeignRequest(h, f) PROVE Progress'
  BY <1>0, <1>9 DEF ForeignRequest, Progress, NoServer, NoCall
<1>10. CASE RefuseHttp
  BY <1>0, <1>10 DEF RefuseHttp, Progress, NoServer, ServerFields
<1>11. CASE RefuseCall
  BY <1>0, <1>11 DEF RefuseCall, Prepared, Answer, Progress, NoServer, ServerFields
<1>12. CASE Accept
  BY <1>0, <1>12 DEF Accept, Acceptable, Prepared, Progress, NoServer, ServerFields
<1>13. CASE NewServerConn
  BY <1>0, <1>13 DEF NewServerConn, Progress, ServerFields
<1>14. CASE RequestUnread
  BY <1>0, <1>14 DEF RequestUnread, Answer, Progress, ServerFields
<1>15. ASSUME NEW h, WriteHeader(h[1], h[2]) PROVE Progress'
  BY <1>0, <1>15 DEF WriteHeader, Handling, Progress, ServerFields
<1>16. ASSUME NEW t, WriteTrailer(t[1], t[2]) PROVE Progress'
  BY <1>0, <1>16 DEF WriteTrailer, Handling, Progress, ServerFields
<1>17. ASSUME NEW s, NEW l, Respond(s, l) PROVE Progress'
  BY <1>0, <1>17 DEF Respond, Handling, Answer, Progress, ServerFields
<1>18. ASSUME NEW s, FailCall(s) PROVE Progress'
  BY <1>0, <1>18 DEF FailCall, Handling, Answer, Progress, ServerFields
<1>19. ASSUME NEW a, ForeignReply(a) PROVE Progress'
  BY <1>0, <1>19 DEF ForeignReply, Progress, NoServer
<1>20. CASE ReadReply
  BY <1>0, <1>20 DEF ReadReply, Progress
<1>21. CASE UNCHANGED vars
  BY <1>0, <1>21 DEF vars, Progress
<1>22. CASE Panics
  BY <1>0, <1>22 DEF Panics, Acceptable, Prepared, Progress, NoServer, ServerFields
<1> QED BY <1>1, <1>2, <1>3, <1>4, <1>5, <1>6, <1>7, <1>8, <1>9, <1>10, <1>11, <1>12,
           <1>13, <1>14, <1>15, <1>16, <1>17, <1>18, <1>19, <1>20, <1>21, <1>22 DEF Next

(* Once the request is on its way, nothing the caller has said changes. *)
AfterFire ==
    \/ RefuseHttp \/ RefuseCall \/ Accept \/ NewServerConn \/ Panics \/ RequestUnread
    \/ \E h \in scope.headers : WriteHeader(h[1], h[2])
    \/ \E t \in scope.trailers : WriteTrailer(t[1], t[2])
    \/ \E s \in scope.sizes, l \in scope.lengths : Respond(s, l)
    \/ \E s \in scope.statuses : FailCall(s)
    \/ \E a \in scope.foreignReplies : ForeignReply(a)
    \/ ReadReply
(* Once a call is fired, nothing the request was made of changes. *)
LEMMA AfterFireKeeps ==
    ASSUME AfterFire
    PROVE  /\ UNCHANGED <<scope, now, defaults, call, request>>
           /\ stage \in {"sent", "accepted", "handling", "replied"}
           /\ stage' \notin {"config", "pending", "sent"}
           /\ stage = "replied" => UNCHANGED server /\ stage' = "done"
<1>1. CASE RefuseHttp \/ RefuseCall \/ Accept \/ NewServerConn \/ Panics
  BY <1>1 DEF RefuseHttp, RefuseCall, Accept, NewServerConn, Panics, Acceptable,
              Prepared, Answer
<1>2. CASE RequestUnread \/ ReadReply
  BY <1>2 DEF RequestUnread, ReadReply, Answer
<1>3. ASSUME NEW h, NEW v, WriteHeader(h, v) \/ WriteTrailer(h, v)
      PROVE  /\ UNCHANGED <<scope, now, defaults, call, request>>
             /\ stage = "handling" /\ stage' = "handling"
  BY <1>3 DEF WriteHeader, WriteTrailer, Handling
<1>4. ASSUME NEW s, NEW l, Respond(s, l) \/ FailCall(s)
      PROVE  /\ UNCHANGED <<scope, now, defaults, call, request>>
             /\ stage = "handling" /\ stage' = "replied"
  BY <1>4 DEF Respond, FailCall, Handling, Answer
<1>5. ASSUME NEW a, ForeignReply(a)
      PROVE  /\ UNCHANGED <<scope, now, defaults, call, request>>
             /\ stage = "sent" /\ stage' = "replied"
  BY <1>5 DEF ForeignReply
<1> QED BY <1>1, <1>2, <1>3, <1>4, <1>5 DEF AfterFire

(* The call keeps what its defaults and its builders said. *)
LEMMA ConfiguredStep == IInv /\ [Next]_vars => Configured'
<1> SUFFICES ASSUME IInv, [Next]_vars PROVE Configured'
  OBVIOUS
<1>0. /\ DOMAIN call = CallFields /\ HeaderMap(defaults) /\ Progress /\ Configured
      /\ Option(call.asked) /\ Option(call.deadline) /\ now \in Nat
      /\ scope.sizes \subseteq Nat /\ scope.lengths \subseteq Nat
      /\ scope.defaultTimeouts \subseteq Nat /\ scope.timeouts \subseteq Nat
      /\ "identity" \notin scope.client
  <2>1. scope \in Scopes /\ "identity" \notin Codecs
    BY DEF IInv, Typed, Codecs
  <2>2. scope.client \subseteq Codecs /\ scope.maxNow \in Nat
    BY <2>1, ScopesAssumption
  <2>3. /\ scope.sizes \subseteq Nat /\ scope.lengths \subseteq Nat
        /\ scope.defaultTimeouts \subseteq Nat /\ scope.timeouts \subseteq Nat
    BY <2>1, ScopesAssumption
  <2> QED BY <2>1, <2>2, <2>3 DEF IInv, Typed
<1>1. CASE Tick \/ Misused \/ TooLate \/ UNCHANGED vars
  <2>1. UNCHANGED <<scope, defaults, call>> /\ (stage' # "config" => stage # "config")
    BY <1>1 DEF Tick, Misused, TooLate, Ends, vars
  <2> QED BY <1>0, <2>1 DEF Configured
<1>2. ASSUME NEW e, SetOutboundCompression(e) PROVE Configured'
  <2>1. /\ UNCHANGED <<scope, stage, call>> /\ stage = "config"
        /\ defaults'["grpc-timeout"] = defaults["grpc-timeout"]
    BY <1>0, <1>2, Reserveds DEF SetOutboundCompression, HeaderMap, Insert
  <2>2. \/ defaults'["grpc-encoding"] = <<>>
        \/ \E f \in scope.client : defaults'["grpc-encoding"] = <<f>>
    BY <1>0, <1>2, Reserveds DEF SetOutboundCompression, HeaderMap, Insert, All
  <2> QED BY <1>0, <2>1, <2>2 DEF Configured
<1>3. ASSUME NEW d, SetDefaultTimeout(d) PROVE Configured'
  <2>1. /\ UNCHANGED <<scope, stage>> /\ stage = "config"
        /\ defaults'["grpc-encoding"] = defaults["grpc-encoding"]
        /\ call'.asked = call.asked /\ call'.deadline = call.deadline
        /\ call'.foreign = call.foreign
    BY <1>0, <1>3, Reserveds DEF SetDefaultTimeout, HeaderMap, Insert, CallFields
  <2>2. defaults'["grpc-timeout"] =
            IF call'.default = <<>> THEN <<>> ELSE <<Format(call'.default[1])>>
    BY <1>0, <1>3, Reserveds DEF SetDefaultTimeout, HeaderMap, Insert, CallFields
  <2> QED BY <1>0, <2>1, <2>2 DEF Configured
<1>4. ASSUME NEW s \in scope.sizes, NEW l \in scope.lengths, Construct(s, l)
      PROVE  Configured'
  <2>1. /\ UNCHANGED <<scope, defaults>> /\ stage = "config" /\ ~call.foreign
        /\ call'.default = call.default /\ call'.foreign = call.foreign
    BY <1>0, <1>4 DEF Construct, Progress, CallFields
  <2>2. /\ Option(DefaultTimeout)
        /\ DefaultTimeout = <<>> <=> call.default = <<>>
        /\ call.default # <<>> => Sayable(call.default[1]) <= DefaultTimeout[1]
    BY <2>1, DefaultHeard DEF IInv
  <2>3. call.default # <<>> => Sayable(call.default[1]) \in Nat
    BY UnitsFacts DEF IInv, Typed, Option, Sayable
  <2>4. /\ call'.asked = IF call.default = <<>> THEN <<>>
                         ELSE <<now + Sayable(call.default[1])>>
        /\ call'.deadline = IF DefaultTimeout = <<>> THEN <<>>
                            ELSE <<now + DefaultTimeout[1]>>
    BY <1>0, <1>4 DEF Construct, CallFields
  <2>5. /\ call'.asked # <<>> =>
               call'.deadline # <<>> /\ call'.asked[1] <= call'.deadline[1]
        /\ call'.deadline = <<>> => call'.default = <<>>
    <3>1. CASE call.default = <<>>
      BY <2>1, <2>2, <2>4, <3>1
    <3>2. CASE call.default # <<>>
      <4> DEFINE said == Sayable(call.default[1])
                 heard == DefaultTimeout[1]
      <4>1. said \in Nat /\ heard \in Nat /\ said <= heard
        BY <2>2, <2>3, <3>2 DEF Option
      <4>2. call'.asked = <<now + said>> /\ call'.deadline = <<now + heard>>
        BY <2>2, <2>4, <3>2
      <4> HIDE DEF said, heard
      <4> QED BY <1>0, <4>1, <4>2
    <3> QED BY <3>1, <3>2
  <2>6. defaults["grpc-encoding"] =
            IF call'.encoding = "identity" THEN <<>> ELSE <<call'.encoding>>
    <3>1. CASE defaults["grpc-encoding"] = <<>>
      <4>1. GetStr(defaults, "grpc-encoding") = <<>>
        BY <3>1, GetStrNone
      <4>2. call'.encoding = "identity"
        BY <1>0, <1>4, <4>1 DEF Construct, CallFields
      <4> QED BY <3>1, <4>2
    <3>2. ASSUME NEW e \in scope.client, defaults["grpc-encoding"] = <<e>>
          PROVE  defaults["grpc-encoding"] =
                     IF call'.encoding = "identity" THEN <<>> ELSE <<call'.encoding>>
      <4>1. GetStr(defaults, "grpc-encoding") = <<e>>
        BY <3>2, GetStrOne
      <4>2. call'.encoding = e
        BY <1>0, <1>4, <4>1 DEF Construct, CallFields, FromGrpcEncoding, All
      <4> QED BY <1>0, <3>2, <4>2
    <3> QED BY <1>0, <2>1, <3>1, <3>2 DEF Configured
  <2>7. call'.frame = <<EncodePayload(s, call'.encoding, l)>>
    BY <1>0, <1>4 DEF Construct, CallFields
  <2> QED BY <1>0, <2>1, <2>5, <2>6, <2>7 DEF Configured
<1>5. ASSUME NEW e, WithMetadata(e) PROVE Configured'
  BY <1>0, <1>5 DEF WithMetadata, Configured, CallFields
<1>6. ASSUME NEW d \in scope.timeouts, WithTimeout(d) PROVE Configured'
  <2>1. /\ UNCHANGED <<scope, stage, defaults>> /\ stage = "pending"
        /\ call'.asked = <<now + d>> /\ call'.deadline = <<now + d>>
        /\ call'.default = call.default /\ call'.foreign = call.foreign
        /\ call'.encoding = call.encoding /\ call'.frame = call.frame
    BY <1>0, <1>6 DEF WithTimeout, CallFields
  <2> QED BY <1>0, <2>1 DEF Configured
<1>7. CASE Fire
  <2>1. /\ UNCHANGED <<scope, defaults>> /\ stage = "pending"
        /\ \A n \in CallFields \ {"sent"} : call'[n] = call[n]
    BY <1>0, <1>7 DEF Fire, CallFields
  <2>2. /\ call'.asked = call.asked /\ call'.deadline = call.deadline
        /\ call'.default = call.default /\ call'.foreign = call.foreign
        /\ call'.encoding = call.encoding /\ call'.frame = call.frame
    BY <2>1 DEF CallFields
  <2> QED BY <1>0, <2>1, <2>2 DEF Configured
<1>8. ASSUME NEW h, NEW f, ForeignRequest(h, f) PROVE Configured'
  BY <1>8 DEF ForeignRequest, Configured, NoCall
<1>9. CASE AfterFire
  BY <1>0, <1>9, AfterFireKeeps DEF Configured
<1> QED BY <1>1, <1>2, <1>3, <1>4, <1>5, <1>6, <1>7, <1>8, <1>9 DEF Next, AfterFire

(* build_request says what the call was told. *)
LEMMA FireWrites ==
    ASSUME Typed, Configured, ~call.foreign, Fire
    PROVE  /\ request'["content-type"] = <<scope.suffix>>
           /\ request'["te"] = <<"trailers">>
           /\ request'["grpc-accept-encoding"] = <<All(scope.client)>>
           /\ request'["grpc-encoding"] =
                  IF call.encoding = "identity" THEN <<>> ELSE <<call.encoding>>
           /\ request'["grpc-timeout"] =
                  IF call.deadline = <<>> THEN <<>>
                  ELSE <<Format(call.deadline[1] - now)>>
<1> DEFINE kind == Insert(defaults, "content-type", scope.suffix)
           te == Insert(kind, "te", "trailers")
           typed == Insert(te, "grpc-accept-encoding", All(scope.client))
           coded == IF call.encoding = "identity" THEN typed
                    ELSE Insert(typed, "grpc-encoding", call.encoding)
           timed == IF call.deadline = <<>> THEN coded
                    ELSE Insert(coded, "grpc-timeout",
                                Format(Remaining(call.deadline[1])))
           Says1(h) == /\ h["content-type"] = <<scope.suffix>>
                       /\ h["te"] = <<"trailers">>
                       /\ h["grpc-accept-encoding"] = <<All(scope.client)>>
           Says2(h) == h["grpc-encoding"] = IF call.encoding = "identity" THEN <<>>
                                            ELSE <<call.encoding>>
<1>1. /\ HeaderMap(typed) /\ Says1(typed)
      /\ typed["grpc-encoding"] = defaults["grpc-encoding"]
      /\ typed["grpc-timeout"] = defaults["grpc-timeout"]
  <2>1. /\ HeaderMap(kind) /\ kind["content-type"] = <<scope.suffix>>
        /\ kind["grpc-encoding"] = defaults["grpc-encoding"]
        /\ kind["grpc-timeout"] = defaults["grpc-timeout"]
    BY Reserveds, InsertSays DEF Typed
  <2> HIDE DEF kind
  <2>2. /\ HeaderMap(te) /\ te["content-type"] = <<scope.suffix>>
        /\ te["te"] = <<"trailers">>
        /\ te["grpc-encoding"] = defaults["grpc-encoding"]
        /\ te["grpc-timeout"] = defaults["grpc-timeout"]
    BY <2>1, Reserveds, InsertSays
  <2> HIDE DEF te
  <2> QED BY <2>2, Reserveds, InsertSays
<1> HIDE DEF typed
<1>2. stage = "pending"
  BY DEF Fire
<1>3. /\ HeaderMap(coded) /\ Says1(coded) /\ Says2(coded)
      /\ coded["grpc-timeout"] = defaults["grpc-timeout"]
  BY <1>1, <1>2, Reserveds, InsertSays DEF Configured
<1> HIDE DEF coded
<1>4. /\ HeaderMap(timed) /\ Says1(timed) /\ Says2(timed)
      /\ timed["grpc-timeout"] = IF call.deadline = <<>> THEN <<>>
                                 ELSE <<Format(Remaining(call.deadline[1]))>>
  BY <1>2, <1>3, Reserveds, InsertSays DEF Configured
<1>5. request' = WriteInto(call.entries, timed)
  BY DEF Fire, BuildRequest, typed, coded
<1> HIDE DEF timed
<1>6. \A n \in Reserved : request'[n] = timed[n]
  BY <1>4, <1>5, MetadataIsApart DEF Typed
<1>7. call.deadline # <<>> => Remaining(call.deadline[1]) = call.deadline[1] - now
  <2>1. now \in Nat
    BY ScopesAssumption DEF Typed
  <2> QED BY <2>1 DEF Fire, Remaining, Typed, Option
<1> QED BY <1>4, <1>6, <1>7 DEF Reserved

(* Each action keeps what a fired request carries of its call. *)
LEMMA WrittenStep == IInv /\ [Next]_vars => Written'
<1> SUFFICES ASSUME IInv, [Next]_vars PROVE Written'
  OBVIOUS
<1>0. Typed /\ Progress /\ Configured /\ Written /\ now \in Nat
  BY ScopesAssumption DEF IInv, Typed
<1>1. CASE Tick \/ UNCHANGED vars
  <2>1. UNCHANGED <<scope, stage, call, request, server>>
    BY <1>1 DEF Tick, vars
  <2> QED BY <1>0, <2>1 DEF Written, Fired, LegibleTimeout, TimeoutHeader, HasTeTrailers
<1>2. ASSUME \/ \E e \in scope.encodings : SetOutboundCompression(e)
             \/ \E d \in scope.defaultTimeouts : SetDefaultTimeout(d)
             \/ \E s \in scope.sizes, l \in scope.lengths : Construct(s, l)
             \/ \E e \in scope.entries : WithMetadata(e)
             \/ \E d \in scope.timeouts : WithTimeout(d)
             \/ Misused \/ TooLate
      PROVE  Written'
  <2>1. /\ UNCHANGED <<request, server>> /\ stage \in {"config", "pending"}
        /\ stage' \in {"config", "pending", "done"}
    BY <1>2 DEF SetOutboundCompression, SetDefaultTimeout, Construct, WithMetadata,
                WithTimeout, Misused, TooLate, Ends
  <2>2. server.verdict = "none"
    BY <1>0, <2>1 DEF Progress, NoServer
  <2> QED BY <1>0, <2>1, <2>2 DEF Written, Fired, LegibleTimeout, TimeoutHeader
<1>3. CASE Fire
  <2>1. /\ UNCHANGED <<scope, server>> /\ stage = "pending" /\ call'.sent = now
        /\ call'.encoding = call.encoding /\ call'.deadline = call.deadline
        /\ call'.foreign = call.foreign
        /\ call.deadline # <<>> => now <= call.deadline[1]
    BY <1>0, <1>3 DEF Fire, Typed, CallFields, Option
  <2>2. ~call.foreign
    BY <1>0, <2>1 DEF Progress
  <2>3. /\ request'["content-type"] = <<scope.suffix>>
        /\ request'["te"] = <<"trailers">>
        /\ request'["grpc-accept-encoding"] = <<All(scope.client)>>
        /\ request'["grpc-encoding"] =
               IF call.encoding = "identity" THEN <<>> ELSE <<call.encoding>>
        /\ request'["grpc-timeout"] =
               IF call.deadline = <<>> THEN <<>>
               ELSE <<Format(call.deadline[1] - now)>>
    BY <1>0, <1>3, <2>2, FireWrites
  <2>4. HasTeTrailers(request)'
    BY <2>3 DEF HasTeTrailers
  <2>5. CASE call.deadline = <<>>
    <3>1. TimeoutHeader' = <<>>
      BY <2>3, <2>5 DEF TimeoutHeader, GetStr
    <3> QED BY <1>0, <2>1, <2>3, <2>4, <2>5, <3>1 DEF Written, LegibleTimeout
  <2>6. CASE call.deadline # <<>>
    <3>1. call.deadline[1] - now \in Nat
      BY <1>0, <2>1, <2>6 DEF Typed, Option
    <3>2. TimeoutHeader' = <<Format(call.deadline[1] - now)>>
      BY <2>3, <2>6 DEF TimeoutHeader, GetStr
    <3>3. LegibleTimeout'
      BY <3>1, <3>2, FormatType DEF LegibleTimeout
    <3> QED BY <1>0, <2>1, <2>3, <2>4, <2>6, <3>3 DEF Written
  <2> QED BY <2>5, <2>6
<1>4. ASSUME NEW h \in scope.foreignRequests, NEW f \in scope.foreignFrames,
             ForeignRequest(h, f)
      PROVE  Written'
  <2>1. h["grpc-timeout"] \in Seq([value : Nat, unit : Nat])
    BY <1>0, ScopesAssumption DEF Typed
  <2>2. TimeoutHeader' = GetStr(h, "grpc-timeout") /\ call'.foreign
    BY <1>4 DEF ForeignRequest, TimeoutHeader, NoCall
  <2>3. LegibleTimeout'
    <3> DEFINE v == h["grpc-timeout"]
    <3>1. CASE Len(v) = 1
      <4>1. TimeoutHeader' = v
        BY <2>2, <3>1 DEF GetStr
      <4>2. v[1] \in [value : Nat, unit : Nat] /\ v = <<v[1]>>
        BY <2>1, <3>1, OnlyElement
      <4> HIDE DEF v
      <4> QED BY <4>1, <4>2 DEF LegibleTimeout
    <3>2. CASE Len(v) # 1
      BY <2>2, <3>2 DEF GetStr, LegibleTimeout
    <3> QED BY <3>1, <3>2
  <2> QED BY <2>2, <2>3 DEF Written, Fired
<1>5. CASE AfterFire
  <2>1. /\ UNCHANGED <<scope, call, request>>
        /\ Fired' => Fired
    BY <1>5, AfterFireKeeps DEF Fired
  <2> QED BY <1>0, <2>1 DEF Written, LegibleTimeout, TimeoutHeader, HasTeTrailers
<1> QED BY <1>1, <1>2, <1>3, <1>4, <1>5 DEF Next, AfterFire

(* What the server reads in a request of ours. *)
LEMMA OursIsRead ==
    ASSUME IInv, Fired
    PROVE  /\ ContentType(request) = <<scope.suffix>> /\ HasTeTrailers(request)
           /\ RequestEncoding = IF call.encoding \in All(scope.server)
                                THEN <<call.encoding>> ELSE <<>>
           /\ TimeoutHeader # <<>> => Timeout # <<>>
<1>1. scope.suffix \in Subtypes
  BY ScopesAssumption DEF IInv, Typed
<1>2. Written /\ Typed
  BY DEF IInv
<1>3. ContentType(request) = <<scope.suffix>>
  <2> DEFINE said == GetStr(request, "content-type")
  <2>1. said = <<scope.suffix>>
    BY <1>2, GetStrOne DEF Written
  <2>2. said # <<>> /\ said # <<"not grpc">> /\ said # <<"bare">>
    <3> HIDE DEF said
    <3>1. scope.suffix # "not grpc" /\ scope.suffix # "bare"
      BY <1>1 DEF Subtypes
    <3> QED BY <2>1, <3>1
  <2>3. ContentType(request) = said
    BY <2>2 DEF ContentType
  <2> QED BY <2>1, <2>3
<1>4. RequestEncoding = IF call.encoding \in All(scope.server)
                        THEN <<call.encoding>> ELSE <<>>
  BY <1>2, GetStrOne, GetStrNone DEF Written, RequestEncoding, FromGrpcEncoding, All
<1>5. TimeoutHeader # <<>> => Timeout # <<>>
  <2>1. CASE call.deadline = <<>>
    BY <1>2, <2>1, GetStrNone DEF Written, TimeoutHeader
  <2>2. CASE call.deadline # <<>>
    <3>1. call.deadline[1] - call.sent \in Nat
      BY <1>2, <2>2 DEF Written, Typed, Option
    <3>2. TimeoutHeader = <<Format(call.deadline[1] - call.sent)>>
      BY <1>2, <2>2, GetStrOne DEF Written, TimeoutHeader
    <3> QED BY <3>1, <3>2, ParseFormat DEF Timeout
  <2> QED BY <2>1, <2>2
<1> QED BY <1>2, <1>3, <1>4, <1>5 DEF Written

(* The timeout of a request of ours is within what an Instant can say. *)
LEMMA OursFits ==
    ASSUME IInv, Fired PROVE ~Overflows
<1>1. Written /\ Typed
  BY DEF IInv
<1>2. CASE call.deadline = <<>>
  BY <1>1, <1>2, GetStrNone DEF Written, TimeoutHeader, Timeout, Overflows
<1>3. CASE call.deadline # <<>>
  <2> DEFINE d == call.deadline[1] - call.sent
             t == Format(d).value * Units[Format(d).unit]
  <2>1. d \in Nat
    BY <1>1, <1>3 DEF Written, Typed, Option
  <2>2. TimeoutHeader = <<Format(d)>>
    BY <1>1, <1>3, GetStrOne DEF Written, TimeoutHeader
  <2>3. Timeout = <<t>>
    BY <2>1, <2>2, ParseFormat DEF Timeout
  <2>4. t \in 0..Longest /\ Longest \in Nat
    BY <2>1, FormatCovers, UnitsFacts
  <2>5. now \in Nat /\ now <= scope.maxNow /\ scope.maxNow \in Nat
    BY <1>1, ScopesAssumption DEF Typed
  <2>6. scope.maxNow + Longest <= MaxInstant /\ MaxInstant \in Nat
    BY <1>1, InstantAssumption DEF Typed
  <2> HIDE DEF t
  <2> QED BY <2>3, <2>4, <2>5, <2>6 DEF Overflows
<1> QED BY <1>2, <1>3

(* Each action keeps what the server has taken from the request. *)
LEMMA TakenStep == IInv /\ [Next]_vars => Taken'
<1> SUFFICES ASSUME IInv, [Next]_vars PROVE Taken'
  OBVIOUS
<1>0. /\ Typed /\ Progress /\ Written /\ Taken /\ now \in Nat
      /\ DOMAIN server = ServerFields /\ Option(Timeout)
  BY TimeoutOption, ScopesAssumption DEF IInv, Typed
<1>1. CASE Tick
  <2>1. UNCHANGED <<scope, call, request, server>> /\ now' = now + 1
        /\ stage' = stage
    BY <1>1 DEF Tick
  <2> QED BY <1>0, <2>1 DEF Taken, Fired, TimeoutHeader, Timeout, RequestEncoding
<1>2. ASSUME \/ \E e \in scope.encodings : SetOutboundCompression(e)
             \/ \E d \in scope.defaultTimeouts : SetDefaultTimeout(d)
             \/ \E s \in scope.sizes, l \in scope.lengths : Construct(s, l)
             \/ \E e \in scope.entries : WithMetadata(e)
             \/ \E d \in scope.timeouts : WithTimeout(d)
             \/ \E h \in scope.foreignRequests, f \in scope.foreignFrames :
                    ForeignRequest(h, f)
             \/ Misused \/ TooLate \/ Fire
      PROVE  Taken'
  <2>1. UNCHANGED server /\ stage \in {"config", "pending"}
    BY <1>2 DEF SetOutboundCompression, SetDefaultTimeout, Construct, WithMetadata,
                WithTimeout, Misused, TooLate, Ends, Fire, ForeignRequest
  <2> QED BY <1>0, <2>1 DEF Taken, Progress, NoServer
<1>3. CASE RefuseHttp
  <2>1. /\ UNCHANGED <<scope, call, request>> /\ stage = "sent"
        /\ server'.race = server.race /\ server'.conn = server.conn
        /\ server'.message = server.message
    BY <1>0, <1>3 DEF RefuseHttp, ServerFields
  <2>2. \/ ContentType(request) # <<scope.served>> /\ server'.verdict = "415"
        \/ /\ ContentType(request) = <<scope.served>> /\ ~HasTeTrailers(request)
           /\ server'.verdict = "400"
    BY <1>0, <1>3 DEF RefuseHttp, ServerFields
  <2>3. ~call.foreign => server'.verdict = "415" /\ scope.suffix # scope.served
    BY <2>1, <2>2, OursIsRead DEF Fired
  <2>4. server.race = <<>> /\ server.conn = <<>> /\ server.message = <<>>
    BY <1>0, <2>1 DEF Progress, NoServer
  <2> QED BY <2>1, <2>2, <2>3, <2>4 DEF Taken, Fired
<1>4. CASE RefuseCall
  <2>1. /\ UNCHANGED <<scope, call, request>> /\ Prepared
        /\ server'.race = server.race /\ server'.conn = server.conn
        /\ server'.message = server.message
    BY <1>0, <1>4 DEF RefuseCall, Answer, ServerFields
  <2>2. \/ RequestEncoding = <<>> /\ server'.verdict = "Unimplemented"
        \/ /\ RequestEncoding # <<>> /\ TimeoutHeader # <<>> /\ Timeout = <<>>
           /\ server'.verdict = "InvalidArgument"
    BY <1>0, <1>4 DEF RefuseCall, ServerFields
  <2>3. ~call.foreign => /\ scope.suffix = scope.served
                         /\ server'.verdict = "Unimplemented"
                         /\ call.encoding \notin All(scope.server)
    <3> SUFFICES ASSUME ~call.foreign
                 PROVE  /\ scope.suffix = scope.served
                        /\ server'.verdict = "Unimplemented"
                        /\ call.encoding \notin All(scope.server)
      OBVIOUS
    <3>1. Fired /\ ContentType(request) = <<scope.served>>
      BY <2>1 DEF Fired, Prepared
    <3>2. scope.suffix = scope.served
      BY <3>1, OursIsRead
    <3>3. RequestEncoding = <<>>
      BY <2>2, <3>1, OursIsRead
    <3>4. call.encoding \notin All(scope.server)
      BY <3>1, <3>3, OursIsRead
    <3> QED BY <2>2, <3>2, <3>3, <3>4
  <2>4. server.race = <<>> /\ server.conn = <<>> /\ server.message = <<>>
    BY <1>0, <2>1 DEF Progress, NoServer, Prepared
  <2> QED BY <2>1, <2>2, <2>3, <2>4 DEF Taken, Fired
<1>5. CASE Accept
  <2>1. /\ UNCHANGED <<scope, call, request, now>> /\ Prepared
        /\ server'.verdict = "ok" /\ server'.accepted = now
        /\ RequestEncoding = <<server'.encoding>>
        /\ TimeoutHeader # <<>> => Timeout # <<>>
        /\ server'.race = IF Timeout = <<>> THEN <<>> ELSE <<now + Timeout[1]>>
        /\ server'.conn = server.conn /\ server'.message = server.message
    BY <1>0, <1>5 DEF Accept, Acceptable, ServerFields, RequestEncoding,
                      FromGrpcEncoding
  <2>2. server.conn = <<>> /\ server.message = <<>>
    BY <1>0, <2>1 DEF Progress, NoServer, Prepared
  <2>3. ~call.foreign =>
            scope.suffix = scope.served /\ call.encoding \in All(scope.server)
    BY <2>1, OursIsRead DEF Fired, Prepared
  <2>4. UNCHANGED <<TimeoutHeader, Timeout, RequestEncoding>>
    BY <2>1 DEF TimeoutHeader, Timeout, RequestEncoding
  <2> QED BY <1>0, <2>1, <2>2, <2>3, <2>4 DEF Taken, Fired
<1>6. CASE NewServerConn
  <2>1. /\ UNCHANGED <<scope, call, request, now>>
        /\ server.verdict = "ok" /\ stage = "accepted"
        /\ server'.verdict = server.verdict /\ server'.accepted = server.accepted
        /\ server'.encoding = server.encoding /\ server'.race = server.race
        /\ server'.conn = IF Timeout = <<>> THEN <<>> ELSE <<now + Timeout[1]>>
        /\ server'.message = <<ReadMessage(call.frame[1], server.encoding)>>
    BY <1>0, <1>6 DEF NewServerConn, ServerFields, Progress
  <2>2. UNCHANGED <<TimeoutHeader, Timeout, RequestEncoding>>
    BY <2>1 DEF TimeoutHeader, Timeout, RequestEncoding
  <2>3. server'.conn # <<>> =>
            server'.race # <<>> /\ server'.race[1] <= server'.conn[1]
    BY <1>0, <2>1 DEF Taken, Option
  <2> QED BY <1>0, <2>1, <2>2, <2>3 DEF Taken, Fired
<1>7. ASSUME \/ RequestUnread
             \/ \E h \in scope.headers : WriteHeader(h[1], h[2])
             \/ \E t \in scope.trailers : WriteTrailer(t[1], t[2])
             \/ \E s \in scope.sizes, l \in scope.lengths : Respond(s, l)
             \/ \E s \in scope.statuses : FailCall(s)
             \/ \E a \in scope.foreignReplies : ForeignReply(a)
             \/ ReadReply \/ UNCHANGED vars
      PROVE  Taken'
  <2>1. /\ UNCHANGED <<scope, call, request, now>>
        /\ server'.verdict = server.verdict /\ server'.accepted = server.accepted
        /\ server'.encoding = server.encoding /\ server'.race = server.race
        /\ server'.conn = server.conn /\ server'.message = server.message
    BY <1>0, <1>7 DEF RequestUnread, WriteHeader, WriteTrailer, Respond, FailCall,
                      ForeignReply, ReadReply, Handling, Answer, ServerFields, vars
  <2>2. Fired' /\ server'.verdict # "none" => Fired
    BY <2>1 DEF Fired
  <2> QED BY <1>0, <2>1, <2>2 DEF Taken, TimeoutHeader, Timeout, RequestEncoding
<1>8. CASE Panics
  <2>1. /\ stage \in {"sent", "accepted"} /\ Overflows /\ UNCHANGED <<call, request>>
        /\ server'.verdict = "panic" /\ server'.conn = server.conn
        /\ server'.message = server.message
    BY <1>0, <1>8 DEF Panics, Acceptable, Prepared, ServerFields
  <2>2. call.foreign
    BY <2>1, OursFits DEF Fired
  <2>3. server.conn = <<>> /\ server.message = <<>>
    BY <1>0, <2>1 DEF Progress, NoServer
  <2> QED BY <2>1, <2>2, <2>3 DEF Taken, Fired
<1> QED BY <1>1, <1>2, <1>3, <1>4, <1>5, <1>6, <1>7, <1>8 DEF Next

(* The invariant of every call, whoever the peers are. *)
LEMMA Invariant == Spec => []IInv
<1>1. Init => IInv
  BY InitIInv
<1>2. IInv /\ [Next]_vars => IInv'
  BY TypedStep, ProgressStep, ConfiguredStep, WrittenStep, TakenStep DEF IInv
<1> QED BY <1>1, <1>2, PTL DEF Spec

(* Type correctness of a call and its headers. *)
THEOREM HeaderTypesCorrect == Spec => []TypeOK
<1>1. ASSUME NEW o, Option(o) PROVE o \in Seq(Nat) /\ Len(o) <= 1
  <2>1. CASE o = <<>>
    BY <2>1
  <2>2. ASSUME NEW n \in Nat, o = <<n>> PROVE o \in Seq(Nat) /\ Len(o) <= 1
    BY <2>2
  <2> QED BY <1>1, <2>1, <2>2 DEF Option
<1>2. Typed => TypeOK
  <2> SUFFICES ASSUME Typed PROVE TypeOK
    OBVIOUS
  <2>1. \A h \in {defaults, request, server.head, server.raw, reply.head,
                  reply.trailers} : DOMAIN h = Names
    BY DEF Typed, HeaderMap
  <2>2. \A o \in {call.default, call.asked, call.deadline, server.race, server.conn} :
            o \in Seq(Nat) /\ Len(o) <= 1
    BY <1>1 DEF Typed
  <2>3. stage \in {"pending", "sent"} => Len(call.frame) = 1
    BY DEF Typed
  <2>4. stage = "handling" => Len(server.message) = 1
    BY DEF Typed
  <2>5. stage = "done" <=> outcome # <<>>
    BY DEF Typed
  <2> QED BY <2>1, <2>2, <2>3, <2>4, <2>5 DEF Typed, TypeOK
<1> QED BY <1>2, Invariant, PTL DEF IInv

(* The deadline asked of a call is the client's, the wire's, and the server's
   twice over, none of them earlier, and the server's less than a unit later: for
   every table of units and every duration, those that no header can say and
   those a foreign client sends included.                                     *)
THEOREM DeadlinesAreOne == Spec => []DeadlinesAgree
<1> SUFFICES ASSUME IInv PROVE DeadlinesAgree
  BY Invariant, PTL
<1>1. Typed /\ Configured /\ Written /\ Taken
  BY DEF IInv
<1>2. ~call.foreign /\ call.asked # <<>> =>
          call.deadline # <<>> /\ call.asked[1] <= call.deadline[1]
  BY <1>1 DEF Configured
<1>3. ASSUME server.verdict = "ok", ~call.foreign, call.deadline = <<>>
      PROVE  server.race = <<>>
  BY <1>1, <1>3, GetStrNone DEF Written, Fired, Taken, TimeoutHeader, Timeout
<1>4. ASSUME server.verdict = "ok", ~call.foreign, call.deadline # <<>>
      PROVE  /\ server.race # <<>>
             /\ LET remaining == call.deadline[1] - call.sent
                    late == server.race[1] - server.accepted - Sayable(remaining)
                IN  0 <= late /\ late < Units[request["grpc-timeout"][1].unit]
  <2> DEFINE d == call.deadline[1] - call.sent
             h == Format(d)
             t == h.value * Units[h.unit]
  <2>1. d \in Nat /\ server.accepted \in Nat /\ Longest \in Nat
    BY <1>1, <1>4, UnitsFacts DEF Written, Fired, Taken, Typed, Option
  <2>2. request["grpc-timeout"] = <<h>>
    BY <1>1, <1>4 DEF Written, Fired
  <2>3. Timeout = <<t>>
    <3>1. TimeoutHeader = <<h>>
      BY <2>2, GetStrOne DEF TimeoutHeader
    <3>2. Parse(h) = <<t>>
      BY <2>1, ParseFormat
    <3> QED BY <3>1, <3>2 DEF Timeout
  <2>4. server.race = <<server.accepted + t>>
    BY <1>1, <1>4, <2>3 DEF Taken
  <2>5. /\ h.unit \in DOMAIN Units /\ t \in 0..Longest
        /\ d <= Longest => d <= t /\ t < d + Units[h.unit]
        /\ d > Longest => t = Longest
    BY <2>1, FormatCovers
  <2>6. Units[h.unit] \in Nat \ {0}
    BY <2>5, UnitsFacts
  <2> HIDE DEF t, h, d
  <2>7. 0 <= t - Sayable(d) /\ t - Sayable(d) < Units[h.unit]
    BY <2>1, <2>5, <2>6 DEF Sayable
  <2>8. server.race[1] - server.accepted - Sayable(d) = t - Sayable(d)
    BY <2>1, <2>4, <2>5 DEF Sayable
  <2> QED BY <2>2, <2>4, <2>7, <2>8 DEF d
<1>5. server.conn # <<>> => server.race # <<>> /\ server.race[1] <= server.conn[1]
  BY <1>1 DEF Taken
<1>6. call.foreign => call.asked = <<>>
  BY DEF IInv, Progress
<1> QED BY <1>2, <1>3, <1>4, <1>5, <1>6 DEF DeadlinesAgree

-----------------------------------------------------------------------------
(* The negotiated encoding is one that both peers have. *)
LEMMA PreferredIsCommon ==
    ASSUME NEW common \in SUBSET Codecs, common # {} PROVE Preferred(common) \in common
<1>1. \E e \in common : \A f \in common : Rank[e] <= Rank[f]
  <2>1. Rank["gzip"] = 1 /\ Rank["deflate"] = 2 /\ Rank["zstd"] = 3
    BY DEF Rank
  <2>2. CASE "gzip" \in common
    BY <2>1, <2>2 DEF Codecs
  <2>3. CASE "gzip" \notin common /\ "deflate" \in common
    BY <2>1, <2>3 DEF Codecs
  <2>4. CASE "gzip" \notin common /\ "deflate" \notin common
    <3>1. common = {"zstd"}
      BY <2>4 DEF Codecs
    <3> QED BY <2>1, <3>1
  <2> QED BY <2>2, <2>3, <2>4
<1> QED BY <1>1 DEF Preferred

(* The encoding negotiated for a fired request is one that its client has. *)
LEMMA NegotiatedIsShared ==
    ASSUME IInv, Fired PROVE Negotiated \in All(scope.client)
<1> DEFINE accept == GetStr(request, "grpc-accept-encoding")
           common == scope.server \cap All(scope.client)
<1>1. scope.server \subseteq Codecs /\ "identity" \notin Codecs
  BY ScopesAssumption DEF IInv, Typed, Codecs
<1>2. accept = <<All(scope.client)>>
  <2>1. request["grpc-accept-encoding"] = <<All(scope.client)>>
    BY DEF IInv, Written
  <2> QED BY <2>1, GetStrOne
<1>3. Negotiated = Preferred(common)
  <2>1. accept # <<>> /\ accept[1] = All(scope.client)
    <3> HIDE DEF accept
    <3> QED BY <1>2
  <2> QED BY <2>1 DEF Negotiated
<1>4. CASE common = {}
  BY <1>3, <1>4 DEF Preferred, All
<1>5. CASE common # {}
  BY <1>1, <1>3, <1>5, PreferredIsCommon
<1> QED BY <1>4, <1>5

(* The head says what was negotiated, to the reply. *)
LEMMA HeadSays == Says(Head200)
<1> DEFINE typed == Insert(Insert(NoHeaders, "content-type", scope.served),
                           "grpc-accept-encoding", All(scope.server))
<1>1. HeaderMap(NoHeaders) /\ \A n \in Names : NoHeaders[n] = <<>>
  BY DEF HeaderMap, NoHeaders
<1>2. /\ HeaderMap(typed) /\ typed["content-type"] = <<scope.served>>
      /\ typed["grpc-encoding"] = <<>>
  BY <1>1, Reserveds, InsertSays
<1> HIDE DEF typed
<1> QED BY <1>2, Reserveds, InsertSays DEF Head200, Says, typed

(* Each action keeps what the head of a reply says. *)
LEMMA AnsweredStep ==
    IInv /\ Answered /\ [Next]_vars => Answered'
<1> SUFFICES ASSUME IInv, Answered, [Next]_vars PROVE Answered'
  OBVIOUS
<1>0. /\ Typed /\ Progress /\ DOMAIN server = ServerFields /\ HeaderMap(server.head)
      /\ scope.sizes \subseteq Nat /\ scope.lengths \subseteq Nat
  BY ScopesAssumption DEF IInv, Typed
<1>1. ASSUME stage \in {"config", "pending"}, UNCHANGED server PROVE Answered'
  BY <1>0, <1>1 DEF Answered, Progress, NoServer
<1>2. UNCHANGED <<scope, request>> => UNCHANGED Negotiated
  BY DEF Negotiated
<1>3. CASE Tick \/ ReadReply \/ UNCHANGED vars
  <2>1. /\ UNCHANGED <<scope, request, server, reply>>
        /\ stage' = stage \/ stage' = "done"
    BY <1>3 DEF Tick, ReadReply, vars
  <2> QED BY <1>2, <2>1 DEF Answered, Says, Untouched
<1>4. CASE RefuseHttp
  <2>1. server'.verdict \notin {"none", "ok"} /\ reply'.http # 200
    BY <1>0, <1>4 DEF RefuseHttp, ServerFields, NoReply
  <2> QED BY <2>1 DEF Answered
<1>5. CASE RefuseCall
  <2>1. /\ server'.verdict # "ok" /\ reply'.head = Head200
        /\ UNCHANGED <<scope, request>>
    BY <1>0, <1>5 DEF RefuseCall, Answer, ServerFields
  <2> QED BY <1>2, <2>1, HeadSays DEF Answered, Says
<1>6. CASE Accept
  <2>1. /\ server'.head = Head200 /\ UNCHANGED <<scope, request>>
        /\ stage' = "accepted"
    BY <1>0, <1>6 DEF Accept, ServerFields
  <2> QED BY <1>2, <2>1, HeadSays DEF Answered, Says
<1>7. ASSUME \/ NewServerConn
             \/ \E t \in scope.trailers : WriteTrailer(t[1], t[2])
      PROVE  Answered'
  <2>1. /\ server'.head = server.head /\ server'.verdict = server.verdict
        /\ server'.wrote = server.wrote
        /\ UNCHANGED <<scope, request>> /\ stage' = "handling"
    BY <1>0, <1>7 DEF NewServerConn, WriteTrailer, Handling, ServerFields
  <2> QED BY <1>2, <2>1 DEF Answered, Says, Untouched
<1>8. ASSUME NEW h \in scope.headers, WriteHeader(h[1], h[2]) PROVE Answered'
  <2> DEFINE n == Lowercase(h[1])
  <2>1. /\ server'.head = [server.head EXCEPT ![n] = h[2]]
        /\ server'.wrote = server.wrote \cup {n} /\ server'.verdict = server.verdict
        /\ UNCHANGED <<scope, request>> /\ stage' = "handling"
    BY <1>0, <1>8 DEF WriteHeader, Handling, ServerFields
  <2> HIDE DEF n
  <2>2. Untouched' => Untouched /\ n # "content-type" /\ n # "grpc-encoding"
    BY <2>1 DEF Untouched
  <2>3. Untouched' =>
            /\ server'.head["content-type"] = server.head["content-type"]
            /\ server'.head["grpc-encoding"] = server.head["grpc-encoding"]
    BY <1>0, <2>1, <2>2, Reserveds DEF HeaderMap
  <2> QED BY <1>2, <2>1, <2>2, <2>3 DEF Answered, Says
<1>9. ASSUME \/ RequestUnread
             \/ \E s \in scope.sizes, l \in scope.lengths : Respond(s, l)
             \/ \E s \in scope.statuses : FailCall(s)
      PROVE  Answered'
  <2>1. /\ server.verdict = "ok" /\ server'.head = server.head
        /\ server'.wrote = server.wrote
        /\ reply'.head = server.head /\ UNCHANGED <<scope, request>>
    BY <1>0, <1>9 DEF RequestUnread, Respond, FailCall, Handling, Answer, ServerFields,
                      Progress
  <2>2. \/ reply'.frame = <<>>
        \/ \E s, l \in Nat : reply'.frame = <<EncodePayload(s, Negotiated, l)>>
    BY <1>0, <1>9 DEF RequestUnread, Respond, FailCall, Answer
  <2> QED BY <1>2, <2>1, <2>2 DEF Answered, Says, Untouched
<1>10. ASSUME NEW a \in scope.foreignReplies, ForeignReply(a) PROVE Answered'
  <2>1. server'.verdict = "none"
    BY <1>0, <1>10 DEF ForeignReply, Progress, NoServer
  <2> QED BY <2>1 DEF Answered
<1>11. ASSUME \/ \E e \in scope.encodings : SetOutboundCompression(e)
              \/ \E d \in scope.defaultTimeouts : SetDefaultTimeout(d)
              \/ \E s \in scope.sizes, l \in scope.lengths : Construct(s, l)
              \/ \E e \in scope.entries : WithMetadata(e)
              \/ \E d \in scope.timeouts : WithTimeout(d)
              \/ \E h \in scope.foreignRequests, f \in scope.foreignFrames :
                     ForeignRequest(h, f)
              \/ Misused \/ TooLate \/ Fire
       PROVE  Answered'
  <2>1. UNCHANGED server /\ stage \in {"config", "pending"}
    BY <1>11 DEF SetOutboundCompression, SetDefaultTimeout, Construct, WithMetadata,
                 WithTimeout, Misused, TooLate, Ends, Fire, ForeignRequest
  <2> QED BY <1>1, <2>1
<1>12. CASE Panics
  BY <1>0, <1>12 DEF Panics, Answered, ServerFields
<1> QED BY <1>3, <1>4, <1>5, <1>6, <1>7, <1>8, <1>9, <1>10, <1>11, <1>12 DEF Next

(* Both parts of the invariant hold of every behaviour. *)
LEMMA AnsweredInvariant == Spec => [](IInv /\ Answered)
<1>1. Init => IInv /\ Answered
  BY InitIInv
<1>2. IInv /\ Answered /\ [Next]_vars => (IInv /\ Answered)'
  BY TypedStep, ProgressStep, ConfiguredStep, WrittenStep, TakenStep, AnsweredStep
     DEF IInv
<1> QED BY <1>1, <1>2, PTL DEF Spec

(* The client takes the head the server wrote. *)
LEMMA HeadIsTaken ==
    ASSUME IInv, Answered, Fired, server.verdict # "none", stage = "replied",
           reply.http = 200, Untouched
    PROVE  ~HeadFails /\ ResponseEncoding = <<Negotiated>>
<1>1. Says(reply.head)
  BY DEF Answered
<1>2. scope.served \in Subtypes
  BY ScopesAssumption DEF IInv, Typed
<1>3. ContentType(reply.head) # <<>>
  <2> DEFINE said == GetStr(reply.head, "content-type")
  <2>1. said = <<scope.served>>
    BY <1>1, GetStrOne DEF Says
  <2>2. said # <<>> /\ said # <<"not grpc">> /\ said # <<"bare">>
    <3> HIDE DEF said
    <3>1. scope.served # "not grpc" /\ scope.served # "bare"
      BY <1>2 DEF Subtypes
    <3> QED BY <2>1, <3>1
  <2>3. ContentType(reply.head) = said
    BY <2>2 DEF ContentType
  <2> QED BY <2>2, <2>3
<1>4. ResponseEncoding = <<Negotiated>>
  BY <1>1, NegotiatedIsShared, GetStrOne, GetStrNone
     DEF Says, ResponseEncoding, FromGrpcEncoding
<1> QED BY <1>3, <1>4 DEF HeadFails

(* Two peers of this library agree on the call's encodings and its content type,
   for every pair of builds: nothing but a codec the server lacks, or a codec of
   messages it does not serve, is refused.                                    *)
THEOREM PeersUnderstand == Spec => []PeersAgree
<1>1. IInv /\ Answered => PeersAgree
  <2> SUFFICES ASSUME IInv, Answered, ~call.foreign, server.verdict # "none"
               PROVE  /\ server.verdict =
                             IF scope.suffix # scope.served THEN "415"
                             ELSE IF call.encoding \notin All(scope.server)
                             THEN "Unimplemented" ELSE "ok"
                      /\ stage = "replied" /\ reply.http = 200 /\ Untouched => ~HeadFails
    BY DEF PeersAgree
  <2>1. Fired
    BY DEF Fired
  <2> QED BY <2>1, HeadIsTaken DEF IInv, Taken
<1> QED BY <1>1, AnsweredInvariant, PTL

(* A whole frame that was encoded with the encoding it is read with. *)
LEMMA TooLongIsRefused ==
    ASSUME NEW f, NEW encoding, f.length \in Nat, f.length > MaxSize
    PROVE  ReadMessage(f, encoding) = Refused("ResourceExhausted")
BY SizeAssumption DEF ReadMessage

(* A frame that was not compressed, within the limit, reads back as its size. *)
LEMMA PlainIsRead ==
    ASSUME NEW f, NEW encoding, f.length \in Nat, f.length <= MaxSize, ~f.compressed
    PROVE  ReadMessage(f, encoding) = Bytes(f.size)
BY SizeAssumption DEF ReadMessage

(* A compressed frame within the limit reads as what it inflates to. *)
LEMMA CompressedIsInflated ==
    ASSUME NEW f, NEW encoding, f.length \in Nat, f.length <= MaxSize, f.compressed,
           encoding # "identity"
    PROVE  ReadMessage(f, encoding) = Decompress(f, encoding)
BY SizeAssumption DEF ReadMessage

(* A frame read by the codec it was written with reads as it was sent. *)
LEMMA ReadsBack ==
    ASSUME NEW size \in Nat, NEW length \in Nat, NEW encoding
    PROVE  LET frame == EncodePayload(size, encoding, length)
           IN  ReadsAsSent(frame, ReadMessage(frame, encoding))
<1> DEFINE frame == EncodePayload(size, encoding, length)
           got == ReadMessage(frame, encoding)
<1>1. /\ frame.codec = encoding /\ frame.size = size
      /\ encoding = "identity" => ~frame.compressed /\ frame.length = size
      /\ encoding # "identity" => frame.compressed /\ frame.length = length
  BY DEF EncodePayload
<1>2. frame.length \in Nat
  BY <1>1
<1> HIDE DEF frame
<1>3. CASE frame.length > MaxSize
  <2>1. got = Refused("ResourceExhausted")
    BY <1>2, <1>3, TooLongIsRefused
  <2>2. ~Legible(frame)
    BY <1>2, <1>3, SizeAssumption DEF Legible
  <2> QED BY <2>1, <2>2 DEF ReadsAsSent, frame
<1>4. CASE frame.length <= MaxSize /\ encoding = "identity"
  <2>1. got = Bytes(size)
    BY <1>1, <1>2, <1>4, PlainIsRead
  <2>2. Legible(frame)
    BY <1>1, <1>4 DEF Legible
  <2> QED BY <1>1, <2>1, <2>2 DEF ReadsAsSent, frame
<1>5. CASE frame.length <= MaxSize /\ encoding # "identity"
  <2>1. got = ReadCapped(size)
    BY <1>1, <1>2, <1>5, CompressedIsInflated DEF Decompress
  <2>2. ReadCapped(size) = IF size <= MaxSize THEN Bytes(size)
                           ELSE Refused("ResourceExhausted")
    BY SizeAssumption DEF ReadCapped
  <2>3. Legible(frame) <=> size <= MaxSize
    BY <1>1, <1>5 DEF Legible
  <2> QED BY <1>1, <2>1, <2>2, <2>3 DEF ReadsAsSent, frame
<1> QED BY <1>2, <1>3, <1>4, <1>5, SizeAssumption

(* Either side reads back the other's message up to the limit, and refuses it one
   byte later, whatever codec they came to use.                               *)
THEOREM MessagesReadBack == Spec => []MessagesDecode
<1>1. IInv /\ Answered => MessagesDecode
  <2> SUFFICES ASSUME IInv, Answered, ~call.foreign PROVE MessagesDecode
    BY DEF MessagesDecode
  <2>1. ASSUME server.message # <<>>
        PROVE  ReadsAsSent(call.frame[1], server.message[1])
    <3>1. /\ server.verdict = "ok" /\ stage # "config"
          /\ server.message[1] = ReadMessage(call.frame[1], server.encoding)
      BY <2>1 DEF IInv, Progress, Taken
    <3>2. PICK s, l \in Nat : call.frame = <<EncodePayload(s, call.encoding, l)>>
      BY <3>1 DEF IInv, Configured
    <3>3. Fired
      BY <3>1 DEF Fired
    <3>4. server.encoding = call.encoding
      BY <3>1, <3>3, OursIsRead DEF IInv, Taken
    <3> QED BY <3>1, <3>2, <3>4, ReadsBack
  <2>2. ASSUME server.verdict = "ok", stage = "replied", Untouched, Message # <<>>
        PROVE  ReadsAsSent(reply.frame[1], Message[1])
    <3>1. Fired
      BY <2>2 DEF Fired
    <3>2. ~HeadFails /\ reply.frame # <<>> /\ reply.http = 200
      BY <2>2 DEF Message, HeadFails
    <3>3. PICK s, l \in Nat : reply.frame = <<EncodePayload(s, Negotiated, l)>>
      BY <2>2, <3>2 DEF Answered
    <3>4. ResponseEncoding = <<Negotiated>>
      BY <2>2, <3>1, <3>2, HeadIsTaken
    <3>5. Message[1] = ReadMessage(reply.frame[1], Negotiated)
      BY <3>2, <3>4 DEF Message
    <3> QED BY <3>3, <3>5, ReadsBack
  <2> QED BY <2>1, <2>2 DEF MessagesDecode
<1> QED BY <1>1, AnsweredInvariant, PTL
-----------------------------------------------------------------------------
(* build_request writes the metadata where the defaults wrote nothing. *)
LEMMA FireCarries ==
    ASSUME Typed, Configured, Carried, ~call.foreign, Fire
    PROVE  /\ \A k \in Keys : request'[k] = Appended(call.entries, k)
           /\ \A n \in Reserved : Len(request'[n]) <= 1
<1> DEFINE Five == {"content-type", "te", "grpc-accept-encoding", "grpc-encoding",
                    "grpc-timeout"}
           kind == Insert(defaults, "content-type", scope.suffix)
           te == Insert(kind, "te", "trailers")
           typed == Insert(te, "grpc-accept-encoding", All(scope.client))
           coded == IF call.encoding = "identity" THEN typed
                    ELSE Insert(typed, "grpc-encoding", call.encoding)
           timed == IF call.deadline = <<>> THEN coded
                    ELSE Insert(coded, "grpc-timeout",
                                Format(Remaining(call.deadline[1])))
           Others(h) == HeaderMap(h) /\ \A n \in Names \ Five : h[n] = <<>>
<1>1. Others(defaults)
  BY DEF Typed, Carried
<1>2. ASSUME NEW h, Others(h), NEW n \in Five, NEW value
      PROVE  Others(Insert(h, n, value))
  BY <1>2, Reserveds, InsertSays
<1> HIDE DEF Others
<1>3. Others(typed)
  <2>1. Others(kind)
    BY <1>1, <1>2
  <2> HIDE DEF kind
  <2>2. Others(te)
    BY <1>2, <2>1
  <2> HIDE DEF te
  <2> QED BY <1>2, <2>2
<1> HIDE DEF typed
<1>4. Others(coded)
  BY <1>2, <1>3
<1> HIDE DEF coded
<1>5. Others(timed)
  BY <1>2, <1>4
<1>6. request' = WriteInto(call.entries, timed) /\ call.entries \in Seq(Held)
  BY DEF Fire, BuildRequest, typed, coded, te, kind, Typed
<1> HIDE DEF timed
<1>7. HeaderMap(timed) /\ \A n \in Names \ Five : timed[n] = <<>>
  BY <1>5 DEF Others
<1>8. ASSUME NEW k \in Keys PROVE request'[k] = Appended(call.entries, k)
  <2>1. k \in Names /\ timed[k] = <<>>
    BY <1>7, KeysApart DEF IsReserved, Reserved
  <2>2. request'[k] = <<>> \o Appended(call.entries, k)
    <3>1. timed[k] \in Seq(WireValues)
      BY <2>1, EmptySeq
    <3>2. WriteInto(call.entries, timed)[k] = timed[k] \o Appended(call.entries, k)
      BY <1>6, <2>1, <3>1, WriteIntoSays
    <3> QED BY <1>6, <2>1, <3>2, Zenon
  <2>3. Appended(call.entries, k) \in Seq(WireValues)
    BY <1>6, SaidTypes
  <2> QED BY <2>2, <2>3, ConcatEmptySeq
<1>9. ASSUME NEW n \in Reserved PROVE Len(request'[n]) <= 1
  <2>1. CASE n \in Five
    <3>1. Len(<<>>) <= 1 /\ \A v : Len(<<v>>) <= 1
      OBVIOUS
    <3>2. /\ Len(request'["content-type"]) <= 1 /\ Len(request'["te"]) <= 1
          /\ Len(request'["grpc-accept-encoding"]) <= 1
      BY <3>1, FireWrites
    <3>3. Len(request'["grpc-encoding"]) <= 1
      <4>1. \/ request'["grpc-encoding"] = <<>>
            \/ request'["grpc-encoding"] = <<call.encoding>>
        BY FireWrites
      <4> QED BY <3>1, <4>1
    <3>4. Len(request'["grpc-timeout"]) <= 1
      <4>1. \/ request'["grpc-timeout"] = <<>>
            \/ request'["grpc-timeout"] = <<Format(call.deadline[1] - now)>>
        BY FireWrites
      <4> QED BY <3>1, <4>1
    <3> QED BY <2>1, <3>2, <3>3, <3>4
  <2>2. CASE n \notin Five
    <3>1. request'[n] = timed[n] /\ n \in Names
      BY <1>6, <1>7, MetadataIsApart DEF Names
    <3>2. request'[n] = <<>>
      BY <1>7, <2>2, <3>1
    <3> QED BY <3>2, EmptySeq
  <2> QED BY <2>1, <2>2
<1> QED BY <1>8, <1>9

(* Each action keeps what the request carries of the call's metadata. *)
LEMMA CarriedStep == IInv /\ Carried /\ [Next]_vars => Carried'
<1> SUFFICES ASSUME IInv, Carried, [Next]_vars PROVE Carried'
  OBVIOUS
<1>0. /\ Typed /\ Progress /\ Configured
      /\ DOMAIN call = CallFields /\ HeaderMap(defaults)
  BY DEF IInv, Typed
<1>1. CASE Tick \/ UNCHANGED vars
  BY <1>1 DEF Tick, vars, Carried
<1>2. ASSUME \/ \E e \in scope.encodings : SetOutboundCompression(e)
             \/ \E d \in scope.defaultTimeouts : SetDefaultTimeout(d)
      PROVE  Carried'
  <2>1. /\ stage = "config" /\ UNCHANGED <<stage, request>>
        /\ \A n \in Names \ {"grpc-encoding", "grpc-timeout"} :
               defaults'[n] = defaults[n]
    BY <1>0, <1>2 DEF SetOutboundCompression, SetDefaultTimeout, Insert, HeaderMap
  <2> QED BY <2>1 DEF Carried
<1>3. ASSUME \/ \E s \in scope.sizes, l \in scope.lengths : Construct(s, l)
             \/ \E e \in scope.entries : WithMetadata(e)
             \/ \E d \in scope.timeouts : WithTimeout(d)
             \/ Misused \/ TooLate
      PROVE  Carried'
  <2>1. stage \in {"config", "pending"} /\ UNCHANGED <<defaults, request>>
    BY <1>3 DEF Construct, WithMetadata, WithTimeout, Misused, TooLate, Ends
  <2> QED BY <2>1 DEF Carried
<1>4. CASE Fire
  <2>1. /\ stage' = "sent" /\ UNCHANGED defaults /\ ~call.foreign
        /\ call'.entries = call.entries
    BY <1>0, <1>4 DEF Fire, Progress, CallFields
  <2>2. /\ \A k \in Keys : request'[k] = Appended(call.entries, k)
        /\ \A n \in Reserved : Len(request'[n]) <= 1
    BY <1>0, <1>4, <2>1, FireCarries
  <2> QED BY <2>1, <2>2 DEF Carried
<1>5. ASSUME NEW h, NEW f, ForeignRequest(h, f) PROVE Carried'
  BY <1>5 DEF ForeignRequest, NoCall, Carried
<1>6. CASE AfterFire
  BY <1>6, AfterFireKeeps DEF Carried
<1> QED BY <1>1, <1>2, <1>3, <1>4, <1>5, <1>6 DEF Next, AfterFire

(* Whatever arrives as a frame, what is made of it is one of the codes. *)
LEMMA ReadMessageCode ==
    ASSUME NEW f, NEW encoding PROVE ReadMessage(f, encoding).code \in Codes
BY DEF ReadMessage, Decompress, ReadCapped, Bytes, Refused, Codes

(* Each action keeps what the trailers tell of the status. *)
LEMMA ToldStep == IInv /\ Told /\ [Next]_vars => Told'
<1> SUFFICES ASSUME IInv, Told, [Next]_vars PROVE Told'
  OBVIOUS
<1>0. Typed /\ Progress /\ DOMAIN server = ServerFields /\ HeaderMap(server.raw)
  BY DEF IInv, Typed
<1>1. CASE \/ Tick \/ UNCHANGED vars \/ ReadReply
  <2>1. /\ UNCHANGED <<server, reply>>
        /\ stage \in {"replied", "done"} => stage' \in {"replied", "done"}
    BY <1>1 DEF Tick, ReadReply, vars
  <2> QED BY <2>1 DEF Told
<1>2. ASSUME \/ \E e \in scope.encodings : SetOutboundCompression(e)
             \/ \E d \in scope.defaultTimeouts : SetDefaultTimeout(d)
             \/ \E s \in scope.sizes, l \in scope.lengths : Construct(s, l)
             \/ \E e \in scope.entries : WithMetadata(e)
             \/ \E d \in scope.timeouts : WithTimeout(d)
             \/ \E h \in scope.foreignRequests, f \in scope.foreignFrames :
                    ForeignRequest(h, f)
             \/ \E a \in scope.foreignReplies : ForeignReply(a)
             \/ Misused \/ TooLate \/ Fire
      PROVE  Told'
  <2>1. UNCHANGED server /\ stage \in {"config", "pending", "sent"}
    BY <1>2 DEF SetOutboundCompression, SetDefaultTimeout, Construct, WithMetadata,
                WithTimeout, Misused, TooLate, Ends, Fire, ForeignRequest, ForeignReply
  <2>2. server.status = <<>>
    BY <1>0, <2>1 DEF Progress, NoServer
  <2> QED BY <2>1, <2>2 DEF Told
<1>3. CASE RefuseHttp \/ Accept \/ NewServerConn \/ Panics
  <2>1. /\ stage \in {"sent", "accepted"} /\ server'.raw = server.raw
        /\ server'.status = server.status
        /\ \/ server'.message = server.message
           \/ server'.message = <<ReadMessage(call.frame[1], server.encoding)>>
    <3>1. CASE RefuseHttp
      BY <1>0, <3>1 DEF RefuseHttp, ServerFields
    <3>2. CASE Accept
      BY <1>0, <3>2 DEF Accept, Acceptable, Prepared, ServerFields
    <3>3. CASE NewServerConn
      BY <1>0, <3>3 DEF NewServerConn, ServerFields
    <3>4. CASE Panics
      BY <1>0, <3>4 DEF Panics, Acceptable, Prepared, ServerFields
    <3> QED BY <1>3, <3>1, <3>2, <3>3, <3>4
  <2>2. server.status = <<>>
    BY <2>1 DEF Told
  <2> QED BY <2>1, <2>2, ReadMessageCode DEF Told
<1>4. ASSUME NEW h \in scope.headers, WriteHeader(h[1], h[2]) PROVE Told'
  <2>1. /\ stage = "handling" /\ server'.raw = server.raw
        /\ server'.status = server.status /\ server'.message = server.message
    BY <1>0, <1>4 DEF WriteHeader, Handling, ServerFields
  <2> QED BY <2>1 DEF Told
<1>5. ASSUME NEW t \in scope.trailers, WriteTrailer(t[1], t[2]) PROVE Told'
  <2> DEFINE n == Lowercase(t[1])
  <2>1. /\ stage = "handling" /\ server'.raw = AppendTo(server.raw, n, t[2])
        /\ server'.status = server.status /\ server'.message = server.message
    BY <1>0, <1>5 DEF WriteTrailer, Handling, ServerFields
  <2>2. n \in Names /\ (n \in Keys => t[2] \in WireValues)
    BY <1>0, ScopesAssumption, KeysAssumption DEF Typed, Lowercase, Spellings
  <2> HIDE DEF n
  <2>3. ASSUME NEW k \in Keys PROVE server'.raw[k] \in Seq(WireValues)
    <3>1. server.raw[k] \in Seq(WireValues)
      BY DEF Told
    <3>2. CASE k = n
      <4>1. server'.raw[k] = Append(server.raw[k], t[2])
        BY <1>0, <2>1, <2>2, <3>2 DEF AppendTo, HeaderMap
      <4> QED BY <2>2, <3>1, <3>2, <4>1, AppendProperties
    <3>3. CASE k # n
      BY <1>0, <2>1, <3>1, <3>3 DEF AppendTo
    <3> QED BY <3>2, <3>3
  <2> QED BY <2>1, <2>3 DEF Told
<1>6. ASSUME NEW code \in Codes
      PROVE  /\ NewStatus(code, <<>>, <<>>) \in StatusValues
             /\ NewStatus(code, <<>>, <<>>).code = code
  BY Utf8Assumption DEF NewStatus, StatusValues
<1>7. CASE RefuseCall
  <2>1. PICK code \in {"Unimplemented", "InvalidArgument"} :
            /\ server'.status = <<NewStatus(code, <<>>, <<>>)>>
            /\ server'.verdict = code
    BY <1>0, <1>7 DEF RefuseCall, ServerFields
  <2>2. /\ stage = "sent" /\ stage' = "replied" /\ server'.raw = server.raw
        /\ server'.message = server.message
        /\ reply'.http = 200 /\ reply'.frame = <<>>
        /\ reply'.trailers = StatusWriteInto(server'.status[1], NoHeaders)
    BY <1>0, <1>7 DEF RefuseCall, Prepared, Answer, ServerFields
  <2>3. server.raw = NoHeaders
    BY <1>0, <2>2 DEF Progress, NoServer
  <2>4. server'.status[1] \in StatusValues /\ server'.verdict # "none"
    BY <1>6, <2>1 DEF Codes
  <2> QED BY <2>2, <2>3, <2>4 DEF Told
<1>8. ASSUME \/ RequestUnread
             \/ \E s \in scope.sizes, l \in scope.lengths : Respond(s, l)
             \/ \E s \in scope.statuses : FailCall(s)
      PROVE  Told'
  <2>1. /\ stage = "handling" /\ stage' = "replied" /\ server'.raw = server.raw
        /\ server'.message = server.message /\ server'.verdict = server.verdict
        /\ reply'.http = 200
        /\ reply'.trailers = StatusWriteInto(server'.status[1], server.raw)
    BY <1>0, <1>8 DEF RequestUnread, Respond, FailCall, Handling, Answer, ServerFields
  <2>2. server'.status[1] \in StatusValues
    <3>1. CASE RequestUnread
      <4>1. server'.status = <<NewStatus(server.message[1].code, <<>>, <<>>)>>
        BY <1>0, <3>1 DEF RequestUnread, ServerFields
      <4>2. Len(server.message) = 1
        BY <1>0, <2>1 DEF Typed
      <4>3. server.message # <<>>
        BY <4>2, EmptySeq
      <4>4. server.message[1].code \in Codes
        BY <4>3 DEF Told
      <4> QED BY <1>6, <4>1, <4>4
    <3>2. ASSUME NEW s, NEW l, Respond(s, l) PROVE server'.status[1] \in StatusValues
      <4>1. server'.status = <<NewStatus("Ok", <<>>, <<>>)>>
        BY <1>0, <3>2 DEF Respond, ServerFields
      <4>2. "Ok" \in Codes
        BY DEF Codes
      <4> QED BY <1>6, <4>1, <4>2
    <3>3. ASSUME NEW s \in scope.statuses, FailCall(s)
          PROVE  server'.status[1] \in StatusValues
      <4>1. server'.status = <<s>>
        BY <1>0, <3>3 DEF FailCall, ServerFields
      <4>2. s \in StatusValues
        BY <1>0, ScopesAssumption DEF Typed
      <4> QED BY <4>1, <4>2
    <3> QED BY <1>8, <3>1, <3>2, <3>3
  <2>3. server'.status[1].code # "Ok" => reply'.frame = <<>>
    <3>1. CASE RequestUnread \/ \E s \in scope.statuses : FailCall(s)
      BY <3>1 DEF RequestUnread, FailCall, Answer
    <3>2. ASSUME NEW s, NEW l, Respond(s, l) PROVE server'.status[1].code = "Ok"
      <4>1. server'.status = <<NewStatus("Ok", <<>>, <<>>)>>
        BY <1>0, <3>2 DEF Respond, ServerFields
      <4> QED BY <4>1 DEF NewStatus
    <3> QED BY <1>8, <3>1, <3>2
  <2>4. server'.verdict = "ok"
    BY <1>0, <2>1 DEF Progress
  <2> QED BY <2>1, <2>2, <2>3, <2>4 DEF Told
<1> QED BY <1>1, <1>2, <1>3, <1>4, <1>5, <1>7, <1>8 DEF Next
-----------------------------------------------------------------------------
(* A status of any code, message and metadata is read out of the trailers it was
   written into, over whatever else was there: a caller that is told of a failure
   is told its code and its message, and its metadata after what was written under
   the same keys.                                                             *)
THEOREM StatusRoundTrips ==
    ASSUME NEW status \in StatusValues, NEW raw, HeaderMap(raw),
           \A k \in Keys : raw[k] \in Seq(WireValues)
    PROVE  LET trailers == StatusWriteInto(status, raw)
               heard == FromTrailers(trailers)
           IN  /\ GetStr(trailers, "grpc-status") # <<>>
               /\ heard.code = status.code
               /\ status.code # "Ok" =>
                    /\ status.message # <<>> => heard.message = status.message
                    /\ \A k \in Keys : heard.metadata[k] =
                           Decoded(k, raw[k] \o Appended(status.metadata, k))
<1> DEFINE coded == Insert(raw, "grpc-status", status.code)
           full == IF status.message = <<>> THEN coded
                   ELSE Insert(coded, "grpc-message", PercentEncode(status.message))
           trailers == StatusWriteInto(status, raw)
           heard == FromTrailers(trailers)
<1>0. /\ "grpc-status" \in Reserved /\ "grpc-message" \in Reserved
      /\ "grpc-status" \in Names /\ "grpc-message" \in Names
  BY DEF Names, Reserved
<1>1. /\ status.code \in Codes /\ status.message \in Utf8
      /\ status.metadata \in Seq(Held)
  BY DEF StatusValues
<1>2. /\ HeaderMap(coded) /\ coded["grpc-status"] = <<status.code>>
      /\ \A m \in Names \ {"grpc-status"} : coded[m] = raw[m]
  BY <1>0, InsertSays
<1> HIDE DEF coded
<1>3. /\ HeaderMap(full) /\ full["grpc-status"] = <<status.code>>
      /\ \A m \in Names \ {"grpc-status", "grpc-message"} : full[m] = raw[m]
  BY <1>0, <1>2, InsertSays
<1>4. status.message # <<>> =>
          full["grpc-message"] = <<PercentEncode(status.message)>>
  BY <1>0, <1>2, InsertSays
<1>5. trailers = WriteInto(status.metadata, full)
  BY DEF StatusWriteInto, coded
<1> HIDE DEF full, trailers
<1>6. \A n \in Reserved : trailers[n] = full[n]
  BY <1>1, <1>3, <1>5, MetadataIsApart
<1>7. GetStr(trailers, "grpc-status") = <<status.code>>
  BY <1>0, <1>3, <1>6, GetStrOne
<1>8. heard.code = status.code
  BY <1>1, <1>7 DEF FromTrailers, NewStatus
<1>9. ASSUME status.code # "Ok", status.message # <<>>
      PROVE  heard.message = status.message
  <2>1. GetStr(trailers, "grpc-message") = <<PercentEncode(status.message)>>
    BY <1>0, <1>4, <1>6, <1>9, GetStrOne
  <2>2. heard.message = PercentDecode(PercentEncode(status.message))
    BY <1>1, <1>7, <1>9, <2>1 DEF FromTrailers, NewStatus
  <2> QED BY <1>1, <2>2, MessageRoundTrips
<1>10. ASSUME status.code # "Ok", NEW k \in Keys
       PROVE  heard.metadata[k] = Decoded(k, raw[k] \o Appended(status.metadata, k))
  <2>1. k \in Names /\ IsValidKey(k) /\ ~IsReserved(k)
    BY KeysApart
  <2>2. full[k] = raw[k]
    BY <1>0, <1>3, <2>1 DEF IsReserved
  <2>3. trailers[k] = raw[k] \o Appended(status.metadata, k)
    <3>1. full[k] \in Seq(WireValues)
      BY <2>2
    <3>2. WriteInto(status.metadata, full)[k] = full[k] \o Appended(status.metadata, k)
      BY <1>1, <2>1, <3>1, WriteIntoSays
    <3> QED BY <1>5, <2>2, <3>2, Zenon
  <2>4. heard.metadata = FromHeaders(trailers)
    BY <1>1, <1>7, <1>10 DEF FromTrailers, NewStatus
  <2>5. heard.metadata[k] = Decoded(k, trailers[k])
    BY <2>1, <2>4 DEF FromHeaders
  <2> QED BY <2>3, <2>5, Zenon
<1> HIDE DEF heard
<1>11. GetStr(trailers, "grpc-status") # <<>>
  BY <1>7
<1> QED BY <1>8, <1>9, <1>10, <1>11, Zenon DEF trailers, heard

(* A reader of the reply takes the status the server wrote for its verdict.      *)
LEMMA VerdictIsTold ==
    ASSUME IInv, Told, server.status # <<>>
    PROVE  /\ Verdict = FromTrailers(reply.trailers)
           /\ Verdict.code = server.status[1].code
           /\ server.status[1].code # "Ok" =>
                /\ server.status[1].message # <<>> =>
                       Verdict.message = server.status[1].message
                /\ \A k \in Keys : Verdict.metadata[k] = Decoded(k,
                       server.raw[k] \o Appended(server.status[1].metadata, k))
<1>1. /\ server.status[1] \in StatusValues /\ HeaderMap(server.raw)
      /\ \A k \in Keys : server.raw[k] \in Seq(WireValues)
      /\ reply.trailers = StatusWriteInto(server.status[1], server.raw)
  BY DEF Told, IInv, Typed
<1>2. GetStr(reply.trailers, "grpc-status") # <<>>
  BY <1>1, StatusRoundTrips
<1>3. Verdict = FromTrailers(reply.trailers)
  BY <1>2 DEF Verdict
<1> QED BY <1>1, <1>3, StatusRoundTrips

(* A step that ends a call is the reading of the reply, or an end before its start. *)
LEMMA HowACallEnds ==
    ASSUME [Next]_vars, stage' = "done"
    PROVE  Misused \/ TooLate \/ Panics \/ ReadReply \/ UNCHANGED vars
<1>1. ~Tick
  BY DEF Tick
<1>2. ~\/ \E e \in scope.encodings : SetOutboundCompression(e)
       \/ \E d \in scope.defaultTimeouts : SetDefaultTimeout(d)
       \/ \E s \in scope.sizes, l \in scope.lengths : Construct(s, l)
       \/ \E e \in scope.entries : WithMetadata(e)
       \/ \E d \in scope.timeouts : WithTimeout(d)
       \/ Fire
  BY DEF SetOutboundCompression, SetDefaultTimeout, Construct, WithMetadata,
         WithTimeout, Fire
<1>3. ~\/ \E h \in scope.foreignRequests, f \in scope.foreignFrames :
              ForeignRequest(h, f)
       \/ RefuseHttp \/ RefuseCall \/ Accept \/ NewServerConn \/ RequestUnread
       \/ \E a \in scope.foreignReplies : ForeignReply(a)
  BY DEF ForeignRequest, RefuseHttp, RefuseCall, Accept, NewServerConn, RequestUnread,
         ForeignReply, Answer
<1>4. ~\/ \E h \in scope.headers : WriteHeader(h[1], h[2])
       \/ \E t \in scope.trailers : WriteTrailer(t[1], t[2])
       \/ \E s \in scope.sizes, l \in scope.lengths : Respond(s, l)
       \/ \E s \in scope.statuses : FailCall(s)
  BY DEF WriteHeader, WriteTrailer, Respond, FailCall, Handling, Answer
<1> QED BY <1>1, <1>2, <1>3, <1>4 DEF Next

(* Of a server's answer to a request of ours, the caller makes out the frame. *)
LEMMA AnswerIsLegible ==
    ASSUME IInv, Answered, Told, ReadReply, server.status # <<>>, Untouched
    PROVE  /\ ~HeadFails
           /\ Message = <<>> <=> reply.frame = <<>>
           /\ reply.frame # <<>> =>
                Message[1].code =
                    IF Legible(reply.frame[1]) THEN "Ok" ELSE "ResourceExhausted"
<1>1. stage = "replied" /\ Fired
  BY DEF ReadReply, Told, Fired
<1>2. server.verdict # "none" /\ reply.http = 200
  BY DEF Told
<1>3. ~HeadFails /\ ResponseEncoding = <<Negotiated>>
  BY <1>1, <1>2, HeadIsTaken
<1>4. ASSUME reply.frame # <<>>
      PROVE  /\ Message # <<>>
             /\ Message[1].code =
                    IF Legible(reply.frame[1]) THEN "Ok" ELSE "ResourceExhausted"
  <2>1. Message = <<ReadMessage(reply.frame[1], Negotiated)>>
    BY <1>3, <1>4 DEF Message
  <2>2. PICK s, l \in Nat : reply.frame = <<EncodePayload(s, Negotiated, l)>>
    BY <1>1, <1>4 DEF Answered, Told
  <2>3. ReadsAsSent(reply.frame[1], Message[1])
    BY <2>1, <2>2, ReadsBack
  <2> QED BY <2>1, <2>3 DEF ReadsAsSent, Bytes, Refused
<1>5. reply.frame = <<>> => Message = <<>>
  BY DEF Message
<1> QED BY <1>3, <1>4, <1>5

(* What a caller reads when the server has ended its call with a status. *)
LEMMA ReplyIsRead ==
    ASSUME IInv, Answered, Told, ReadReply, server.status # <<>>, Untouched
    PROVE  /\ server.status[1].code # "Ok" => outcome'[1] = Verdict
           /\ server.status[1].code = "Ok" =>
                outcome'[1].code =
                    CASE reply.frame = <<>> -> "Internal"
                      [] reply.frame # <<>> /\ ~Legible(reply.frame[1]) ->
                             "ResourceExhausted"
                      [] OTHER -> IF TrailersOnly THEN "Internal" ELSE "Ok"
<1>1. /\ ~HeadFails
      /\ Message = <<>> <=> reply.frame = <<>>
      /\ reply.frame # <<>> =>
           Message[1].code =
               IF Legible(reply.frame[1]) THEN "Ok" ELSE "ResourceExhausted"
  BY AnswerIsLegible
<1>2. Verdict.code = server.status[1].code
  BY VerdictIsTold
<1>3. CASE server.status[1].code # "Ok"
  <2>1. Message = <<>>
    BY <1>1, <1>3 DEF Told
  <2> QED BY <1>1, <1>2, <1>3, <2>1 DEF ReadReply
<1>4. CASE server.status[1].code = "Ok"
  <2>1. CASE Message = <<>>
    <3>1. outcome' = <<FailedWith("Internal")>>
      BY <1>1, <1>2, <1>4, <2>1 DEF ReadReply
    <3> QED BY <1>1, <1>4, <2>1, <3>1 DEF FailedWith, NewStatus
  <2>2. CASE Message # <<>> /\ Message[1].code # "Ok"
    <3>1. outcome' = <<FailedWith("ResourceExhausted")>>
      BY <1>1, <2>2 DEF ReadReply
    <3>2. reply.frame # <<>> /\ ~Legible(reply.frame[1])
      BY <1>1, <2>2
    <3> QED BY <1>4, <3>1, <3>2 DEF FailedWith, NewStatus
  <2>3. CASE Message # <<>> /\ Message[1].code = "Ok" /\ TrailersOnly
    <3>1. outcome' = <<FailedWith("Internal")>>
      BY <1>1, <2>3 DEF ReadReply
    <3>2. reply.frame # <<>> /\ Legible(reply.frame[1])
      BY <1>1, <2>3
    <3> QED BY <1>4, <2>3, <3>1, <3>2 DEF FailedWith, NewStatus
  <2>4. CASE Message # <<>> /\ Message[1].code = "Ok" /\ ~TrailersOnly
    <3>1. outcome' = <<Verdict>>
      BY <1>1, <2>4 DEF ReadReply
    <3>2. reply.frame # <<>> /\ Legible(reply.frame[1])
      BY <1>1, <2>4
    <3> QED BY <1>2, <1>4, <2>4, <3>1, <3>2
  <2> QED BY <2>1, <2>2, <2>3, <2>4
<1> QED BY <1>3, <1>4

(* Ok is read only of a reply that has a message and says so behind it. *)
LEMMA OkIsEarned ==
    ASSUME ReadReply, outcome'[1].code = "Ok"
    PROVE  /\ Message # <<>> /\ Message[1].code = "Ok" /\ reply.http = 200
           /\ LET said == GetStr(reply.trailers, "grpc-status")
              IN  said # <<>> /\ said[1] = "Ok"
<1>0. ASSUME NEW code, outcome' = <<FailedWith(code)>> PROVE code = "Ok"
  BY <1>0 DEF FailedWith, NewStatus
<1>1. ~HeadFails
  <2> SUFFICES ASSUME HeadFails PROVE FALSE
    OBVIOUS
  <2>1. outcome' = <<FailedWith(HeadError)>>
    BY DEF ReadReply
  <2> QED BY <1>0, <2>1 DEF HeadError, HttpToGrpcStatus
<1>2. Message # <<>>
  <2> SUFFICES ASSUME Message = <<>> PROVE FALSE
    OBVIOUS
  <2>1. outcome' = IF Verdict.code = "Ok" THEN <<FailedWith("Internal")>>
                   ELSE <<Verdict>>
    BY <1>1 DEF ReadReply
  <2> QED BY <1>0, <2>1
<1>3. Message[1].code = "Ok"
  <2> SUFFICES ASSUME Message[1].code # "Ok" PROVE FALSE
    OBVIOUS
  <2>1. outcome' = <<FailedWith(Message[1].code)>>
    BY <1>1, <1>2 DEF ReadReply
  <2> QED BY <1>0, <2>1
<1>4. outcome' = IF TrailersOnly THEN <<FailedWith("Internal")>> ELSE <<Verdict>>
  BY <1>1, <1>2, <1>3 DEF ReadReply
<1>5. ~TrailersOnly /\ Verdict.code = "Ok"
  BY <1>0, <1>4
<1>6. FromTrailers(reply.trailers).code = "Ok"
  BY <1>5 DEF Verdict, TrailersOnly
<1>7. LET said == GetStr(reply.trailers, "grpc-status")
      IN  said # <<>> /\ said[1] = "Ok"
  BY <1>6 DEF FromTrailers, NewStatus
<1> QED BY <1>1, <1>2, <1>3, <1>7 DEF HeadFails

(* Each action keeps what the caller has read of the server's end of the call.   *)
LEMMA HeardStep ==
    IInv /\ Answered /\ Told /\ Heard /\ [Next]_vars => Heard'
<1> SUFFICES ASSUME IInv, Answered, Told, Heard, [Next]_vars, stage' = "done"
             PROVE  Heard'
  BY DEF Heard, StatusSurvives, MetadataHeard
<1>1. CASE UNCHANGED vars
  BY <1>1 DEF vars, Heard, StatusSurvives, MetadataHeard, Message, HeadFails,
              ResponseEncoding, ContentType, TrailersOnly, Untouched
<1>2. CASE Misused \/ TooLate
  <2>1. PICK code \in {"InvalidArgument", "DeadlineExceeded"} :
            stage = "pending" /\ Ends(code)
    BY <1>2 DEF Misused, TooLate
  <2>2. server.status = <<>> /\ UNCHANGED server
    BY <2>1 DEF IInv, Progress, NoServer, Ends
  <2>3. outcome'[1].code # "Ok"
    BY <2>1 DEF Ends, FailedWith, NewStatus
  <2> QED BY <2>2, <2>3 DEF Heard, StatusSurvives, MetadataHeard
<1>4. CASE Panics
  <2>1. stage \in {"sent", "accepted"} /\ server'.status = server.status
        /\ outcome' = <<FailedWith("Unavailable")>>
    BY <1>4 DEF Panics, Acceptable, Prepared, IInv, Typed, ServerFields
  <2>2. server.status = <<>> /\ outcome'[1].code # "Ok"
    BY <2>1 DEF Told, FailedWith, NewStatus
  <2> QED BY <2>1, <2>2 DEF Heard, StatusSurvives, MetadataHeard
<1>3. CASE ReadReply
  <2>1. UNCHANGED <<scope, server, reply, Message, TrailersOnly, Untouched>>
    BY <1>3 DEF ReadReply, Message, HeadFails, ResponseEncoding, ContentType,
                TrailersOnly, Untouched
  <2>2. outcome'[1].code = "Ok" =>
            /\ Message # <<>> /\ Message[1].code = "Ok" /\ reply.http = 200
            /\ LET said == GetStr(reply.trailers, "grpc-status")
               IN  said # <<>> /\ said[1] = "Ok"
    BY <1>3, OkIsEarned
  <2>3. ASSUME server.status # <<>>, Untouched
        PROVE  /\ server.status[1].code # "Ok" => outcome'[1] = Verdict
               /\ server.status[1].code = "Ok" =>
                    outcome'[1].code =
                        CASE reply.frame = <<>> -> "Internal"
                          [] reply.frame # <<>> /\ ~Legible(reply.frame[1]) ->
                                 "ResourceExhausted"
                          [] OTHER -> IF TrailersOnly THEN "Internal" ELSE "Ok"
    BY <1>3, <2>3, ReplyIsRead
  <2>4. StatusSurvives'
    BY <2>1, <2>2, <2>3, VerdictIsTold DEF StatusSurvives
  <2>5. MetadataHeard'
    <3> SUFFICES ASSUME server.status # <<>>, server.status[1].code # "Ok",
                        Untouched, NEW k \in Keys
                 PROVE  LET got == outcome'[1].metadata[k]
                            own == Amount(server.status[1].metadata, k)
                        IN  /\ SubSeq(got, 1, Len(got) - own)
                                   = Decoded(k, server.raw[k])
                            /\ EndsWith(got, server.status[1].metadata, k)
      BY <2>1 DEF MetadataHeard
    <3>1. outcome'[1].metadata[k]
              = Decoded(k, server.raw[k] \o Appended(server.status[1].metadata, k))
      BY <2>3, VerdictIsTold
    <3>2. /\ server.raw[k] \in Seq(WireValues)
          /\ server.status[1].metadata \in Seq(Held)
      BY DEF Told, StatusValues
    <3> QED BY <3>1, <3>2, MetadataKept
  <2> QED BY <2>4, <2>5 DEF Heard
<1> QED BY <1>1, <1>2, <1>3, <1>4, HowACallEnds

(* The whole invariant of a call. *)
Intact == IInv /\ Answered /\ Carried /\ Told /\ Heard
(* It holds of every behaviour. *)
LEMMA IntactInvariant == Spec => []Intact
<1>1. Init => Intact
  <2> SUFFICES ASSUME Init PROVE Carried /\ Told /\ Heard
    BY InitIInv DEF Intact
  <2>1. HeaderMap(NoHeaders) /\ \A n \in Names : NoHeaders[n] = <<>>
    BY DEF HeaderMap, NoHeaders
  <2>2. Carried
    BY <2>1 DEF Init, Carried
  <2>3. Told
    <3>1. \A k \in Keys : NoHeaders[k] = <<>>
      BY <2>1, KeysApart
    <3>2. server.raw = NoHeaders /\ server.message = <<>> /\ server.status = <<>>
      BY DEF Init, NoServer
    <3> QED BY <3>1, <3>2, EmptySeq DEF Told
  <2>4. Heard
    BY DEF Init, Heard, StatusSurvives, MetadataHeard
  <2> QED BY <2>2, <2>3, <2>4
<1>2. Intact /\ [Next]_vars => Intact'
  BY TypedStep, ProgressStep, ConfiguredStep, WrittenStep, TakenStep, AnsweredStep,
     CarriedStep, ToldStep, HeardStep DEF IInv, Intact
<1> QED BY <1>1, <1>2, PTL DEF Spec

(* Metadata of any length, under any set of keys, reaches the peer: each key's
   values in their order, and the server's after those its handler wrote.       *)
THEOREM MetadataReachesItsReader == Spec => []MetadataArrives
<1>1. Intact => MetadataArrives
  <2> SUFFICES ASSUME Intact, ~call.foreign, request # NoHeaders
               PROVE  /\ \A k \in Keys :
                             LET got == FromHeaders(request)[k]
                             IN  /\ Len(got) = Amount(call.entries, k)
                                 /\ EndsWith(got, call.entries, k)
                      /\ \A n \in Reserved : Len(request[n]) <= 1
    BY DEF MetadataArrives, Intact, Heard, MetadataHeard
  <2>1. Carried /\ call.entries \in Seq(Held)
    BY DEF Intact, IInv, Typed
  <2>2. ASSUME NEW k \in Keys
        PROVE  LET got == FromHeaders(request)[k]
               IN  /\ Len(got) = Amount(call.entries, k)
                   /\ EndsWith(got, call.entries, k)
    <3> DEFINE sent == Appended(call.entries, k)
               got == Decoded(k, <<>> \o sent)
               amount == Amount(call.entries, k)
    <3>1. k \in Names /\ IsValidKey(k) /\ ~IsReserved(k)
      BY KeysApart
    <3>2. sent \in Seq(WireValues) /\ request[k] = sent
      BY <2>1, SaidTypes DEF Carried
    <3>3. FromHeaders(request)[k] = got
      <4>1. FromHeaders(request)[k] = Decoded(k, request[k])
        BY <3>1 DEF FromHeaders
      <4>2. <<>> \o sent = sent
        BY <3>2, ConcatEmptySeq
      <4> QED BY <3>2, <4>1, <4>2, Zenon
    <3>4. /\ Len(got) = Len(Decoded(k, <<>>)) + amount
          /\ EndsWith(got, call.entries, k)
      BY <2>1, EmptySeq, MetadataKept
    <3>5. Len(Decoded(k, <<>>)) = 0
      BY NothingSaid, EmptySeq
    <3>6. amount \in Nat
      BY <2>1, OwnArrives
    <3> HIDE DEF got, amount
    <3>7. Len(got) = amount
      BY <3>4, <3>5, <3>6
    <3> QED BY <3>3, <3>4, <3>7 DEF amount
  <2> QED BY <2>1, <2>2 DEF Carried
<1> QED BY <1>1, IntactInvariant, PTL

(* The status a server ends a call with is its caller's outcome, but for an Ok whose
   message is too long or whose handler told another in the head; and Ok is nobody's
   who did not get a message and the peer's own Ok behind it: whatever else the
   handler wrote, whoever the peer is.                                            *)
THEOREM StatusReachesItsReader == Spec => []StatusSurvives
BY IntactInvariant, PTL DEF Intact, Heard
=============================================================================
