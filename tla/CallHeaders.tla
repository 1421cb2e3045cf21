----------------------------- MODULE CallHeaders -----------------------------
(***************************************************************************)
(* What the headers of one call say, from the service client's defaults to   *)
(* the status its caller reads: the deadlines, encodings, metadata and       *)
(* statuses that a client (src/src/client), the wire and a server            *)
(* (src/src/server) each keep a copy of.  The call is a unary one that is     *)
(* neither lost nor raced: that is ClientConn's and ServerCall's matter.     *)
(* A foreign peer may write the request, or the reply, instead.             *)
(*                                                                         *)
(* A scope bounds one slice of the calls: the two builds, the codecs' names  *)
(* in the content types, and the values that each operation is called with.  *)
(* Instants and durations are in nanoseconds.  An Option is a sequence.     *)
(***************************************************************************)
EXTENDS GrpcTimeout, Encoding, Status

CONSTANTS
    Scopes,
    MaxInstant,    \* the last instant that an Instant can say
    MaxEntries,    \* bound on the entries of request metadata
    MaxRaw         \* bound on the headers the handler writes itself

Subtypes == {"proto", "json"}
HeaderMap(h) == DOMAIN h = Names
ASSUME ScopesAssumption == \A s \in Scopes :
    /\ s.client \subseteq Codecs /\ s.server \subseteq Codecs
    /\ s.suffix \in Subtypes /\ s.served \in Subtypes
    /\ s.defaultTimeouts \subseteq Nat /\ s.timeouts \subseteq Nat /\ s.maxNow \in Nat
    /\ s.sizes \subseteq Nat /\ s.lengths \subseteq Nat
    /\ s.entries \subseteq EntryValues
    /\ s.statuses \subseteq StatusValues
    /\ \A t \in s.trailers :
           t[1] \in Spellings /\ (Lowercase(t[1]) \in Keys => t[2] \in WireValues)
    /\ \A h \in s.foreignRequests :
           HeaderMap(h) /\ h["grpc-timeout"] \in Seq([value : Nat, unit : Nat])
    /\ \A r \in s.foreignReplies : HeaderMap(r.head) /\ HeaderMap(r.trailers)
(* The longest that format_grpc_timeout says is some eleven thousand years. *)
ASSUME InstantAssumption ==
    MaxInstant \in Nat /\ \A s \in Scopes : s.maxNow + Longest <= MaxInstant

VARIABLES scope, stage, now, defaults, call, request, server, reply, outcome
vars == <<scope, stage, now, defaults, call, request, server, reply, outcome>>

(* The last fields of each only record what was done. *)
NoCall == [deadline |-> <<>>, encoding |-> "identity", entries |-> <<>>,
           initError |-> FALSE, frame |-> <<>>,
           default |-> <<>>, asked |-> <<>>, sent |-> 0, foreign |-> FALSE]
NoServer == [encoding |-> "identity", race |-> <<>>, conn |-> <<>>, message |-> <<>>,
             head |-> NoHeaders, raw |-> NoHeaders,
             accepted |-> 0, verdict |-> "none", status |-> <<>>, wrote |-> {}]
NoReply == [http |-> 0, head |-> NoHeaders, trailers |-> NoHeaders, frame |-> <<>>]

Init ==
    /\ scope \in Scopes /\ stage = "config" /\ now = 0
    /\ defaults = NoHeaders /\ call = NoCall /\ request = NoHeaders
    /\ server = NoServer /\ reply = NoReply /\ outcome = <<>>

(* Time passes before every step of the call but its last. *)
Tick ==
    /\ now < scope.maxNow /\ stage \notin {"replied", "done"} /\ now' = now + 1
    /\ UNCHANGED <<scope, stage, defaults, call, request, server, reply, outcome>>

-----------------------------------------------------------------------------
(* The service client's setters. *)
SetOutboundCompression(encoding) ==
    /\ stage = "config" /\ encoding \in All(scope.client)
    /\ defaults' = IF encoding = "identity"
                   THEN [defaults EXCEPT !["grpc-encoding"] = <<>>]
                   ELSE Insert(defaults, "grpc-encoding", encoding)
    /\ UNCHANGED <<scope, stage, now, call, request, server, reply, outcome>>

SetDefaultTimeout(duration) ==
    /\ stage = "config"
    /\ defaults' = IF duration = 0
                   THEN [defaults EXCEPT !["grpc-timeout"] = <<>>]
                   ELSE Insert(defaults, "grpc-timeout", Format(duration))
    /\ call' = [call EXCEPT !.default = IF duration = 0 THEN <<>> ELSE <<duration>>]
    /\ UNCHANGED <<scope, stage, now, request, server, reply, outcome>>

(* default_timeout *)
DefaultTimeout ==
    LET header == GetStr(defaults, "grpc-timeout")
    IN  IF header = <<>> THEN <<>> ELSE Parse(header[1])

(* The part of a duration that a header can say. *)
Sayable(duration) == IF duration > Longest THEN Longest ELSE duration

(* UnaryConn::unary: new, open and buffer_request. *)
Construct(size, length) ==
    LET said == GetStr(defaults, "grpc-encoding")
        known == IF said = <<>> THEN <<>> ELSE FromGrpcEncoding(scope.client, said[1])
        encoding == IF known = <<>> THEN "identity" ELSE known[1]
        timeout == DefaultTimeout
    IN  /\ stage = "config" /\ stage' = "pending"
        /\ call' = [call EXCEPT
               !.asked = IF call.default = <<>> THEN <<>>
                         ELSE <<now + Sayable(call.default[1])>>,
               !.deadline = IF timeout = <<>> THEN <<>> ELSE <<now + timeout[1]>>,
               !.encoding = encoding,
               !.frame = <<EncodePayload(size, encoding, length)>>]
        /\ UNCHANGED <<scope, now, defaults, request, server, reply, outcome>>

(* with_ascii_metadata, with_binary_metadata: the first refusal waits for the call. *)
WithMetadata(e) ==
    /\ stage = "pending" /\ Len(call.entries) < MaxEntries
    /\ call' = IF Accepts(e) THEN [call EXCEPT !.entries = Append(@, e)]
               ELSE [call EXCEPT !.initError = TRUE]
    /\ UNCHANGED <<scope, stage, now, defaults, request, server, reply, outcome>>

(* with_timeout; for a longer one the addition panics in the caller's own code. *)
WithTimeout(duration) ==
    /\ stage = "pending" /\ now + duration <= MaxInstant
    /\ call' = [call EXCEPT !.asked = <<now + duration>>,
                            !.deadline = <<now + duration>>]
    /\ UNCHANGED <<scope, stage, now, defaults, request, server, reply, outcome>>

(* Mutation: the call ends and nobody is told. *)
EndsSilently(code) ==
    /\ stage' = "done" /\ outcome' = <<>>
    /\ UNCHANGED <<scope, now, defaults, call, request, server, reply>>

FailedWith(code) == NewStatus(code, <<>>, FromHeaders(NoHeaders))
(* fail: the error is the call's outcome. *)
Ends(code) ==
    /\ stage' = "done" /\ outcome' = <<FailedWith(code)>>
    /\ UNCHANGED <<scope, now, defaults, call, request, server, reply>>

(* materialize_reading, of a call that cannot be sent: a builder was misused, *)
Misused == stage = "pending" /\ call.initError /\ Ends("InvalidArgument")

(* or its deadline has passed, and race returns before it polls the request. *)
TooLate ==
    /\ stage = "pending" /\ ~call.initError
    /\ call.deadline # <<>> /\ call.deadline[1] < now /\ Ends("DeadlineExceeded")

Remaining(deadline) == IF deadline < now THEN 0 ELSE deadline - now

(* build_request, over the client's default headers. *)
BuildRequest ==
    LET typed == Insert(Insert(Insert(defaults, "content-type", scope.suffix),
                               "te", "trailers"),
                        "grpc-accept-encoding", All(scope.client))
        coded == IF call.encoding = "identity" THEN typed
                 ELSE Insert(typed, "grpc-encoding", call.encoding)
        timed == IF call.deadline = <<>> THEN coded
                 ELSE Insert(coded, "grpc-timeout", Format(Remaining(call.deadline[1])))
    IN  WriteInto(call.entries, timed)

Fire ==
    /\ stage = "pending" /\ ~call.initError
    /\ call.deadline # <<>> => call.deadline[1] >= now
    /\ stage' = "sent" /\ request' = BuildRequest
    /\ call' = [call EXCEPT !.sent = now]
    /\ UNCHANGED <<scope, now, defaults, server, reply, outcome>>

(* A client that is not ours writes any request. *)
ForeignRequest(headers, frame) ==
    /\ stage = "config" /\ stage' = "sent" /\ request' = headers
    /\ call' = [NoCall EXCEPT !.frame = <<frame>>, !.foreign = TRUE]
    /\ UNCHANGED <<scope, now, defaults, server, reply, outcome>>

-----------------------------------------------------------------------------
(* The server's preflight. *)
(* parse_grpc_content_type: a suffix, "proto" for none, or not gRPC at all. *)
ContentType(headers) ==
    LET said == GetStr(headers, "content-type")
    IN  CASE said = <<>> \/ said = <<"not grpc">> -> <<>>
          [] said = <<"bare">>                    -> <<"proto">>
          [] OTHER                                -> said
HasTeTrailers(headers) == \E i \in DOMAIN headers["te"] : headers["te"][i] = "trailers"

Negotiated ==
    LET accept == GetStr(request, "grpc-accept-encoding")
    IN  Preferred(IF accept = <<>> THEN {} ELSE scope.server \cap accept[1])

(* The head prepare_grpc_conn writes. *)
Head200 ==
    LET typed == Insert(Insert(NoHeaders, "content-type", scope.served),
                        "grpc-accept-encoding", All(scope.server))
    IN  IF Negotiated = "identity" THEN typed
        ELSE Insert(typed, "grpc-encoding", Negotiated)

(* prepare_grpc_conn refuses what is not this service's gRPC, by HTTP. *)
RefuseHttp ==
    /\ stage = "sent" /\ stage' = "replied"
    /\ \/ /\ ContentType(request) # <<scope.served>>
          /\ server' = [server EXCEPT !.verdict = "415"]
          /\ reply' = [NoReply EXCEPT !.http = 415]
       \/ /\ ContentType(request) = <<scope.served>> /\ ~HasTeTrailers(request)
          /\ server' = [server EXCEPT !.verdict = "400"]
          /\ reply' = [NoReply EXCEPT !.http = 400]
    /\ UNCHANGED <<scope, now, defaults, call, request, outcome>>

Prepared ==
    stage = "sent" /\ ContentType(request) = <<scope.served>> /\ HasTeTrailers(request)

(* Mutation: an encoding the build lacks is taken for none. *)
RequestEncodingLenient ==
    LET said == GetStr(request, "grpc-encoding")
        known == IF said = <<>> THEN <<>> ELSE FromGrpcEncoding(scope.server, said[1])
    IN  IF known = <<>> THEN <<"identity">> ELSE known

(* extract_request_encoding *)
RequestEncoding ==
    LET said == GetStr(request, "grpc-encoding")
    IN  IF said = <<>> THEN <<"identity">> ELSE FromGrpcEncoding(scope.server, said[1])

TimeoutHeader == GetStr(request, "grpc-timeout")
Timeout == IF TimeoutHeader = <<>> THEN <<>> ELSE Parse(TimeoutHeader[1])

Answer(head, status, raw, frames) ==
    /\ stage' = "replied"
    /\ reply' = [http |-> 200, head |-> head, frame |-> frames,
                 trailers |-> StatusWriteInto(status, raw)]

(* The dispatch's own refusals: error_response, with an empty body. *)
RefuseCall ==
    /\ Prepared
    /\ \/ /\ RequestEncoding = <<>>
          /\ server' = [server EXCEPT !.verdict = "Unimplemented",
                            !.status = <<NewStatus("Unimplemented", <<>>, <<>>)>>]
       \/ /\ RequestEncoding # <<>> /\ TimeoutHeader # <<>> /\ Timeout = <<>>
          /\ server' = [server EXCEPT !.verdict = "InvalidArgument",
                            !.status = <<NewStatus("InvalidArgument", <<>>, <<>>)>>]
    /\ Answer(Head200, server'.status[1], NoHeaders, <<>>)
    /\ UNCHANGED <<scope, now, defaults, call, request, outcome>>

(* Cancellation::from_conn: the instant that the call is raced against. *)
Acceptable ==
    Prepared /\ RequestEncoding # <<>> /\ (TimeoutHeader # <<>> => Timeout # <<>>)
Overflows == Timeout # <<>> /\ now + Timeout[1] > MaxInstant
Accept ==
    /\ Acceptable /\ ~Overflows /\ stage' = "accepted"
    /\ server' = [server EXCEPT
           !.verdict = "ok", !.accepted = now, !.head = Head200,
           !.encoding = RequestEncoding[1],
           !.race = IF Timeout = <<>> THEN <<>> ELSE <<now + Timeout[1]>>]
    /\ UNCHANGED <<scope, now, defaults, call, request, reply, outcome>>

(* GrpcServerConn::new parses the timeout again; then the request is read. *)
NewServerConn ==
    /\ stage = "accepted" /\ ~Overflows /\ stage' = "handling"
    /\ server' = [server EXCEPT
           !.conn = IF Timeout = <<>> THEN <<>> ELSE <<now + Timeout[1]>>,
           !.message = <<ReadMessage(call.frame[1], server.encoding)>>]
    /\ UNCHANGED <<scope, now, defaults, call, request, reply, outcome>>

(* Instant::now() + duration overflows in either of the two: the task panics, and *)
(* the caller of the lost stream is told what transport_error says of it.        *)
Panics ==
    /\ Acceptable \/ stage = "accepted"
    /\ Overflows /\ stage' = "done" /\ server' = [server EXCEPT !.verdict = "panic"]
    /\ outcome' = <<FailedWith("Unavailable")>>
    /\ UNCHANGED <<scope, now, defaults, call, request, reply>>

-----------------------------------------------------------------------------
(* read_exactly_one fails: the handler does not run. *)
RequestUnread ==
    /\ stage = "handling" /\ server.message[1].code # "Ok"
    /\ server' = [server EXCEPT
           !.status = <<NewStatus(server.message[1].code, <<>>, <<>>)>>]
    /\ Answer(server.head, server'.status[1], server.raw, <<>>)
    /\ UNCHANGED <<scope, now, defaults, call, request, outcome>>

Handling == stage = "handling" /\ server.message[1].code = "Ok"

(* The handler sets or removes any header of response_headers_mut, those of the *)
(* framework too, and writes to response_trailers_mut.                          *)
WriteHeader(n, values) ==
    /\ Handling
    /\ server' = [server EXCEPT !.head = [@ EXCEPT ![Lowercase(n)] = values],
                                !.wrote = @ \cup {Lowercase(n)}]
    /\ UNCHANGED <<scope, stage, now, defaults, call, request, reply, outcome>>
RawRoom == MapThenSumSet(LAMBDA m : Len(server.raw[m]), Names) < MaxRaw
WriteTrailer(n, value) ==
    /\ Handling /\ RawRoom
    /\ server' = [server EXCEPT !.raw = AppendTo(@, Lowercase(n), value)]
    /\ UNCHANGED <<scope, stage, now, defaults, call, request, reply, outcome>>

(* finish_unary: the handler's response, or its error, which it may have called Ok. *)
Respond(size, length) ==
    /\ Handling
    /\ server' = [server EXCEPT !.status = <<NewStatus("Ok", <<>>, <<>>)>>]
    /\ Answer(server.head, server'.status[1], server.raw,
              <<EncodePayload(size, Negotiated, length)>>)
    /\ UNCHANGED <<scope, now, defaults, call, request, outcome>>
FailCall(status) ==
    /\ Handling
    /\ server' = [server EXCEPT !.status = <<status>>]
    /\ Answer(server.head, status, server.raw, <<>>)
    /\ UNCHANGED <<scope, now, defaults, call, request, outcome>>

(* A server that is not ours answers anything. *)
ForeignReply(answer) ==
    /\ stage = "sent" /\ ~call.foreign /\ stage' = "replied" /\ reply' = answer
    /\ UNCHANGED <<scope, now, defaults, call, request, server, outcome>>

-----------------------------------------------------------------------------
(* The client reads the reply. *)
HttpToGrpcStatus(http) ==
    CASE http = 400 -> "Internal"
      [] http = 401 -> "Unauthenticated"
      [] http = 403 -> "PermissionDenied"
      [] http = 404 -> "Unimplemented"
      [] http \in {429, 502, 503, 504} -> "Unavailable"
      [] OTHER -> "Unknown"

(* process_head *)
ResponseEncoding ==
    LET said == GetStr(reply.head, "grpc-encoding")
    IN  IF said = <<>> THEN <<"identity">> ELSE FromGrpcEncoding(scope.client, said[1])
HeadFails ==
    reply.http # 200 \/ ContentType(reply.head) = <<>> \/ ResponseEncoding = <<>>
HeadError ==
    CASE reply.http # 200 -> HttpToGrpcStatus(reply.http)
      [] reply.http = 200 /\ ContentType(reply.head) = <<>> -> "Unknown"
      [] OTHER -> "Internal"

(* finish_from_trailers *)
Verdict ==
    IF /\ GetStr(reply.trailers, "grpc-status") = <<>>
       /\ GetStr(reply.head, "grpc-status") # <<>>
    THEN FromTrailers(reply.head)
    ELSE FromTrailers(reply.trailers)

Message ==
    IF HeadFails \/ reply.frame = <<>> THEN <<>>
    ELSE <<ReadMessage(reply.frame[1], ResponseEncoding[1])>>

(* is_trailers_only: process_head found a status in the head. *)
TrailersOnly == GetStr(reply.head, "grpc-status") # <<>>

(* read_unary: an unreadable message, else the verdict; Ok needs a message, and a *)
(* head that has told the status must not have one.                             *)
ReadReply ==
    /\ stage = "replied" /\ ~call.foreign /\ stage' = "done"
    /\ outcome' = <<CASE HeadFails -> FailedWith(HeadError)
                      [] ~HeadFails /\ Message # <<>> /\ Message[1].code # "Ok" ->
                             FailedWith(Message[1].code)
                      [] ~HeadFails /\ Message = <<>> /\ Verdict.code = "Ok" ->
                             FailedWith("Internal")
                      [] ~HeadFails /\ Message # <<>> /\ Message[1].code = "Ok"
                         /\ TrailersOnly -> FailedWith("Internal")
                      [] OTHER -> Verdict>>
    /\ UNCHANGED <<scope, now, defaults, call, request, server, reply>>

Next ==
    \/ Tick
    \/ \E e \in scope.encodings : SetOutboundCompression(e)
    \/ \E d \in scope.defaultTimeouts : SetDefaultTimeout(d)
    \/ \E s \in scope.sizes, l \in scope.lengths : Construct(s, l)
    \/ \E e \in scope.entries : WithMetadata(e)
    \/ \E d \in scope.timeouts : WithTimeout(d)
    \/ Misused \/ TooLate \/ Fire
    \/ \E h \in scope.foreignRequests, f \in scope.foreignFrames : ForeignRequest(h, f)
    \/ RefuseHttp \/ RefuseCall \/ Accept \/ NewServerConn \/ Panics \/ RequestUnread
    \/ \E h \in scope.headers : WriteHeader(h[1], h[2])
    \/ \E t \in scope.trailers : WriteTrailer(t[1], t[2])
    \/ \E s \in scope.sizes, l \in scope.lengths : Respond(s, l)
    \/ \E s \in scope.statuses : FailCall(s)
    \/ \E a \in scope.foreignReplies : ForeignReply(a)
    \/ ReadReply
Spec == Init /\ [][Next]_vars

-----------------------------------------------------------------------------
(* The values have their types, and a stage the state it needs. *)
TypeOK ==
    /\ scope \in Scopes /\ now \in 0..scope.maxNow
    /\ stage \in {"config", "pending", "sent", "accepted", "handling", "replied",
                  "done"}
    /\ \A h \in {defaults, request, server.head, server.raw, reply.head,
                 reply.trailers} : DOMAIN h = Names
    /\ \A o \in {call.default, call.asked, call.deadline, server.race, server.conn} :
           o \in Seq(Nat) /\ Len(o) <= 1
    /\ call.encoding \in All(scope.client) /\ server.encoding \in All(scope.server)
    /\ stage \in {"pending", "sent"} => Len(call.frame) = 1
    /\ stage = "handling" => Len(server.message) = 1
    /\ stage = "done" <=> outcome # <<>>

(* No two parties of a call disagree on its deadline by more than a header must *)
(* round: what is asked for, what the client keeps, what the server races the   *)
(* handler against and what it shows the handler never come earlier, and the    *)
(* server's is less than a unit later, not counting the time on the wire.       *)
DeadlinesAgree ==
    /\ call.asked # <<>> => call.deadline # <<>> /\ call.asked[1] <= call.deadline[1]
    /\ server.verdict = "ok" /\ ~call.foreign =>
         ((call.deadline # <<>>) <=> (server.race # <<>>))
    /\ server.verdict = "ok" /\ ~call.foreign /\ call.deadline # <<>> =>
         LET remaining == call.deadline[1] - call.sent
             late == server.race[1] - server.accepted - Sayable(remaining)
         IN  0 <= late /\ late < Units[request["grpc-timeout"][1].unit]
    /\ server.conn # <<>> => server.race # <<>> /\ server.race[1] <= server.conn[1]

(* Two peers of this library understand each other, whatever their builds: a    *)
(* call is refused for its content type or its codec exactly when the server    *)
(* has not got it, never for another header nor by a panic over its timeout,    *)
(* and no head is refused whose handler left what the framework says there.     *)
Untouched == server.wrote \cap {"content-type", "grpc-encoding"} = {}
PeersAgree ==
    ~call.foreign /\ server.verdict # "none" =>
        /\ server.verdict = IF scope.suffix # scope.served THEN "415"
                            ELSE IF call.encoding \notin All(scope.server)
                            THEN "Unimplemented" ELSE "ok"
        /\ stage = "replied" /\ reply.http = 200 /\ Untouched => ~HeadFails

Legible(frame) == frame.length <= MaxSize /\ frame.size <= MaxSize
ReadsAsSent(frame, message) ==
    IF Legible(frame) THEN message = Bytes(frame.size)
    ELSE message = Refused("ResourceExhausted")

(* A message is read back as it was sent, by whichever codec the two builds     *)
(* share, up to the limit on its size and not a byte further.  A response's head *)
(* says which codec that is: a handler that writes something else there is on   *)
(* its own.                                                                    *)
MessagesDecode ==
    /\ ~call.foreign /\ server.message # <<>> =>
           ReadsAsSent(call.frame[1], server.message[1])
    /\ server.verdict = "ok" /\ stage = "replied" /\ ~call.foreign /\ Untouched
       /\ Message # <<>> =>
           ReadsAsSent(reply.frame[1], Message[1])

(* Metadata arrives: a key's values as they were given and in their order, and  *)
(* after the values the handler wrote; no framework header is there twice.      *)
MetadataArrives ==
    /\ ~call.foreign /\ stage \notin {"config", "pending"} /\ request # NoHeaders =>
         /\ \A k \in Keys :
               LET got == FromHeaders(request)[k]
               IN  /\ Len(got) = Amount(call.entries, k)
                   /\ EndsWith(got, call.entries, k)
         /\ \A n \in Reserved : Len(request[n]) <= 1
    /\ stage = "done" /\ server.status # <<>> /\ server.status[1].code # "Ok"
       /\ Untouched =>
         \A k \in Keys :
             LET got == outcome[1].metadata[k]
                 own == Amount(server.status[1].metadata, k)
             IN  /\ SubSeq(got, 1, Len(got) - own) = Decoded(k, server.raw[k])
                 /\ EndsWith(got, server.status[1].metadata, k)

(* The status the server ends a call with is the one its caller reads, a failure *)
(* with its message, whatever the handler wrote into the trailers and whatever    *)
(* else into the head.  An Ok is read of a response with a message that fits,    *)
(* but for a handler that told a status in the head, whose response is refused;  *)
(* and of any peer, Ok is read only of trailers that say so after a message.     *)
StatusSurvives ==
    stage = "done" =>
        /\ outcome[1].code = "Ok" =>
              /\ Message # <<>> /\ Message[1].code = "Ok" /\ reply.http = 200
              /\ LET said == GetStr(reply.trailers, "grpc-status")
                 IN  said # <<>> /\ said[1] = "Ok"
        /\ server.status # <<>> /\ server.status[1].code # "Ok" /\ Untouched =>
              /\ outcome[1].code = server.status[1].code
              /\ server.status[1].message # <<>> =>
                    outcome[1].message = server.status[1].message
        /\ server.status # <<>> /\ server.status[1].code = "Ok" /\ Untouched =>
              outcome[1].code =
                  CASE reply.frame = <<>> -> "Internal"
                    [] reply.frame # <<>> /\ ~Legible(reply.frame[1]) ->
                           "ResourceExhausted"
                    [] OTHER -> IF TrailersOnly THEN "Internal" ELSE "Ok"
===============================================================================
