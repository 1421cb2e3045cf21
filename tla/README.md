# trillium-grpc: a verification project

TLA+ models of `trillium-grpc`, a gRPC server and client over trillium's HTTP/2:
what one RPC does on either side, from the bytes of a frame up to the status a
caller sees, with TLC runs of small instances and TLAPS proofs for all of them.
Paths below are relative to `src/`, the repository.

## The system

| component | source | state it keeps | operations | hard parts |
|---|---|---|---|---|
| frame reader | `src/frame/reader.rs` | `ReadState`: prefix or payload buffer and how full it is, or Done | `poll_read_message`, polled by `MessageStream`, `RequestStream`, `Channel`, the client's `read_one` | any split of the bytes over polls; truncation; what an error leaves behind |
| frame writer | `src/frame/writer.rs` | none | `encode_payload` | the Compressed-Flag |
| client engine | `src/client/conn.rs` | `Inner` (Pending, Reading, Duplex, Done, Failed), deadline, cancel channel, deferred error | `send`, `close_send`, `recv`, `open_head`, metadata and deadline setters, `CancelHandle::cancel` | every await raced with cancellation and deadline; dropped futures; two transports; where the status is |
| typed handles | `src/client/typed.rs` | the engine or the `recv` in flight, the request stream, the outcome | `.await`, `next`, `send`, `recv`, `into_message`, setters | the engine moves into a future and back; futures dropped and taken up again |
| server dispatch | `src/server/dispatch.rs`, `grpc_conn.rs` | the `Conn`, trailers, deadline | preflight, the four shapes, `read_one`, `Cancellation::race` and `signal` | handler, shutdown and deadline racing; cardinality |
| response bodies | `src/server/body.rs` | the frame under way, the final status | `poll_read`, `trailers` | cut between frames, one true status |
| bidi | `src/server/bidi.rs`, `streaming.rs` | responder and trailers across the run/upgrade seam, the `Channel`'s `ReadState` | prologue, `drive`, `Channel::recv` and `send` | what crosses the seam; a write cut off |
| timeouts | `src/timeout.rs` | none | format, parse | rounding, saturation; kept in four places |
| status, metadata | `src/status.rs`, `src/metadata.rs` | entries in order | to and from headers | escaping, reserved names, headers that carry some already |
| encodings, content types | `src/encoding.rs`, `src/content_type.rs` | none | negotiate, compress, parse | peers with different codecs; the cap on inflated size |
| service client | `src/client/service_client.rs` | default headers | the defaults' setters | read back by every call, and sent with it |
| codecs, codegen, macros, conformance | `src/codec`, `codegen`, `macros`, `conformance` | - | pure conversions, text generation | not modelled |

How they interact. On the client, a typed handle owns an engine; the engine
frames requests with the writer, fires one `trillium_client` request and reads
responses with `poll_read_message`. On the server, the generated `Handler::run`
calls the preflight and one of the four shapes; user code holds a
`GrpcServerConn` and reads through `RequestStream`s; the response leaves as a
`OneShotBody` or `StreamBody`, or, for bidi, from a `Channel` in
`Handler::upgrade`. The only state two tasks share is the cancel channel of the
client and the swansong of the server; everything else takes `&mut self`, and
the interleavings that matter are those of one call's polls with the clock, the
cancellation and the peer.

What makes each of them correct:

- reader: one item per frame, in order, whatever the split; never silent
  truncation; nothing after Done; it always comes to an end.
- client engine: one request per call, exactly the accepted messages; an
  outcome only if the peer said so; nothing after an error or a cancellation;
  no bytes after a torn frame; metadata that stays; deadlines that always work.
- typed handles: they use the engine as its caller may; one request of the
  messages the shape says; success only for one response and OK; metadata with
  the verdict; every await ends with the deadline, a `next()` taken up again too.
- headers: no two parties of a call disagree on the deadline, the encodings,
  the metadata or the status beyond what a header must round.
- server: a handler of a one-request shape sees one complete request; the
  messages, then one true status; whole frames; the trailing metadata on every
  path; shutdown and deadline end every call.

## Modules

`FrameReader` is `poll_read_message` at the grain of one `poll_read`. A byte is
only a position: `cur` and `off` say where the transport is, `filled` what the
reader believes. The peer's stream is any sequence of frames, cut after any byte
by END_STREAM or an I/O error. What inflating and decoding a payload leads to is
a field of the frame. Each step is a `poll_read` that was Ready with everything
the loop does up to the next; Pending changes nothing. `OneItemPerFrame` asks for
nothing after the first error: what comes then is documented not to come.

`ClientConn` is `GrpcClientConn`. The variables of the first group are its fields
(`inner`, `body`, `sendClosed`, `initError`, `deadline`, `cancelled`) and `op`,
the call in flight with the await it stands at. Each public call is a start
action; `FireRequest`, `HeadArrives`, `ReadItem`, ... are the polls that follow.
`MayProceed` and `RaceLost` are `race`: an elapsed deadline wins before anything
is polled, then the cancellation, then the timer, which may be late, then the
future. A response frame is what reading it yields (`FrameReader` says why that
is enough). The peer and HTTP/2 stream are external actions.

`Received` is the abstract specification of the client: whatever the peer sends, the
caller is handed its messages one by one, then told how the call ended; a status
only the peer can give (`PeersOwn`, OK among them) only after all of them. A caller
that asks again may be told one of the race's errors again (`Recurring`), or that the
call is over (`Over`), but no message and no other status. `ClientConn` implements it
through the instance `Promised`; `outcome` is what `recv` last answered. That the
status of a failed open is given twice is therefore in the promise too, and denied by
the run `client_failed_open`.

`ServerCall` is one RPC on the server. `phase` says who has the call: the race
around `read_one` and the handler (`step`), a one-shot body, a `StreamBody`, the
seam, the loop, the trailers. User code takes any step its API allows at any
poll. The server's race polls its future before the timer, the client's after:
`MayProceed` differs between the two modules as the code does. Request frames
are complete in `inbox` or `arriving`, so that a reader can hold a part of one
(`half`), and a dropped one can lose it (`lost`). Response frames go out in
pieces (`left`), so that cancellation can fall inside one. `meta` follows the trailing
metadata through its owners: what user code has `set`, and what is held by the
GrpcServerConn, the body's trailers and `BidiState.base_trailers`; `HandOn` is
`into_parts`. Each path out of a shape hands it on, or not, in a step of its own,
and only the last owner's goes out. User code may fail with any status, one whose code
is OK included. A `grpc-timeout` too long for an Instant (`huge`) panics in
`Cancellation::from_conn`, and the call is lost.

`Reply` is the abstract specification: messages, one status, nothing more, and
for a single-response shape a message exactly when the status is OK, unless user code
failed with an error whose code is OK (`FailWithOk`): that goes out as an OK without a
message, which its client then reads as Internal. `ServerCall` implements it through
the instance `Promise`.

`TypedConn` EXTENDS `ClientConn`: the handles over the engine, not over an
abstraction of it. `await` says at which engine call an `IntoFuture` stands,
`inFlight` where the engine is: in the handle, in a `recv` future that a `next()`
polls, or in one that a dropped `next()` left. `Polled` is a poll of the engine's
call through the handle, `World` what happens to the engine from outside.
`Construct`, `With`, `Method` and the awaits are the handles' methods, `DropNext`,
`DropAwait` and `DropMethod` their callers' right to drop the future at any poll.
A consumed handle (`handle = "gone"`) does nothing further.

`CallHeaders` is one unary call as its headers see it, from the service client's
setters to the status its caller reads, without the races that `ClientConn` and
`ServerCall` have: `stage` is where the call has come to. It EXTENDS one module per
source file whose functions it calls: `GrpcTimeout` (durations in nanoseconds, a
header is its number and its unit), `Encoding` (a message is its size, a frame its
codec and its sizes on the wire and inflated), `Metadata` (a Headers map as a
sequence of values per name; `Values` is what one may be, `Texts` those that are UTF-8,
`Capitals` the lowercase of other spellings; base64 is told from other text, not
computed) and `Status` (a message is its bytes, so percent-coding is byte by byte). The
client and the server have a build each, the set of their codecs; a foreign peer may
write the request or the reply instead. The handler sets or removes any header of the
head, the framework's too; `server.wrote` records which, and the properties promise
nothing of a head whose `content-type` or `grpc-encoding` is not the framework's
(`Untouched`) but that an OK is still honest. `ReadReply` refuses a message under a
head with a grpc-status (Trailers-Only). The two additions of a timeout to the clock on
the server panic past `MaxInstant` (`Panics`); no client of this library says one so
long (`InstantAssumption`, `PeersAgree`).

`MCFrameReader`, `MCClientConn`, `MCServerCall`, `MCTypedConn`, `MCCallHeaders`
hold TLC's constants; the modules named `_proofs` the theorems, those about the
operators of `Metadata` and `Status` in `Status_proofs`.
Operators whose comment begins with "Mutation" are plausible bugs, used by
nothing: with one of them in the place of the definition it varies, TLC finds
the property named in PROJECT.json violated.

## Runs

`reader`: streams of up to two frames, with and without an encoding, a two-byte
prefix, payloads up to one byte over the limit: every position in a prefix and a
payload, both neighbours of the limit, an error before and after a good frame.

`client_any_call` lets the caller make any calls in any order over either
transport with two requests and two response frames, six response heads, four
endings, with and without a deadline, a cancellation at any point. Two messages
are needed to see an order and an accepted buffer; the third changes no branch.
Its property `KeepsPromise` is the refinement of `Received`. `Droppable` names the
awaits at which the caller drops a call in flight: here a `recv` that reads, a
`close_send` that closes, a `send` that has written nothing yet, none of which may cost
the conn anything. A caller that drops a call at any await, or moves the deadline of a
live call, is in `typed_any_shape`, which
checks what of the engine holds even then: `HonestOutcome`, `QuietOnceCancelled`,
`MetadataKept`.

`server_any_shape`: every request head, the four shapes, user code that gives up its
reads and sends half-way and fails with `Aborted` or with an OK, requests that do not
decode or are over the limit, the refinement of `Reply` and liveness. Two request
frames are what the cardinality rule needs, two-byte response frames let cancellation
fall inside one, two responses let it fall between them. `MaxFrames` bounds both
together: two of one and one of the other, either way round.

`typed_any_shape`: the four handles over both transports, any method at any time,
every future dropped, up to a second request fired, the deadline moved at any time,
two messages each way: two responses are what the one-response rule turns on, two requests what a drained
stream or a bidi conn needs to have an order. There is one kind of response frame
and two endings, OK and none at all, as the handles look at no more of a result than
message, None or error; the frames that fail are `client_any_call`'s.

`headers`: a scope is a slice of the calls, and one run checks all of them, so that
one question's values are not multiplied by another's: every pair of builds with
each codec and sizes on both sides of the limit; deadlines on both sides of each
boundary between units and past saturation; metadata of both kinds with every
refusal of the builders; handlers that write status, message and metadata headers
themselves, in capitals and in bytes that are not UTF-8, and end with any status, OK
included (`Statuses`); handlers that replace or remove the framework's headers
(`Rewrites`); requests and replies of foreign peers, timeouts past the last instant
among them. The units are toy ones, 1, 3 and 12 with values up to 4, so that every
boundary is within a few instants; `GrpcTimeout_proofs` has the units of the code.
The clock moves up to three instants between any two steps. `MaxInstant` is 52, one
instant past what the longest header can say at the latest time, so that our own
clients stay below it and a foreign timeout of 52 overflows in the first of the two
additions, only in the second, or in neither, as the clock goes.

A call ends, its handle is consumed and its headers are read once: the server, typed
and headers runs do not look for deadlocks. The reader's and the client's do.

Seven runs show a disagreement between the code and its documentation, listed
under "findings" in PROJECT.json:

- `reader_after_error`: `ReadState` is reset before a payload is inflated and decoded,
  so a stream goes on after an item that failed there (`reader.rs:110-112` and
  `streaming.rs:144-145` say that it is over).
- `client_failed_open`: a `recv` whose open fails returns the status, and so does the
  next (`conn.rs:99-101` says that it is delivered once). A stream over it yields the
  error a second time before its None.
- `client_dropped_call`: a call dropped while it awaits the head leaves
  `Pending` behind, and the next call fires a second request (`conn.rs:88`).
- `client_close_send`: `close_send` on an unopened full-duplex conn awaits the
  head before it sends END_STREAM, and a server that waits for END_STREAM never
  answers (`conn.rs:355`).
- `server_seam`: after a prologue that gave up a `recv` half-way the `Channel`
  starts inside a frame (`bidi.rs:31-33`).
- `typed_engine`: a `next()` dropped while pending leaves the engine in `in_flight`,
  and every accessor then panics (`typed.rs:283-284` calls that unreachable).
- `typed_reawait`: the `UnaryConn` an `.await` returns can be awaited again, reads on
  in the same response and replaces its verdict (`typed.rs:51-56`).

The models contain further ones, for which there is no run. A `recv` cut off by the
deadline or a cancellation leaves the conn live and without trailers
(`conn.rs:387-390` says it ends the stream: `RaceLost`). `send` into the buffer of a
`Pending` conn is accepted after `cancel()` (`conn.rs:105-108`: `Send`).
`with_timeout` on a live conn lets `recv` return messages after its `DeadlineExceeded`
(`SetDeadline` with `MayRearm`). The stream of a client-streaming call is drained
before the engine fires, so that no deadline and no cancellation bounds it
(`typed.rs:134-135`: `SourceYields`). `parse_grpc_timeout` takes more than the eight digits of its doc
(`timeout.rs:3-5`: `Parse`), and so lets a peer make the server's `Instant + Duration`
panic (`dispatch.rs:410`, `grpc_conn.rs:55`: `Panics`). `Metadata` keeps the order of
one key's values, not the order across keys that `metadata.rs:17-19` speaks of. Outside
the models: `with_timeout(Duration::MAX)` panics in the caller (`conn.rs:221`);
`WithTimeout`'s guard leaves it out.

Fairness. `FrameReader`: the caller polls when woken and the transport does not
withhold bytes for ever. `ClientConn` `Spec`: weak fairness of the polls that
need nothing more from outside (the runtime polls a woken task) and of time;
`FairPeerSpec`, for the run `client_close_send`, adds a peer that answers and a
transport that takes writes. `TypedSpec`: the same of the polls through a handle,
that a woken `.await` goes on to its next engine call, and that the request stream of
a client-streaming call comes to its end, which no deadline enforces.
`ServerCall`: the same, and that the transport takes the response off the body
while the stream lives. Nothing is assumed of user code, of response streams or
of a client. User code that blocks its thread is outside these assumptions.

## Proofs

`FrameReader_proofs` proves all the safety properties of the reader for every
prefix length, size limit, encoding and set of frames. The invariant `IInv`
adds to `InSync` where `cur` stands relative to the items and to the first frame that
breaks the stream, and which item each frame has, those after an error included
(`ItemsMatch`, of which `OneItemPerFrame` is the documented part): that is what
rules out a clean end after a truncation.

`ClientConn_proofs` proves the types and the safety properties for every set of
requests, heads, items and trailers and every bound. The invariant `IInv` says, for
each value of `inner` and each await of `op`, whether a request is on the wire, whether
a frame is torn and whether an outcome was given: a torn frame implies that the race
keeps losing or that the stream is broken. `IInv` holds of any caller, one that drops
its calls and moves a live deadline included; a theorem assumes a better one only
where the code breaks the property without:

- nothing about the caller: `TypeCorrect`, `OutcomeIsHonest`, `CancelledIsQuiet`,
  `MetadataStays` (the last by `KeptOK`: nothing is in `trailers` before `Done` and
  nothing in `headers` before a live variant);
- `OpensOnce`, no call is dropped while it awaits its head: `FiresOneRequest`,
  `FiresWhatWasSent`, by a second invariant, `Whole`, that the messages accepted are in
  exactly one place, the buffer, the future that fires, or the wire. Any step keeps it
  but that drop (`WholeNext`), which is the finding of `client_dropped_call`;
- `~MayRearm`: `ErrorIsFinal`, since a deadline moved later wins the race again;
- both: `ImplementsReceived`;
- both, and no send is dropped with part of its frame written (`WellBehavedCaller`):
  `TornFrameIsLast`.

`ImplementsReceived` proves the refinement of `Received` one action at a time.
`ReadItem` is the promise's hand-over, `ReadEnd` its verdict, where `HonestOutcome`
says that it is the peer's and that all messages were handed over; any other step that gives a
first error tells one that is not the peer's (`TellStep`), repeats one of the race's
errors, says that the call is over, or stutters. It needs one
more invariant, `PeerOK`: the peer says nothing before the request is fired, and no
trailers before a head. `AbortedIsThePeers` names a status only the peer's trailers
can carry.

`ServerCall_proofs` proves the types, the safety properties and the step properties
for every set of shapes, heads, request frames and handler statuses and every
bound, and that `ServerCall` implements `Reply`. The invariant has a part per
question: `Position`, which shapes reach a phase and what is decided by then;
`OneRead`, how far `read_one` has come, which makes the one request the only one
wherever the handler runs; `Count`, that the responses produced are out but for
the one under way, unless a `Channel`'s stream broke; `Truth`, why the status is
what it is; `Said`, that the reply's status is the call's and its metadata all that was
set; `Carried`, which owner holds the metadata in each phase, so that no hand-over
forgets any; `OnAFrame`, that no reader starts inside a frame. Nothing is assumed of
user code: `HonestStatus`, `TornIsLast` and `ReadsFrames` name the recv or send that it
gave up (`abandoned`) where that breaks a promise, and `Reply` its Err with code OK.
A step that puts the last byte of a response out is the promise's message, the one that
reports the status its end.

`TypedConn_proofs` proves first that every step of a handle is a step of the engine or
a stutter (`HandlesDriveTheEngine`), so that the engine's theorems hold for the engine
in a handle, the refinement of `Received` among them (`HandlesKeepThePromise`, with
every `.await` and `next()` dropped at any point). The invariant `HInv` is the
engine's `IInv` with what the handle adds: `PlaceOK`, which engine call is in
flight for each value of `await` and `inFlight`, and `RequestOK`, what has been accepted and fired by then for each shape.
Like `IInv` it holds of any caller. `RequestsFitTheirShape` adds `WholeOK`: until a
method's future was dropped while it waited for the head, the engine is `Whole`; a
dropped `.await` or `next()` leaves it so (`UndroppedStep`), as neither is `DropCall`.
`OneResponseForOneCall` adds `AnswerOK`: what read_unary knows between its two recvs.
It assumes `~MayReawait`, without which `typed_reawait` shows it to fail.
`AnswersComeWithMetadata` needs none of this: `EngineShows` and `HandleShows` hold of
every caller, as the second recv of read_unary starts only after a message, on a live
engine, so that its None is never the one of a response that was over before.

`GrpcTimeout_proofs` proves for every table of units, the code's included, that the
value format writes has no more digits than a header may, covers the duration by
less than one unit of the unit chosen, saturates only what no header can say, and is
read back by parse. It rests on lemmas about div_ceil, and on the smallest element
of a set of numbers.

`Status_proofs` proves that percent-coding is undone by its inverse for every UTF-8
sequence of bytes (`MessageRoundTrips`), and that the entries a `Metadata` may hold,
written into any headers and read back, are the last values of their keys, in order,
after what those headers said (`MetadataKept`). Both are inductions over a sequence.
The library's induction theorems take an operator and are out of the provers' reach,
so the induction is over sets: `SeqInSet` says that a set which has the empty
sequence, and what each of its members is appended to, has every sequence. It
rests on the least element that a well-founded relation has (`NatInSet`). Percent
decoding is a recursive function of the position: what it makes of a text from a place
on depends on nothing before that place (`DecodeSuffix`), which is the induction's step.

`CallHeaders_proofs` proves, for every set of scopes that `ScopesAssumption` types
(so for every pair of builds, duration, size, clock, list of entries, status and foreign
peer), the types and all five questions. The invariant follows the call: `Progress` says
which stages have which state; `Configured`, that the defaults are what the setters were
given, and the call what the defaults say; `Written`, what a fired request carries of
it; `Taken`, what the server has read from that request. `Intact` adds four parts:
`Answered`, what the head of the reply says; `Carried`, that the request has the
call's metadata and nothing twice; `Told`, that the trailers are the status written
over what the handler wrote there; `Heard`, what the caller has made of them. Nothing is
assumed of the handler: `Answered` says of the head what `Untouched` leaves there, and
`AnswerIsLegible` that the caller then makes out the frame. That no client of
ours overflows the clock is `OursFits`, from `InstantAssumption`. The deadline theorem
rests on `GrpcTimeout_proofs`, those about metadata and status on `Status_proofs` and on
`Utf8Assumption`, that a text is a sequence of bytes.

Only model-checked: liveness and everything under fairness (`EveryStreamEnds`,
`RacedCallsResolve`, `RacesResolve`, `CallsEnd`, `AwaitedCallsEnd`), which is out of the
provers' reach, and what the violation runs show. Every other property of a
passing run is a theorem.

## Not modelled yet, and the plan

1. `GrpcCall`: `Reply`'s server and `Received`'s client joined by an HTTP/2 stream,
   which may lose an end of what was written; abstractly, a call that hands over a
   prefix of the reply and then its status, or one of the client's own. As both
   engines implement their promises, the join is at that level: each engine alone
   has more than 10^5 states on its smallest interesting instance. A frame
   torn by cancellation in the bidi loop is not in `Reply`, which counts whole
   messages; the join must carry it, as the client sees a frame it cannot read.
2. Proofs: that `GrpcCall`'s outcome is the reply's.

## Not modelled

Code generation and macros (text to text; the `Handler` they generate is
`ServerCall`'s `Accept` and `Upgrade`), prost and the compression libraries (one
outcome per message), the conformance harness and the examples (users of the
library), trillium itself, which is external to every module.
