---------------------------- MODULE MCCallHeaders ----------------------------
(* Instances of CallHeaders for TLC: toy units, and one scope per question. *)
EXTENDS CallHeaders

MCUnits == <<1, 3, 12>>
MCUtf8 == UNION {[1..n -> {10, 37, 49, 52, 72, 105}] : n \in 0..3} \cup {<<195, 169>>}
MCValues == {"x", "y", "z", "h", "\n", "not UTF-8"}
MCTexts == MCValues \ {"not UTF-8"}
MCCapitals == [n \in {"A", "Grpc-Status"} |-> IF n = "A" THEN "a" ELSE "grpc-status"]
MCReplacement == <<239, 191, 189>>

Headers(pairs) == [n \in Names |-> IF n \in DOMAIN pairs THEN <<pairs[n]>> ELSE <<>>]
Frame(compressed, codec, length, size) ==
    [compressed |-> compressed, codec |-> codec, length |-> length, size |-> size]

(* A call with nothing to it. *)
Plain == [client |-> Codecs, server |-> Codecs, suffix |-> "proto", served |-> "proto",
          encodings |-> {}, defaultTimeouts |-> {}, sizes |-> {1}, lengths |-> {1},
          entries |-> {}, timeouts |-> {}, maxNow |-> 0,
          foreignRequests |-> {}, foreignFrames |-> {}, headers |-> {}, trailers |-> {},
          statuses |-> {}, foreignReplies |-> {}]

(* Every unit, the largest value of each and one more, and saturation. *)
Deadlines == [Plain EXCEPT !.defaultTimeouts = {0, 4, 5, 11, 100}, !.maxNow = 3,
                           !.timeouts = {0, 1, 4, 5, 7, 12, 13, 47, 48, 49}]

(* Every pair of builds, each codec, sizes about the limit. *)
Builds == {[Plain EXCEPT !.client = c, !.server = s, !.encodings = All(c),
                         !.sizes = {0, 2, 3, 4, 5}, !.lengths = {1, 3, 4}] :
              c \in SUBSET Codecs, s \in SUBSET Codecs}
OtherCodecs == {[Plain EXCEPT !.suffix = "json"], [Plain EXCEPT !.served = "json"]}

(* Two keys, values of both kinds, and the builders' misuse. *)
Custom == {Ascii("a", "x"), Ascii("a", "y"), Binary("b-bin", "x")}
Entries == [Plain EXCEPT !.entries = Custom \cup
    {Ascii("b-bin", "x"), Binary("a", "x"), Ascii("te", "x"), Ascii("A", "x"), Ascii("a!", "x"),
     Ascii("a", "\n")}]

(* Handlers that write under any name, and end with any status. *)
Messages == {<<>>, <<72, 105>>, <<37>>, <<37, 52, 49>>, <<195, 169>>, <<10, 37>>}
Text(value) == [base64 |-> FALSE, value |-> value]
Statuses == [Plain EXCEPT
    !.statuses = {NewStatus(c, m, e) : c \in {"Ok", "NotFound"}, m \in Messages,
                  e \in {<<>>, <<Ascii("a", "x"), Binary("b-bin", "x"),
                                 Ascii("a", "y")>>}},
    !.headers = {<<"Grpc-Status", <<"Aborted">>>>,
                 <<"a", <<Text("h")>>>>},
    !.trailers = {<<"grpc-status", "Ok">>,
                  <<"grpc-status", "17">>,
                  <<"grpc-message", <<37, 52>>>>,
                  <<"grpc-message", <<37, 102, 102>>>>,
                  <<"a", Text("z")>>,
                  <<"b-bin", Text("z")>>,
                  <<"A", Text("z")>>,
                  <<"a", Text("not UTF-8")>>,
                  <<"a!", Text("z")>>}]

(* Handlers that write over, or remove, what the framework says in the head. *)
Rewrites == [Plain EXCEPT
    !.encodings = {"gzip", "zstd"}, !.sizes = {1, 4},
    !.statuses = {NewStatus("NotFound", <<72>>, <<Ascii("a", "x")>>)},
    !.headers = {<<"content-type", <<>>>>, <<"content-type", <<"bare">>>>,
                 <<"grpc-encoding", <<>>>>, <<"grpc-encoding", <<"zstd">>>>,
                 <<"grpc-encoding", <<"br">>>>, <<"grpc-accept-encoding", <<>>>>,
                 <<"grpc-status", <<"Ok">>>>, <<"grpc-status", <<>>>>}]

(* Peers of other libraries. *)
Request == [n \in {"content-type", "te"} |-> IF n = "te" THEN "trailers" ELSE "bare"]
Foreign == [Plain EXCEPT
    !.client = {"gzip"}, !.server = {"zstd"}, !.maxNow = 1,
    !.foreignRequests = {Headers(h) : h \in {
        Request, <<>>, [Request EXCEPT !["te"] = "gzip"],
        [Request EXCEPT !["content-type"] = "not grpc"],
        Request @@ [n \in {"grpc-encoding"} |-> "br"],
        Request @@ [n \in {"grpc-encoding"} |-> "zstd"],
        Request @@ [n \in {"grpc-timeout"} |-> [value |-> 200, unit |-> 1]],
        Request @@ [n \in {"grpc-timeout"} |-> [value |-> 100, unit |-> 3]],
        Request @@ [n \in {"grpc-timeout"} |-> [value |-> 20, unit |-> 3]],
        Request @@ [n \in {"grpc-timeout"} |-> [value |-> 52, unit |-> 1]],
        Request @@ [n \in {"grpc-timeout"} |-> [value |-> 1, unit |-> 0]],
        Request @@ [n \in {"grpc-timeout"} |-> [value |-> 9, unit |-> 2]]}},
    !.foreignFrames = {Frame(FALSE, "identity", 2, 2), Frame(TRUE, "zstd", 1, 3),
                       Frame(TRUE, "gzip", 1, 3), Frame(TRUE, "zstd", 5, 3)},
    !.foreignReplies = {
        [http |-> h, head |-> Headers(d), trailers |-> Headers(t), frame |-> f] :
        h \in {200, 401, 403, 404, 415, 503},
        d \in {<<>>, [n \in {"content-type"} |-> "proto"],
               [n \in {"content-type", "grpc-encoding"} |-> "proto"],
               [n \in {"content-type", "grpc-status"} |->
                   IF n = "grpc-status" THEN "NotFound" ELSE "bare"],
               [n \in {"content-type", "grpc-status"} |->
                   IF n = "grpc-status" THEN "Ok" ELSE "json"]},
        t \in {<<>>, [n \in {"grpc-status"} |-> "Ok"],
               [n \in {"grpc-status"} |-> "Aborted"], [n \in {"grpc-status"} |-> "99"]},
        f \in {<<>>, <<Frame(FALSE, "identity", 2, 2)>>,
               <<Frame(TRUE, "gzip", 1, 2)>>}}]

MCScopes == {Deadlines, Entries, Statuses, Rewrites, Foreign} \cup Builds \cup OtherCodecs
=============================================================================
