---------------------------- MODULE MCClientConn ----------------------------
(* Instances of ClientConn for TLC. *)
EXTENDS ClientConn

GoodHead(status) ==
    [http |-> 200, grpcType |-> TRUE, encoding |-> TRUE, status |-> status]

(* A plain response, a Trailers-Only one that succeeds or fails, a proxy's
   503, and the two other heads process_head refuses.                        *)
MCHeads ==
    {GoodHead("absent"), GoodHead("OK"), GoodHead("Aborted"),
     [GoodHead("absent") EXCEPT !.http = 503],
     [GoodHead("absent") EXCEPT !.grpcType = FALSE],
     [GoodHead("absent") EXCEPT !.encoding = FALSE]}

(* Enough for the questions about one call's liveness. *)
MCFewHeads == {GoodHead("absent"), [GoodHead("absent") EXCEPT !.http = 503]}
=============================================================================
