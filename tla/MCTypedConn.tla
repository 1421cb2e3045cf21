---------------------------- MODULE MCTypedConn ----------------------------
(* Instances of TypedConn for TLC. *)
EXTENDS TypedConn

GoodHead(status) ==
    [http |-> 200, grpcType |-> TRUE, encoding |-> TRUE, status |-> status]

(* A plain response, a Trailers-Only one that fails, and a proxy's 503. *)
MCHeads ==
    {GoodHead("absent"), GoodHead("Aborted"), [GoodHead("absent") EXCEPT !.http = 503]}
=============================================================================
