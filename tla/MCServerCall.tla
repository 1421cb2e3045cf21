----------------------------- MODULE MCServerCall -----------------------------
(* Instances of ServerCall for TLC. *)
EXTENDS ServerCall

PlainHead(timeout) ==
    [contentType |-> TRUE, te |-> TRUE, encoding |-> "absent", timeout |-> timeout]

(* A call with and without a deadline, and every head the preflight refuses. *)
MCHeads ==
    {PlainHead(t) : t \in {"absent", "valid", "huge", "malformed"}}
    \cup {[PlainHead("valid") EXCEPT !.contentType = FALSE],
          [PlainHead("valid") EXCEPT !.te = FALSE],
          [PlainHead("malformed") EXCEPT !.encoding = "unknown"]}

MCTimedHeads == {PlainHead("absent"), PlainHead("valid")}
=============================================================================
