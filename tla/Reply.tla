-------------------------------- MODULE Reply --------------------------------
(***************************************************************************)
(* What a server promises the client about the reply to one call, whatever *)
(* the shape of the RPC: messages, then one status, then nothing.  For the *)
(* shapes with a single response ("one response frame followed by          *)
(* grpc-status trailers", src/src/server/dispatch.rs:43-44) the message comes *)
(* with an OK and with nothing else, and an OK without it only if user     *)
(* code failed with an error whose code is OK, as Status lets it           *)
(* (status.rs:131).  The transport may lose the rest.                      *)
(***************************************************************************)
EXTENDS Naturals

CONSTANTS Statuses   \* grpc-status codes, "OK" among them

VARIABLES
    many,     \* the shape streams its responses
    okError,  \* user code has failed with an error whose code is OK
    out,      \* response messages the client can see whole
    ending    \* "none", then the status of the trailers or "lost"

replyVars == <<many, okError, out, ending>>

Start == many \in BOOLEAN /\ okError = FALSE /\ out = 0 /\ ending = "none"

Message ==
    /\ ending = "none" /\ (many \/ out = 0)
    /\ out' = out + 1
    /\ UNCHANGED <<many, okError, ending>>

FailWithOk ==
    /\ ending = "none" /\ ~okError
    /\ okError' = TRUE
    /\ UNCHANGED <<many, out, ending>>

End(status) ==
    /\ ending = "none"
    /\ ~many => (out = 1 <=> status = "OK" /\ ~okError)
    /\ ending' = status
    /\ UNCHANGED <<many, okError, out>>

Lose ==
    /\ ending = "none"
    /\ ending' = "lost"
    /\ UNCHANGED <<many, okError, out>>

Step == Message \/ FailWithOk \/ Lose \/ \E status \in Statuses : End(status)

ReplySpec == Start /\ [][Step]_replyVars
=============================================================================
