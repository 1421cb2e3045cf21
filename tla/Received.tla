------------------------------ MODULE Received ------------------------------
(***************************************************************************)
(* What a client promises its caller about the response to one call,       *)
(* however the call is opened and whatever goes wrong: it hands over the   *)
(* messages the peer has sent, each once, then says how the call ended,    *)
(* and hands over nothing more; and a status that is the peer's to give,   *)
(* OK among them, only where the peer has ended with it and every message  *)
(* it sent was handed over (src/src/client/conn.rs:387-390, recv's doc).   *)
(* Asked once more it may say the same again, replace an error that the    *)
(* race gives again by another, or say that the call is over, which is     *)
(* then its last word; an error never turns into a status of the peer's.   *)
(***************************************************************************)
EXTENDS Naturals

CONSTANTS
    Statuses,   \* every status a call may end with
    PeersOwn,   \* those only the peer can give, "OK" among them
    Recurring   \* those the client gives again as long as it is asked

VARIABLES
    sent,       \* response frames the peer has sent
    said,       \* "open", then the status the peer ended with
    given,      \* messages handed to the caller
    verdict     \* "none", then what the caller was last told

receivedVars == <<sent, said, given, verdict>>

Start == sent = 0 /\ said = "open" /\ given = 0 /\ verdict = "none"

(* The peer, which the client cannot stop. *)
PeerSent ==
    /\ said = "open"
    /\ sent' = sent + 1
    /\ UNCHANGED <<said, given, verdict>>

PeerSaid ==
    /\ said = "open"
    /\ said' \in Statuses
    /\ UNCHANGED <<sent, given, verdict>>

HandOver ==
    /\ verdict = "none" /\ given < sent
    /\ given' = given + 1
    /\ UNCHANGED <<sent, said, verdict>>

Tell(status) ==
    /\ verdict = "none"
    /\ status \in PeersOwn => said = status /\ given = sent
    /\ verdict' = status
    /\ UNCHANGED <<sent, said, given>>

TellAnother ==
    /\ verdict \in Recurring /\ verdict' \in Recurring
    /\ UNCHANGED <<sent, said, given>>

Over ==
    /\ verdict \in Statuses \ {"OK"} /\ verdict' = "over"
    /\ UNCHANGED <<sent, said, given>>

Step ==
    \/ PeerSent \/ PeerSaid \/ HandOver \/ TellAnother \/ Over
    \/ \E s \in Statuses : Tell(s)

ReceivedSpec == Start /\ [][Step]_receivedVars
=============================================================================
