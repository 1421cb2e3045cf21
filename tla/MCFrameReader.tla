---------------------------- MODULE MCFrameReader ----------------------------
(* Instances of FrameReader for TLC: a two-byte prefix, payloads of up to    *)
(* MaxMessageSize + 1 bytes, every kind of frame.                            *)
EXTENDS FrameReader

(* Frames of our own writer, plain and compressed, of every size up to one
   over the limit, and the frames only a faulty peer writes; a compressed one
   on a stream without an encoding has nothing to inflate it.                *)
MCFrames ==
    {EncodedFrame(len, identity) : len \in 0..3, identity \in BOOLEAN}
    \cup {[compressed |-> TRUE, len |-> 2, content |-> c] :
             c \in {"corrupt", "oversized", "undecodable"}}
    \cup {[compressed |-> FALSE, len |-> 1, content |-> "undecodable"]}
=============================================================================
