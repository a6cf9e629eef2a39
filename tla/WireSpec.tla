------------------------------ MODULE WireSpec ------------------------------
(***************************************************************************)
(* What one end of a websocket connection promises about the frames it     *)
(* puts on the wire (RFC 6455, section 5.5.1, as the comments of           *)
(* internal/nhooyr.io/websocket/write.go:250-254 restate it): any number   *)
(* of frames, then at most one close frame, then nothing.  Once the        *)
(* network connection is closed nothing is sent at all.                    *)
(***************************************************************************)
EXTENDS Sequences

CONSTANT
    Frame,      \* the frames that are not close frames
    CloseFrame  \* the close frame

VARIABLES
    out,   \* the frames sent, oldest first
    shut   \* the network connection is closed

Init == out = <<>> /\ shut = FALSE

Ended == out # <<>> /\ out[Len(out)] = CloseFrame

Send(f) ==
    /\ ~shut
    /\ ~Ended
    /\ out' = Append(out, f)
    /\ UNCHANGED shut

Shut == ~shut /\ shut' = TRUE /\ UNCHANGED out

Next == Shut \/ \E f \in Frame \cup {CloseFrame} : Send(f)

Spec == Init /\ [][Next]_<<out, shut>>
=============================================================================
