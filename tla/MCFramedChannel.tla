--------------------------- MODULE MCFramedChannel ---------------------------
(* Small instances of FramedChannel. *)
EXTENDS FramedChannel

\* The smallest frame, one whose payload makes a torn stream look like
\* another frame, one encode() refuses for its size (MAX_PAYLOAD_LEN is 2).
Empty    == [version |-> 1, message_type |-> 1, payload |-> << >>]
Filled   == [version |-> 1, message_type |-> 2, payload |-> << 0, 1 >>]
TooLarge == [version |-> 1, message_type |-> 2, payload |-> << 0, 1, 0 >>]
V2       == [version |-> 2, message_type |-> 1, payload |-> << >>]

TwoFrames  == {Empty, Filled}
AllFrames  == {Empty, Filled, TooLarge, V2}
Unreadable == {TooLarge, V2}

NoFrames   == {}
=============================================================================
