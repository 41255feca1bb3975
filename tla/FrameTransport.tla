---------------------------- MODULE FrameTransport ----------------------------
(***************************************************************************)
(* What a pair of FramedChannels promises its users: in each direction a   *)
(* FIFO of whole frames, up to the point where the sender's byte stream is *)
(* torn (a send abandoned between two of its bytes, or a peer that does    *)
(* not write this build's frames).  Past that point the receiver may hand  *)
(* out anything or nothing, but only once it has handed out every frame    *)
(* completed before it.  A receiver that gives up a channel together with  *)
(* bytes it had read ahead has lost its place: it is promised nothing.     *)
(***************************************************************************)
EXTENDS Integers, Sequences, SequencesExt

CONSTANTS Client, Server

Peers   == {Client, Server}
Peer(e) == IF e = Client THEN Server ELSE Client

VARIABLES sent,   \* sent[e]: the frames e completed before any tear, in order
          got,    \* got[e]: the frames recv returned to e, in order
          torn,   \* torn[e]: e's stream has left the framing
          lost    \* lost[e]: e has lost its place in its peer's stream

vars == << sent, got, torn, lost >>

Init == /\ sent = [e \in Peers |-> << >>]
        /\ got  = [e \in Peers |-> << >>]
        /\ torn = [e \in Peers |-> FALSE]
        /\ lost = [e \in Peers |-> FALSE]

\* e completes one more frame f.
Complete(e, f) == /\ ~torn[e]
                  /\ sent' = [sent EXCEPT ![e] = Append(@, f)]
                  /\ UNCHANGED << got, torn, lost >>

Tear(e) == /\ ~torn[e]
           /\ torn' = [torn EXCEPT ![e] = TRUE]
           /\ UNCHANGED << sent, got, lost >>

Lose(e) == /\ ~lost[e]
           /\ lost' = [lost EXCEPT ![e] = TRUE]
           /\ UNCHANGED << sent, got, torn >>

\* e is handed the next frame its peer completed.
Deliver(e) == /\ Len(got[e]) < Len(sent[Peer(e)])
              /\ got' = [got EXCEPT ![e] = Append(@, sent[Peer(e)][Len(@) + 1])]
              /\ UNCHANGED << sent, torn, lost >>

\* e, having been handed all of them, is handed f out of a torn stream; or
\* having lost its place.
Misread(e, f) == /\ \/ lost[e]
                    \/ torn[Peer(e)] /\ Len(got[e]) >= Len(sent[Peer(e)])
                 /\ got' = [got EXCEPT ![e] = Append(@, f)]
                 /\ UNCHANGED << sent, torn, lost >>

\* The frame a step completes or misreads is the last one of the new state:
\* frames are not enumerated.
Next == \E e \in Peers :
          \/ sent'[e] # << >> /\ Complete(e, Last(sent'[e]))
          \/ Tear(e)
          \/ Lose(e)
          \/ Deliver(e)
          \/ got'[e] # << >> /\ Misread(e, Last(got'[e]))

Spec == Init /\ [][Next]_vars
=============================================================================
