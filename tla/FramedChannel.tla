---------------------------- MODULE FramedChannel ----------------------------
(***************************************************************************)
(* Two FramedChannels (crates/mw-transport/src/channel.rs) over one byte   *)
(* stream.  send() encodes a frame, write_all()s its bytes and flushes;    *)
(* recv() loops over decode_prefix and 4096-byte reads.  Both take         *)
(* &mut self, so an endpoint runs one operation at a time, and both are    *)
(* futures: between two polls anything may happen at the other end, and    *)
(* the caller may drop the future.                                         *)
(*                                                                         *)
(* The stream under the channel (a tokio duplex or a TLS stream) is        *)
(* external.  It accepts written bytes in portions of its choosing into a  *)
(* buffer of its own, moves them to a bounded pipe when it is polled for   *)
(* writing, and hands them over in portions.  wire[e] is the log of every  *)
(* byte the stream accepted from e; pushed and taken are offsets into it.  *)
(***************************************************************************)
EXTENDS Frame, SequencesExt

CONSTANTS Client, Server,
          Frames,         \* the frames applications pass to send()
          ForeignFrames,  \* frames of another build, written unchecked
          Chunk,          \* size of recv's read buffer, 4096
          PipeCapacity,   \* bytes in flight between the two streams
          StreamBuffer,   \* accepted bytes a stream holds before the pipe
          Portions,       \* the sizes in which the stream moves bytes
          Writers,        \* the endpoints whose application sends
          MaxSends,       \* bound: sends per endpoint
          Faults          \* what may happen: cancel, close, rewrap, break

ASSUME ChannelAssumption ==
    /\ Client # Server
    /\ Frames \subseteq FrameSet
    /\ ForeignFrames \subseteq FrameSet
    /\ \A f \in ForeignFrames : Fits(f)
    /\ Chunk \in Nat \ {0}
    /\ PipeCapacity \in Nat \ {0}
    /\ StreamBuffer \in Nat \ {0}
    /\ Portions \subseteq Nat \ {0}
    /\ Writers \subseteq {Client, Server}
    /\ MaxSends \in Nat

Peers   == {Client, Server}
Peer(e) == IF e = Client THEN Server ELSE Client

VARIABLES
  op,        \* op[e]: "idle", or where the future of e's operation waits
  frame,     \* frame[e]: the frame e's send() is writing
  off,       \* off[e]: how many of its bytes write_all() has got rid of
  read_buf,  \* read_buf[e]: FramedChannel::read_buf
  result,    \* result[e]: how e's last operation ended
  open,      \* open[e]: e has not dropped its channel
  broken,    \* the connection was lost
  wire, pushed, taken,   \* the streams
  torn,      \* torn[e]: wire[e] no longer is a sequence of whole frames
  done,      \* history: the frames e wrote whole before any tear, with the
             \* offset in wire[e] at which each ends
  got,       \* history: the frames recv() returned to e
  rejected,  \* history: a recv() of e's channel failed on a header
  lost,      \* history: e gave up a channel with bytes in its read_buf
  sends      \* number of sends, for the bound MaxSends

stream == << wire, pushed, taken >>
vars   == << op, frame, off, read_buf, result, open, broken, stream,
             torn, done, got, rejected, lost, sends >>

NoFrame == [version |-> 0, message_type |-> 0, payload |-> << >>]

Writing(e) == op[e] \in {"write", "flush"}

-----------------------------------------------------------------------------
Init ==
    /\ op       = [e \in Peers |-> "idle"]
    /\ frame    = [e \in Peers |-> NoFrame]
    /\ off      = [e \in Peers |-> 0]
    /\ read_buf = [e \in Peers |-> << >>]
    /\ result   = [e \in Peers |-> "none"]
    /\ open     = [e \in Peers |-> TRUE]
    /\ broken   = FALSE
    /\ wire     = [e \in Peers |-> << >>]
    /\ pushed   = [e \in Peers |-> 0]
    /\ taken    = [e \in Peers |-> 0]
    /\ torn     = [e \in Peers |-> FALSE]
    /\ done     = [e \in Peers |-> << >>]
    /\ got      = [e \in Peers |-> << >>]
    /\ rejected = [e \in Peers |-> FALSE]
    /\ lost     = [e \in Peers |-> FALSE]
    /\ sends    = [e \in Peers |-> 0]

Ready(e) == open[e] /\ op[e] = "idle"

\* Writes of e reach a live peer.
Up(e) == ~broken /\ open[Peer(e)]

\* The sizes the stream may choose when at most limit bytes can move.
Sizes(limit) == IF limit <= 0 THEN {}
                ELSE {IF p < limit THEN p ELSE limit : p \in Portions}

-----------------------------------------------------------------------------
(***************************************************************************)
(* send()                                                                  *)
(***************************************************************************)
\* send() of a frame encode() accepts: its bytes are ready, none is written.
Send(e, f) ==
    /\ Ready(e) /\ e \in Writers /\ sends[e] < MaxSends
    /\ Encode(f).tag = "Bytes"
    /\ op'    = [op EXCEPT ![e] = "write"]
    /\ frame' = [frame EXCEPT ![e] = f]
    /\ off'   = [off EXCEPT ![e] = 0]
    /\ sends' = [sends EXCEPT ![e] = @ + 1]
    /\ UNCHANGED << read_buf, result, open, broken, stream, torn, done, got, rejected, lost >>

\* send() of a frame encode() refuses returns before the stream is touched.
SendRefused(e, f) ==
    /\ Ready(e) /\ e \in Writers /\ sends[e] < MaxSends
    /\ Encode(f).tag = "Err"
    /\ result' = [result EXCEPT ![e] = Encode(f).error]
    /\ sends'  = [sends EXCEPT ![e] = @ + 1]
    /\ UNCHANGED << op, frame, off, read_buf, open, broken, stream, torn,
                    done, got, rejected, lost >>

\* A peer of another build writes a frame this build's encode() would refuse.
SendForeign(e, f) ==
    /\ Ready(e) /\ e \in Writers /\ sends[e] < MaxSends
    /\ op'    = [op EXCEPT ![e] = "write"]
    /\ frame' = [frame EXCEPT ![e] = f]
    /\ off'   = [off EXCEPT ![e] = 0]
    /\ sends' = [sends EXCEPT ![e] = @ + 1]
    /\ torn'  = [torn EXCEPT ![e] = TRUE]
    /\ UNCHANGED << read_buf, result, open, broken, stream, done, got, rejected, lost >>

\* The stream accepts n bytes of the frame of e, from offset from on; with the
\* last byte the future goes on to flush().
WriteFrom(e, n, from) ==
    /\ op[e] = "write" /\ Up(e)
    /\ LET left == Size(frame[e]) - off[e]
           room == StreamBuffer - (Len(wire[e]) - pushed[e])
           last == n = left
       IN  /\ n \in Sizes(IF left < room THEN left ELSE room)
           /\ wire' = [wire EXCEPT ![e] =
                         @ \o SubSeq(Layout(frame[e]), from + 1, from + n)]
           /\ off'  = [off EXCEPT ![e] = @ + n]
           /\ op'   = [op EXCEPT ![e] = IF last THEN "flush" ELSE "write"]
           /\ done' = [done EXCEPT ![e] =
                         IF last /\ ~torn[e]
                         THEN Append(@, [frame |-> frame[e],
                                         end   |-> Len(wire[e]) + n])
                         ELSE @]
    /\ UNCHANGED << frame, read_buf, result, open, broken, pushed, taken,
                    torn, got, rejected, lost, sends >>

\* Bugs: a single write() that must take the whole frame; a loop that starts
\* over from the first byte after a short write.
Bug_WriteWhole(e, n)    == n = Size(frame[e]) /\ WriteFrom(e, n, 0)
Bug_WriteRestarts(e, n) == WriteFrom(e, n, 0)

\* write_all() goes on from the first byte not yet accepted.
Write(e, n) == WriteFrom(e, n, off[e])

\* The stream moves n accepted bytes into the pipe.  A pending write or flush
\* makes it do so; otherwise it may.
Push(e, n) ==
    /\ open[e] /\ Up(e)
    /\ LET left == Len(wire[e]) - pushed[e]
           room == PipeCapacity - (pushed[e] - taken[e])
       IN  n \in Sizes(IF left < room THEN left ELSE room)
    /\ pushed' = [pushed EXCEPT ![e] = @ + n]
    /\ UNCHANGED << op, frame, off, read_buf, result, open, broken, wire,
                    taken, torn, done, got, rejected, lost, sends >>

\* Bug: the progress of an abandoned send() is kept.
Bug_EndSendKeepsOffset(e, res) ==
    /\ op'     = [op EXCEPT ![e] = "idle"]
    /\ frame'  = [frame EXCEPT ![e] = NoFrame]
    /\ result' = [result EXCEPT ![e] = res]
    /\ torn'   = [torn EXCEPT ![e] = @ \/ (op[e] = "write" /\ off[e] > 0)]
    /\ UNCHANGED << off, read_buf, open, broken, stream, done, got, rejected, lost, sends >>

\* The operation of e is over; the bytes of a frame cut short stay written.
EndSend(e, res) ==
    /\ op'     = [op EXCEPT ![e] = "idle"]
    /\ frame'  = [frame EXCEPT ![e] = NoFrame]
    /\ off'    = [off EXCEPT ![e] = 0]
    /\ result' = [result EXCEPT ![e] = res]
    /\ torn'   = [torn EXCEPT ![e] = @ \/ (op[e] = "write" /\ off[e] > 0)]
    /\ UNCHANGED << read_buf, open, broken, stream, done, got, rejected, lost, sends >>

\* Bug: send() returns without waiting for flush().
Bug_SendWithoutFlush(e) ==
    op[e] = "flush" /\ ~broken /\ EndSend(e, "Ok")

\* flush() has nothing left to push: send() returns Ok.
SendDone(e) ==
    /\ op[e] = "flush" /\ ~broken /\ pushed[e] = Len(wire[e])
    /\ EndSend(e, "Ok")

SendFails(e) == Writing(e) /\ ~Up(e) /\ EndSend(e, "Io")

\* The caller drops the send() future.
SendCancelled(e) ==
    "cancel" \in Faults /\ Writing(e) /\ EndSend(e, "Cancelled")

-----------------------------------------------------------------------------
(***************************************************************************)
(* recv()                                                                  *)
(***************************************************************************)
\* What recv() does with r, the result of decode_prefix, leaving rest in the
\* buffer: a frame or an error is returned, or the future waits for the stream.
Settle(e, r, rest) ==
    /\ op' = [op EXCEPT ![e] = IF r = None THEN "recv" ELSE "idle"]
    /\ read_buf' = [read_buf EXCEPT ![e] = rest]
    /\ got' = [got EXCEPT ![e] =
                 IF r.tag = "Some" THEN Append(@, r.frame) ELSE @]
    /\ rejected' = [rejected EXCEPT ![e] = @ \/ r.tag = "Err"]
    /\ result' = [result EXCEPT ![e] =
                    CASE r.tag = "Some" -> "Ok"
                      [] r.tag = "Err"  -> r.error
                      [] OTHER          -> @]

\* Bugs: a returned frame takes the whole buffer with it; or stays in it; or a
\* rejected header is thrown away, to look for the next frame.
Bug_DrainAll(e, buf) ==
    LET r == DecodePrefix(buf)
    IN  Settle(e, r, IF r.tag = "Some" THEN << >> ELSE buf)

Bug_DrainNothing(e, buf) == Settle(e, DecodePrefix(buf), buf)

Bug_Resynchronise(e, buf) ==
    LET r == DecodePrefix(buf)
    IN  Settle(e, r, CASE r.tag = "Some" -> SubSeq(buf, r.consumed + 1, Len(buf))
                       [] r.tag = "Err"  -> << >>
                       [] OTHER          -> buf)

\* The head of recv's loop, the buffer being buf: a decoded frame is drained.
LoopHead(e, buf) ==
    LET r == DecodePrefix(buf)
    IN  Settle(e, r, IF r.tag = "Some"
                     THEN SubSeq(buf, r.consumed + 1, Len(buf)) ELSE buf)

\* recv() is called.
Recv(e) ==
    /\ Ready(e)
    /\ LoopHead(e, read_buf[e])
    /\ UNCHANGED << frame, off, open, broken, stream, torn, done, lost, sends >>

\* read() hands over n bytes, which are buffered before the loop continues.
RecvRead(e, n) ==
    /\ op[e] = "recv" /\ ~broken
    /\ LET p     == Peer(e)
           avail == pushed[p] - taken[p]
       IN  /\ n \in Sizes(IF avail < Chunk THEN avail ELSE Chunk)
           /\ taken' = [taken EXCEPT ![p] = @ + n]
           /\ LoopHead(e, read_buf[e]
                          \o SubSeq(wire[p], taken[p] + 1, taken[p] + n))
    /\ UNCHANGED << frame, off, open, broken, wire, pushed, torn, done, lost, sends >>

EndRecv(e, res) ==
    /\ op'     = [op EXCEPT ![e] = "idle"]
    /\ result' = [result EXCEPT ![e] = res]
    /\ UNCHANGED << frame, off, read_buf, open, broken, stream, torn, done,
                    got, rejected, lost, sends >>

\* read() returns 0: the peer is gone and all it pushed has been read.
RecvEof(e) ==
    /\ op[e] = "recv" /\ ~broken
    /\ ~open[Peer(e)] /\ taken[Peer(e)] = pushed[Peer(e)]
    /\ EndRecv(e, "UnexpectedEof")

RecvFails(e) == op[e] = "recv" /\ broken /\ EndRecv(e, "Io")

\* Bug: bytes gathered so far belong to the future and are dropped with it.
Bug_RecvCancelledLosesBytes(e) ==
    /\ "cancel" \in Faults /\ op[e] = "recv"
    /\ op'       = [op EXCEPT ![e] = "idle"]
    /\ read_buf' = [read_buf EXCEPT ![e] = << >>]
    /\ result'   = [result EXCEPT ![e] = "Cancelled"]
    /\ UNCHANGED << frame, off, open, broken, stream, torn, done, got, rejected, lost, sends >>

\* The caller drops the recv() future; what it buffered stays in read_buf.
RecvCancelled(e) ==
    "cancel" \in Faults /\ op[e] = "recv" /\ EndRecv(e, "Cancelled")

-----------------------------------------------------------------------------
\* into_inner() and FramedChannel::new() on the stream it returns: what had
\* been read ahead of the last returned frame is gone with the old channel.
Rewrap(e) ==
    /\ "rewrap" \in Faults /\ Ready(e)
    /\ read_buf' = [read_buf EXCEPT ![e] = << >>]
    /\ lost'     = [lost EXCEPT ![e] = @ \/ read_buf[e] # << >>]
    /\ rejected' = [rejected EXCEPT ![e] = FALSE]
    /\ UNCHANGED << op, frame, off, result, open, broken, stream, torn, done, got, sends >>

\* The channel is dropped, or its stream taken out of it and dropped.
Close(e) ==
    /\ "close" \in Faults /\ Ready(e)
    /\ open' = [open EXCEPT ![e] = FALSE]
    /\ UNCHANGED << op, frame, off, read_buf, result, broken, stream, torn,
                    done, got, rejected, lost, sends >>

Break ==
    /\ "break" \in Faults /\ ~broken
    /\ broken' = TRUE
    /\ UNCHANGED << op, frame, off, read_buf, result, open, stream, torn,
                    done, got, rejected, lost, sends >>

Next ==
    \/ \E e \in Peers :
         \/ \E f \in Frames : Send(e, f) \/ SendRefused(e, f)
         \/ \E f \in ForeignFrames : SendForeign(e, f)
         \/ \E n \in 1..StreamBuffer : Write(e, n)
         \/ \E n \in 1..PipeCapacity : Push(e, n)
         \/ SendDone(e) \/ SendFails(e) \/ SendCancelled(e)
         \/ Recv(e)
         \/ \E n \in 1..Chunk : RecvRead(e, n)
         \/ RecvEof(e) \/ RecvFails(e) \/ RecvCancelled(e)
         \/ Rewrap(e) \/ Close(e)
    \/ Break

Spec == Init /\ [][Next]_vars

\* The runtime polls a woken future, so an operation that can go on does; and
\* an idle application eventually receives.  Nobody is made to send.
Fairness ==
    \A e \in Peers :
      /\ WF_vars(\E n \in 1..StreamBuffer : Write(e, n))
      /\ WF_vars(Writing(e) /\ \E n \in 1..PipeCapacity : Push(e, n))
      /\ WF_vars(SendDone(e)) /\ WF_vars(SendFails(e))
      /\ WF_vars(Recv(e))
      /\ WF_vars(\E n \in 1..Chunk : RecvRead(e, n))
      /\ WF_vars(RecvEof(e)) /\ WF_vars(RecvFails(e))

FairSpec == Spec /\ Fairness

-----------------------------------------------------------------------------
(***************************************************************************)
(* Properties                                                              *)
(***************************************************************************)
Results == {"none", "Ok", "Io", "Cancelled", "UnexpectedEof",
            "UnsupportedWireVersion", "PayloadTooLarge"}

Typed ==
    /\ op       \in [Peers -> {"idle", "write", "flush", "recv"}]
    /\ frame    \in [Peers -> FrameSet]
    /\ off      \in [Peers -> Nat]
    /\ read_buf \in [Peers -> Seq(Byte)]
    /\ result   \in [Peers -> Results]
    /\ open     \in [Peers -> BOOLEAN]
    /\ broken   \in BOOLEAN
    /\ wire     \in [Peers -> Seq(Byte)]
    /\ pushed   \in [Peers -> Nat]
    /\ taken    \in [Peers -> Nat]
    /\ torn     \in [Peers -> BOOLEAN]
    /\ done     \in [Peers -> Seq([frame : FrameSet, end : Nat])]
    /\ got      \in [Peers -> Seq(FrameSet)]
    /\ rejected \in [Peers -> BOOLEAN]
    /\ lost     \in [Peers -> BOOLEAN]
    /\ sends    \in [Peers -> Nat]

\* write_all()'s progress lies within the frame, and reaches its end only on
\* the way to flush().
Progress(e) ==
    /\ off[e] <= Size(frame[e])
    /\ op[e] = "write" => off[e] < Size(frame[e])

\* The offsets of the stream of e are ordered and its buffers not overfull.
Flow(e) ==
    /\ taken[e] <= pushed[e] /\ pushed[e] <= Len(wire[e])
    /\ pushed[e] - taken[e] <= PipeCapacity
    /\ Len(wire[e]) - pushed[e] <= StreamBuffer

\* Type invariant, with the bounds of the offsets send() and the streams keep:
\* no slice the code takes is out of range.
TypeOK ==
    /\ Typed
    /\ \A e \in Peers : Progress(e) /\ Flow(e)

\* However the stream cuts the bytes up, however often recv() is dropped and
\* called again, and through any number of channels on the stream one after
\* the other, none of them given up with bytes in its buffer: the frames
\* recv() returns are those the peer wrote whole, in order, none skipped, none
\* twice; anything else comes only after all of them and only out of a torn
\* stream.
DeliveredInOrder ==
    \A e \in Peers : ~lost[e] =>
      /\ \A i \in 1..Len(got[e]) :
           i <= Len(done[Peer(e)]) => got[e][i] = done[Peer(e)][i].frame
      /\ Len(got[e]) > Len(done[Peer(e)]) => torn[Peer(e)]

\* How far the frames returned to e reach in the stream of its peer.
Returned(e) ==
    IF got[e] = << >> THEN 0 ELSE done[Peer(e)][Len(got[e])].end

\* read_buf is exactly what was read and not yet returned, over all reads,
\* dropped futures and channels: what into_inner() gives up is the bytes after
\* the last returned frame, no more and no fewer.
BufferIsTheUnreturned ==
    \A e \in Peers :
      ~lost[e] /\ Len(got[e]) <= Len(done[Peer(e)]) =>
        read_buf[e] = SubSeq(wire[Peer(e)], Returned(e) + 1, taken[Peer(e)])

\* A recv() that waits for the stream has returned every frame all of whose
\* bytes it has read: none sits in read_buf while the caller waits.
WaitsOnlyForMissingBytes ==
    \A e \in Peers : op[e] = "recv" /\ ~lost[e] =>
      \A i \in 1..Len(done[Peer(e)]) :
        done[Peer(e)][i].end <= taken[Peer(e)] => i <= Len(got[e])

\* End of file is the last thing a recv() reports of a stream: every frame that
\* reached the connection whole before the peer closed has been returned, also
\* one whose last byte came with the last read (channel.rs:154-167).
EndOfFileComesLast ==
    [][\A e \in Peers :
         op[e] = "recv" /\ op'[e] = "idle" /\ result'[e] = "UnexpectedEof" /\ ~lost[e] =>
           \A i \in 1..Len(done[Peer(e)]) :
             done[Peer(e)][i].end <= pushed[Peer(e)] => i <= Len(got[e])]_vars

\* A peer cannot make read_buf grow by declaring a length or by sending fast:
\* a recv() that asks the stream for more holds less than the largest frame,
\* and the buffer is never longer than a header and the larger of a payload
\* and a read.
BufferBound ==
    \A e \in Peers :
      /\ op[e] = "recv" => Len(read_buf[e]) < HEADER_LEN + MAX_PAYLOAD_LEN
      /\ Len(read_buf[e]) < HEADER_LEN
                            + (IF MAX_PAYLOAD_LEN < Chunk THEN Chunk
                                                          ELSE MAX_PAYLOAD_LEN)

\* Once a recv() has failed on a header this build cannot accept, no later one
\* of the channel reads another byte or returns a frame: the stream is not
\* resynchronised, unless the caller takes it out of the channel.
RejectionIsFinal ==
    [][\A e \in Peers : rejected[e] /\ ~Rewrap(e) =>
         /\ read_buf'[e] = read_buf[e]
         /\ got'[e] = got[e]
         /\ taken'[Peer(e)] = taken[Peer(e)]]_vars

\* The two channels implement the FIFO of whole frames.
Transport == INSTANCE FrameTransport
    WITH sent <- [e \in Peers |-> [i \in DOMAIN done[e] |-> done[e][i].frame]]

ImplementsTransport == Transport!Spec

\* Both endpoints are in send(), and neither stream can take or move another
\* byte: &mut self keeps an endpoint from receiving while it sends.
Wedged ==
    \A e \in Peers :
      /\ Writing(e)
      /\ pushed[e] - taken[e] = PipeCapacity
      /\ Len(wire[e]) - pushed[e] = StreamBuffer
         \/ (op[e] = "flush" /\ pushed[e] < Len(wire[e]))

\* Every frame written whole is received, also from a sender that then leaves,
\* unless the receiver leaves or the two endpoints wait for each other.
EveryFrameArrives ==
    \A e \in Peers : \A i \in 1..MaxSends :
      Len(done[e]) >= i ~> (Len(got[Peer(e)]) >= i \/ ~open[Peer(e)] \/ Wedged)

\* A send() returns, Ok or with an error, unless the two endpoints wait for
\* each other; nothing else makes it wait for ever.
SendReturnsUnlessWedged ==
    \A e \in Peers : Writing(e) ~> (~Writing(e) \/ Wedged)
=============================================================================
